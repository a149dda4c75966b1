------------------------------ MODULE CaTrust -------------------------------
(***************************************************************************)
(* `rogatio runtime install` and `uninstall`: the native-messaging         *)
(* manifests, the device-local certificate authority (CA), its place in    *)
(* the system's trust store and the wrapper of the host (trust.ts,         *)
(* trust-platform, the CLI's runtime command).                             *)
(*                                                                         *)
(* One process at a time runs one command.  A step is one write or removal *)
(* of a file (writes are atomic, by rename) or one call of the system's    *)
(* trust tool; each may fail, and the process may be killed between two.   *)
(***************************************************************************)
EXTENDS Integers, FiniteSets, SequencesExt

CONSTANTS
  Dirs,         \* directories that take a manifest
  Extensions,   \* extension ids
  None,         \* no file
  Broken,       \* a key file that is no longer the key of its CA
  Stores,       \* kinds of trust store: "keychain" (macOS, Windows) holds many CAs,
                \* "debian" and "p11kit" (Linux) hold one, a file
  MayFail,      \* "file", "caps", "trust", "retire", "remover"
  MaxCAs, MaxCommands, MaxCrashes, MaxFaults, MaxBreaks   \* bounds

ASSUME TrustAssumption ==
  /\ Dirs # {} /\ IsFiniteSet(Dirs) /\ None \notin Dirs \cup Extensions \cup Nat
  /\ Broken \notin Nat \cup {None}
  /\ Stores \subseteq {"keychain", "debian", "p11kit"}
  /\ MayFail \subseteq {"file", "caps", "trust", "retire", "remover"}
  /\ {MaxCAs, MaxCommands, MaxCrashes, MaxFaults, MaxBreaks} \subseteq Nat

VARIABLES
  manifests,  \* manifests[d]: the extension the manifest in d lets in
  record,     \* the list of directories is recorded
  files,      \* .rogatio-ca.key, .pub and .crt: the CA they belong to
  previous,   \* .rogatio-ca.previous.crt: the CA being replaced
  pending,    \* .rogatio-ca-store-pending is there
  wrapper,    \* runtime-host is there
  store,      \* kind of the trust store
  anchors,    \* the Rogatio CAs in the trust store
  proc,       \* the running command
  made,       \* how many CAs were generated
  stray,      \* history: the trusted CAs that an install knowingly left behind
  spent       \* commands, crashes, faults and breaks so far

disk == <<manifests, record, files, previous, pending, wrapper>>
vars == <<disk, store, anchors, proc, made, stray, spent>>

Linux == store # "keychain"
CAs   == 1 .. MaxCAs
Files == {"key", "pub", "cert"}
Order == <<"key", "pub", "cert">>
InOrder(F) ==
  LET one(f) == IF f \in F THEN <<f>> ELSE <<>>
  IN  one("key") \o one("pub") \o one("cert")

-----------------------------------------------------------------------------
(* The running command.                                                    *)

Idle == [at |-> "idle"]

Device == [manifests |-> manifests, record |-> record, files |-> files,
           previous |-> previous, anchors |-> anchors]

\* `before` is the device when the command began: what the code has read since,
\* as no one else writes.  `slips` counts the calls of the command that failed.
Begun(cmd, id, at, todo) ==
  [cmd |-> cmd, id |-> id, at |-> at, todo |-> todo, written |-> {},
   reuse |-> FALSE, fresh |-> TRUE, kept |-> None, done |-> {}, ok |-> TRUE, slips |-> 0,
   before |-> Device]

Steps == {"manifests", "record", "caps", "decide", "sibling", "save", "files", "trust",
          "retire", "discard", "unmark", "wrap", "undo", "restore",
          "remove", "forget", "mark", "delete", "untrust", "clear", "anchor", "drop",
          "unwrap", "report", "thrown"}

TypeOK ==
  /\ manifests \in [Dirs -> Extensions \cup {None}]
  /\ files \in [Files -> CAs \cup {None, Broken}]
  /\ previous \in CAs \cup {None}
  /\ {record, pending, wrapper} \subseteq BOOLEAN
  /\ store \in Stores
  /\ stray \subseteq anchors /\ anchors \subseteq CAs
  /\ Linux => Cardinality(anchors) <= 1
  /\ made \in 0 .. MaxCAs
  /\ proc = Idle \/ proc.at \in Steps

Init ==
  /\ manifests = [d \in Dirs |-> None] /\ record = FALSE
  /\ files = [f \in Files |-> None] /\ previous = None
  /\ pending = FALSE /\ wrapper = FALSE
  /\ store \in Stores /\ anchors = {}
  /\ proc = Idle
  /\ made = 0 /\ stray = {}
  /\ spent = [commands |-> 0, crashes |-> 0, faults |-> 0, breaks |-> 0]

At(at) == proc.at = at
Go(at) == proc' = [proc EXCEPT !.at = at]
Spend(what, most) ==
  /\ spent[what] < most
  /\ spent' = [spent EXCEPT ![what] = @ + 1]

\* A call of the command fails and the command goes on as p.
Fails(call, p) ==
  /\ call \in MayFail
  /\ Spend("faults", MaxFaults)
  /\ proc' = [p EXCEPT !.slips = @ + 1]

\* A call of the command succeeds and the command goes on as p.
Works(p) == proc' = p /\ UNCHANGED spent

\* The rest of a list of calls, or the next stage.
Onward(p, stage) ==
  IF Len(p.todo) > 1 THEN [p EXCEPT !.todo = Tail(@)]
  ELSE [p EXCEPT !.at = stage, !.todo = <<>>]

-----------------------------------------------------------------------------
(* install: the manifests.  The directories are recorded on Linux alone,   *)
(* where there may be more than one.                                       *)

Hosts == IF Linux THEN Dirs ELSE {CHOOSE d \in Dirs : TRUE}

Install(id) ==
  /\ At("idle")
  /\ Spend("commands", MaxCommands)
  /\ proc' = Begun("install", id, "manifests", SetToSeq(Hosts))
  /\ UNCHANGED <<disk, store, anchors, made, stray>>

\* rollbackWritten comes next; None stands for the record.
Restoring(p) ==
  [p EXCEPT !.ok = FALSE, !.todo = SetToSeq(p.written),
            !.at = IF p.written = {} THEN "report" ELSE "restore"]

WriteManifest ==
  /\ At("manifests")
  /\ LET d == Head(proc.todo)
         rest == [proc EXCEPT !.written = @ \cup {d}]
     IN  \/ /\ manifests' = [manifests EXCEPT ![d] = proc.id]
            /\ Works(Onward(rest, IF Linux THEN "record" ELSE "caps"))
         \/ Fails("file", Restoring(proc)) /\ UNCHANGED manifests
  /\ UNCHANGED <<record, files, previous, pending, wrapper, store, anchors, made, stray>>

WriteRecord ==
  /\ At("record")
  /\ \/ /\ record' = TRUE
        /\ Works([proc EXCEPT !.at = "caps", !.written = @ \cup {None}])
     \/ Fails("file", Restoring(proc)) /\ UNCHANGED record
  /\ UNCHANGED <<manifests, files, previous, pending, wrapper, store, anchors, made, stray>>

\* Without the capability to trust a CA the manifests are taken back.
CheckCaps ==
  /\ At("caps")
  /\ Works([proc EXCEPT !.at = "decide"]) \/ Fails("caps", Restoring(proc))
  /\ UNCHANGED <<disk, store, anchors, made, stray>>

\* rollbackWritten, best effort.
RestoreWritten ==
  /\ At("restore")
  /\ LET d == Head(proc.todo)
     IN  \/ /\ manifests' = [x \in Dirs |-> IF x = d THEN proc.before.manifests[x]
                                            ELSE manifests[x]]
            /\ record' = IF d = None THEN proc.before.record ELSE record
            /\ Works(Onward(proc, "report"))
         \/ Fails("file", Onward(proc, "report")) /\ UNCHANGED <<manifests, record>>
  /\ UNCHANGED <<files, previous, pending, wrapper, store, anchors, made, stray>>

-----------------------------------------------------------------------------
(* install: the CA (runCaTrust, rollbackReplacedCa).                       *)

\* reusableCaMaterial: the key is the key of the certificate.
Reusable == files["key"] = files["cert"] /\ files["cert"] \in CAs

Writing(p) == [p EXCEPT !.at = "files", !.todo = Order]

\* rollbackReplacedCa: the files it touches and what each gets back.
UndoPlan(p) ==
  LET gone(F) == [f \in F |-> None]
      copied  == p.kept # None /\ previous = p.kept
  IN  IF p.reuse THEN gone({})
      ELSE IF p.fresh THEN gone(p.done)
      ELSE IF ~copied THEN gone({})
      ELSE IF "cert" \notin p.done
           THEN [f \in {g \in {"key", "pub"} : g \in p.done \/ p.before.files[g] # None} |->
                   p.before.files[f]]
      ELSE IF files["cert"] # p.kept THEN gone(p.done) ELSE gone({})

\* The CA cannot be had: its files are put in order, then the manifests.
Undoing(p) ==
  LET plan == DOMAIN UndoPlan(p)
  IN  IF plan = {} THEN Restoring(p) ELSE [p EXCEPT !.at = "undo", !.todo = InOrder(plan)]

\* The CA at hand is used again.  Otherwise a new one replaces the live one, or
\* the one that an earlier attempt was replacing, unless a file cannot be read.
Decide ==
  /\ At("decide")
  /\ LET live == files["cert"]
         new  == [proc EXCEPT !.fresh = (live = None /\ previous = None)]
     IN  \/ /\ Reusable
            /\ Works([proc EXCEPT !.at = "trust", !.reuse = TRUE])
            /\ UNCHANGED made
         \/ ~Reusable /\ Fails("file", Undoing(proc)) /\ UNCHANGED made
         \/ /\ ~Reusable /\ made < MaxCAs
            /\ made' = made + 1
            /\ Works(IF live = None THEN Writing([new EXCEPT !.kept = previous])
                     ELSE [new EXCEPT !.at = IF previous \in {None, live} THEN "save"
                                             ELSE "sibling"])
  /\ UNCHANGED <<disk, store, anchors, stray>>

\* retireAnchor: a failure is a warning.  Linux has no anchor of its own to remove.
Retire(ca, p) ==
  \/ /\ anchors' = IF store = "keychain" THEN anchors \ {ca} ELSE anchors
     /\ stray' = stray \cap anchors'
     /\ Works(p)
  \/ /\ store = "keychain" /\ Fails("retire", p)
     /\ stray' = stray \cup ({ca} \cap anchors)
     /\ UNCHANGED anchors

\* The copy holds yet another CA, which goes before its bytes are overwritten.
RetireSibling ==
  /\ At("sibling")
  /\ Retire(previous, [proc EXCEPT !.at = "save"])
  /\ UNCHANGED <<disk, store, made>>

\* Mutant of SavePrevious: no copy is kept of the CA that is replaced.
SavePreviousNot ==
  /\ At("save")
  /\ Works(Writing(proc))
  /\ UNCHANGED <<disk, store, anchors, made, stray>>

SavePrevious ==
  /\ At("save")
  /\ \/ /\ previous' = files["cert"]
        /\ Works(Writing([proc EXCEPT !.kept = files["cert"]]))
     \/ Fails("file", Undoing(proc)) /\ UNCHANGED previous
  /\ UNCHANGED <<manifests, record, files, pending, wrapper, store, anchors, made, stray>>

WriteFile ==
  /\ At("files")
  /\ LET f == Head(proc.todo)
     IN  \/ /\ files' = [files EXCEPT ![f] = made]
            /\ Works(Onward([proc EXCEPT !.done = @ \cup {f}], "trust"))
         \/ Fails("file", Undoing(proc)) /\ UNCHANGED files
  /\ UNCHANGED <<manifests, record, previous, pending, wrapper, store, anchors, made, stray>>

\* Mutant of Outgoing: a CA that is used again makes none redundant.
OutgoingKept == proc.kept

\* The CA that the one in use makes redundant, if any.
Outgoing == IF proc.reuse THEN previous ELSE proc.kept

Trusted(ca) == IF store = "keychain" THEN anchors \cup {ca} ELSE {ca}

\* caTrustInstaller.  When the refresh after the file fails, Debian keeps the
\* file and p11-kit removes it.
TrustCa ==
  /\ At("trust")
  /\ \/ /\ anchors' = Trusted(files["cert"])
        /\ Works([proc EXCEPT !.at = CASE Outgoing = None -> "unmark"
                                       [] Outgoing = files["cert"] -> "discard"
                                       [] OTHER -> "retire"])
     \/ /\ Fails("trust", Undoing(proc))
        /\ \/ UNCHANGED anchors
           \/ store = "debian" /\ anchors' = Trusted(files["cert"])
           \/ store = "p11kit" /\ anchors' = {}
  /\ stray' = stray \cap anchors'
  /\ UNCHANGED <<disk, store, made>>

RetireOutgoing ==
  /\ At("retire")
  /\ Retire(Outgoing, [proc EXCEPT !.at = "discard"])
  /\ UNCHANGED <<disk, store, made>>

\* discardPreviousCa: "The next regeneration replaces a leftover copy."
DiscardPrevious ==
  /\ At("discard")
  /\ \/ previous' = None /\ Works([proc EXCEPT !.at = "unmark"])
     \/ Fails("file", [proc EXCEPT !.at = "unmark"]) /\ UNCHANGED previous
  /\ UNCHANGED <<manifests, record, files, pending, wrapper, store, anchors, made, stray>>

\* The marker goes, also when what it stands for, a CA that an uninstall could
\* not remove, is still trusted.  No handler guards the removal: when it fails,
\* install() rejects and the CLI ends, without a rollback and without a wrapper.
Unmark ==
  /\ At("unmark")
  /\ \/ /\ pending' = FALSE
        /\ stray' = IF pending THEN stray \cup (anchors \ {files["cert"]}) ELSE stray
        /\ Works([proc EXCEPT !.at = "wrap"])
     \/ Fails("file", [proc EXCEPT !.at = "thrown"]) /\ UNCHANGED <<pending, stray>>
  /\ UNCHANGED <<manifests, record, files, previous, wrapper, store, anchors, made>>

\* activeManifestDirs: the recorded ones, or those that have a manifest.
ActiveDirs ==
  LET present == {d \in Hosts : manifests[d] # None}
  IN  IF record \/ present = {} THEN Hosts ELSE present

\* uninstall() begins, of a command of its own or after an install.
Removing(p) == [p EXCEPT !.at = "remove", !.todo = SetToSeq(ActiveDirs), !.before = Device]

\* The CLI writes the wrapper; when it cannot, it uninstalls.
Wrap ==
  /\ At("wrap")
  /\ \/ wrapper' = TRUE /\ Works([proc EXCEPT !.at = "report"])
     \/ Fails("file", [Removing(proc) EXCEPT !.cmd = "rollback"]) /\ UNCHANGED wrapper
  /\ UNCHANGED <<manifests, record, files, previous, pending, store, anchors, made, stray>>

\* One file of the plan; the first failure ends the rollback of the CA.
UndoFile ==
  /\ At("undo")
  /\ LET f == Head(proc.todo)
     IN  \/ /\ files' = [files EXCEPT ![f] = UndoPlan(proc)[f]]
            /\ Works(IF Len(proc.todo) = 1 THEN Restoring(proc)
                     ELSE [proc EXCEPT !.todo = Tail(@)])
         \/ Fails("file", Restoring(proc)) /\ UNCHANGED files
  /\ UNCHANGED <<manifests, record, previous, pending, wrapper, store, anchors, made, stray>>

-----------------------------------------------------------------------------
(* uninstall (removeCa).  The first failure ends it.                       *)

Uninstall ==
  /\ At("idle")
  /\ Spend("commands", MaxCommands)
  /\ proc' = Removing(Begun("uninstall", None, "remove", <<>>))
  /\ UNCHANGED <<disk, store, anchors, made, stray>>

\* A failed install has no wrapper to remove.
Ends(p)   == [p EXCEPT !.at = IF p.cmd = "uninstall" THEN "unwrap" ELSE "report"]
GivesUp   == Ends([proc EXCEPT !.ok = FALSE])

RemoveManifest ==
  /\ At("remove")
  /\ \/ /\ manifests' = [manifests EXCEPT ![Head(proc.todo)] = None]
        /\ Works(Onward(proc, IF Linux THEN "forget" ELSE "mark"))
     \/ Fails("file", GivesUp) /\ UNCHANGED manifests
  /\ UNCHANGED <<record, files, previous, pending, wrapper, store, anchors, made, stray>>

ForgetDirs ==
  /\ At("forget")
  /\ \/ record' = FALSE /\ Works([proc EXCEPT !.at = "mark"])
     \/ Fails("file", GivesUp) /\ UNCHANGED record
  /\ UNCHANGED <<manifests, files, previous, pending, wrapper, store, anchors, made, stray>>

\* What removeCa read first.
KeyWasPresent == proc.before.files["key"] # None
Saved         == proc.before.previous

MarkPending ==
  /\ At("mark")
  /\ \/ /\ pending' = (pending \/ KeyWasPresent)
        /\ Works([proc EXCEPT !.at = "delete", !.todo = Order])
     \/ KeyWasPresent /\ Fails("file", GivesUp) /\ UNCHANGED pending
  /\ UNCHANGED <<manifests, record, files, previous, wrapper, store, anchors, made, stray>>

\* The copy of a replaced CA, when removing the live one does not cover it.
AfterStore ==
  IF Saved = None THEN Ends(proc)
  ELSE [proc EXCEPT !.at = IF KeyWasPresent /\ Saved = proc.before.files["cert"]
                           THEN "drop" ELSE "anchor"]

DeleteFile ==
  /\ At("delete")
  /\ \/ /\ files' = [files EXCEPT ![Head(proc.todo)] = None]
        /\ Works(IF Len(proc.todo) > 1 THEN Onward(proc, "delete")
                 ELSE IF pending THEN [proc EXCEPT !.at = "untrust"] ELSE AfterStore)
     \/ Fails("file", GivesUp) /\ UNCHANGED files
  /\ UNCHANGED <<manifests, record, previous, pending, wrapper, store, anchors, made, stray>>

\* caTrustRemover, by the name that every Rogatio CA has.
Untrust ==
  /\ At("untrust")
  /\ \/ anchors' = {} /\ stray' = {} /\ Works([proc EXCEPT !.at = "clear"])
     \/ Fails("remover", GivesUp) /\ UNCHANGED <<anchors, stray>>
  /\ UNCHANGED <<disk, store, made>>

ClearPending ==
  /\ At("clear")
  /\ \/ pending' = FALSE /\ Works(AfterStore)
     \/ Fails("file", GivesUp) /\ UNCHANGED pending
  /\ UNCHANGED <<manifests, record, files, previous, wrapper, store, anchors, made, stray>>

\* caTrustAnchorRemover, by fingerprint; nothing on Linux.
RemoveAnchor ==
  /\ At("anchor")
  /\ \/ /\ anchors' = IF store = "keychain" THEN anchors \ {Saved} ELSE anchors
        /\ stray' = stray \cap anchors'
        /\ Works([proc EXCEPT !.at = "drop"])
     \/ store = "keychain" /\ Fails("retire", GivesUp) /\ UNCHANGED <<anchors, stray>>
  /\ UNCHANGED <<disk, store, made>>

DropPrevious ==
  /\ At("drop")
  /\ \/ previous' = None /\ Works(Ends(proc))
     \/ Fails("file", GivesUp) /\ UNCHANGED previous
  /\ UNCHANGED <<manifests, record, files, pending, wrapper, store, anchors, made, stray>>

\* The CLI removes the wrapper, best effort.
Unwrap ==
  /\ At("unwrap")
  /\ \/ wrapper' = FALSE /\ Works([proc EXCEPT !.at = "report"])
     \/ Fails("file", [proc EXCEPT !.at = "report"]) /\ UNCHANGED wrapper
  /\ UNCHANGED <<manifests, record, files, previous, pending, store, anchors, made, stray>>

-----------------------------------------------------------------------------
(* The rest of the world.                                                  *)

\* The result, or the error that was thrown, is printed and the process ends.
Report ==
  /\ At("report") \/ At("thrown")
  /\ proc' = Idle
  /\ UNCHANGED <<disk, store, anchors, made, stray, spent>>

Crash ==
  /\ ~At("idle")
  /\ Spend("crashes", MaxCrashes)
  /\ proc' = Idle
  /\ UNCHANGED <<disk, store, anchors, made, stray>>

\* The key stops being usable: its mode, its owner or its bytes change.
BreakKey ==
  /\ At("idle") /\ files["key"] \in CAs
  /\ Spend("breaks", MaxBreaks)
  /\ files' = [files EXCEPT !["key"] = Broken]
  /\ UNCHANGED <<manifests, record, previous, pending, wrapper, store, anchors, proc, made, stray>>

Next ==
  \/ \E id \in Extensions : Install(id)
  \/ WriteManifest \/ WriteRecord \/ CheckCaps \/ RestoreWritten
  \/ Decide \/ RetireSibling \/ SavePrevious \/ WriteFile
  \/ TrustCa \/ RetireOutgoing \/ DiscardPrevious \/ Unmark \/ Wrap
  \/ UndoFile
  \/ Uninstall
  \/ RemoveManifest \/ ForgetDirs \/ MarkPending \/ DeleteFile
  \/ Untrust \/ ClearPending \/ RemoveAnchor \/ DropPrevious \/ Unwrap
  \/ Report \/ Crash \/ BreakKey

Spec == Init /\ [][Next]_vars

-----------------------------------------------------------------------------
(* Properties.                                                             *)

\* Where a trusted CA is removed by its certificate (macOS, Windows), the
\* certificate of each is still at hand: it is the one in use or the copy kept of
\* the one it replaced, or the marker says that the store is still to be cleaned.
\* It holds at every step, so after a kill too (runCaTrust, removeCa).
AnchorsKnown ==
  (store = "keychain" /\ ~pending) =>
    anchors \subseteq {files["cert"], previous} \cup stray

\* An install that reports success leaves one CA: key and certificate belong
\* together, it is the only one trusted unless the install said otherwise, and
\* every browser lets the extension in ("nothing is half-installed", README.md).
InstallLeavesOne ==
  (proc.at = "report" /\ proc.cmd = "install" /\ proc.ok) =>
    /\ Reusable /\ files["cert"] \in anchors
    /\ anchors \subseteq {files["cert"]} \cup stray
    /\ \A d \in Hosts : manifests[d] = proc.id
    /\ wrapper /\ ~pending

\* An install that answers with a failure (one that throws does not answer, see
\* ThrownInstallStands), with its rollback undisturbed, leaves every manifest as it
\* was, trusts nothing new (but on Debian, whose installer leaves
\* its file behind) and keeps a usable CA, or the files of one whose replacement
\* was not written, as they were
\* ("There is no partial-success state", docs/architecture.md).
FailedInstallRestores ==
  (/\ proc.at = "report" /\ proc.cmd = "install" /\ ~proc.ok
   /\ proc.slips = 1) =>
    /\ manifests = proc.before.manifests /\ record = proc.before.record
    /\ store # "debian" => anchors \subseteq proc.before.anchors
    /\ (proc.reuse \/ (~proc.fresh /\ "cert" \notin proc.done))
         => files = proc.before.files

\* An uninstall, or the rollback of an install without a wrapper, that reports
\* success leaves no manifest, no file and, where
\* anchors are removed one by one, no trusted CA, whatever failed or was killed
\* before it.
UninstallLeavesNothing ==
  (proc.at = "report" /\ proc.cmd \in {"uninstall", "rollback"} /\ proc.ok) =>
    /\ \A d \in Dirs : manifests[d] = None
    /\ ~record /\ ~pending /\ previous = None
    /\ \A f \in Files : files[f] = None
    /\ store = "keychain" => anchors \subseteq stray

\* An install that throws, at the removal of the marker, has put back nothing: its CA
\* is trusted and usable and every manifest lets the extension in, only the wrapper
\* was not written.  No CA but its own is trusted, unless the marker still stands.
ThrownInstallStands ==
  proc.at = "thrown" =>
    /\ Reusable /\ files["cert"] \in anchors
    /\ ~pending => anchors \subseteq {files["cert"]} \cup stray
    /\ \A d \in Hosts : manifests[d] = proc.id

\* How a command ends says what it leaves: an install that succeeds one CA, one that
\* answers with a failure what was there, one that throws its CA without a wrapper,
\* and an uninstall nothing.
ReportsAreTrue ==
  /\ InstallLeavesOne /\ FailedInstallRestores /\ ThrownInstallStands
  /\ UninstallLeavesNothing

\* "a single, **fully transactional** call", docs/architecture.md: one failed call
\* alone never leaves an install in place whose command has failed.
InstallIsTransactional ==
  (proc.at \in {"report", "thrown"} /\ proc.cmd = "install" /\ proc.slips = 1
   /\ (proc.at = "thrown" \/ ~proc.ok)) =>
    manifests = proc.before.manifests
=============================================================================
