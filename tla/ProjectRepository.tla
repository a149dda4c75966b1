-------------------------- MODULE ProjectRepository --------------------------
(***************************************************************************)
(* ProjectRepository over a StorageAdapter, as the service worker runs it: *)
(* several message handlers are between two awaits of mutate() at the same *)
(* time.  mutate() reads the envelope, builds the next one from what it    *)
(* read, and commits by comparing the whole stored envelope with what it   *)
(* read; the adapter makes compare and set one step (its mutation lock).   *)
(*                                                                         *)
(* A read or a swap may fail in the storage API; a failed swap leaves the  *)
(* storage as it was.                                                      *)
(***************************************************************************)
EXTENDS ProjectEnvelope

CONSTANTS
  Handlers,      \* concurrent command handlers of the service worker
  NoCommand,     \* a handler that is not serving a command
  Requests,      \* the commands the extension page may send
  MaxRevision    \* bound: no command is accepted that could raise the revision
                 \* of a project beyond it

ASSUME RepositoryAssumption ==
  /\ Requests \subseteq Command
  /\ NoCommand \notin Command
  /\ MaxRevision \in Nat

VARIABLES
  store,      \* the envelope in chrome.storage.local
  request,    \* request[h]: the command handler h serves
  reply,      \* reply[h]: "none" until the promise of h settles
  step,       \* step[h]: the await handler h is at
  attempt,    \* attempt[h]: reads that lost their swap so far
  raw,        \* raw[h]: the envelope h read and will compare with
  next        \* next[h]: the envelope h built and will commit

vars == <<store, request, reply, step, attempt, raw, next>>
local == <<request, reply, step, attempt, raw, next>>

Steps == {"idle", "read", "swap", "reread", "replied"}
StorageCodes == {"core.storage-corrupt", "core.storage-conflict"}
Replies == {"none", "commit", "conflict"} \cup FailureCodes \cup StorageCodes

\* Mutant of Attempts: one retry too many.
AttemptsPlusOne(cmd) == IF cmd.op = "save" THEN 1 ELSE 4

\* retry: saves get one attempt, everything else three.
Attempts(cmd) == IF cmd.op = "save" THEN 1 ELSE 3

TypeOK ==
  /\ IsEnvelope(store)
  /\ request \in [Handlers -> Requests \cup {NoCommand}]
  /\ reply \in [Handlers -> Replies]
  /\ step \in [Handlers -> Steps]
  /\ attempt \in [Handlers -> 0..2]
  /\ DOMAIN raw = Handlers /\ DOMAIN next = Handlers
  /\ \A h \in Handlers : IsEnvelope(raw[h]) /\ IsEnvelope(next[h])

Init ==
  /\ store = EmptyEnvelope
  /\ request = [h \in Handlers |-> NoCommand]
  /\ reply = [h \in Handlers |-> "none"]
  /\ step = [h \in Handlers |-> "idle"]
  /\ attempt = [h \in Handlers |-> 0]
  /\ raw = [h \in Handlers |-> EmptyEnvelope]
  /\ next = [h \in Handlers |-> EmptyEnvelope]

Busy == {h \in Handlers : step[h] # "idle"}

Submit(h, cmd) ==
  /\ step[h] = "idle"
  /\ \/ cmd.op \in {"create", "switch", "remove"}
     \/ \A p \in Ids(store) :
          store.projects[p].revision + Cardinality(Busy) < MaxRevision
  /\ request' = [request EXCEPT ![h] = cmd]
  /\ step' = [step EXCEPT ![h] = "read"]
  /\ UNCHANGED <<store, reply, attempt, raw, next>>

\* The promise settles; the envelopes the handler held are garbage.
Settle(h, kind) ==
  /\ reply' = [reply EXCEPT ![h] = kind]
  /\ step' = [step EXCEPT ![h] = "replied"]
  /\ attempt' = [attempt EXCEPT ![h] = 0]
  /\ raw' = [raw EXCEPT ![h] = EmptyEnvelope]
  /\ next' = [next EXCEPT ![h] = EmptyEnvelope]

\* await readEnvelope(), then build() on what was read.
ReadAndBuild(h) ==
  /\ step[h] = "read"
  /\ \E stamp \in Stamps :
       LET mutation == Build(request[h], store, stamp)
       IN  IF mutation.kind = "commit"
           THEN /\ step' = [step EXCEPT ![h] = "swap"]
                /\ raw' = [raw EXCEPT ![h] = store]
                /\ next' = [next EXCEPT ![h] = mutation.next]
                /\ UNCHANGED <<reply, attempt>>
           ELSE Settle(h, mutation.kind)
  /\ UNCHANGED <<store, request>>

\* The storage API rejects a read.
ReadFails(h) ==
  /\ step[h] \in {"read", "reread"}
  /\ Settle(h, "core.storage-corrupt")
  /\ UNCHANGED <<store, request>>

\* Mutant of SwapCommits: set without compare.
SwapBlindly(h) ==
  /\ step[h] = "swap"
  /\ store' = next[h]
  /\ Settle(h, "commit")
  /\ UNCHANGED request

\* compareAndSwap() finds the envelope the handler read.
SwapCommits(h) ==
  /\ step[h] = "swap"
  /\ store = raw[h]
  /\ store' = next[h]
  /\ Settle(h, "commit")
  /\ UNCHANGED request

\* Mutants of SwapLoses: the retry compares with a fresh envelope but keeps
\* what was built from the old one; the retries are not counted.
RetryWithoutRebuild(h) ==
  /\ step[h] = "swap"
  /\ store # raw[h]
  /\ raw' = [raw EXCEPT ![h] = store]
  /\ UNCHANGED <<store, request, reply, step, attempt, next>>

RetryUncounted(h) ==
  /\ step[h] = "swap"
  /\ step' = [step EXCEPT ![h] = "read"]
  /\ UNCHANGED <<store, request, reply, attempt, raw, next>>

\* compareAndSwap() finds another envelope, or the storage API throws.
SwapLoses(h) ==
  /\ step[h] = "swap"
  /\ IF request[h].op = "save"
     THEN /\ step' = [step EXCEPT ![h] = "reread"]
          /\ raw' = [raw EXCEPT ![h] = EmptyEnvelope]
          /\ next' = [next EXCEPT ![h] = EmptyEnvelope]
          /\ UNCHANGED <<reply, attempt>>
     ELSE IF attempt[h] + 1 < Attempts(request[h])
     THEN /\ step' = [step EXCEPT ![h] = "read"]
          /\ attempt' = [attempt EXCEPT ![h] = @ + 1]
          /\ raw' = [raw EXCEPT ![h] = EmptyEnvelope]
          /\ next' = [next EXCEPT ![h] = EmptyEnvelope]
          /\ UNCHANGED reply
     ELSE Settle(h, "core.storage-conflict")
  /\ UNCHANGED <<store, request>>

\* A save that lost its swap reads once more: a conflict carrying the stored
\* project, or a storage conflict when the project is gone.
RereadForConflict(h) ==
  /\ step[h] = "reread"
  /\ Settle(h, IF Has(store, request[h].id) THEN "conflict"
               ELSE "core.storage-conflict")
  /\ UNCHANGED <<store, request>>

Deliver(h) ==
  /\ step[h] = "replied"
  /\ request' = [request EXCEPT ![h] = NoCommand]
  /\ reply' = [reply EXCEPT ![h] = "none"]
  /\ step' = [step EXCEPT ![h] = "idle"]
  /\ UNCHANGED <<store, attempt, raw, next>>

\* What the event loop runs without a new message from the page.
Proceed(h) ==
  \/ ReadAndBuild(h)
  \/ ReadFails(h)
  \/ SwapCommits(h)
  \/ SwapLoses(h)
  \/ RereadForConflict(h)
  \/ Deliver(h)

Next == \E h \in Handlers : (\E cmd \in Requests : Submit(h, cmd)) \/ Proceed(h)

Spec == Init /\ [][Next]_vars

\* Every pending promise of the event loop settles in its turn.
Fairness == \A h \in Handlers : WF_vars(Proceed(h))
FairSpec == Spec /\ Fairness

-----------------------------------------------------------------------------
(* Properties.                                                             *)

\* Whatever handlers interleave, the stored envelope has unique names, at most
\* MaxProjects projects, exactly one active project when it has any, and only
\* groups that its documents declare enabled (repository.ts, buildCreate,
\* buildUpdate, removeProject, setGroupEnabled).
StoreOK == EnvelopeOK(store)

\* An envelope waiting at the swap was built from the one it will be compared
\* with, and is as good as a committed one (mutate).
PreparedOK ==
  \A h \in Handlers :
    step[h] = "swap" =>
      /\ EnvelopeOK(next[h])
      /\ \E stamp \in Stamps : Build(request[h], raw[h], stamp) = Commit(next[h])

\* Every change of the storage is the whole effect of one handler's command on
\* the envelope as it is at that moment: nothing read before another handler's
\* commit survives into the store (mutate and compareAndSwap).
CommitsAreSerial ==
  [][store' # store =>
       \E h \in Handlers : \E stamp \in Stamps :
         /\ step[h] = "swap"
         /\ Build(request[h], store, stamp) = Commit(store')]_vars

\* No update of a surviving project is overwritten by one built before it:
\* every change of a project, its data, groups or file root, is the next
\* revision of the project as it is stored (saveProject, buildUpdate,
\* setGroupEnabled, setMockFileRoot).
NoLostUpdate ==
  [][\A p \in Ids(store) \cap Ids(store)' :
       store'.projects[p] # store.projects[p] =>
         store'.projects[p].revision = store.projects[p].revision + 1]_vars

\* New content arrives with every group of the project disabled (buildCreate
\* and buildUpdate reset enabledGroupIds).
NewContentIsDisabled ==
  [][\A p \in Ids(store)' :
       (p \notin Ids(store) \/ store'.projects[p].doc # store.projects[p].doc)
         => store'.projects[p].enabled = {}]_vars

\* Only a switch moves the selection from one surviving project to another
\* (switchProject is the only operation that changes a live selection).
OnlySwitchMovesSelection ==
  [][\A h \in Handlers :
       (/\ step[h] = "swap" /\ step'[h] = "replied" /\ reply'[h] = "commit"
        /\ store.active # NoProject /\ store.active \in Ids(store)'
        /\ store'.active # store.active)
       => request[h].op = "switch"]_vars

\* The abstract store: commands are atomic and answered about the state they
\* acted on.
Abstract == INSTANCE ProjectStore
              WITH store <- store, request <- request, reply <- reply
Refinement == Abstract!Spec

\* Every command the page sends is answered: the retries are bounded (mutate).
EveryCommandAnswered ==
  \A h \in Handlers : step[h] = "read" ~> step[h] = "replied"
=============================================================================
