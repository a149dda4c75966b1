-------------------------------- MODULE Doctor --------------------------------
(* `rogatio doctor`, on the four surfaces that run it: the command, the page  *)
(* of `rogatio edit`, and the popup and the management page of the extension, *)
(* which ask the native host.  A run reads one fact of the machine after      *)
(* another, over as much as 25 s, and the machine goes on changing meanwhile; *)
(* a verdict is a check's status and what it says (summary and fix as one).   *)
EXTENDS Integers, Sequences, FiniteSets

CONSTANTS
  None,
  Worlds,        \* the states of the machine in which a run may begin
  Live,          \* fact |-> the values that it may take during a run
  MaxChanges     \* how many facts change during a run

VARIABLES
  world,         \* fact |-> how the machine is
  seen,          \* the worlds that there were since the run began
  surface,       \* who runs the doctor
  at,            \* the step of the run that comes next
  facts,         \* what the run has read
  shown          \* the report that the user sees

doctorVars == <<world, seen, surface, at, facts, shown>>

MachineFacts ==
  {"node", "cli", "version", "latest", "file", "draft", "project", "enabled", "root", "rule",
   "installed", "phase", "proxy", "verifies", "manifest", "wrapper", "origins", "ca", "pac", "ai",
   "assist", "id", "connects", "access", "incognito", "tab"}

\* What the editor page offers was settled when the page was loaded.
DoctorAssumption ==
  /\ \A w \in Worlds : w = [f \in MachineFacts |-> w[f]]
  /\ DOMAIN Live \subseteq MachineFacts \ {"assist"}

Surfaces == {"cli", "editor", "page", "popup"}
Extension == {"page", "popup"}
Required == {"node", "project", "host", "ca", "pac", "ext.worker", "ext.native", "ext.proxy",
             "ext.access", "ext.rules", "editor.server", "editor.session", "editor.project"}

Check(id, status, says) == [id |-> id, status |-> status, optional |-> id \notin Required, says |-> says]
Fails(checks) == \E i \in DOMAIN checks : checks[i].status = "fail" /\ ~checks[i].optional
Report(checks) == [ok |-> ~Fails(checks), checks |-> checks]

\* The first row of a table whose condition holds.
Row(when, then) == [when |-> when, then |-> then]
First(rows) == rows[CHOOSE i \in DOMAIN rows : rows[i].when /\ \A j \in 1 .. i - 1 : ~rows[j].when].then

--------------------------------------------------------------------------------
(* The six checks that the command and the native host share. *)
NodeCheck(w, updates) == First(<<
  Row(w.node = "old", Check("node", "fail", "old Node")),
  Row(w.cli = None, Check("node", "fail", "no CLI version")),
  Row(~updates, Check("node", "pass", "versions")),
  Row(w.latest = None, Check("node", "warn", "no registry")),
  Row(w.cli # None /\ w.latest # None /\ w.cli < w.latest, Check("node", "warn", "newer CLI")),
  Row(TRUE, Check("node", "pass", "current"))>>)

FileCheck(file) ==
  Check("project", IF file \in {"valid", "mock"} THEN "pass" ELSE "fail",
        IF file \in {"valid", "mock"} THEN "valid" ELSE file)
ActiveCheck(project) ==
  Check("project", IF project = "valid" THEN "pass" ELSE "fail", project)

HostCheck(verified, id) == First(<<
  Row(~verified.verifies, Check("host", "fail", "unchecked")),
  Row(verified.manifest # "valid", Check("host", "fail", verified.manifest)),
  Row(verified.wrapper # "executable", Check("host", "fail", verified.wrapper)),
  Row(verified.origins = {}, Check("host", "fail", "no origins")),
  Row(id \notin verified.origins, Check("host", "fail", "another extension")),
  Row(TRUE, Check("host", "pass", "listed"))>>)
CaCheck(verified) == First(<<
  Row(~verified.verifies, Check("ca", "fail", "unchecked")),
  Row(~verified.ca, Check("ca", "fail", "not trusted")),
  Row(TRUE, Check("ca", "pass", "trusted"))>>)
PacCheck(w) == Check("pac", IF w.pac THEN "pass" ELSE "fail", "PAC")
AiCheck(w) == Check("ai", IF w.ai = "answers" THEN "pass" ELSE "warn", w.ai)

Ids == <<"node", "project", "host", "ca", "pac", "ai">>
Interrupted ==
  Report([i \in 1 .. 6 |-> Check(Ids[i], IF Ids[i] = "ai" THEN "warn" ELSE "fail", "not finished")])

\* The extension names itself to the host, if its id is one; else the release is meant.
OwnId(w) == IF surface \in Extension /\ w.id # None THEN w.id ELSE "release"
Early(w, verified) ==
  <<NodeCheck(w, surface = "cli"),
    IF surface \in Extension THEN ActiveCheck(facts.project) ELSE FileCheck(w.file),
    HostCheck(verified, OwnId(w)), CaCheck(verified)>>

--------------------------------------------------------------------------------
(* What the extension makes of the host's reply and of what it reads itself.  *)
\* Mutant of ReadCheck: the flags are the host's.
ReadCheckAsSent(check) == check

\* A reply with six checks in order, or None; which checks are optional, and whether
\* all is well, the extension decides itself.
ReadCheck(check) == [check EXCEPT !.optional = check.id = "ai"]
ParseDoctorReport(reply) ==
  IF reply = None \/ Len(reply.checks) # 6 \/ \E i \in 1 .. 6 : reply.checks[i].id # Ids[i]
  THEN None ELSE Report([i \in 1 .. 6 |-> ReadCheck(reply.checks[i])])

\* What a host may reply: its report; the same with other flags, from a host of another
\* version; that it was interrupted; less than six checks; or nothing readable.
Replies(report) ==
  {report, [ok |-> ~report.ok, checks |-> report.checks], Interrupted,
   [ok |-> TRUE, checks |-> [i \in 1 .. 6 |-> [report.checks[i] EXCEPT !.optional = TRUE]]],
   [ok |-> TRUE, checks |-> SubSeq(report.checks, 1, 1)], None}

RuleStatus(rule, enabled, root, installed, phase) == First(<<
  Row(rule = "unprojectable", "error"),
  Row(~enabled, "disabled"),
  Row(rule = "matcher", "unsupported"),
  Row(rule = "header" /\ ~installed, "error"),
  Row(rule = "header", "active"),
  Row(phase = "unsupported", "unsupported"),
  Row(rule = "unroutable", "needs runtime"),
  Row(rule = "mock" /\ ~root, "needs root directory"),
  Row(rule = "mock" /\ phase = "failed", "error"),
  Row(phase # "started", "needs runtime"),
  Row(TRUE, "active")>>)

NativeCheck(native) == Check("ext.native", IF native = "ok" THEN "pass" ELSE "fail", native)
IdCheck(w) == Check("ext.id", IF w.id = "release" THEN "pass" ELSE "warn", w.id)
VersionCheck(w, cli) ==
  LET says == IF cli = None THEN "unavailable"
              ELSE IF cli = w.version THEN "same"
              ELSE IF cli < w.version THEN "older CLI" ELSE "newer CLI"
  IN Check("ext.version", IF says = "same" THEN "pass" ELSE "warn", says)
ProxyCheck(phase, proxy) == First(<<
  Row(proxy = None, Check("ext.proxy", "warn", "unread")),
  Row(phase \in {"started", "failed"} /\ proxy \in {"another's", "policy"},
      Check("ext.proxy", "fail", proxy)),
  Row(phase = "started" /\ proxy = "free", Check("ext.proxy", "fail", "not ours")),
  Row(phase = "started", Check("ext.proxy", "pass", "ours")),
  Row(phase = "stopped" /\ proxy = "ours", Check("ext.proxy", "warn", "left over")),
  Row(TRUE, Check("ext.proxy", "pass", "clear"))>>)
Allowed(id, value) == Check(id, IF value = "granted" THEN "pass" ELSE "warn", value)

Attention == {"error", "needs runtime", "needs root directory", "unsupported"}
RulesCheck(read) == First(<<
  Row(read.project = "none", Check("ext.rules", "warn", "no project")),
  Row(read.project = "invalid", Check("ext.rules", "warn", "unread")),
  Row(~read.enabled, Check("ext.rules", "warn", "no groups")),
  Row(read.status \notin Attention, Check("ext.rules", "pass", "no attention")),
  Row(read.status = "error", Check("ext.rules", "fail", "error")),
  Row(read.status = "needs runtime" /\ read.phase = "started", Check("ext.rules", "warn", "not routable")),
  Row(read.status = "needs runtime", Check("ext.rules", "warn", "start the runtime")),
  Row(TRUE, Check("ext.rules", "warn", read.status))>>)

\* What the popup says of the tab: its URL is compared with the rule.
TabOf(w, read) == First(<<
  Row(w.tab = None, "no URL"),
  Row(read.project \in {"none", "invalid"}, "unchecked"),
  Row(w.tab = "misses", "misses"),
  Row(~read.enabled, "matches, disabled"),
  Row(read.status \in Attention, "matches, not served"),
  Row(TRUE, "matches")>>)
TabCheck(tab) == Check("ext.tab", IF tab \in {"no URL", "unchecked"} THEN "warn" ELSE "pass", tab)

Combined(ui, host) ==
  [ok |-> ~Fails(ui) /\ (host = None \/ host.ok), ui |-> ui, host |-> host]
WorkerUnreachable == Combined(<<Check("ext.worker", "fail", "no answer")>>, None)

\* A host that is said to have answered, without a report, has not.
NativeOf(read) == IF read.native = "ok" /\ read.host = None THEN "unreadable" ELSE read.native
BuildExtensionDoctor(w, read) ==
  Combined(
    <<Check("ext.worker", "pass", "answered"), NativeCheck(NativeOf(read)), IdCheck(w),
      VersionCheck(w, IF NativeOf(read) = "ok" THEN read.cli ELSE None),
      ProxyCheck(read.phase, w.proxy), Allowed("ext.access", w.access), RulesCheck(read),
      Allowed("ext.incognito", w.incognito)>>
    \o (IF read.tab = None THEN <<>> ELSE <<TabCheck(read.tab)>>),
    IF read.native = "ok" THEN read.host ELSE None)

\* The page takes the checks that it knows, in their order, and decides about them
\* again; anything else is shown as a worker that did not answer.
UiIds == <<"ext.worker", "ext.native", "ext.id", "ext.version", "ext.proxy", "ext.access",
           "ext.rules", "ext.incognito", "ext.tab">>
Place(id) == IF \E i \in DOMAIN UiIds : UiIds[i] = id THEN CHOOSE i \in DOMAIN UiIds : UiIds[i] = id ELSE 0
ReadUiCheck(check) ==
  [check EXCEPT !.optional = check.id \in {"ext.id", "ext.version", "ext.incognito", "ext.tab"}]
ParseExtensionDoctor(value) ==
  LET InOrder == \A i \in DOMAIN value.ui : Place(value.ui[i].id) > (IF i = 1 THEN 0 ELSE Place(value.ui[i - 1].id))
  IN IF /\ Len(value.ui) > 0 /\ value.ui[1].id = "ext.worker" /\ InOrder
        /\ value.host = None \/ ParseDoctorReport(value.host) # None
     THEN Combined([i \in DOMAIN value.ui |-> ReadUiCheck(value.ui[i])], ParseDoctorReport(value.host))
     ELSE WorkerUnreachable

--------------------------------------------------------------------------------
(* What the server of `rogatio edit` makes of its own facts. *)
DraftCheck(draft) == [FileCheck(draft) EXCEPT !.id = "editor.project"]
AssistCheck(inPage, configured) == First(<<
  Row(~inPage /\ ~configured, Check("editor.ai", "warn", "none")),
  Row(~inPage, Check("editor.ai", "warn", "configured since")),
  Row(configured, Check("editor.ai", "pass", "available")),
  Row(TRUE, Check("editor.ai", "warn", "removed"))>>)
MockRootCheck(root) == Check("editor.mockRoot", IF root THEN "pass" ELSE "warn", IF root THEN "saved" ELSE "missing")
BuildEditorDoctor(w, read) ==
  Combined(
    <<Check("editor.server", "pass", "answered"), Check("editor.session", "pass", "accepted"),
      DraftCheck(read.draft), AssistCheck(w.assist, read.configured)>>
    \o (IF read.draft = "mock" THEN <<MockRootCheck(w.root)>> ELSE <<>>),
    read.host)
ServerStopped == Combined(<<Check("editor.server", "fail", "stopped")>>, None)
ServerRejected == Combined(<<Check("editor.server", "fail", "rejected")>>, None)
SessionStale ==
  Combined(<<Check("editor.server", "pass", "answered"), Check("editor.session", "fail", "stale")>>, None)

--------------------------------------------------------------------------------
(* A run, step by step.  Between two steps the machine may change. *)
Nothing ==
  [project |-> "none", enabled |-> FALSE, root |-> FALSE, rule |-> None, status |-> None,
   verified |-> None, checks |-> <<>>, native |-> "missing", cli |-> None, host |-> None, phase |-> None,
   draft |-> None, configured |-> FALSE, tab |-> None]

Init ==
  /\ world \in Worlds /\ seen = {world}
  /\ surface = None /\ at = "idle" /\ facts = Nothing /\ shown = None

Go(step) == at' = step /\ UNCHANGED <<world, seen, surface, shown>>
Show(report) == at' = "shown" /\ shown' = report /\ UNCHANGED <<world, seen, surface, facts>>

Ask ==
  /\ at = "idle"
  /\ \E s \in Surfaces :
       /\ surface' = s
       /\ at' = IF s \in Extension THEN "project" ELSE "verify"
       /\ facts' = [Nothing EXCEPT !.draft = IF s = "editor" THEN world.draft ELSE None]
  /\ UNCHANGED <<world, seen, shown>>

\* The active project compiles, and its rules have a status.
Compiled == {"valid", "too large"}

\* The worker reads the active project, then what is installed, then asks the host.
\* A store that it cannot read is to it a store without an active project: "none" in
\* world.project stands for both.
ReadProject ==
  /\ at = "project"
  /\ facts' = [facts EXCEPT !.project = world.project, !.enabled = world.enabled, !.root = world.root,
                           !.rule = world.rule]
  /\ Go(IF world.project \in Compiled THEN "installed" ELSE "send")
ReadInstalled ==
  /\ at = "installed"
  /\ facts' = [facts EXCEPT !.status =
                 RuleStatus(facts.rule, facts.enabled, facts.root, world.installed, world.phase)]
  /\ Go("send")
Send ==
  /\ at = "send"
  /\ IF world.connects = "ok"
     THEN Go("verify") /\ UNCHANGED facts
     ELSE Go("tab") /\ facts' = [facts EXCEPT !.native = world.connects, !.phase = world.phase]

Verify ==
  /\ at = "verify"
  /\ facts' = [facts EXCEPT !.verified =
                 [verifies |-> world.verifies, manifest |-> world.manifest,
                  wrapper |-> world.wrapper, origins |-> world.origins, ca |-> world.ca]]
  /\ Go("file")
CheckFile ==
  /\ at = "file"
  /\ facts' = [facts EXCEPT !.checks = Early(world, facts.verified)]
  /\ Go("pac")
ProbePac ==
  /\ at = "pac"
  /\ facts' = [facts EXCEPT !.checks = Append(@, PacCheck(world))]
  /\ Go("ai")
ProbeAi ==
  /\ at = "ai"
  /\ facts' = [facts EXCEPT !.checks = Append(@, AiCheck(world))]
  /\ Go("answer")

PrintReport ==
  /\ at = "answer" /\ surface = "cli"
  /\ Show([ok |-> Report(facts.checks).ok, ui |-> <<>>, host |-> Report(facts.checks)])

\* The extension hears the host, or hears in 25 s that it will not.
HearHost ==
  /\ at = "answer" /\ surface \in Extension
  /\ \E reply \in Replies(Report(facts.checks)) :
       LET host == ParseDoctorReport(reply)
       IN facts' = [facts EXCEPT !.host = host, !.native = IF host = None THEN "unreadable" ELSE "ok",
                                 !.cli = IF reply = None THEN None ELSE world.cli, !.phase = world.phase]
  /\ Go("tab")
HearFailure ==
  /\ at \in {"verify", "file", "pac", "ai", "answer"} /\ surface \in Extension
  /\ \E code \in {"timeout", "disconnected"} :
       facts' = [facts EXCEPT !.native = code, !.phase = world.phase]
  /\ Go("tab")
ReadTab ==
  /\ at = "tab"
  /\ facts' = [facts EXCEPT !.tab = IF surface = "popup" THEN TabOf(world, facts) ELSE None]
  /\ Go("browser")
ReadBrowser ==
  /\ at = "browser"
  /\ Show(ParseExtensionDoctor(BuildExtensionDoctor(world, facts)))
WorkerLost ==
  /\ surface \in Extension /\ at # "shown"
  /\ Show(WorkerUnreachable)

\* The server reads the provider's configuration and the mock root after the host's checks.
FileDoctor ==
  /\ at = "answer" /\ surface = "editor"
  /\ facts' = [facts EXCEPT !.host = Report(facts.checks)]
  /\ Go("config")
ReadConfig ==
  /\ at = "config"
  /\ facts' = [facts EXCEPT !.configured = world.ai # "none"]
  /\ Go("root")
ReadRoot == at = "root" /\ Show(BuildEditorDoctor(world, facts))
EditorFails ==
  /\ surface = "editor" /\ at # "shown"
  /\ \E report \in {ServerStopped, ServerRejected, SessionStale} : Show(report)

\* The machine: the user, the browser or another program changes a fact.
Change ==
  /\ at \notin {"idle", "shown"} /\ Cardinality(seen) <= MaxChanges
  /\ \E fact \in DOMAIN Live : \E value \in Live[fact] :
       world' = [world EXCEPT ![fact] = value] /\ seen' = seen \cup {world'}
  /\ UNCHANGED <<surface, at, facts, shown>>

Next ==
  \/ Ask \/ ReadProject \/ ReadInstalled \/ Send
  \/ Verify \/ CheckFile \/ ProbePac \/ ProbeAi
  \/ PrintReport \/ HearHost \/ HearFailure \/ ReadTab \/ ReadBrowser \/ WorkerLost
  \/ FileDoctor \/ ReadConfig \/ ReadRoot \/ EditorFails
  \/ Change

--------------------------------------------------------------------------------
All(report) == report.ui \o (IF report.host = None THEN <<>> ELSE report.host.checks)

(* A report is fine only if none of its required checks failed, whatever the  *)
(* host's flags said; in the extension, only if the host has answered all six *)
(* checks, and if none of those that it ran failed.                           *)
NoFailureHidden ==
  shown # None =>
    /\ shown.ok = ~\E i \in DOMAIN All(shown) : All(shown)[i].status = "fail" /\ All(shown)[i].id \in Required
    /\ shown.ok /\ surface \in Extension => Len(facts.checks) = 6 /\ ~Fails(facts.checks)

(* What the page shows is what the worker built: no report of a worker that   *)
(* answered is taken for that of one that did not, and none of it is lost.    *)
PageKeepsReport ==
  at = "browser" =>
    ParseExtensionDoctor(BuildExtensionDoctor(world, facts)) = BuildExtensionDoctor(world, facts)

\* The facts that a run would read, and the verdicts that it would reach, if the
\* world stood still.
Read(w) ==
  [Nothing EXCEPT !.project = w.project, !.enabled = w.enabled, !.phase = w.phase,
                  !.status = IF w.project \in Compiled
                             THEN RuleStatus(w.rule, w.enabled, w.root, w.installed, w.phase) ELSE None,
                  !.draft = w.draft, !.configured = w.ai # "none"]
Verdicts(w) ==
  LET read == Read(w)
  IN {IF surface \in Extension THEN ActiveCheck(w.project) ELSE FileCheck(w.file),
      PacCheck(w), AiCheck(w), ProxyCheck(w.phase, w.proxy), RulesCheck(read),
      TabCheck(TabOf(w, read)), AssistCheck(w.assist, read.configured), MockRootCheck(w.root)}
Dated == {"project", "pac", "ai", "ext.proxy", "ext.rules", "ext.tab", "editor.ai", "editor.mockRoot"}
Changed == {fact \in DOMAIN world : \E w \in seen : w[fact] # world[fact]}
RuleFacts == {"project", "rule", "enabled", "installed", "root"}
AtMostOne(S) == \A f, g \in S : f = g
Steady(id) ==
  CASE id = "ext.proxy" -> AtMostOne(Changed \cap {"phase", "proxy"})
    [] id = "ext.rules" -> "phase" \notin Changed /\ AtMostOne(Changed \cap RuleFacts)
    [] id = "ext.tab" -> AtMostOne(Changed \cap (RuleFacts \cup {"phase", "tab"}))
    [] OTHER -> TRUE

(* Each verdict was so at some moment of the run.  Of those that combine what *)
(* was read at different moments, this is true unless two of their facts      *)
(* changed during the run (for the rules: or the runtime's phase did).        *)
VerdictsWereSo ==
  shown # None =>
    \A i \in DOMAIN All(shown) :
      LET check == All(shown)[i]
      IN check.id \in Dated /\ check.says # "not finished" /\ Steady(check.id) =>
           \E w \in seen : check \in Verdicts(w)
===============================================================================
