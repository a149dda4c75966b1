# A TLA+ model of Rogatio

Rogatio is a browser extension (with a command line tool, a local editor server
and a native runtime) that rewrites web traffic by rules grouped into projects.
This directory holds TLA+ modules of its parts, TLC configurations that check
them on small instances, and TLAPS proofs of what matters most.

Contents: [1 the system](#1-the-system), [2 the modules](#2-the-modules),
[3 the runs](#3-the-runs), [4 the proofs](#4-the-proofs),
[5 disagreements with the documentation](#5-disagreements-with-the-documentation),
[6 not modelled](#6-what-is-not-modelled), [7 plan](#7-plan).

Run a configuration with `tlc -config <X>.cfg <module>` and check the proofs
with `tlapm <module>.tla`, both in this directory.

## 1. The system

### Components

| Component | Source (`packages/`) | State | Operations | Module |
|---|---|---|---|---|
| Project repository | `browser-core/src/repository.ts`, `migrate.ts`; adapter in `extension/src/chrome.ts` | one envelope in `chrome.storage.local`: projects (revision, data, enabled groups, mock file root), the active project | create, import, save, switch, remove, enable a group, set the file root; each reads, builds and compares-and-swaps | `ProjectRepository` |
| Extension page | `extension/src/extension-page-entry.ts` | last state received, mounted editor and draft, panels | refresh, save, switch, remove, toggle, import; remount or soft patch of the editor | `WorkspacePage` |
| Dynamic rule reconciler | `extension/src/dnr.ts`, `projection.ts`, `projectState` in `service-worker.ts` | the browser's dynamic rules (kept), `tracked` (lost with the worker), match index (kept), badge | current, hydrate, install; run after every command | `DnrReconciler` |
| Match history | `extension/src/match-history.ts`, `match-listener.ts`, `match-logging-*.ts` | ring of rows in session storage, toggle in local storage, write chain in memory | append, clear, toggle, worker start | `MatchHistory` |
| Native session | `extension/src/native-session.ts`, `background.ts`, `mock-redirect.ts` | phase, port, pending requests, session redirects, the PAC | start, stop, requests with timers, PAC requests, disconnect | `NativeSession` |
| Native host | `runtime/src/host.ts`, `lifecycle.ts`, `capability.ts`, `preset.ts` | controller state, preset, pairing, folder, provider configuration, command chain, PAC promise | project set, start, stop, pair, authorize, mock connect, folders, AI, exit | `NativeHost`, `RuntimeController` |
| Transport and project stage | `runtime/src/native-framing.ts`, `native-input-pump.ts`, `project-stage.ts` | bytes not yet cut, staged parts | chunk, begin, part, commit, expiry | `NativeTransport` |
| Interception proxy | `runtime/src/intercept-proxy.ts`, `outbound.ts`, listeners | policy in force, sockets, slots of mock renderings | request, tunnel, mock, response body, set policy, stop | `InterceptProxy` |
| Regular expressions | `runtime/src/regex-replace.ts` | one worker thread, its boot, posted jobs | ask, answer, deadline | `RegexWorker` |
| What becomes of a rule | `compiler`, `extension/src/source-projection.ts`, `status.ts`, `runtime/src/pac.ts`, `dry-run` | none of its own: dynamic rule, session redirect or PAC route | compile, project, route, dry run | `RuleRouting`, `PacSafety` |
| AI assistance | `editor/src/editor.ts`, `ai-assist-panel.ts`, both `ai-assist.ts`, `ai-client.ts` | request, targets of a repair, proposals | send, stream, retry, repair, apply | `AiAssist` |
| Editor | `editor/src/editor.ts`, `schema/src/identity.ts` | draft, committed snapshot, rename buffer, save in flight, test console | edit, rename, move, duplicate, save, discard, test | `EditorDraft`, `EditorConsole`, `Identity` |
| Editor server | `cli/src/server/**`, `cli/src/commands/edit.ts`, `mock-root-config.ts` | project files, table of mock roots | open, create, save, set root, cancel | `EditorServer` |
| Schema and migration | `schema/src/**`, `extension/src/browser-schema.ts` | none (pure) | validate twice, migrate version 1 | `SchemaValidation`, `Migration` |
| Requestly import | `requestly-import/src/**` | names, ids and priorities handed out so far | import record by record, merge | `RequestlyImport`, `RequestlySource` |
| Doctor | `runtime/src/doctor.ts`, `extension/src/ui-doctor*.ts`, `cli/src/editor-doctor.ts` | the facts read so far | run on four surfaces, parse reports of other versions | `Doctor` |
| Runtime install and CA trust | `runtime/src/trust.ts`, `trust-platform/*`, CLI `runtime` command | manifests, CA files, marker, the system's trust store | install, uninstall, rollback | `CaTrust` |
| Rule install service | `browser-core/src/install.ts` | serialized tail, last installed set | install with rollback | `InstallService` |

### How they interact

* A **page** sends one message per user action to the **service worker** and
  awaits its answer; its own async functions overlap too.
* A **handler** of the worker calls the repository, projects the resulting
  envelope onto the browser's rules (`projectState`) and answers.  Handlers run
  concurrently: every `await` lets another run.
* The browser stops the worker when it likes.  Variables are lost; local
  storage, session storage (until the browser ends) and dynamic rules stay.
* A start talks to a **native host**, a process behind a native-messaging port:
  project, start, mock tokens, then session redirects in the browser.  The host
  asks the extension, over the same port, to install or remove the PAC script,
  which sends the requests of some rules to the host's **proxy**.
* The host takes one command at a time; a folder dialog or an AI completion keeps
  the commands behind it waiting, and only replies pass them.
* The **editor** is one component with two hosts: the extension page and the
  page that `rogatio edit` serves over loopback HTTP from a project file.
* The **CLI** installs what lets a browser launch the host, and the CA its
  proxy signs with, outside the extension.

### What is hard

* handlers interleave between `await`s over one stored envelope;
* a page acts on state it received before other pages' commands committed;
* the projection of an old envelope may be applied after that of a newer one;
* the worker restarts and forgets what it tracked, and what it had queued;
* browser, storage and trust-store calls fail halfway through a sequence;
* native requests time out and are answered late; hosts exit at any time;
* an install is killed between two files, and the next command must cope;
* a request of the browser crosses many awaits of the proxy while its policy
  changes under it;
* one runaway regular expression is stopped by killing the thread that others use;
* frames are cut out of stdin at any byte, with oversized ones in between;
* a draft changes under a save, a test or an AI proposal in flight;
* two processes write one file and one table;
* one rule has four ways into the browser, two validators and a dry run, and all
  have to mean the same;
* ids and names are made unique by appending, over long sequences of edits.

### What makes each component correct

| Component | Correctness |
|---|---|
| Repository | commands are atomic; no update is lost; names unique, limit kept, one active project; new content is disabled; every command is answered |
| Page | a draft is saved only to its project and only over the document it was made from; the editor shows the active project; a saving editor ends |
| Reconciler | the browser ends with exactly the enabled rules; enabled rules are never taken away on the way; the index names the right rule; the badge does not overstate |
| History | off empties the ring and forgets earlier rows; appends do not overwrite each other |
| Session, host | mock redirects lead to a running host that knows their tokens; a started runtime has its redirects; commands end whatever the host does; one pairing; completions use the provider file as it is |
| Transport | each frame is cut once at its own bytes; a project that is set is one that was announced; all that is sent is served |
| Proxy | what is done to a request was allowed by the one policy in force when it came; slots are counted right |
| Regular expressions | every job is settled once; no job goes to a killed thread |
| Rules | browser, status and dry run agree on header rules and mocks; a request that an active request-body rule takes reaches the listener, and no URL does whose host no such rule of the started project names; slow patterns stay off the PAC |
| AI assistance | what is applied is what was checked; every request of the extension ends |
| Editor | a draft shown as clean is what the host holds; ids and names stay unique; the Enable switch acts on its group; late verdicts are not shown |
| Editor server | a file holds a document that someone was told is saved; roots of other files are kept |
| Schema | both validators accept the same projects; a migration that widens a rule says so |
| Import | every record is accounted for, earlier rules outrank later ones, a merge only adds, a condition accepts the URLs it accepted |
| Doctor | no report hides a failure; every verdict was so at some moment of the run |
| CA trust | success leaves one CA (or none), a reported failure leaves what was there, no trusted CA gets out of reach |
| Install service | outcomes tell the truth about the browser; a failure does not stop the queue |

PROJECT.json lists, under `hazards`, the lines where each of these could go
wrong and the property that would notice.

## 2. The modules

```
ProjectEnvelope          envelope, commands, Build(cmd, env, stamp)       (constant level)
  |-- ProjectStore       abstract: each command takes effect at one instant
  |-- ProjectRepository  read / build / compare-and-swap / retry  --refines--> ProjectStore
  |     `-- MCProjectRepository
  |-- WorkspacePage      pages over the (atomic) store                    MCWorkspacePage
  `-- DnrReconciler      projection of the store onto the browser's rules  MCDnrReconciler
MatchHistory             is checked as it is

NativeHost -- NativeSession   worker's session and the hosts it talks to
NativeTransport  InstallService  RegexWorker  AiAssist
  `-- Services           NativeSession and these four                     MCServices

CaTrust  InterceptProxy  RuntimeController  RuleRouting
  `-- Native             these four                                       MCNative (+ PacSafety)

Identity -- EditorDraft, RequestlyImport
EditorDraft  EditorConsole  EditorServer  Doctor
  `-- Documents          these four                                       MCDocuments
                           (+ RequestlyImport, RequestlySource, SchemaValidation, Migration;
                            samples: MCImportSamples, MCSchemaSamples)

proofs: ProjectEnvelopeProofs -- ProjectRepositoryProofs, DnrReconcilerProofs
        WorkspacePageProofs   MatchHistoryProofs   NativeProofs
        ServicesProofs        DocumentsProofs
```

`Services`, `Native` and `Documents` each hold several components that never
meet: the variable `part` is chosen in the initial states and says whose steps a
behaviour takes; the variables of the others stay as they are.  A property of
such a module has the name it has in the component's module and asks something of
its own part only.  Proofs and runs use the same composition: the run checks it
on the instance of its `MC` module, the proof for every value of its constants.
The `MC` modules add the pure parts that stay with TLC.  `MCDnrReconciler` tells
three environments of one component apart the same way.

The page and the reconciler use the store as atomic: that is what
`ProjectRepository!Refinement` (`INSTANCE ProjectStore WITH` a mapping) says of
the repository, so their models need not repeat its reads and retries.

The mutants stand beside the definitions they alter: each is a plausible bug (a
dropped guard, a swapped order), marked `Mutant of` or as a slip, and is used by
no action; PROJECT.json names the property each one breaks.

### ProjectEnvelope, ProjectStore, ProjectRepository

A project is a record (name, document, revision, time stamp, enabled groups,
file root); a document is a model value with a name and a set of group ids,
because nothing else in it matters to the repository; `InvalidDoc` stands for
every document `validateProjectDetailed` refuses, `RelativeRoot` for every
refused root.  `Build*` are the builders of `repository.ts`, in its order of
checks.  `ProjectRepository` gives every handler a step per `await` of
`mutate()`: `ReadAndBuild`, `SwapCommits` or `SwapLoses`, the second read of a
save that lost (`RereadForConflict`), `Deliver`.  Compare and set are one step
because the adapter holds its mutation lock over both (`chrome.ts`).  `SwapLoses`
has no guard on the envelope: `compareAndSwap` also answers false when
`storage.set` throws.  The clock may stand still or go back (`Stamps`).

### WorkspacePage

A page has its last envelope (`view`), `aiSupported` (`ai`), at most one mounted
editor (project, base document, draft, pending save) and a set of tasks, each an
async function between two awaits.  `ServeCommand` is the worker's commit,
`RefuseCommand` its refusal; `Heard` decides whether a committed answer still
reaches the page.  `HearRefresh` and `HearAISupport` are the two halves of
`refresh()` around `await checkNativeAISupport()`; `Patches` is the choice
between soft patch and remount.  The page stays on its Workspace tab.

### DnrReconciler

One handler step per browser or storage call with the code up to the next one:
read the store, read live rules and the index (`HydrateLive`, `HydrateIndex`),
`CurrentBefore`, `Compare` (by rule ids, as the code does), then the install:
`DropOrphans`, one `AddRule` per rule, the index under its lock (`LockIndex`,
`StoreIndex`), and `CurrentAfter` with the badge.  `Plan` allots numbers as
`projection.ts` and `dnr.ts` do: redirects and queries by hash with linear
probing, headers by position.  `MayFail` names the calls that may throw, `Stops`
when the browser may stop the worker.  A document is taken to compile; its
operations are the constant `DocOps`.  `alone`, `known`, `steady`, `failed`,
`astray` and `left` are history: `astray` says that the index was read between the
adding of a rule and the writing of the index, or was not written after it, and
that no handler that ran alone has written it since; `left`, that the worker was
stopped or a drop or an add failed, and that no handler that ran alone has
installed without failure since; `steady`, that a handler ran alone, saw tracked
what the browser has, and moved no enabled rule to another id.

### MatchHistory

`chain` is the promise chain of `match-history.ts`; its head is at one of the
awaits of `appendMatch` or `clearMatchHistory`.  The listener's awaits before it
queues a row are `ToggleRead` and `LookedUp`.  `Wake`, `Registered` and
`ToggleHeard` are worker start and storage events; `Stop` kills the worker, and
`cut` remembers that it cut off work.  Consecutive awaits of the match index that
nothing here can tell apart are one step.  `offs` and a row's `told` are history
variables: they date a row by how often logging had been turned off.

### NativeHost, NativeSession

`NativeHost` is `createNativeHost` and its controller: a process takes one frame
at a time, answers PAC requests outside the chain, and may be slow, refuse or
exit (`Faults`).  `NativeSession` is `startNativeSession`, the stop, the adapter
in `background.ts` (port, timers, PAC task) and two bands of session redirects
(mocks, response bodies), whose reads and writes are queued calls of the browser
in order.  Request ids are modelled by forgetting: when a request times out, its
frames lose their session (`Forget`), so a late answer fits no one.  Hosts are
not relaunched: when all of `Hosts` are gone the browser refuses to connect.
Body markers are left out because production never gives the start an operation
to mark.  The worker is not stopped here: an open native port keeps it alive.

### NativeTransport, InstallService, RegexWorker

`NativeTransport` has bytes below a small base and lengths of two bytes, so that
a header may be cut in half.  `Chunk` brings any number of bytes, `Left` is
`discardPayloadBytes`, `IsReply` the test that lets host replies pass the command
chain; `StageBegin`, `StagePart`, `StageCommit` and `Expire` are the project
stage.  A digest is the content itself.

`InstallService` has one action per await of `apply()`: read, install, roll back,
each of which may fail.

`RegexWorker` has the boot that callers share, the thread, the jobs posted to it
and the messages on their way back; `Deadline` kills the thread under all of
them.  An expression may never end: no fairness is asked of `Finish`.

### AiAssist

From Send to Apply on both hosts.  A draft maps groups to rules that are good or
not; what matters of a proposal is the group each rule names, whether it is good
and whether it is whole.  The extension's host serves one call at a time and its
bridge has a timer (`BridgeTimesOut`); the editor server calls the provider
itself.  Hosts repair by position, the editor by id (`targets`): that the editor's
draft then has no error, as the host found, is `ApplyIsWhatWasChecked`.  Answers
name groups of the draft or none; both sides make a group that a rule names anew.

### InterceptProxy

One event loop and several clients; each await of `handleRequest` (regular
expression, DNS, dial, answer, file, rendering) ends an action, and `SetPolicy`,
`Stop` and leaving clients act in between.  `served[i]` has what the handler's
closure holds: the policy it read, the operations it chose, what it dialled and
what it showed.  Addresses are public or private numbers, in the order in which
the code tries them.

### RuntimeController

The control plane beside the start: preset and its digest, bootstrap token and
sessions with their lives, exact authorization, the folder of the mock files and
the errors that readings leave (oldest dropped first), and the provider
configuration that is read again before every AI command.  Time is a small
counter; the user edits the file at any moment.

### RuleRouting, PacSafety

`RuleRouting` is pure but for the order of enable, start, stop and save.
`Condition` is what the browser is told of a rule, `Takes` what it then does,
`Routes` the PAC, `DryRun` the verdict of the dry run and `Status` what the page
shows.  A regular expression is the set of parts it matches, with the two facts
the code looks for: one literal host, and whether the scan lets it pass.

`PacSafety` is that scan, token by token, on patterns of up to five pieces, against
a reference that pairs the brackets of the tokens that count.

### Identity, EditorDraft, EditorConsole

Names and ids are sequences of tokens, because both are made by appending;
`Free` and `DeriveId` are `identity.ts`.  `EditorDraft` has every operation of
the editor on groups and rules (with its renames, confirmations and bindings of
saved ids), saves and their answers, and offers of proposals; `uid` marks which
group an entry was from the start and is read by the properties only.  A name box
keeps the place at which its heading was drawn last (`place`, the code's `namePath`).
`ShowHeading` is a page drawn with the focus on a heading, after a move or from a
diagnostic: the box of that heading opens, an open box is committed first, and
`AfterRefusal` is what opens when that commit is refused.
`EditorConsole` has the dry runs in flight and where the console is: a dialog, or
a page that the host shows.

### EditorServer

Processes of `rogatio edit` on project files: opening, creating (check, then
write), naming, saving (write next to the file, rename, answer), the table of
mock roots with its temporary file, deletion of files and kills.  `Admitted` is
the order of host, token, origin and CSRF checks.  `acked` and `lastRoot` record
what was answered; `overlap` and `cut` that two table writes crossed or a save
was cut off.  A file may hold at first a document that the schema refuses for want
of a name (`BadDocs`); it is opened all the same, and named if the user gives a name
(`WithName`), but no save of such a document is taken.  `found` remembers what the
files held at first.  Files that hold no JSON object only end the process that
reads them, and are left out.

### SchemaValidation, Migration

`SchemaValidation` has both validators as predicates on a project whose texts are
classes ("long", "wide", "bad", ...); only the verdict is modelled.  The run
starts from a project of every rule type and replaces members, two at a time.
`Migration` is `migrate-v1.ts`; `Proven` reads a pattern as
`regexProvenInsideOrigins` does, and `Matches` is what the pattern really takes.

### RequestlyImport, RequestlySource

`RequestlyImport` takes one step per turn of the loops of `importRequestlyExport`
and `mergeProjects`: groups, rules, the drafts of a rule, names, ids, priorities
and limits, rows of the report.  `RequestlySource` lowers a condition to a
regular expression, character by character, and compares it with what Requestly
means by it on every URL.

### Doctor

`world` is the machine, one value per fact; `facts` what a run has read.  A run
of the command, of the editor, of the page and of the popup read their facts in
different orders; `Change` alters the machine between two of them, but for what an
editor page offers, which was settled when it was loaded.  The worker reads the
project, its rules and its groups from one snapshot, then what is installed, then
asks the host, then reads the phase.  `Replies` is
what a host may send, of another version too; `ReadCheck`, `ParseDoctorReport`,
`ReadUiCheck` and `ParseExtensionDoctor` are what the extension makes of it.
Summary and fix of a check are one value.  When the worker cannot read its store it
goes on as with no active project (`service-worker.ts:630`); the value "none" of the
fact "project" stands for both, so that a failed read is told as "no project" is
not seen by `DoctorTellsTrue`.

### CaTrust

`proc` is the running CLI command, at one write, removal or trust-store call.
Writes are atomic (rename); any call in `MayFail` may fail, `Crash` kills the
process anywhere, `BreakKey` damages the key file between commands.  The removal of
the marker that ends an install is outside every handler of the code; when it fails
the command throws (place "thrown") and does not answer.  `Stores`
covers macOS and Windows ("keychain": many CAs, removed one by one), Debian and
p11-kit Linux (one file).  `made` numbers the CAs generated; `stray` is a history
variable: the trusted CAs that an install knowingly left behind (section 5).
One command runs at a time, and the set of manifest directories is fixed.

## 3. The runs

| Run | Shows | States |
|---|---|---|
| `repository` | `TypeOK`, `StoreOK`, `CommitsAreSerial`, `NoLostUpdate`, `NewContentIsDisabled`, `OnlySwitchMovesSelection`, `Refinement`, `EveryCommandAnswered` | 0.9 M |
| `page_paint` | `EditorShowsActive` | 1.5 M |
| `page_saves` | `SaveReplacesItsBase`, `SavingEnds` | 0.3 M |
| `page_foreign_save` | **violation** of `DraftStaysHome` | 43 k |
| `dnr_changes` | `CommandsReconcile`, `FailuresLeaveNoGap`, `IndexHonest`, `SettlesUnlessLeft` | 1.4 M |
| `dnr_forgotten` | **violation** of `ProjectionSettlesRules` | 300 |
| `match_history` (on `MatchHistory`) | `OffLeavesNothing`, `RowsLeaveInOrder`, `OffClears` | 0.7 M |
| `services` | `MocksServed`, `CommandsEnd` (session); `OutcomesHonest` (install); `FramesExact` (transport); `AllServed` (transport and install); `EveryJobSettles` (regular expressions); `ApplyIsWhatWasChecked`, `ExtensionSettles` (AI) | 0.2 M |
| `session_failed_start` (on `NativeSession`) | **violation** of `StartedBodiesInstalled` | 240 |
| `native` | `AnchorsKnown`, `ReportsAreTrue` (CA); `OnePolicyPerRequest` (proxy); `PairedOnce` (controller); `AppliesExactly` (rules); `ScanExact` (PAC) | 4.7 M |
| `documents` | `CleanMeansSaved`, `StaysSound` (draft: edits keep it sound, Enable hits its group); `LateVerdictDropped` (console); `AcknowledgedIsKept` (server); `ImportKeeps` (import); `ValidatorsAgree` (schema); `WidenedIsReported` (migration); `DoctorTellsTrue` (doctor) | 1.8 M |
| `import_dollars` | **violation** of `DollarsStayLiteral` | 41 k |

### Bounds, and why they are enough

* `repository`: two handlers (a swap is lost to one other commit), three ids under
  a limit of two, all seven commands, revisions up to 3 (two updates race and a
  third sees the loser retry).
* `page_paint`: two tasks on one page (a refresh and an action), one on another
  that removes the active project; runtime on or off.  `page_saves`: two pages
  that both save one project; three documents, so that a foreign commit differs
  from base and draft; three revisions.  `page_foreign_save`: the AI check is
  pending while another page switches.
* `dnr_changes`, three environments (`part`) of one specification: handlers one
  after the other with every command over two rules of one hash, a header that
  renumbers, a rule that needs the runtime and idle stops; the same with calls that
  all may fail, over an edit that changes groups and bodies; two handlers
  interleaved at every await while the selection moves between two projects whose
  rules share their ids.  `dnr_forgotten`: one handler, toggles, switches, an idle
  stop.  Stops midway are left to the proofs.
* `match_history`: three matches on a ring of two (the cap bites), one off (on and
  off again), one clear, one stop.
* `services`: two hosts (an old port's late events meet a newer host), one session
  command at a time, two projects; two applies over three sets; a project in two
  parts, in order, swapped, twice, missing, with another digest, and oversized
  frames before and between others, cut at every byte; three jobs on two threads
  (one runs away, one waits behind it, one comes after); two AI requests, one edit.
  `session_failed_start`: the CA is not trusted at the first start.
* `native`: four install commands, four CAs (a regeneration of a regeneration), two
  kills, two faults, two broken keys, two directories, three kinds of store; two
  clients and two policies that share a rule, one slot of renderings; one bootstrap
  and sessions that expire, six presets (sound, duplicate, unmatched, ungranted);
  five projects that put every kind of rule on sources by host and by URL, with
  ports and schemes; every pattern of up to five pieces.
* `documents`: one group and rule to begin with, grown to two groups and four
  rules by two typed names and two proposals; four console runs; two servers on
  two files with two requests, three documents (one has no name, and is refused
  unless it is given one) and one root; exports of three records with each
  type of rule, ids and names that clash or are none, alone and into a project; every condition value and URL of up to three
  characters; every one-member change of a project of each rule type and a second
  one after it; every pattern of up to six tokens; a machine with at most one
  thing ill, of which one more changes while the doctor runs.

The constants named `Max...` stand in guards and bound only how often users or
faults act, or how large an input is, never what the code does once it has begun.

Deadlock is checked in `repository`, the DNR runs and `session_failed_start`.  The others may stop: their
bounds use up (no more revisions, matches, requests or commands).

### Conditions in the properties, and why they are there

* `CommandsReconcile` speaks of a projection that ran alone, met no failure and
  began with rules it could know (`known`): `dnr_forgotten` is what happens
  otherwise, and section 5 lists the content that stays when ids are equal.
  `SettlesUnlessLeft` asks only which rules, not which content, are there, and
  excepts what a stop, a failed drop or a failed add left behind until a handler
  that ran alone has installed (`left`).  It and `IndexHonest` except what follows a
  read of an index that was about to be written (`astray`; section 5), until a
  handler that ran alone has written it.
* `FailuresLeaveNoGap` speaks of rules under the id the plan has for them, and
  counts for a handler that moves none (`steady`): a probed id moves when its
  neighbour comes or goes, and its rule is then gone until it is added again.
* `OffLeavesNothing` and `OffClears` except a stop amid work (`cut`): the browser
  may kill the worker with a clear still queued, and logging may be on again by
  the time it starts.
* `MocksServed` is stated when nothing is under way, for commands one after the
  other and without the fault `"install"`; section 5 says what breaks it otherwise.
* `ReportsAreTrue` asks of an install that answers with a failure that the rollback
  itself met no fault (`slips = 1`), excepts what Debian's installer leaves, and, for
  an uninstall, speaks of trusted CAs only where anchors are removed by certificate; on
  Linux section 5 says what is left.  An install that throws rolls nothing back: of
  it `ThrownInstallStands` says that its CA is trusted and usable and the manifests are
  written (section 5, `InstallIsTransactional`).
* `ApplyIsWhatWasChecked` speaks of a proposal applied to the draft it was asked
  for, with the targets it was asked with, and without rules that are not whole:
  section 5 says what the code does with the others.
* `AppliesExactly` compares browser and dry run for header rules and mocks only:
  redirects and queries ignore the method, response bodies act on GET only
  (section 5).  Of the proxy it says two things.  The URLs of active request-body
  rules are sent there, if the session was started with the project as it is.  And
  what is sent there has a host, and for a rule about URLs a scheme, that some
  request-body rule of the project *at the start* names, whose group may be disabled:
  that only enabled rules act is false (section 5, `OnlyEnabledRulesAct`).
* `ScanExact` says of repetitions in repeated groups only that nothing else is
  refused (section 5).
* `StaysSound` lets a rule have the name of its own group, and excepts a proposal
  that names a group by the id of a rule.  `CleanMeansSaved` excepts an accepted
  save whose answer was dropped (`stale`).
* `AcknowledgedIsKept` excepts a process that ended before it could answer, and a
  file that still holds the refused document it held at first, as it was or with the
  name the user gave it; that roots are kept excepts table writes that overlap.
* `ImportKeeps` excepts path conditions, `ValidatorsAgree` the forms that its
  comment names, `WidenedIsReported` patterns with a repetition after a slash
  (section 5).
* `DoctorTellsTrue` says that a verdict made of facts read at different moments was
  so at one of them only if at most one of those facts changed during the run (for
  the rules: and the phase did not).

### Fairness

* `repository`: weak fairness of what the event loop runs for each handler; a
  promise that can settle does.  Nothing is asked of the user.
* `page_saves`: weak fairness of each task: every message is answered, if only
  by its port closing when the worker dies, and the callback then runs.
* `match_history`: the browser starts the worker for a change of the toggle and
  delivers it, and the worker runs its code.  Stops are bounded, not fair.
* `services` (`ServicesFairness`, each part while it runs).  Session: the worker's
  steps, its timers and the browser's own calls; no host ever has to answer, and
  `CommandsEnd` rests on the timers.  Install service: its steps.  Transport: bytes
  arrive and the host serves.  Regular expressions: a boot ends one way or the
  other (it has a timer), threads take jobs, messages are heard, a killed thread
  exits and deadlines fire; no expression has to end.  AI: a waiting call is taken
  up and both timers fire; the provider owes nothing.

## 4. The proofs

Every theorem holds for all values of the constants that satisfy the named
assumptions of the modules, which TLC evaluates in the runs, and under the
hypotheses of the second table.  TLC finds each of them true on the instance of a
run.

| Module | Theorem | States |
|---|---|---|
| `ProjectRepositoryProofs` | `TypeCorrect`, `StoreSafe`, `PreparedSafe` | `Spec => []TypeOK`, `[]StoreOK`, `[]PreparedOK` |
| | `Serial`, `NoUpdateLost` | `Spec => CommitsAreSerial`, `NoLostUpdate` |
| | `ContentArrivesDisabled`, `SelectionStays` | `Spec => NewContentIsDisabled`, `OnlySwitchMovesSelection` |
| | `Implements` | `Spec => Refinement`: every step is one of `ProjectStore`, or none |
| `WorkspacePageProofs` | `PageTypesHold`, `EditorsShowTheActiveProject` | `Spec => []TypeOK`, `[]EditorShowsActive` |
| | `SavesReplaceTheirBase` | `Spec => SaveReplacesItsBase` |
| `MatchHistoryProofs` | `HistoryTypes`, `OffIsForgotten` | `Spec => []TypeOK`, `[]OffLeavesNothing` |
| | `RowsAreKept` | `Spec => RowsLeaveInOrder` |
| `DnrReconcilerProofs` | `IndexNamesLiveRules` | `Spec => []IndexHonest` |
| | `InstallingLeavesNoGap` | `Spec => FailuresLeaveNoGap` |
| | `ProjectionsSettleRules` | `Spec => SettlesUnlessLeft` |
| | `PlanIds` | no two entries of `Plan(env)` have one id |
| `NativeProofs` | `TrustTypes`, `AnchorsStayKnown`, `ReportsHold` | `CaTrust`: `Spec => []TypeOK`, `[]AnchorsKnown`, `[]ReportsAreTrue` |
| | `RequestsKeepTheirPolicy` | `NativeSpec => []OnePolicyPerRequest` (proxy) |
| | `OnePairing` | `NativeSpec => []PairedOnce` (controller) |
| | `BrowserAsTheDryRun` | `NativeSpec => []AppliesExactly` (rules) |
| `ServicesProofs` | `MocksAreServed` | `ServicesSpec => []MocksServed` (session) |
| | `InstallsAreHonest` | `ServicesSpec => []OutcomesHonest` (install service) |
| | `FramesAreExact` | `ServicesSpec => []FramesExact` (transport) |
| | `KilledThreadsGetNoJobs` | the first half of `EveryJobSettles` (regular expressions) |
| | `CheckedProposalsApply` | `ServicesSpec => []ApplyIsWhatWasChecked` (AI assistance) |
| `DocumentsProofs` | `FilesAndRootsKept` | `Spec => []AcknowledgedIsKept` (editor server) |
| | `SavedMeansHeld` | `DocumentsSpec => []CleanMeansSaved` (draft) |
| | `AbandonedRunsStayUnseen` | `DocumentsSpec => LateVerdictDropped` (console) |
| | `DoctorIsTruthful` | `DocumentsSpec => []DoctorTellsTrue` (doctor) |

Hypotheses, beyond the assumptions on the constants:

| Theorem | Hypothesis | Why |
|---|---|---|
| `OffIsForgotten` | `ClearsWork`: the writes that empty the ring do not fail | section 5: a failed clear leaves rows while logging is off |
| `RowsAreKept` | `"history" \notin MayFail`: the ring can be read | section 5: a failed read counts as an empty ring |
| `SavesReplaceTheirBase` | `NoSoftPaint`: the runtime is off and no page uses the Enable switch, so no refresh patches an editor in place | TLC refutes the property without it: the first entry of the second list of section 5 |
| `MocksAreServed` | one session, and `"install" \notin Faults`: no port disconnects while the two calls that install the mock redirects are under way | section 5: two starts at once break it, and so does such a disconnect |
| `SavedMeansHeld` | `NoneIsNoSave`: `None` is not the record of a save | in the runs `None` is a model value |
| `DoctorIsTruthful` | `NoneIsNoReport`: `None` is not a report | likewise |

### The arguments

**Repository.**  `StoreOK` is not inductive: a swap commits what an earlier step
built.  `Inv` adds `PreparedOK` (what waits at a swap is a good envelope *and*
the effect of its command on the envelope it will be compared with) and
`ServedOK` (a handler at an await has a command).  `SwapCommits` compares with
the envelope read, so what was built is the command's effect on the envelope
committed over: `StoreOK` again, and `Serial` at once.  The lemmas under it, in
`ProjectEnvelopeProofs`, say that each builder maps a good envelope to a good one
(`BuildGood`); the only hard one is removal, whose successor must exist and be
stored (`FirstExists`: a finite nonempty set has a first element in the order by
time stamp and id, by the well foundedness of the naturals).  `BuildLawful` says
of a committed mutation that a changed project has its next revision, new content
is disabled, and only a switch moves the selection.  For the refinement,
`AwaitsAgree` adds that a handler at an await has not been answered and only saves
re-read; then a swap that commits is the abstract `Perform`, as is a command
refused on what it read, a storage failure is `GiveUp`, the re-read is `Contend`
or `GiveUp`, and every other await a stutter.

**Page.**  `EditorShowsActive` speaks of a page at rest; what holds always is
`ShowsOrWillShow`: an editor that does not show the active project will be
replaced by a refresh that waits for the AI check and saw the project change, or
remounts anyway.  `PageInv` adds the types and that every envelope shown or on its
way was good when committed (`EnvelopesGood`): without it a mounted project need
not exist.  For the saves, `Dated` says that a revision names one document, and
`Older` that what a page or a message holds is an earlier store: a save is taken
only if its revision is the stored one, and then its base is the stored document.
`Steady` carries this through the awaits of each task.

**Match history.**  Rows queued before an off must be gone once the queue is
empty, so each of them must always have a clear before it: `StaleRowsFollowed` for
rows in the ring and `StaleAppendsFollowed` for appends still queued, with
`Coming(i)`, a clear behind place `i` or an off that the worker has yet to hear.
`OffWillClear` does the same for the toggle.  A stop cuts the queue, which is why
the first two are under `~cut`, and the start-up clear restores `OffWillClear`.
`RowsLeaveInOrder` needs `SeenIsRing`: the snapshot of the append under way is
still the ring, because only the head of the chain writes.

**Reconciler.**  At rest the index names the rule behind each live id because of
what holds on the way (`IndexInv`): what the worker tracks names it always
(`TrackedAgree`); the index does, or a handler that added a rule is still to write
it (`IndexAgrees`), and so does the snapshot of the one that is writing, or another
one will write after it (`SnapshotsAgree`).  A handler that ran alone needs no
history for either (`AloneAgrees`), which is why its write ends `astray`.

The plan is that of the project a handler projects (`PreparedInv`), and its ids are
distinct (`PlanIds`): at most as many rules as ids are planned, so probing finds a
free one (`ProbesFree`: going round from the hash meets each id once, and fewer are
taken than there are), by a recursion along the document (`UrlPlanRecursion`).
Hence an add overwrites no other planned rule and a drop no planned one
(`PutKeeps`, `DropKeeps`), which is the first half of `FailuresLeaveNoGap`; for the
badge, `SteadyInv` says that what a steady handler first saw is still there.

For `SettlesUnlessLeft`, sameSet compares with what is tracked, so an untracked live
rule would go unseen.  `Accounted`: without `left`, each live id is tracked, or a
handler is about to drop it or to add a rule under it, since install() forgets what
it tracked and answers for everything it finds.  `LoneInv`: a handler that ran alone
without failure has all of its plan in the browser but for what it is still to add.

**CA trust.**  `TrustInv` says of each await what the steps before it left:
which manifests were written (`ManifestsInv`), which files of the CA
(`EarlyInv`, `ReplacingInv`), what is trusted (`TrustingInv`), what a rollback with
no failure of its own has put back (`RollbackInv`), and what an uninstall has
removed (`RemovalInv`).  An install comes to the removal of the marker with
everything in place, so if it throws there everything still is.  A kill jumps from any of them to "idle", where only
`DeviceInv` remains: the anchors are known, and a CA whose key is gone is not
trusted unless the marker stands (`KeyOfAnchor`).  That second half is what makes
`AnchorsKnown` inductive: the next install regenerates a certificate without a key
and would lose the old one.

**Proxy.**  `RequestInv` follows one request: the operation that may write its
answer is one of the policy it began with (`Justified`), and a body redirect that
is fetched was revalidated (`Cleared`).  A step moves one request (`OneMoves`), so
the counter of renderings changes by the one that enters or leaves (`Rendering` is
finite, and its cardinality is the counter).  That a rule is chosen at all where one
matches (`Highest`) needs that the priorities lie below the constant the code starts
from.

**Controller, rules.**  `SessionsPaired` ties the one session to the used-up
pairing, `Admitted` every authorization to a matcher of the running preset.
`RoutingInv` says that what is in the browser was made of the enabled rules of the
project and of the rules the session was *started* with; the rest is case analysis
of conditions (`AppliesAsTold`, `RoutesFitIt`).  A PAC route is made of the literal
host of a started request-body rule, which gives the second half of `RoutesFit`
(`RoutingAssumption`: `None` is not a scheme).

**Session.**  `MocksServed` speaks of a state in which nothing is under way; what
carries it there, `SessionInv`, must say of every place of a command and every
frame what they are worth.  `Carried`: a frame of the command is only with the host
of the port, there is one, and it is the one the command waits for (`Due`); this is
what makes a timer's `Forget` and the adapter's dropped ports harmless.  `Serves`:
from the place where the response-body redirects are written to the end, the host
the command started `Listens` with the digest it was given, or has gone; so does
the host of mock redirects that are in place and not about to be swept
(`Installed`).  A host may have exited unheard, but cannot stop or change its
project, because no stop or other project can be in its inbox (`Staying`, `Blank`).
`Tells`: an answer on its way is still so when it is read, though the host may take
steps in between.  `CallsOK` and `RulesOK` do the same for the browser's two calls:
a sweep that nobody waits for has a host gone behind it.  Each host step is proved
on the machine of one host (`HostSteps`), each step of the worker by where the
command goes (`QuietMove`, `PostStep`, `MovesOn`, `CallLeads`).

**Install service, regular expressions.**  `InstallInv`: what a rollback puts back
is what the apply found when it began.  `WarmRuns`: the warm worker is a thread that
runs, so a killed one is never warm.

**Transport.**  The messages are joined to bytes, and those that fit to frames
(`Flats`: the joins of the first k, for each k; `FlatsAll` ties them to the operator
of the library).  `PumpInv` says that the pump has cut the first k messages and
waits (`Waits`): either it keeps the bytes behind them, too few for the next message,
or it keeps none and is to discard exactly what is still to come of an oversized one.
A chunk is fed to a recursive function on the places in what is buffered, which
exists because it only looks ahead (`PumpReads`, `PumpExists`).  From the last place
to the first (`PumpsAll`), one that stands at the mark of a message or inside a
discard (`Ready`) comes to wait again, with the frames of the messages in between
(`Comes`): by the end of a discard (`DiscardAt`), a header that is there and says
the length of the message (`HeaderAt`), and a frame whose bytes are the message's
own (`FrameBytes`).  The first k messages are then the ones whose last byte has
arrived (`WholeOnes`), which is what `FramesExact` expects.  Its second half is
`StageInv`: the stage carries the digest of a begin that was sent, whatever was cut,
dropped or sent twice in between.  Assumed of the constants (`TransportAssumption`):
bytes are below `Base`, and a length fits the header.

**AI assistance.**  `ApplyIsWhatWasChecked` compares two folds over the rules of a
proposal: the host repairs by position, from the queues of flagged places, and the
editor by id, from the targets.  A fold of the community modules is a recursive
function on sets of places; that the function exists (`FoldExists`) and goes through
its values one element after the other (`FoldRun`) is shown by looking at the least
number where it would not (`Smallest`, `UpTo`).  Along the two runs the projects have
the same errors at the same places (`SameErrors`), and the first place of each queue
is that of the first target (`SameTargets`), which needs that ids are told apart in a
group and that new ones are above them all (`Drafted`): else the search by id could
find another rule (`RepairAgrees`, `AddsAlike`, `RepairsAlike`, `MergesAlike`).
`AssistInv` carries this through the steps: each request and each proposal was of a
draft so formed, its targets were the ids of that draft's flagged rules
(`Requested`), and a proposal left no error when the host checked it.  It holds of
every state, also where the user has edited, moved or deleted rules or applied
another proposal since.  Assumed of the constants (`AssistAssumption`): the drafts
have the groups that the answers name, `None` and `Fallback` among them, and ids
told apart below `FirstId`.

**Editor server.**  `FilesKnown`: what a file holds was told to somebody, or the
request that wrote it has not answered yet.  `FilesSound`: it is one the schema
accepts, or what the file held at first, as it was or named; naming a document once
more changes nothing (`Mendable`), so this is inductive over stale reads too.  `TableKnown`: unless two requests
overlapped, a request that has read the table of roots holds it as it is but for
its own root, so what it writes back loses nothing.

**Draft.**  `Committed`: the host holds the snapshot last committed, or has just
taken the one in flight, or an answer was dropped (`stale`).

**Console.**  `ConsoleInv`: a run that the user left behind is not in flight under
the id that is current, because leaving moves the id on (`Bump`).

**Doctor.**  `FineReport` is what the property wants of a report, and `DoctorInv`
says of each place of a run what makes the report it leads to a fine one.
`ReadInv`: the facts that the worker reads together were so together at one moment
(`ProjectRead`), the rules' status follows from them and from another
(`StatusRead`), the phase and the tab from a third.  `HostInv`: the host's checks
stand in their order (`InOrder`), each of the dated ones was so when it was made,
and what the extension has heard is that report, an interrupted one, or nothing.
Moments are only added, so a change of the machine keeps all of this
(`ChangeNext`).  At the end `ReplyRead` and `UiRead` say that the parsers give back
what was built, whatever flags the host sent; `CombinedTells` that a report is fine
exactly if none of the required checks it shows failed; and `RulesAt` that, if one
fact at most changed, one of the moments shows all of those a verdict combines.
Every table of verdicts is decided by one of its rows (`OneRow`), whose check is the
table's own (`Tables`).

Each composition has its invariant (`NativeInv`, `ServicesInv`; for the documents
`DocumentsInv`): that of the part that runs, the others being at rest.

### Only model-checked

* Liveness: `EveryCommandAnswered`, `SavingEnds`, `OffClears`, `CommandsEnd`,
  `AllServed`, `EveryJobSettles` (its second half), `ExtensionSettles`.  The prover handles neither fairness nor ENABLED here.
* What is computed from data of any length or depth, which would take an induction of
  its own for each parser or matcher: `ScanExact`, `ImportKeeps`, `ValidatorsAgree`,
  `WidenedIsReported`, `StaysSound`.  (The library's induction is out of the prover's
  reach; for the folds of the AI assistance and the input pump it was done by hand.)
* `CommandsReconcile`: which content is there, not only which rules.  It holds only
  while every command is projected before the next one and documents of different
  projects share no rule, which is what its environment in the run arranges.

## 5. Disagreements with the documentation

Four have a run whose counterexample shows them (PROJECT.json, findings):

* **A save may go to another project.** `refresh()` takes the new state, then
  awaits the AI check with the old editor still mounted (`page_foreign_save`).
* **Rules of a project left behind.** After an idle stop, a switch to a project
  with nothing enabled hydrates nothing and leaves the other project's rules
  live (`dnr_forgotten`).
* **A failed start is not rolled back.** The host keeps the project; the next
  start is "already started" without a digest and no response-body redirect is
  installed, though the page shows a started runtime (`session_failed_start`).
* **Imported dollars become captures.** `replaceAll("$", "$$")` gives back its
  argument, so `$1` of a Requestly value is stored as a capture
  (`import_dollars`; `requestly-import` `map.ts:894`, `replace.ts:293`).

The next ones are stated by a definition of a module that TLC finds violated when
it is added to a configuration as a property of that module:

| Definition | What the code does | Against |
|---|---|---|
| `EditorDraft!PendingSaveFreezes` | `applyAIProposal` changes the draft while a save is pending (`editor.ts:1991`) | `f5-editor.md:200` |
| `CaTrust!InstallIsTransactional` | the removal of the marker is outside every handler; when it fails, `install()` throws with the CA trusted and the manifests written (`trust.ts:664`) | `architecture.md:346` |
| `EditorDraft!MoveKeepsRefusedName` | a refused name asks for the focus at the place its heading had when its page was drawn, though its rule has just moved; the box of the rule now there replaces the refused one (`editor.ts:4291`; in the configuration of `documents`, `MaxRevision = 3` shows it) | the comment at `editor.ts:4145` |
| `EditorDraft!RenamesKeepNamesUnique` | a rule may be given the name of its own group (`editor.ts:4197`) | the comment at `editor.ts:4178` |
| `Migration!ProvenMeansInside` | a pattern with a repetition after the slash is taken for proven (`migrate-v1.ts:53`) | its own comment |
| `InterceptProxy!StopAnswers` | an open tunnel keeps `stop()` from ending | `f23`, line 25 |
| `InterceptProxy!DisabledGroupsRest` | a rule of a disabled group rewrites bodies: the host gets the whole project | `f23`, line 27 |
| `RuleRouting!DnrHonoursMethod` | redirects and queries go to the browser without their method (`dnr.ts:85`) | `f10-query-params.md:64` |
| `RuleRouting!OnlyEnabledRulesAct` | PAC and redirects are made of all rules at the start (`native-session.ts:178`) | `f17-request-body-rules.md:347` |
| `PacSafety!NestedRepeatsRefused` | a repetition in a group in a repeated group passes the scan (`pac-safety.ts:149`) | `requestly-rule-model.md:99` |
| `AiAssist!RequestSettles` | the client clears its timer before it reads the body (`ai-client.ts:114`) | `ai-integration.md:113` |
| `AiAssist!RepairsItsOwn` | the targets of a repair are those of the last request, not of the proposal (`editor.ts:1992`) | `ai-fix-repair.md:17` |

Path conditions of the import do not keep their meaning (`Keeps` of
`RequestlySource` for conditions of key "path"): a "contains" whose value begins
with a slash misses it at the start of the path, a value that does not begin with
one may be found in the host, and a wildcard may reach into the query.  This is
why `ImportKeeps` speaks of URLs and hosts.

Others met while modelling, which the properties except or which are reached by
changing a constant:

* Page: a toggle's refresh soft-patches the editor with a newer revision and
  keeps the old draft, so the next save replaces another page's document without
  a conflict (`extension-page-entry.ts:2427`, AC-008 in `f7-extension-shell.md`).
* Repository: `core.conflict` answers every save whose swap failed while its
  project exists, also when only another project changed or `set` threw
  (`repository.ts:525`).
* Reconciler: a handler that begins while another has cleared `tracked` and added
  its rules, but not yet written the index, hydrates from the old index
  (`dnr.ts:276`, `dnr.ts:405`): a rule id of the one project is then taken for a
  rule of the other, the index names the wrong rule (ADR 0003) and a projection may
  leave it so (the variable `astray`); equal rule ids keep the content of another project or an older
  document (`service-worker.ts:554`); removing the last project leaves its rules
  (`service-worker.ts:503`); a failed orphan drop is not tried again while the
  desired set stays (`dnr.ts:418`, the variable `left`); a rule that moves to another
  id is gone until it is added again, and if that add fails it counts as active all
  the same (`service-worker.ts:562`, ADR 0010; `steady`); a worker stopped midway
  leaves an index that names the wrong rule (`astray`, ADR 0003).
* History: a failed read of the ring counts as an empty ring, so one failed read
  loses the rows (`match-history.ts:248`; `MayFail = {"history"}`); failed
  start-up or clear writes leave rows while logging is off.
* Session: two starts at once leave mock redirects to a host without their
  tokens; a disconnect heard while the mock redirects are being read and written
  sweeps too early, and they stay (`Faults` with `"install"`;
  `mock-redirect.ts:103`, `background.ts:218`); a disconnect leaves response-body redirects and the phase "started"
  (`background.ts:218`, REQ-046 of F17); a PAC set after a disconnect or a stop
  stays (`background.ts:109`, BN-9); the late disconnect of an old port forgets
  the newer one (`background.ts:213`); a start that times out leaves a host
  running; a late PAC answer is taken for a command (`host.ts:470`).
* Host: the command chain lets a folder dialog or a completion hold up a stop;
  after `set-file-root`, the errors of readings from the old folder may still
  arrive; a second `stop()` answers before the first has ended.
* Rules: a rule with a PAC route but no port also sends `https://h:8443` to the
  proxy; a response-body rule that cannot be projected, in any group, makes the
  start fail with the host left running (`architecture.md:372`); a group of mocks
  enabled after the start shows "active" though nothing serves it; a response-body
  rule without a method acts on GET only.
* Proxy: between rules of one priority the rule id decides, not the order of the
  source (`f23`, line 19); when a transform fails the original is passed on
  (line 28); an upload or an answer that breaks off is forwarded truncated.
* Regular expressions: jobs behind a runaway one on a killed thread end as
  non-matches.
* AI: "Apply Rule" of one rule applies the whole proposal (`ai-assist-panel.ts:343`);
  three retries are documented, two made; the bridge gives up after 10 s, a
  completion may take 60; the first attempt of a fix says "failed validation"
  with an empty list; the server leaves rules that are not whole out of its check
  and hands them to the editor, where Apply throws midway; a stream without an
  end counts as complete; a `Retry-After` date is read as no delay.
* Editor: leaving the console by a rule link during a run leaves `testRunning`
  set (`editor.ts:2338`); a save dropped as stale and then Discard show as clean a
  draft that the host does not hold.
* Editor server: two root saves of one process share a temporary file
  (`mock-root-config.ts:55`), two processes lose each other's roots; naming a
  project renames a stale read over a newer save (`edit.ts:256`); creation checks,
  then writes.
* Schema: the extension alone accepts a query rule without an action, members of
  another rule type, unknown members of a redirect, an unknown mode with
  replacements and a policy of another form; the command line alone accepts a
  removal of a header with a value, and texts whose UTF-16 length is over a limit
  that their code points keep (`browser-schema-mock.test.ts:6` claims parity).
* Import: rules of an id met before are dropped without a row of the report, and
  the failure of one pair is silent when another of its rule succeeds.
* Doctor: the rules' statuses are read before the host is asked and the phase
  after it, so a rule that only needed the runtime, started meanwhile, is told to
  be unroutable (`service-worker.ts:1326`); a group disabled during the run, or a
  failed read of the live rules (`service-worker.ts:646`), reads as a rule in
  error; behind a folder dialog the doctor times out; the one-check report of an
  unreachable host is never accepted, as six checks are asked of every report.
* CA trust: on Linux, a regeneration whose installer fails and an uninstall after
  it leave the old CA in the bundle and report success (`trust.ts:871`); an
  install after an uninstall that could not clean the store drops the marker
  (`trust.ts:664`, the variable `stray`); Debian's installer leaves its
  certificate file when it fails (`linux.ts:244`).

## 6. What is not modelled

| Left out | Why |
|---|---|
| creation, import, export, history and diagnostics panels of the page | each is a message and a refresh; the races of the Workspace tab are those of the editor |
| the editor's forms of the rule types, and drawing | fields of one rule; what a wrong field does is in `SchemaValidation` |
| the values that transforms compute (queries, captures, body replacements), diagnostics of the compiler | pure, and covered by tables of tests in the repository; which rule acts is in `RuleRouting` |
| the page's match feed, redaction and formatting, injection into the console | views of what is modelled |
| prompts and the parsing of completions | text; what a proposal may contain is the constant `Answers` |
| the text of the PAC script, TLS inside a tunnel, header copying, chunks of a body | formats and streams below the level of one request |
| confined files | path checks of one read, with no state of their own |
| `policy.ts`, `selectWinningOperation`, `pacRoutesFromSources`, `projectMatchers`, `applyQueryTransform` | no caller in production |
| body markers | the service worker never gives the start an operation to mark |
| popup, dashboard | views of one message each; what the popup's doctor does is in `Doctor` |
| other CLI commands | they read, compute and print |
| documentation site, smoke and sanity packages | no behaviour of the product |

## 7. Plan

Done: every component of section 1, to the extent section 6 says, and the proofs
of section 4.

Next, in order:

1. Lemmas about `Free` (what it gives is not taken), for `StaysSound`.
2. Wider pages: import, creation and file root on the page; overlapping starts.
3. Composition of `WorkspacePage` with `EditorDraft`, so that the draft a soft
   patch keeps is the editor's own.
