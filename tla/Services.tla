------------------------------- MODULE Services -------------------------------
(***************************************************************************)
(* Five components that never meet in one specification: the native        *)
(* session, which this module extends, the install service, the transport  *)
(* of the native host, the worker for regular expressions and the AI       *)
(* assistance.  `part` names the one that takes the steps; the variables   *)
(* of the others stay None, and those of the session stay initial.         *)
(***************************************************************************)
EXTENDS NativeSession

CONSTANTS
  Sets, MaxApplies,                                            \* install service
  Base, MaxFrame, Streams,                                     \* transport
  Jobs, Workers,                                               \* regex worker
  Drafts, Answers, FirstId, Fallback, MaxRequests, MaxEdits    \* AI assistance

VARIABLES
  part,
  installed, waiting, asked, at, desired, previous, before, outcomes,
  input, arrived, buffer, discard, frames, commandChain, running, replied, stage, set, answered,
  warm, boot, thread, queue, executing, news, job,
  host, draft, freshId, targets, request, serial, edits, offers, completions, fetch, streams,
  retries, attempt, answer, got

installVars == <<installed, waiting, asked, at, desired, previous, before, outcomes>>
transportVars == <<input, arrived, buffer, discard, frames, commandChain, running, replied,
                   stage, set, answered>>
regexVars == <<warm, boot, thread, queue, executing, news, job>>
assistVars == <<host, draft, freshId, targets, request, serial, edits, offers, completions,
                fetch, streams, retries, attempt, answer, got>>

Install == INSTANCE InstallService
Transport == INSTANCE NativeTransport WITH Inputs <- Streams, chain <- commandChain
Regex == INSTANCE RegexWorker WITH worker <- warm, running <- executing
Assist == INSTANCE AiAssist WITH calls <- completions

ASSUME ServicesAssumption ==
  Transport!TransportAssumption /\ Regex!WorkerAssumption /\ Assist!AssistAssumption

NoInstall ==
  /\ installed = None /\ waiting = None /\ asked = None /\ at = None /\ desired = None
  /\ previous = None /\ before = None /\ outcomes = None
NoTransport ==
  /\ input = None /\ arrived = None /\ buffer = None /\ discard = None /\ frames = None
  /\ commandChain = None /\ running = None /\ replied = None /\ stage = None /\ set = None
  /\ answered = None
NoRegex ==
  /\ warm = None /\ boot = None /\ thread = None /\ queue = None /\ executing = None
  /\ news = None /\ job = None
NoAssist ==
  /\ host = None /\ draft = None /\ freshId = None /\ targets = None /\ request = None
  /\ serial = None /\ edits = None /\ offers = None /\ completions = None /\ fetch = None
  /\ streams = None /\ retries = None /\ attempt = None /\ answer = None /\ got = None

ServicesInit ==
  /\ Init
  /\ \/ part = "session" /\ NoInstall /\ NoTransport /\ NoRegex /\ NoAssist
     \/ /\ active = CHOOSE p \in Projects : TRUE
        /\ \/ part = "install" /\ Install!Init /\ NoTransport /\ NoRegex /\ NoAssist
           \/ part = "transport" /\ Transport!Init /\ NoInstall /\ NoRegex /\ NoAssist
           \/ part = "regex" /\ Regex!Init /\ NoInstall /\ NoTransport /\ NoAssist
           \/ part = "assist" /\ Assist!Init /\ NoInstall /\ NoTransport /\ NoRegex

all == <<part, vars, installVars, transportVars, regexVars, assistVars>>

ServicesNext ==
  /\ UNCHANGED part
  /\ \/ /\ part = "session" /\ Next
        /\ UNCHANGED <<installVars, transportVars, regexVars, assistVars>>
     \/ /\ part = "install" /\ Install!Next
        /\ UNCHANGED <<vars, transportVars, regexVars, assistVars>>
     \/ /\ part = "transport" /\ Transport!Next
        /\ UNCHANGED <<vars, installVars, regexVars, assistVars>>
     \/ /\ part = "regex" /\ Regex!Next
        /\ UNCHANGED <<vars, installVars, transportVars, assistVars>>
     \/ /\ part = "assist" /\ Assist!Next
        /\ UNCHANGED <<vars, installVars, transportVars, regexVars>>

\* The fairness of each module, asked while it is the part that runs.
ServicesFairness ==
  /\ \A s \in Sessions : WF_vars(part = "session" /\ WorkerStep(s))
  /\ WF_vars(part = "session" /\ (AnswerRead \/ AnswerWrite))
  /\ WF_installVars(part = "install" /\ Install!Step)
  /\ WF_transportVars(part = "transport" /\ Transport!Arrives)
  /\ WF_transportVars(part = "transport" /\ Transport!Serves)
  /\ \A w \in Workers :
       /\ WF_regexVars(part = "regex" /\ (Regex!BootReady(w) \/ Regex!BootFails(w)))
       /\ WF_regexVars(part = "regex" /\ Regex!Take(w))
       /\ WF_regexVars(part = "regex" /\ Regex!Hears(w))
       /\ WF_regexVars(part = "regex" /\ thread[w] = "killed" /\ Regex!Exit(w))
  /\ \A j \in Jobs : WF_regexVars(part = "regex" /\ Regex!Deadline(j))
  /\ WF_assistVars(part = "assist" /\ Assist!TakeUp)
  /\ WF_assistVars(part = "assist" /\ Assist!FetchTimesOut)
  /\ WF_assistVars(part = "assist" /\ Assist!BridgeTimesOut)

ServicesSpec == ServicesInit /\ [][ServicesNext]_all /\ ServicesFairness

-------------------------------------------------------------------------------
(* The properties of each part, under the name they have in its module.      *)

\* NativeSession: at rest, mock redirects lead to a running host that knows their
\* tokens, and a started project with mocks has them.
MocksServed == MockRedirectsServed /\ StartedMocksInstalled

\* InstallService: outcomes tell the truth about the browser.
OutcomesHonest == part = "install" => Install!OutcomesHonest

\* NativeTransport: frames are cut at their own bytes however stdin is chunked, and
\* a project that is set is the one some begin announced.
FramesExact == part = "transport" => Transport!FramesExact /\ Transport!SetAsAnnounced

\* NativeTransport: all that is sent is served, replies past the chain.  InstallService:
\* no failure of an install or of its rollback stops the installs behind it.
AllServed ==
  /\ <>(part = "transport" => Transport!Served)
  /\ []<>(part = "install" => waiting = <<>> /\ at = "idle")

\* RegexWorker: every job that was asked for is settled, and none is posted to a
\* thread that a deadline has killed.
EveryJobSettles ==
  /\ [][part = "regex" => Regex!PostedToLive]_regexVars
  /\ \A j \in Jobs : (part = "regex" /\ job[j].at # "new")
                        ~> (part = "regex" /\ job[j].at \notin {"new", "waiting", "posted", "timed"})

\* AiAssist: a proposal applied to the draft it was asked for leaves no error.
ApplyIsWhatWasChecked == part = "assist" => Assist!ApplyIsWhatWasChecked

\* AiAssist: the extension's editor gets an end to each request.
ExtensionSettles ==
  \A n \in 1 .. MaxRequests :
    (part = "assist" /\ host = "extension" /\ request # None /\ request.serial = n)
      ~> (part = "assist" /\ (request = None \/ request.serial # n))
===============================================================================
