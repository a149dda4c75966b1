------------------------------ MODULE Documents ------------------------------
(***************************************************************************)
(* What edits and examines projects in one specification: the draft of one *)
(* editor, its test console, the servers of `rogatio edit`, which this     *)
(* module extends, and the doctor.  They share no state; `part` names the  *)
(* one that takes the steps, the variables of the others stay None, and    *)
(* those of the editor server stay initial.                                *)
(***************************************************************************)
EXTENDS EditorServer, Integers, SequencesExt

CONSTANTS
  InitialDrafts, Typed, Proposals, Kinds,
  MaxRevision, MaxGroups, MaxRules, MaxTokens, MaxOffers,  \* draft
  MaxRuns,                                                 \* console
  Worlds, Live, MaxChanges                                 \* doctor

VARIABLES
  part,
  draft, committed, host, stale, revision, save, route, rename, confirm, asking, targets, offers,
  surface, open, hostOpen, picker, run, running, flights, result, abandoned,
  world, seen, asker, step, facts, shown

draftVars == <<draft, committed, host, stale, revision, save, route, rename, confirm, asking,
               targets, offers>>
consoleVars == <<surface, open, hostOpen, picker, run, running, flights, result, abandoned>>
doctorVars == <<world, seen, asker, step, facts, shown>>
documentVars == <<part, draftVars, consoleVars, vars, doctorVars>>

Draft == INSTANCE EditorDraft
Console == INSTANCE EditorConsole WITH Surfaces <- {"dialog", "page"}, request <- run
Checks == INSTANCE Doctor WITH surface <- asker, at <- step

ASSUME DocumentsAssumption == ServerAssumption /\ Checks!DoctorAssumption

NoDraft ==
  /\ draft = None /\ committed = None /\ host = None /\ stale = None /\ revision = None
  /\ save = None /\ route = None /\ rename = None /\ confirm = None /\ asking = None
  /\ targets = None /\ offers = None
NoConsole ==
  /\ surface = None /\ open = None /\ hostOpen = None /\ picker = None /\ run = None
  /\ running = None /\ flights = None /\ result = None /\ abandoned = None
NoServer == Init /\ disk = [p \in Paths |-> None]
NoDoctor ==
  /\ world = None /\ seen = None /\ asker = None /\ step = None /\ facts = None /\ shown = None

DocumentsInit ==
  \/ part = "draft" /\ Draft!Init /\ NoConsole /\ NoServer /\ NoDoctor
  \/ part = "console" /\ Console!Init /\ NoDraft /\ NoServer /\ NoDoctor
  \/ part = "server" /\ Init /\ NoDraft /\ NoConsole /\ NoDoctor
  \/ part = "doctor" /\ Checks!Init /\ NoDraft /\ NoConsole /\ NoServer

DocumentsNext ==
  /\ UNCHANGED part
  /\ \/ part = "draft" /\ Draft!Next /\ UNCHANGED <<consoleVars, vars, doctorVars>>
     \/ part = "console" /\ Console!Next /\ UNCHANGED <<draftVars, vars, doctorVars>>
     \/ part = "server" /\ Next /\ UNCHANGED <<draftVars, consoleVars, doctorVars>>
     \/ part = "doctor" /\ Checks!Next /\ UNCHANGED <<draftVars, consoleVars, vars>>

DocumentsSpec == DocumentsInit /\ [][DocumentsNext]_documentVars

-------------------------------------------------------------------------------
\* EditorDraft: a draft shown as clean is what the host holds, unless an accepted save
\* was dropped.
CleanMeansSaved == part = "draft" => Draft!CleanMeansSaved

\* EditorDraft: no step of the user makes a sound draft unsound, and the Enable switch
\* of a group acts on that group.
StaysSound ==
  [][part = "draft" => Draft!KeepsSound]_draft /\ [](part = "draft" => Draft!EnableHitsItsGroup)

\* EditorConsole: the verdict of a run that was left is never shown, and the host is
\* told where the console is.
LateVerdictDropped ==
  Console!LateVerdictDropped /\ [](part = "console" => Console!HostFollows)

\* Doctor: no report hides a required failure, the page shows what the worker built,
\* and each verdict was so at some moment of the run.
DoctorTellsTrue ==
  part = "doctor" => Checks!NoFailureHidden /\ Checks!PageKeepsReport /\ Checks!VerdictsWereSo
===============================================================================
