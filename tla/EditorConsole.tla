---------------------------- MODULE EditorConsole ----------------------------
(***************************************************************************)
(* The editor's test console (packages/editor): dry runs in flight, the     *)
(* verdict shown, and where the console is: a dialog over the editor, or a  *)
(* page that the host shows and that the editor leaves by telling the host. *)
(***************************************************************************)
EXTENDS Naturals

CONSTANTS
  None,
  Surfaces,  \* "dialog" and "page"
  MaxRuns    \* bound on navigations and test runs

VARIABLES
  surface,   \* where this editor's console is
  open,      \* testConsoleOpen
  hostOpen,  \* the host shows the console page
  picker,    \* groupPickerOpen
  request,   \* testRequestId
  running,   \* testRunning
  flights,   \* ids of the dry runs not yet answered
  result,    \* None or the id of the run whose verdict is shown
  abandoned  \* the newest run was left behind by a navigation or a close

vars == <<surface, open, hostOpen, picker, request, running, flights, result, abandoned>>
test == <<running, flights, result>>

Init ==
  /\ surface \in Surfaces
  /\ open = FALSE /\ hostOpen = FALSE /\ picker = FALSE
  /\ request = 0 /\ running = FALSE /\ flights = {} /\ result = None /\ abandoned = FALSE

\* releaseConsolePage() and the render() that follows: the host is told once.
Told == open' = FALSE /\ hostOpen' = FALSE

\* A run is given up by moving the request id on; it keeps running.
Bump == /\ request < MaxRuns /\ request' = request + 1 /\ abandoned' = TRUE

\* navigate() and navigateToGroup(), by the rail, a result or a rule link.
Navigate ==
  /\ picker' = FALSE /\ Told /\ Bump
  /\ UNCHANGED <<surface, test>>

\* syncRoute(): the host changes the group; an open console page stays.
SyncRoute ==
  /\ picker' = FALSE
  /\ IF surface = "page" /\ open THEN UNCHANGED <<request, abandoned>> ELSE Bump
  /\ UNCHANGED <<surface, open, hostOpen, test>>

\* A diagnostic or a search result takes the user to its field.
NavigateToField ==
  /\ Told
  /\ \E p \in BOOLEAN : picker' = (p /\ picker)
  /\ UNCHANGED <<surface, request, abandoned, test>>

OpenDialog ==
  /\ surface = "dialog" /\ ~open
  /\ open' = TRUE /\ picker' = FALSE
  /\ UNCHANGED <<surface, hostOpen, request, abandoned, test>>

CloseDialog ==
  /\ surface = "dialog" /\ open
  /\ open' = FALSE
  /\ running' = FALSE
  /\ IF running THEN Bump ELSE UNCHANGED <<request, abandoned>>
  /\ UNCHANGED <<surface, hostOpen, picker, flights, result>>

\* setConsolePage(): the host opens or leaves the page.
SetConsolePage ==
  /\ surface = "page"
  /\ open' = ~open /\ hostOpen' = ~open
  /\ picker' = FALSE
  /\ UNCHANGED <<surface, request, abandoned, test>>

OpenPicker ==
  /\ Told /\ picker' = TRUE
  /\ UNCHANGED <<surface, request, abandoned, test>>

ClosePicker ==
  /\ picker /\ picker' = FALSE
  /\ UNCHANGED <<surface, open, hostOpen, request, abandoned, test>>

-----------------------------------------------------------------------------
\* runTest() up to its await, with a list of URLs that is accepted.
RunTest ==
  /\ open /\ ~running /\ request < MaxRuns
  /\ request' = request + 1 /\ flights' = flights \cup {request + 1}
  /\ running' = TRUE /\ abandoned' = FALSE
  /\ UNCHANGED <<surface, open, hostOpen, picker, result>>

\* runTest() with no rules, or with too many URLs: the verdict is cleared.
RefuseTest ==
  /\ open /\ ~running
  /\ result' = None
  /\ UNCHANGED <<surface, open, hostOpen, picker, request, running, flights, abandoned>>

\* Mutant of Current: any answer is taken for the newest run's.
CurrentAny(id) == id \in 1 .. request
Current(id) == id = request

Answered(id) == id \in flights /\ flights' = flights \ {id}

\* A late answer is dropped; what it set stays set.
Drop(id) ==
  /\ Answered(id) /\ ~Current(id)
  /\ UNCHANGED <<surface, open, hostOpen, picker, request, running, result, abandoned>>

Verdict(id) ==
  /\ Answered(id) /\ Current(id)
  /\ running' = FALSE /\ result' = id
  /\ UNCHANGED <<surface, open, hostOpen, picker, request, abandoned>>

\* The project could not be tested: its first diagnostic is shown instead.
Diagnosed(id) ==
  /\ Answered(id) /\ Current(id)
  /\ running' = FALSE /\ result' = None
  /\ \/ Told
     \/ UNCHANGED <<open, hostOpen>>
  /\ UNCHANGED <<surface, picker, request, abandoned>>

Next ==
  \/ Navigate \/ SyncRoute \/ NavigateToField \/ OpenDialog \/ CloseDialog
  \/ SetConsolePage \/ OpenPicker \/ ClosePicker \/ RunTest \/ RefuseTest
  \/ \E id \in flights : Drop(id) \/ Verdict(id) \/ Diagnosed(id)

Spec == Init /\ [][Next]_vars

-----------------------------------------------------------------------------
\* A verdict that appears is the one of the run started last, and of one that
\* the user has not left behind (runTest's request id).
LateVerdictDropped ==
  [][(result' # result /\ result' # None) => result' = request /\ ~abandoned]_vars

\* The host shows the console page exactly while the editor does, whoever
\* opened or left it.
HostFollows == surface = "page" => open = hostOpen
==============================================================================
