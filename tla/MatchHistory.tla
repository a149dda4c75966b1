---------------------------- MODULE MatchHistory ----------------------------
(***************************************************************************)
(* The match history: a ring of the newest rule matches in session         *)
(* storage, written by the service worker alone (match-history.ts,         *)
(* match-listener.ts) and cleared when Match logging is turned off.        *)
(*                                                                         *)
(* Writes form a chain of tasks, run one after the other; each await of a  *)
(* storage call lets other code of the worker, and the user's toggle, in   *)
(* between.  A step is one storage call with the code up to the next one.  *)
(* The worker loses the chain when the browser stops it; session storage   *)
(* and the toggle stay.                                                    *)
(***************************************************************************)
EXTENDS Naturals, Sequences

CONSTANTS
  Matches,     \* requests that a rule matched, each reported once
  None,        \* no match: the task is a clear
  Cap,         \* MATCH_HISTORY_CAP
  MayFail,     \* calls that may fail: "toggle", "startup", "history", "store", "wipe"
  MaxOffs,     \* bound: how often logging is turned off
  MaxClears,   \* bound: how often Clear is pressed
  MaxStops     \* bound: how often the browser stops the worker

ASSUME HistoryAssumption ==
  /\ None \notin Matches
  /\ Cap \in Nat \ {0}
  /\ MayFail \subseteq {"toggle", "startup", "history", "store", "wipe"}
  /\ MaxOffs \in Nat /\ MaxClears \in Nat /\ MaxStops \in Nat

VARIABLES
  logging,    \* the toggle in local storage (a missing key is on)
  events,     \* values of the toggle the worker has not been told of
  ring,       \* the rows in session storage, oldest first
  worker,     \* "down", "starting" (its read of the toggle is out), "up"
  listener,   \* listener[m]: where the listener is with match m
  chain,      \* the tasks queued, the first one running
  offs,       \* history: how often logging was turned off
  cut,        \* history: a stop of the worker cut off work
  clears, stops

vars == <<logging, events, ring, worker, listener, chain, offs, cut, clears, stops>>

\* `told` is history: how often logging was off when the match was queued.
Row == [match: Matches, told: 0 .. MaxOffs]

Where == {"first", "second", "snapshot", "third", "store", "last", "wipe"}
Task  == [match: Matches \cup {None}, told: 0 .. MaxOffs, at: Where, seen: Seq(Row)]

ClearTask == [match |-> None, told |-> offs, at |-> "wipe", seen |-> <<>>]
AppendTask(m) == [match |-> m, told |-> offs, at |-> "first", seen |-> <<>>]

TypeOK ==
  /\ logging \in BOOLEAN
  /\ events \in Seq(BOOLEAN)
  /\ ring \in Seq(Row) /\ Len(ring) <= Cap
  /\ worker \in {"down", "starting", "up"}
  /\ listener \in [Matches -> {"none", "toggle", "lookup", "gone"}]
  /\ chain \in Seq(Task)
  /\ offs \in 0 .. MaxOffs /\ clears \in 0 .. MaxClears /\ stops \in 0 .. MaxStops
  /\ cut \in BOOLEAN
  /\ worker = "down" => chain = <<>>

Init ==
  /\ logging \in BOOLEAN
  /\ events = <<>> /\ ring = <<>> /\ chain = <<>>
  /\ worker = "down"
  /\ listener = [m \in Matches |-> "none"]
  /\ offs = 0 /\ clears = 0 /\ stops = 0
  /\ cut = FALSE

Running == worker # "down"

\* readMatchLoggingEnabled: a failed read counts as off.
Toggle == {logging} \cup (IF "toggle" \in MayFail THEN {FALSE} ELSE {})

Enqueue(task) == chain' = Append(chain, task)

-----------------------------------------------------------------------------
(* The toggle, in the popup or on the page, and the worker's life.         *)

SetLogging ==
  /\ logging => offs < MaxOffs
  /\ logging' = ~logging
  /\ events' = Append(events, ~logging)
  /\ offs' = IF logging THEN offs + 1 ELSE offs
  /\ UNCHANGED <<ring, worker, listener, chain, cut, clears, stops>>

\* An event or a message starts the worker; registerMatchHistory reads the toggle.
Wake ==
  /\ worker = "down"
  /\ worker' = "starting"
  /\ UNCHANGED <<logging, events, ring, listener, chain, offs, cut, clears, stops>>

\* "A failed toggle read must not wipe session history."
Registered ==
  /\ worker = "starting"
  /\ worker' = "up"
  /\ \/ ~logging /\ Enqueue(ClearTask)
     \/ (logging \/ "startup" \in MayFail) /\ UNCHANGED chain
  /\ UNCHANGED <<logging, events, ring, listener, offs, cut, clears, stops>>

Busy == \/ worker = "starting" \/ chain # <<>> \/ events # <<>>
        \/ \E m \in Matches : listener[m] \in {"toggle", "lookup"}

\* The browser stops the worker, with nothing left to do or in the middle.
Stop ==
  /\ Running /\ stops < MaxStops
  /\ stops' = stops + 1
  /\ worker' = "down"
  /\ chain' = <<>>
  /\ listener' = [m \in Matches |-> IF listener[m] = "none" THEN "none" ELSE "gone"]
  /\ cut' = (cut \/ Busy)
  /\ UNCHANGED <<logging, events, ring, offs, clears>>

\* Mutant of ToggleHeard: the listener acts on the toggle as it is now.
ToggleHeardLate ==
  /\ Running /\ events # <<>>
  /\ events' = Tail(events)
  /\ IF logging THEN UNCHANGED chain ELSE Enqueue(ClearTask)
  /\ UNCHANGED <<logging, ring, worker, listener, offs, cut, clears, stops>>

\* storage.onChanged: off clears, whatever the toggle is by now.
ToggleHeard ==
  /\ Running /\ events # <<>>
  /\ events' = Tail(events)
  /\ IF Head(events) THEN UNCHANGED chain ELSE Enqueue(ClearTask)
  /\ UNCHANGED <<logging, ring, worker, listener, offs, cut, clears, stops>>

\* Mutant of ClearHeard: the ring is emptied at once, outside of the chain.
ClearHeardAtOnce ==
  /\ Running /\ clears < MaxClears
  /\ clears' = clears + 1
  /\ ring' = <<>>
  /\ UNCHANGED <<logging, events, worker, listener, chain, offs, cut, stops>>

\* The Clear button of the page.
ClearHeard ==
  /\ Running /\ clears < MaxClears
  /\ clears' = clears + 1
  /\ Enqueue(ClearTask)
  /\ UNCHANGED <<logging, events, ring, worker, listener, offs, cut, stops>>

-----------------------------------------------------------------------------
(* handleRuleMatchedDebug.                                                 *)

Listen(m, from, to) ==
  /\ Running /\ listener[m] = from
  /\ listener' = [listener EXCEPT ![m] = to]

Matched(m) ==
  /\ Listen(m, "none", "toggle")
  /\ UNCHANGED <<logging, events, ring, worker, chain, offs, cut, clears, stops>>

ToggleRead(m) ==
  /\ \E enabled \in Toggle : Listen(m, "toggle", IF enabled THEN "lookup" ELSE "gone")
  /\ UNCHANGED <<logging, events, ring, worker, chain, offs, cut, clears, stops>>

\* The match index knows the rule, or the match is not recorded.
LookedUp(m) ==
  /\ Listen(m, "lookup", "gone")
  /\ Enqueue(AppendTask(m)) \/ UNCHANGED chain
  /\ UNCHANGED <<logging, events, ring, worker, offs, cut, clears, stops>>

-----------------------------------------------------------------------------
(* The task at the head of the chain.                                      *)

Now(at) == Running /\ chain # <<>> /\ Head(chain).at = at
Go(at)  == chain' = [chain EXCEPT ![1].at = at]
Done    == chain' = Tail(chain)

\* appendMatchHistory keeps the newest rows.
Newest(rows) == IF Len(rows) <= Cap THEN rows
                ELSE SubSeq(rows, Len(rows) - Cap + 1, Len(rows))

\* recordMatchHistory reads the toggle again and again: off, and the match is
\* not written ...
Checked(at, onward) ==
  /\ Now(at)
  /\ \E enabled \in Toggle : IF enabled THEN Go(onward) ELSE Done
  /\ UNCHANGED <<logging, events, ring, worker, listener, offs, cut, clears, stops>>

\* ... or, when the row is in already, wiped.
CheckedLast ==
  /\ Now("last")
  /\ \E enabled \in Toggle : IF enabled THEN Done ELSE Go("wipe")
  /\ UNCHANGED <<logging, events, ring, worker, listener, offs, cut, clears, stops>>

\* readMatchHistory: a failed read is an empty history.
Snapshot ==
  /\ Now("snapshot")
  /\ \E rows \in {ring} \cup (IF "history" \in MayFail THEN {<<>>} ELSE {}) :
       chain' = [chain EXCEPT ![1].seen = rows, ![1].at = "third"]
  /\ UNCHANGED <<logging, events, ring, worker, listener, offs, cut, clears, stops>>

\* Mutant of Failed: a rejected task rejects all that follow it.
FailedForGood == chain' = <<[Head(chain) EXCEPT !.at = "rejected"]>>

\* A task that fails leaves the chain like any other.
Failed == Done

Store ==
  /\ Now("store")
  /\ LET task == Head(chain)
     IN  \/ /\ ring' = Newest(Append(task.seen, [match |-> task.match, told |-> task.told]))
            /\ Go("last")
         \/ /\ "store" \in MayFail
            /\ Failed
            /\ UNCHANGED ring
  /\ UNCHANGED <<logging, events, worker, listener, offs, cut, clears, stops>>

Wipe ==
  /\ Now("wipe")
  /\ \/ ring' = <<>> /\ Done
     \/ "wipe" \in MayFail /\ Failed /\ UNCHANGED ring
  /\ UNCHANGED <<logging, events, worker, listener, offs, cut, clears, stops>>

Run ==
  \/ Checked("first", "second")
  \/ Checked("second", "snapshot")
  \/ Snapshot
  \/ Checked("third", "store")
  \/ Store
  \/ CheckedLast
  \/ Wipe

Next ==
  \/ SetLogging
  \/ Wake
  \/ Registered
  \/ Stop
  \/ ToggleHeard
  \/ ClearHeard
  \/ \E m \in Matches : Matched(m) \/ ToggleRead(m) \/ LookedUp(m)
  \/ Run

\* The browser starts the worker for a change of the toggle and tells it; the
\* worker runs its code.  Nothing is asked of users, requests or stops.
Fairness ==
  /\ WF_vars(events # <<>> /\ Wake)
  /\ WF_vars(Registered)
  /\ WF_vars(ToggleHeard)
  /\ WF_vars(Run)

Spec == Init /\ [][Next]_vars /\ Fairness

-----------------------------------------------------------------------------
(* Properties.                                                             *)

Quiet == worker = "up" /\ chain = <<>> /\ events = <<>>

\* With logging off and the worker at rest the ring is empty, however matches,
\* toggles and stops came ("A toggle-off that lands during an append leaves the
\* ring empty", "A worker that starts while the toggle is off clears it again").
OffIsEmpty == Quiet /\ ~logging => ring = <<>>

\* A row queued before logging was last turned off is gone once the worker is
\* at rest, even when logging has long been on again; a stop amid work apart.
OffForgets == Quiet /\ ~cut => \A i \in DOMAIN ring : ring[i].told = offs

\* Both: what was logged before an off is not seen after it, a stop included.
OffLeavesNothing == OffIsEmpty /\ OffForgets

\* Rows are lost to a clear or, one at a time and oldest first, to the cap:
\* never to another append ("Writes are serialized").
RowsLeaveInOrder ==
  [][ring' # ring =>
       \/ ring' = <<>>
       \/ \E m \in Matches, told \in 0 .. MaxOffs :
            \/ ring' = Append(ring, [match |-> m, told |-> told])
            \/ /\ Len(ring) = Cap
               /\ ring' = Append(Tail(ring), [match |-> m, told |-> told])]_vars

\* Once logging is off the ring is emptied, unless it is turned on again or the
\* browser cut off the work; a failed write does not hold up those behind it.
OffClears == ~logging ~> (ring = <<>> \/ logging \/ cut)
=============================================================================
