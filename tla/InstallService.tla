---------------------------- MODULE InstallService ----------------------------
(***************************************************************************)
(* The install service of browser-core: applies of a set of operations, one *)
(* after the other, each put back when it fails.                            *)
(***************************************************************************)
EXTENDS Naturals, Sequences

CONSTANTS
  Sets,      \* sets of operations
  None,
  MaxApplies \* bound on applies

VARIABLES
  installed,  \* what the browser has
  waiting,    \* sets still to be applied, oldest first
  asked,      \* applies so far
  at,         \* the step the apply in progress is at
  desired, previous,
  before,     \* what the browser had when that apply began
  outcomes    \* one record per finished apply

vars == <<installed, waiting, asked, at, desired, previous, before, outcomes>>
job == <<desired, previous, before>>

Init ==
  /\ installed \in Sets /\ waiting = <<>> /\ asked = 0 /\ at = "idle"
  /\ desired = None /\ previous = None /\ before = None /\ outcomes = <<>>

Apply(set) ==
  /\ asked < MaxApplies
  /\ waiting' = Append(waiting, set) /\ asked' = asked + 1
  /\ UNCHANGED <<installed, at, job, outcomes>>

\* The tail of the queue goes on whatever the apply before it came to.
Start ==
  /\ at = "idle" /\ waiting # <<>>
  /\ desired' = Head(waiting) /\ waiting' = Tail(waiting)
  /\ before' = installed /\ at' = "reading"
  /\ UNCHANGED <<installed, asked, previous, outcomes>>

Finish(ok, recovered, noop) ==
  /\ outcomes' = Append(outcomes, [ok |-> ok, recovered |-> recovered, noop |-> noop,
                                   desired |-> desired, before |-> before, after |-> installed'])
  /\ at' = "idle" /\ UNCHANGED <<waiting, asked, desired, before>>

Read ==
  /\ at = "reading"
  /\ UNCHANGED installed
  /\ \/ Finish(FALSE, FALSE, FALSE) /\ UNCHANGED previous
     \/ previous' = installed
        /\ IF desired = installed THEN Finish(TRUE, FALSE, TRUE)
           ELSE at' = "installing" /\ UNCHANGED <<waiting, asked, desired, before, outcomes>>

\* tryInstall(): a failed or thrown install may have left anything behind.
Installs(set, ok) == IF ok THEN installed' = set ELSE installed' \in Sets

Install(ok) ==
  /\ at = "installing" /\ UNCHANGED previous
  /\ Installs(desired, ok)
  /\ IF ok THEN Finish(TRUE, FALSE, FALSE)
     ELSE at' = "rolling back" /\ UNCHANGED <<waiting, asked, desired, before, outcomes>>

\* Mutant of Recovered: that the rollback was tried is taken for its success.
RecoveredAlways(ok) == TRUE
Recovered(ok) == ok

RollBack(ok) ==
  /\ at = "rolling back" /\ UNCHANGED previous
  /\ Installs(previous, ok)
  /\ Finish(FALSE, Recovered(ok), FALSE)

Step == Start \/ Read \/ \E ok \in BOOLEAN : Install(ok) \/ RollBack(ok)
Next == Step \/ \E set \in Sets : Apply(set)
Spec == Init /\ [][Next]_vars /\ WF_vars(Step)

-----------------------------------------------------------------------------
\* An outcome tells the truth about the browser: ok means the desired set is
\* in place, recovered that the set from before the apply is.
OutcomesHonest ==
  \A i \in DOMAIN outcomes :
    LET o == outcomes[i]
    IN  /\ o.ok => o.after = o.desired
        /\ o.recovered => o.after = o.before

\* No failure of an apply or of its rollback stops the applies after it.
QueueGoesOn == []<>(waiting = <<>> /\ at = "idle")
==============================================================================
