-------------------------- MODULE MatchHistoryProofs --------------------------
(***************************************************************************)
(* Theorems about MatchHistory, for every set of matches, every cap and    *)
(* any number of toggles, clears and stops.  A row may outlive an off only *)
(* until the clear that the off announced: the inductive invariant says    *)
(* where that clear is, an event the worker has not heard, a task behind   *)
(* in the chain, or the last check of the append that is running.          *)
(***************************************************************************)
EXTENDS MatchHistory, SequenceTheorems, TLAPS

-----------------------------------------------------------------------------
(* The inductive invariant.                                                *)

\* An off is announced that the worker has not heard.
OffAnnounced == \E e \in DOMAIN events : ~events[e]

\* A task after the i-th one empties the ring.
WipeAfter(i) == \E j \in DOMAIN chain : i < j /\ chain[j].at = "wipe"

Coming(i) == OffAnnounced \/ WipeAfter(i)

\* Only an append gets past the wipe's place, and an append has a match.
AppendsHaveMatches ==
  \A i \in DOMAIN chain : chain[i].at # "wipe" => chain[i].match \in Matches

\* Only the first task is under way.
OthersWait ==
  \A i \in DOMAIN chain : i # 1 => chain[i].at \in {"first", "wipe"}

\* The snapshot of the running append is still the ring, or a failed read.
SeenIsRing ==
  (chain # <<>> /\ chain[1].at \in {"third", "store"}) =>
    chain[1].seen = ring \/ ("history" \in MayFail /\ chain[1].seen = <<>>)

\* While logging is off, rows of the ring are about to be cleared.
OffWillClear ==
  (worker = "up" /\ ~logging /\ ring # <<>>) =>
    Coming(0) \/ (chain # <<>> /\ chain[1].at = "last")

\* An append queued before the last off is followed by a clear.
StaleAppendsFollowed ==
  ~cut => \A i \in DOMAIN chain :
            (chain[i].match \in Matches /\ chain[i].told # offs) => Coming(i)

\* A row queued before the last off is about to be cleared.
StaleRowsFollowed ==
  ~cut => \A i \in DOMAIN ring : ring[i].told # offs => Coming(0)

TasksInv == AppendsHaveMatches /\ OthersWait /\ StaleAppendsFollowed

HistoryInv ==
  /\ TypeOK
  /\ TasksInv
  /\ SeenIsRing
  /\ OffWillClear
  /\ StaleRowsFollowed
-----------------------------------------------------------------------------
(* What the worker does to its chain.                                      *)

LEMMA Enqueued ==
  ASSUME chain \in Seq(Task), NEW task \in Task, Enqueue(task)
  PROVE  /\ chain' \in Seq(Task)
         /\ DOMAIN chain' = DOMAIN chain \cup {Len(chain) + 1}
         /\ Len(chain) + 1 \notin DOMAIN chain
         /\ \A i \in DOMAIN chain : i \in Nat \ {0} /\ i <= Len(chain) /\ chain'[i] = chain[i]
         /\ chain'[Len(chain) + 1] = task
         /\ Len(chain) \in Nat
BY LenProperties, AppendProperties DEF Enqueue

LEMMA Popped ==
  ASSUME chain \in Seq(Task), chain # <<>>, Done
  PROVE  /\ chain' \in Seq(Task)
         /\ DOMAIN chain' \subseteq Nat \ {0}
         /\ DOMAIN chain \subseteq Nat \ {0}
         /\ \A i \in DOMAIN chain' : i + 1 \in DOMAIN chain /\ chain'[i] = chain[i + 1]
         /\ \A i \in DOMAIN chain : 1 < i => i - 1 \in DOMAIN chain' /\ chain'[i - 1] = chain[i]
<1>1. /\ Tail(chain) \in Seq(Task)
      /\ Len(Tail(chain)) = Len(chain) - 1
      /\ \A i \in 1 .. Len(Tail(chain)) : Tail(chain)[i] = chain[i + 1]
      /\ Len(chain) \in Nat \ {0}
  BY HeadTailProperties, EmptySeq
<1>2. DOMAIN chain = 1 .. Len(chain) /\ DOMAIN Tail(chain) = 1 .. Len(Tail(chain))
  BY <1>1, LenProperties
<1> QED BY <1>1, <1>2 DEF Done

LEMMA Progressed ==
  ASSUME chain \in Seq(Task), chain # <<>>, NEW task \in Task,
         chain' = [chain EXCEPT ![1] = task]
  PROVE  /\ chain' \in Seq(Task)
         /\ DOMAIN chain' = DOMAIN chain
         /\ 1 \in DOMAIN chain
         /\ DOMAIN chain \subseteq Nat \ {0}
         /\ chain'[1] = task
         /\ \A i \in DOMAIN chain : 1 < i => chain'[i] = chain[i]
<1>1. Len(chain) \in Nat \ {0} /\ DOMAIN chain = 1 .. Len(chain)
  BY EmptySeq, LenProperties
<1>2. 1 \in 1 .. Len(chain)
  BY <1>1
<1>3. chain' \in Seq(Task) /\ Len(chain') = Len(chain)
  BY <1>2, ExceptSeq
<1> QED BY <1>1, <1>2, <1>3, LenProperties

-----------------------------------------------------------------------------
(* Types.                                                                  *)

LEMMA NewTasks ==
  ASSUME TypeOK
  PROVE  /\ ClearTask \in Task
         /\ \A m \in Matches : AppendTask(m) \in Task
BY EmptySeq DEF TypeOK, ClearTask, AppendTask, Task, Where

LEMMA HeadOfChain ==
  ASSUME chain \in Seq(Task), chain # <<>>
  PROVE  /\ 1 \in DOMAIN chain
         /\ Head(chain) = chain[1]
         /\ chain[1] \in Task
BY EmptySeq, LenProperties, ElementOfSeq

LEMMA NewestRows ==
  ASSUME NEW rows \in Seq(Row)
  PROVE  /\ Newest(rows) \in Seq(Row)
         /\ Len(Newest(rows)) <= Cap
         /\ \A i \in DOMAIN Newest(rows) : \E k \in DOMAIN rows : Newest(rows)[i] = rows[k]
<1>1. Cap \in Nat \ {0} /\ Len(rows) \in Nat /\ DOMAIN rows = 1 .. Len(rows)
  BY HistoryAssumption, LenProperties
<1>2. CASE Len(rows) <= Cap
  BY <1>1, <1>2 DEF Newest
<1>3. CASE ~ (Len(rows) <= Cap)
  <2> DEFINE first == Len(rows) - Cap + 1
             kept  == SubSeq(rows, first, Len(rows))
  <2>1. first \in 1 .. Len(rows)
    BY <1>1, <1>3
  <2>2. \A i \in first .. Len(rows) : rows[i] \in Row
    BY <1>1, <2>1, ElementOfSeq
  <2>3. /\ kept \in Seq(Row)
        /\ Len(kept) = Len(rows) - first + 1
        /\ \A i \in 1 .. Len(rows) - first + 1 : kept[i] = rows[first + i - 1]
    BY <1>1, <2>1, <2>2, SubSeqProperties
  <2>4. DOMAIN kept = 1 .. Cap /\ Len(kept) = Cap
    BY <1>1, <2>3, LenProperties
  <2>5. \A i \in 1 .. Cap : first + i - 1 \in DOMAIN rows
    BY <1>1, <2>1
  <2>6. Newest(rows) = kept
    BY <1>3 DEF Newest
  <2>7. ASSUME NEW i \in DOMAIN kept PROVE \E k \in DOMAIN rows : kept[i] = rows[k]
    <3>1. i \in 1 .. Cap
      BY <2>4, <2>7
    <3>2. first + i - 1 \in DOMAIN rows /\ kept[i] = rows[first + i - 1]
      BY <1>1, <2>1, <2>3, <2>5, <3>1
    <3> QED BY <3>2
  <2> HIDE DEF kept
  <2> QED BY <1>1, <2>3, <2>4, <2>6, <2>7
<1> QED BY <1>2, <1>3

LEMMA TypeStep ==
  ASSUME TypeOK, AppendsHaveMatches, [Next]_vars
  PROVE  TypeOK'
<1> USE DEF TypeOK
<1>1. CASE SetLogging
  BY <1>1, HistoryAssumption DEF SetLogging
<1>2. CASE Wake
  BY <1>2 DEF Wake
<1>3. CASE Registered
  BY <1>3, NewTasks, Enqueued DEF Registered
<1>4. CASE Stop
  BY <1>4, HistoryAssumption DEF Stop, Running, Busy
<1>5. CASE ToggleHeard
  <2>1. Tail(events) \in Seq(BOOLEAN)
    BY <1>5, HeadTailProperties DEF ToggleHeard
  <2> QED BY <1>5, <2>1, NewTasks, Enqueued DEF ToggleHeard, Running
<1>6. CASE ClearHeard
  BY <1>6, NewTasks, Enqueued, HistoryAssumption DEF ClearHeard, Running
<1>7. ASSUME NEW m \in Matches, Matched(m) PROVE TypeOK'
  BY <1>7 DEF Matched, Listen
<1>8. ASSUME NEW m \in Matches, ToggleRead(m) PROVE TypeOK'
  BY <1>8 DEF ToggleRead, Listen
<1>9. ASSUME NEW m \in Matches, LookedUp(m) PROVE TypeOK'
  <2>1. AppendTask(m) \in Task
    BY NewTasks
  <2>2. CASE Enqueue(AppendTask(m))
    BY <1>9, <2>1, <2>2, Enqueued DEF LookedUp, Listen, Running
  <2>3. CASE UNCHANGED chain
    BY <1>9, <2>3 DEF LookedUp, Listen
  <2> QED BY <1>9, <2>2, <2>3 DEF LookedUp
<1>10. ASSUME Running, chain # <<>>, Done PROVE chain' \in Seq(Task)
  BY <1>10, Popped
<1>11. ASSUME Running, chain # <<>>, NEW at \in Where, Go(at) PROVE chain' \in Seq(Task)
  <2>1. [chain[1] EXCEPT !.at = at] \in Task
    BY HeadOfChain, <1>11 DEF Task
  <2> QED BY <1>11, <2>1, Progressed DEF Go
<1>12. ASSUME NEW from, NEW onward \in Where, Checked(from, onward) PROVE TypeOK'
  BY <1>10, <1>11, <1>12 DEF Checked, Now, Running
<1>13. CASE Snapshot
  <2>1. PICK rows \in {ring} \cup (IF "history" \in MayFail THEN {<<>>} ELSE {}) :
           chain' = [chain EXCEPT ![1].seen = rows, ![1].at = "third"]
    BY <1>13 DEF Snapshot
  <2>2. rows \in Seq(Row)
    BY <2>1, EmptySeq
  <2>3. chain # <<>> /\ Running
    BY <1>13 DEF Snapshot, Now
  <2> DEFINE task == [chain[1] EXCEPT !.seen = rows, !.at = "third"]
  <2>4. task \in Task
    BY <2>2, <2>3, HeadOfChain DEF Task, Where
  <2>5. chain' = [chain EXCEPT ![1] = task]
    BY <2>1, <2>3, HeadOfChain
  <2>6. chain' \in Seq(Task)
    BY <2>3, <2>4, <2>5, Progressed
  <2> QED BY <1>13, <2>3, <2>6 DEF Snapshot, Running
<1>14. CASE Store
  <2>1. chain # <<>> /\ Running /\ Head(chain) = chain[1] /\ chain[1] \in Task
    BY <1>14, HeadOfChain DEF Store, Now
  <2>2. CASE /\ ring' = Newest(Append(chain[1].seen,
                                      [match |-> chain[1].match, told |-> chain[1].told]))
             /\ Go("last")
    <3>1. chain' \in Seq(Task)
      BY <1>11, <2>1, <2>2 DEF Where
    <3>2. chain[1].seen \in Seq(Row)
      BY <2>1 DEF Task
    <3>3. [match |-> chain[1].match, told |-> chain[1].told] \in Row
      <4>1. chain[1].match \in Matches
        BY <1>14, <2>1, HeadOfChain DEF AppendsHaveMatches, Store, Now
      <4> QED BY <2>1, <4>1 DEF Task, Row
    <3>4. ring' \in Seq(Row) /\ Len(ring') <= Cap
      BY <2>2, <3>2, <3>3, AppendProperties, NewestRows
    <3> QED BY <1>14, <2>1, <3>1, <3>4 DEF Store, Running
  <2>3. CASE Failed /\ UNCHANGED ring
    BY <1>10, <1>14, <2>1, <2>3 DEF Store, Failed, Running
  <2> QED BY <1>14, <2>1, <2>2, <2>3 DEF Store
<1>15. CASE CheckedLast
  BY <1>10, <1>11, <1>15 DEF CheckedLast, Now, Running, Where
<1>16. CASE Wipe
  <2>1. chain' \in Seq(Task) /\ worker # "down"
    BY <1>10, <1>16 DEF Wipe, Now, Running, Failed
  <2>2. <<>> \in Seq(Row) /\ Len(<<>>) = 0 /\ 0 <= Cap
    BY EmptySeq, HistoryAssumption
  <2>3. ring' \in Seq(Row) /\ Len(ring') <= Cap
    BY <1>16, <2>2 DEF Wipe
  <2> QED BY <1>16, <2>1, <2>3 DEF Wipe
<1>17. CASE UNCHANGED vars
  BY <1>17 DEF vars
<1>18. {"first", "second", "snapshot", "third", "store"} \subseteq Where
  BY DEF Where
<1> HIDE DEF TypeOK
<1> QED BY <1>18, <1>1, <1>2, <1>3, <1>4, <1>5, <1>6, <1>7, <1>8, <1>9, <1>12, <1>13, <1>14,
           <1>15, <1>16, <1>17 DEF Next, Run

-----------------------------------------------------------------------------
(* Where the clear is after a change of the chain.                         *)

LEMMA ComingEnqueued ==
  ASSUME chain \in Seq(Task), NEW task \in Task, Enqueue(task)
  PROVE  /\ \A i : WipeAfter(i) => WipeAfter(i)'
         /\ task.at = "wipe" => \A i \in {0} \cup DOMAIN chain : WipeAfter(i)'
<1>1. /\ DOMAIN chain' = DOMAIN chain \cup {Len(chain) + 1}
      /\ \A i \in DOMAIN chain : i \in Nat \ {0} /\ i <= Len(chain) /\ chain'[i] = chain[i]
      /\ chain'[Len(chain) + 1] = task
      /\ Len(chain) \in Nat
  BY Enqueued
<1> QED BY <1>1 DEF WipeAfter

LEMMA ComingPopped ==
  ASSUME chain \in Seq(Task), chain # <<>>, Done
  PROVE  /\ \A i \in DOMAIN chain' : WipeAfter(i + 1) => WipeAfter(i)'
         /\ chain[1].at # "wipe" /\ WipeAfter(0) => WipeAfter(0)'
<1>1. /\ DOMAIN chain' \subseteq Nat \ {0}
      /\ DOMAIN chain \subseteq Nat \ {0}
      /\ \A i \in DOMAIN chain : 1 < i => i - 1 \in DOMAIN chain' /\ chain'[i - 1] = chain[i]
  BY Popped
<1>2. ASSUME NEW i \in DOMAIN chain', WipeAfter(i + 1) PROVE WipeAfter(i)'
  <2>1. PICK j \in DOMAIN chain : i + 1 < j /\ chain[j].at = "wipe"
    BY <1>2 DEF WipeAfter
  <2>2. i \in Nat /\ j \in Nat /\ 1 < j /\ i < j - 1
    BY <1>1, <2>1
  <2>3. j - 1 \in DOMAIN chain' /\ chain'[j - 1].at = "wipe"
    BY <1>1, <2>1, <2>2
  <2> QED BY <2>2, <2>3 DEF WipeAfter
<1>3. ASSUME chain[1].at # "wipe", WipeAfter(0) PROVE WipeAfter(0)'
  <2>1. PICK j \in DOMAIN chain : 0 < j /\ chain[j].at = "wipe"
    BY <1>3 DEF WipeAfter
  <2>2. j \in Nat /\ 1 < j /\ 0 < j - 1
    BY <1>1, <1>3, <2>1
  <2>3. j - 1 \in DOMAIN chain' /\ chain'[j - 1].at = "wipe"
    BY <1>1, <2>1, <2>2
  <2> QED BY <2>2, <2>3 DEF WipeAfter
<1> QED BY <1>2, <1>3

LEMMA ComingProgressed ==
  ASSUME chain \in Seq(Task), chain # <<>>, NEW task \in Task,
         chain' = [chain EXCEPT ![1] = task], chain[1].at # "wipe"
  PROVE  /\ \A i \in DOMAIN chain : WipeAfter(i) => WipeAfter(i)'
         /\ WipeAfter(0) => WipeAfter(0)'
<1>1. /\ DOMAIN chain' = DOMAIN chain
      /\ DOMAIN chain \subseteq Nat \ {0}
      /\ \A i \in DOMAIN chain : 1 < i => chain'[i] = chain[i]
  BY Progressed
<1> QED BY <1>1 DEF WipeAfter

\* What holds of the tasks survives each change of the chain.
LEMMA TasksEnqueued ==
  ASSUME TypeOK, TasksInv, NEW task \in Task, Enqueue(task), UNCHANGED <<offs, cut>>,
         task.at = "wipe" \/ UNCHANGED events,
         \/ task.at = "wipe" /\ task.match \notin Matches
         \/ task.at = "first" /\ task.match \in Matches /\ task.told = offs
  PROVE  TasksInv'
<1>1. /\ DOMAIN chain' = DOMAIN chain \cup {Len(chain) + 1}
      /\ \A i \in DOMAIN chain : chain'[i] = chain[i]
      /\ chain'[Len(chain) + 1] = task
  BY Enqueued DEF TypeOK
<1>2. AppendsHaveMatches' /\ OthersWait'
  BY <1>1 DEF TasksInv, AppendsHaveMatches, OthersWait
<1>3. /\ \A i : WipeAfter(i) => WipeAfter(i)'
      /\ task.at = "wipe" => \A i \in DOMAIN chain : WipeAfter(i)'
  BY ComingEnqueued DEF TypeOK
<1>4. StaleAppendsFollowed'
  BY <1>1, <1>3 DEF TasksInv, StaleAppendsFollowed, Coming, OffAnnounced
<1> QED BY <1>2, <1>4 DEF TasksInv

LEMMA TasksPopped ==
  ASSUME TypeOK, TasksInv, chain # <<>>, Done, UNCHANGED <<events, offs, cut>>
  PROVE  TasksInv'
<1>1. /\ DOMAIN chain' \subseteq Nat \ {0}
      /\ \A i \in DOMAIN chain' : i + 1 \in DOMAIN chain /\ chain'[i] = chain[i + 1]
  BY Popped DEF TypeOK
<1>2. AppendsHaveMatches' /\ OthersWait'
  BY <1>1 DEF TasksInv, AppendsHaveMatches, OthersWait
<1>3. \A i \in DOMAIN chain' : WipeAfter(i + 1) => WipeAfter(i)'
  BY ComingPopped DEF TypeOK
<1>4. StaleAppendsFollowed'
  BY <1>1, <1>3 DEF TasksInv, StaleAppendsFollowed, Coming, OffAnnounced
<1> QED BY <1>2, <1>4 DEF TasksInv

LEMMA TasksProgressed ==
  ASSUME TypeOK, TasksInv, chain # <<>>, NEW task \in Task,
         chain' = [chain EXCEPT ![1] = task], chain[1].at # "wipe",
         task.match = chain[1].match, task.told = chain[1].told,
         UNCHANGED <<events, offs, cut>>
  PROVE  TasksInv'
<1>1. /\ DOMAIN chain' = DOMAIN chain
      /\ 1 \in DOMAIN chain
      /\ DOMAIN chain \subseteq Nat \ {0}
      /\ chain'[1] = task
      /\ \A i \in DOMAIN chain : 1 < i => chain'[i] = chain[i]
  BY Progressed DEF TypeOK
<1>2. \A i \in DOMAIN chain : chain'[i].match = chain[i].match /\ chain'[i].told = chain[i].told
  BY <1>1
<1>3. AppendsHaveMatches' /\ OthersWait'
  BY <1>1, <1>2 DEF TasksInv, AppendsHaveMatches, OthersWait
<1>4. \A i \in DOMAIN chain : WipeAfter(i) => WipeAfter(i)'
  BY ComingProgressed DEF TypeOK
<1>5. StaleAppendsFollowed'
  BY <1>1, <1>2, <1>4 DEF TasksInv, StaleAppendsFollowed, Coming, OffAnnounced
<1> QED BY <1>3, <1>5 DEF TasksInv

-----------------------------------------------------------------------------
(* Every step keeps the invariant.                                         *)

Kept == TasksInv /\ SeenIsRing /\ OffWillClear /\ StaleRowsFollowed

\* A new task waits behind the others.
LEMMA EnqueueKeeps ==
  ASSUME HistoryInv, NEW task \in Task, Enqueue(task), UNCHANGED <<ring, offs, cut>>,
         \/ task.at = "wipe" /\ task.match \notin Matches
         \/ task.at = "first" /\ task.match \in Matches /\ task.told = offs,
         task.at = "wipe" \/ UNCHANGED <<events, worker, logging>>
  PROVE  Kept'
<1> USE DEF HistoryInv
<1>1. TasksInv'
  BY TasksEnqueued
<1>2. /\ DOMAIN chain' = DOMAIN chain \cup {Len(chain) + 1}
      /\ \A i \in DOMAIN chain : i \in Nat \ {0} /\ chain'[i] = chain[i]
      /\ chain'[Len(chain) + 1] = task
      /\ Len(chain) \in Nat
  BY Enqueued DEF TypeOK
<1>3. chain # <<>> => 1 \in DOMAIN chain
  BY HeadOfChain DEF TypeOK
<1>4. chain = <<>> => Len(chain) + 1 = 1
  BY EmptySeq
<1>5. SeenIsRing'
  BY <1>2, <1>3, <1>4 DEF SeenIsRing
<1>6. Coming(0) => Coming(0)'
  BY ComingEnqueued DEF TypeOK, Coming, OffAnnounced
<1>7. StaleRowsFollowed'
  BY <1>6 DEF StaleRowsFollowed
<1>8. CASE task.at = "wipe"
  <2>1. Coming(0)'
    BY <1>8, ComingEnqueued DEF TypeOK, Coming
  <2> QED BY <1>1, <1>5, <1>7, <2>1 DEF Kept, OffWillClear
<1>9. CASE UNCHANGED <<events, worker, logging>>
  <2>1. chain # <<>> => chain' # <<>> /\ chain'[1] = chain[1]
    <3>1. chain' # <<>>
      BY <1>2
    <3>2. chain # <<>> => chain'[1] = chain[1]
      BY <1>2, <1>3
    <3> QED BY <3>1, <3>2
  <2>2. ring' = ring /\ worker' = worker /\ logging' = logging
    BY <1>9
  <2>3. OffWillClear
    OBVIOUS
  <2>4. OffWillClear'
    <3> HIDE DEF HistoryInv
    <3> QED BY <1>6, <2>1, <2>2, <2>3 DEF OffWillClear
  <2> QED BY <1>1, <1>5, <1>7, <2>4 DEF Kept
<1> QED BY <1>8, <1>9

\* A task leaves that had nothing to clear, or nothing left to.
LEMMA DoneKeeps ==
  ASSUME HistoryInv, chain # <<>>, Done, UNCHANGED <<logging, events, ring, worker, offs, cut>>,
         chain[1].at # "wipe", chain[1].at = "last" => logging
  PROVE  Kept'
<1> USE DEF HistoryInv
<1>1. TasksInv'
  BY TasksPopped
<1>2. /\ DOMAIN chain' \subseteq Nat \ {0}
      /\ \A i \in DOMAIN chain' : i + 1 \in DOMAIN chain /\ chain'[i] = chain[i + 1]
      /\ chain' \in Seq(Task)
  BY Popped DEF TypeOK
<1>3. chain' # <<>> => 1 \in DOMAIN chain'
  BY <1>2, EmptySeq, LenProperties
<1>4. SeenIsRing'
  BY <1>2, <1>3 DEF SeenIsRing, TasksInv, OthersWait
<1>5. Coming(0) => Coming(0)'
  BY ComingPopped DEF TypeOK, Coming, OffAnnounced
<1> QED BY <1>1, <1>4, <1>5 DEF Kept, StaleRowsFollowed, OffWillClear

\* The first task goes on.
LEMMA ProgressKeeps ==
  ASSUME HistoryInv, chain # <<>>, NEW task \in Task, chain' = [chain EXCEPT ![1] = task],
         task.match = chain[1].match, task.told = chain[1].told,
         UNCHANGED <<logging, events, ring, worker, offs, cut>>,
         chain[1].at # "wipe", chain[1].at = "last" => task.at = "wipe",
         task.at \in {"third", "store"} =>
           task.seen = ring \/ ("history" \in MayFail /\ task.seen = <<>>)
  PROVE  Kept'
<1> USE DEF HistoryInv
<1>1. TasksInv'
  BY TasksProgressed
<1>2. /\ DOMAIN chain' = DOMAIN chain
      /\ 1 \in DOMAIN chain
      /\ chain'[1] = task
  BY Progressed DEF TypeOK
<1>3. SeenIsRing'
  BY <1>2 DEF SeenIsRing
<1>4. Coming(0) => Coming(0)'
  BY ComingProgressed DEF TypeOK, Coming, OffAnnounced
<1>5. StaleRowsFollowed'
  BY <1>4 DEF StaleRowsFollowed
<1>6. task.at = "wipe" => Coming(0)'
  BY <1>2 DEF Coming, WipeAfter
<1>7. OffWillClear'
  BY <1>2, <1>4, <1>6 DEF OffWillClear
<1> QED BY <1>1, <1>3, <1>5, <1>7 DEF Kept

LEMMA GoIsProgress ==
  ASSUME chain \in Seq(Task), chain # <<>>, NEW at \in Where, Go(at)
  PROVE  LET task == [chain[1] EXCEPT !.at = at]
         IN  /\ task \in Task
             /\ chain' = [chain EXCEPT ![1] = task]
             /\ task.match = chain[1].match /\ task.told = chain[1].told
             /\ task.seen = chain[1].seen /\ task.at = at
<1>1. chain[1] \in Task /\ 1 \in DOMAIN chain
  BY HeadOfChain
<1>2. [chain[1] EXCEPT !.at = at] \in Task
  BY <1>1 DEF Task
<1> QED BY <1>1, <1>2 DEF Go, Task

LEMMA GoKeeps ==
  ASSUME HistoryInv, chain # <<>>, NEW at \in Where, Go(at),
         UNCHANGED <<logging, events, ring, worker, offs, cut>>,
         chain[1].at # "wipe", chain[1].at = "last" => at = "wipe",
         at \in {"third", "store"} => chain[1].at = "third"
  PROVE  Kept'
<1> DEFINE task == [chain[1] EXCEPT !.at = at]
<1>1. /\ task \in Task
      /\ chain' = [chain EXCEPT ![1] = task]
      /\ task.match = chain[1].match /\ task.told = chain[1].told
      /\ task.seen = chain[1].seen /\ task.at = at
  BY GoIsProgress DEF HistoryInv, TypeOK
<1> HIDE DEF task
<1>2. at \in {"third", "store"} =>
        task.seen = ring \/ ("history" \in MayFail /\ task.seen = <<>>)
  BY <1>1 DEF HistoryInv, SeenIsRing
<1> QED BY <1>1, <1>2, ProgressKeeps

\* What a failed clear, or a worker that starts without knowing that logging is
\* off, would leave behind is set apart.
ClearsWork == MayFail \cap {"startup", "wipe"} = {}

LEMMA TailIndex ==
  ASSUME NEW S, NEW s \in Seq(S), s # <<>>
  PROVE  /\ Head(s) = s[1]
         /\ \A e \in DOMAIN s : e # 1 => e - 1 \in DOMAIN Tail(s) /\ Tail(s)[e - 1] = s[e]
<1>1. /\ Tail(s) \in Seq(S)
      /\ Len(Tail(s)) = Len(s) - 1
      /\ \A i \in 1 .. Len(Tail(s)) : Tail(s)[i] = s[i + 1]
      /\ Len(s) \in Nat \ {0}
  BY HeadTailProperties, EmptySeq
<1>2. DOMAIN s = 1 .. Len(s) /\ DOMAIN Tail(s) = 1 .. Len(s) - 1
  BY <1>1, LenProperties
<1>3. \A e \in 1 .. Len(s) : e # 1 => e - 1 \in 1 .. Len(s) - 1 /\ (e - 1) + 1 = e
  BY <1>1
<1> QED BY <1>1, <1>2, <1>3

LEMMA AnnouncementsStay ==
  ASSUME TypeOK, events # <<>>, events' = Tail(events), Head(events), OffAnnounced
  PROVE  OffAnnounced'
<1>1. /\ Head(events) = events[1]
      /\ \A e \in DOMAIN events :
           e # 1 => e - 1 \in DOMAIN Tail(events) /\ Tail(events)[e - 1] = events[e]
  <2>1. events \in Seq(BOOLEAN) /\ events # <<>>
    BY DEF TypeOK
  <2> QED BY <2>1, TailIndex, Zenon
<1>2. PICK e \in DOMAIN events : ~ events[e]
  BY Zenon DEF OffAnnounced
<1>3. e # 1
  BY <1>1, <1>2, Zenon
<1>4. e - 1 \in DOMAIN Tail(events) /\ ~ Tail(events)[e - 1]
  BY <1>1, <1>2, <1>3, Zenon
<1> QED BY <1>4, Zenon DEF OffAnnounced

LEMMA KeptStep ==
  ASSUME HistoryInv, ClearsWork, [Next]_vars
  PROVE  Kept'
<1> USE DEF HistoryInv
<1>0. /\ ClearTask \in Task /\ ClearTask.at = "wipe" /\ ClearTask.match \notin Matches
      /\ \A m \in Matches : /\ AppendTask(m) \in Task /\ AppendTask(m).at = "first"
                            /\ AppendTask(m).match = m /\ AppendTask(m).told = offs
  BY NewTasks, HistoryAssumption DEF ClearTask, AppendTask
<1> DEFINE Same == UNCHANGED <<logging, events, ring, chain, offs, cut>>
<1>1. ASSUME Same, worker' = worker \/ worker' # "up" PROVE Kept'
  BY <1>1 DEF Kept, TasksInv, AppendsHaveMatches, OthersWait, StaleAppendsFollowed, SeenIsRing,
     OffWillClear, StaleRowsFollowed, Coming, WipeAfter, OffAnnounced
<1>2. CASE SetLogging
  <2>1. /\ DOMAIN events' = DOMAIN events \cup {Len(events) + 1}
        /\ \A e \in DOMAIN events : events'[e] = events[e]
        /\ events'[Len(events) + 1] = ~logging
    BY <1>2, AppendProperties, LenProperties DEF SetLogging, TypeOK
  <2>2. OffAnnounced => OffAnnounced'
    BY <2>1 DEF OffAnnounced
  <2>3. logging => OffAnnounced'
    BY <2>1 DEF OffAnnounced
  <2>4. UNCHANGED <<ring, worker, chain, cut>>
    BY <1>2 DEF SetLogging
  <2>5. AppendsHaveMatches' /\ OthersWait' /\ SeenIsRing'
    BY <2>4 DEF TasksInv, AppendsHaveMatches, OthersWait, SeenIsRing
  <2>6. CASE logging
    BY <2>3, <2>5, <2>6 DEF Kept, TasksInv, StaleAppendsFollowed, StaleRowsFollowed, OffWillClear,
       Coming
  <2>7. CASE ~ logging
    <3>1. logging' /\ UNCHANGED offs
      BY <1>2, <2>7 DEF SetLogging
    <3> QED BY <2>2, <2>4, <2>5, <3>1 DEF Kept, TasksInv, StaleAppendsFollowed, StaleRowsFollowed,
               OffWillClear, Coming, WipeAfter
  <2> QED BY <2>6, <2>7
<1>3. CASE Wake
  BY <1>1, <1>3 DEF Wake
<1>4. CASE Registered
  <2>1. CASE Enqueue(ClearTask)
    BY <1>0, <1>4, <2>1, EnqueueKeeps DEF Registered
  <2>2. CASE logging /\ UNCHANGED chain
    BY <1>4, <2>2 DEF Registered, Kept, TasksInv, AppendsHaveMatches, OthersWait,
       StaleAppendsFollowed, SeenIsRing, OffWillClear, StaleRowsFollowed, Coming, WipeAfter,
       OffAnnounced
  <2> QED BY <1>4, <2>1, <2>2 DEF Registered, ClearsWork
<1>5. CASE Stop
  <2>1. chain' = <<>> /\ worker' = "down" /\ UNCHANGED <<events, ring, offs>>
    BY <1>5 DEF Stop
  <2>2. DOMAIN chain' = {}
    BY <2>1
  <2>3. TasksInv' /\ SeenIsRing' /\ OffWillClear'
    BY <2>1, <2>2 DEF TasksInv, AppendsHaveMatches, OthersWait, StaleAppendsFollowed, SeenIsRing,
       OffWillClear
  <2>4. ASSUME ~ cut', NEW i \in DOMAIN ring, ring[i].told # offs PROVE FALSE
    <3>1. ~ cut /\ chain = <<>> /\ events = <<>>
      BY <1>5, <2>4 DEF Stop, Busy
    <3>2. ~ Coming(0)
      BY <3>1 DEF Coming, OffAnnounced, WipeAfter
    <3> QED BY <2>4, <3>1, <3>2 DEF StaleRowsFollowed
  <2>5. StaleRowsFollowed'
    BY <2>1, <2>4 DEF StaleRowsFollowed
  <2> QED BY <2>3, <2>5 DEF Kept
<1>6. CASE ToggleHeard
  <2>1. CASE Head(events) /\ UNCHANGED chain
    <3>1. OffAnnounced => OffAnnounced'
      BY <1>6, <2>1, AnnouncementsStay DEF ToggleHeard
    <3> QED BY <1>6, <2>1, <3>1 DEF ToggleHeard, Kept, TasksInv, AppendsHaveMatches, OthersWait,
               StaleAppendsFollowed, SeenIsRing, OffWillClear, StaleRowsFollowed, Coming, WipeAfter
  <2>2. CASE Enqueue(ClearTask)
    BY <1>0, <1>6, <2>2, EnqueueKeeps DEF ToggleHeard
  <2> QED BY <1>6, <2>1, <2>2 DEF ToggleHeard
<1>7. CASE ClearHeard
  BY <1>0, <1>7, EnqueueKeeps DEF ClearHeard
<1>8. ASSUME NEW m \in Matches, Matched(m) \/ ToggleRead(m) PROVE Kept'
  BY <1>1, <1>8 DEF Matched, ToggleRead
<1>9. ASSUME NEW m \in Matches, LookedUp(m) PROVE Kept'
  <2>1. CASE UNCHANGED chain
    BY <1>1, <1>9, <2>1 DEF LookedUp
  <2>2. CASE Enqueue(AppendTask(m))
    BY <1>0, <1>9, <2>2, EnqueueKeeps DEF LookedUp
  <2> QED BY <1>9, <2>1, <2>2 DEF LookedUp
<1>10. ASSUME NEW at, Now(at) PROVE chain # <<>> /\ chain[1].at = at /\ chain[1] \in Task
  BY <1>10, HeadOfChain DEF Now, TypeOK
<1>11. ASSUME NEW from \in {"first", "second", "third"}, NEW onward \in {"second", "snapshot", "store"},
              onward = "store" => from = "third", Checked(from, onward)
       PROVE  Kept'
  <2>1. chain # <<>> /\ chain[1].at = from
    BY <1>10, <1>11 DEF Checked
  <2>2. onward \in Where /\ from # "wipe" /\ from # "last"
    BY DEF Where
  <2>3. CASE Done
    BY <1>11, <2>1, <2>2, <2>3, DoneKeeps DEF Checked
  <2>4. CASE Go(onward)
    BY <1>11, <2>1, <2>2, <2>4, GoKeeps DEF Checked
  <2> QED BY <1>11, <2>3, <2>4 DEF Checked
<1>12. CASE Snapshot
  <2>1. chain # <<>> /\ chain[1].at = "snapshot" /\ chain[1] \in Task
    BY <1>10, <1>12 DEF Snapshot
  <2>2. PICK rows \in {ring} \cup (IF "history" \in MayFail THEN {<<>>} ELSE {}) :
           chain' = [chain EXCEPT ![1].seen = rows, ![1].at = "third"]
    BY <1>12 DEF Snapshot
  <2> DEFINE task == [chain[1] EXCEPT !.seen = rows, !.at = "third"]
  <2>3. rows \in Seq(Row)
    BY <2>2, EmptySeq DEF TypeOK
  <2>4. /\ task \in Task
        /\ task.match = chain[1].match /\ task.told = chain[1].told
        /\ task.seen = rows /\ task.at = "third"
    BY <2>1, <2>3 DEF Task, Where
  <2>5. chain' = [chain EXCEPT ![1] = task]
    BY <2>1, <2>2, HeadOfChain DEF TypeOK
  <2>6. rows = ring \/ ("history" \in MayFail /\ rows = <<>>)
    BY <2>2
  <2> HIDE DEF task
  <2> QED BY <1>12, <2>1, <2>4, <2>5, <2>6, ProgressKeeps DEF Snapshot
<1>13. CASE CheckedLast
  <2>1. chain # <<>> /\ chain[1].at = "last"
    BY <1>10, <1>13 DEF CheckedLast
  <2>2. CASE logging /\ Done
    BY <1>13, <2>1, <2>2, DoneKeeps DEF CheckedLast
  <2>3. CASE Go("wipe")
    BY <1>13, <2>1, <2>3, GoKeeps DEF CheckedLast, Where
  <2>4. \A enabled \in Toggle : enabled => logging
    BY DEF Toggle, TypeOK
  <2> QED BY <1>13, <2>2, <2>3, <2>4 DEF CheckedLast
<1>14. CASE Wipe
  <2>1. chain # <<>> /\ chain[1].at = "wipe"
    BY <1>10, <1>14 DEF Wipe
  <2>2. ring' = <<>> /\ Done /\ UNCHANGED <<logging, events, worker, offs, cut>>
    BY <1>14 DEF Wipe, ClearsWork
  <2>3. TasksInv'
    BY <2>1, <2>2, TasksPopped
  <2>4. /\ DOMAIN chain' \subseteq Nat \ {0}
        /\ \A i \in DOMAIN chain' : i + 1 \in DOMAIN chain /\ chain'[i] = chain[i + 1]
        /\ chain' \in Seq(Task)
    BY <2>1, <2>2, Popped DEF TypeOK
  <2>5. chain' # <<>> => 1 \in DOMAIN chain'
    BY <2>4, EmptySeq, LenProperties
  <2>6. SeenIsRing'
    BY <2>4, <2>5 DEF SeenIsRing, TasksInv, OthersWait
  <2> QED BY <2>2, <2>3, <2>6 DEF Kept, OffWillClear, StaleRowsFollowed
<1>15. CASE Store
  <2>1. chain # <<>> /\ chain[1].at = "store" /\ chain[1] \in Task /\ Head(chain) = chain[1]
    BY <1>10, <1>15, HeadOfChain DEF Store, TypeOK
  <2>2. CASE Failed /\ UNCHANGED ring
    BY <1>15, <2>1, <2>2, DoneKeeps DEF Store, Failed
  <2> DEFINE row == [match |-> chain[1].match, told |-> chain[1].told]
             task == [chain[1] EXCEPT !.at = "last"]
  <2>3. CASE ring' = Newest(Append(chain[1].seen, row)) /\ Go("last")
    <3>1. UNCHANGED <<logging, events, worker, offs, cut>>
      BY <1>15 DEF Store
    <3>2. 1 \in DOMAIN chain /\ chain[1].match \in Matches
      BY <2>1, HeadOfChain DEF TypeOK, TasksInv, AppendsHaveMatches
    <3>3. /\ task \in Task
          /\ chain' = [chain EXCEPT ![1] = task]
          /\ task.match = chain[1].match /\ task.told = chain[1].told /\ task.at = "last"
      BY <2>1, <2>3, GoIsProgress DEF TypeOK, Where
    <3> HIDE DEF task
    <3>4. TasksInv'
      BY <2>1, <3>1, <3>3, TasksProgressed
    <3>5. chain'[1] = task /\ chain' # <<>>
      BY <2>1, <3>3, Progressed DEF TypeOK
    <3>6. SeenIsRing' /\ OffWillClear'
      BY <3>3, <3>5 DEF SeenIsRing, OffWillClear
    <3>7. chain[1].seen \in Seq(Row) /\ row \in Row
      BY <2>1, <3>2 DEF Task, Row
    <3>8. /\ Append(chain[1].seen, row) \in Seq(Row)
          /\ \A k \in DOMAIN Append(chain[1].seen, row) :
               \/ k \in DOMAIN chain[1].seen
                  /\ Append(chain[1].seen, row)[k] = chain[1].seen[k]
               \/ Append(chain[1].seen, row)[k] = row
      BY <3>7, AppendProperties, LenProperties
    <3>9. ASSUME ~ cut, NEW i \in DOMAIN ring', ring'[i].told # offs PROVE Coming(0)'
      <4>1. PICK k \in DOMAIN Append(chain[1].seen, row) :
               ring'[i] = Append(chain[1].seen, row)[k]
        BY <2>3, <3>8, <3>9, NewestRows
      <4>2. CASE k \in DOMAIN chain[1].seen /\ ring'[i] = chain[1].seen[k]
        <5>1. k \in DOMAIN ring /\ ring[k].told # offs
          BY <2>1, <3>9, <4>2 DEF SeenIsRing
        <5>2. Coming(0)
          BY <3>9, <5>1 DEF StaleRowsFollowed
        <5> QED BY <2>1, <3>1, <3>3, <5>2, ComingProgressed DEF TypeOK, Coming, OffAnnounced
      <4>3. CASE ring'[i] = row
        <5>1. Coming(1)
          BY <3>2, <3>9, <4>3 DEF TasksInv, StaleAppendsFollowed
        <5>2. Coming(1)'
          BY <2>1, <3>1, <3>2, <3>3, <5>1, ComingProgressed DEF TypeOK, Coming, OffAnnounced
        <5>3. DOMAIN chain' \subseteq Nat
          BY <2>1, <3>3, Progressed DEF TypeOK
        <5> QED BY <5>2, <5>3 DEF Coming, WipeAfter
      <4> QED BY <3>8, <4>1, <4>2, <4>3
    <3>10. StaleRowsFollowed'
      BY <3>1, <3>9 DEF StaleRowsFollowed
    <3> QED BY <3>4, <3>6, <3>10 DEF Kept
  <2> QED BY <1>15, <2>1, <2>2, <2>3 DEF Store
<1>16. CASE UNCHANGED vars
  BY <1>1, <1>16 DEF vars
<1>17. CASE Run
  BY <1>11, <1>12, <1>13, <1>14, <1>15, <1>17 DEF Run
<1> QED BY <1>2, <1>3, <1>4, <1>5, <1>6, <1>7, <1>8, <1>9, <1>16, <1>17 DEF Next

-----------------------------------------------------------------------------
(* The theorems.                                                           *)

LEMMA InitInv == Init => HistoryInv
<1> SUFFICES ASSUME Init PROVE HistoryInv
  OBVIOUS
<1>1. /\ chain = <<>> /\ ring = <<>> /\ events = <<>> /\ offs = 0 /\ clears = 0 /\ stops = 0
      /\ worker = "down"
      /\ DOMAIN chain = {} /\ DOMAIN ring = {} /\ Len(ring) = 0
      /\ chain \in Seq(Task) /\ ring \in Seq(Row)
  BY EmptySeq DEF Init
<1>2. events \in Seq(BOOLEAN) /\ logging \in BOOLEAN /\ cut \in BOOLEAN
  BY EmptySeq DEF Init
<1>3. listener \in [Matches -> {"none", "toggle", "lookup", "gone"}]
  BY DEF Init
<1>4. TypeOK
  BY <1>1, <1>2, <1>3, HistoryAssumption DEF TypeOK
<1> QED
  BY <1>1, <1>4 DEF HistoryInv, TasksInv, AppendsHaveMatches, OthersWait,
     StaleAppendsFollowed, SeenIsRing, OffWillClear, StaleRowsFollowed

\* The part of the invariant that holds whatever fails.
OrderInv == TypeOK /\ AppendsHaveMatches /\ OthersWait /\ SeenIsRing

\* Only the first task writes the ring, so what it saw stays true until it does.
LEMMA OrderStep ==
  ASSUME OrderInv, [Next]_vars
  PROVE  OrderInv'
<1> USE DEF OrderInv
<1>0. TypeOK'
  BY TypeStep
<1> DEFINE Chain == AppendsHaveMatches /\ OthersWait /\ SeenIsRing
<1>1. ASSUME UNCHANGED <<chain, ring>> PROVE Chain'
  BY <1>1 DEF AppendsHaveMatches, OthersWait, SeenIsRing
<1>2. ASSUME NEW task \in Task, Enqueue(task), UNCHANGED ring,
             \/ task.at = "wipe"
             \/ task.at = "first" /\ task.match \in Matches
      PROVE  Chain'
  <2>1. /\ DOMAIN chain' = DOMAIN chain \cup {Len(chain) + 1}
        /\ Len(chain) + 1 \notin DOMAIN chain
        /\ \A i \in DOMAIN chain : chain'[i] = chain[i]
        /\ chain'[Len(chain) + 1] = task
    BY <1>2, Enqueued DEF TypeOK
  <2>2. AppendsHaveMatches' /\ OthersWait'
    BY <1>2, <2>1 DEF AppendsHaveMatches, OthersWait
  <2>3. CASE chain = <<>>
    BY <1>2, <2>1, <2>2, <2>3, EmptySeq DEF SeenIsRing
  <2>4. CASE chain # <<>>
    BY <1>2, <2>1, <2>2, <2>4, HeadOfChain DEF SeenIsRing, TypeOK
  <2> QED BY <2>3, <2>4
<1>3. ASSUME chain # <<>>, Done PROVE Chain'
  <2>1. /\ DOMAIN chain' \subseteq Nat \ {0} /\ chain' \in Seq(Task)
        /\ \A i \in DOMAIN chain' : i + 1 \in DOMAIN chain /\ chain'[i] = chain[i + 1]
    BY <1>3, Popped DEF TypeOK
  <2>2. \A i \in DOMAIN chain' : chain'[i].at \in {"first", "wipe"}
    BY <2>1 DEF OthersWait
  <2>3. chain' # <<>> => 1 \in DOMAIN chain'
    BY <2>1, EmptySeq, LenProperties
  <2> QED BY <2>1, <2>2, <2>3 DEF AppendsHaveMatches, OthersWait, SeenIsRing
<1>4. ASSUME chain # <<>>, NEW task \in Task, chain' = [chain EXCEPT ![1] = task],
             chain[1].at # "wipe", task.match = chain[1].match,
             task.at \in {"third", "store"} =>
               task.seen = ring' \/ ("history" \in MayFail /\ task.seen = <<>>)
      PROVE  Chain'
  <2>1. /\ DOMAIN chain' = DOMAIN chain /\ 1 \in DOMAIN chain
        /\ DOMAIN chain \subseteq Nat \ {0}
        /\ chain'[1] = task
        /\ \A i \in DOMAIN chain : 1 < i => chain'[i] = chain[i]
    BY <1>4, Progressed DEF TypeOK
  <2>2. \A i \in DOMAIN chain : i = 1 \/ 1 < i
    BY <2>1
  <2> QED BY <1>4, <2>1, <2>2 DEF AppendsHaveMatches, OthersWait, SeenIsRing
<1>5. ASSUME chain # <<>>, NEW at \in Where, Go(at), chain[1].at # "wipe",
             at \in {"third", "store"} => chain[1].at = "third" /\ UNCHANGED ring
      PROVE  Chain'
  <2> DEFINE task == [chain[1] EXCEPT !.at = at]
  <2>1. /\ task \in Task /\ chain' = [chain EXCEPT ![1] = task]
        /\ task.match = chain[1].match /\ task.seen = chain[1].seen /\ task.at = at
    BY <1>5, GoIsProgress DEF TypeOK
  <2> HIDE DEF task
  <2>2. at \in {"third", "store"} =>
          task.seen = ring' \/ ("history" \in MayFail /\ task.seen = <<>>)
    BY <1>5, <2>1 DEF SeenIsRing
  <2> QED BY <1>4, <1>5, <2>1, <2>2
<1>6. CASE SetLogging \/ Wake \/ UNCHANGED vars \/ (\E m \in Matches : Matched(m) \/ ToggleRead(m))
  BY <1>0, <1>1, <1>6 DEF SetLogging, Wake, vars, Matched, ToggleRead
<1>7. CASE Registered \/ ToggleHeard \/ ClearHeard
  <2>1. ClearTask \in Task /\ ClearTask.at = "wipe"
    BY NewTasks DEF ClearTask
  <2>2. UNCHANGED ring /\ (UNCHANGED chain \/ Enqueue(ClearTask))
    BY <1>7 DEF Registered, ToggleHeard, ClearHeard
  <2> QED BY <1>0, <1>1, <1>2, <2>1, <2>2
<1>8. CASE Stop
  BY <1>0, <1>8, EmptySeq DEF Stop, AppendsHaveMatches, OthersWait, SeenIsRing
<1>9. ASSUME NEW m \in Matches, LookedUp(m) PROVE OrderInv'
  <2>1. AppendTask(m) \in Task /\ AppendTask(m).at = "first" /\ AppendTask(m).match = m
    BY NewTasks DEF AppendTask
  <2>2. UNCHANGED ring /\ (UNCHANGED chain \/ Enqueue(AppendTask(m)))
    BY <1>9 DEF LookedUp
  <2> QED BY <1>0, <1>1, <1>2, <2>1, <2>2
<1>10. ASSUME NEW at, Now(at) PROVE chain # <<>> /\ chain[1].at = at /\ chain[1] \in Task
  BY <1>10, HeadOfChain DEF Now, TypeOK
<1>11. ASSUME NEW at \in {"first", "second", "third"},
              NEW onward \in {"second", "snapshot", "store"}, Checked(at, onward),
              onward = "store" => at = "third"
       PROVE  OrderInv'
  <2>1. chain # <<>> /\ chain[1].at = at /\ UNCHANGED ring
    BY <1>10, <1>11 DEF Checked
  <2>2. Done \/ Go(onward)
    BY <1>11 DEF Checked
  <2>3. CASE Go(onward)
    BY <1>0, <1>5, <1>11, <2>1, <2>3 DEF Where
  <2> QED BY <1>0, <1>3, <2>1, <2>2, <2>3
<1>12. CASE Snapshot
  <2>1. chain # <<>> /\ chain[1].at = "snapshot" /\ UNCHANGED ring /\ chain[1] \in Task
    BY <1>10, <1>12 DEF Snapshot
  <2>2. PICK rows \in {ring} \cup (IF "history" \in MayFail THEN {<<>>} ELSE {}) :
           chain' = [chain EXCEPT ![1].seen = rows, ![1].at = "third"]
    BY <1>12 DEF Snapshot
  <2> DEFINE task == [chain[1] EXCEPT !.seen = rows, !.at = "third"]
  <2>3. rows \in Seq(Row)
    BY <2>2, EmptySeq DEF TypeOK
  <2>4. task \in Task /\ task.match = chain[1].match /\ task.seen = rows /\ task.at = "third"
    BY <2>1, <2>3 DEF Task, Where
  <2>5. chain' = [chain EXCEPT ![1] = task]
    BY <2>1, <2>2, HeadOfChain DEF TypeOK
  <2> HIDE DEF task
  <2> QED BY <1>0, <1>4, <2>1, <2>2, <2>4, <2>5
<1>13. CASE Store
  BY <1>0, <1>3, <1>5, <1>10, <1>13 DEF Store, Failed, Where
<1>14. CASE CheckedLast
  BY <1>0, <1>3, <1>5, <1>10, <1>14 DEF CheckedLast, Where
<1>15. CASE Wipe
  BY <1>0, <1>3, <1>10, <1>15 DEF Wipe, Failed
<1>16. CASE Run
  BY <1>11, <1>12, <1>13, <1>14, <1>15, <1>16 DEF Run
<1> QED BY <1>6, <1>7, <1>8, <1>9, <1>16 DEF Next

\* The newest rows of a ring with one row more: the oldest makes room when the
\* ring is full.
LEMMA NewestOfOneMore ==
  ASSUME NEW rows \in Seq(Row), Len(rows) <= Cap, NEW row \in Row
  PROVE  \/ Newest(Append(rows, row)) = Append(rows, row)
         \/ Len(rows) = Cap /\ Newest(Append(rows, row)) = Append(Tail(rows), row)
<1> DEFINE more == Append(rows, row)
           n == Len(rows)
<1>1. /\ Cap \in Nat \ {0} /\ n \in Nat
      /\ more \in Seq(Row) /\ Len(more) = n + 1 /\ more[n + 1] = row
      /\ \A i \in 1 .. n : more[i] = rows[i]
  BY HistoryAssumption, LenProperties, AppendProperties
<1>2. n <= Cap
  OBVIOUS
<1> HIDE DEF more
<1>3. CASE Len(more) <= Cap
  BY <1>3 DEF Newest, more
<1>4. CASE ~ (Len(more) <= Cap)
  <2> DEFINE kept == SubSeq(more, 2, Len(more))
             new  == Append(Tail(rows), row)
  <2> HIDE DEF n
  <2>1. n = Cap /\ Len(more) - Cap + 1 = 2
    BY <1>1, <1>2, <1>4
  <2>2. Newest(more) = kept
    BY <1>4, <2>1 DEF Newest
  <2>3. 2 \in 1 .. Len(more) + 1 /\ Len(more) \in 1 .. Len(more) /\ Len(more) - 2 + 1 = n
    BY <1>1, <2>1
  <2>4. /\ kept \in Seq(Row) /\ Len(kept) = n
        /\ \A i \in 1 .. n : kept[i] = more[i + 1]
    <3>1. /\ kept \in Seq(Row)
          /\ Len(kept) = IF 2 <= Len(more) THEN Len(more) - 2 + 1 ELSE 0
          /\ \A i \in 1 .. Len(more) - 2 + 1 : kept[i] = more[2 + i - 1]
      BY <1>1, <2>3, SubSeqProperties
    <3>2. (\A i \in 1 .. n : 2 + i - 1 = i + 1) /\ 2 <= Len(more)
      BY <1>1, <2>1
    <3> QED BY <2>3, <3>1, <3>2
  <2>5. rows # <<>>
    BY <1>1, <2>1, EmptySeq DEF n
  <2>6. /\ Tail(rows) \in Seq(Row) /\ Len(Tail(rows)) = n - 1
        /\ \A i \in 1 .. n - 1 : Tail(rows)[i] = rows[i + 1]
    BY <2>5, HeadTailProperties DEF n
  <2>7. /\ new \in Seq(Row) /\ Len(new) = (n - 1) + 1 /\ new[(n - 1) + 1] = row
        /\ \A i \in 1 .. n - 1 : new[i] = Tail(rows)[i]
    BY <2>6, AppendProperties
  <2> HIDE DEF kept, new
  <2>8. /\ (n - 1) + 1 = n
        /\ \A i \in 1 .. n : i = n \/ (i \in 1 .. n - 1 /\ i + 1 \in 1 .. n)
    BY <1>1, <2>1
  <2>9. \A i \in 1 .. n : kept[i] = new[i]
    BY <1>1, <2>4, <2>6, <2>7, <2>8
  <2>10. kept = new
    BY <2>4, <2>7, <2>8, <2>9, SeqEqual
  <2> QED BY <2>1, <2>2, <2>10 DEF more, new, n
<1> QED BY <1>3, <1>4

\* The history keeps to its types, its cap included, whatever fails.
THEOREM HistoryTypes == Spec => []TypeOK
<1>1. Init => OrderInv
  BY InitInv DEF HistoryInv, OrderInv, TasksInv
<1>2. OrderInv /\ [Next]_vars => OrderInv'
  BY OrderStep
<1> QED BY <1>1, <1>2, PTL DEF Spec, OrderInv

\* What was logged before an off is not seen after it: with logging off and the
\* worker at rest the ring is empty, and no row queued before the last off is
\* left, for every interleaving of toggles, matches, clears and stops of
\* match-listener.ts and match-history.ts.
THEOREM OffIsForgotten ==
  ASSUME ClearsWork
  PROVE  Spec => []OffLeavesNothing
<1>1. HistoryInv /\ [Next]_vars => HistoryInv'
  BY TypeStep, KeptStep DEF HistoryInv, TasksInv, Kept
<1>2. HistoryInv => OffLeavesNothing
  <2> SUFFICES ASSUME HistoryInv, Quiet PROVE OffLeavesNothing
    BY DEF OffLeavesNothing, OffIsEmpty, OffForgets
  <2>1. ~Coming(0)
    BY EmptySeq DEF Quiet, Coming, OffAnnounced, WipeAfter
  <2> QED BY <2>1 DEF HistoryInv, Quiet, OffWillClear, StaleRowsFollowed,
             OffLeavesNothing, OffIsEmpty, OffForgets
<1> QED BY InitInv, <1>1, <1>2, PTL DEF Spec

\* Rows are lost to a clear or, one at a time and oldest first, to the cap, and
\* never to another append, because the writes of match-history.ts run one after
\* the other; a failed read of the ring, which counts as an empty one, is set apart.
THEOREM RowsAreKept ==
  ASSUME "history" \notin MayFail
  PROVE  Spec => RowsLeaveInOrder
<1> DEFINE Lost == ring' # ring =>
              \/ ring' = <<>>
              \/ \E m \in Matches, told \in 0 .. MaxOffs :
                   \/ ring' = Append(ring, [match |-> m, told |-> told])
                   \/ /\ Len(ring) = Cap
                      /\ ring' = Append(Tail(ring), [match |-> m, told |-> told])
<1>1. Init => OrderInv
  BY InitInv DEF HistoryInv, OrderInv, TasksInv
<1>2. OrderInv /\ [Next]_vars => OrderInv'
  BY OrderStep
<1>3. OrderInv /\ [Next]_vars => [Lost]_vars
  <2> SUFFICES ASSUME OrderInv, [Next]_vars, ring' # ring PROVE Lost
    BY DEF vars
  <2>1. CASE Store
    <3>1. chain # <<>> /\ chain[1].at = "store" /\ Head(chain) = chain[1] /\ chain[1] \in Task
          /\ 1 \in DOMAIN chain
      BY <2>1, HeadOfChain DEF Store, Now, OrderInv, TypeOK
    <3> DEFINE row == [match |-> chain[1].match, told |-> chain[1].told]
    <3>2. chain[1].match \in Matches /\ chain[1].told \in 0 .. MaxOffs /\ row \in Row
      BY <3>1 DEF OrderInv, AppendsHaveMatches, Task, Row
    <3>3. ring' = Newest(Append(ring, row))
      BY <2>1, <3>1 DEF Store, OrderInv, SeenIsRing
    <3>4. ring \in Seq(Row) /\ Len(ring) <= Cap
      BY DEF OrderInv, TypeOK
    <3> QED BY <3>2, <3>3, <3>4, NewestOfOneMore
  <2>2. CASE ~Store
    BY <2>2 DEF Next, vars, SetLogging, Wake, Registered, Stop, ToggleHeard, ClearHeard,
                Matched, ToggleRead, LookedUp, Run, Checked, Snapshot, CheckedLast, Wipe
  <2> QED BY <2>1, <2>2
<1> QED BY <1>1, <1>2, <1>3, PTL DEF Spec, RowsLeaveInOrder
=============================================================================
