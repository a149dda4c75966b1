---------------------------- MODULE ServicesProofs ----------------------------
(***************************************************************************)
(* Theorems about the parts of Services, for every value of the constants: *)
(* the install service, the worker for regular expressions, the AI         *)
(* assistance, the native transport and, the longest, the native session.  *)
(***************************************************************************)
EXTENDS Services, FiniteSetTheorems, NaturalsInduction, WellFoundedInduction, TLAPS

-------------------------------------------------------------------------------
(* The install service.                                                      *)

\* What a rollback puts back is what the apply found when it began: nothing else
\* changes the browser's rules while it waits.
InstallInv ==
  /\ \E S : outcomes \in Seq(S)
  /\ Install!OutcomesHonest
  /\ at = "reading" => before = installed
  /\ at \in {"installing", "rolling back"} => previous = before

\* An outcome that tells the truth is added to those that do.
LEMMA HonestFinish ==
  ASSUME InstallInv, NEW ok \in BOOLEAN, NEW recovered \in BOOLEAN, NEW noop \in BOOLEAN,
         Install!Finish(ok, recovered, noop),
         ok => installed' = desired, recovered => installed' = before
  PROVE  InstallInv'
<1> DEFINE o == [ok |-> ok, recovered |-> recovered, noop |-> noop,
                 desired |-> desired, before |-> before, after |-> installed']
<1>1. outcomes' = Append(outcomes, o) /\ at' = "idle"
  BY DEF Install!Finish
<1>2. PICK S : outcomes \in Seq(S)
  BY DEF InstallInv
<1>3. (o.ok => o.after = o.desired) /\ (o.recovered => o.after = o.before)
  OBVIOUS
<1> HIDE DEF o
<1>4. outcomes \in Seq(S \cup {o}) /\ o \in S \cup {o}
  BY <1>2
<1>5. outcomes' \in Seq(S \cup {o})
  BY <1>1, <1>4
<1>6. \A i \in DOMAIN outcomes' : outcomes'[i] = o \/ (i \in DOMAIN outcomes /\ outcomes'[i] = outcomes[i])
  BY <1>1, <1>4
<1>7. Install!OutcomesHonest'
  BY <1>3, <1>6 DEF InstallInv, Install!OutcomesHonest
<1> QED BY <1>1, <1>5, <1>7 DEF InstallInv

LEMMA InstallNext ==
  ASSUME InstallInv, [Install!Next]_(Install!vars)
  PROVE  InstallInv'
<1>1. ASSUME NEW wanted \in Sets, Install!Apply(wanted)
      PROVE  InstallInv'
  BY <1>1 DEF Install!Apply, Install!job, InstallInv, Install!OutcomesHonest
<1>2. CASE Install!Start
  BY <1>2 DEF Install!Start, InstallInv, Install!OutcomesHonest
<1>3. CASE Install!Read
  <2>1. at = "reading" /\ before = installed /\ installed' = installed
    BY <1>3 DEF Install!Read, InstallInv
  <2>2. CASE Install!Finish(FALSE, FALSE, FALSE)
    BY <2>2, HonestFinish
  <2>3. CASE desired = installed /\ Install!Finish(TRUE, FALSE, TRUE)
    BY <2>1, <2>3, HonestFinish
  <2>4. CASE /\ previous' = installed /\ at' = "installing"
             /\ UNCHANGED <<waiting, asked, desired, before, outcomes>>
    BY <2>1, <2>4 DEF InstallInv, Install!OutcomesHonest
  <2> QED BY <1>3, <2>2, <2>3, <2>4 DEF Install!Read
<1>4. ASSUME NEW ok \in BOOLEAN, Install!Install(ok)
      PROVE  InstallInv'
  <2>1. CASE ok /\ Install!Finish(TRUE, FALSE, FALSE)
    <3>1. installed' = desired
      BY <1>4, <2>1 DEF Install!Install, Install!Installs
    <3> QED BY <2>1, <3>1, HonestFinish
  <2>2. CASE ~ ok
    BY <1>4, <2>2 DEF Install!Install, InstallInv, Install!OutcomesHonest
  <2> QED BY <1>4, <2>1, <2>2 DEF Install!Install
<1>5. ASSUME NEW ok \in BOOLEAN, Install!RollBack(ok)
      PROVE  InstallInv'
  <2>1. previous = before /\ Install!Finish(FALSE, ok, FALSE)
    BY <1>5 DEF Install!RollBack, Install!Recovered, InstallInv
  <2>2. ok => installed' = before
    BY <1>5, <2>1 DEF Install!RollBack, Install!Installs
  <2> QED BY <2>1, <2>2, HonestFinish
<1>6. CASE UNCHANGED Install!vars
  BY <1>6 DEF Install!vars, Install!job, InstallInv, Install!OutcomesHonest
<1> QED BY <1>1, <1>2, <1>3, <1>4, <1>5, <1>6 DEF Install!Next, Install!Step

LEMMA InstallStarts ==
  ASSUME Install!Init
  PROVE  InstallInv
BY DEF Install!Init, InstallInv, Install!OutcomesHonest

-------------------------------------------------------------------------------
(* The worker thread of the regular expressions.                             *)

\* The warm worker is a thread that runs.
WarmRuns ==
  /\ DOMAIN thread = Workers
  /\ warm # None => warm \in Workers /\ thread[warm] = "ready"

LEMMA RegexNext ==
  ASSUME Regex!WorkerAssumption, WarmRuns, [Regex!Next]_(Regex!vars)
  PROVE  WarmRuns'
<1> USE DEF WarmRuns
<1>1. ASSUME NEW j \in Jobs, Regex!Ask(j)
      PROVE  WarmRuns'
  BY <1>1 DEF Regex!Ask
<1>2. ASSUME NEW j \in Jobs, Regex!Deadline(j)
      PROVE  WarmRuns'
  BY <1>2 DEF Regex!Deadline, Regex!Forget
<1>3. ASSUME NEW w \in Workers,
             Regex!BootReady(w) \/ Regex!BootFails(w) \/ Regex!Take(w) \/ Regex!Finish(w)
               \/ Regex!Hears(w) \/ Regex!Exit(w)
      PROVE  WarmRuns'
  BY <1>3 DEF Regex!BootReady, Regex!BootFails, Regex!Take, Regex!Finish, Regex!Hears, Regex!Exit
<1>4. CASE UNCHANGED Regex!vars
  BY <1>4 DEF Regex!vars
<1> QED BY <1>1, <1>2, <1>3, <1>4 DEF Regex!Next

Places == {"new", "waiting", "posted", "timed", "result", "deadline", "exited", "boot-failed"}
Placed == [at : Places, on : Workers \cup {None}]
JobsTyped == job \in [Jobs -> Placed] /\ boot \in Workers \cup {None}

LEMMA JobsNext ==
  ASSUME Regex!WorkerAssumption, WarmRuns, JobsTyped, [Regex!Next]_(Regex!vars)
  PROVE  JobsTyped' /\ Regex!PostedToLive
\* One message or timer moves one job on, and never to a thread.
<1>1. ASSUME NEW j \in Jobs, NEW place \in Places, place # "posted",
             job' = [job EXCEPT ![j].at = place], boot' \in Workers \cup {None}
      PROVE  JobsTyped' /\ Regex!PostedToLive
  <2> DEFINE moved == [job[j] EXCEPT !.at = place]
  <2>1. moved \in Placed /\ moved.at = place
    BY DEF JobsTyped, Placed
  <2>2. job' = [job EXCEPT ![j] = moved]
    BY <1>1
  <2> HIDE DEF moved
  <2> QED BY <1>1, <2>1, <2>2 DEF JobsTyped, Regex!PostedToLive
<1>2. ASSUME NEW j \in Jobs, NEW w \in Workers, NEW place \in {"posted", "waiting"},
             job' = [job EXCEPT ![j] = [at |-> place, on |-> w]],
             place = "posted" => thread'[w] = "ready", boot' \in Workers \cup {None}
      PROVE  JobsTyped' /\ Regex!PostedToLive
  <2>1. [at |-> place, on |-> w] \in Placed
    BY DEF Placed, Places
  <2> QED BY <1>2, <2>1 DEF JobsTyped, Regex!PostedToLive
<1>3. ASSUME NEW w \in Workers, NEW place \in Places, NEW S \in SUBSET Jobs,
             job' = [k \in Jobs |-> IF k \in S THEN [at |-> place, on |-> w] ELSE job[k]],
             place = "posted" => thread'[w] = "ready", boot' \in Workers \cup {None}
      PROVE  JobsTyped' /\ Regex!PostedToLive
  <2>1. [at |-> place, on |-> w] \in Placed
    BY DEF Placed
  <2> QED BY <1>3, <2>1 DEF JobsTyped, Regex!PostedToLive
<1>4. ASSUME job' = job, boot' \in Workers \cup {None}
      PROVE  JobsTyped' /\ Regex!PostedToLive
  BY <1>4 DEF JobsTyped, Regex!PostedToLive
<1>5. ASSUME NEW j \in Jobs, Regex!Ask(j)
      PROVE  JobsTyped' /\ Regex!PostedToLive
  <2>1. CASE warm # None
    <3>1. /\ job' = [job EXCEPT ![j] = [at |-> "posted", on |-> warm]]
          /\ boot' = boot /\ thread' = thread
      BY <1>5, <2>1 DEF Regex!Ask
    <3> QED BY <1>2, <2>1, <3>1 DEF WarmRuns, JobsTyped
  <2>2. CASE warm = None
    <3>1. PICK w \in Workers : /\ job' = [job EXCEPT ![j] = [at |-> "waiting", on |-> w]]
                               /\ boot' = w
      BY <1>5, <2>2 DEF Regex!Ask, JobsTyped
    <3> QED BY <1>2, <3>1
  <2> QED BY <2>1, <2>2
<1>6. ASSUME NEW j \in Jobs, Regex!Deadline(j)
      PROVE  JobsTyped' /\ Regex!PostedToLive
  <2>1. job' = [job EXCEPT ![j].at = "deadline"] /\ boot' \in {boot, None}
    BY <1>6 DEF Regex!Deadline, Regex!Forget
  <2> QED BY <1>1, <2>1 DEF Places, JobsTyped
<1>7. ASSUME NEW w \in Workers, Regex!BootReady(w)
      PROVE  JobsTyped' /\ Regex!PostedToLive
  <2> DEFINE S == Regex!Waiting(w)
  <2>1. /\ job' = [k \in Jobs |-> IF k \in S THEN [at |-> "posted", on |-> w] ELSE job[k]]
        /\ boot' = boot /\ thread'[w] = "ready" /\ S \in SUBSET Jobs
    BY <1>7 DEF Regex!BootReady, Regex!Waiting, WarmRuns
  <2> HIDE DEF S
  <2> QED BY <1>3, <2>1 DEF Places, JobsTyped
<1>8. ASSUME NEW w \in Workers, Regex!BootFails(w)
      PROVE  JobsTyped' /\ Regex!PostedToLive
  <2> DEFINE S == Regex!Waiting(w)
  <2>1. /\ job' = [k \in Jobs |-> IF k \in S THEN [at |-> "boot-failed", on |-> w] ELSE job[k]]
        /\ boot' = None /\ S \in SUBSET Jobs
    BY <1>8 DEF Regex!BootFails, Regex!Waiting
  <2> HIDE DEF S
  <2> QED BY <1>3, <2>1 DEF Places, JobsTyped
<1>9. ASSUME NEW w \in Workers, Regex!Exit(w)
      PROVE  JobsTyped' /\ Regex!PostedToLive
  <2> DEFINE S == Regex!Rejected(w)
  <2>1. /\ job' = [k \in Jobs |-> IF k \in S THEN [at |-> "exited", on |-> w] ELSE job[k]]
        /\ boot' \in {boot, None} /\ S \in SUBSET Jobs
    BY <1>9 DEF Regex!Exit, Regex!Rejected
  <2> HIDE DEF S
  <2> QED BY <1>3, <2>1 DEF Places, JobsTyped
<1>10. ASSUME NEW w \in Workers, Regex!Hears(w)
       PROVE  JobsTyped' /\ Regex!PostedToLive
  <2> DEFINE j == Head(news[w])[2]
             place == IF Head(news[w])[1] = "ack" THEN "timed" ELSE "result"
  <2>1. boot' = boot /\ (job' = job \/ job' = [job EXCEPT ![j].at = place])
    BY <1>10 DEF Regex!Hears
  <2>2. place \in {"timed", "result"}
    OBVIOUS
  <2> HIDE DEF j, place
  <2>3. j \notin Jobs => [job EXCEPT ![j].at = place] = job
    BY DEF JobsTyped
  <2> QED BY <1>1, <1>4, <2>1, <2>2, <2>3 DEF Places, JobsTyped
<1>11. ASSUME NEW w \in Workers, Regex!Take(w) \/ Regex!Finish(w)
       PROVE  JobsTyped' /\ Regex!PostedToLive
  BY <1>4, <1>11 DEF JobsTyped, Regex!Take, Regex!Finish
<1>12. CASE UNCHANGED Regex!vars
  BY <1>4, <1>12 DEF JobsTyped, Regex!vars
<1> QED BY <1>5, <1>6, <1>7, <1>8, <1>9, <1>10, <1>11, <1>12 DEF Regex!Next

LEMMA RegexStarts ==
  ASSUME Regex!Init
  PROVE  WarmRuns /\ JobsTyped
<1> DEFINE new == [at |-> "new", on |-> None]
<1>1. new \in Placed
  BY DEF Placed, Places
<1> HIDE DEF new
<1>2. Regex!Init => job = [j \in Jobs |-> new]
  BY DEF Regex!Init, new
<1> QED BY <1>1, <1>2 DEF Regex!Init, WarmRuns, JobsTyped

-------------------------------------------------------------------------------
(* The stage of the native transport.                                        *)

\* The command in progress is a message that was sent, and the stage carries the
\* digest of a begin that was sent: a project is set only under that digest.
Announced(digest) == \E m \in Transport!ToSet(input) : m.kind = "begin" /\ m.digest = digest
StageInv ==
  /\ \E S : set \in Seq(S)
  /\ Transport!SetAsAnnounced
  /\ running # None => running \in Transport!ToSet(input)
  /\ stage # None => "digest" \in DOMAIN stage /\ Announced(stage.digest)

\* A set of natural numbers that is not empty has a smallest one.
LEMMA Smallest ==
  ASSUME NEW T \in SUBSET Nat, T # {}
  PROVE  \E a \in T : \A b \in T : a <= b
<1> DEFINE R == OpToRel(<, Nat)
<1>1. IsWellFoundedOn(R, Nat)
  BY NatLessThanWellFounded
<1>2. \A x, y \in Nat : y < x => <<y, x>> \in R
  BY DEF OpToRel
<1> HIDE DEF R
<1>3. \E x \in T : \A y \in T : ~ (<<y, x>> \in R)
  BY <1>1, WFMin
<1>4. PICK x \in T : \A y \in T : ~ (<<y, x>> \in R)
  BY <1>3
<1>5. ASSUME NEW y \in T PROVE x <= y
  <2>1. x \in Nat /\ y \in Nat
    OBVIOUS
  <2>2. ~ (y < x)
    BY <1>2, <1>4, <2>1
  <2> QED BY <2>1, <2>2
<1> QED BY <1>5

\* The first message that encodes to a frame is one of those sent.
LEMMA DecodedWasSent ==
  ASSUME NEW Messages, input \in Seq(Messages), NEW frame, Transport!Decoded(frame) # None
  PROVE  Transport!Decoded(frame) \in Transport!ToSet(input)
<1> DEFINE I == {i \in 1 .. Len(input) : Transport!Encode(input[i]) = frame}
           first == IF I # {} THEN Transport!Min(I) ELSE 0
<1>1. Transport!Decoded(frame) = IF first = 0 THEN None ELSE input[first]
  BY DEF Transport!Decoded, Transport!SelectInSeq
<1>2. I # {} => \E i \in I : \A j \in I : i <= j
  <2>1. I \in SUBSET Nat
    OBVIOUS
  <2> HIDE DEF I
  <2> QED BY <2>1, Smallest
<1>3. I # {} => Transport!Min(I) \in I
  <2> HIDE DEF I
  <2> QED BY <1>2 DEF Transport!Min
<1>4. I # {} /\ first = Transport!Min(I)
  BY <1>1
<1>5. first \in 1 .. Len(input) /\ Transport!Decoded(frame) = input[first]
  BY <1>1, <1>3, <1>4
<1>6. 1 .. Len(input) = DOMAIN input
  OBVIOUS
<1> HIDE DEF I, first
<1> QED BY <1>5, <1>6 DEF Transport!ToSet

LEMMA StageNext ==
  ASSUME NEW Messages, input \in Seq(Messages), StageInv, [Transport!Next]_(Transport!vars)
  PROVE  StageInv' /\ input' = input
<1> USE DEF StageInv, Transport!SetAsAnnounced, Announced
<1>1. CASE Transport!Arrives
  BY <1>1 DEF Transport!Arrives, Transport!Chunk
<1>2. CASE Transport!Begin
  BY <1>2, DecodedWasSent DEF Transport!Begin, Transport!pump
<1>3. CASE Transport!StageBegin
  <2>1. running \in Transport!ToSet(input) /\ running.kind = "begin" /\ running' = None
        /\ input' = input /\ set' = set
    BY <1>3 DEF Transport!StageBegin, Transport!Done, Transport!pump
  <2>2. stage' = None \/ ("digest" \in DOMAIN stage' /\ stage'.digest = running.digest)
    BY <1>3 DEF Transport!StageBegin
  <2> QED BY <2>1, <2>2
<1>4. CASE Transport!StagePart \/ Transport!Expire
  <2>1. input' = input /\ set' = set /\ running' \in {running, None}
    BY <1>4 DEF Transport!StagePart, Transport!Expire, Transport!Done, Transport!pump
  <2>2. \/ stage' = None
        \/ /\ stage # None
           /\ "digest" \in DOMAIN stage' /\ stage'.digest = stage.digest
    BY <1>4 DEF Transport!StagePart, Transport!Expire, Transport!Accepts
  <2> QED BY <2>1, <2>2
<1>5. CASE Transport!StageCommit
  <2>1. input' = input /\ running' = None /\ stage' = None
    BY <1>5 DEF Transport!StageCommit, Transport!Done, Transport!pump
  <2> DEFINE content == Transport!Assembled(stage)
  <2>2. \/ set' = set
        \/ set' = Append(set, content) /\ Announced(content)
    BY <1>5 DEF Transport!StageCommit, Transport!Commits
  <2> HIDE DEF content
  <2>3. PICK S : set \in Seq(S)
    OBVIOUS
  <2>4. set' \in Seq(S \cup {content})
    BY <2>2, <2>3
  <2>5. \A i \in DOMAIN set' : (set'[i] = content /\ set' # set)
                                 \/ (i \in DOMAIN set /\ set'[i] = set[i])
    BY <2>2, <2>3
  <2> QED BY <2>1, <2>2, <2>4, <2>5
<1>6. CASE Transport!Command
  BY <1>6 DEF Transport!Command, Transport!Done, Transport!pump
<1>7. CASE UNCHANGED Transport!vars
  BY <1>7 DEF Transport!vars
<1> QED BY <1>1, <1>2, <1>3, <1>4, <1>5, <1>6, <1>7 DEF Transport!Next, Transport!Serves

-------------------------------------------------------------------------------
(* The composition.                                                          *)

\* The part that takes the steps keeps its invariant.
ServicesInv ==
  /\ part = "install" => InstallInv
  /\ part = "regex" => WarmRuns /\ JobsTyped

LEMMA ServicesStart ==
  ASSUME ServicesInit
  PROVE  ServicesInv
BY InstallStarts, RegexStarts DEF ServicesInit, ServicesInv

LEMMA ServicesKept ==
  ASSUME ServicesInv, [ServicesNext]_all
  PROVE  ServicesInv' /\ (part = "regex" => Regex!PostedToLive)
<1>1. part' = part
  BY DEF ServicesNext, all
<1>2. CASE part = "install"
  <2>1. [Install!Next]_(Install!vars)
    BY <1>2 DEF ServicesNext, all, installVars, Install!vars, Install!job
  <2> QED BY <1>1, <1>2, <2>1, InstallNext DEF ServicesInv
<1>3. CASE part = "regex"
  <2>1. [Regex!Next]_(Regex!vars)
    BY <1>3 DEF ServicesNext, all, regexVars, Regex!vars
  <2> QED BY <1>1, <1>3, <2>1, RegexNext, JobsNext, ServicesAssumption DEF ServicesInv
<1> QED BY <1>1, <1>2, <1>3 DEF ServicesInv

\* install-service.ts: an apply that reports success left the desired rules, and
\* one that reports a recovery the rules from before it, whatever failed, and
\* however many applies were asked for while it ran.
THEOREM InstallsAreHonest == ServicesSpec => []OutcomesHonest
<1>1. ServicesInit => ServicesInv
  BY ServicesStart
<1>2. ServicesInv /\ [ServicesNext]_all => ServicesInv'
  BY ServicesKept
<1>3. ServicesInv => OutcomesHonest
  BY DEF ServicesInv, OutcomesHonest, InstallInv
<1> QED BY <1>1, <1>2, <1>3, PTL DEF ServicesSpec

\* regex-replace.ts: no job is posted to a thread that a deadline has killed, or
\* that exited, however many jobs, boots and workers overlap.
THEOREM KilledThreadsGetNoJobs ==
  ServicesSpec => [][part = "regex" => Regex!PostedToLive]_regexVars
<1>1. ServicesInit => ServicesInv
  BY ServicesStart
<1>2. ServicesInv /\ [ServicesNext]_all =>
        ServicesInv' /\ [part = "regex" => Regex!PostedToLive]_regexVars
  BY ServicesKept
<1> QED BY <1>1, <1>2, PTL DEF ServicesSpec

-------------------------------------------------------------------------------
(* Folds of a sequence, as runs from element to element.                     *)

\* What holds of 0 and of each number with the one before holds up to n.
LEMMA UpTo ==
  ASSUME NEW n \in Nat, NEW T, 0 \in T, \A k \in 0 .. (n - 1) : k \in T => k + 1 \in T
  PROVE  \A k \in 0 .. n : k \in T
<1> DEFINE K == {k \in 0 .. n : k \notin T}
<1>1. SUFFICES ASSUME K # {} PROVE FALSE
  OBVIOUS
<1>2. PICK k \in K : \A m \in K : k <= m
  <2>1. K \in SUBSET Nat
    OBVIOUS
  <2> HIDE DEF K
  <2> QED BY <1>1, <2>1, Smallest
<1>3. k \in Nat /\ k \in 0 .. n /\ k # 0 /\ k - 1 \in 0 .. (n - 1)
  OBVIOUS
<1>4. k - 1 \notin K
  <2> HIDE DEF K
  <2> QED BY <1>2, <1>3
<1>5. k - 1 \in T
  BY <1>3, <1>4
<1>6. (k - 1) + 1 \in T
  BY <1>3, <1>5
<1> QED BY <1>3, <1>6

\* The last of an interval, and what is before it.
LEMMA LastOf ==
  ASSUME NEW k \in Nat \ {0}
  PROVE  Assist!Max(1 .. k) = k /\ (1 .. k) \ {k} = 1 .. (k - 1) /\ 1 .. k # {}
<1>1. \E x \in 1 .. k : \A y \in 1 .. k : x >= y
  OBVIOUS
<1>2. \A x \in 1 .. k : (\A y \in 1 .. k : x >= y) => x = k
  OBVIOUS
<1>3. \A x : x \in (1 .. k) \ {k} <=> x \in 1 .. (k - 1)
  OBVIOUS
<1>4. (1 .. k) \ {k} = 1 .. (k - 1)
  BY <1>3
<1> QED BY <1>1, <1>2, <1>4 DEF Assist!Max

\* A set of positive numbers up to n has a greatest one.
LEMMA LastOfSet ==
  ASSUME NEW n \in Nat, NEW s \in SUBSET (1 .. n), s # {}
  PROVE  /\ Assist!Max(s) \in s /\ Assist!Max(s) \in 1 .. n
         /\ s \ {Assist!Max(s)} \in SUBSET (1 .. (n - 1))
<1> DEFINE U == {n - i : i \in s}
           last == Assist!Max(s)
<1>1. \A i \in s : i \in Nat /\ 1 <= i /\ i <= n
  OBVIOUS
<1>2. U \in SUBSET Nat
  <2>1. \A i \in s : n - i \in Nat
    BY <1>1
  <2> QED BY <2>1
<1>3. PICK a \in U : \A b \in U : a <= b
  <2>1. U # {}
    OBVIOUS
  <2> HIDE DEF U
  <2> QED BY <1>2, <2>1, Smallest
<1>4. PICK x \in s : a = n - x
  OBVIOUS
<1>5. \A y \in s : x >= y
  <2> TAKE y \in s
  <2>1. n - x <= n - y
    BY <1>3, <1>4
  <2>2. x \in Nat /\ y \in Nat
    BY <1>1
  <2> QED BY <2>1, <2>2
<1>6. last \in s /\ \A y \in s : last >= y
  BY <1>5 DEF Assist!Max
<1> HIDE DEF last
<1>7. last \in Nat /\ 1 <= last /\ last <= n
  BY <1>1, <1>6
<1>8. \A y \in s \ {last} : y \in 1 .. (n - 1)
  <2> TAKE y \in s \ {last}
  <2>1. y \in Nat /\ 1 <= y /\ last >= y /\ y # last
    BY <1>1, <1>6
  <2> QED BY <1>7, <2>1
<1>9. last \in 1 .. n
  BY <1>7
<1> QED BY <1>6, <1>8, <1>9 DEF last

\* f folds step over seq, for each set of places.
FoldsBy(f, D, step, base, seq) ==
  /\ f \in [SUBSET (1 .. Len(seq)) -> D]
  /\ \A s \in SUBSET (1 .. Len(seq)) :
       f[s] = IF s = {} THEN base ELSE step[<<f[s \ {Assist!Max(s)}], seq[Assist!Max(s)]>>]

\* A fold by a function takes its values where the function does.
LEMMA FoldExists ==
  ASSUME NEW R, NEW D, NEW step \in [D \X R -> D], NEW base \in D, NEW seq \in Seq(R)
  PROVE  \E f : FoldsBy(f, D, step, base, seq)
<1> DEFINE N == Len(seq)
           last(s) == Assist!Max(s)
           Value(f, s) == IF s = {} THEN base ELSE step[<<f[s \ {last(s)}], seq[last(s)]>>]
           Folds(f, n) == f \in [SUBSET (1 .. n) -> D] /\ \A s \in SUBSET (1 .. n) :
             f[s] = Value(f, s)
           T == {n \in 0 .. N : \E f : Folds(f, n)}
<1>1. N \in Nat /\ \A i \in 1 .. N : seq[i] \in R
  OBVIOUS
<1>2. ASSUME NEW n \in 0 .. N, NEW s \in SUBSET (1 .. n), s # {}
      PROVE  last(s) \in s /\ last(s) \in 1 .. N /\ s \ {last(s)} \in SUBSET (1 .. (n - 1))
  <2>1. n \in Nat /\ n <= N
    <3> HIDE DEF N
    <3> QED BY <1>1
  <2>2. last(s) \in s /\ last(s) \in 1 .. n /\ s \ {last(s)} \in SUBSET (1 .. (n - 1))
    BY <1>2, <2>1, LastOfSet
  <2> HIDE DEF last, N
  <2> QED BY <1>1, <2>1, <2>2
<1>3. 0 \in T
  <2>1. 1 .. 0 = {}
    OBVIOUS
  <2>2. Folds([s \in {{}} |-> base], 0)
    BY <2>1
  <2> HIDE DEF Folds, N
  <2> QED BY <1>1, <2>2
<1>4. ASSUME NEW k \in 0 .. (N - 1), k \in T
      PROVE  k + 1 \in T
  <2> DEFINE n == k + 1
  <2>1. k \in 0 .. N /\ n \in 0 .. N /\ n - 1 = k
    BY <1>1
  <2>2. PICK f : Folds(f, k)
    BY <1>4
  <2> DEFINE g == [s \in SUBSET (1 .. n) |-> Value(f, s)]
  <2>3. \A s \in SUBSET (1 .. n) : s # {} => /\ last(s) \in s /\ last(s) \in 1 .. N
                                             /\ s \ {last(s)} \in SUBSET (1 .. k)
    BY <1>2, <2>1
  <2> HIDE DEF last
  <2>4. \A s \in SUBSET (1 .. n) : Value(f, s) \in D
    <3> TAKE s \in SUBSET (1 .. n)
    <3>1. CASE s = {}
      BY <3>1
    <3>2. CASE s # {}
      <4>1. f[s \ {last(s)}] \in D /\ seq[last(s)] \in R
        BY <1>1, <2>2, <2>3, <3>2
      <4> QED BY <3>2, <4>1
    <3> QED BY <3>1, <3>2
  <2>5. \A s \in SUBSET (1 .. k) : s \in SUBSET (1 .. n) /\ g[s] = f[s]
    <3>1. \A s \in SUBSET (1 .. k) : s \in SUBSET (1 .. n)
      BY <2>1
    <3> HIDE DEF n, Value
    <3> QED BY <2>2, <3>1
  <2>6. \A s \in SUBSET (1 .. n) : Value(f, s) = Value(g, s)
    <3> HIDE DEF g, n
    <3> QED BY <2>3, <2>5
  <2>7. Folds(g, n)
    <3> HIDE DEF n, Value
    <3> QED BY <2>4, <2>6
  <2> HIDE DEF Folds
  <2> QED BY <2>1, <2>7
<1>5. N \in T
  <2>1. \A k \in 0 .. (N - 1) : k \in T => k + 1 \in T
    BY <1>4
  <2>2. N \in 0 .. N
    BY <1>1
  <2> HIDE DEF T, N
  <2> QED BY <1>1, <1>3, <2>1, <2>2, UpTo
<1>6. PICK f : Folds(f, N)
  BY <1>5
<1> QED BY <1>6 DEF FoldsBy

\* run goes from base to end, one step of the fold for each element of seq.
Runs(run, D, step, base, seq, end) ==
  /\ run \in [0 .. Len(seq) -> D]
  /\ run[0] = base /\ run[Len(seq)] = end
  /\ \A k \in 1 .. Len(seq) : run[k] = step[<<run[k - 1], seq[k]>>]

\* What fold does at each set of places, as long as it stays in D.
OpenTo(fold, D, step, base, seq) ==
  /\ fold[{}] = base
  /\ \A s \in SUBSET (1 .. Len(seq)) :
       s # {} /\ fold[s \ {Assist!Max(s)}] \in D
         => fold[s] = step[<<fold[s \ {Assist!Max(s)}], seq[Assist!Max(s)]>>]

\* A fold goes through its values one element after the other.
LEMMA FoldRun ==
  ASSUME NEW R, NEW D, NEW step \in [D \X R -> D], NEW base \in D, NEW seq \in Seq(R), NEW fold,
         OpenTo(fold, D, step, base, seq)
  PROVE  \E run : Runs(run, D, step, base, seq, fold[1 .. Len(seq)])
<1> DEFINE N == Len(seq)
           run == [k \in 0 .. N |-> fold[1 .. k]]
           T == {k \in 0 .. N : run[k] \in D}
<1> USE DEF OpenTo
<1>1. N \in Nat /\ \A k \in 1 .. N : seq[k] \in R
  OBVIOUS
<1>2. \A k \in 1 .. N : run[k - 1] \in D => run[k] = step[<<run[k - 1], seq[k]>>]
  <2> TAKE k \in 1 .. N
  <2>1. k \in Nat \ {0} /\ k - 1 \in 0 .. N /\ k \in 0 .. N /\ 1 .. k \in SUBSET (1 .. N)
    <3> HIDE DEF N
    <3> QED BY <1>1
  <2>2. Assist!Max(1 .. k) = k /\ (1 .. k) \ {k} = 1 .. (k - 1) /\ 1 .. k # {}
    BY <2>1, LastOf
  <2>3. run[k] = fold[1 .. k] /\ run[k - 1] = fold[1 .. (k - 1)]
    BY <2>1
  <2> HIDE DEF run
  <2> QED BY <2>1, <2>2, <2>3
<1>3. run[0] = base
  <2>1. 1 .. 0 = {} /\ 0 \in 0 .. N
    BY <1>1
  <2> QED BY <2>1
<1> HIDE DEF run, N
<1>4. \A k \in 0 .. (N - 1) : k \in T => k + 1 \in T
  <2> TAKE k \in 0 .. (N - 1)
  <2>1. k \in 0 .. N /\ k + 1 \in 1 .. N /\ k + 1 \in 0 .. N /\ (k + 1) - 1 = k
    BY <1>1
  <2> QED BY <1>1, <1>2, <2>1
<1>5. \A k \in 0 .. N : k \in T
  <2>1. 0 \in T
    BY <1>1, <1>3
  <2> HIDE DEF T
  <2> QED BY <1>1, <1>4, <2>1, UpTo
<1>6. run \in [0 .. N -> D]
  BY <1>5 DEF run
<1>7. \A k \in 1 .. N : run[k] = step[<<run[k - 1], seq[k]>>]
  <2> TAKE k \in 1 .. N
  <2>1. k - 1 \in 0 .. N
    BY <1>1
  <2> QED BY <1>2, <1>5, <2>1
<1>8. run[N] = fold[1 .. N]
  BY <1>1 DEF run
<1> QED BY <1>3, <1>6, <1>7, <1>8 DEF N, Runs

-------------------------------------------------------------------------------
(* The AI assistance: what Apply does with one rule, and with all.           *)

\* The rules of drafts, of drafts as the hosts see them, and of proposals.
DraftRule == [id : Nat, good : BOOLEAN, from : Nat]
HostRule == [id : Nat \cup {None}, good : BOOLEAN, from : Nat]
ProposedRule(G) == [group : G, good : BOOLEAN, whole : BOOLEAN]

\* What a search in a sequence finds.
LEMMA IndexFound ==
  ASSUME NEW G, NEW d \in [G -> Seq(DraftRule)], NEW g \in G, NEW id
  PROVE  /\ Assist!IndexOf(d, g, id) \in 0 .. Len(d[g])
         /\ Assist!IndexOf(d, g, id) # 0 => d[g][Assist!IndexOf(d, g, id)].id = id
         /\ Assist!IndexOf(d, g, id) = 0 => \A i \in DOMAIN d[g] : d[g][i].id # id
<1> DEFINE s == d[g]
           I == {i \in 1 .. Len(s) : s[i].id = id}
<1>1. Assist!IndexOf(d, g, id) = IF I # {} THEN Assist!Min(I) ELSE 0
  BY DEF Assist!IndexOf, Assist!SelectInSeq
<1>2. s \in Seq(DraftRule) /\ Len(s) \in Nat /\ DOMAIN s = 1 .. Len(s)
  OBVIOUS
<1>3. I # {} => Assist!Min(I) \in I
  <2>1. I \in SUBSET Nat
    OBVIOUS
  <2> HIDE DEF I
  <2> QED BY <2>1, Smallest DEF Assist!Min
<1> HIDE DEF s
<1>4. CASE I = {}
  BY <1>1, <1>2, <1>4 DEF s
<1>5. CASE I # {}
  <2>1. Assist!IndexOf(d, g, id) = Assist!Min(I) /\ Assist!Min(I) \in 1 .. Len(s)
          /\ s[Assist!Min(I)].id = id
    BY <1>1, <1>3, <1>5
  <2> QED BY <1>2, <2>1 DEF s
<1> QED BY <1>4, <1>5

\* An id that is in a group is found.
LEMMA IdFound ==
  ASSUME NEW G, NEW d \in [G -> Seq(DraftRule)], NEW g \in G, NEW i \in DOMAIN d[g]
  PROVE  Assist!IndexOf(d, g, d[g][i].id) # 0
<1> DEFINE id == d[g][i].id
<1>1. Assist!IndexOf(d, g, id) = 0 => \A j \in DOMAIN d[g] : d[g][j].id # id
  <2> HIDE DEF id
  <2> QED BY IndexFound
<1> QED BY <1>1

\* The target that is taken is one whose rule is there, the first if that is.
LEMMA LiveFound ==
  ASSUME NEW d, NEW g, NEW ids \in Seq(Nat)
  PROVE  LET place == Assist!Live(d, g, ids)
         IN  /\ place \in 0 .. Len(ids)
             /\ place # 0 => Assist!IndexOf(d, g, ids[place]) # 0
             /\ ids = <<>> => place = 0
             /\ ids # <<>> /\ Assist!IndexOf(d, g, ids[1]) # 0 => place = 1
<1> DEFINE I == {i \in 1 .. Len(ids) : Assist!IndexOf(d, g, ids[i]) # 0}
           place == Assist!Live(d, g, ids)
<1>1. place = IF I # {} THEN Assist!Min(I) ELSE 0
  BY DEF Assist!Live, Assist!SelectInSeq
<1>2. I # {} => Assist!Min(I) \in I /\ \A i \in I : Assist!Min(I) <= i
  <2>1. I \in SUBSET Nat
    OBVIOUS
  <2> HIDE DEF I
  <2> QED BY <2>1, Smallest DEF Assist!Min
<1>3. CASE I = {}
  <2>1. place = 0
    BY <1>1, <1>3
  <2>2. ids # <<>> => 1 \in 1 .. Len(ids)
    OBVIOUS
  <2> QED BY <1>3, <2>1, <2>2
<1>4. CASE I # {}
  <2>1. place \in I /\ \A i \in I : place <= i
    BY <1>1, <1>2, <1>4
  <2> HIDE DEF place
  <2>2. place \in 1 .. Len(ids) /\ Assist!IndexOf(d, g, ids[place]) # 0
    BY <2>1
  <2>3. ids # <<>>
    BY <2>2
  <2>4. Assist!IndexOf(d, g, ids[1]) # 0 => place = 1
    <3>1. 1 \in 1 .. Len(ids)
      BY <2>3
    <3>2. place \in Nat /\ 1 <= place
      BY <2>2
    <3> QED BY <2>1, <3>1, <3>2
  <2>5. place \in 0 .. Len(ids)
    BY <2>2
  <2> QED BY <2>2, <2>3, <2>4, <2>5 DEF place
<1> QED BY <1>3, <1>4

\* Two sequences, one after the other.
LEMMA Joined ==
  ASSUME NEW S, NEW s \in Seq(S), NEW t \in Seq(S)
  PROVE  s \o t \in Seq(S) /\ Len(s \o t) = Len(s) + Len(t)
OBVIOUS

\* A sequence without one of its elements.
LEMMA RemoveTyped ==
  ASSUME NEW S, NEW s \in Seq(S), NEW i \in 1 .. Len(s)
  PROVE  /\ Assist!RemoveAt(s, i) \in Seq(S)
         /\ Len(Assist!RemoveAt(s, i)) = Len(s) - 1
         /\ \A j \in 1 .. (Len(s) - 1) : Assist!RemoveAt(s, i)[j] = IF j < i THEN s[j] ELSE s[j + 1]
<1> DEFINE one == SubSeq(s, 1, i - 1)
           two == SubSeq(s, i + 1, Len(s))
           N == Len(s)
<1>1. N \in Nat /\ i \in Nat /\ 1 <= i /\ i <= N /\ \A j \in 1 .. N : s[j] \in S
  OBVIOUS
<1>2. one \in Seq(S) /\ Len(one) = i - 1 /\ \A j \in 1 .. (i - 1) : one[j] = s[j]
  OBVIOUS
<1>3. two \in Seq(S) /\ Len(two) = N - i /\ \A j \in 1 .. (N - i) : two[j] = s[i + j]
  OBVIOUS
<1>4. Assist!RemoveAt(s, i) = one \o two
  BY DEF Assist!RemoveAt
<1> HIDE DEF one, two, N
<1>5. one \o two \in Seq(S) /\ Len(one \o two) = N - 1
  <2>1. one \o two \in Seq(S) /\ Len(one \o two) = Len(one) + Len(two)
    BY <1>2, <1>3, Joined
  <2> QED BY <1>1, <1>2, <1>3, <2>1
<1>6. \A j \in 1 .. (N - 1) : (one \o two)[j] = IF j < i THEN s[j] ELSE s[j + 1]
  <2> TAKE j \in 1 .. (N - 1)
  <2>1. (one \o two)[j] = IF j <= i - 1 THEN one[j] ELSE two[j - (i - 1)]
    BY <1>1, <1>2, <1>3
  <2>2. CASE j < i
    BY <1>1, <1>2, <2>1, <2>2
  <2>3. CASE ~(j < i)
    <3>1. j - (i - 1) \in 1 .. (N - i) /\ i + (j - (i - 1)) = j + 1 /\ ~(j <= i - 1)
      BY <1>1, <2>3
    <3> QED BY <1>3, <2>1, <2>3, <3>1
  <2> QED BY <2>2, <2>3
<1> QED BY <1>4, <1>5, <1>6 DEF N

\* A draft of the groups G whose ids are told apart and below the next one.
Drafted(G, d, next) == d \in [G -> Seq(DraftRule)] /\ Assist!IdsTold(d, next)

\* What the editor carries through the rules of a proposal, and the host.
Applying(G) ==
  {acc \in [d : [G -> Seq(DraftRule)], fresh : Nat, repairs : [G -> Seq(Nat)], from : Nat] :
    Drafted(G, acc.d, acc.fresh)}
Repairing(G) == [d : [G -> Seq(HostRule)], queues : [G -> Seq(Nat)]]

\* The draft with the rule at the end, with it in the place of rule i, and the targets
\* without one.
Appended(acc, rule) ==
  [acc.d EXCEPT ![rule.group] =
     Append(acc.d[rule.group], [id |-> acc.fresh, good |-> rule.good, from |-> acc.from])]
Replaced(acc, rule, id, i) ==
  [acc.d EXCEPT ![rule.group] =
     [acc.d[rule.group] EXCEPT ![i] = [id |-> id, good |-> rule.good, from |-> acc.from]]]
WithoutTarget(acc, g, place) == [acc.repairs EXCEPT ![g] = Assist!RemoveAt(acc.repairs[g], place)]

\* The editor writes the rule over the first target that is still there.
Repairs(acc, rule) ==
  \E place \in 1 .. Len(acc.repairs[rule.group]) : \E i \in DOMAIN acc.d[rule.group] :
    /\ place = Assist!Live(acc.d, rule.group, acc.repairs[rule.group])
    /\ acc.d[rule.group][i].id = acc.repairs[rule.group][place]
    /\ Assist!ApplyOne(acc, rule) =
         [acc EXCEPT !.d = Replaced(acc, rule, acc.repairs[rule.group][place], i),
                     !.repairs = WithoutTarget(acc, rule.group, place)]

\* A rule is added at the end with the next id, or takes the place and the id of the
\* first rule that is to be repaired and is still there.
LEMMA ApplyAppends ==
  ASSUME NEW G, NEW acc \in Applying(G), NEW rule \in ProposedRule(G),
         Assist!Live(acc.d, rule.group, acc.repairs[rule.group]) = 0
  PROVE  Assist!ApplyOne(acc, rule) =
           [acc EXCEPT !.d = Appended(acc, rule), !.fresh = acc.fresh + 1]
<1> DEFINE g == rule.group
<1>1. /\ g \in G /\ acc.d \in [G -> Seq(DraftRule)]
      /\ acc.fresh \in Nat /\ Assist!IdsTold(acc.d, acc.fresh)
  BY DEF Applying, Drafted, ProposedRule
<1>2. Assist!IndexOf(acc.d, g, acc.fresh) = 0
  <2>1. \A i \in DOMAIN acc.d[g] : acc.d[g][i].id < acc.fresh
    BY <1>1 DEF Assist!IdsTold
  <2> DEFINE i == Assist!IndexOf(acc.d, g, acc.fresh)
  <2>2. i \in 0 .. Len(acc.d[g]) /\ (i # 0 => acc.d[g][i].id = acc.fresh)
    BY <1>1, IndexFound
  <2>3. i # 0 => i \in DOMAIN acc.d[g]
    BY <1>1, <2>2
  <2> HIDE DEF i
  <2>4. CASE i # 0
    <3>1. acc.fresh < acc.fresh
      BY <2>1, <2>2, <2>3, <2>4
    <3> QED BY <1>1, <3>1
  <2> QED BY <2>4 DEF i
<1> QED BY <1>2 DEF Assist!ApplyOne, Assist!Written, Appended

\* Otherwise the rule is written over its target.
LEMMA ApplyReplaces ==
  ASSUME NEW G, NEW acc \in Applying(G), NEW rule \in ProposedRule(G),
         Assist!Live(acc.d, rule.group, acc.repairs[rule.group]) # 0
  PROVE  Repairs(acc, rule)
<1> DEFINE g == rule.group
           place == Assist!Live(acc.d, g, acc.repairs[g])
           id == acc.repairs[g][place]
           i == Assist!IndexOf(acc.d, g, id)
<1>1. g \in G /\ acc.d \in [G -> Seq(DraftRule)] /\ acc.repairs \in [G -> Seq(Nat)]
  BY DEF Applying, Drafted, ProposedRule
<1>2. acc.repairs[g] \in Seq(Nat)
  BY <1>1
<1>3. place \in 0 .. Len(acc.repairs[g]) /\ i # 0
  BY <1>2, LiveFound
<1>4. place \in 1 .. Len(acc.repairs[g])
  BY <1>2, <1>3
<1>5. Assist!ApplyOne(acc, rule) =
        [acc EXCEPT !.d = Assist!Written(acc, rule, id), !.repairs = WithoutTarget(acc, g, place)]
  BY DEF Assist!ApplyOne, WithoutTarget
<1>6. Assist!Written(acc, rule, id) = Replaced(acc, rule, id, i)
  BY <1>3 DEF Assist!Written, Replaced
<1>7. i \in DOMAIN acc.d[g] /\ acc.d[g][i].id = id
  <2> HIDE DEF id
  <2>1. \A e : LET k == Assist!IndexOf(acc.d, g, e)
              IN  k \in 0 .. Len(acc.d[g]) /\ (k # 0 => acc.d[g][k].id = e)
    BY <1>1, IndexFound
  <2>2. i \in 0 .. Len(acc.d[g]) /\ (i # 0 => acc.d[g][i].id = id)
    BY <2>1
  <2> HIDE DEF i
  <2> QED BY <1>1, <1>3, <2>2
<1> HIDE DEF i
<1> QED BY <1>4, <1>5, <1>6, <1>7 DEF Repairs

\* Either way the ids of the draft stay told apart.
LEMMA ApplyTyped ==
  ASSUME NEW G, NEW acc \in Applying(G), NEW rule \in ProposedRule(G)
  PROVE  Assist!ApplyOne(acc, rule) \in Applying(G)
<1> DEFINE g == rule.group
           next == Assist!ApplyOne(acc, rule)
<1>1. /\ acc \in [d : [G -> Seq(DraftRule)], fresh : Nat, repairs : [G -> Seq(Nat)], from : Nat]
      /\ Assist!IdsTold(acc.d, acc.fresh)
  BY DEF Applying, Drafted
<1>2. /\ g \in G /\ rule.good \in BOOLEAN /\ acc.fresh \in Nat /\ acc.from \in Nat
      /\ acc.d \in [G -> Seq(DraftRule)] /\ acc.repairs \in [G -> Seq(Nat)]
  BY <1>1 DEF ProposedRule
<1>3. \A h \in G : \A i, j \in DOMAIN acc.d[h] :
        acc.d[h][i].id < acc.fresh /\ (acc.d[h][i].id = acc.d[h][j].id => i = j)
  BY <1>1, <1>2 DEF Assist!IdsTold
<1>4. \A h \in G : \A i \in DOMAIN acc.d[h] : acc.d[h][i].id \in Nat
  <2> TAKE h \in G
  <2>1. acc.d[h] \in Seq(DraftRule)
    BY <1>2
  <2>2. \A i \in DOMAIN acc.d[h] : acc.d[h][i] \in DraftRule
    BY <2>1
  <2> QED BY <2>2 DEF DraftRule
<1>5. CASE Assist!Live(acc.d, g, acc.repairs[g]) = 0
  <2> DEFINE new == [id |-> acc.fresh, good |-> rule.good, from |-> acc.from]
             d == Appended(acc, rule)
  <2>1. next = [acc EXCEPT !.d = d, !.fresh = acc.fresh + 1]
    BY <1>5, ApplyAppends, ZenonT(30)
  <2>2. new \in DraftRule /\ new.id = acc.fresh
    BY <1>2 DEF DraftRule
  <2>3. d = [acc.d EXCEPT ![g] = Append(acc.d[g], new)]
    BY DEF Appended
  <2> HIDE DEF new, d, next
  <2>4. d \in [G -> Seq(DraftRule)]
    BY <1>2, <2>2, <2>3
  <2>5. ASSUME NEW h \in G, NEW i \in DOMAIN d[h]
        PROVE  \/ i \in DOMAIN acc.d[h] /\ d[h][i].id = acc.d[h][i].id
               \/ h = g /\ i = Len(acc.d[g]) + 1 /\ d[h][i].id = acc.fresh
    <3>1. CASE h = g
      <4> DEFINE s == acc.d[g]
      <4>1. s \in Seq(DraftRule) /\ d[g] = Append(s, new)
        BY <1>2, <2>3
      <4> HIDE DEF s
      <4>2. i \in 1 .. (Len(s) + 1)
        BY <3>1, <4>1, <2>2, <2>5
      <4>3. i = Len(s) + 1 => d[g][i] = new
        BY <2>2, <4>1
      <4>4. i # Len(s) + 1 => i \in DOMAIN s /\ d[g][i] = s[i]
        BY <2>2, <4>1, <4>2
      <4> QED BY <2>2, <3>1, <4>3, <4>4 DEF s
    <3>2. CASE h # g
      BY <1>2, <2>3, <2>5, <3>2
    <3> QED BY <3>1, <3>2
  <2>6. Assist!IdsTold(d, acc.fresh + 1)
    <3> SUFFICES ASSUME NEW h \in G, NEW i \in DOMAIN d[h], NEW j \in DOMAIN d[h]
                 PROVE  d[h][i].id < acc.fresh + 1 /\ (d[h][i].id = d[h][j].id => i = j)
      BY <2>4 DEF Assist!IdsTold
    <3>1. /\ \/ i \in DOMAIN acc.d[h] /\ d[h][i].id = acc.d[h][i].id
             \/ h = g /\ i = Len(acc.d[g]) + 1 /\ d[h][i].id = acc.fresh
          /\ \/ j \in DOMAIN acc.d[h] /\ d[h][j].id = acc.d[h][j].id
             \/ h = g /\ j = Len(acc.d[g]) + 1 /\ d[h][j].id = acc.fresh
      BY <2>5
    <3> QED BY <1>2, <1>3, <1>4, <3>1
  <2>7. /\ next \in [d : [G -> Seq(DraftRule)], fresh : Nat, repairs : [G -> Seq(Nat)], from : Nat]
        /\ next.d = d /\ next.fresh = acc.fresh + 1
    <3>1. next = [d |-> d, fresh |-> acc.fresh + 1, repairs |-> acc.repairs, from |-> acc.from]
      BY <1>1, <2>1
    <3> QED BY <1>2, <2>4, <3>1
  <2> QED BY <2>4, <2>6, <2>7 DEF Applying, Drafted, next
<1>6. CASE Assist!Live(acc.d, g, acc.repairs[g]) # 0
  <2> DEFINE ids == acc.repairs[g]
  <2>1. PICK place \in 1 .. Len(ids) : \E i \in DOMAIN acc.d[g] :
          /\ acc.d[g][i].id = ids[place]
          /\ next = [acc EXCEPT !.d = Replaced(acc, rule, ids[place], i),
                                !.repairs = WithoutTarget(acc, g, place)]
    <3>1. Assist!Live(acc.d, rule.group, acc.repairs[rule.group]) # 0
      BY <1>6
    <3>2. Repairs(acc, rule)
      BY <3>1, ApplyReplaces
    <3> QED BY <3>2 DEF Repairs
  <2> DEFINE new == [id |-> ids[place], good |-> rule.good, from |-> acc.from]
             d(i) == Replaced(acc, rule, ids[place], i)
             repairs == WithoutTarget(acc, g, place)
  <2>2. PICK i \in DOMAIN acc.d[g] :
          acc.d[g][i].id = ids[place] /\ next = [acc EXCEPT !.d = d(i), !.repairs = repairs]
    BY <2>1
  <2>3. new \in DraftRule /\ new.id = acc.d[g][i].id
    <3>1. acc.d[g][i].id = ids[place] /\ acc.d[g][i].id \in Nat
      BY <1>2, <1>4, <2>2
    <3> QED BY <1>2, <3>1 DEF DraftRule
  <2>4. repairs \in [G -> Seq(Nat)]
    <3>1. ids \in Seq(Nat)
      BY <1>2
    <3>2. Assist!RemoveAt(ids, place) \in Seq(Nat)
      <4> HIDE DEF ids
      <4> QED BY <3>1, <2>1, RemoveTyped
    <3> QED BY <1>2, <3>2 DEF WithoutTarget
  <2>5. d(i) = [acc.d EXCEPT ![g] = [acc.d[g] EXCEPT ![i] = new]]
    BY DEF Replaced
  <2> HIDE DEF new, repairs, next, d, ids
  <2>6. d(i) \in [G -> Seq(DraftRule)]
    BY <1>2, <2>2, <2>3, <2>5
  <2>7. \A h \in G : DOMAIN d(i)[h] = DOMAIN acc.d[h] /\ \A j \in DOMAIN acc.d[h] :
          d(i)[h][j].id = acc.d[h][j].id
    BY <1>2, <2>2, <2>3, <2>5
  <2>8. Assist!IdsTold(d(i), acc.fresh)
    <3> SUFFICES ASSUME NEW h \in G, NEW j \in DOMAIN d(i)[h], NEW k \in DOMAIN d(i)[h]
                 PROVE  d(i)[h][j].id < acc.fresh /\ (d(i)[h][j].id = d(i)[h][k].id => j = k)
      BY <2>6 DEF Assist!IdsTold
    <3>1. /\ j \in DOMAIN acc.d[h] /\ d(i)[h][j].id = acc.d[h][j].id
          /\ k \in DOMAIN acc.d[h] /\ d(i)[h][k].id = acc.d[h][k].id
      BY <2>7
    <3> QED BY <1>3, <3>1
  <2>9. /\ next \in [d : [G -> Seq(DraftRule)], fresh : Nat, repairs : [G -> Seq(Nat)], from : Nat]
        /\ next.d = d(i) /\ next.fresh = acc.fresh
    BY <1>1, <1>2, <2>2, <2>4, <2>6
  <2> QED BY <2>6, <2>8, <2>9 DEF Applying, Drafted, next
<1> QED BY <1>5, <1>6

\* All proposal of a proposal, one after the other.
AppliedAll(base, proposal) == Assist!FoldLeft(Assist!ApplyOne, base, proposal)

\* The editor goes through the rules of a proposal one after the other.
LEMMA ApplyRun ==
  ASSUME NEW G, NEW base \in Applying(G), NEW proposal \in Seq(ProposedRule(G))
  PROVE  \E run \in [0 .. Len(proposal) -> Applying(G)] :
           /\ run[0] = base /\ run[Len(proposal)] = AppliedAll(base, proposal)
           /\ \A k \in 1 .. Len(proposal) : run[k] = Assist!ApplyOne(run[k - 1], proposal[k])
<1> DEFINE D == Applying(G)
           R == ProposedRule(G)
           step == [p \in D \X R |-> Assist!ApplyOne(p[1], p[2])]
           last(s) == Assist!Max(s)
           Fold(f) == [s \in SUBSET (DOMAIN proposal) |->
                         IF s = {} THEN base
                         ELSE Assist!ApplyOne(f[s \ {last(s)}], proposal[last(s)])]
           fold == CHOOSE f : f = Fold(f)
<1>1. step \in [D \X R -> D] /\ \A a \in D, r \in R : step[<<a, r>>] = Assist!ApplyOne(a, r)
  <2>1. \A p \in D \X R : Assist!ApplyOne(p[1], p[2]) \in D
    BY ApplyTyped
  <2> HIDE DEF D, R
  <2> QED BY <2>1
<1>2. AppliedAll(base, proposal) = fold[DOMAIN proposal]
  BY DEF AppliedAll, Assist!FoldLeft, Assist!MapThenFoldSet
<1>3. DOMAIN proposal = 1 .. Len(proposal) /\ Len(proposal) \in Nat
        /\ \A i \in 1 .. Len(proposal) : proposal[i] \in R
  OBVIOUS
<1>4. \A s \in SUBSET (1 .. Len(proposal)) : s # {} => last(s) \in 1 .. Len(proposal)
        /\ s \ {last(s)} \in SUBSET (1 .. Len(proposal))
  BY <1>3, LastOfSet
<1> HIDE DEF step, D, R, last
<1>5. \E f : f = Fold(f)
  <2>1. PICK f : FoldsBy(f, D, step, base, proposal)
    BY <1>1, FoldExists DEF D, R
  <2>2. \A s \in SUBSET (1 .. Len(proposal)) :
          s # {} => step[<<f[s \ {last(s)}], proposal[last(s)]>>]
                      = Assist!ApplyOne(f[s \ {last(s)}], proposal[last(s)])
    BY <1>1, <1>3, <1>4, <2>1 DEF FoldsBy
  <2>3. f = Fold(f)
    BY <1>3, <2>1, <2>2 DEF FoldsBy, last
  <2> QED BY <2>3
<1>6. fold = Fold(fold)
  BY <1>5
<1> HIDE DEF fold
<1>7. fold[{}] = base
  BY <1>6
<1>8. \A s \in SUBSET (1 .. Len(proposal)) :
        s # {} /\ fold[s \ {last(s)}] \in D
          => fold[s] = step[<<fold[s \ {last(s)}], proposal[last(s)]>>]
  <2> TAKE s \in SUBSET (1 .. Len(proposal))
  <2> HAVE s # {} /\ fold[s \ {last(s)}] \in D
  <2>1. fold[s] = Assist!ApplyOne(fold[s \ {last(s)}], proposal[last(s)])
    BY <1>3, <1>6
  <2> QED BY <1>1, <1>3, <1>4, <2>1
<1>9. PICK run : Runs(run, D, step, base, proposal, fold[1 .. Len(proposal)])
  <2>1. OpenTo(fold, D, step, base, proposal)
    BY <1>7, <1>8 DEF OpenTo, last
  <2> QED BY <1>1, <2>1, FoldRun DEF D, R
<1>10. \A k \in 1 .. Len(proposal) : run[k] = Assist!ApplyOne(run[k - 1], proposal[k])
  <2> TAKE k \in 1 .. Len(proposal)
  <2>1. k - 1 \in 0 .. Len(proposal)
    BY <1>3
  <2> QED BY <1>1, <1>3, <1>9, <2>1 DEF Runs
<1> QED BY <1>2, <1>3, <1>9, <1>10 DEF D, Runs

-------------------------------------------------------------------------------
(* The AI assistance: the check of the host, which does the same.            *)

\* The host's check adds rules, or repairs.
LEMMA MergeTyped ==
  ASSUME NEW G, NEW d \in [G -> Seq(HostRule)], NEW rule \in ProposedRule(G)
  PROVE  Assist!Merged(d, rule) \in [G -> Seq(HostRule)]
<1> DEFINE new == [id |-> None, good |-> rule.good, from |-> 0]
<1>1. rule.group \in G /\ new \in HostRule
  BY DEF ProposedRule, HostRule
<1>2. Assist!Merged(d, rule) = [d EXCEPT ![rule.group] = Append(d[rule.group], new)]
  BY <1>1 DEF Assist!Merged
<1> HIDE DEF new
<1> QED BY <1>1, <1>2

\* A rule of the host changes, and keeps its form.
LEMMA PutTyped ==
  ASSUME NEW S, NEW s \in Seq(S), NEW i, NEW e, i \in DOMAIN s => e \in S
  PROVE  [s EXCEPT ![i] = e] \in Seq(S)
<1>1. CASE i \in DOMAIN s
  BY <1>1
<1>2. CASE i \notin DOMAIN s
  <2>1. [s EXCEPT ![i] = e] = s
    BY <1>2
  <2> QED BY <2>1
<1> QED BY <1>1, <1>2

\* The repair by position keeps the form of the project and of its queues.
LEMMA RepairTyped ==
  ASSUME NEW G, NEW acc \in Repairing(G), NEW rule \in ProposedRule(G)
  PROVE  Assist!RepairOne(acc, rule) \in Repairing(G)
<1> DEFINE g == rule.group
           next == Assist!RepairOne(acc, rule)
<1>1. /\ g \in G /\ acc.d \in [G -> Seq(HostRule)] /\ acc.queues \in [G -> Seq(Nat)]
      /\ acc = [d |-> acc.d, queues |-> acc.queues] /\ rule.good \in BOOLEAN
  BY DEF Repairing, ProposedRule
<1>2. CASE ~rule.whole \/ g = None
  BY <1>2 DEF Assist!RepairOne
<1>3. CASE ~(~rule.whole \/ g = None) /\ acc.queues[g] = <<>>
  <2>1. Assist!Merged(acc.d, rule) \in [G -> Seq(HostRule)]
    BY <1>1, MergeTyped
  <2>2. next = [acc EXCEPT !.d = Assist!Merged(acc.d, rule)]
    BY <1>3 DEF Assist!RepairOne
  <2>3. next = [d |-> Assist!Merged(acc.d, rule), queues |-> acc.queues]
    BY <1>1, <2>2
  <2> QED BY <1>1, <2>1, <2>3 DEF Repairing
<1>4. CASE ~(~rule.whole \/ g = None) /\ acc.queues[g] # <<>>
  <2> DEFINE q == acc.queues[g]
             i == Head(q)
             d == [acc.d EXCEPT ![g] = [acc.d[g] EXCEPT ![i] = [acc.d[g][i] EXCEPT !.good = rule.good]]]
             queues == [acc.queues EXCEPT ![g] = Tail(q)]
  <2>1. next = [d |-> d, queues |-> queues]
    BY <1>4 DEF Assist!RepairOne
  <2>2. q \in Seq(Nat) /\ q # <<>> /\ acc.d[g] \in Seq(HostRule)
    BY <1>1, <1>4
  <2>3. queues \in [G -> Seq(Nat)]
    <3>1. Tail(q) \in Seq(Nat)
      BY <2>2
    <3> QED BY <1>1, <3>1
  <2>4. [acc.d[g] EXCEPT ![i] = [acc.d[g][i] EXCEPT !.good = rule.good]] \in Seq(HostRule)
    <3> DEFINE s == acc.d[g]
               new == [s[i] EXCEPT !.good = rule.good]
    <3>1. i \in DOMAIN s => s[i] \in HostRule
      BY <2>2
    <3>2. i \in DOMAIN s => new \in HostRule
      BY <1>1, <3>1 DEF HostRule
    <3>3. s \in Seq(HostRule)
      BY <2>2
    <3> HIDE DEF s, new, i
    <3>4. [s EXCEPT ![i] = new] \in Seq(HostRule)
      BY <3>2, <3>3, PutTyped
    <3> QED BY <3>4 DEF s, new
  <2>5. d \in [G -> Seq(HostRule)]
    BY <1>1, <2>4
  <2> HIDE DEF d, queues
  <2> QED BY <2>1, <2>3, <2>5 DEF Repairing
<1> QED BY <1>2, <1>3, <1>4

\* The projects of a host, and what it makes of one with all rules of a proposal.
HostProjects(G) == [G -> Seq(HostRule)]
MergedAll(base, proposal) == Assist!FoldLeft(Assist!Merged, base, proposal)
RepairedAll(base, proposal) == Assist!FoldLeft(Assist!RepairOne, base, proposal)

\* The host merges the rules of a proposal one after the other.
LEMMA MergeRun ==
  ASSUME NEW G, NEW base \in HostProjects(G), NEW proposal \in Seq(ProposedRule(G))
  PROVE  \E run \in [0 .. Len(proposal) -> HostProjects(G)] :
           /\ run[0] = base /\ run[Len(proposal)] = MergedAll(base, proposal)
           /\ \A k \in 1 .. Len(proposal) : run[k] = Assist!Merged(run[k - 1], proposal[k])
<1> DEFINE D == HostProjects(G)
           R == ProposedRule(G)
           step == [p \in D \X R |-> Assist!Merged(p[1], p[2])]
           last(s) == Assist!Max(s)
           Fold(f) == [s \in SUBSET (DOMAIN proposal) |->
                         IF s = {} THEN base
                         ELSE Assist!Merged(f[s \ {last(s)}], proposal[last(s)])]
           fold == CHOOSE f : f = Fold(f)
<1>1. step \in [D \X R -> D] /\ \A a \in D, r \in R : step[<<a, r>>] = Assist!Merged(a, r)
  <2>1. \A p \in D \X R : Assist!Merged(p[1], p[2]) \in D
    BY MergeTyped DEF HostProjects
  <2> HIDE DEF D, R
  <2> QED BY <2>1
<1>2. MergedAll(base, proposal) = fold[DOMAIN proposal]
  BY DEF MergedAll, Assist!FoldLeft, Assist!MapThenFoldSet
<1>3. DOMAIN proposal = 1 .. Len(proposal) /\ Len(proposal) \in Nat
        /\ \A i \in 1 .. Len(proposal) : proposal[i] \in R
  OBVIOUS
<1>4. \A s \in SUBSET (1 .. Len(proposal)) : s # {} => last(s) \in 1 .. Len(proposal)
        /\ s \ {last(s)} \in SUBSET (1 .. Len(proposal))
  BY <1>3, LastOfSet
<1> HIDE DEF step, D, R, last
<1>5. \E f : f = Fold(f)
  <2>1. PICK f : FoldsBy(f, D, step, base, proposal)
    BY <1>1, FoldExists DEF D, R
  <2>2. \A s \in SUBSET (1 .. Len(proposal)) :
          s # {} => step[<<f[s \ {last(s)}], proposal[last(s)]>>]
                      = Assist!Merged(f[s \ {last(s)}], proposal[last(s)])
    BY <1>1, <1>3, <1>4, <2>1 DEF FoldsBy
  <2>3. f = Fold(f)
    BY <1>3, <2>1, <2>2 DEF FoldsBy, last
  <2> QED BY <2>3
<1>6. fold = Fold(fold)
  BY <1>5
<1> HIDE DEF fold
<1>7. fold[{}] = base
  BY <1>6
<1>8. \A s \in SUBSET (1 .. Len(proposal)) :
        s # {} /\ fold[s \ {last(s)}] \in D
          => fold[s] = step[<<fold[s \ {last(s)}], proposal[last(s)]>>]
  <2> TAKE s \in SUBSET (1 .. Len(proposal))
  <2> HAVE s # {} /\ fold[s \ {last(s)}] \in D
  <2>1. fold[s] = Assist!Merged(fold[s \ {last(s)}], proposal[last(s)])
    BY <1>3, <1>6
  <2> QED BY <1>1, <1>3, <1>4, <2>1
<1>9. PICK run : Runs(run, D, step, base, proposal, fold[1 .. Len(proposal)])
  <2>1. OpenTo(fold, D, step, base, proposal)
    BY <1>7, <1>8 DEF OpenTo, last
  <2> QED BY <1>1, <2>1, FoldRun DEF D, R
<1>10. \A k \in 1 .. Len(proposal) : run[k] = Assist!Merged(run[k - 1], proposal[k])
  <2> TAKE k \in 1 .. Len(proposal)
  <2>1. k - 1 \in 0 .. Len(proposal)
    BY <1>3
  <2> QED BY <1>1, <1>3, <1>9, <2>1 DEF Runs
<1> QED BY <1>2, <1>3, <1>9, <1>10 DEF D, Runs

\* The host repairs with the rules of a proposal one after the other.
LEMMA RepairRun ==
  ASSUME NEW G, NEW base \in Repairing(G), NEW proposal \in Seq(ProposedRule(G))
  PROVE  \E run \in [0 .. Len(proposal) -> Repairing(G)] :
           /\ run[0] = base /\ run[Len(proposal)] = RepairedAll(base, proposal)
           /\ \A k \in 1 .. Len(proposal) : run[k] = Assist!RepairOne(run[k - 1], proposal[k])
<1> DEFINE D == Repairing(G)
           R == ProposedRule(G)
           step == [p \in D \X R |-> Assist!RepairOne(p[1], p[2])]
           last(s) == Assist!Max(s)
           Fold(f) == [s \in SUBSET (DOMAIN proposal) |->
                         IF s = {} THEN base
                         ELSE Assist!RepairOne(f[s \ {last(s)}], proposal[last(s)])]
           fold == CHOOSE f : f = Fold(f)
<1>1. step \in [D \X R -> D] /\ \A a \in D, r \in R : step[<<a, r>>] = Assist!RepairOne(a, r)
  <2>1. \A p \in D \X R : Assist!RepairOne(p[1], p[2]) \in D
    BY RepairTyped
  <2> HIDE DEF D, R
  <2> QED BY <2>1
<1>2. RepairedAll(base, proposal) = fold[DOMAIN proposal]
  BY DEF RepairedAll, Assist!FoldLeft, Assist!MapThenFoldSet
<1>3. DOMAIN proposal = 1 .. Len(proposal) /\ Len(proposal) \in Nat
        /\ \A i \in 1 .. Len(proposal) : proposal[i] \in R
  OBVIOUS
<1>4. \A s \in SUBSET (1 .. Len(proposal)) : s # {} => last(s) \in 1 .. Len(proposal)
        /\ s \ {last(s)} \in SUBSET (1 .. Len(proposal))
  BY <1>3, LastOfSet
<1> HIDE DEF step, D, R, last
<1>5. \E f : f = Fold(f)
  <2>1. PICK f : FoldsBy(f, D, step, base, proposal)
    BY <1>1, FoldExists DEF D, R
  <2>2. \A s \in SUBSET (1 .. Len(proposal)) :
          s # {} => step[<<f[s \ {last(s)}], proposal[last(s)]>>]
                      = Assist!RepairOne(f[s \ {last(s)}], proposal[last(s)])
    BY <1>1, <1>3, <1>4, <2>1 DEF FoldsBy
  <2>3. f = Fold(f)
    BY <1>3, <2>1, <2>2 DEF FoldsBy, last
  <2> QED BY <2>3
<1>6. fold = Fold(fold)
  BY <1>5
<1> HIDE DEF fold
<1>7. fold[{}] = base
  BY <1>6
<1>8. \A s \in SUBSET (1 .. Len(proposal)) :
        s # {} /\ fold[s \ {last(s)}] \in D
          => fold[s] = step[<<fold[s \ {last(s)}], proposal[last(s)]>>]
  <2> TAKE s \in SUBSET (1 .. Len(proposal))
  <2> HAVE s # {} /\ fold[s \ {last(s)}] \in D
  <2>1. fold[s] = Assist!RepairOne(fold[s \ {last(s)}], proposal[last(s)])
    BY <1>3, <1>6
  <2> QED BY <1>1, <1>3, <1>4, <2>1
<1>9. PICK run : Runs(run, D, step, base, proposal, fold[1 .. Len(proposal)])
  <2>1. OpenTo(fold, D, step, base, proposal)
    BY <1>7, <1>8 DEF OpenTo, last
  <2> QED BY <1>1, <2>1, FoldRun DEF D, R
<1>10. \A k \in 1 .. Len(proposal) : run[k] = Assist!RepairOne(run[k - 1], proposal[k])
  <2> TAKE k \in 1 .. Len(proposal)
  <2>1. k - 1 \in 0 .. Len(proposal)
    BY <1>3
  <2> QED BY <1>1, <1>3, <1>9, <2>1 DEF Runs
<1> QED BY <1>2, <1>3, <1>9, <1>10 DEF D, Runs

\* The flagged places of a group are places of it.
LEMMA FlaggedPlaces ==
  ASSUME NEW d, NEW g \in DOMAIN d, NEW S, d[g] \in Seq(S)
  PROVE  Assist!Flagged(d)[g] \in Seq(DOMAIN d[g])
<1> DEFINE s == d[g]
           places == [i \in DOMAIN s |-> i]
           R == DOMAIN s
           D == Seq(R)
           push(a, i) == IF s[i].good THEN a ELSE Append(a, i)
           step == [p \in D \X R |-> push(p[1], p[2])]
           last(t) == Assist!Max(t)
           Fold(f) == [t \in SUBSET (DOMAIN places) |->
                         IF t = {} THEN <<>> ELSE push(f[t \ {last(t)}], places[last(t)])]
           fold == CHOOSE f : f = Fold(f)
<1>1. step \in [D \X R -> D] /\ \A a \in D, i \in R : step[<<a, i>>] = push(a, i)
  <2>1. \A a \in D, i \in R : push(a, i) \in D
    <3> HIDE DEF R
    <3> QED OBVIOUS
  <2>2. \A p \in D \X R : push(p[1], p[2]) \in D
    <3> HIDE DEF D, R, push
    <3> QED BY <2>1
  <2> HIDE DEF D, R, push
  <2> QED BY <2>2
<1>2. Assist!Flagged(d)[g] = fold[DOMAIN places]
  BY DEF Assist!Flagged, Assist!FoldLeftDomain, Assist!FoldLeft, Assist!MapThenFoldSet
<1>3. /\ places \in Seq(R) /\ Len(places) \in Nat /\ R = 1 .. Len(places) /\ DOMAIN places = R
      /\ \A i \in 1 .. Len(places) : places[i] \in R
  OBVIOUS
<1>4. \A t \in SUBSET (1 .. Len(places)) : t # {} => last(t) \in 1 .. Len(places)
        /\ t \ {last(t)} \in SUBSET (1 .. Len(places))
  <2> HIDE DEF places
  <2> QED BY <1>3, LastOfSet
<1>5. <<>> \in D
  OBVIOUS
<1> HIDE DEF step, D, R, last, push, places, s
<1>6. \E f : f = Fold(f)
  <2>1. PICK f : FoldsBy(f, D, step, <<>>, places)
    BY <1>1, <1>3, <1>5, FoldExists
  <2>2. \A t \in SUBSET (1 .. Len(places)) :
          t # {} => step[<<f[t \ {last(t)}], places[last(t)]>>] 
                         = push(f[t \ {last(t)}], places[last(t)])
    BY <1>1, <1>3, <1>4, <2>1 DEF FoldsBy
  <2>3. f = Fold(f)
    BY <1>3, <2>1, <2>2 DEF FoldsBy, last
  <2> QED BY <2>3
<1>7. fold = Fold(fold)
  BY <1>6
<1> HIDE DEF fold
<1>8. OpenTo(fold, D, step, <<>>, places)
  <2>1. fold[{}] = <<>>
    BY <1>7
  <2>2. \A t \in SUBSET (1 .. Len(places)) :
          t # {} /\ fold[t \ {last(t)}] \in D
            => fold[t] = step[<<fold[t \ {last(t)}], places[last(t)]>>]
    <3> TAKE t \in SUBSET (1 .. Len(places))
    <3> HAVE t # {} /\ fold[t \ {last(t)}] \in D
    <3>1. fold[t] = push(fold[t \ {last(t)}], places[last(t)])
      BY <1>3, <1>7
    <3> QED BY <1>1, <1>3, <1>4, <3>1
  <2> QED BY <2>1, <2>2 DEF OpenTo, last
<1>9. PICK run : Runs(run, D, step, <<>>, places, fold[1 .. Len(places)])
  BY <1>1, <1>3, <1>5, <1>8, FoldRun
<1>10. run[Len(places)] \in D /\ run[Len(places)] = fold[DOMAIN places]
  <2>1. Len(places) \in 0 .. Len(places) /\ DOMAIN places = 1 .. Len(places)
    BY <1>3
  <2> QED BY <1>9, <2>1 DEF Runs
<1> QED BY <1>2, <1>10 DEF D, R, s

\* The host's project and the editor's draft have the same errors, and the places
\* that are left to repair are those of the ids that are left.
SameErrors(G, d, e) ==
  \A g \in G : Len(d[g]) = Len(e[g]) /\ \A i \in 1 .. Len(d[g]) : d[g][i].good = e[g][i].good
SameTargets(G, queues, repairs, e) ==
  \A g \in G :
    /\ Len(queues[g]) = Len(repairs[g])
    /\ \A j \in 1 .. Len(queues[g]) :
         queues[g][j] \in DOMAIN e[g] /\ repairs[g][j] = e[g][queues[g][j]].id

\* e has the rules of d, and perhaps more at the end.
Extends(G, e, d) == \A g \in G : \A i \in DOMAIN d[g] : i \in DOMAIN e[g] /\ e[g][i] = d[g][i]

\* Adding a rule on both sides keeps the errors alike.
LEMMA MergeAgrees ==
  ASSUME NEW G, NEW d \in [G -> Seq(HostRule)], NEW acc \in Applying(G),
         NEW rule \in ProposedRule(G),
         SameErrors(G, d, acc.d)
  PROVE  /\ SameErrors(G, Assist!Merged(d, rule), Appended(acc, rule))
         /\ Extends(G, Appended(acc, rule), acc.d)
<1> DEFINE f == Assist!Merged(d, rule)
           e == Appended(acc, rule)
           h == rule.group
           one == [id |-> None, good |-> rule.good, from |-> 0]
           two == [id |-> acc.fresh, good |-> rule.good, from |-> acc.from]
<1>1. h \in G /\ acc.d \in [G -> Seq(DraftRule)] /\ one.good = two.good
  BY DEF ProposedRule, Applying, Drafted
<1>2. /\ f = [d EXCEPT ![h] = Append(d[h], one)]
      /\ e = [acc.d EXCEPT ![h] = Append(acc.d[h], two)]
  BY <1>1 DEF Assist!Merged, Appended
<1> HIDE DEF one, two, h, f, e
<1>3. \A g \in G : g # h => f[g] = d[g] /\ e[g] = acc.d[g]
  BY <1>1, <1>2
<1>4. f[h] = Append(d[h], one) /\ e[h] = Append(acc.d[h], two)
  BY <1>1, <1>2
<1>5. /\ d[h] \in Seq(HostRule) /\ acc.d[h] \in Seq(DraftRule) /\ Len(d[h]) = Len(acc.d[h])
      /\ \A i \in 1 .. Len(d[h]) : d[h][i].good = acc.d[h][i].good
  BY <1>1 DEF SameErrors
<1>6. /\ Len(f[h]) = Len(e[h]) /\ Len(f[h]) = Len(d[h]) + 1
      /\ \A i \in 1 .. Len(d[h]) : f[h][i] = d[h][i] /\ e[h][i] = acc.d[h][i]
      /\ f[h][Len(d[h]) + 1] = one /\ e[h][Len(d[h]) + 1] = two
      /\ Len(d[h]) \in Nat /\ DOMAIN e[h] = 1 .. Len(d[h]) + 1 /\ DOMAIN acc.d[h] = 1 .. Len(d[h])
  BY <1>4, <1>5
<1>7. Len(f[h]) = Len(e[h]) /\ \A i \in 1 .. Len(f[h]) : f[h][i].good = e[h][i].good
  <2> SUFFICES ASSUME NEW i \in 1 .. Len(f[h]) PROVE f[h][i].good = e[h][i].good
    BY <1>6
  <2>1. i \in 1 .. Len(d[h]) \/ i = Len(d[h]) + 1
    BY <1>6
  <2> QED BY <1>1, <1>5, <1>6, <2>1
<1>8. SameErrors(G, f, e)
  BY <1>3, <1>7, ZenonT(30) DEF SameErrors
<1>9. \A i \in DOMAIN acc.d[h] : i \in DOMAIN e[h] /\ e[h][i] = acc.d[h][i]
  BY <1>6
<1> QED BY <1>3, <1>8, <1>9 DEF f, e, Extends

\* Without a target left the editor adds the rule, as the host does.
LEMMA AddsAlike ==
  ASSUME NEW G, NEW d \in HostProjects(G), NEW acc \in Applying(G), NEW rule \in ProposedRule(G),
         SameErrors(G, d, acc.d), acc.repairs[rule.group] = <<>>
  PROVE  /\ SameErrors(G, Assist!Merged(d, rule), Assist!ApplyOne(acc, rule).d)
         /\ Extends(G, Assist!ApplyOne(acc, rule).d, acc.d)
         /\ Assist!ApplyOne(acc, rule).repairs = acc.repairs
<1>1. DOMAIN acc = {"d", "fresh", "repairs", "from"}
  BY DEF Applying
<1>2. Assist!Live(acc.d, rule.group, acc.repairs[rule.group]) = 0
  <2>1. acc.repairs[rule.group] \in Seq(Nat)
    OBVIOUS
  <2> QED BY <2>1, LiveFound
<1>3. Assist!ApplyOne(acc, rule) = [acc EXCEPT !.d = Appended(acc, rule), !.fresh = acc.fresh + 1]
  BY <1>2, ApplyAppends, ZenonT(30)
<1>4. Assist!ApplyOne(acc, rule).d = Appended(acc, rule)
        /\ Assist!ApplyOne(acc, rule).repairs = acc.repairs
  BY <1>1, <1>3
<1>5. /\ SameErrors(G, Assist!Merged(d, rule), Appended(acc, rule))
      /\ Extends(G, Appended(acc, rule), acc.d)
  BY MergeAgrees DEF HostProjects
<1> QED BY <1>4, <1>5

\* One rule of a proposal repairs alike by position and by id.
LEMMA RepairAgrees ==
  ASSUME NEW G, NEW of \in Repairing(G), NEW acc \in Applying(G), NEW rule \in ProposedRule(G),
         rule.whole, rule.group # None,
         SameErrors(G, of.d, acc.d), SameTargets(G, of.queues, acc.repairs, acc.d),
         NEW on, NEW next, on = Assist!RepairOne(of, rule), next = Assist!ApplyOne(acc, rule)
  PROVE  SameErrors(G, on.d, next.d) /\ SameTargets(G, on.queues, next.repairs, next.d)
<1> DEFINE h == rule.group
           q == of.queues[h]
           ids == acc.repairs[h]
<1>1. /\ h \in G /\ of.d \in [G -> Seq(HostRule)] /\ of.queues \in [G -> Seq(Nat)]
      /\ acc.d \in [G -> Seq(DraftRule)] /\ acc.repairs \in [G -> Seq(Nat)]
      /\ DOMAIN of = {"d", "queues"} /\ DOMAIN acc = {"d", "fresh", "repairs", "from"}
  BY DEF ProposedRule, Applying, Drafted, Repairing
<1>2. q \in Seq(Nat) /\ ids \in Seq(Nat) /\ Len(q) = Len(ids) /\ acc.d[h] \in Seq(DraftRule)
      /\ of.d[h] \in Seq(HostRule)
  BY <1>1 DEF SameTargets
<1>3. CASE q = <<>>
  <2>1. on = [of EXCEPT !.d = Assist!Merged(of.d, rule)]
    BY <1>3 DEF Assist!RepairOne
  <2>2. ids = <<>>
    BY <1>2, <1>3
  <2>3. on.d = Assist!Merged(of.d, rule) /\ on.queues = of.queues
    BY <1>1, <2>1
  <2>4. /\ SameErrors(G, Assist!Merged(of.d, rule), next.d) /\ Extends(G, next.d, acc.d)
        /\ next.repairs = acc.repairs
    <3>1. acc.repairs[rule.group] = <<>>
      BY <2>2
    <3>2. of.d \in HostProjects(G)
      BY <1>1 DEF HostProjects
    <3>3. /\ SameErrors(G, Assist!Merged(of.d, rule), Assist!ApplyOne(acc, rule).d)
          /\ Extends(G, Assist!ApplyOne(acc, rule).d, acc.d)
          /\ Assist!ApplyOne(acc, rule).repairs = acc.repairs
      BY <3>1, <3>2, AddsAlike
    <3> QED BY <3>3
  <2>5. SameErrors(G, on.d, next.d)
    BY <2>3, <2>4
  <2>6. SameTargets(G, on.queues, next.repairs, next.d)
    <3> SUFFICES ASSUME NEW g \in G
                 PROVE  /\ Len(on.queues[g]) = Len(next.repairs[g])
                        /\ \A j \in 1 .. Len(on.queues[g]) :
                             /\ on.queues[g][j] \in DOMAIN next.d[g]
                             /\ next.repairs[g][j] = next.d[g][on.queues[g][j]].id
      BY DEF SameTargets
    <3>1. /\ Len(of.queues[g]) = Len(acc.repairs[g])
          /\ \A j \in 1 .. Len(of.queues[g]) :
               /\ of.queues[g][j] \in DOMAIN acc.d[g]
               /\ acc.repairs[g][j] = acc.d[g][of.queues[g][j]].id
      BY DEF SameTargets
    <3> QED BY <2>3, <2>4, <3>1 DEF Extends
  <2> QED BY <2>5, <2>6
<1>4. CASE q # <<>>
  <2> DEFINE i == Head(q)
  <2>1. on = [d |-> [of.d EXCEPT ![h][i].good = rule.good],
              queues |-> [of.queues EXCEPT ![h] = Tail(q)]]
    BY <1>1, <1>4 DEF Assist!RepairOne
  <2>2. /\ i = q[1] /\ 1 \in 1 .. Len(q) /\ ids # <<>> /\ Tail(q) \in Seq(Nat)
        /\ Len(Tail(q)) = Len(q) - 1 /\ \A j \in 1 .. (Len(q) - 1) : Tail(q)[j] = q[j + 1]
    BY <1>2, <1>4
  <2>3. i \in DOMAIN acc.d[h] /\ ids[1] = acc.d[h][i].id
    BY <1>1, <2>2 DEF SameTargets
  <2>4. Assist!IndexOf(acc.d, h, ids[1]) # 0
    <3>1. Assist!IndexOf(acc.d, h, acc.d[h][i].id) # 0
      BY <1>1, <2>3, IdFound
    <3> QED BY <2>3, <3>1
  <2>5. Assist!Live(acc.d, h, ids) = 1
    BY <1>2, <2>2, <2>4, LiveFound
  <2>6. PICK k \in DOMAIN acc.d[h] :
          /\ acc.d[h][k].id = ids[1]
          /\ next = [acc EXCEPT !.d = Replaced(acc, rule, ids[1], k),
               !.repairs = WithoutTarget(acc, h, 1)]
    <3>1. Repairs(acc, rule)
      BY <2>5, ApplyReplaces
    <3> QED BY <2>5, <3>1 DEF Repairs
  <2>7. k = i
    <3>1. Assist!IdsTold(acc.d, acc.fresh)
      BY DEF Applying, Drafted
    <3>2. \A a, b \in DOMAIN acc.d[h] : acc.d[h][a].id = acc.d[h][b].id => a = b
      BY <1>1, <3>1 DEF Assist!IdsTold
    <3> QED BY <2>3, <2>6, <3>2
  <2> DEFINE one == [of.d[h][i] EXCEPT !.good = rule.good]
             two == [id |-> ids[1], good |-> rule.good, from |-> acc.from]
  <2>8. /\ on.d = [of.d EXCEPT ![h] = [of.d[h] EXCEPT ![i] = one]]
        /\ on.queues = [of.queues EXCEPT ![h] = Tail(q)]
        /\ next.d = [acc.d EXCEPT ![h] = [acc.d[h] EXCEPT ![i] = two]]
        /\ next.repairs = [acc.repairs EXCEPT ![h] = Assist!RemoveAt(ids, 1)]
    BY <1>1, <2>1, <2>6, <2>7, SMTT(60) DEF Replaced, WithoutTarget
  <2>9. DOMAIN acc.d[h] = 1 .. Len(acc.d[h]) /\ Len(acc.d[h]) = Len(of.d[h])
        /\ DOMAIN of.d[h] = 1 .. Len(of.d[h])
    BY <1>1, <1>2 DEF SameErrors
  <2>10. one.good = two.good /\ two.id = acc.d[h][i].id
    <3>1. of.d[h][i] \in HostRule
      BY <1>2, <2>3, <2>9
    <3> QED BY <2>3, <3>1 DEF HostRule
  <2> HIDE DEF one, two, i, h, q, ids
  <2>11. SameErrors(G, on.d, next.d)
    <3> SUFFICES ASSUME NEW g \in G
                 PROVE  /\ Len(on.d[g]) = Len(next.d[g])
                        /\ \A j \in 1 .. Len(on.d[g]) : on.d[g][j].good = next.d[g][j].good
      BY DEF SameErrors
    <3>1. /\ Len(of.d[g]) = Len(acc.d[g])
          /\ \A j \in 1 .. Len(of.d[g]) : of.d[g][j].good = acc.d[g][j].good
      BY DEF SameErrors
    <3>2. CASE g = h
      <4>1. on.d[g] = [of.d[h] EXCEPT ![i] = one] /\ next.d[g] = [acc.d[h] EXCEPT ![i] = two]
        <5>1. h \in DOMAIN of.d /\ h \in DOMAIN acc.d
          BY <1>1
        <5>2. on.d[h] = [of.d[h] EXCEPT ![i] = one]
          BY <2>8, <5>1
        <5>3. next.d[h] = [acc.d[h] EXCEPT ![i] = two]
          BY <2>8, <5>1
        <5> QED BY <3>2, <5>2, <5>3
      <4>2. Len(on.d[g]) = Len(of.d[h]) /\ Len(next.d[g]) = Len(acc.d[h])
        BY <1>2, <4>1
      <4>3. \A j \in 1 .. Len(of.d[h]) : on.d[g][j].good = next.d[g][j].good
        BY <1>2, <2>9, <2>10, <3>1, <3>2, <4>1
      <4> QED BY <2>9, <4>2, <4>3
    <3>3. CASE g # h
      BY <1>1, <2>8, <3>1, <3>3
    <3> QED BY <3>2, <3>3
  <2>12. \A g \in G : /\ DOMAIN next.d[g] = DOMAIN acc.d[g]
                      /\ \A j \in DOMAIN acc.d[g] : next.d[g][j].id = acc.d[g][j].id
    BY <1>1, <2>8, <2>10
  <2>13. SameTargets(G, on.queues, next.repairs, next.d)
    <3> SUFFICES ASSUME NEW g \in G
                 PROVE  /\ Len(on.queues[g]) = Len(next.repairs[g])
                        /\ \A j \in 1 .. Len(on.queues[g]) :
                             /\ on.queues[g][j] \in DOMAIN next.d[g]
                             /\ next.repairs[g][j] = next.d[g][on.queues[g][j]].id
      BY DEF SameTargets
    <3>1. /\ Len(of.queues[g]) = Len(acc.repairs[g])
          /\ \A j \in 1 .. Len(of.queues[g]) :
               /\ of.queues[g][j] \in DOMAIN acc.d[g]
               /\ acc.repairs[g][j] = acc.d[g][of.queues[g][j]].id
      BY DEF SameTargets
    <3>2. CASE g = h
      <4>1. on.queues[g] = Tail(q) /\ next.repairs[g] = Assist!RemoveAt(ids, 1)
        BY <1>1, <2>8, <3>2
      <4>2. /\ Len(Assist!RemoveAt(ids, 1)) = Len(ids) - 1
            /\ \A j \in 1 .. (Len(ids) - 1) : Assist!RemoveAt(ids, 1)[j] = ids[j + 1]
        <5>1. 1 \in 1 .. Len(ids)
          BY <1>2, <2>2
        <5>2. \A j \in 1 .. (Len(ids) - 1) : ~(j < 1)
          OBVIOUS
        <5> QED BY <1>2, <5>1, <5>2, RemoveTyped
      <4>3. \A j \in 1 .. (Len(q) - 1) : j + 1 \in 1 .. Len(q)
        BY <1>2
      <4>4. q = of.queues[g] /\ ids = acc.repairs[g]
        BY <3>2 DEF q, ids
      <4>5. \A j \in 1 .. (Len(q) - 1) :
              q[j + 1] \in DOMAIN acc.d[g] /\ ids[j + 1] = acc.d[g][q[j + 1]].id
        BY <3>1, <4>3, <4>4
      <4>6. /\ Len(on.queues[g]) = Len(q) - 1 /\ Len(next.repairs[g]) = Len(q) - 1
            /\ \A j \in 1 .. (Len(q) - 1) : on.queues[g][j] = q[j + 1]
                 /\ next.repairs[g][j] = ids[j + 1]
        BY <1>2, <2>2, <4>1, <4>2
      <4> QED BY <2>12, <4>5, <4>6, SMTT(30)
    <3>3. CASE g # h
      <4>1. on.queues[g] = of.queues[g] /\ next.repairs[g] = acc.repairs[g]
        BY <1>1, <2>8, <3>3
      <4> QED BY <2>12, <3>1, <4>1
    <3> QED BY <3>2, <3>3
  <2> QED BY <2>11, <2>13
<1> QED BY <1>3, <1>4

\* A request as Send makes it of a draft, with ids below next.
Requested(G, req, next) ==
  /\ Drafted(G, req.base, next) /\ req.serial \in Nat
  /\ req.fix = ~Assist!Valid(req.base)
  /\ LET flagged == Assist!Flagged(req.base)
     IN  req.targets = [g \in G |-> IF req.fix
                                    THEN [i \in DOMAIN flagged[g] |-> req.base[g][flagged[g][i]].id]
                                    ELSE <<>>]

\* The targets of a request are the ids at the flagged places, none without an error.
LEMMA TargetsTyped ==
  ASSUME NEW G, NEW req, NEW next \in Nat, Requested(G, req, next)
  PROVE  /\ req.targets \in [G -> Seq(Nat)]
         /\ Assist!Flagged(req.base) \in [G -> Seq(Nat)]
         /\ req.fix => SameTargets(G, Assist!Flagged(req.base), req.targets, req.base)
         /\ ~req.fix => \A g \in G : req.targets[g] = <<>>
<1> DEFINE base == req.base
           flagged == Assist!Flagged(base)
<1>1. base \in [G -> Seq(DraftRule)]
  BY DEF Requested, Drafted
<1>2. \A g \in G : flagged[g] \in Seq(DOMAIN base[g])
  BY <1>1, FlaggedPlaces
<1>3. flagged = [g \in G |-> flagged[g]]
  BY <1>1 DEF Assist!Flagged
<1>4. req.targets = [g \in G |-> IF req.fix THEN [i \in DOMAIN flagged[g] |-> base[g][flagged[g][i]].id]
                                 ELSE <<>>]
  BY DEF Requested
<1> HIDE DEF base, flagged
<1>5. ASSUME NEW g \in G
      PROVE  /\ flagged[g] \in Seq(Nat) /\ DOMAIN flagged[g] = 1 .. Len(flagged[g])
             /\ \A i \in DOMAIN flagged[g] : flagged[g][i] \in DOMAIN base[g]
                  /\ base[g][flagged[g][i]].id \in Nat
             /\ [i \in DOMAIN flagged[g] |-> base[g][flagged[g][i]].id] \in Seq(Nat)
  <2> DEFINE s == flagged[g]
             b == base[g]
  <2>1. s \in Seq(DOMAIN b) /\ b \in Seq(DraftRule)
    BY <1>1, <1>2
  <2>2. \A j \in DOMAIN b : j \in Nat /\ b[j].id \in Nat
    <3>1. \A j \in DOMAIN b : b[j] \in DraftRule
      BY <2>1
    <3>2. \A j \in DOMAIN b : j \in Nat
      <4> HIDE DEF b
      <4> QED BY <2>1
    <3> QED BY <3>1, <3>2 DEF DraftRule
  <2> HIDE DEF s, b
  <2>3. DOMAIN s = 1 .. Len(s) /\ Len(s) \in Nat /\ \A i \in DOMAIN s : s[i] \in DOMAIN b
    BY <2>1
  <2>4. \A i \in 1 .. Len(s) : s[i] \in Nat
    BY <2>2, <2>3
  <2>5. s \in Seq(Nat)
    BY <2>1, <2>3, <2>4
  <2>6. [i \in DOMAIN s |-> b[s[i]].id] \in Seq(Nat)
    BY <2>2, <2>3
  <2> QED BY <2>2, <2>3, <2>5, <2>6 DEF s, b
<1>6. req.targets \in [G -> Seq(Nat)]
  BY <1>4, <1>5
<1>7. flagged \in [G -> Seq(Nat)]
  <2> DEFINE f(g) == flagged[g]
  <2>1. \A g \in G : f(g) \in Seq(Nat)
    BY <1>5
  <2>2. flagged = [g \in G |-> f(g)]
    BY <1>3
  <2> HIDE DEF f
  <2> QED BY <2>1, <2>2
<1>8. ASSUME req.fix
      PROVE  SameTargets(G, flagged, req.targets, base)
  <2> SUFFICES ASSUME NEW g \in G
               PROVE  /\ Len(flagged[g]) = Len(req.targets[g])
                      /\ \A j \in 1 .. Len(flagged[g]) :
                           /\ flagged[g][j] \in DOMAIN base[g]
                           /\ req.targets[g][j] = base[g][flagged[g][j]].id
    BY DEF SameTargets
  <2>1. req.targets[g] = [i \in DOMAIN flagged[g] |-> base[g][flagged[g][i]].id]
    BY <1>4, <1>8
  <2>2. req.targets[g] \in Seq(Nat) /\ flagged[g] \in Seq(Nat)
          /\ DOMAIN req.targets[g] = DOMAIN flagged[g]
    BY <1>5, <2>1
  <2>3. Len(req.targets[g]) = Len(flagged[g])
    BY <2>2
  <2> QED BY <1>5, <2>1, <2>3
<1>9. ~req.fix => \A g \in G : req.targets[g] = <<>>
  BY <1>4
<1> QED BY <1>6, <1>7, <1>8, <1>9 DEF base, flagged

\* Without errors, and nothing in groups without an id.
LEMMA SameValid ==
  ASSUME NEW G, None \in G, NEW d \in [G -> Seq(HostRule)], NEW e \in [G -> Seq(DraftRule)],
         SameErrors(G, d, e), Assist!Valid(d)
  PROVE  Assist!Valid(e)
<1>1. e[None] = <<>>
  <2>1. d[None] = <<>> /\ Len(d[None]) = Len(e[None]) /\ e[None] \in Seq(DraftRule)
    BY DEF Assist!Valid, SameErrors
  <2> QED BY <2>1
<1>2. ASSUME NEW g \in G, NEW i \in DOMAIN e[g]
      PROVE  e[g][i].good
  <2>1. d[g] \in Seq(HostRule) /\ e[g] \in Seq(DraftRule) /\ Len(d[g]) = Len(e[g])
    BY DEF SameErrors
  <2>2. i \in 1 .. Len(d[g]) /\ i \in DOMAIN d[g]
    BY <1>2, <2>1
  <2>3. d[g][i].good = e[g][i].good
    BY <2>2 DEF SameErrors
  <2>4. d[g][i].good
    BY <2>2 DEF Assist!Valid
  <2> QED BY <2>3, <2>4
<1> QED BY <1>1, <1>2 DEF Assist!Valid

\* What the editor starts from when it applies the proposal to the draft it was
\* asked for.
StartOf(req, next) == [d |-> req.base, fresh |-> next, repairs |-> req.targets, from |-> req.serial]

\* What the editor starts from has the errors that the host starts from.
LEMMA StartTyped ==
  ASSUME NEW G, NEW req, NEW next \in Nat, Requested(G, req, next)
  PROVE  /\ StartOf(req, next) \in Applying(G)
         /\ req.base \in [G -> Seq(DraftRule)] /\ req.base \in [G -> Seq(HostRule)]
         /\ SameErrors(G, req.base, req.base)
<1>1. Drafted(G, req.base, next) /\ req.serial \in Nat /\ req.targets \in [G -> Seq(Nat)]
  BY TargetsTyped DEF Requested
<1>2. req.base \in [G -> Seq(DraftRule)]
  BY <1>1 DEF Drafted
<1>3. DraftRule \subseteq HostRule
  BY DEF DraftRule, HostRule
<1>4. \A g \in G : req.base[g] \in Seq(HostRule)
  <2> TAKE g \in G
  <2>1. req.base[g] \in Seq(DraftRule)
    BY <1>2
  <2> HIDE DEF DraftRule, HostRule
  <2> QED BY <1>3, <2>1
<1>5. req.base \in [G -> Seq(HostRule)]
  BY <1>2, <1>4
<1>6. SameErrors(G, req.base, req.base)
  BY DEF SameErrors
<1>7. StartOf(req, next) \in Applying(G)
  BY <1>1, <1>2 DEF Applying, StartOf, Drafted
<1> QED BY <1>2, <1>5, <1>6, <1>7

\* The repair by id in the editor leaves the errors that the repair by position
\* leaves in the host.
LEMMA RepairsAlike ==
  ASSUME NEW G, NEW req, NEW next \in Nat, Requested(G, req, next), req.fix,
         NEW proposal \in Seq(ProposedRule(G)),
         \A i \in DOMAIN proposal : proposal[i].whole /\ proposal[i].group # None
  PROVE  LET d == Assist!Repaired(req.base, proposal)
             e == AppliedAll(StartOf(req, next), proposal).d
         IN  SameErrors(G, d, e) /\ d \in [G -> Seq(HostRule)] /\ e \in [G -> Seq(DraftRule)]
<1> DEFINE N == Len(proposal)
           start == [d |-> req.base, queues |-> Assist!Flagged(req.base)]
<1>1. start \in Repairing(G)
  BY StartTyped, TargetsTyped DEF Repairing
<1>2. PICK host_run \in [0 .. N -> Repairing(G)] :
        /\ host_run[0] = start /\ host_run[N] = RepairedAll(start, proposal)
        /\ \A k \in 1 .. N : host_run[k] = Assist!RepairOne(host_run[k - 1], proposal[k])
  <2> HIDE DEF start
  <2> QED BY <1>1, RepairRun
<1>3. PICK run \in [0 .. N -> Applying(G)] :
        /\ run[0] = StartOf(req, next) /\ run[N] = AppliedAll(StartOf(req, next), proposal)
        /\ \A k \in 1 .. N : run[k] = Assist!ApplyOne(run[k - 1], proposal[k])
  BY StartTyped, ApplyRun
<1> DEFINE Alike(k) == /\ SameErrors(G, host_run[k].d, run[k].d)
                       /\ SameTargets(G, host_run[k].queues, run[k].repairs, run[k].d)
           T == {k \in 0 .. N : Alike(k)}
<1>4. N \in Nat /\ DOMAIN proposal = 1 .. N
  OBVIOUS
<1>5. Alike(0)
  <2>1. /\ host_run[0].d = req.base /\ run[0].d = req.base /\ run[0].repairs = req.targets
        /\ host_run[0].queues = Assist!Flagged(req.base)
    BY <1>2, <1>3 DEF StartOf
  <2>2. SameErrors(G, req.base, req.base)
    BY StartTyped
  <2>3. SameTargets(G, Assist!Flagged(req.base), req.targets, req.base)
    BY TargetsTyped
  <2> QED BY <2>1, <2>2, <2>3
<1>6. ASSUME NEW k \in 0 .. (N - 1), Alike(k)
      PROVE  Alike(k + 1)
  <2>1. k \in 0 .. N /\ k + 1 \in 1 .. N /\ (k + 1) - 1 = k
    BY <1>4
  <2>2. /\ proposal[k + 1] \in ProposedRule(G)
        /\ proposal[k + 1].whole /\ proposal[k + 1].group # None
    BY <1>4, <2>1
  <2>3. /\ host_run[k] \in Repairing(G) /\ run[k] \in Applying(G)
        /\ host_run[k + 1] = Assist!RepairOne(host_run[k], proposal[k + 1])
        /\ run[k + 1] = Assist!ApplyOne(run[k], proposal[k + 1])
    BY <1>2, <1>3, <2>1
  <2> QED BY <1>6, <2>2, <2>3, RepairAgrees
<1>7. Alike(N)
  <2>1. 0 \in T /\ \A k \in 0 .. (N - 1) : k \in T => k + 1 \in T
    <3> HIDE DEF Alike, N
    <3> QED BY <1>4, <1>5, <1>6
  <2>2. \A k \in 0 .. N : k \in T
    <3> HIDE DEF T, N
    <3> QED BY <1>4, <2>1, UpTo
  <2>3. N \in 0 .. N
    BY <1>4
  <2>4. N \in T
    <3> HIDE DEF T
    <3> QED BY <2>2, <2>3
  <2> QED BY <2>4
<1>8. /\ host_run[N] \in Repairing(G) /\ run[N] \in Applying(G)
      /\ Assist!Repaired(req.base, proposal) = host_run[N].d
      /\ AppliedAll(StartOf(req, next), proposal).d = run[N].d
  BY <1>2, <1>3, <1>4 DEF Assist!Repaired, RepairedAll
<1>9. host_run[N].d \in [G -> Seq(HostRule)] /\ run[N].d \in [G -> Seq(DraftRule)]
  BY <1>8 DEF Repairing, Applying, Drafted
<1> HIDE DEF N
<1> QED BY <1>7, <1>8, <1>9

\* Without errors to repair both only add.
LEMMA MergesAlike ==
  ASSUME NEW G, NEW req, NEW next \in Nat, Requested(G, req, next), ~req.fix,
         NEW proposal \in Seq(ProposedRule(G))
  PROVE  LET d == Assist!FoldLeft(Assist!Merged, req.base, proposal)
             e == AppliedAll(StartOf(req, next), proposal).d
         IN  SameErrors(G, d, e) /\ d \in [G -> Seq(HostRule)] /\ e \in [G -> Seq(DraftRule)]
<1> DEFINE N == Len(proposal)
<1>1. PICK host_run \in [0 .. N -> HostProjects(G)] :
        /\ host_run[0] = req.base /\ host_run[N] = MergedAll(req.base, proposal)
        /\ \A k \in 1 .. N : host_run[k] = Assist!Merged(host_run[k - 1], proposal[k])
  <2>1. req.base \in HostProjects(G)
    BY StartTyped DEF HostProjects
  <2> HIDE DEF N
  <2> QED BY <2>1, MergeRun DEF N
<1>2. PICK run \in [0 .. N -> Applying(G)] :
        /\ run[0] = StartOf(req, next) /\ run[N] = AppliedAll(StartOf(req, next), proposal)
        /\ \A k \in 1 .. N : run[k] = Assist!ApplyOne(run[k - 1], proposal[k])
  BY StartTyped, ApplyRun
<1> DEFINE Alike(k) == SameErrors(G, host_run[k], run[k].d) /\ \A g \in G : run[k].repairs[g] = <<>>
           T == {k \in 0 .. N : Alike(k)}
<1>3. N \in Nat /\ DOMAIN proposal = 1 .. N
  OBVIOUS
<1>4. Alike(0)
  <2>1. host_run[0] = req.base /\ run[0].d = req.base /\ run[0].repairs = req.targets
    BY <1>1, <1>2 DEF StartOf
  <2>2. SameErrors(G, req.base, req.base)
    BY StartTyped
  <2>3. \A g \in G : req.targets[g] = <<>>
    BY TargetsTyped
  <2> QED BY <2>1, <2>2, <2>3
<1>5. ASSUME NEW k \in 0 .. (N - 1), Alike(k)
      PROVE  Alike(k + 1)
  <2> DEFINE acc == run[k]
             rule == proposal[k + 1]
  <2>1. k \in 0 .. N /\ k + 1 \in 1 .. N /\ (k + 1) - 1 = k
    BY <1>3
  <2>2. /\ rule \in ProposedRule(G) /\ host_run[k] \in [G -> Seq(HostRule)] /\ acc \in Applying(G)
        /\ host_run[k + 1] = Assist!Merged(host_run[k], rule)
        /\ run[k + 1] = Assist!ApplyOne(acc, rule)
    BY <1>1, <1>2, <1>3, <2>1 DEF HostProjects
  <2>3. SameErrors(G, host_run[k], acc.d) /\ \A g \in G : acc.repairs[g] = <<>>
    BY <1>5
  <2> HIDE DEF acc, rule
  <2>4. acc.repairs[rule.group] = <<>>
    BY <2>2, <2>3 DEF ProposedRule
  <2>5. /\ SameErrors(G, Assist!Merged(host_run[k], rule), Assist!ApplyOne(acc, rule).d)
        /\ Assist!ApplyOne(acc, rule).repairs = acc.repairs
    BY <2>2, <2>3, <2>4, AddsAlike
  <2> QED BY <2>2, <2>3, <2>5
<1>6. Alike(N)
  <2>1. 0 \in T /\ \A k \in 0 .. (N - 1) : k \in T => k + 1 \in T
    <3> HIDE DEF Alike, N
    <3> QED BY <1>3, <1>4, <1>5
  <2>2. \A k \in 0 .. N : k \in T
    <3> HIDE DEF T, N
    <3> QED BY <1>3, <2>1, UpTo
  <2>3. N \in 0 .. N
    BY <1>3
  <2>4. N \in T
    <3> HIDE DEF T
    <3> QED BY <2>2, <2>3
  <2> QED BY <2>4
<1>7. /\ host_run[N] \in [G -> Seq(HostRule)] /\ run[N] \in Applying(G)
      /\ Assist!FoldLeft(Assist!Merged, req.base, proposal) = host_run[N]
      /\ AppliedAll(StartOf(req, next), proposal).d = run[N].d
  BY <1>1, <1>2, <1>3 DEF MergedAll, HostProjects
<1>8. run[N].d \in [G -> Seq(DraftRule)]
  BY <1>7 DEF Applying, Drafted
<1> HIDE DEF N
<1> QED BY <1>6, <1>7, <1>8

\* A proposal that the host found to leave no error leaves none in the draft.
LEMMA CheckedApplies ==
  ASSUME NEW G, None \in G, NEW req, NEW next \in Nat, Requested(G, req, next),
         NEW proposal \in Seq(ProposedRule(G)),
         \A i \in DOMAIN proposal : proposal[i].whole /\ proposal[i].group # None,
         Assist!Valid(Assist!Checked(req, proposal))
  PROVE  Assist!Valid(AppliedAll(StartOf(req, next), proposal).d)
<1>1. CASE req.fix
  <2>1. Assist!Checked(req, proposal) = Assist!Repaired(req.base, proposal)
    BY <1>1 DEF Assist!Checked
  <2> QED BY <1>1, <2>1, RepairsAlike, SameValid
<1>2. CASE ~req.fix
  <2>1. Assist!Checked(req, proposal) = Assist!FoldLeft(Assist!Merged, req.base, proposal)
    BY <1>2 DEF Assist!Checked
  <2> QED BY <1>2, <2>1, MergesAlike, SameValid
<1> QED BY <1>1, <1>2

-------------------------------------------------------------------------------
(* The AI assistance: from Send to Apply.                                    *)

\* What is known of the draft, of the request and of the proposals: they are of
\* the same groups, and a proposal left no error when the host checked it.
AssistInv ==
  LET G == DOMAIN draft
  IN  /\ Drafted(G, draft, freshId) /\ freshId \in Nat
      /\ None \in G /\ Fallback \in G /\ Answers \subseteq Seq(ProposedRule(G))
      /\ targets \in [G -> Seq(Nat)] /\ serial \in Nat
      /\ answer \in Seq(ProposedRule(G))
      /\ request # None => Requested(G, request, freshId)
      /\ \A offer \in offers :
           /\ Requested(G, offer.request, freshId) /\ offer.rules \in Seq(ProposedRule(G))
           /\ Assist!Valid(Assist!Checked(offer.request, offer.rules))

\* Requests stay requests when ids are given out.
LEMMA StillRequested ==
  ASSUME NEW G, NEW req, NEW next \in Nat, NEW later \in Nat, next <= later, Requested(G, req, next)
  PROVE  Requested(G, req, later)
<1>1. req.base \in [G -> Seq(DraftRule)] /\ Assist!IdsTold(req.base, next)
  BY DEF Requested, Drafted
<1>2. \A g \in G : \A i \in DOMAIN req.base[g] : req.base[g][i].id \in Nat
  <2> TAKE g \in G
  <2>1. req.base[g] \in Seq(DraftRule)
    BY <1>1
  <2>2. \A i \in DOMAIN req.base[g] : req.base[g][i] \in DraftRule
    BY <2>1
  <2> QED BY <2>2 DEF DraftRule
<1>3. Assist!IdsTold(req.base, later)
  <2> SUFFICES ASSUME NEW g \in G, NEW i \in DOMAIN req.base[g], NEW j \in DOMAIN req.base[g]
               PROVE  req.base[g][i].id < later /\ (req.base[g][i].id = req.base[g][j].id => i = j)
    BY <1>1 DEF Assist!IdsTold
  <2>1. req.base[g][i].id < next /\ (req.base[g][i].id = req.base[g][j].id => i = j)
    BY <1>1 DEF Assist!IdsTold
  <2> QED BY <1>2, <2>1
<1> QED BY <1>1, <1>3 DEF Requested, Drafted

\* Nothing is asked for at the start.
LEMMA AssistInit ==
  ASSUME Assist!Init
  PROVE  AssistInv
<1> DEFINE G == DOMAIN draft
<1>1. draft \in Drafts /\ freshId = FirstId /\ targets = [group \in G |-> <<>>]
      /\ request = None /\ serial = 0 /\ offers = {} /\ answer = <<>>
  BY DEF Assist!Init
<1>2. /\ FirstId \in Nat /\ draft \in [G -> Seq([id : Nat, good : BOOLEAN, from : {0}])]
      /\ None \in G /\ Fallback \in G /\ Assist!IdsTold(draft, FirstId)
      /\ Answers \subseteq Seq([group : G, good : BOOLEAN, whole : BOOLEAN])
  BY <1>1, ServicesAssumption DEF Assist!AssistAssumption
<1>3. draft \in [G -> Seq(DraftRule)]
  <2>1. [id : Nat, good : BOOLEAN, from : {0}] \subseteq DraftRule
    BY DEF DraftRule
  <2> DEFINE S == [id : Nat, good : BOOLEAN, from : {0}]
  <2>2. draft \in [G -> Seq(S)] /\ S \subseteq DraftRule
    BY <1>2, <2>1
  <2> HIDE DEF S
  <2>3. \A g \in G : draft[g] \in Seq(DraftRule)
    BY <2>2
  <2> QED BY <2>2, <2>3
<1>4. targets \in [G -> Seq(Nat)] /\ answer \in Seq(ProposedRule(G))
  BY <1>1
<1> QED BY <1>1, <1>2, <1>3, <1>4 DEF AssistInv, Drafted, ProposedRule

\* A change of one group of the draft.
LEMMA EditNext ==
  ASSUME AssistInv, NEW group \in Assist!Groups, NEW list, Assist!Edit(group, list),
         list \in Seq(DraftRule),
         \A i, j \in DOMAIN list : list[i].id < freshId /\ (list[i].id = list[j].id => i = j)
  PROVE  AssistInv'
<1> DEFINE G == DOMAIN draft
<1>1. /\ draft' = [draft EXCEPT ![group] = list] /\ group \in G
      /\ UNCHANGED <<freshId, targets, request, serial, offers, answer>>
  BY DEF Assist!Edit, Assist!Groups, Assist!client
<1>2. /\ draft \in [G -> Seq(DraftRule)] /\ Assist!IdsTold(draft, freshId)
  BY DEF AssistInv, Drafted
<1>3. draft' \in [G -> Seq(DraftRule)] /\ DOMAIN draft' = G
  BY <1>1, <1>2
<1>4. Assist!IdsTold(draft', freshId)
  <2> SUFFICES ASSUME NEW g \in G, NEW i \in DOMAIN draft'[g], NEW j \in DOMAIN draft'[g]
               PROVE  draft'[g][i].id < freshId /\ (draft'[g][i].id = draft'[g][j].id => i = j)
    BY <1>3 DEF Assist!IdsTold
  <2>1. CASE g = group
    BY <1>1, <1>2, <2>1
  <2>2. CASE g # group
    BY <1>1, <1>2, <2>2 DEF Assist!IdsTold
  <2> QED BY <2>1, <2>2
<1> QED BY <1>1, <1>3, <1>4 DEF AssistInv, Drafted

\* A group of the draft, by its places.
LEMMA ListOf ==
  ASSUME AssistInv, NEW group \in Assist!Groups
  PROVE  /\ draft[group] \in Seq(DraftRule) /\ group \in DOMAIN draft
         /\ \A i, j \in DOMAIN draft[group] :
              /\ draft[group][i].id < freshId
              /\ draft[group][i].id = draft[group][j].id => i = j
BY DEF AssistInv, Drafted, Assist!IdsTold, Assist!Groups

\* The user mends or breaks a rule: its id stays.
LEMMA EditRuleNext ==
  ASSUME AssistInv, NEW group \in Assist!Groups, NEW k \in DOMAIN draft[group],
         Assist!EditRule(group, k)
  PROVE  AssistInv'
<1> DEFINE s == draft[group]
           new == [[s[k] EXCEPT !.good = ~s[k].good] EXCEPT !.from = 0]
           list == [s EXCEPT ![k].good = ~@, ![k].from = 0]
<1>1. /\ s \in Seq(DraftRule)
      /\ \A i, j \in DOMAIN s : s[i].id < freshId /\ (s[i].id = s[j].id => i = j)
  BY ListOf
<1>2. Assist!Edit(group, list)
  BY DEF Assist!EditRule
<1>3. s[k] \in DraftRule
  BY <1>1
<1>4. new \in DraftRule /\ new.id = s[k].id
  BY <1>3 DEF DraftRule
<1>5. list = [s EXCEPT ![k] = new]
  BY <1>1
<1> HIDE DEF s, new, list
<1>6. list \in Seq(DraftRule) /\ DOMAIN list = DOMAIN s /\ \A i \in DOMAIN s : list[i].id = s[i].id
  BY <1>1, <1>4, <1>5 DEF s
<1> QED BY <1>1, <1>2, <1>6, EditNext

\* The user deletes a rule: the others keep their ids.
LEMMA DeleteRuleNext ==
  ASSUME AssistInv, NEW group \in Assist!Groups, NEW k \in DOMAIN draft[group],
         Assist!DeleteRule(group, k)
  PROVE  AssistInv'
<1> DEFINE s == draft[group]
           list == Assist!RemoveAt(s, k)
<1>1. /\ s \in Seq(DraftRule)
      /\ \A i, j \in DOMAIN s : s[i].id < freshId /\ (s[i].id = s[j].id => i = j)
  BY ListOf
<1>2. Assist!Edit(group, list)
  BY DEF Assist!DeleteRule
<1>3. k \in 1 .. Len(s) /\ Len(s) \in Nat /\ DOMAIN s = 1 .. Len(s)
  BY <1>1
<1>4. /\ list \in Seq(DraftRule) /\ Len(list) = Len(s) - 1
      /\ \A j \in 1 .. (Len(s) - 1) : list[j] = IF j < k THEN s[j] ELSE s[j + 1]
  BY <1>1, <1>3, RemoveTyped
<1> HIDE DEF s, list
<1>5. \A j \in DOMAIN list : j \in 1 .. (Len(s) - 1)
  BY <1>4
<1>6. \A i, j \in DOMAIN list : list[i].id < freshId /\ (list[i].id = list[j].id => i = j)
  <2> TAKE i, j \in DOMAIN list
  <2> DEFINE a == IF i < k THEN i ELSE i + 1
             b == IF j < k THEN j ELSE j + 1
  <2>1. i \in 1 .. (Len(s) - 1) /\ j \in 1 .. (Len(s) - 1)
    BY <1>5
  <2>2. a \in DOMAIN s /\ b \in DOMAIN s
    BY <1>3, <2>1
  <2>3. list[i] = s[a] /\ list[j] = s[b]
    BY <1>4, <2>1
  <2>4. a = b => i = j
    BY <1>3, <2>1
  <2> HIDE DEF a, b
  <2> QED BY <1>1, <2>2, <2>3, <2>4
<1> QED BY <1>2, <1>4, <1>6, EditNext

\* The user moves a rule up: two rules change places.
LEMMA MoveRuleNext ==
  ASSUME AssistInv, NEW group \in Assist!Groups, NEW k \in DOMAIN draft[group],
         Assist!MoveRule(group, k)
  PROVE  AssistInv'
<1> DEFINE s == draft[group]
           list == [s EXCEPT ![k] = s[k - 1], ![k - 1] = s[k]]
<1>1. /\ s \in Seq(DraftRule)
      /\ \A i, j \in DOMAIN s : s[i].id < freshId /\ (s[i].id = s[j].id => i = j)
  BY ListOf
<1>2. Assist!Edit(group, list) /\ k > 1
  BY DEF Assist!MoveRule
<1>3. k \in Nat /\ k \in DOMAIN s /\ k - 1 \in DOMAIN s /\ k - 1 # k
  BY <1>1, <1>2
<1> DEFINE from(i) == IF i = k THEN k - 1 ELSE IF i = k - 1 THEN k ELSE i
<1>4. list \in Seq(DraftRule)
  BY <1>1, <1>3
<1>5. DOMAIN list = DOMAIN s /\ \A i \in DOMAIN s : list[i] = s[from(i)]
  BY <1>1, <1>3
<1>6. \A i, j \in DOMAIN s : from(i) \in DOMAIN s /\ (from(i) = from(j) => i = j)
  BY <1>3
<1> HIDE DEF s, list, from
<1>7. \A i, j \in DOMAIN list : list[i].id < freshId /\ (list[i].id = list[j].id => i = j)
  BY <1>1, <1>5, <1>6
<1> QED BY <1>2, <1>4, <1>7, EditNext

\* Send makes a request of the draft as it is.
LEMMA RunNext ==
  ASSUME AssistInv, Assist!RunAIAssist
  PROVE  AssistInv'
<1> DEFINE G == DOMAIN draft
           flagged == Assist!Flagged(draft)
           found == [group \in G |-> IF ~Assist!Valid(draft)
                                     THEN [i \in DOMAIN flagged[group] |-> draft[group][flagged[group][i]].id]
                                     ELSE <<>>]
           req == [serial |-> serial + 1, fix |-> ~Assist!Valid(draft), base |-> draft,
                    targets |-> found]
<1>1. /\ targets' = found /\ request' = req /\ serial' = serial + 1
      /\ UNCHANGED <<draft, freshId, offers, answer>>
  BY DEF Assist!RunAIAssist, Assist!client
<1>2. Drafted(G, draft, freshId) /\ serial \in Nat /\ freshId \in Nat
  BY DEF AssistInv
<1>3. req.serial = serial + 1 /\ req.fix = ~Assist!Valid(draft) /\ req.base = draft
        /\ req.targets = found
  OBVIOUS
<1>4. found = [group \in G |-> IF ~Assist!Valid(draft)
                             THEN [i \in DOMAIN flagged[group] |-> draft[group][flagged[group][i]].id]
                             ELSE <<>>]
  OBVIOUS
<1> HIDE DEF req, found, G
<1>5. req.targets = [group \in G |-> IF req.fix
                                   THEN [i \in DOMAIN flagged[group] |-> req.base[group][flagged[group][i]].id]
                                   ELSE <<>>]
  BY <1>3, <1>4
<1>6. flagged = Assist!Flagged(req.base)
  BY <1>3
<1> HIDE DEF flagged
<1>7. Drafted(G, req.base, freshId) /\ req.serial \in Nat /\ req.fix = ~Assist!Valid(req.base)
  BY <1>2, <1>3
<1>8. Requested(G, req, freshId)
  BY <1>5, <1>6, <1>7 DEF Requested
<1>9. found \in [G -> Seq(Nat)]
  BY <1>2, <1>3, <1>8, TargetsTyped
<1>10. req # None => Requested(G, req, freshId)
  BY <1>8
<1> QED BY <1>1, <1>2, <1>9, <1>10 DEF AssistInv, G

\* Ids are given out and not taken back.
LEMMA FreshGrows ==
  ASSUME NEW G, NEW acc \in Applying(G), NEW rule \in ProposedRule(G)
  PROVE  acc.fresh \in Nat /\ Assist!ApplyOne(acc, rule).fresh \in Nat
         /\ acc.fresh <= Assist!ApplyOne(acc, rule).fresh
<1>1. acc.fresh \in Nat /\ Assist!ApplyOne(acc, rule).fresh \in Nat
  BY ApplyTyped DEF Applying
<1>2. Assist!ApplyOne(acc, rule).fresh \in {acc.fresh, acc.fresh + 1}
  BY DEF Assist!ApplyOne, Applying
<1> QED BY <1>1, <1>2

\* The same along a proposal.
LEMMA FreshGrowsAll ==
  ASSUME NEW G, NEW base \in Applying(G), NEW proposal \in Seq(ProposedRule(G))
  PROVE  /\ AppliedAll(base, proposal) \in Applying(G)
         /\ base.fresh <= AppliedAll(base, proposal).fresh
<1> DEFINE N == Len(proposal)
<1>1. PICK run \in [0 .. N -> Applying(G)] :
        /\ run[0] = base /\ run[N] = AppliedAll(base, proposal)
        /\ \A k \in 1 .. N : run[k] = Assist!ApplyOne(run[k - 1], proposal[k])
  BY ApplyRun
<1>2. N \in Nat /\ \A k \in 1 .. N : proposal[k] \in ProposedRule(G)
  OBVIOUS
<1> DEFINE T == {k \in 0 .. N : base.fresh <= run[k].fresh}
<1> HIDE DEF N
<1>3. \A k \in 0 .. N : run[k].fresh \in Nat
  BY <1>1 DEF Applying
<1>4. 0 \in T
  BY <1>1, <1>2, <1>3
<1>5. ASSUME NEW k \in 0 .. (N - 1), k \in T PROVE k + 1 \in T
  <2>1. k \in 0 .. N /\ k + 1 \in 1 .. N /\ k + 1 \in 0 .. N /\ (k + 1) - 1 = k
    BY <1>2
  <2>2. run[k + 1] = Assist!ApplyOne(run[k], proposal[k + 1])
    BY <1>1, <2>1
  <2>3. run[k].fresh <= run[k + 1].fresh
    BY <1>1, <1>2, <2>1, <2>2, FreshGrows
  <2>4. base.fresh \in Nat /\ base.fresh <= run[k].fresh
    BY <1>5 DEF Applying
  <2> QED BY <1>3, <2>1, <2>3, <2>4
<1>6. N \in T
  <2>1. \A k \in 0 .. N : k \in T
    <3> HIDE DEF T
    <3> QED BY <1>2, <1>4, <1>5, UpTo
  <2> QED BY <1>2, <2>1
<1>7. N \in 0 .. N
  BY <1>2
<1> QED BY <1>1, <1>6, <1>7

\* What is applied: the rules before the first that is not whole.
LEMMA AppliedRules ==
  ASSUME NEW G, NEW offer, offer.rules \in Seq(ProposedRule(G))
  PROVE  /\ \E proposal \in Seq(ProposedRule(G)) :
              Assist!Applied(offer)
                = AppliedAll([d |-> draft, fresh |-> freshId, repairs |-> targets,
                              from |-> offer.request.serial], proposal)
         /\ (\A i \in DOMAIN offer.rules : offer.rules[i].whole) =>
              Assist!Applied(offer)
                = AppliedAll([d |-> draft, fresh |-> freshId, repairs |-> targets,
                              from |-> offer.request.serial], offer.rules)
<1> DEFINE s == offer.rules
           I == {i \in 1 .. Len(s) : ~s[i].whole}
           broken == IF I # {} THEN Assist!Min(I) ELSE 0
           kept == IF broken = 0 THEN s ELSE SubSeq(s, 1, broken - 1)
           start == [d |-> draft, fresh |-> freshId, repairs |-> targets,
                      from |-> offer.request.serial]
<1>1. Assist!Applied(offer) = AppliedAll(start, kept)
  BY DEF Assist!Applied, Assist!SelectInSeq, AppliedAll
<1>2. I # {} => Assist!Min(I) \in I
  <2>1. I \in SUBSET Nat
    OBVIOUS
  <2> HIDE DEF I
  <2> QED BY <2>1, Smallest DEF Assist!Min
<1>3. DOMAIN s = 1 .. Len(s) /\ Len(s) \in Nat
  OBVIOUS
<1>4. kept \in Seq(ProposedRule(G))
  <2>1. CASE I = {}
    BY <2>1
  <2>2. CASE I # {}
    <3>1. broken \in 1 .. Len(s)
      BY <1>2, <2>2
    <3> HIDE DEF broken, s, I
    <3>2. s \in Seq(ProposedRule(G))
      BY DEF s
    <3>3. SubSeq(s, 1, broken - 1) \in Seq(ProposedRule(G))
      BY <1>3, <3>1, <3>2
    <3> QED BY <1>3, <3>1, <3>3
  <2> QED BY <2>1, <2>2
<1>5. (\A i \in DOMAIN s : s[i].whole) => kept = s
  BY <1>3
<1> QED BY <1>1, <1>4, <1>5

\* Apply writes a proposal, or the part of it before a rule that is not whole.
LEMMA ApplyNext ==
  ASSUME AssistInv, NEW offer \in offers, Assist!ApplyAIProposal(offer)
  PROVE  AssistInv'
<1> DEFINE G == DOMAIN draft
           start == [d |-> draft, fresh |-> freshId, repairs |-> targets,
                      from |-> offer.request.serial]
           acc == Assist!Applied(offer)
<1>1. /\ draft' = acc.d /\ freshId' = acc.fresh /\ targets' = [group \in G |-> <<>>]
      /\ UNCHANGED <<request, serial, offers, answer>>
  BY DEF Assist!ApplyAIProposal, Assist!client
<1>2. /\ Drafted(G, draft, freshId) /\ freshId \in Nat /\ targets \in [G -> Seq(Nat)]
      /\ Requested(G, offer.request, freshId) /\ offer.rules \in Seq(ProposedRule(G))
  BY DEF AssistInv
<1>3. start \in Applying(G)
  BY <1>2 DEF Applying, Drafted, Requested
<1>4. acc \in Applying(G) /\ freshId <= acc.fresh
  <2>1. PICK proposal \in Seq(ProposedRule(G)) : acc = AppliedAll(start, proposal)
    BY <1>2, AppliedRules
  <2>2. start.fresh = freshId
    OBVIOUS
  <2> HIDE DEF start, acc
  <2> QED BY <1>3, <2>1, <2>2, FreshGrowsAll
<1> HIDE DEF acc, start
<1>5. /\ Drafted(G, draft', freshId') /\ freshId' \in Nat /\ freshId <= freshId'
      /\ DOMAIN draft' = G
  BY <1>1, <1>4 DEF Applying, Drafted
<1>6. targets' \in [G -> Seq(Nat)]
  BY <1>1
<1>7. request' # None => Requested(G, request', freshId')
  BY <1>1, <1>2, <1>5, StillRequested DEF AssistInv
<1>8. ASSUME NEW o \in offers'
      PROVE  /\ Requested(G, o.request, freshId') /\ o.rules \in Seq(ProposedRule(G))
             /\ Assist!Valid(Assist!Checked(o.request, o.rules))
  <2>1. /\ Requested(G, o.request, freshId) /\ o.rules \in Seq(ProposedRule(G))
        /\ Assist!Valid(Assist!Checked(o.request, o.rules))
    BY <1>1, <1>8 DEF AssistInv
  <2> QED BY <1>2, <1>5, <2>1, StillRequested
<1>9. /\ None \in G /\ Fallback \in G /\ Answers \subseteq Seq(ProposedRule(G))
      /\ serial' \in Nat /\ answer' \in Seq(ProposedRule(G))
  BY <1>1 DEF AssistInv
<1> HIDE DEF G
<1> QED BY <1>5, <1>6, <1>7, <1>8, <1>9 DEF AssistInv

\* The editor is left alone by the client of the provider.
EditorKept == UNCHANGED <<draft, freshId, targets, serial>>

\* The editor waits on, or gives the request up.
LEMMA QuietNext ==
  ASSUME AssistInv, EditorKept, UNCHANGED offers,
         answer' \in Seq(ProposedRule(DOMAIN draft)), request' \in {request, None}
  PROVE  AssistInv'
BY DEF AssistInv, EditorKept

\* An answer settles the request, with what it shows.
LEMMA SettleNext ==
  ASSUME AssistInv, NEW shown, Assist!Settle(shown),
         request # None =>
           \A offer \in shown : /\ offer.request = request
                                /\ offer.rules \in Seq(ProposedRule(DOMAIN draft))
                                /\ Assist!Valid(Assist!Checked(offer.request, offer.rules))
  PROVE  AssistInv'
<1>1. UNCHANGED <<draft, freshId, targets, serial, answer>>
  BY DEF Assist!Settle, Assist!editing
<1>2. CASE request # None /\ request.serial = Head(completions)
  <2>1. request' = None /\ offers' = offers \cup shown
    BY <1>2 DEF Assist!Settle
  <2> QED BY <1>1, <1>2, <2>1 DEF AssistInv
<1>3. CASE ~(request # None /\ request.serial = Head(completions))
  <2>1. UNCHANGED <<request, offers>>
    BY <1>3 DEF Assist!Settle
  <2> QED BY <1>1, <2>1 DEF AssistInv
<1> QED BY <1>2, <1>3

\* Another fetch leaves the editor waiting.
LEMMA FetchNext ==
  ASSUME AssistInv, NEW stream, NEW tried, NEW attempted,
         Assist!StartFetch(stream, tried, attempted),
         UNCHANGED <<host, request, serial, offers, completions, Assist!editing>>
  PROVE  AssistInv'
<1>1. EditorKept /\ UNCHANGED offers /\ answer' = <<>> /\ request' = request
  BY DEF Assist!StartFetch, Assist!editing, EditorKept
<1> QED BY <1>1, QuietNext

\* A failed fetch is tried again as a completion, or settles the request.
LEMMA FailsNext ==
  ASSUME AssistInv, Assist!Fails
  PROVE  AssistInv'
<1>1. CASE streams
  BY <1>1, FetchNext DEF Assist!Fails
<1>2. CASE ~streams
  <2>1. Assist!Settle({})
    BY <1>2 DEF Assist!Fails
  <2> QED BY <2>1, SettleNext
<1> QED BY <1>1, <1>2

\* What a host reads of an answer is a proposal for the groups of the draft.
LEMMA ParsedTyped ==
  ASSUME NEW G, Fallback \in G, NEW proposal \in Seq(ProposedRule(G))
  PROVE  Assist!Parsed(proposal) \in Seq(ProposedRule(G))
<1>1. CASE host = "cli"
  BY <1>1 DEF Assist!Parsed
<1>2. CASE host # "cli"
  <2> DEFINE place(r) == IF r.group = None THEN [r EXCEPT !.group = Fallback] ELSE r
  <2>1. \A r \in ProposedRule(G) : place(r) \in ProposedRule(G)
    BY DEF ProposedRule
  <2>2. Assist!Parsed(proposal) = [i \in DOMAIN proposal |-> place(proposal[i])]
    BY <1>2 DEF Assist!Parsed
  <2> HIDE DEF place
  <2> QED BY <2>1, <2>2
<1> QED BY <1>1, <1>2

\* A whole answer is shown only after the check of the host left no error.
LEMMA BodyEndsNext ==
  ASSUME AssistInv, Assist!BodyEnds
  PROVE  AssistInv'
<1> DEFINE proposal == Assist!Parsed(answer)
           asks == request # None /\ request.serial = Head(completions)
<1>1. proposal \in Seq(ProposedRule(DOMAIN draft))
  BY ParsedTyped DEF AssistInv
<1>2. \/ Assist!Settle({})
      \/ asks /\ Assist!Valid(Assist!Checked(request, proposal))
           /\ Assist!Settle({[request |-> request, rules |-> proposal]})
      \/ \E attempted : /\ Assist!StartFetch(TRUE, 0, attempted)
                        /\ UNCHANGED <<host, request, serial, offers, completions, Assist!editing>>
  BY DEF Assist!BodyEnds
<1> HIDE DEF proposal
<1>3. CASE Assist!Settle({})
  BY <1>3, SettleNext
<1>4. CASE asks /\ Assist!Valid(Assist!Checked(request, proposal))
             /\ Assist!Settle({[request |-> request, rules |-> proposal]})
  <2> DEFINE shown == {[request |-> request, rules |-> proposal]}
  <2>1. \A offer \in shown : /\ offer.request = request
                             /\ offer.rules \in Seq(ProposedRule(DOMAIN draft))
                             /\ Assist!Valid(Assist!Checked(offer.request, offer.rules))
    BY <1>1, <1>4
  <2>2. Assist!Settle(shown)
    BY <1>4
  <2> HIDE DEF shown
  <2> QED BY <2>1, <2>2, SettleNext
<1>5. CASE \E attempted : /\ Assist!StartFetch(TRUE, 0, attempted)
                          /\ UNCHANGED <<host, request, serial, offers, completions,
                               Assist!editing>>
  BY <1>5, FetchNext
<1> QED BY <1>2, <1>3, <1>4, <1>5

\* The steps of the client of the provider.
LEMMA ClientNext ==
  ASSUME AssistInv,
         \/ Assist!TakeUp \/ Assist!FetchTimesOut \/ Assist!BodyBreaks \/ Assist!BodyEnds
         \/ Assist!BridgeTimesOut
         \/ \E again \in BOOLEAN : Assist!ProviderRefuses(again)
         \/ \E reply \in Answers : Assist!ProviderAccepts(reply)
         \/ \E whole \in BOOLEAN : Assist!PieceArrives(whole)
  PROVE  AssistInv'
<1>1. CASE Assist!TakeUp
  BY <1>1, FetchNext DEF Assist!TakeUp
<1>2. CASE Assist!FetchTimesOut \/ Assist!BodyBreaks
  BY <1>2, FailsNext DEF Assist!FetchTimesOut, Assist!BodyBreaks
<1>3. CASE Assist!BodyEnds
  BY <1>3, BodyEndsNext
<1>4. CASE Assist!BridgeTimesOut
  <2>1. EditorKept /\ UNCHANGED <<offers, answer>> /\ request' = None
    BY <1>4 DEF Assist!BridgeTimesOut, Assist!GivesUp, Assist!editing, Assist!client, EditorKept
  <2>2. answer' \in Seq(ProposedRule(DOMAIN draft))
    BY <2>1 DEF AssistInv
  <2> QED BY <2>1, <2>2, QuietNext
<1>5. ASSUME NEW again \in BOOLEAN, Assist!ProviderRefuses(again) PROVE AssistInv'
  BY <1>5, FetchNext, FailsNext DEF Assist!ProviderRefuses
<1>6. ASSUME NEW reply \in Answers, Assist!ProviderAccepts(reply) PROVE AssistInv'
  <2>1. EditorKept /\ UNCHANGED <<offers, request>> /\ answer' = reply
    BY <1>6 DEF Assist!ProviderAccepts, Assist!editing, EditorKept
  <2>2. answer' \in Seq(ProposedRule(DOMAIN draft))
    BY <1>6, <2>1 DEF AssistInv
  <2> QED BY <2>1, <2>2, QuietNext
<1>7. ASSUME NEW whole \in BOOLEAN, Assist!PieceArrives(whole) PROVE AssistInv'
  <2>1. EditorKept /\ UNCHANGED <<offers, request, answer>>
    BY <1>7 DEF Assist!PieceArrives, Assist!editing, EditorKept
  <2>2. answer' \in Seq(ProposedRule(DOMAIN draft))
    BY <2>1 DEF AssistInv
  <2> QED BY <2>1, <2>2, QuietNext
<1> QED BY <1>1, <1>2, <1>3, <1>4, <1>5, <1>6, <1>7

\* No step of the AI assistance breaks its invariant.
LEMMA AssistNext ==
  ASSUME AssistInv, [Assist!Next]_(Assist!vars)
  PROVE  AssistInv'
<1>1. CASE UNCHANGED Assist!vars
  BY <1>1 DEF AssistInv, Assist!vars
<1>2. CASE Assist!Next
  <2>1. ASSUME NEW group \in Assist!Groups, NEW k \in DOMAIN draft[group],
               Assist!EditRule(group, k) \/ Assist!DeleteRule(group, k) \/ Assist!MoveRule(group, k)
        PROVE  AssistInv'
    BY <2>1, EditRuleNext, DeleteRuleNext, MoveRuleNext
  <2>2. CASE Assist!RunAIAssist
    BY <2>2, RunNext
  <2>3. ASSUME NEW offer \in offers, Assist!ApplyAIProposal(offer) PROVE AssistInv'
    BY <2>3, ApplyNext
  <2> QED BY <1>2, <2>1, <2>2, <2>3, ClientNext DEF Assist!Next
<1> QED BY <1>1, <1>2

\* The invariant is enough: the check by position speaks for the repair by id.
LEMMA AssistSound ==
  ASSUME AssistInv
  PROVE  Assist!ApplyIsWhatWasChecked
<1> DEFINE G == DOMAIN draft
<1> SUFFICES ASSUME NEW offer \in offers,
                    draft = offer.request.base, targets = offer.request.targets,
                    \A i \in DOMAIN offer.rules :
                      offer.rules[i].whole /\ offer.rules[i].group # None
             PROVE  Assist!Valid(Assist!Applied(offer).d)
  BY DEF Assist!ApplyIsWhatWasChecked
<1>1. /\ Requested(G, offer.request, freshId) /\ offer.rules \in Seq(ProposedRule(G))
      /\ Assist!Valid(Assist!Checked(offer.request, offer.rules)) /\ None \in G /\ freshId \in Nat
  BY DEF AssistInv
<1>2. Assist!Applied(offer) = AppliedAll(StartOf(offer.request, freshId), offer.rules)
  BY <1>1, AppliedRules DEF StartOf
<1> HIDE DEF G
<1> QED BY <1>1, <1>2, CheckedApplies

\* editor.ts, ai-assist.ts: a proposal that the host checked by position leaves no
\* error when the editor applies it by id to the draft it was asked for.
THEOREM CheckedProposalsApply == ServicesSpec => []ApplyIsWhatWasChecked
<1> DEFINE Inv == part = "assist" => AssistInv
<1>1. ServicesInit => Inv
  BY AssistInit DEF ServicesInit
<1>2. Inv /\ [ServicesNext]_all => Inv'
  <2> SUFFICES ASSUME Inv, [ServicesNext]_all, part' = "assist" PROVE AssistInv'
    OBVIOUS
  <2>1. part = "assist"
    BY DEF ServicesNext, all
  <2>2. [Assist!Next]_(Assist!vars)
    BY <2>1 DEF ServicesNext, all, assistVars, Assist!vars
  <2> QED BY <2>1, <2>2, AssistNext
<1>3. Inv => ApplyIsWhatWasChecked
  BY AssistSound DEF ApplyIsWhatWasChecked
<1> QED BY <1>1, <1>2, <1>3, PTL DEF ServicesSpec

-------------------------------------------------------------------------------
(* Sequences that are joined.                                                *)

\* acc joins the elements of s, one after the other.
Flats(acc, s, S) ==
  /\ acc \in [0 .. Len(s) -> Seq(S)] /\ acc[0] = <<>>
  /\ \A k \in 1 .. Len(s) : acc[k] = acc[k - 1] \o s[k]

\* There is such a join of every sequence of sequences.
LEMMA FlatsExist ==
  ASSUME NEW S, NEW s \in Seq(Seq(S))
  PROVE  \E acc : Flats(acc, s, S)
<1> DEFINE D == Seq(S)
           step == [p \in D \X D |-> p[1] \o p[2]]
<1>1. /\ step \in [D \X D -> D] /\ \A a, b \in D : step[<<a, b>>] = a \o b
      /\ <<>> \in D
  <2>1. \A p \in D \X D : p[1] \o p[2] \in D
    OBVIOUS
  <2>2. <<>> \in D
    OBVIOUS
  <2> HIDE DEF D
  <2> QED BY <2>1, <2>2
<1> HIDE DEF step
<1>2. s \in Seq(D)
  OBVIOUS
<1> HIDE DEF D
<1>3. PICK f : FoldsBy(f, D, step, <<>>, s)
  BY <1>1, <1>2, FoldExists
<1>4. OpenTo(f, D, step, <<>>, s)
  BY <1>3 DEF FoldsBy, OpenTo
<1>5. PICK run : Runs(run, D, step, <<>>, s, f[1 .. Len(s)])
  BY <1>1, <1>2, <1>4, FoldRun
<1>6. Len(s) \in Nat /\ \A k \in 1 .. Len(s) : s[k] \in D
  BY <1>2
<1>7. ASSUME NEW k \in 1 .. Len(s) PROVE run[k] = run[k - 1] \o s[k]
  <2>1. k - 1 \in 0 .. Len(s)
    BY <1>6
  <2> QED BY <1>1, <1>5, <1>6, <2>1 DEF Runs
<1> QED BY <1>5, <1>7 DEF Runs, Flats, D

\* The join is the only one, along what two sequences have in common.
LEMMA FlatsAgree ==
  ASSUME NEW S, NEW s \in Seq(Seq(S)), NEW t \in Seq(Seq(S)), NEW a, NEW b,
         Flats(a, s, S), Flats(b, t, S), NEW n \in Nat, n <= Len(s), n <= Len(t),
         \A k \in 1 .. n : s[k] = t[k]
  PROVE  a[n] = b[n]
<1> DEFINE T == {k \in 0 .. n : a[k] = b[k]}
<1>1. Len(s) \in Nat /\ Len(t) \in Nat
  OBVIOUS
<1>2. 0 \in T
  BY DEF Flats
<1>3. ASSUME NEW k \in 0 .. (n - 1), k \in T PROVE k + 1 \in T
  <2>1. k + 1 \in 1 .. n /\ k + 1 \in 1 .. Len(s) /\ k + 1 \in 1 .. Len(t) /\ (k + 1) - 1 = k
    BY <1>1
  <2>2. a[k + 1] = a[k] \o s[k + 1] /\ b[k + 1] = b[k] \o t[k + 1]
    BY <2>1 DEF Flats
  <2>3. a[k] = b[k] /\ s[k + 1] = t[k + 1] /\ k + 1 \in 0 .. n
    BY <1>3, <2>1
  <2>4. a[k + 1] = b[k + 1]
    BY <2>2, <2>3
  <2> QED BY <2>3, <2>4
<1> HIDE DEF T
<1>4. \A k \in 0 .. n : k \in T
  BY <1>2, <1>3, UpTo
<1>5. n \in 0 .. n
  OBVIOUS
<1> QED BY <1>4, <1>5 DEF T

\* FlattenSeq gives the join of all.
LEMMA FlatsAll ==
  ASSUME NEW S, NEW s \in Seq(Seq(S)), NEW acc, Flats(acc, s, S)
  PROVE  Transport!FlattenSeq(s) = acc[Len(s)]
<1> DEFINE N == Len(s)
           Rule(g) == [i \in 1 .. N |-> IF i = 1 THEN s[i] ELSE g[i - 1] \o s[i]]
           flatten == CHOOSE g : g = Rule(g)
           mine == [i \in 1 .. N |-> acc[i]]
<1>1. N \in Nat /\ \A i \in 1 .. N : s[i] \in Seq(S)
  OBVIOUS
<1>2. CASE N = 0
  <2>1. Transport!FlattenSeq(s) = s /\ s = <<>>
    BY <1>2 DEF Transport!FlattenSeq
  <2> QED BY <1>2, <2>1 DEF Flats
<1>3. CASE N # 0
  <2>1. Transport!FlattenSeq(s) = flatten[N]
    BY <1>3 DEF Transport!FlattenSeq
  <2> HIDE DEF N
  <2>2. ASSUME NEW i \in 1 .. N
        PROVE  mine[i] = IF i = 1 THEN s[i] ELSE mine[i - 1] \o s[i]
    <3>1. acc[i] = acc[i - 1] \o s[i]
      BY DEF Flats, N
    <3>2. CASE i = 1
      <4>1. acc[i] = <<>> \o s[i]
        <5>1. i - 1 = 0
          BY <3>2
        <5> QED BY <3>1, <5>1 DEF Flats
      <4> QED BY <1>1, <3>2, <4>1
    <3>3. CASE i # 1
      <4>1. i - 1 \in 1 .. N
        BY <1>1, <3>3
      <4> QED BY <3>1, <3>3, <4>1
    <3> QED BY <3>2, <3>3
  <2>3. mine = Rule(mine)
    <3>1. mine = [i \in 1 .. N |-> mine[i]]
      OBVIOUS
    <3> HIDE DEF mine
    <3> QED BY <2>2, <3>1
  <2>4. flatten = Rule(flatten)
    <3>1. \E g : g = Rule(g)
      BY <2>3
    <3> HIDE DEF mine
    <3> QED BY <3>1
  <2> HIDE DEF flatten, mine
  <2> DEFINE T == {k \in 0 .. N : k = 0 \/ flatten[k] = mine[k]}
  <2>5. ASSUME NEW k \in 0 .. (N - 1), k \in T PROVE k + 1 \in T
    <3>1. k + 1 \in 1 .. N /\ (k + 1) - 1 = k /\ k + 1 \in 0 .. N
      BY <1>1
    <3>2. flatten[k + 1] = IF k + 1 = 1 THEN s[k + 1] ELSE flatten[k] \o s[k + 1]
      BY <2>4, <3>1
    <3>3. mine[k + 1] = IF k + 1 = 1 THEN s[k + 1] ELSE mine[k] \o s[k + 1]
      BY <2>2, <3>1
    <3> QED BY <2>5, <3>1, <3>2, <3>3
  <2>6. 0 \in T
    BY <1>1
  <2>7. \A k \in 0 .. N : k \in T
    <3> HIDE DEF T
    <3> QED BY <1>1, <2>5, <2>6, UpTo
  <2>8. flatten[N] = mine[N]
    BY <1>1, <1>3, <2>7
  <2>9. mine[N] = acc[N]
    BY <1>1, <1>3 DEF mine
  <2> QED BY <2>1, <2>8, <2>9 DEF N
<1> QED BY <1>2, <1>3

\* Where element k lies in what the elements are joined to.
Follows(acc, s, k) ==
  /\ acc[k] = acc[k - 1] \o s[k] /\ Len(acc[k]) = Len(acc[k - 1]) + Len(s[k])
  /\ Len(acc[k]) \in Nat /\ Len(acc[k - 1]) \in Nat /\ Len(s[k]) \in Nat
  /\ \A j \in 1 .. Len(acc[k - 1]) : acc[k][j] = acc[k - 1][j]
  /\ \A j \in 1 .. Len(s[k]) : acc[k][Len(acc[k - 1]) + j] = s[k][j]

\* One element of the join follows what is joined before it.
LEMMA FlatsStep ==
  ASSUME NEW S, NEW s \in Seq(Seq(S)), NEW acc, Flats(acc, s, S), NEW k \in 1 .. Len(s)
  PROVE  /\ k \in 0 .. Len(s) /\ k - 1 \in 0 .. Len(s)
         /\ acc[k] \in Seq(S) /\ acc[k - 1] \in Seq(S) /\ s[k] \in Seq(S)
         /\ Follows(acc, s, k)
<1>1. Len(s) \in Nat /\ s[k] \in Seq(S)
  OBVIOUS
<1>2. k \in 0 .. Len(s) /\ k - 1 \in 0 .. Len(s)
  BY <1>1
<1>3. acc[k] = acc[k - 1] \o s[k] /\ acc[k] \in Seq(S) /\ acc[k - 1] \in Seq(S)
  BY <1>2 DEF Flats
<1> DEFINE a == acc[k - 1]
           b == s[k]
<1> HIDE DEF a, b
<1>4. a \in Seq(S) /\ b \in Seq(S) /\ acc[k] = a \o b
  BY <1>1, <1>3 DEF a, b
<1>5. /\ Len(a \o b) = Len(a) + Len(b)
      /\ Len(a) \in Nat /\ Len(b) \in Nat /\ Len(a \o b) \in Nat
      /\ \A j \in 1 .. Len(a) : (a \o b)[j] = a[j]
      /\ \A j \in 1 .. Len(b) : (a \o b)[Len(a) + j] = b[j]
  BY <1>4
<1> DEFINE c == acc[k]
<1>6. c = a \o b
  BY <1>4
<1> HIDE DEF c
<1>7. /\ c = a \o b /\ Len(c) = Len(a) + Len(b)
      /\ Len(c) \in Nat /\ Len(a) \in Nat /\ Len(b) \in Nat
      /\ \A j \in 1 .. Len(a) : c[j] = a[j]
      /\ \A j \in 1 .. Len(b) : c[Len(a) + j] = b[j]
  BY <1>5, <1>6
<1>8. Follows(acc, s, k)
  BY <1>7 DEF Follows, a, b, c
<1> QED BY <1>1, <1>2, <1>3, <1>8

\* A join only grows.
LEMMA FlatsPrefix ==
  ASSUME NEW S, NEW s \in Seq(Seq(S)), NEW acc, Flats(acc, s, S), NEW k \in 0 .. Len(s)
  PROVE  \A i \in k .. Len(s) :
           /\ Len(acc[k]) <= Len(acc[i])
           /\ \A j \in 1 .. Len(acc[k]) : acc[i][j] = acc[k][j]
<1> DEFINE N == Len(s)
           Has(i) == /\ Len(acc[k]) <= Len(acc[i])
                     /\ \A j \in 1 .. Len(acc[k]) : acc[i][j] = acc[k][j]
           T == {n \in 0 .. (N - k) : Has(k + n)}
<1>1. N \in Nat /\ k \in Nat /\ k <= N /\ N - k \in Nat
  OBVIOUS
<1>2. acc[k] \in Seq(S) /\ Len(acc[k]) \in Nat
  BY DEF Flats
<1> HIDE DEF N
<1>3. 0 \in T
  <2>1. k + 0 = k
    BY <1>1
  <2> QED BY <1>1, <1>2, <2>1
<1>4. ASSUME NEW n \in 0 .. (N - k - 1), n \in T PROVE n + 1 \in T
  <2>1. k + (n + 1) \in 1 .. N /\ (k + (n + 1)) - 1 = k + n /\ n + 1 \in 0 .. (N - k)
    BY <1>1
  <2> DEFINE i == k + n
             m == k + (n + 1)
  <2>2. m \in 1 .. N /\ m - 1 = i
    BY <2>1
  <2> HIDE DEF i, m
  <2>3. Follows(acc, s, m)
    BY <2>2, FlatsStep DEF N
  <2> DEFINE l == Len(acc[k])
             p == Len(acc[i])
             q == Len(acc[m])
             r == Len(s[m])
  <2>4. Has(i)
    BY <1>4 DEF i
  <2>5. Has(m)
    <3>1. l \in Nat /\ p \in Nat /\ q \in Nat /\ r \in Nat /\ l <= p /\ q = p + r
      BY <1>2, <2>2, <2>3, <2>4 DEF Follows
    <3> HIDE DEF l, p, q, r
    <3>2. ASSUME NEW j \in 1 .. Len(acc[k]) PROVE acc[m][j] = acc[k][j]
      <4>1. j \in 1 .. l /\ j \in 1 .. p
        BY <3>1 DEF l
      <4>2. acc[m][j] = acc[i][j] /\ acc[i][j] = acc[k][j]
        BY <2>2, <2>3, <2>4, <4>1 DEF l, p, Follows
      <4> QED BY <4>2
    <3>3. l <= q
      BY <3>1
    <3> QED BY <3>2, <3>3 DEF l, q
  <2> QED BY <2>1, <2>5 DEF m
<1>5. \A n \in 0 .. (N - k) : n \in T
  <2>1. (N - k) - 1 = N - k - 1
    BY <1>1
  <2> HIDE DEF T
  <2> QED BY <1>1, <1>3, <1>4, <2>1, UpTo
<1>6. ASSUME NEW i \in k .. N PROVE Has(i)
  <2>1. i - k \in 0 .. (N - k) /\ k + (i - k) = i
    BY <1>1
  <2> QED BY <1>5, <2>1
<1> QED BY <1>6 DEF N

\* Each element keeps its place up to the end of the join.
LEMMA FlatsPlace ==
  ASSUME NEW S, NEW s \in Seq(Seq(S)), NEW acc, Flats(acc, s, S), NEW k \in 1 .. Len(s)
  PROVE  /\ Len(acc[k]) <= Len(acc[Len(s)])
         /\ \A j \in 1 .. Len(s[k]) : acc[Len(s)][Len(acc[k - 1]) + j] = s[k][j]
<1>1. Len(s) \in Nat /\ k \in 0 .. Len(s) /\ Len(s) \in k .. Len(s)
  OBVIOUS
<1>2. /\ Len(acc[k]) <= Len(acc[Len(s)])
      /\ \A j \in 1 .. Len(acc[k]) : acc[Len(s)][j] = acc[k][j]
  BY <1>1, FlatsPrefix
<1>3. Follows(acc, s, k)
  BY FlatsStep
<1> DEFINE p == Len(acc[k - 1])
           q == Len(acc[k])
           r == Len(s[k])
<1>4. p \in Nat /\ r \in Nat /\ q = p + r
  BY <1>3 DEF Follows
<1>5. ASSUME NEW j \in 1 .. Len(s[k]) PROVE acc[Len(s)][p + j] = s[k][j]
  <2>1. j \in 1 .. r
    OBVIOUS
  <2> HIDE DEF p, q, r
  <2>2. p + j \in 1 .. q
    BY <1>4, <2>1
  <2> QED BY <1>2, <1>3, <2>1, <2>2 DEF Follows, p, q, r
<1> QED BY <1>2, <1>5

-------------------------------------------------------------------------------
(* The native transport: the messages as bytes, and the pump.                *)

\* What the assumption says of one sequence of messages, as far as it is needed.
Sendable(ms) ==
  /\ ms \in Seq(Transport!ToSet(ms))
  /\ \A i \in DOMAIN ms : ms[i].body \in Seq(Nat) /\ Len(ms[i].body) <= Base * Base

\* The messages as bytes, and what becomes a frame of each.
Encodings(ms) == [i \in DOMAIN ms |-> Transport!Encode(ms[i])]
Cuts(ms) == [i \in DOMAIN ms |->
               IF Len(ms[i].body) > MaxFrame THEN <<>> ELSE <<Transport!Encode(ms[i])>>]

\* A number in two digits is that number.
LEMMA Divides ==
  ASSUME NEW n \in Nat, NEW b \in Nat \ {0}
  PROVE  n % b \in Nat /\ n \div b \in Nat /\ (n % b) + b * (n \div b) = n
<1>1. n \div b \in Int /\ n % b \in 0 .. (b - 1)
  OBVIOUS
<1>2. n = b * (n \div b) + (n % b)
  OBVIOUS
<1>3. n \div b >= 0
  OBVIOUS
<1> QED BY <1>1, <1>2, <1>3

\* The elements of two sequences, one after the other.
LEMMA JoinedAt ==
  ASSUME NEW S, NEW s \in Seq(S), NEW t \in Seq(S)
  PROVE  /\ \A i \in 1 .. Len(s) : (s \o t)[i] = s[i]
         /\ \A i \in 1 .. Len(t) : (s \o t)[Len(s) + i] = t[i]
OBVIOUS

\* A message is its length in two bytes, and its body.
LEMMA Encoded ==
  ASSUME NEW m, m.body \in Seq(Nat)
  PROVE  /\ Transport!Encode(m) \in Seq(Nat)
         /\ Len(m.body) \in Nat /\ Len(Transport!Encode(m)) = 2 + Len(m.body)
         /\ Transport!Encode(m)[1] + Base * Transport!Encode(m)[2] = Len(m.body)
<1> DEFINE n == Len(m.body)
           h == <<n % Base, n \div Base>>
           b == m.body
<1>1. n \in Nat /\ b \in Seq(Nat) /\ Base \in Nat \ {0}
  BY ServicesAssumption DEF Transport!TransportAssumption
<1>2. Transport!Encode(m) = h \o b
  BY DEF Transport!Encode
<1> HIDE DEF n
<1>3. n % Base \in Nat /\ n \div Base \in Nat /\ (n % Base) + Base * (n \div Base) = n
  BY <1>1, Divides
<1>4. h \in Seq(Nat) /\ Len(h) = 2 /\ h[1] = n % Base /\ h[2] = n \div Base
  BY <1>3
<1> HIDE DEF h, b
<1>5. h \o b \in Seq(Nat) /\ Len(h \o b) = 2 + Len(b) /\ (h \o b)[1] = h[1] /\ (h \o b)[2] = h[2]
  <2>1. h \o b \in Seq(Nat) /\ Len(h \o b) = Len(h) + Len(b)
    BY <1>1, <1>4, Joined
  <2>2. \A i \in 1 .. Len(h) : (h \o b)[i] = h[i]
    BY <1>1, <1>4, JoinedAt, ZenonT(30)
  <2>3. 1 \in 1 .. Len(h) /\ 2 \in 1 .. Len(h)
    BY <1>4
  <2> QED BY <1>4, <2>1, <2>2, <2>3
<1> QED BY <1>1, <1>2, <1>3, <1>4, <1>5 DEF n, b

\* The types of the encodings and of the frames.
LEMMA EncodingsTyped ==
  ASSUME NEW ms, Sendable(ms)
  PROVE  /\ Len(ms) \in Nat /\ DOMAIN ms = 1 .. Len(ms)
         /\ Encodings(ms) \in Seq(Seq(Nat)) /\ Len(Encodings(ms)) = Len(ms)
         /\ Cuts(ms) \in Seq(Seq(Seq(Nat))) /\ Len(Cuts(ms)) = Len(ms)
<1>1. ms \in Seq(Transport!ToSet(ms)) /\ Len(ms) \in Nat /\ DOMAIN ms = 1 .. Len(ms)
  BY DEF Sendable
<1>2. \A i \in DOMAIN ms : Transport!Encode(ms[i]) \in Seq(Nat)
  BY Encoded DEF Sendable
<1> DEFINE e(i) == Transport!Encode(ms[i])
           c(i) == IF Len(ms[i].body) > MaxFrame THEN <<>> ELSE <<e(i)>>
<1>3. \A i \in 1 .. Len(ms) : e(i) \in Seq(Nat)
  BY <1>1, <1>2
<1>4. \A i \in 1 .. Len(ms) : c(i) \in Seq(Seq(Nat))
  <2> TAKE i \in 1 .. Len(ms)
  <2>1. e(i) \in Seq(Nat)
    BY <1>3
  <2> HIDE DEF e
  <2> DEFINE D == Seq(Nat)
  <2>2. <<>> \in Seq(D) /\ (e(i) \in D => <<e(i)>> \in Seq(D))
    <3> HIDE DEF D
    <3> QED OBVIOUS
  <2> QED BY <2>1, <2>2
<1>5. Encodings(ms) = [i \in 1 .. Len(ms) |-> e(i)] /\ Cuts(ms) = [i \in 1 .. Len(ms) |-> c(i)]
  BY <1>1 DEF Encodings, Cuts
<1> DEFINE N == Len(ms)
           D == Seq(Nat)
           F == Seq(Seq(Nat))
<1> HIDE DEF e, c, N, D, F
<1>6. \A f : f \in [1 .. N -> D] => f \in Seq(D) /\ Len(f) = N
  BY <1>1 DEF N
<1>7. \A f : f \in [1 .. N -> F] => f \in Seq(F) /\ Len(f) = N
  BY <1>1 DEF N
<1>8. Encodings(ms) \in [1 .. N -> D] /\ Cuts(ms) \in [1 .. N -> F]
  BY <1>3, <1>4, <1>5 DEF N, D, F
<1> QED BY <1>1, <1>6, <1>7, <1>8 DEF N, D, F

\* The first k messages are sendable too, and their bytes are the join so far.
LEMMA Streamed ==
  ASSUME NEW ms, Sendable(ms), NEW acc, Flats(acc, Encodings(ms), Nat), NEW k \in 0 .. Len(ms)
  PROVE  Transport!Stream(SubSeq(ms, 1, k)) = acc[k]
<1> DEFINE some == SubSeq(ms, 1, k)
<1>1. ms \in Seq(Transport!ToSet(ms)) /\ Len(ms) \in Nat /\ k \in Nat /\ k <= Len(ms)
  BY DEF Sendable
<1>2. Len(some) = k /\ DOMAIN some = 1 .. k
      /\ \A i \in 1 .. k : some[i] = ms[i] /\ i \in DOMAIN ms
  BY <1>1
<1>3. Sendable(some)
  <2>1. some \in Seq(Transport!ToSet(some))
    <3>1. some = [i \in 1 .. k |-> some[i]]
      BY <1>1
    <3>2. \A i \in 1 .. k : some[i] \in Transport!ToSet(some)
      BY <1>2 DEF Transport!ToSet
    <3> HIDE DEF some
    <3> QED BY <1>1, <3>1, <3>2
  <2> HIDE DEF some
  <2> QED BY <1>2, <2>1 DEF Sendable
<1> HIDE DEF some
<1>4. Encodings(some) \in Seq(Seq(Nat)) /\ Len(Encodings(some)) = k
  BY <1>2, <1>3, EncodingsTyped
<1>5. PICK b : Flats(b, Encodings(some), Nat)
  BY <1>4, FlatsExist
<1>6. Transport!Stream(some) = b[k]
  BY <1>4, <1>5, FlatsAll DEF Transport!Stream, Encodings
<1>7. \A i \in 1 .. k : Encodings(some)[i] = Encodings(ms)[i]
  BY <1>2 DEF Encodings
<1>8. b[k] = acc[k]
  <2>1. Encodings(ms) \in Seq(Seq(Nat)) /\ Len(Encodings(ms)) = Len(ms)
    BY EncodingsTyped
  <2> DEFINE s == Encodings(some)
             t == Encodings(ms)
  <2>2. /\ s \in Seq(Seq(Nat)) /\ t \in Seq(Seq(Nat)) /\ k <= Len(s) /\ k <= Len(t)
        /\ \A i \in 1 .. k : s[i] = t[i]
        /\ Flats(b, s, Nat) /\ Flats(acc, t, Nat) /\ k \in Nat
    BY <1>1, <1>4, <1>5, <1>7, <2>1
  <2> HIDE DEF s, t
  <2> QED BY <2>2, FlatsAgree
<1> QED BY <1>6, <1>8 DEF some

\* Likewise the frames of the first k messages.
LEMMA CutsJoined ==
  ASSUME NEW ms, Sendable(ms), NEW out, Flats(out, Cuts(ms), Seq(Nat)), NEW k \in 0 .. Len(ms)
  PROVE  Transport!FlattenSeq([i \in 1 .. k |->
           IF Len(ms[i].body) > MaxFrame THEN <<>> ELSE <<Transport!Encode(ms[i])>>]) = out[k]
<1> DEFINE s == Cuts(ms)
           t == [i \in 1 .. k |->
                  IF Len(ms[i].body) > MaxFrame THEN <<>> ELSE <<Transport!Encode(ms[i])>>]
           D == Seq(Nat)
           F == Seq(D)
<1>1. /\ s \in Seq(F) /\ Len(s) = Len(ms) /\ Len(ms) \in Nat /\ DOMAIN ms = 1 .. Len(ms)
      /\ k \in Nat /\ k <= Len(ms)
  BY EncodingsTyped
<1>2. \A i \in 1 .. k : t[i] = s[i] /\ i \in 1 .. Len(s)
  BY <1>1 DEF Cuts
<1>3. t = [i \in 1 .. k |-> t[i]]
  OBVIOUS
<1> HIDE DEF t, s, D, F
<1>4. \A i \in 1 .. k : t[i] \in F
  BY <1>1, <1>2
<1>5. t \in Seq(F) /\ Len(t) = k
  BY <1>1, <1>3, <1>4
<1>6. PICK b : Flats(b, t, D)
  BY <1>5, FlatsExist DEF F
<1>7. Transport!FlattenSeq(t) = b[k]
  BY <1>5, <1>6, FlatsAll DEF F
<1>8. b[k] = out[k]
  <2>1. Flats(out, s, D)
    BY DEF s, D
  <2> QED BY <1>1, <1>2, <1>5, <1>6, <2>1, FlatsAgree DEF F
<1> QED BY <1>7, <1>8 DEF t

\* The pump at byte p of bytes with d bytes to discard, f being what it does later.
Pumped(bytes, f, p, d) ==
  LET n == Len(bytes) - p
      length == Transport!Length(SubSeq(bytes, p + 1, p + 2))
  IN  CASE d > 0 /\ n > 0 -> f[p + (IF n < d THEN n ELSE d)][Transport!Left(d, n)]
        [] n = 0 \/ (d = 0 /\ n = 1) ->
             [frames |-> <<>>, buffer |-> SubSeq(bytes, p + 1, Len(bytes)), discard |-> d]
        [] d = 0 /\ n >= 2 /\ length > MaxFrame -> f[p + 2][length]
        [] d = 0 /\ n >= 2 /\ length <= MaxFrame /\ n < 2 + length ->
             [frames |-> <<>>, buffer |-> SubSeq(bytes, p + 1, Len(bytes)), discard |-> 0]
        [] OTHER -> LET rest == f[p + 2 + length][0]
                    IN  [rest EXCEPT !.frames = <<SubSeq(bytes, p + 1, p + 2 + length)>> \o @]

\* What it does at p, for each number of bytes to discard, and at each p.
PumpRow(bytes, f, p) == [d \in 0 .. Base * Base |-> Pumped(bytes, f, p, d)]
PumpOf(bytes, f) == [p \in 0 .. Len(bytes) |-> PumpRow(bytes, f, p)]

\* The bytes at p say how long the message is.
Told(bytes, p) == Transport!Length(SubSeq(bytes, p + 1, p + 2))

\* What lies between two places of a sequence.
LEMMA Between ==
  ASSUME NEW S, NEW s \in Seq(S), NEW a \in Nat, NEW b \in Nat, a <= b, b <= Len(s)
  PROVE  /\ SubSeq(s, a + 1, b) \in Seq(S) /\ Len(SubSeq(s, a + 1, b)) = b - a
         /\ DOMAIN SubSeq(s, a + 1, b) = 1 .. (b - a)
         /\ \A i \in 1 .. (b - a) : SubSeq(s, a + 1, b)[i] = s[a + i]
OBVIOUS

\* The pump goes on behind the bytes that it has read.
PumpStep(N, bytes, f, p, d) ==
  /\ d > 0 /\ N - p > 0 /\ N - p < d => Pumped(bytes, f, p, d) = f[N][d - (N - p)]
  /\ d > 0 /\ N - p > 0 /\ ~(N - p < d) => Pumped(bytes, f, p, d) = f[p + d][0]
  /\ N = p \/ (d = 0 /\ N - p = 1) =>
       Pumped(bytes, f, p, d)
         = [frames |-> <<>>, buffer |-> SubSeq(bytes, p + 1, N), discard |-> d]
  /\ d = 0 /\ N - p >= 2 /\ Told(bytes, p) \in Nat =>
       IF Told(bytes, p) > MaxFrame THEN Pumped(bytes, f, p, d) = f[p + 2][Told(bytes, p)]
       ELSE IF N - p < 2 + Told(bytes, p)
       THEN Pumped(bytes, f, p, d)
              = [frames |-> <<>>, buffer |-> SubSeq(bytes, p + 1, N), discard |-> 0]
       ELSE Pumped(bytes, f, p, d)
              = [f[p + 2 + Told(bytes, p)][0] EXCEPT
                   !.frames = <<SubSeq(bytes, p + 1, p + 2 + Told(bytes, p))>> \o @]

\* What the pump does at p, case by case.
LEMMA PumpSteps ==
  ASSUME NEW N \in Nat, NEW bytes, Len(bytes) = N, NEW f, NEW p \in 0 .. N, NEW d \in Nat
  PROVE  PumpStep(N, bytes, f, p, d)
<1> DEFINE n == N - p
           length == Told(bytes, p)
<1>0. n \in Nat /\ p + n = N /\ MaxFrame \in Nat /\ Len(bytes) - p = n /\ Len(bytes) = N
  BY ServicesAssumption DEF Transport!TransportAssumption
<1>1. ASSUME d > 0, n > 0, n < d PROVE Pumped(bytes, f, p, d) = f[N][d - n]
  BY <1>0, <1>1 DEF Pumped, Transport!Left
<1>2. ASSUME d > 0, n > 0, ~(n < d) PROVE Pumped(bytes, f, p, d) = f[p + d][0]
  BY <1>0, <1>2 DEF Pumped, Transport!Left
<1>3. ASSUME n = 0 \/ (d = 0 /\ n = 1)
      PROVE  Pumped(bytes, f, p, d)
               = [frames |-> <<>>, buffer |-> SubSeq(bytes, p + 1, N), discard |-> d]
  <2> DEFINE r == [frames |-> <<>>, buffer |-> SubSeq(bytes, p + 1, Len(bytes)), discard |-> d]
             m == Len(bytes) - p
  <2>1. Pumped(bytes, f, p, d) = r
    <3>1. ~(d > 0 /\ m > 0) /\ (m = 0 \/ (d = 0 /\ m = 1)) /\ ~(d = 0 /\ m >= 2)
      BY <1>0, <1>3
    <3> HIDE DEF m, r
    <3> QED BY <3>1 DEF Pumped, m, r
  <2> QED BY <1>0, <2>1
<1>4. ASSUME d = 0, n >= 2, length \in Nat, length > MaxFrame
      PROVE  Pumped(bytes, f, p, d) = f[p + 2][length]
  BY <1>0, <1>4 DEF Pumped, Told
<1>5. ASSUME d = 0, n >= 2, length \in Nat, ~(length > MaxFrame), n < 2 + length
      PROVE  Pumped(bytes, f, p, d)
               = [frames |-> <<>>, buffer |-> SubSeq(bytes, p + 1, N), discard |-> 0]
  BY <1>0, <1>5 DEF Pumped, Told
<1>6. ASSUME d = 0, n >= 2, length \in Nat, ~(length > MaxFrame), ~(n < 2 + length)
      PROVE  Pumped(bytes, f, p, d)
               = [f[p + 2 + length][0] EXCEPT
                    !.frames = <<SubSeq(bytes, p + 1, p + 2 + length)>> \o @]
  BY <1>0, <1>6 DEF Pumped, Told
<1>7. N = p => n = 0
  BY <1>0
<1> HIDE DEF length
<1> QED BY <1>1, <1>2, <1>3, <1>4, <1>5, <1>6, <1>7 DEF length, PumpStep

\* The length in a header is a number, its low byte first.
LEMMA ToldTyped ==
  ASSUME NEW N \in Nat, NEW bytes \in Seq(Nat), Len(bytes) = N, NEW p \in 0 .. N, N - p >= 2
  PROVE  Told(bytes, p) \in Nat /\ Told(bytes, p) = bytes[p + 1] + Base * bytes[p + 2]
<1> DEFINE h == SubSeq(bytes, p + 1, p + 2)
<1>1. p \in Nat /\ p + 2 \in Nat /\ p <= p + 2 /\ p + 2 <= Len(bytes) /\ (p + 2) - p = 2
  OBVIOUS
<1>2. Len(h) = 2 /\ \A i \in 1 .. 2 : h[i] = bytes[p + i]
  BY <1>1, Between
<1> HIDE DEF h
<1>3. h[1] = bytes[p + 1] /\ h[2] = bytes[p + 2] /\ bytes[p + 1] \in Nat /\ bytes[p + 2] \in Nat
  BY <1>1, <1>2
<1>4. Base \in Nat
  BY ServicesAssumption DEF Transport!TransportAssumption
<1>5. Base * h[2] \in Nat
  BY <1>3, <1>4
<1> QED BY <1>3, <1>5 DEF Told, Transport!Length, h

\* It reads f only at places behind p.
LEMMA PumpReads ==
  ASSUME NEW N \in Nat, NEW bytes \in Seq(Nat), Len(bytes) = N, NEW p \in 0 .. N, NEW d \in Nat,
         NEW f, NEW g, \A q \in (p + 1) .. N : f[q] = g[q]
  PROVE  Pumped(bytes, f, p, d) = Pumped(bytes, g, p, d)
<1>0. PumpStep(N, bytes, f, p, d) /\ PumpStep(N, bytes, g, p, d)
  BY PumpSteps
<1>1. CASE N = p \/ (d = 0 /\ N - p = 1)
  BY <1>0, <1>1 DEF PumpStep
<1>2. CASE d > 0 /\ N - p > 0
  <2>1. N \in (p + 1) .. N /\ (~(N - p < d) => p + d \in (p + 1) .. N)
    BY <1>2
  <2> QED BY <1>0, <1>2, <2>1 DEF PumpStep
<1>3. CASE d = 0 /\ N - p >= 2
  <2> DEFINE t == Told(bytes, p)
  <2>1. t \in Nat
    BY <1>3, ToldTyped
  <2> HIDE DEF t
  <2>2. p + 2 \in (p + 1) .. N /\ (~(N - p < 2 + t) => p + 2 + t \in (p + 1) .. N)
    BY <1>3, <2>1
  <2> QED BY <1>0, <1>3, <2>1, <2>2, ZenonT(30) DEF PumpStep, t
<1> QED BY <1>1, <1>2, <1>3

\* Nor does the row at p.
LEMMA RowReads ==
  ASSUME NEW N \in Nat, NEW bytes \in Seq(Nat), Len(bytes) = N, NEW p \in 0 .. N,
         NEW f, NEW g, \A q \in (p + 1) .. N : f[q] = g[q]
  PROVE  PumpRow(bytes, f, p) = PumpRow(bytes, g, p)
<1> DEFINE B == 0 .. Base * Base
<1>1. B \subseteq Nat
  OBVIOUS
<1> HIDE DEF B
<1>2. \A d \in B : Pumped(bytes, f, p, d) = Pumped(bytes, g, p, d)
  <2> TAKE d \in B
  <2>1. d \in Nat
    BY <1>1
  <2> HIDE DEF B
  <2> QED BY <2>1, PumpReads
<1>3. PumpRow(bytes, f, p) = [d \in B |-> Pumped(bytes, f, p, d)]
      /\ PumpRow(bytes, g, p) = [d \in B |-> Pumped(bytes, g, p, d)]
  BY DEF PumpRow, B
<1> QED BY <1>2, <1>3

\* The recursion of the pump has a solution: from the last byte to the first.
LEMMA PumpExists ==
  ASSUME NEW bytes \in Seq(Nat)
  PROVE  \E f : f = PumpOf(bytes, f)
<1> DEFINE N == Len(bytes)
           Solves(f, k) == /\ f = [p \in 0 .. N |-> f[p]]
                           /\ \A p \in (N + 1 - k) .. N : f[p] = PumpRow(bytes, f, p)
           T == {k \in 0 .. (N + 1) : \E f : Solves(f, k)}
<1>1. N \in Nat
  OBVIOUS
<1> HIDE DEF N
<1>2. 0 \in T
  <2> DEFINE f == [p \in 0 .. N |-> 0]
  <2>1. f = [p \in 0 .. N |-> f[p]]
    OBVIOUS
  <2>2. (N + 1 - 0) .. N = {}
    BY <1>1
  <2> HIDE DEF f
  <2>3. Solves(f, 0)
    BY <2>1, <2>2
  <2> QED BY <1>1, <2>3
<1>3. ASSUME NEW k \in 0 .. ((N + 1) - 1), k \in T PROVE k + 1 \in T
  <2>1. PICK f : Solves(f, k)
    BY <1>3
  <2> DEFINE p0 == N - k
             r == PumpRow(bytes, f, p0)
             g == [p \in 0 .. N |-> IF p = p0 THEN r ELSE f[p]]
  <2>2. p0 \in 0 .. N /\ k + 1 \in 0 .. (N + 1) /\ N + 1 - (k + 1) = p0 /\ N + 1 - k = p0 + 1
    BY <1>1
  <2> HIDE DEF r, p0
  <2>3. g[p0] = r /\ g = [p \in 0 .. N |-> g[p]] /\ \A q \in 0 .. N : q # p0 => g[q] = f[q]
    BY <2>2
  <2> HIDE DEF g
  <2>4. \A q \in (p0 + 1) .. N : g[q] = f[q]
    BY <1>1, <2>2, <2>3
  <2>5. ASSUME NEW p \in p0 .. N PROVE g[p] = PumpRow(bytes, g, p)
    <3>1. p \in 0 .. N /\ \A q \in (p + 1) .. N : q \in (p0 + 1) .. N
      BY <1>1, <2>2
    <3>2. PumpRow(bytes, f, p) = PumpRow(bytes, g, p)
      <4>1. \A q \in (p + 1) .. N : f[q] = g[q]
        BY <2>4, <3>1
      <4> QED BY <1>1, <3>1, <4>1, RowReads DEF N
    <3>3. CASE p = p0
      BY <2>3, <3>2, <3>3 DEF r
    <3>4. CASE p # p0
      <4>1. p \in (p0 + 1) .. N
        BY <1>1, <2>2, <3>4
      <4> QED BY <2>1, <2>2, <2>4, <3>2, <4>1
    <3> QED BY <3>3, <3>4
  <2>6. Solves(g, k + 1)
    BY <2>2, <2>3, <2>5
  <2> QED BY <2>2, <2>6
<1>4. N + 1 \in Nat /\ N + 1 \in 0 .. (N + 1) /\ N + 1 - (N + 1) = 0
  BY <1>1
<1>5. N + 1 \in T
  <2> HIDE DEF T
  <2>1. \A k \in 0 .. (N + 1) : k \in T
    BY <1>2, <1>3, <1>4, UpTo
  <2> QED BY <1>4, <2>1
<1>6. PICK f : Solves(f, N + 1)
  BY <1>5
<1>7. f = [p \in 0 .. N |-> f[p]] /\ \A p \in 0 .. N : f[p] = PumpRow(bytes, f, p)
  BY <1>4, <1>6
<1>8. f = [p \in 0 .. N |-> PumpRow(bytes, f, p)]
  BY <1>7
<1>9. f = PumpOf(bytes, f)
  BY <1>8 DEF PumpOf, N
<1> QED BY <1>9

\* What a chunk is fed to is such a solution.
LEMMA FedPumps ==
  ASSUME NEW chunk, buffer \o chunk \in Seq(Nat)
  PROVE  \E f : f = PumpOf(buffer \o chunk, f) /\ Transport!Fed(chunk) = f[0][discard]
<1> DEFINE both == buffer \o chunk
           f == CHOOSE g : g = PumpOf(both, g)
<1>1. f = PumpOf(both, f)
  <2> HIDE DEF both
  <2>1. both \in Seq(Nat)
    BY DEF both
  <2> QED BY <2>1, PumpExists
<1>2. Transport!Fed(chunk) = f[0][discard]
  BY DEF Transport!Fed, PumpOf, PumpRow, Pumped
<1> QED BY <1>1, <1>2

-------------------------------------------------------------------------------
(* The native transport: where the pump stands on the wire.                  *)

\* The messages ms, joined to bytes in acc and to frames in out.
Wire(ms, acc, out) ==
  /\ Sendable(ms)
  /\ Flats(acc, Encodings(ms), Nat)
  /\ Flats(out, Cuts(ms), Seq(Nat))

\* Message i, behind the first k, on the wire: where its bytes lie, and what
\* is cut of it.
OnWire(ms, acc, out, k, i) ==
  /\ Len(ms[i].body) \in 0 .. Base * Base
  /\ Len(acc[k]) \in Nat /\ Len(acc[i]) \in Nat
  /\ Len(acc[i]) = Len(acc[k]) + 2 + Len(ms[i].body)
  /\ Len(acc[i]) <= Len(acc[Len(ms)])
  /\ \A j \in 1 .. (2 + Len(ms[i].body)) :
       acc[Len(ms)][Len(acc[k]) + j] = Transport!Encode(ms[i])[j]
  /\ Transport!Encode(ms[i]) \in Seq(Nat)
  /\ Len(Transport!Encode(ms[i])) = 2 + Len(ms[i].body)
  /\ Transport!Encode(ms[i])[1] + Base * Transport!Encode(ms[i])[2] = Len(ms[i].body)
  /\ out[i] \in Seq(Seq(Nat)) /\ out[k] \in Seq(Seq(Nat))
  /\ out[i] = out[k] \o (IF Len(ms[i].body) > MaxFrame THEN <<>> ELSE <<Transport!Encode(ms[i])>>)

\* So are they all.
LEMMA Marks ==
  ASSUME NEW ms, NEW acc, NEW out, Wire(ms, acc, out), NEW k \in 1 .. Len(ms)
  PROVE  OnWire(ms, acc, out, k - 1, k)
<1> DEFINE e == Encodings(ms)
           c == Cuts(ms)
<1>1. /\ Len(ms) \in Nat /\ DOMAIN ms = 1 .. Len(ms)
      /\ e \in Seq(Seq(Nat)) /\ Len(e) = Len(ms) /\ c \in Seq(Seq(Seq(Nat))) /\ Len(c) = Len(ms)
  BY EncodingsTyped DEF Wire
<1>2. ms[k].body \in Seq(Nat) /\ Len(ms[k].body) <= Base * Base
  BY <1>1 DEF Wire, Sendable
<1>3. /\ Transport!Encode(ms[k]) \in Seq(Nat)
      /\ Len(ms[k].body) \in Nat /\ Len(Transport!Encode(ms[k])) = 2 + Len(ms[k].body)
      /\ Transport!Encode(ms[k])[1] + Base * Transport!Encode(ms[k])[2] = Len(ms[k].body)
  BY <1>2, Encoded
<1>4. e[k] = Transport!Encode(ms[k])
      /\ c[k] = IF Len(ms[k].body) > MaxFrame THEN <<>> ELSE <<Transport!Encode(ms[k])>>
  BY <1>1 DEF Encodings, Cuts
<1>5. Flats(acc, e, Nat) /\ Flats(out, c, Seq(Nat))
  BY DEF Wire
<1> HIDE DEF e, c
<1>6. /\ Follows(acc, e, k) /\ Len(acc[k]) <= Len(acc[Len(ms)])
      /\ \A j \in 1 .. Len(e[k]) : acc[Len(ms)][Len(acc[k - 1]) + j] = e[k][j]
  <2>1. k \in 1 .. Len(e)
    BY <1>1
  <2>2. Follows(acc, e, k)
    BY <1>1, <1>5, <2>1, FlatsStep
  <2>3. /\ Len(acc[k]) <= Len(acc[Len(e)])
        /\ \A j \in 1 .. Len(e[k]) : acc[Len(e)][Len(acc[k - 1]) + j] = e[k][j]
    BY <1>1, <1>5, <2>1, FlatsPlace, SMTT(30)
  <2> QED BY <1>1, <2>2, <2>3
<1>7. /\ Len(acc[k - 1]) \in Nat /\ Len(acc[k]) = Len(acc[k - 1]) + Len(e[k])
  BY <1>6 DEF Follows
<1>8. out[k] = out[k - 1] \o c[k] /\ out[k] \in Seq(Seq(Nat)) /\ out[k - 1] \in Seq(Seq(Nat))
  <2> DEFINE D == Seq(Nat)
  <2>1. c \in Seq(Seq(D)) /\ Flats(out, c, D) /\ k \in 1 .. Len(c)
    BY <1>1, <1>5
  <2> HIDE DEF D
  <2>2. out[k] \in Seq(D) /\ out[k - 1] \in Seq(D) /\ Follows(out, c, k)
    BY <2>1, FlatsStep
  <2> QED BY <2>2 DEF D, Follows
<1>9. Len(ms[k].body) \in 0 .. Base * Base
  <2> DEFINE b == Base * Base
  <2>1. b \in Int /\ Len(ms[k].body) <= b /\ Len(ms[k].body) \in Nat
    BY <1>2, <1>3, ServicesAssumption DEF Transport!TransportAssumption
  <2> HIDE DEF b
  <2>2. Len(ms[k].body) \in 0 .. b
    BY <2>1
  <2> QED BY <2>2 DEF b
<1>10. Len(e[k]) = 2 + Len(ms[k].body)
  BY <1>3, <1>4
<1>11. Len(acc[k]) = Len(acc[k - 1]) + 2 + Len(ms[k].body) /\ Len(acc[k]) \in Nat
  <2> DEFINE x == Len(acc[k - 1])
             y == Len(e[k])
             w == Len(ms[k].body)
             z == Len(acc[k])
  <2>1. x \in Nat /\ w \in Nat /\ z = x + y /\ y = 2 + w
    BY <1>3, <1>7, <1>10
  <2> HIDE DEF x, y, w, z
  <2>2. z = x + 2 + w /\ z \in Nat
    BY <2>1
  <2> QED BY <2>2 DEF x, y, w, z
<1>12. \A j \in 1 .. (2 + Len(ms[k].body)) :
         acc[Len(ms)][Len(acc[k - 1]) + j] = Transport!Encode(ms[k])[j]
  BY <1>4, <1>6, <1>10
<1> QED BY <1>3, <1>4, <1>6, <1>7, <1>8, <1>9, <1>11, <1>12 DEF OnWire

\* The pump has cut k messages and stands at a byte of the wire, d to discard.
Ready(ms, acc, k, place, d) ==
  \/ d = 0 /\ place = Len(acc[k])
  \/ /\ d > 0 /\ k < Len(ms) /\ Len(ms[k + 1].body) > MaxFrame
     /\ Len(acc[k]) + 2 <= place /\ place + d = Len(acc[k + 1])

\* It waits, after a bytes: all whole messages are cut, and either the bytes
\* of the next one are kept or those to come of it are to be discarded.
Waits(ms, acc, k, kept, d, a) ==
  \/ /\ d = 0 /\ Len(acc[k]) <= a /\ kept = SubSeq(acc[Len(ms)], Len(acc[k]) + 1, a)
     /\ k < Len(ms) => \/ a < Len(acc[k]) + 2
                       \/ Len(ms[k + 1].body) <= MaxFrame /\ a < Len(acc[k + 1])
  \/ /\ k < Len(ms) /\ Len(ms[k + 1].body) > MaxFrame
     /\ Len(acc[k]) + 2 <= a /\ a < Len(acc[k + 1])
     /\ d = Len(acc[k + 1]) - a /\ kept = <<>>

\* From k messages cut the pump comes to wait after a bytes.
Comes(ms, acc, out, k, r, a) ==
  \E i \in k .. Len(ms) :
    /\ r \in [frames : Seq(Seq(Nat)), buffer : Seq(Nat), discard : 0 .. Base * Base]
    /\ out[i] = out[k] \o r.frames
    /\ Waits(ms, acc, i, r.buffer, r.discard, a)

\* The bytes are those of the wire behind its first o.
Piece(stream, bytes, o) ==
  /\ bytes \in Seq(Nat) /\ o \in Nat /\ o + Len(bytes) <= Len(stream)
  /\ \A j \in 1 .. Len(bytes) : bytes[j] = stream[o + j]

\* What is claimed of the pump at byte p of them.
Pumps(ms, acc, out, bytes, o, f, p) ==
  \A k \in 0 .. Len(ms), d \in 0 .. Base * Base :
    Ready(ms, acc, k, o + p, d) => Comes(ms, acc, out, k, f[p][d], o + Len(bytes))

\* What the pump keeps is a part of the wire.
LEMMA KeptBytes ==
  ASSUME NEW stream \in Seq(Nat), NEW bytes, NEW o \in Nat, Piece(stream, bytes, o),
         NEW p \in Nat, NEW q \in Nat, p <= q, q <= Len(bytes)
  PROVE  SubSeq(bytes, p + 1, q) = SubSeq(stream, o + p + 1, o + q)
<1> DEFINE s == SubSeq(bytes, p + 1, q)
           t == SubSeq(stream, o + p + 1, o + q)
<1>1. /\ bytes \in Seq(Nat) /\ Len(bytes) \in Nat /\ o \in Nat /\ p \in Nat /\ q \in Nat /\ p <= q
      /\ q <= Len(bytes) /\ o + p \in Nat /\ o + q \in Nat /\ o + p <= o + q
      /\ o + q <= Len(stream)
      /\ (o + q) - (o + p) = q - p
  BY DEF Piece
<1>2. s \in Seq(Nat) /\ Len(s) = q - p /\ \A i \in 1 .. (q - p) : s[i] = bytes[p + i]
  BY <1>1, Between
<1>3. t \in Seq(Nat) /\ Len(t) = q - p /\ \A i \in 1 .. (q - p) : t[i] = stream[o + p + i]
  BY <1>1, Between
<1>4. \A i \in 1 .. (q - p) : s[i] = t[i]
  <2> TAKE i \in 1 .. (q - p)
  <2>1. p + i \in 1 .. Len(bytes) /\ o + (p + i) = o + p + i
    BY <1>1
  <2>2. bytes[p + i] = stream[o + p + i]
    BY <2>1 DEF Piece
  <2> QED BY <1>2, <1>3, <2>2
<1> HIDE DEF s, t
<1> DEFINE n == q - p
<1>5. s = [i \in 1 .. n |-> s[i]] /\ t = [i \in 1 .. n |-> t[i]]
  BY <1>2, <1>3
<1> HIDE DEF n
<1>6. s = t
  BY <1>4, <1>5 DEF n
<1> QED BY <1>6 DEF s, t

\* The row of the pump at one place.
LEMMA RowAt ==
  ASSUME NEW N \in Nat, NEW bytes, Len(bytes) = N, NEW f, f = PumpOf(bytes, f),
         NEW p \in 0 .. N, NEW d \in 0 .. Base * Base
  PROVE  f[p][d] = Pumped(bytes, f, p, d)
<1> DEFINE B == 0 .. Base * Base
           g == [q \in 0 .. N |-> [e \in B |-> Pumped(bytes, f, q, e)]]
<1>1. f = g
  BY DEF PumpOf, PumpRow
<1>2. g[p][d] = Pumped(bytes, f, p, d)
  <2> HIDE DEF B
  <2>1. g[p] = [e \in B |-> Pumped(bytes, f, p, e)]
    OBVIOUS
  <2>2. d \in B
    BY DEF B
  <2> HIDE DEF g
  <2> QED BY <2>1, <2>2
<1> HIDE DEF g
<1> QED BY <1>1, <1>2

\* The message behind the first k of them.
LEMMA MarksNext ==
  ASSUME NEW ms, NEW acc, NEW out, Wire(ms, acc, out), NEW k \in 0 .. Len(ms), k < Len(ms)
  PROVE  OnWire(ms, acc, out, k, k + 1)
<1> DEFINE i == k + 1
<1>1. Len(ms) \in Nat
  BY EncodingsTyped DEF Wire
<1>2. i \in 1 .. Len(ms) /\ i - 1 = k
  BY <1>1
<1> HIDE DEF i
<1>3. OnWire(ms, acc, out, i - 1, i)
  BY <1>2, Marks
<1> QED BY <1>2, <1>3 DEF i

\* What comes of the place that it goes on from, with nothing cut between.
LEMMA ComesFrom ==
  ASSUME NEW ms, NEW acc, NEW out, NEW bytes, NEW o, NEW f,
         NEW q, Pumps(ms, acc, out, bytes, o, f, q),
         NEW d \in 0 .. Base * Base, NEW i, NEW k \in 0 .. Len(ms), i \in 0 .. k,
         Ready(ms, acc, k, o + q, d), out[k] = out[i], Len(ms) \in Nat
  PROVE  Comes(ms, acc, out, i, f[q][d], o + Len(bytes))
<1>1. Comes(ms, acc, out, k, f[q][d], o + Len(bytes))
  BY DEF Pumps
<1>2. k .. Len(ms) \subseteq i .. Len(ms)
  OBVIOUS
<1> QED BY <1>1, <1>2 DEF Comes

\* A discard goes on, or ends with the bytes of the message.
LEMMA DiscardAt ==
  ASSUME NEW ms, NEW acc, NEW out, Wire(ms, acc, out), NEW bytes, NEW o,
         Piece(acc[Len(ms)], bytes, o), NEW f, f = PumpOf(bytes, f),
         NEW p \in 0 .. Len(bytes),
         \A q \in (p + 1) .. Len(bytes) : Pumps(ms, acc, out, bytes, o, f, q),
         NEW k \in 0 .. Len(ms), NEW d \in 0 .. Base * Base, d > 0, Ready(ms, acc, k, o + p, d)
  PROVE  Comes(ms, acc, out, k, f[p][d], o + Len(bytes))
<1> DEFINE N == Len(bytes)
           low == Len(acc[k])
           high == Len(acc[k + 1])
           B == Base * Base
<1>1. N \in Nat /\ o \in Nat /\ Len(ms) \in Nat /\ bytes \in Seq(Nat) /\ B \in Int
  BY EncodingsTyped, ServicesAssumption DEF Piece, Wire, Transport!TransportAssumption
<1>2. /\ k < Len(ms) /\ Len(ms[k + 1].body) > MaxFrame /\ low + 2 <= o + p /\ o + p + d = high
  BY DEF Ready
<1>3. k + 1 \in 1 .. Len(ms) /\ (k + 1) - 1 = k /\ k + 1 \in 0 .. Len(ms) /\ k \in 0 .. (k + 1)
  BY <1>1, <1>2
<1>4. /\ low \in Nat /\ high \in Nat /\ out[k] \in Seq(Seq(Nat))
      /\ out[k + 1] = out[k] \o <<>>
  <2>1. OnWire(ms, acc, out, k, k + 1)
    BY <1>2, MarksNext
  <2> QED BY <1>2, <2>1 DEF OnWire
<1>5. out[k + 1] = out[k]
  BY <1>4
<1>6. f[p][d] = Pumped(bytes, f, p, d) /\ PumpStep(N, bytes, f, p, d)
  BY <1>1, RowAt, PumpSteps
<1>7. /\ p \in Nat /\ p <= N /\ d \in Nat /\ d <= B /\ d > 0
      /\ \A q \in (p + 1) .. N : Pumps(ms, acc, out, bytes, o, f, q)
  BY <1>1
<1> HIDE DEF N, low, high, B
<1>8. CASE N - p > 0 /\ N - p < d
  <2> DEFINE e == d - (N - p)
  <2>1. f[p][d] = f[N][e]
    BY <1>6, <1>7, <1>8 DEF PumpStep
  <2>2. N \in (p + 1) .. N /\ e \in 0 .. B /\ e > 0 /\ low + 2 <= o + N /\ o + N + e = high
    BY <1>1, <1>2, <1>4, <1>7, <1>8
  <2> HIDE DEF e
  <2>3. Ready(ms, acc, k, o + N, e)
    BY <1>2, <2>2 DEF Ready, low, high
  <2>4. Pumps(ms, acc, out, bytes, o, f, N) /\ k \in 0 .. k
    BY <1>7, <2>2
  <2> QED BY <1>1, <2>1, <2>2, <2>3, <2>4, ComesFrom DEF N, B
<1>9. CASE N - p > 0 /\ ~(N - p < d)
  <2>1. f[p][d] = f[p + d][0]
    BY <1>6, <1>7, <1>9 DEF PumpStep
  <2>2. p + d \in (p + 1) .. N /\ o + (p + d) = high /\ 0 \in 0 .. B
    BY <1>1, <1>2, <1>4, <1>7, <1>9
  <2>3. Ready(ms, acc, k + 1, o + (p + d), 0)
    BY <2>2 DEF Ready, high
  <2>4. Pumps(ms, acc, out, bytes, o, f, p + d)
    BY <1>7, <2>2
  <2> QED BY <1>1, <1>3, <1>5, <2>1, <2>2, <2>3, <2>4, ComesFrom DEF B
<1>10. CASE N = p
  <2> DEFINE r == [frames |-> <<>>, buffer |-> SubSeq(bytes, p + 1, N), discard |-> d]
             none == SubSeq(bytes, p + 1, N)
  <2>1. f[p][d] = r
    BY <1>6, <1>10 DEF PumpStep
  <2>2. none = <<>>
    BY <1>1, <1>7, <1>10
  <2>3. /\ r.frames = <<>> /\ r.buffer = <<>> /\ r.discard = d
        /\ r \in [frames : Seq(Seq(Nat)), buffer : Seq(Nat), discard : 0 .. B]
    <3>1. <<>> \in Seq(Seq(Nat)) /\ <<>> \in Seq(Nat) /\ d \in 0 .. B
      BY <1>1, <1>7
    <3> QED BY <2>2, <3>1
  <2> HIDE DEF r, none
  <2>4. out[k] = out[k] \o r.frames
    BY <1>4, <2>3
  <2>5. d = high - (o + N) /\ o + N < high /\ low + 2 <= o + N
    BY <1>1, <1>2, <1>4, <1>7, <1>10
  <2>6. Waits(ms, acc, k, r.buffer, r.discard, o + N)
    BY <1>2, <2>3, <2>5 DEF Waits, low, high
  <2>7. k \in k .. Len(ms)
    BY <1>1, <1>2
  <2> QED BY <2>1, <2>3, <2>4, <2>6, <2>7 DEF Comes, N, B
<1> QED BY <1>1, <1>7, <1>8, <1>9, <1>10

\* The header at the mark of k messages is that of the next message.
LEMMA HeaderAt ==
  ASSUME NEW ms, NEW acc, NEW out, Wire(ms, acc, out), NEW bytes, NEW o,
         Piece(acc[Len(ms)], bytes, o), NEW p \in 0 .. Len(bytes), Len(bytes) - p >= 2,
         NEW k \in 0 .. Len(ms), k < Len(ms), o + p = Len(acc[k])
  PROVE  Told(bytes, p) = Len(ms[k + 1].body)
<1> DEFINE N == Len(bytes)
           x == Transport!Encode(ms[k + 1])
           w == acc[Len(ms)]
           n == Len(ms[k + 1].body)
<1>1. bytes \in Seq(Nat) /\ N \in Nat /\ o \in Nat /\ p \in Nat
  BY DEF Piece
<1>2. Told(bytes, p) = bytes[p + 1] + Base * bytes[p + 2]
  BY <1>1, ToldTyped
<1>3. /\ x[1] + Base * x[2] = n /\ n \in Nat
      /\ \A j \in 1 .. (2 + n) : w[Len(acc[k]) + j] = x[j]
  <2>1. OnWire(ms, acc, out, k, k + 1)
    BY MarksNext
  <2> QED BY <2>1 DEF OnWire
<1> HIDE DEF x, w, n
<1>4. w[o + p + 1] = x[1] /\ w[o + p + 2] = x[2]
  <2>1. 1 \in 1 .. (2 + n) /\ 2 \in 1 .. (2 + n)
    BY <1>3
  <2> QED BY <1>3, <2>1
<1>5. bytes[p + 1] = w[o + p + 1] /\ bytes[p + 2] = w[o + p + 2]
  <2>1. p + 1 \in 1 .. N /\ p + 2 \in 1 .. N /\ o + (p + 1) = o + p + 1 /\ o + (p + 2) = o + p + 2
    BY <1>1
  <2>2. bytes[p + 1] = w[o + (p + 1)] /\ bytes[p + 2] = w[o + (p + 2)]
    BY <2>1 DEF Piece, w
  <2> QED BY <2>1, <2>2
<1> QED BY <1>2, <1>3, <1>4, <1>5 DEF x, n

\* The bytes of the frame at the mark of k messages are those of the next one.
LEMMA FrameBytes ==
  ASSUME NEW ms, NEW acc, NEW out, Wire(ms, acc, out), NEW bytes, NEW o,
         Piece(acc[Len(ms)], bytes, o), NEW p \in 0 .. Len(bytes),
         NEW k \in 0 .. Len(ms), k < Len(ms), o + p = Len(acc[k]),
         p + 2 + Len(ms[k + 1].body) <= Len(bytes)
  PROVE  SubSeq(bytes, p + 1, p + 2 + Len(ms[k + 1].body)) = Transport!Encode(ms[k + 1])
<1> DEFINE x == Transport!Encode(ms[k + 1])
           w == acc[Len(ms)]
           n == Len(ms[k + 1].body)
           b == Base * Base
           q == p + 2 + n
           s == SubSeq(bytes, p + 1, q)
           N == Len(bytes)
<1>1. bytes \in Seq(Nat) /\ N \in Nat /\ o \in Nat /\ p \in Nat
  BY DEF Piece
<1>2. /\ x \in Seq(Nat) /\ Len(x) = 2 + n /\ n \in Nat
      /\ \A j \in 1 .. (2 + n) : w[Len(acc[k]) + j] = x[j]
  <2>1. OnWire(ms, acc, out, k, k + 1)
    BY MarksNext
  <2> QED BY <2>1 DEF OnWire
<1> HIDE DEF x, n, w
<1>3. q \in Nat /\ p <= q /\ q <= N /\ q - p = 2 + n
  <2>1. p + 2 + n <= N
    BY DEF n
  <2> HIDE DEF N
  <2> QED BY ONLY <1>1, <1>2, <2>1
<1>8. N <= Len(bytes) /\ o + p = Len(acc[k])
  OBVIOUS
<1> HIDE DEF q
<1>4. s \in Seq(Nat) /\ Len(s) = 2 + n /\ \A j \in 1 .. (2 + n) : s[j] = bytes[p + j]
  BY <1>1, <1>3, Between, SMTT(30)
<1>5. \A j \in 1 .. (2 + n) : s[j] = x[j]
  <2> TAKE j \in 1 .. (2 + n)
  <2>1. p + j \in 1 .. N /\ o + (p + j) = Len(acc[k]) + j
    <3>1. j \in Nat /\ 1 <= j /\ j <= 2 + n
      BY <1>2
    <3>2. o + (p + j) = (o + p) + j
      BY ONLY <1>1, <3>1
    <3>3. p + j \in 1 .. N
      <4> HIDE DEF N
      <4>1. N \in Nat /\ p \in Nat /\ n \in Nat /\ q \in Nat /\ q <= N /\ q - p = 2 + n
        BY ONLY <1>1, <1>2, <1>3
      <4> QED BY ONLY <3>1, <4>1
    <3> QED BY ONLY <1>8, <3>2, <3>3
  <2>2. bytes[p + j] = w[o + (p + j)]
    BY <2>1 DEF Piece, w
  <2> QED BY <1>2, <1>4, <2>1, <2>2
<1> HIDE DEF s
<1> DEFINE m == 2 + n
<1>6. s = [j \in 1 .. m |-> s[j]] /\ x = [j \in 1 .. m |-> x[j]]
  BY <1>2, <1>4
<1> HIDE DEF m
<1>7. s = x
  BY <1>5, <1>6 DEF m
<1> QED BY <1>7 DEF s, x, q, n

\* What is kept at the mark of k messages, while the next is not whole.
LEMMA KeepsAt ==
  ASSUME NEW ms, NEW acc, NEW out, Wire(ms, acc, out), NEW bytes, NEW o,
         Piece(acc[Len(ms)], bytes, o), NEW f, NEW p \in 0 .. Len(bytes),
         NEW k \in 0 .. Len(ms), o + p = Len(acc[k]),
         f[p][0] = [frames |-> <<>>, buffer |-> SubSeq(bytes, p + 1, Len(bytes)), discard |-> 0],
         out[k] \in Seq(Seq(Nat)),
         k < Len(ms) => \/ Len(bytes) - p < 2
                        \/ Len(ms[k + 1].body) <= MaxFrame
                           /\ o + Len(bytes) < Len(acc[k + 1])
  PROVE  Comes(ms, acc, out, k, f[p][0], o + Len(bytes))
<1> DEFINE N == Len(bytes)
           kept == SubSeq(bytes, p + 1, N)
           r == [frames |-> <<>>, buffer |-> kept, discard |-> 0]
           low == Len(acc[k])
           w == acc[Len(ms)]
<1>1. /\ bytes \in Seq(Nat) /\ N \in Nat /\ o \in Nat /\ p \in Nat /\ Len(ms) \in Nat /\ p <= N
      /\ Base * Base \in Nat /\ w \in Seq(Nat)
  <2>1. Encodings(ms) \in Seq(Seq(Nat)) /\ Len(Encodings(ms)) = Len(ms) /\ Len(ms) \in Nat
    BY EncodingsTyped DEF Wire
  <2>2. w \in Seq(Nat)
    BY <2>1 DEF Wire, Flats
  <2>3. Base * Base \in Nat
    BY ServicesAssumption DEF Transport!TransportAssumption
  <2> QED BY <2>1, <2>2, <2>3 DEF Piece
<1> HIDE DEF w
<1>2. kept \in Seq(Nat)
  <2> HIDE DEF N
  <2>1. p \in Nat /\ N \in Nat /\ p <= N /\ N <= Len(bytes)
    BY <1>1 DEF N
  <2> QED BY ONLY <1>1, <2>1, Between
<1>3. kept = SubSeq(w, o + p + 1, o + N)
  <2>1. Piece(w, bytes, o) /\ p <= N /\ N <= Len(bytes)
    BY <1>1 DEF w
  <2> HIDE DEF N
  <2>2. o \in Nat /\ p \in Nat /\ N \in Nat /\ w \in Seq(Nat)
    BY <1>1
  <2> HIDE DEF kept
  <2>3. SubSeq(bytes, p + 1, N) = SubSeq(w, o + p + 1, o + N)
    BY ONLY <2>1, <2>2, KeptBytes, SMTT(30)
  <2> QED BY <2>3 DEF kept
<1> HIDE DEF kept
<1>4. /\ r.frames = <<>> /\ r.buffer = kept /\ r.discard = 0
      /\ r \in [frames : Seq(Seq(Nat)), buffer : Seq(Nat), discard : 0 .. Base * Base]
  <2> DEFINE B == Base * Base
  <2>1. <<>> \in Seq(Seq(Nat)) /\ B \in Nat
    BY <1>1
  <2> HIDE DEF B
  <2>2. 0 \in 0 .. B
    BY <2>1
  <2> QED BY <1>2, <2>1, <2>2 DEF B
<1>5. f[p][0] = r
  BY DEF kept
<1> HIDE DEF r, N, low
<1>6. out[k] = out[k] \o r.frames
  BY <1>4
<1>7. /\ low <= o + N /\ kept = SubSeq(w, low + 1, o + N)
      /\ k < Len(ms) => \/ o + N < low + 2
                        \/ Len(ms[k + 1].body) <= MaxFrame /\ o + N < Len(acc[k + 1])
  <2>1. o + p = low
    BY DEF low
  <2>2. low <= o + N /\ (N - p < 2 => o + N < low + 2)
    <3>1. N \in Nat /\ o \in Nat /\ p \in Nat /\ p <= N /\ o + p = low
      BY <1>1, <2>1 DEF N
    <3> HIDE DEF N, low
    <3> QED BY ONLY <3>1
  <2> QED BY <1>3, <2>1, <2>2 DEF N
<1>8. Waits(ms, acc, k, r.buffer, r.discard, o + N)
  BY <1>4, <1>7 DEF Waits, low, w
<1>9. k \in k .. Len(ms)
  BY <1>1
<1> QED BY <1>4, <1>5, <1>6, <1>8, <1>9 DEF Comes, N

\* A join of three sequences.
LEMMA JoinsAssociate ==
  ASSUME NEW S, NEW u \in Seq(S), NEW v \in Seq(S), NEW w \in Seq(S)
  PROVE  (u \o v) \o w = u \o (v \o w)
OBVIOUS

\* One frame more in front of what comes.
LEMMA ComesAfter ==
  ASSUME NEW ms, NEW acc, NEW out, NEW k \in 0 .. Len(ms), k < Len(ms), NEW rest, NEW r, NEW a,
         NEW x \in Seq(Nat), Len(ms) \in Nat,
         Comes(ms, acc, out, k + 1, rest, a),
         out[k] \in Seq(Seq(Nat)), out[k + 1] = out[k] \o <<x>>,
         r = [rest EXCEPT !.frames = <<x>> \o @]
  PROVE  Comes(ms, acc, out, k, r, a)
<1>1. PICK i \in (k + 1) .. Len(ms) :
        /\ rest \in [frames : Seq(Seq(Nat)), buffer : Seq(Nat), discard : 0 .. Base * Base]
        /\ out[i] = out[k + 1] \o rest.frames
        /\ Waits(ms, acc, i, rest.buffer, rest.discard, a)
  BY DEF Comes
<1> DEFINE D == Seq(Nat)
           B == 0 .. Base * Base
           R == [frames : Seq(D), buffer : D, discard : B]
<1>2. rest \in R
  BY <1>1
<1> HIDE DEF B
<1>3. <<x>> \in Seq(D) /\ out[k] \in Seq(D) /\ rest.frames \in Seq(D)
  <2>1. x \in D /\ out[k] \in Seq(D)
    OBVIOUS
  <2> HIDE DEF D
  <2> QED BY <1>2, <2>1
<1> HIDE DEF D
<1>4. <<x>> \o rest.frames \in Seq(D)
  BY <1>3
<1>5. /\ r \in R /\ r.frames = <<x>> \o rest.frames /\ r.buffer = rest.buffer
      /\ r.discard = rest.discard
  BY <1>2, <1>4
<1>6. (out[k] \o <<x>>) \o rest.frames = out[k] \o (<<x>> \o rest.frames)
  <2> DEFINE u == out[k]
             v == <<x>>
             w == rest.frames
  <2>1. u \in Seq(D) /\ v \in Seq(D) /\ w \in Seq(D)
    BY <1>3
  <2> HIDE DEF u, v, w
  <2>2. (u \o v) \o w = u \o (v \o w)
    BY ONLY <2>1, JoinsAssociate, SMTT(30)
  <2> QED BY <2>2 DEF u, v, w
<1>7. out[i] = out[k] \o r.frames
  BY <1>1, <1>5, <1>6
<1>8. i \in k .. Len(ms)
  OBVIOUS
<1> QED BY <1>1, <1>5, <1>7, <1>8 DEF Comes, R, D, B

\* At the mark of k messages the pump reads a header, if it is there.
LEMMA FrameAt ==
  ASSUME NEW ms, NEW acc, NEW out, Wire(ms, acc, out), NEW bytes, NEW o,
         Piece(acc[Len(ms)], bytes, o), NEW f, f = PumpOf(bytes, f),
         NEW p \in 0 .. Len(bytes),
         \A q \in (p + 1) .. Len(bytes) : Pumps(ms, acc, out, bytes, o, f, q),
         NEW k \in 0 .. Len(ms), Ready(ms, acc, k, o + p, 0)
  PROVE  Comes(ms, acc, out, k, f[p][0], o + Len(bytes))
<1> DEFINE N == Len(bytes)
           low == Len(acc[k])
           high == Len(acc[k + 1])
           n == Len(ms[k + 1].body)
           t == Told(bytes, p)
           B == Base * Base
<1>1. /\ N \in Nat /\ o \in Nat /\ Len(ms) \in Nat /\ bytes \in Seq(Nat) /\ B \in Nat
      /\ MaxFrame \in Nat /\ p \in Nat /\ p <= N /\ k \in Nat /\ k <= Len(ms)
      /\ o + N <= Len(acc[Len(ms)])
  <2>1. Len(ms) \in Nat /\ bytes \in Seq(Nat) /\ o \in Nat /\ o + N <= Len(acc[Len(ms)])
    BY EncodingsTyped DEF Piece, Wire
  <2>2. Base \in Nat /\ MaxFrame \in Nat
    BY ServicesAssumption DEF Transport!TransportAssumption
  <2> QED BY <2>1, <2>2
<1>2. o + p = low
  BY DEF Ready
<1>3. 0 \in 0 .. B
  BY <1>1
<1>4. f[p][0] = Pumped(bytes, f, p, 0) /\ PumpStep(N, bytes, f, p, 0)
  <2>1. 0 \in Nat
    OBVIOUS
  <2> QED BY <1>1, <1>3, <2>1, RowAt, PumpSteps
<1>5. out[k] \in Seq(Seq(Nat))
  <2> DEFINE D == Seq(Nat)
  <2>1. Cuts(ms) \in Seq(Seq(D)) /\ Len(Cuts(ms)) = Len(ms) /\ Flats(out, Cuts(ms), D)
    BY EncodingsTyped DEF Wire
  <2> HIDE DEF D
  <2>2. out[k] \in Seq(D)
    BY <2>1 DEF Flats
  <2> QED BY <2>2 DEF D
<1>6. CASE N - p < 2
  <2>1. f[p][0] = [frames |-> <<>>, buffer |-> SubSeq(bytes, p + 1, N), discard |-> 0]
    <3>1. N = p \/ (0 = 0 /\ N - p = 1)
      BY <1>1, <1>6
    <3> QED BY <1>4, <3>1 DEF PumpStep
  <2> QED BY <1>2, <1>5, <1>6, <2>1, KeepsAt
<1>7. CASE ~(N - p < 2)
  <2>1. k < Len(ms)
    <3>1. o + N > low
      BY <1>1, <1>2, <1>7
    <3> HIDE DEF N
    <3>2. SUFFICES ASSUME k = Len(ms) PROVE FALSE
      BY <1>1
    <3>3. o + N <= low
      BY <1>1, <3>2
    <3> QED BY <1>1, <1>2, <3>1, <3>3
  <2>2. OnWire(ms, acc, out, k, k + 1)
    BY <2>1, MarksNext
  <2> DEFINE x == Transport!Encode(ms[k + 1])
  <2>3. /\ n \in 0 .. B /\ low \in Nat /\ high \in Nat /\ high = low + 2 + n
        /\ x \in Seq(Nat) /\ out[k + 1] = out[k] \o (IF n > MaxFrame THEN <<>> ELSE <<x>>)
    BY <2>2 DEF OnWire
  <2> HIDE DEF x, n, low, high, B
  <2>4. n \in Nat /\ n <= B
    BY <1>1, <2>3
  <2>5. t = n
    <3>1. N - p >= 2
      BY <1>1, <1>7
    <3> QED BY <1>2, <2>1, <3>1, HeaderAt DEF n, low
  <2> HIDE DEF t
  <2>6. k + 1 \in 0 .. Len(ms) /\ k \in 0 .. (k + 1) /\ k \in 0 .. k
    BY <1>1, <2>1
  <2>7. N - p >= 2
    BY <1>1, <1>7
  <2>8. 0 = 0 /\ t \in Nat
    BY <2>4, <2>5
  <2>9. CASE n > MaxFrame
    <3>1. f[p][0] = f[p + 2][n]
      BY <1>4, <2>5, <2>7, <2>8, <2>9 DEF PumpStep, t
    <3>2. p + 2 \in (p + 1) .. N /\ o + (p + 2) = low + 2 /\ o + (p + 2) + n = high /\ n > 0
      BY <1>1, <1>2, <2>3, <2>4, <2>7, <2>9
    <3>3. Ready(ms, acc, k, o + (p + 2), n)
      BY <2>1, <2>9, <3>2 DEF Ready, low, high, n
    <3>4. Pumps(ms, acc, out, bytes, o, f, p + 2)
      BY <3>2 DEF N
    <3>5. n \in 0 .. Base * Base
      BY <2>3 DEF B
    <3> QED BY <1>1, <2>6, <3>1, <3>3, <3>4, <3>5, ComesFrom
  <2>10. CASE ~(n > MaxFrame) /\ N - p < 2 + n
    <3>1. f[p][0] = [frames |-> <<>>, buffer |-> SubSeq(bytes, p + 1, N), discard |-> 0]
      BY <1>4, <2>5, <2>7, <2>8, <2>10 DEF PumpStep, t
    <3>2. n <= MaxFrame /\ o + N < high
      BY <1>1, <1>2, <2>3, <2>4, <2>10
    <3> QED BY <1>2, <1>5, <3>1, <3>2, KeepsAt DEF N, n, high, low
  <2>11. CASE ~(n > MaxFrame) /\ ~(N - p < 2 + n)
    <3> DEFINE q == p + 2 + n
               s == SubSeq(bytes, p + 1, p + 2 + n)
    <3>1. f[p][0] = [f[q][0] EXCEPT !.frames = <<s>> \o @]
      BY <1>4, <2>5, <2>7, <2>8, <2>11 DEF PumpStep, t
    <3>2. q \in (p + 1) .. N /\ o + q = high /\ q <= N
      BY <1>1, <1>2, <2>3, <2>4, <2>11
    <3>3. s = x
      BY <1>2, <2>1, <3>2, FrameBytes DEF N, n, low, x
    <3> HIDE DEF q, s
    <3>4. Ready(ms, acc, k + 1, o + q, 0)
      BY <3>2 DEF Ready, high
    <3>5. Pumps(ms, acc, out, bytes, o, f, q)
      BY <3>2 DEF N
    <3>6. 0 \in 0 .. Base * Base
      BY <1>3 DEF B
    <3>7. Comes(ms, acc, out, k + 1, f[q][0], o + Len(bytes))
      BY <2>6, <3>4, <3>5, <3>6 DEF Pumps
    <3>8. f[p][0] = [f[q][0] EXCEPT !.frames = <<x>> \o @]
      BY <3>1, <3>3
    <3>9. out[k + 1] = out[k] \o <<x>>
      BY <2>3, <2>11
    <3> QED BY <1>1, <1>5, <2>1, <2>3, <3>7, <3>8, <3>9, ComesAfter
  <2> QED BY <2>9, <2>10, <2>11
<1> QED BY <1>6, <1>7

\* So it goes from every byte, the last one first.
LEMMA PumpsAll ==
  ASSUME NEW ms, NEW acc, NEW out, Wire(ms, acc, out), NEW bytes, NEW o,
         Piece(acc[Len(ms)], bytes, o), NEW f, f = PumpOf(bytes, f)
  PROVE  Pumps(ms, acc, out, bytes, o, f, 0)
<1> DEFINE N == Len(bytes)
           T == {i \in 0 .. (N + 1) :
                   \A q \in (N + 1 - i) .. N : Pumps(ms, acc, out, bytes, o, f, q)}
<1>1. N \in Nat /\ Base \in Nat
  BY ServicesAssumption DEF Piece, Transport!TransportAssumption
<1>2. 0 \in T
  <2>1. (N + 1 - 0) .. N = {} /\ 0 \in 0 .. (N + 1)
    BY <1>1
  <2> QED BY <2>1
<1>3. ASSUME NEW i \in 0 .. ((N + 1) - 1), i \in T PROVE i + 1 \in T
  <2> DEFINE p == N - i
  <2>1. p \in 0 .. N /\ i + 1 \in 0 .. (N + 1) /\ N + 1 - (i + 1) = p /\ N + 1 - i = p + 1
    BY <1>1
  <2>2. \A q \in (p + 1) .. N : Pumps(ms, acc, out, bytes, o, f, q)
    BY <1>3, <2>1
  <2> HIDE DEF p
  <2>3. Pumps(ms, acc, out, bytes, o, f, p)
    <3> SUFFICES ASSUME NEW k \in 0 .. Len(ms), NEW d \in 0 .. Base * Base,
                        Ready(ms, acc, k, o + p, d)
                 PROVE  Comes(ms, acc, out, k, f[p][d], o + Len(bytes))
      BY DEF Pumps
    <3>1. CASE d = 0
      BY <2>1, <2>2, <3>1, FrameAt
    <3>2. CASE d > 0
      BY <2>1, <2>2, <3>2, DiscardAt
    <3>3. d = 0 \/ d > 0
      OBVIOUS
    <3> QED BY <3>1, <3>2, <3>3
  <2>4. \A q \in p .. N : q = p \/ q \in (p + 1) .. N
    BY <1>1, <2>1
  <2>5. \A q \in p .. N : Pumps(ms, acc, out, bytes, o, f, q)
    BY <2>2, <2>3, <2>4
  <2> QED BY <2>1, <2>5
<1>4. N + 1 \in Nat /\ N + 1 \in 0 .. (N + 1) /\ N + 1 - (N + 1) = 0 /\ 0 \in 0 .. N
  BY <1>1
<1>5. N + 1 \in T
  <2> HIDE DEF T
  <2> QED BY <1>2, <1>3, <1>4, UpTo
<1> QED BY <1>4, <1>5

-------------------------------------------------------------------------------
(* The native transport: from chunk to chunk.                                *)

\* The cardinality of the instance is that of the library.
LEMMA SameCardinality ==
  ASSUME NEW S
  PROVE  Transport!Cardinality(S) = Cardinality(S)
BY DEF Transport!Cardinality, Cardinality

\* All the messages are the first ones, as many as there are.
LEMMA WholeStream ==
  ASSUME NEW ms, NEW acc, NEW out, Wire(ms, acc, out)
  PROVE  Transport!Stream(ms) = acc[Len(ms)] /\ acc[Len(ms)] \in Seq(Nat) /\ Len(ms) \in Nat
<1>1. Encodings(ms) \in Seq(Seq(Nat)) /\ Len(Encodings(ms)) = Len(ms) /\ Len(ms) \in Nat
  BY EncodingsTyped DEF Wire
<1>2. Flats(acc, Encodings(ms), Nat)
  BY DEF Wire
<1>3. acc[Len(ms)] \in Seq(Nat)
  BY <1>1, <1>2 DEF Flats
<1>4. Transport!Stream(ms) = Transport!FlattenSeq(Encodings(ms))
  BY DEF Transport!Stream, Encodings
<1>5. Transport!FlattenSeq(Encodings(ms)) = acc[Len(Encodings(ms))]
  BY ONLY <1>1, <1>2, FlatsAll
<1> QED BY <1>1, <1>3, <1>4, <1>5

\* What is kept of the wire, and the chunk behind it.
LEMMA ChunkJoins ==
  ASSUME NEW w \in Seq(Nat), NEW o \in Nat, NEW a \in Nat, NEW n \in Nat, o <= a, a + n <= Len(w)
  PROVE  LET both == SubSeq(w, o + 1, a) \o SubSeq(w, a + 1, a + n)
         IN  Piece(w, both, o) /\ both \in Seq(Nat) /\ o + Len(both) = a + n
<1> DEFINE kept == SubSeq(w, o + 1, a)
           chunk == SubSeq(w, a + 1, a + n)
<1>1. kept \in Seq(Nat) /\ Len(kept) = a - o /\ \A i \in 1 .. (a - o) : kept[i] = w[o + i]
  <2>1. a <= Len(w)
    OBVIOUS
  <2> QED BY <2>1, Between
<1>2. chunk \in Seq(Nat) /\ Len(chunk) = n /\ \A i \in 1 .. n : chunk[i] = w[a + i]
  <2>1. a + n \in Nat /\ a <= a + n /\ (a + n) - a = n
    OBVIOUS
  <2> QED BY <2>1, Between
<1> HIDE DEF kept, chunk
<1> DEFINE both == kept \o chunk
<1>3. both \in Seq(Nat) /\ Len(both) = Len(kept) + Len(chunk)
  BY ONLY <1>1, <1>2, Joined
<1>4. /\ \A i \in 1 .. Len(kept) : both[i] = kept[i]
      /\ \A i \in 1 .. Len(chunk) : both[Len(kept) + i] = chunk[i]
  BY ONLY <1>1, <1>2, JoinedAt, SMTT(30)
<1> HIDE DEF both
<1>5. ASSUME NEW j \in 1 .. Len(both) PROVE both[j] = w[o + j]
  <2>0. j \in Nat /\ 1 <= j /\ j <= (a - o) + n
    BY <1>1, <1>2, <1>3
  <2>1. CASE j <= a - o
    BY <1>1, <1>4, <2>0, <2>1
  <2>2. CASE ~(j <= a - o)
    <3> DEFINE i == j - (a - o)
    <3>1. i \in 1 .. n /\ (a - o) + i = j /\ a + i = o + j
      BY <2>0, <2>2
    <3> HIDE DEF i
    <3>2. both[(a - o) + i] = chunk[i] /\ chunk[i] = w[a + i]
      BY <1>1, <1>2, <1>4, <3>1
    <3> QED BY <3>1, <3>2
  <2> QED BY <2>1, <2>2
<1>6. o + Len(both) = a + n
  BY <1>1, <1>2, <1>3
<1> QED BY <1>3, <1>5, <1>6 DEF Piece, both, kept, chunk

\* The host has cut k messages, and waits for more.
Cutting(ms, acc, out, k) ==
  /\ frames = out[k] /\ Waits(ms, acc, k, buffer, discard, arrived)
  /\ discard \in 0 .. Base * Base /\ arrived \in 0 .. Len(acc[Len(ms)])
PumpInv ==
  /\ input \in Streams
  /\ \E acc, out : Wire(input, acc, out) /\ \E k \in 0 .. Len(input) : Cutting(input, acc, out, k)

\* Where the pump takes up the chunk: behind what it kept, or what it discards.
LEMMA TakesUp ==
  ASSUME NEW acc, NEW out, Wire(input, acc, out), NEW k \in 0 .. Len(input),
         Cutting(input, acc, out, k), NEW n \in Nat, arrived + n <= Len(acc[Len(input)]),
         NEW chunk, chunk = SubSeq(acc[Len(input)], arrived + 1, arrived + n)
  PROVE  \E o \in Nat : /\ Piece(acc[Len(input)], buffer \o chunk, o)
                        /\ buffer \o chunk \in Seq(Nat)
                        /\ o + Len(buffer \o chunk) = arrived + n
                        /\ Ready(input, acc, k, o + 0, discard)
<1> DEFINE w == acc[Len(input)]
           low == Len(acc[k])
           high == Len(acc[k + 1])
<1>1. w \in Seq(Nat) /\ Len(w) \in Nat /\ Len(input) \in Nat
  BY WholeStream
<1>2. arrived \in Nat /\ arrived <= Len(w) /\ arrived + n <= Len(w) /\ discard \in Nat
  BY <1>1 DEF Cutting
<1>3. low \in Nat
  <2>1. Len(Encodings(input)) = Len(input)
    BY EncodingsTyped DEF Wire
  <2> QED BY <2>1 DEF Wire, Flats
<1> HIDE DEF w, low, high
<1>4. CASE discard = 0 /\ low <= arrived /\ buffer = SubSeq(w, low + 1, arrived)
  <2>1. Piece(w, buffer \o chunk, low) /\ buffer \o chunk \in Seq(Nat)
        /\ low + Len(buffer \o chunk) = arrived + n
    <3>1. chunk = SubSeq(w, arrived + 1, arrived + n)
      BY DEF w
    <3>2. LET both == SubSeq(w, low + 1, arrived) \o SubSeq(w, arrived + 1, arrived + n)
          IN  Piece(w, both, low) /\ both \in Seq(Nat) /\ low + Len(both) = arrived + n
      <4>1. w \in Seq(Nat) /\ low \in Nat /\ arrived \in Nat /\ n \in Nat /\ low <= arrived
            /\ arrived + n <= Len(w)
        BY <1>1, <1>2, <1>3, <1>4
      <4> QED BY ONLY <4>1, ChunkJoins
    <3> QED BY <1>4, <3>1, <3>2
  <2>2. Ready(input, acc, k, low + 0, discard)
    <3>1. low + 0 = low
      BY <1>3
    <3> QED BY <1>4, <3>1 DEF Ready, low
  <2> QED BY <1>3, <2>1, <2>2 DEF w
<1>5. CASE /\ k < Len(input) /\ Len(input[k + 1].body) > MaxFrame
           /\ low + 2 <= arrived /\ arrived < high /\ discard = high - arrived /\ buffer = <<>>
  <2>1. high \in Nat
    <3>1. OnWire(input, acc, out, k, k + 1)
      BY <1>5, MarksNext
    <3> QED BY <3>1 DEF OnWire, high
  <2>2. buffer = SubSeq(w, arrived + 1, arrived)
    BY <1>1, <1>2, <1>5
  <2>3. Piece(w, buffer \o chunk, arrived) /\ buffer \o chunk \in Seq(Nat)
        /\ arrived + Len(buffer \o chunk) = arrived + n
    <3>1. chunk = SubSeq(w, arrived + 1, arrived + n) /\ arrived <= arrived
      BY <1>2 DEF w
    <3>2. LET both == SubSeq(w, arrived + 1, arrived) \o SubSeq(w, arrived + 1, arrived + n)
          IN  Piece(w, both, arrived) /\ both \in Seq(Nat) /\ arrived + Len(both) = arrived + n
      <4>1. w \in Seq(Nat) /\ arrived \in Nat /\ n \in Nat /\ arrived <= arrived
            /\ arrived + n <= Len(w)
        BY <1>1, <1>2, <3>1
      <4> QED BY ONLY <4>1, ChunkJoins
    <3> QED BY <2>2, <3>1, <3>2
  <2>4. discard > 0 /\ arrived + discard = high /\ arrived + 0 = arrived
    BY <1>2, <1>5, <2>1
  <2>5. Ready(input, acc, k, arrived + 0, discard)
    BY <1>5, <2>4 DEF Ready, low, high
  <2> QED BY <1>2, <2>3, <2>5 DEF w
<1>6. Waits(input, acc, k, buffer, discard, arrived)
  BY DEF Cutting
<1> QED BY <1>4, <1>5, <1>6 DEF Waits, w, low, high

\* Bytes are numbers.
LEMMA NumbersOf ==
  ASSUME NEW D, D \subseteq Nat, NEW s \in Seq(D)
  PROVE  s \in Seq(Nat) /\ Len(s) \in Nat
<1>1. Len(s) \in Nat /\ \A i \in 1 .. Len(s) : s[i] \in Nat
  <2>1. Len(s) \in Nat /\ \A i \in 1 .. Len(s) : s[i] \in D
    OBVIOUS
  <2> QED BY <2>1
<1>2. s = [i \in 1 .. Len(s) |-> s[i]]
  OBVIOUS
<1> QED BY <1>1, <1>2

\* The assumption types every sequence of messages.
LEMMA SendableInputs ==
  ASSUME NEW ms \in Streams
  PROVE  Sendable(ms)
<1> DEFINE b == Base * Base
<1>1. /\ ms \in Seq(Transport!ToSet(ms))
      /\ \A m \in Transport!ToSet(ms) : m.body \in Seq(0 .. Base - 1) /\ Len(m.body) < b
      /\ Base \in Nat
  BY ServicesAssumption DEF Transport!TransportAssumption
<1>2. b \in Nat
  BY <1>1
<1> HIDE DEF b
<1>3. ASSUME NEW i \in DOMAIN ms PROVE ms[i].body \in Seq(Nat) /\ Len(ms[i].body) <= b
  <2> DEFINE body == ms[i].body
             D == 0 .. Base - 1
  <2>1. ms[i] \in Transport!ToSet(ms)
    BY DEF Transport!ToSet
  <2>2. body \in Seq(D) /\ Len(body) < b
    BY <1>1, <2>1
  <2>3. D \subseteq Nat
    BY <1>1
  <2> HIDE DEF body, D
  <2>4. body \in Seq(Nat) /\ Len(body) \in Nat
    BY <2>2, <2>3, NumbersOf
  <2>5. Len(body) <= b
    BY <1>2, <2>2, <2>4
  <2> QED BY <2>4, <2>5 DEF body
<1> QED BY <1>1, <1>3 DEF Sendable, b

\* At the start no message is cut, and no byte is kept.
LEMMA PumpStarts ==
  ASSUME Transport!Init
  PROVE  PumpInv
<1>1. /\ input \in Streams /\ arrived = 0 /\ buffer = <<>> /\ discard = 0 /\ frames = <<>>
  BY DEF Transport!Init
<1>2. Sendable(input)
  BY <1>1, SendableInputs
<1>3. /\ Len(input) \in Nat
      /\ Encodings(input) \in Seq(Seq(Nat)) /\ Len(Encodings(input)) = Len(input)
      /\ Cuts(input) \in Seq(Seq(Seq(Nat)))
  BY <1>2, EncodingsTyped
<1>4. PICK acc : Flats(acc, Encodings(input), Nat)
  BY <1>3, FlatsExist
<1>5. PICK out : Flats(out, Cuts(input), Seq(Nat))
  <2> DEFINE D == Seq(Nat)
  <2>1. Cuts(input) \in Seq(Seq(D))
    BY <1>3
  <2> HIDE DEF D
  <2>2. \E out : Flats(out, Cuts(input), D)
    BY <2>1, FlatsExist
  <2> QED BY <2>2 DEF D
<1>6. Wire(input, acc, out)
  BY <1>2, <1>4, <1>5 DEF Wire
<1>7. acc[0] = <<>> /\ out[0] = <<>>
  BY <1>4, <1>5 DEF Flats
<1> DEFINE w == acc[Len(input)]
<1>8. w \in Seq(Nat) /\ Len(w) \in Nat
  BY <1>6, WholeStream
<1> HIDE DEF w
<1>9. Len(acc[0]) = 0 /\ SubSeq(w, 0 + 1, 0) = <<>>
  BY <1>7, <1>8
<1>10. Waits(input, acc, 0, buffer, discard, arrived)
  <2>1. buffer = SubSeq(w, Len(acc[0]) + 1, arrived) /\ Len(acc[0]) <= arrived
        /\ arrived < Len(acc[0]) + 2
    BY <1>1, <1>9
  <2> QED BY <1>1, <2>1 DEF Waits, w
<1>11. discard \in 0 .. Base * Base
  <2> DEFINE b == Base * Base
  <2>1. b \in Nat
    BY ServicesAssumption DEF Transport!TransportAssumption
  <2> HIDE DEF b
  <2>2. 0 \in 0 .. b
    BY <2>1
  <2> QED BY <1>1, <2>2 DEF b
<1>12. arrived \in 0 .. Len(w) /\ 0 \in 0 .. Len(input)
  BY <1>1, <1>3, <1>8
<1>13. Cutting(input, acc, out, 0)
  BY <1>1, <1>7, <1>10, <1>11, <1>12 DEF Cutting, w
<1> QED BY <1>1, <1>6, <1>12, <1>13 DEF PumpInv

\* A chunk: what comes of it is again a cut of the wire at the message that waits.
LEMMA ChunkNext ==
  ASSUME PumpInv, NEW n \in Nat, Transport!Chunk(n)
  PROVE  PumpInv'
<1>0. PICK acc, out : /\ Wire(input, acc, out)
                      /\ \E k \in 0 .. Len(input) : Cutting(input, acc, out, k)
  BY DEF PumpInv
<1>1. PICK k \in 0 .. Len(input) : Wire(input, acc, out) /\ Cutting(input, acc, out, k)
  BY <1>0
<1> DEFINE w == acc[Len(input)]
           chunk == SubSeq(Transport!Stream(input), arrived + 1, arrived + n)
           fed == Transport!Fed(chunk)
           both == buffer \o chunk
<1>2. /\ arrived + n <= Len(Transport!Stream(input)) /\ arrived' = arrived + n
      /\ buffer' = fed.buffer /\ discard' = fed.discard /\ frames' = frames \o fed.frames
      /\ input' = input
  BY DEF Transport!Chunk
<1>3. Transport!Stream(input) = w /\ w \in Seq(Nat) /\ Len(input) \in Nat
  BY <1>1, WholeStream
<1>4. chunk = SubSeq(w, arrived + 1, arrived + n) /\ arrived + n <= Len(w)
  BY <1>2, <1>3
<1> HIDE DEF chunk, fed
<1>5. PICK o \in Nat : /\ Piece(w, both, o) /\ both \in Seq(Nat)
                       /\ o + Len(both) = arrived + n
                       /\ Ready(input, acc, k, o + 0, discard)
  BY <1>1, <1>4, TakesUp
<1>6. PICK f : f = PumpOf(both, f) /\ fed = f[0][discard]
  BY <1>5, FedPumps DEF fed
<1> HIDE DEF both
<1>7. Pumps(input, acc, out, both, o, f, 0)
  BY <1>1, <1>5, <1>6, PumpsAll DEF w
<1>8. discard \in 0 .. Base * Base /\ frames = out[k] /\ arrived \in 0 .. Len(w)
  BY <1>1 DEF Cutting, w
<1>9. Comes(input, acc, out, k, fed, arrived + n)
  BY <1>5, <1>6, <1>7, <1>8 DEF Pumps
<1>10. PICK i \in k .. Len(input) :
         /\ fed \in [frames : Seq(Seq(Nat)), buffer : Seq(Nat), discard : 0 .. Base * Base]
         /\ out[i] = out[k] \o fed.frames
         /\ Waits(input, acc, i, fed.buffer, fed.discard, arrived + n)
  BY <1>9 DEF Comes
<1>11. fed.discard \in 0 .. Base * Base
  BY <1>10
<1>12. arrived + n \in 0 .. Len(w)
  BY <1>3, <1>4, <1>8
<1>13. Waits(input, acc, i, buffer', discard', arrived')
  BY <1>2, <1>10
<1>14. Cutting(input, acc, out, i)'
  BY <1>2, <1>8, <1>10, <1>11, <1>12, <1>13 DEF Cutting, w
<1>15. i \in 0 .. Len(input)
  BY <1>3
<1>16. Wire(input, acc, out)'
  BY <1>1, <1>2
<1>17. input \in Streams
  BY DEF PumpInv
<1> QED BY <1>2, <1>14, <1>15, <1>16, <1>17 DEF PumpInv

\* The messages whose last byte has arrived are those that are cut.
LEMMA WholeOnes ==
  ASSUME NEW acc, NEW out, Wire(input, acc, out), NEW k \in 0 .. Len(input),
         Cutting(input, acc, out, k)
  PROVE  {i \in DOMAIN input : Len(acc[i]) <= arrived} = 1 .. k
<1> DEFINE e == Encodings(input)
<1>1. /\ e \in Seq(Seq(Nat)) /\ Len(e) = Len(input) /\ Len(input) \in Nat /\ Flats(acc, e, Nat)
      /\ DOMAIN input = 1 .. Len(input)
  BY EncodingsTyped DEF Wire
<1> HIDE DEF e
<1>2. /\ arrived \in 0 .. Len(acc[Len(input)]) /\ Waits(input, acc, k, buffer, discard, arrived)
  BY DEF Cutting
<1>3. \A i \in 0 .. Len(input) : Len(acc[i]) \in Nat
  BY <1>1 DEF Flats
<1>4. arrived \in Nat
  BY <1>1, <1>2, <1>3
<1>5. Len(acc[k]) <= arrived
  <2> DEFINE low == Len(acc[k])
  <2>1. low \in Nat
    BY <1>3
  <2>2. low <= arrived \/ low + 2 <= arrived
    BY <1>2 DEF Waits
  <2> HIDE DEF low
  <2>3. low <= arrived
    BY <1>4, <2>1, <2>2
  <2> QED BY <2>3 DEF low
<1>6. ASSUME NEW i \in 1 .. k PROVE Len(acc[i]) <= arrived
  <2>1. i \in 0 .. Len(e) /\ k \in i .. Len(e) /\ i \in 0 .. Len(input)
    BY <1>1
  <2>2. Len(acc[i]) <= Len(acc[k])
    BY <1>1, <2>1, FlatsPrefix
  <2> QED BY <1>3, <1>4, <1>5, <2>1, <2>2
<1>7. ASSUME NEW i \in 1 .. Len(input), i > k PROVE ~(Len(acc[i]) <= arrived)
  <2>1. k < Len(input) /\ k + 1 \in 0 .. Len(e) /\ i \in (k + 1) .. Len(e)
        /\ i \in 0 .. Len(input)
    BY <1>1, <1>7
  <2>2. Len(acc[k + 1]) <= Len(acc[i])
    BY <1>1, <2>1, FlatsPrefix
  <2> DEFINE low == Len(acc[k])
             high == Len(acc[k + 1])
             n == Len(input[k + 1].body)
  <2>3. low \in Nat /\ high \in Nat /\ n \in 0 .. Base * Base /\ high = low + 2 + n
    <3>1. OnWire(input, acc, out, k, k + 1)
      BY <2>1, MarksNext
    <3> QED BY <3>1 DEF OnWire
  <2>4. arrived < low + 2 \/ arrived < high
    BY <1>2, <2>1 DEF Waits
  <2>5. n \in Nat
    <3> DEFINE b == Base * Base
    <3>1. b \in Nat
      BY ServicesAssumption DEF Transport!TransportAssumption
    <3> HIDE DEF b, n
    <3> QED BY <2>3, <3>1 DEF b
  <2> HIDE DEF low, high, n
  <2>6. arrived < high
    BY <1>4, <2>3, <2>4, <2>5
  <2>7. high <= Len(acc[i]) /\ Len(acc[i]) \in Nat
    BY <1>3, <2>1, <2>2 DEF high
  <2> QED BY <1>4, <2>3, <2>6, <2>7
<1>8. \A i \in 1 .. k : i \in 1 .. Len(input)
  BY <1>1
<1>9. \A i \in 1 .. Len(input) : i \in 1 .. k \/ i > k
  BY <1>1
<1> QED BY <1>1, <1>6, <1>7, <1>8, <1>9

\* The invariant says what is expected: the first k messages are the whole ones.
LEMMA CutAsExpected ==
  ASSUME PumpInv
  PROVE  Transport!FramesExact
<1>0. PICK acc, out : /\ Wire(input, acc, out)
                      /\ \E k \in 0 .. Len(input) : Cutting(input, acc, out, k)
  BY DEF PumpInv
<1>1. PICK k \in 0 .. Len(input) : Wire(input, acc, out) /\ Cutting(input, acc, out, k)
  BY <1>0
<1> DEFINE Upto(i) == Len(Transport!Stream(SubSeq(input, 1, i)))
           whole == {i \in DOMAIN input : Upto(i) <= arrived}
<1>2. Len(input) \in Nat /\ DOMAIN input = 1 .. Len(input) /\ Sendable(input)
      /\ Flats(acc, Encodings(input), Nat) /\ Flats(out, Cuts(input), Seq(Nat))
  BY <1>1, EncodingsTyped DEF Wire
<1>3. ASSUME NEW i \in DOMAIN input PROVE Upto(i) = Len(acc[i])
  <2>1. i \in 0 .. Len(input)
    BY <1>2
  <2> QED BY <1>2, <2>1, Streamed
<1>4. whole = {i \in DOMAIN input : Len(acc[i]) <= arrived}
  <2> HIDE DEF Upto
  <2> QED BY <1>3
<1>5. whole = 1 .. k
  <2> HIDE DEF whole
  <2> QED BY <1>1, <1>4, WholeOnes
<1>6. Transport!Cardinality(whole) = k
  <2>1. k \in Nat /\ (1 <= k => k - 1 + 1 = k)
    BY <1>2
  <2>2. Cardinality(1 .. k) = k
    <3>1. 1 \in Int /\ k \in Int
      BY <2>1
    <3>2. Cardinality(1 .. k) = IF 1 > k THEN 0 ELSE k - 1 + 1
      BY <3>1, FS_Interval
    <3> QED BY <2>1, <3>2
  <2> HIDE DEF whole
  <2> QED BY <1>5, <2>2, SameCardinality
<1>7. Transport!Expected
        = Transport!FlattenSeq([i \in 1 .. Transport!Cardinality(whole) |->
            IF Len(input[i].body) > MaxFrame THEN <<>> ELSE <<Transport!Encode(input[i])>>])
  BY DEF Transport!Expected
<1> HIDE DEF whole
<1>8. Transport!Expected = out[k]
  BY <1>1, <1>2, <1>6, <1>7, CutsJoined
<1>9. frames = out[k]
  BY <1>1 DEF Cutting
<1> QED BY <1>8, <1>9 DEF Transport!FramesExact

\* Whatever else the host does leaves the pump alone.
LEMMA PumpNext ==
  ASSUME PumpInv, [Transport!Next]_(Transport!vars)
  PROVE  PumpInv'
<1>1. CASE Transport!Arrives
  <2>1. PICK n \in 1 .. Len(Transport!Stream(input)) - arrived : Transport!Chunk(n)
    BY <1>1 DEF Transport!Arrives
  <2>2. n \in Nat
    OBVIOUS
  <2> QED BY <2>1, <2>2, ChunkNext
<1>2. CASE Transport!Serves \/ Transport!Expire \/ UNCHANGED Transport!vars
  <2>1. UNCHANGED <<input, arrived, buffer, discard, frames>>
    BY <1>2 DEF Transport!Serves, Transport!Begin, Transport!StageBegin, Transport!StagePart,
       Transport!StageCommit, Transport!Command, Transport!Done, Transport!Expire, Transport!pump,
       Transport!vars
  <2> QED BY <2>1 DEF PumpInv, Cutting
<1> QED BY <1>1, <1>2 DEF Transport!Next

\* native-framing.ts, controller-host.ts: however stdin is cut into chunks, the frames
\* that fit are cut at their own bytes, once each and as soon as they are whole, those
\* behind an oversized one too; and however the parts of a project arrive, expire,
\* repeat or are cut short, one that is set is, byte for byte, the one some begin
\* announced.
THEOREM FramesAreExact == ServicesSpec => []FramesExact
<1> DEFINE Inv == part = "transport" => PumpInv /\ StageInv
<1>1. ServicesInit => Inv
  BY PumpStarts DEF ServicesInit, Transport!Init, StageInv, Transport!SetAsAnnounced
<1>2. Inv /\ [ServicesNext]_all => Inv'
  <2> SUFFICES ASSUME Inv, [ServicesNext]_all, part' = "transport" PROVE Inv'
    OBVIOUS
  <2>1. part = "transport"
    BY DEF ServicesNext, all
  <2>2. [Transport!Next]_(Transport!vars)
    BY <2>1 DEF ServicesNext, all, transportVars, Transport!vars
  <2>3. input \in Seq(Transport!ToSet(input))
    BY <2>1, SendableInputs DEF PumpInv, Sendable
  <2> QED BY <2>1, <2>2, <2>3, StageNext, PumpNext
<1>3. Inv => FramesExact
  BY CutAsExpected DEF FramesExact, StageInv
<1> QED BY <1>1, <1>2, <1>3, PTL DEF ServicesSpec

-------------------------------------------------------------------------------
(* The native session.                                                       *)

\* A frame or a call of command s is among those of q.
Marked(q, s) == \E f \in ToSet(q) : f.by = s
Once(q, s) == \A i, j \in DOMAIN q : q[i].by = s /\ q[j].by = s => i = j
LastOnly(q, s) == \A i \in DOMAIN q : q[i].by = s => i = Len(q)
Without(q, type) == \A f \in ToSet(q) : f.type # type

LEMMA Shorter ==
  ASSUME NEW S, NEW q \in Seq(S), q # <<>>, NEW s
  PROVE  /\ Tail(q) \in Seq(S) /\ Head(q) \in S
         /\ ToSet(q) = {Head(q)} \cup ToSet(Tail(q))
         /\ Once(q, s) => Once(Tail(q), s) /\ (Head(q).by = s => ~Marked(Tail(q), s))
         /\ LastOnly(q, s) => LastOnly(Tail(q), s) /\ (Head(q).by = s => Tail(q) = <<>>)
<1>1. /\ Tail(q) \in Seq(S) /\ Head(q) \in S /\ Head(q) = q[1] /\ 1 \in DOMAIN q
      /\ Len(q) \in Nat /\ DOMAIN q = 1 .. Len(q) /\ Len(q) >= 1
      /\ DOMAIN Tail(q) = 1 .. (Len(q) - 1) /\ Len(Tail(q)) = Len(q) - 1
      /\ \A i \in 1 .. (Len(q) - 1) : Tail(q)[i] = q[i + 1]
  OBVIOUS
<1>2. \A i \in DOMAIN Tail(q) : i \in Nat /\ i # 0 /\ i + 1 \in DOMAIN q /\ Tail(q)[i] = q[i + 1]
  BY <1>1
<1>3. \A i \in DOMAIN q : i = 1 \/ (i - 1 \in DOMAIN Tail(q) /\ Tail(q)[i - 1] = q[i])
  <2> TAKE i \in DOMAIN q
  <2>1. i \in Nat /\ i >= 1 /\ i <= Len(q)
    BY <1>1
  <2>2. i # 1 => i - 1 \in 1 .. (Len(q) - 1) /\ (i - 1) + 1 = i
    BY <1>1, <2>1
  <2> QED BY <1>1, <2>2
<1>4. ToSet(q) = {Head(q)} \cup ToSet(Tail(q))
  <2>1. \A e \in ToSet(q) : e = Head(q) \/ e \in ToSet(Tail(q))
    BY <1>1, <1>3 DEF ToSet
  <2>2. \A e \in ToSet(Tail(q)) : e \in ToSet(q)
    BY <1>2 DEF ToSet
  <2>3. Head(q) \in ToSet(q)
    BY <1>1 DEF ToSet
  <2> QED BY <2>1, <2>2, <2>3
<1>5. ASSUME Once(q, s)
      PROVE  Once(Tail(q), s) /\ (Head(q).by = s => ~Marked(Tail(q), s))
  <2>1. \A i, j \in DOMAIN Tail(q) : Tail(q)[i].by = s /\ Tail(q)[j].by = s => i + 1 = j + 1
    BY <1>2, <1>5 DEF Once
  <2>2. Once(Tail(q), s)
    BY <1>2, <2>1 DEF Once
  <2>3. \A i \in DOMAIN Tail(q) : Head(q).by = s /\ Tail(q)[i].by = s => 1 = i + 1
    BY <1>1, <1>2, <1>5 DEF Once
  <2>4. \A i \in DOMAIN Tail(q) : 1 # i + 1
    BY <1>2
  <2> QED BY <2>2, <2>3, <2>4 DEF Marked, ToSet
<1>6. ASSUME LastOnly(q, s)
      PROVE  LastOnly(Tail(q), s) /\ (Head(q).by = s => Tail(q) = <<>>)
  <2>1. \A i \in DOMAIN Tail(q) : Tail(q)[i].by = s => i + 1 = Len(q)
    BY <1>2, <1>6 DEF LastOnly
  <2>2. LastOnly(Tail(q), s)
    BY <1>1, <1>2, <2>1 DEF LastOnly
  <2>3. Head(q).by = s => Len(q) = 1
    BY <1>1, <1>6 DEF LastOnly
  <2>4. Len(q) = 1 => Tail(q) = <<>>
    BY <1>1
  <2> QED BY <2>2, <2>3, <2>4
<1> QED BY <1>1, <1>4, <1>5, <1>6

LEMMA Grown ==
  ASSUME NEW S, NEW q \in Seq(S), NEW e \in S
  PROVE  /\ Append(q, e) \in Seq(S) /\ q \o <<e>> = Append(q, e)
         /\ ToSet(Append(q, e)) = ToSet(q) \cup {e}
<1>1. /\ Append(q, e) \in Seq(S) /\ Len(q) \in Nat /\ DOMAIN q = 1 .. Len(q)
      /\ DOMAIN Append(q, e) = 1 .. (Len(q) + 1)
      /\ \A i \in 1 .. Len(q) : Append(q, e)[i] = q[i]
      /\ Append(q, e)[Len(q) + 1] = e
  OBVIOUS
<1>2. \A i \in DOMAIN Append(q, e) : i = Len(q) + 1 \/ i \in DOMAIN q
  BY <1>1
<1>3. /\ \A i \in DOMAIN q : i \in DOMAIN Append(q, e)
      /\ Len(q) + 1 \in DOMAIN Append(q, e)
  BY <1>1
<1>4. ToSet(Append(q, e)) = ToSet(q) \cup {e}
  BY <1>1, <1>2, <1>3 DEF ToSet
<1>5. q \o <<e>> = Append(q, e)
  OBVIOUS
<1> QED BY <1>1, <1>4, <1>5

LEMMA Longer ==
  ASSUME NEW S, NEW q \in Seq(S), NEW e \in S, NEW s
  PROVE  /\ ToSet(Append(q, e)) = ToSet(q) \cup {e}
         /\ Once(q, s) /\ (e.by # s \/ ~Marked(q, s)) => Once(Append(q, e), s)
         /\ ~Marked(q, s) => LastOnly(Append(q, e), s)
<1>1. /\ Len(q) \in Nat /\ DOMAIN q = 1 .. Len(q)
      /\ DOMAIN Append(q, e) = 1 .. (Len(q) + 1) /\ Len(Append(q, e)) = Len(q) + 1
      /\ \A i \in 1 .. Len(q) : Append(q, e)[i] = q[i]
      /\ Append(q, e)[Len(q) + 1] = e
  OBVIOUS
<1>2. \A i \in DOMAIN Append(q, e) : i = Len(q) + 1 \/ i \in DOMAIN q
  BY <1>1
<1>3. Once(q, s) /\ (e.by # s \/ ~Marked(q, s)) => Once(Append(q, e), s)
  BY <1>1, <1>2 DEF Once, Marked, ToSet
<1>4. ~Marked(q, s) => LastOnly(Append(q, e), s)
  BY <1>1, <1>2 DEF LastOnly, Marked, ToSet
<1> QED BY <1>3, <1>4, Grown

LEMMA NoneLeft == \A s : /\ ~Marked(<<>>, s) /\ Once(<<>>, s) /\ LastOnly(<<>>, s)
                         /\ ToSet(<<>>) = {}
BY DEF Marked, Once, LastOnly, ToSet

-------------------------------------------------------------------------------
Machine ==
  [state: {"fresh", "idle", "running", "stopped", "exited", "gone"},
   policy: Projects \cup {None}, intercepting: BOOLEAN, routed: BOOLEAN,
   inbox: Seq(Request), outbox: Seq(Reply), replies: Seq(BOOLEAN),
   work: Request \cup {None}]
Points ==
  {"idle", "set", "start", "connect", "clearPac", "stop"} \cup Hearing \cup Writing \cup Clearing
Going(P) ==
  [kind: {"start", "stop"}, at: P, project: Projects \cup {None}, digest: Projects \cup {None},
   proxy: Hosts \cup {None}, token: Hosts \cup {None}]
Call == [by: Sessions \cup {None}, at: Writing \cup Clearing, op: {"read", "write"}, seen: BOOLEAN]

\* A frame of command s is under way only to or from the host of the port, and it is
\* the one that s waits for.
Due(f, h, s) ==
  /\ h = port
  /\ \/ f.type = "set" /\ command[s].at = "hearSet"
     \/ f.type = "start" /\ command[s].at = "hearStart"
     \/ f.type = "connect" /\ command[s].at = "hearConnect"
     \/ f.type = "stop" /\ command[s].at = "hearStop"

Carried(h, x, s) ==
  /\ LastOnly(x.inbox, s) /\ Once(x.outbox, s)
  /\ \A f \in ToSet(x.inbox) :
       f.by = s => /\ Due(f, h, s) /\ f.project = command[s].project
                   /\ ~Marked(x.outbox, s) /\ (x.work = None \/ x.work.by # s)
  /\ x.work # None => /\ x.state = "running" /\ x.work.type \in {"start", "stop"}
                      /\ x.work.by = s => Due(x.work, h, s) /\ ~Marked(x.outbox, s)
  /\ \A f \in ToSet(x.outbox) : f.by = s => Due(f, h, s)

\* No stop waits for the host; it has project p and keeps it; it has none.
Staying(x) == Without(x.inbox, "stop") /\ (x.work = None \/ x.work.type # "stop")
Holds(x, p) == x.state = "exited" \/ (x.state = "running" /\ x.policy = p /\ Staying(x))
Listens(x, p) == Holds(x, p) /\ (x.state = "exited" \/ x.intercepting)
Blank(x) == x.state = "exited" \/ (x.state = "idle" /\ Without(x.inbox, "set"))

Beyond == {"bodies", "connect", "hearConnect", "mocks"}
ClearDue == \E k \in ToSet(calls) : k.at = "clearMocks"
Installed == rules["mocks"] # None /\ ~ClearDue

\* What a host has to be for command s, where it is, and for the mock redirects.
Serves(h, x, s) ==
  /\ h = port => /\ x.state \notin {"fresh", "gone"}
                 /\ command[s].at # "hearStop" => Staying(x)
                 /\ command[s].at \in {"start", "hearStart"} /\ command[s].digest # None
                      => Holds(x, command[s].digest) \/ Blank(x)
                 /\ command[s].at \in Beyond /\ h # command[s].proxy => Blank(x)
  /\ command[s].at \in Beyond /\ h = command[s].proxy =>
       Listens(x, command[s].digest) \/ (command[s].at # "mocks" /\ x.state = "gone")
  /\ Installed /\ h = rules["mocks"].port => Listens(x, rules["mocks"].digest)

\* What an answer on its way to s says is so.
Tells(h, x, s) ==
  \A f \in ToSet(x.outbox) :
    f.by = s =>
      /\ command[s].at = "hearSet" /\ f.project # None =>
           f.project = command[s].project /\ Holds(x, f.project)
      /\ command[s].at = "hearStart" /\ command[s].digest # None /\ f.result = "active" =>
           Listens(x, command[s].digest)
      /\ command[s].at = "hearConnect" /\ f.project # None => h = command[s].proxy

HostOK(h, x, s) == Carried(h, x, s) /\ Serves(h, x, s) /\ Tells(h, x, s)

-------------------------------------------------------------------------------
(* Frames through a host.                                                    *)

\* The first frame of the inbox leaves, with an answer or without.
LEMMA TakenCarried ==
  ASSUME NEW h, NEW s, NEW x \in Machine, NEW y \in Machine, Carried(h, x, s),
         x.inbox # <<>>, x.work = None, y.inbox = Tail(x.inbox), y.work = None,
         \/ y.outbox = x.outbox
         \/ \E f \in Reply : /\ y.outbox = Append(x.outbox, f)
                             /\ f.type = Head(x.inbox).type /\ f.by = Head(x.inbox).by
  PROVE  Carried(h, y, s)
<1>1. x.inbox \in Seq(Request) /\ x.outbox \in Seq(Reply)
  BY DEF Machine
<1>2. /\ ToSet(x.inbox) = {Head(x.inbox)} \cup ToSet(y.inbox)
      /\ LastOnly(y.inbox, s)
      /\ Head(x.inbox).by = s => y.inbox = <<>>
  BY <1>1, Shorter DEF Carried
<1>3. CASE y.outbox = x.outbox
  BY <1>2, <1>3 DEF Carried
<1>4. ASSUME NEW f \in Reply, y.outbox = Append(x.outbox, f),
             f.type = Head(x.inbox).type, f.by = Head(x.inbox).by
      PROVE  Carried(h, y, s)
  <2>1. CASE f.by = s
    <3>1. ~Marked(x.outbox, s) /\ Due(Head(x.inbox), h, s)
      BY <1>2, <1>4, <2>1 DEF Carried
    <3>2. ToSet(y.outbox) = ToSet(x.outbox) \cup {f} /\ Once(y.outbox, s)
      BY <1>1, <1>4, <3>1, Longer DEF Carried
    <3>3. ToSet(y.inbox) = {}
      BY <1>2, <1>4, <2>1, NoneLeft
    <3>4. Due(f, h, s)
      BY <1>4, <3>1 DEF Due
    <3> QED BY <1>2, <3>1, <3>2, <3>3, <3>4 DEF Carried
  <2>2. CASE f.by # s
    <3>1. /\ ToSet(y.outbox) = ToSet(x.outbox) \cup {f} /\ Once(y.outbox, s)
          /\ Marked(y.outbox, s) => Marked(x.outbox, s)
      BY <1>1, <1>4, <2>2, Longer DEF Carried, Marked
    <3> QED BY <1>2, <2>2, <3>1 DEF Carried
  <2> QED BY <2>1, <2>2
<1> QED BY <1>3, <1>4

\* It becomes the work of the host, which asks the browser for the PAC.
LEMMA WorkCarried ==
  ASSUME NEW h, NEW s, None # s, NEW x \in Machine, NEW y \in Machine, Carried(h, x, s),
         x.inbox # <<>>, x.work = None, y.inbox = Tail(x.inbox), y.work = Head(x.inbox),
         y.state = "running", y.work.type \in {"start", "stop"},
         NEW f \in Reply, f.by = None, y.outbox = Append(x.outbox, f)
  PROVE  Carried(h, y, s)
<1>1. x.inbox \in Seq(Request) /\ x.outbox \in Seq(Reply)
  BY DEF Machine
<1>2. /\ ToSet(x.inbox) = {Head(x.inbox)} \cup ToSet(y.inbox)
      /\ LastOnly(y.inbox, s)
      /\ Head(x.inbox).by = s => y.inbox = <<>>
  BY <1>1, Shorter DEF Carried
<1>3. /\ ToSet(y.outbox) = ToSet(x.outbox) \cup {f} /\ Once(y.outbox, s)
      /\ Marked(y.outbox, s) => Marked(x.outbox, s)
  BY <1>1, Longer DEF Carried, Marked
<1>4. y.inbox = <<>> => ToSet(y.inbox) = {}
  BY NoneLeft
<1> QED BY <1>2, <1>3, <1>4 DEF Carried

\* The work ends with an answer.
LEMMA ResumedCarried ==
  ASSUME NEW h, NEW s, NEW x \in Machine, NEW y \in Machine, Carried(h, x, s),
         x.work # None, y.inbox = x.inbox, y.work = None,
         NEW f \in Reply, y.outbox = Append(x.outbox, f),
         f.type = x.work.type, f.by = x.work.by
  PROVE  Carried(h, y, s)
<1>1. x.inbox \in Seq(Request) /\ x.outbox \in Seq(Reply)
  BY DEF Machine
<1>2. /\ ToSet(y.outbox) = ToSet(x.outbox) \cup {f} /\ Once(y.outbox, s)
      /\ Marked(y.outbox, s) => Marked(x.outbox, s) \/ f.by = s
  BY <1>1, Longer DEF Carried, Marked
<1>3. f.by = s => Due(f, h, s) /\ \A g \in ToSet(y.inbox) : g.by # s
  BY DEF Carried, Due
<1> QED BY <1>2, <1>3 DEF Carried

\* A frame that answers nobody.
LEMMA ExtraCarried ==
  ASSUME NEW h, NEW s, None # s, NEW x \in Machine, NEW y \in Machine, Carried(h, x, s),
         y.inbox = x.inbox, y.work = x.work, y.state = x.state,
         NEW f \in Reply, f.by = None, y.outbox = Append(x.outbox, f)
  PROVE  Carried(h, y, s)
<1>1. x.outbox \in Seq(Reply)
  BY DEF Machine
<1>2. /\ ToSet(y.outbox) = ToSet(x.outbox) \cup {f} /\ Once(y.outbox, s)
      /\ Marked(y.outbox, s) => Marked(x.outbox, s)
  BY <1>1, Longer DEF Carried, Marked
<1> QED BY <1>2 DEF Carried

\* A host that was not asked to stop goes on as it was.
GoesOn(x, y) ==
  /\ y.state \notin {"fresh", "gone"}
  /\ Staying(x) =>
       /\ Staying(y)
       /\ x.state = "running" =>
            \/ y.state = "exited"
            \/ y.state = "running" /\ y.policy = x.policy /\ (x.intercepting => y.intercepting)
       /\ Blank(x) => Blank(y)

LEMMA GoesOnHolds ==
  ASSUME NEW x, NEW y, x.state \in {"idle", "running", "stopped"}, GoesOn(x, y)
  PROVE  /\ \A p : Holds(x, p) => Holds(y, p)
         /\ \A p : Listens(x, p) => Listens(y, p)
BY DEF GoesOn, Holds, Listens

LEMMA ServesOn ==
  ASSUME NEW h, NEW s, NEW x, NEW y, Serves(h, x, s),
         x.state \in {"idle", "running", "stopped"}, GoesOn(x, y),
         Installed => command[s].at = "idle"
  PROVE  Serves(h, y, s)
<1>1. /\ \A p : Holds(x, p) => Holds(y, p)
      /\ \A p : Listens(x, p) => Listens(y, p)
  BY GoesOnHolds
<1>2. h = port /\ command[s].at # "hearStop" => Staying(x) /\ Staying(y)
  BY DEF Serves, GoesOn
<1> QED BY <1>1, <1>2 DEF Serves, GoesOn, Beyond

LEMMA TellsOn ==
  ASSUME NEW h, NEW s, NEW x, NEW y, Tells(h, x, s),
         x.state \in {"idle", "running", "stopped"}, GoesOn(x, y),
         NEW f, ToSet(y.outbox) \subseteq ToSet(x.outbox) \cup {f},
         f.by = s => /\ command[s].at = "hearSet" /\ f.project # None =>
                          f.project = command[s].project /\ Holds(y, f.project)
                     /\ command[s].at = "hearStart" /\ command[s].digest # None /\ f.result = "active" =>
                          Listens(y, command[s].digest)
                     /\ command[s].at = "hearConnect" /\ f.project # None => h = command[s].proxy
  PROVE  Tells(h, y, s)
<1>1. /\ \A p : Holds(x, p) => Holds(y, p)
      /\ \A p : Listens(x, p) => Listens(y, p)
  BY GoesOnHolds
<1> QED BY <1>1 DEF Tells

\* The first frame of h, taken from its inbox, and the rest.
LEMMA FirstFrame ==
  ASSUME NEW x \in Machine, x.inbox # <<>>
  PROVE  /\ Head(x.inbox) \in Request /\ Tail(x.inbox) \in Seq(Request)
         /\ ToSet(x.inbox) = {Head(x.inbox)} \cup ToSet(Tail(x.inbox))
         /\ \A type : Without(x.inbox, type) => Without(Tail(x.inbox), type)
         /\ \A f \in Reply : Append(x.outbox, f) \in Seq(Reply)
                             /\ ToSet(Append(x.outbox, f)) = ToSet(x.outbox) \cup {f}
<1>1. x.inbox \in Seq(Request) /\ x.outbox \in Seq(Reply)
  BY DEF Machine
<1>2. /\ Head(x.inbox) \in Request /\ Tail(x.inbox) \in Seq(Request)
      /\ ToSet(x.inbox) = {Head(x.inbox)} \cup ToSet(Tail(x.inbox))
  BY <1>1, Shorter
<1>3. \A type : Without(x.inbox, type) => Without(Tail(x.inbox), type)
  BY <1>2 DEF Without
<1>4. ASSUME NEW f \in Reply
      PROVE  /\ Append(x.outbox, f) \in Seq(Reply)
             /\ ToSet(Append(x.outbox, f)) = ToSet(x.outbox) \cup {f}
  BY <1>1, Grown
<1> QED BY <1>2, <1>3, <1>4

\* A step of host h while the invariant holds.
Step(h, s) ==
  /\ hosts \in [Hosts -> Machine] /\ Sessions = {s} /\ h \in Hosts /\ None # s
  /\ Alive(h) /\ HostOK(h, hosts[h], s)
  /\ Installed => command[s].at = "idle"
Leads(h, s) == \E y \in Machine : Becomes(h, y) /\ HostOK(h, y, s)

\* The answer f to s says what is so of the host y.
Truthful(f, h, y, s) ==
  f.by = s =>
    /\ command[s].at = "hearSet" /\ f.project # None =>
         f.project = command[s].project /\ Holds(y, f.project)
    /\ command[s].at = "hearStart" /\ command[s].digest # None /\ f.result = "active" =>
         Listens(y, command[s].digest)
    /\ command[s].at = "hearConnect" /\ f.project # None => h = command[s].proxy

LEMMA Replies ==
  ASSUME NEW h, NEW s, Step(h, s), NEW y \in Machine, Becomes(h, y),
         hosts[h].inbox # <<>>, hosts[h].work = None, y.inbox = Tail(hosts[h].inbox), y.work = None,
         NEW f \in Reply, y.outbox = Append(hosts[h].outbox, f),
         f.type = Head(hosts[h].inbox).type, f.by = Head(hosts[h].inbox).by,
         GoesOn(hosts[h], y), Truthful(f, h, y, s)
  PROVE  Leads(h, s)
<1> DEFINE x == hosts[h]
<1>1. x \in Machine /\ x.state \in {"idle", "running", "stopped"} /\ HostOK(h, x, s)
  BY DEF Step, Alive
<1>2. ToSet(y.outbox) = ToSet(x.outbox) \cup {f}
  BY <1>1, FirstFrame
<1>3. Carried(h, y, s)
  <2> HIDE DEF x
  <2>1. x = hosts[h]
    BY DEF x
  <2> QED BY <1>1, <2>1, TakenCarried DEF HostOK
<1>4. Serves(h, y, s)
  BY <1>1, ServesOn DEF HostOK, Step
<1>5. Tells(h, y, s)
  BY <1>1, <1>2, TellsOn DEF HostOK, Truthful
<1> QED BY <1>3, <1>4, <1>5 DEF HostOK, Leads

\* A frame that is not answered.
LEMMA Drops ==
  ASSUME NEW h, NEW s, Step(h, s), NEW y \in Machine, Becomes(h, y),
         hosts[h].inbox # <<>>, hosts[h].work = None, y.inbox = Tail(hosts[h].inbox), y.work = None,
         y.outbox = hosts[h].outbox, GoesOn(hosts[h], y)
  PROVE  Leads(h, s)
<1> DEFINE x == hosts[h]
<1>1. x \in Machine /\ x.state \in {"idle", "running", "stopped"} /\ HostOK(h, x, s)
  BY DEF Step, Alive
<1>2. Carried(h, y, s)
  <2> HIDE DEF x
  <2>1. x = hosts[h]
    BY DEF x
  <2> QED BY <1>1, <2>1, TakenCarried DEF HostOK
<1>3. Serves(h, y, s)
  BY <1>1, ServesOn DEF HostOK, Step
<1>4. Tells(h, y, s)
  BY <1>1, GoesOnHolds DEF HostOK, Tells
<1> QED BY <1>2, <1>3, <1>4 DEF HostOK, Leads

\* What a host that takes a frame of a type knows.
LEMMA Taking ==
  ASSUME NEW h, NEW s, Step(h, s), NEW type, Takes(h, type)
  PROVE  LET x == hosts[h]
             m == Head(x.inbox)
         IN  /\ x \in Machine /\ x.inbox # <<>> /\ x.work = None /\ m \in Request
             /\ x.state \in {"idle", "running", "stopped"} /\ m.type = type
             /\ Tail(x.inbox) \in Seq(Request) /\ ~Without(x.inbox, type)
             /\ \A t : Without(x.inbox, t) => Without(Tail(x.inbox), t)
             /\ \A f \in Reply : Append(x.outbox, f) \in Seq(Reply)
             /\ m.by = s => /\ Due(m, h, s) /\ m.project = command[s].project
                            /\ command[s].at # "hearStop" => Staying(x)
                            /\ Serves(h, x, s)
<1> DEFINE x == hosts[h]
           m == Head(x.inbox)
<1>1. /\ x \in Machine /\ x.inbox # <<>> /\ x.work = None /\ m.type = type
      /\ x.state \in {"idle", "running", "stopped"} /\ HostOK(h, x, s)
  BY DEF Step, Takes, Alive
<1> HIDE DEF x
<1>2. /\ m \in Request /\ Tail(x.inbox) \in Seq(Request) /\ m \in ToSet(x.inbox)
      /\ \A t : Without(x.inbox, t) => Without(Tail(x.inbox), t)
      /\ \A f \in Reply : Append(x.outbox, f) \in Seq(Reply)
  BY <1>1, FirstFrame
<1>3. ~Without(x.inbox, type)
  BY <1>1, <1>2 DEF Without
<1>4. m.by = s => /\ Due(m, h, s) /\ m.project = command[s].project
                  /\ command[s].at # "hearStop" => Staying(x)
                  /\ Serves(h, x, s)
  BY <1>1, <1>2 DEF HostOK, Carried, Due, Serves
<1> QED BY <1>1, <1>2, <1>3, <1>4 DEF x

LEMMA SetStep ==
  ASSUME NEW h, NEW s, Step(h, s), TakeProjectSet(h)
  PROVE  Leads(h, s)
<1> DEFINE x == hosts[h]
           m == Head(x.inbox)
<1>1. Takes(h, "set")
  BY DEF TakeProjectSet
<1>2. /\ x \in Machine /\ x.inbox # <<>> /\ x.work = None /\ m \in Request
      /\ x.state \in {"idle", "running", "stopped"} /\ m.type = "set"
      /\ Tail(x.inbox) \in Seq(Request) /\ ~Without(x.inbox, "set")
      /\ \A t : Without(x.inbox, t) => Without(Tail(x.inbox), t)
      /\ \A f \in Reply : Append(x.outbox, f) \in Seq(Reply)
      /\ m.by = s => /\ Due(m, h, s) /\ m.project = command[s].project
                     /\ command[s].at # "hearStop" => Staying(x)
  BY <1>1, Taking
<1>3. ASSUME NEW f \in Reply, f.type = "set", f.by = m.by,
             NEW state \in {"idle", "running", "stopped"}, NEW p \in Projects \cup {None},
             Becomes(h, [x EXCEPT !.inbox = Tail(@), !.state = state, !.policy = p,
                                  !.outbox = Append(@, f)]),
             x.state = "running" => state = "running" /\ p = x.policy,
             f.project # None => f.project = m.project /\ state = "running" /\ p = m.project
      PROVE  Leads(h, s)
  <2> DEFINE y == [x EXCEPT !.inbox = Tail(@), !.state = state, !.policy = p,
                            !.outbox = Append(@, f)]
  <2>1. /\ y \in Machine
        /\ y.inbox = Tail(x.inbox) /\ y.state = state /\ y.policy = p
        /\ y.outbox = Append(x.outbox, f) /\ y.work = None /\ y.intercepting = x.intercepting
    BY <1>2 DEF Machine
  <2>2. Becomes(h, y)
    BY <1>3
  <2> HIDE DEF x, y
  <2>3. GoesOn(x, y)
    BY <1>2, <1>3, <2>1 DEF GoesOn, Staying, Blank
  <2>4. Truthful(f, h, y, s)
    BY <1>2, <1>3, <2>1, <2>3 DEF Truthful, Due, GoesOn, Holds
  <2> QED BY <1>2, <1>3, <2>1, <2>2, <2>3, <2>4, Replies DEF x
<1>4. ASSUME NEW p \in Projects \cup {None}, NEW result \in {"ok", "refused", "already-started"}
      PROVE  LET f == Frame(m.type, m.by, p, result)
             IN  f \in Reply /\ f.type = "set" /\ f.by = m.by /\ f.project = p
  BY <1>2 DEF Frame, Reply, Request
<1>5. CASE /\ x.state = "idle"
           /\ Becomes(h, Answer([Taken(h) EXCEPT !.state = "running", !.policy = m.project],
                                m, m.project, "ok"))
  <2> DEFINE f == Frame(m.type, m.by, m.project, "ok")
  <2>1. f \in Reply /\ f.type = "set" /\ f.by = m.by /\ f.project = m.project /\ m.project \in Projects \cup {None}
    BY <1>2, <1>4 DEF Request
  <2>2. Becomes(h, [x EXCEPT !.inbox = Tail(@), !.state = "running", !.policy = m.project,
                             !.outbox = Append(@, f)])
    BY <1>2, <1>5 DEF Answer, Write, Taken, Machine
  <2> HIDE DEF f
  <2> QED BY <1>3, <1>5, <2>1, <2>2
<1>6. ASSUME NEW result \in {"refused", "already-started"}, Becomes(h, Answer(Taken(h), m, None, result))
      PROVE  Leads(h, s)
  <2> DEFINE f == Frame(m.type, m.by, None, result)
  <2>1. f \in Reply /\ f.type = "set" /\ f.by = m.by /\ f.project = None
    BY <1>4
  <2>2. x.policy \in Projects \cup {None}
    BY <1>2 DEF Machine
  <2>3. Becomes(h, [x EXCEPT !.inbox = Tail(@), !.state = x.state, !.policy = x.policy,
                             !.outbox = Append(@, f)])
    BY <1>2, <1>6 DEF Answer, Write, Taken, Machine
  <2> HIDE DEF f
  <2> QED BY <1>2, <1>3, <2>1, <2>2, <2>3
<1>7. CASE x.state = "stopped" /\ Becomes(h, Taken(h))
  <2> DEFINE y == Taken(h)
  <2>1. /\ y \in Machine
        /\ y.inbox = Tail(x.inbox) /\ y.state = x.state /\ y.policy = x.policy
        /\ y.outbox = x.outbox /\ y.work = None /\ y.intercepting = x.intercepting
    BY <1>2 DEF Machine, Taken
  <2>2. Becomes(h, y)
    BY <1>7
  <2> HIDE DEF x, y
  <2>3. GoesOn(x, y)
    BY <1>2, <1>7, <2>1 DEF GoesOn, Staying, Blank
  <2> QED BY <1>2, <2>1, <2>2, <2>3, Drops DEF x
<1> QED BY <1>5, <1>6, <1>7 DEF TakeProjectSet

\* The project the host has, if it is the one that s was answered for.
LEMMA ConnectStep ==
  ASSUME NEW h, NEW s, Step(h, s), TakeMockConnect(h)
  PROVE  Leads(h, s)
<1> DEFINE x == hosts[h]
           m == Head(x.inbox)
<1>1. Takes(h, "connect")
  BY DEF TakeMockConnect
<1>2. /\ x \in Machine /\ x.inbox # <<>> /\ x.work = None /\ m \in Request
      /\ x.state \in {"idle", "running", "stopped"} /\ m.type = "connect"
      /\ Tail(x.inbox) \in Seq(Request)
      /\ \A t : Without(x.inbox, t) => Without(Tail(x.inbox), t)
      /\ \A f \in Reply : Append(x.outbox, f) \in Seq(Reply)
      /\ m.by = s => Due(m, h, s) /\ Serves(h, x, s)
  BY <1>1, Taking
<1>3. CASE x.state = "running"
  <2> DEFINE f == Frame(m.type, m.by, x.policy, "tokens")
             y == Answer(Taken(h), m, x.policy, "tokens")
  <2>1. f \in Reply /\ f.type = "connect" /\ f.by = m.by
    BY <1>2 DEF Frame, Reply, Request, Machine
  <2>2. y = [x EXCEPT !.inbox = Tail(@), !.outbox = Append(@, f)]
    BY <1>2 DEF Answer, Write, Taken, Machine
  <2>3. Becomes(h, y)
    BY <1>3 DEF TakeMockConnect, Running
  <2> HIDE DEF f, y
  <2>4. /\ y \in Machine
        /\ y.inbox = Tail(x.inbox) /\ y.state = x.state /\ y.policy = x.policy
        /\ y.outbox = Append(x.outbox, f) /\ y.work = None /\ y.intercepting = x.intercepting
    BY <1>2, <2>1, <2>2 DEF Machine
  <2> HIDE DEF x
  <2>5. GoesOn(x, y)
    BY <1>2, <1>3, <2>4 DEF GoesOn, Staying, Blank
  <2>6. Truthful(f, h, y, s)
    BY <1>2, <1>3, <2>1 DEF Truthful, Due, Serves, Blank, Beyond
  <2> QED BY <1>2, <2>1, <2>3, <2>4, <2>5, <2>6, Replies DEF x
<1>4. CASE x.state # "running"
  <2> DEFINE y == Taken(h)
  <2>1. /\ y \in Machine
        /\ y.inbox = Tail(x.inbox) /\ y.state = x.state /\ y.policy = x.policy
        /\ y.outbox = x.outbox /\ y.work = None /\ y.intercepting = x.intercepting
    BY <1>2 DEF Machine, Taken
  <2>2. Becomes(h, y)
    BY <1>4 DEF TakeMockConnect, Running
  <2> HIDE DEF x, y
  <2>3. GoesOn(x, y)
    BY <1>2, <1>4, <2>1 DEF GoesOn, Staying, Blank
  <2> QED BY <1>2, <2>1, <2>2, <2>3, Drops DEF x
<1> QED BY <1>3, <1>4

\* A command that waits for the browser's PAC is the work of the host.
LEMMA Works ==
  ASSUME NEW h, NEW s, Step(h, s), NEW y \in Machine, Becomes(h, y),
         hosts[h].inbox # <<>>, hosts[h].work = None, y.inbox = Tail(hosts[h].inbox),
         y.work = Head(hosts[h].inbox), y.work.type \in {"start", "stop"}, y.state = "running",
         NEW f \in Reply, y.outbox = Append(hosts[h].outbox, f), f.by = None,
         GoesOn(hosts[h], y)
  PROVE  Leads(h, s)
<1> DEFINE x == hosts[h]
<1>1. x \in Machine /\ x.state \in {"idle", "running", "stopped"} /\ HostOK(h, x, s) /\ None # s
  BY DEF Step, Alive
<1>2. ToSet(y.outbox) = ToSet(x.outbox) \cup {f}
  BY <1>1, FirstFrame
<1>3. Carried(h, y, s)
  <2> HIDE DEF x
  <2>1. x = hosts[h]
    BY DEF x
  <2> QED BY <1>1, <2>1, WorkCarried DEF HostOK
<1>4. Serves(h, y, s)
  BY <1>1, ServesOn DEF HostOK, Step
<1>5. Tells(h, y, s)
  BY <1>1, <1>2, TellsOn DEF HostOK
<1> QED BY <1>3, <1>4, <1>5 DEF HostOK, Leads

LEMMA PacFrames ==
  ASSUME NEW type \in PacRequest, NEW result \in {"script", "none"}
  PROVE  LET f == Frame(type, None, None, result) IN f \in Reply /\ f.by = None
BY DEF Frame, Reply, PacRequest

LEMMA StartStep ==
  ASSUME NEW h, NEW s, Step(h, s), TakeStart(h)
  PROVE  Leads(h, s)
<1> DEFINE x == hosts[h]
           m == Head(x.inbox)
<1>1. Takes(h, "start")
  BY DEF TakeStart
<1>2. /\ x \in Machine /\ x.inbox # <<>> /\ x.work = None /\ m \in Request
      /\ x.state \in {"idle", "running", "stopped"} /\ m.type = "start"
      /\ Tail(x.inbox) \in Seq(Request)
      /\ \A t : Without(x.inbox, t) => Without(Tail(x.inbox), t)
      /\ \A f \in Reply : Append(x.outbox, f) \in Seq(Reply)
      /\ m.by = s => Due(m, h, s) /\ Serves(h, x, s)
  BY <1>1, Taking
<1>3. ASSUME NEW result \in {"inactive", "active"}, NEW listening \in BOOLEAN,
             Becomes(h, Answer([Taken(h) EXCEPT !.intercepting = listening], m, None, result)),
             x.intercepting => listening, result = "active" => listening /\ x.state = "running"
      PROVE  Leads(h, s)
  <2> DEFINE f == Frame(m.type, m.by, None, result)
             y == Answer([Taken(h) EXCEPT !.intercepting = listening], m, None, result)
  <2>1. f \in Reply /\ f.type = "start" /\ f.by = m.by /\ f.project = None /\ f.result = result
    BY <1>2 DEF Frame, Reply, Request, Machine
  <2>2. y = [x EXCEPT !.inbox = Tail(@), !.intercepting = listening, !.outbox = Append(@, f)]
    BY <1>2 DEF Answer, Write, Taken, Machine
  <2>3. Becomes(h, y)
    BY <1>3
  <2> HIDE DEF f, y
  <2>4. /\ y \in Machine
        /\ y.inbox = Tail(x.inbox) /\ y.state = x.state /\ y.policy = x.policy
        /\ y.outbox = Append(x.outbox, f) /\ y.work = None /\ y.intercepting = listening
    BY <1>2, <2>1, <2>2 DEF Machine
  <2> HIDE DEF x
  <2>5. GoesOn(x, y)
    BY <1>2, <1>3, <2>4 DEF GoesOn, Staying, Blank
  <2>6. Truthful(f, h, y, s)
    <3>1. CASE f.by = s /\ command[s].at = "hearStart" /\ command[s].digest # None /\ result = "active"
      <4>1. Holds(x, command[s].digest) /\ x.state = "running"
        BY <1>2, <1>3, <2>1, <3>1 DEF Due, Serves, Blank
      <4>2. Listens(y, command[s].digest)
        BY <1>3, <2>4, <2>5, <3>1, <4>1 DEF GoesOn, Holds, Listens
      <4> QED BY <2>1, <3>1, <4>2 DEF Truthful
    <3> QED BY <1>2, <2>1, <3>1 DEF Truthful, Due
  <2> QED BY <1>2, <2>1, <2>3, <2>4, <2>5, <2>6, Replies DEF x
<1>4. CASE Becomes(h, Answer(Taken(h), m, None, "inactive"))
  <2>1. Taken(h) = [Taken(h) EXCEPT !.intercepting = x.intercepting] /\ x.intercepting \in BOOLEAN
    BY <1>2 DEF Taken, Machine
  <2> QED BY <1>3, <1>4, <2>1
<1>5. CASE /\ x.state = "running"
           /\ Becomes(h, Answer([Taken(h) EXCEPT !.intercepting = TRUE], m, None, "active"))
  BY <1>3, <1>5
<1>6. CASE /\ x.state = "running"
           /\ Becomes(h, Write([Taken(h) EXCEPT !.work = m],
                               Frame("pac-install", None, None, "script")))
  <2> DEFINE f == Frame("pac-install", None, None, "script")
             y == Write([Taken(h) EXCEPT !.work = m], f)
  <2>1. f \in Reply /\ f.by = None
    BY PacFrames DEF PacRequest
  <2>2. y = [x EXCEPT !.inbox = Tail(@), !.work = m, !.outbox = Append(@, f)]
    BY <1>2 DEF Write, Taken, Machine
  <2>3. Becomes(h, y)
    BY <1>6
  <2> HIDE DEF f, y
  <2>4. /\ y \in Machine
        /\ y.inbox = Tail(x.inbox) /\ y.state = x.state /\ y.policy = x.policy
        /\ y.outbox = Append(x.outbox, f) /\ y.work = m /\ y.intercepting = x.intercepting
    BY <1>2, <2>1, <2>2 DEF Machine
  <2> HIDE DEF x
  <2>5. GoesOn(x, y)
    BY <1>2, <1>6, <2>4 DEF GoesOn, Staying, Blank
  <2> QED BY <1>2, <1>6, <2>1, <2>3, <2>4, <2>5, Works DEF x
<1> QED BY <1>4, <1>5, <1>6 DEF TakeStart, Running

LEMMA StopStep ==
  ASSUME NEW h, NEW s, Step(h, s), TakeStop(h)
  PROVE  Leads(h, s)
<1> DEFINE x == hosts[h]
           m == Head(x.inbox)
<1>1. Takes(h, "stop")
  BY DEF TakeStop
<1>2. /\ x \in Machine /\ x.inbox # <<>> /\ x.work = None /\ m \in Request
      /\ x.state \in {"idle", "running", "stopped"} /\ m.type = "stop"
      /\ Tail(x.inbox) \in Seq(Request) /\ ~Staying(x)
      /\ \A f \in Reply : Append(x.outbox, f) \in Seq(Reply)
      /\ m.by = s => Due(m, h, s)
  BY <1>1, Taking DEF Staying
<1>3. CASE Running(h) /\ x.routed
  <2> DEFINE f == Frame("pac-remove", None, None, "none")
             y == Write([Taken(h) EXCEPT !.work = m], f)
  <2>1. f \in Reply /\ f.by = None
    BY PacFrames DEF PacRequest
  <2>2. y = [x EXCEPT !.inbox = Tail(@), !.work = m, !.outbox = Append(@, f)]
    BY <1>2 DEF Write, Taken, Machine
  <2>3. Becomes(h, y) /\ x.state = "running"
    BY <1>3 DEF TakeStop, Running
  <2> HIDE DEF f, y
  <2>4. /\ y \in Machine
        /\ y.inbox = Tail(x.inbox) /\ y.state = x.state
        /\ y.outbox = Append(x.outbox, f) /\ y.work = m
    BY <1>2, <2>1, <2>2 DEF Machine
  <2> HIDE DEF x
  <2>5. GoesOn(x, y)
    BY <1>2, <2>3, <2>4 DEF GoesOn
  <2> QED BY <1>2, <2>1, <2>3, <2>4, <2>5, Works DEF x
<1>4. CASE ~(Running(h) /\ x.routed)
  <2> DEFINE f == Frame(m.type, m.by, None, "stopped")
             y == Answer(Stopped(Taken(h)), m, None, "stopped")
  <2>1. f \in Reply /\ f.type = "stop" /\ f.by = m.by
    BY <1>2 DEF Frame, Reply, Request
  <2>2. y = [x EXCEPT !.inbox = Tail(@), !.state = "stopped", !.policy = None,
                      !.intercepting = FALSE, !.routed = FALSE, !.work = None,
                      !.outbox = Append(@, f)]
    BY <1>2 DEF Answer, Stopped, Write, Taken, Machine
  <2>3. Becomes(h, y)
    BY <1>4 DEF TakeStop
  <2> HIDE DEF f, y
  <2>4. /\ y \in Machine
        /\ y.inbox = Tail(x.inbox) /\ y.state = "stopped"
        /\ y.outbox = Append(x.outbox, f) /\ y.work = None
    BY <1>2, <2>1, <2>2 DEF Machine
  <2> HIDE DEF x
  <2>5. GoesOn(x, y)
    BY <1>2, <2>4 DEF GoesOn
  <2>6. Truthful(f, h, y, s)
    BY <1>2, <2>1 DEF Truthful, Due
  <2> QED BY <1>2, <2>1, <2>3, <2>4, <2>5, <2>6, Replies DEF x
<1> QED BY <1>3, <1>4

\* The work goes on when the browser has answered, or no answer came.
LEMMA ResumeStep ==
  ASSUME NEW h, NEW s, Step(h, s), hosts[h].work # None,
         NEW ok \in BOOLEAN, NEW replies \in Seq(BOOLEAN),
         Becomes(h, Resumed([hosts[h] EXCEPT !.replies = replies], ok))
  PROVE  Leads(h, s)
<1> DEFINE x == hosts[h]
           z == [x EXCEPT !.replies = replies]
           m == x.work
<1>1. /\ x \in Machine /\ x.state = "running" /\ HostOK(h, x, s) /\ m \in Request /\ m # None
      /\ m.type \in {"start", "stop"}
      /\ m.by = s => Due(m, h, s) /\ Serves(h, x, s)
  BY DEF Step, HostOK, Carried, Machine
<1>2. \A f \in Reply : /\ Append(x.outbox, f) \in Seq(Reply)
                       /\ ToSet(Append(x.outbox, f)) = ToSet(x.outbox) \cup {f}
  BY <1>1, Grown DEF Machine
<1>3. z \in Machine /\ z.work = m
  BY <1>1 DEF Machine
<1>4. ASSUME NEW result \in {"stopped", "active", "inactive"}, NEW y \in Machine, Becomes(h, y),
             y.inbox = x.inbox, y.work = None,
             y.outbox = Append(x.outbox, Frame(m.type, m.by, None, result)), y.state \notin {"fresh", "gone"},
             m.type = "stop"
               \/ (y.state = "running" /\ y.policy = x.policy /\ (x.intercepting => y.intercepting)),
             result = "active" => y.intercepting
      PROVE  Leads(h, s)
  <2> DEFINE f == Frame(m.type, m.by, None, result)
  <2>1. f \in Reply /\ f.type = m.type /\ f.by = m.by /\ f.project = None /\ f.result = result
    BY <1>1 DEF Frame, Reply, Request
  <2>2. y.outbox = Append(x.outbox, f)
    BY <1>4
  <2> HIDE DEF f, x
  <2>3. GoesOn(x, y)
    BY <1>1, <1>4 DEF GoesOn, Staying, Blank
  <2>4. Truthful(f, h, y, s)
    <3>1. CASE f.by = s /\ command[s].at = "hearStart" /\ command[s].digest # None /\ result = "active"
      <4>1. Holds(x, command[s].digest) /\ m.type = "start"
        BY <1>1, <2>1, <3>1 DEF Due, Serves, Blank
      <4>2. Listens(y, command[s].digest)
        BY <1>1, <1>4, <2>3, <3>1, <4>1 DEF GoesOn, Holds, Listens
      <4> QED BY <2>1, <3>1, <4>2 DEF Truthful
    <3> QED BY <1>1, <2>1, <3>1 DEF Truthful, Due
  <2>5. Carried(h, y, s)
    BY <1>1, <1>4, <2>1, <2>2, ResumedCarried DEF HostOK
  <2>6. Serves(h, y, s)
    BY <1>1, <2>3, ServesOn DEF HostOK, Step
  <2>7. Tells(h, y, s)
    BY <1>1, <1>2, <2>1, <2>2, <2>3, <2>4, TellsOn DEF HostOK, Truthful
  <2> QED BY <1>4, <2>5, <2>6, <2>7 DEF HostOK, Leads
<1>5. \A result \in {"stopped", "active", "inactive"} :
        Append(x.outbox, Frame(m.type, m.by, None, result)) \in Seq(Reply)
  BY <1>1, <1>2 DEF Frame, Reply, Request
<1>6. CASE m.type = "stop"
  <2> DEFINE y == Answer(Stopped(z), m, None, "stopped")
  <2>1. Becomes(h, y)
    BY <1>3, <1>6 DEF Resumed
  <2>2. y = [z EXCEPT !.state = "stopped", !.policy = None, !.intercepting = FALSE,
                      !.routed = FALSE, !.work = None,
                      !.outbox = Append(@, Frame(m.type, m.by, None, "stopped"))]
    BY <1>3 DEF Answer, Stopped, Write, Machine
  <2> HIDE DEF y
  <2>3. /\ y \in Machine /\ y.inbox = x.inbox /\ y.work = None /\ y.state = "stopped"
        /\ y.outbox = Append(x.outbox, Frame(m.type, m.by, None, "stopped"))
    BY <1>1, <1>5, <2>2 DEF Machine
  <2> QED BY <1>4, <1>6, <2>1, <2>3
<1>7. CASE m.type = "start" /\ ok
  <2> DEFINE y == Answer([z EXCEPT !.intercepting = TRUE, !.routed = TRUE, !.work = None],
                         m, None, "active")
  <2>1. Becomes(h, y)
    BY <1>3, <1>7 DEF Resumed
  <2>2. y = [z EXCEPT !.intercepting = TRUE, !.routed = TRUE, !.work = None,
                      !.outbox = Append(@, Frame(m.type, m.by, None, "active"))]
    BY <1>3 DEF Answer, Write, Machine
  <2> HIDE DEF y
  <2>3. /\ y \in Machine /\ y.inbox = x.inbox /\ y.work = None /\ y.state = "running"
        /\ y.policy = x.policy /\ y.intercepting
        /\ y.outbox = Append(x.outbox, Frame(m.type, m.by, None, "active"))
    BY <1>1, <1>5, <2>2 DEF Machine
  <2> QED BY <1>4, <2>1, <2>3
<1>8. CASE m.type = "start" /\ ~ok
  <2> DEFINE y == Answer([z EXCEPT !.work = None], m, None, "inactive")
  <2>1. Becomes(h, y)
    BY <1>3, <1>8 DEF Resumed
  <2>2. y = [z EXCEPT !.work = None, !.outbox = Append(@, Frame(m.type, m.by, None, "inactive"))]
    BY <1>3 DEF Answer, Write, Machine
  <2> HIDE DEF y
  <2>3. /\ y \in Machine /\ y.inbox = x.inbox /\ y.work = None /\ y.state = "running"
        /\ y.policy = x.policy /\ y.intercepting = x.intercepting
        /\ y.outbox = Append(x.outbox, Frame(m.type, m.by, None, "inactive"))
    BY <1>1, <1>5, <2>2 DEF Machine
  <2> QED BY <1>4, <2>1, <2>3
<1> QED BY <1>1, <1>6, <1>7, <1>8

LEMMA PacAnswerStep ==
  ASSUME NEW h, NEW s, Step(h, s), HearPacAnswer(h)
  PROVE  Leads(h, s)
<1> DEFINE x == hosts[h]
           z == [x EXCEPT !.replies = Tail(@)]
<1>1. /\ x \in Machine /\ x.replies # <<>> /\ x.state \in {"idle", "running", "stopped"}
      /\ HostOK(h, x, s) /\ None # s
  BY DEF Step, Alive, HearPacAnswer
<1>2. Tail(x.replies) \in Seq(BOOLEAN) /\ Head(x.replies) \in BOOLEAN
  BY <1>1, Shorter DEF Machine
<1>3. /\ z \in Machine /\ z.inbox = x.inbox /\ z.outbox = x.outbox /\ z.work = x.work
      /\ z.state = x.state /\ z.policy = x.policy /\ z.intercepting = x.intercepting
  BY <1>1, <1>2 DEF Machine
<1>4. CASE x.work # None /\ Becomes(h, Resumed(z, Head(x.replies)))
  BY <1>2, <1>4, ResumeStep
<1>5. CASE Becomes(h, Write(z, Frame("pac-install", None, None, "none")))
  <2> DEFINE f == Frame("pac-install", None, None, "none")
             y == Write(z, f)
  <2>1. f \in Reply /\ f.by = None
    BY PacFrames DEF PacRequest
  <2>2. Append(x.outbox, f) \in Seq(Reply) /\ ToSet(Append(x.outbox, f)) = ToSet(x.outbox) \cup {f}
    BY <1>1, <2>1, Grown DEF Machine
  <2>3. Becomes(h, y)
    BY <1>5
  <2>4. /\ y \in Machine
        /\ y.inbox = x.inbox /\ y.state = x.state /\ y.policy = x.policy
        /\ y.outbox = Append(x.outbox, f) /\ y.work = x.work /\ y.intercepting = x.intercepting
    <3>1. y = [z EXCEPT !.outbox = Append(x.outbox, f)]
      BY <1>3 DEF Write
    <3> HIDE DEF y, z
    <3> QED BY <1>3, <2>2, <3>1 DEF Machine
  <2> HIDE DEF f, x, y, z
  <2>5. GoesOn(x, y)
    BY <1>1, <2>4 DEF GoesOn, Staying, Blank
  <2>6. Carried(h, y, s)
    BY <1>1, <2>1, <2>4, ExtraCarried DEF HostOK
  <2>7. Serves(h, y, s)
    BY <1>1, <2>5, ServesOn DEF HostOK, Step
  <2>8. Tells(h, y, s)
    BY <1>1, <2>1, <2>2, <2>4, <2>5, TellsOn DEF HostOK
  <2> QED BY <2>3, <2>4, <2>6, <2>7, <2>8 DEF HostOK, Leads
<1>6. CASE Becomes(h, z)
  <2> HIDE DEF x, z
  <2>1. GoesOn(x, z)
    BY <1>1, <1>3 DEF GoesOn, Staying, Blank
  <2>2. Carried(h, z, s)
    BY <1>1, <1>3 DEF HostOK, Carried
  <2>3. Serves(h, z, s)
    BY <1>1, <2>1, ServesOn DEF HostOK, Step
  <2>4. Tells(h, z, s)
    BY <1>1, <1>3, <2>1, GoesOnHolds DEF HostOK, Tells
  <2> QED BY <1>3, <1>6, <2>2, <2>3, <2>4 DEF HostOK, Leads
<1> QED BY <1>3, <1>4, <1>5, <1>6 DEF HearPacAnswer

LEMMA ExitStep ==
  ASSUME NEW h, NEW s, Step(h, s), Exit(h)
  PROVE  Leads(h, s)
<1> DEFINE x == hosts[h]
           y == [NewHost EXCEPT !.state = "exited", !.outbox = x.outbox]
<1>1. /\ x \in Machine /\ x.state \in {"idle", "running", "stopped"} /\ HostOK(h, x, s)
  BY DEF Step, Alive
<1>2. /\ y \in Machine /\ y.inbox = <<>> /\ y.outbox = x.outbox /\ y.work = None
      /\ y.state = "exited"
  <2>1. <<>> \in Seq(Request) /\ <<>> \in Seq(BOOLEAN) /\ x.outbox \in Seq(Reply)
    BY <1>1 DEF Machine
  <2> QED BY <2>1 DEF Machine, NewHost
<1>3. Becomes(h, y)
  BY DEF Exit
<1> HIDE DEF x, y
<1>4. GoesOn(x, y)
  BY <1>2, NoneLeft DEF GoesOn, Staying, Without, Blank
<1>5. Carried(h, y, s)
  BY <1>1, <1>2, NoneLeft DEF HostOK, Carried
<1>6. Serves(h, y, s)
  BY <1>1, <1>4, ServesOn DEF HostOK, Step
<1>7. Tells(h, y, s)
  BY <1>1, <1>2, <1>4, GoesOnHolds DEF HostOK, Tells
<1> QED BY <1>2, <1>3, <1>5, <1>6, <1>7 DEF HostOK, Leads

LEMMA HostSteps ==
  ASSUME NEW h, NEW s, Step(h, s), HostStep(h)
  PROVE  Leads(h, s)
<1>1. CASE PacTimesOut(h)
  <2>1. /\ hosts[h].work # None /\ Becomes(h, Resumed(hosts[h], FALSE))
        /\ hosts[h].replies \in Seq(BOOLEAN)
        /\ hosts[h] = [hosts[h] EXCEPT !.replies = hosts[h].replies]
    BY <1>1 DEF PacTimesOut, Step, Machine
  <2> QED BY <2>1, ResumeStep
<1> QED BY <1>1, SetStep, StartStep, ConnectStep, StopStep, PacAnswerStep, ExitStep DEF HostStep

-------------------------------------------------------------------------------
(* The worker's commands and calls.                                          *)

CommandOK(c) ==
  /\ c.digest \in {None, c.project}
  /\ c.at \in Beyond =>
       /\ c.digest # None /\ c.proxy # None /\ c.project \in Bodies \cup Mocks
       /\ c.at # "bodies" => c.project \in Mocks
  /\ c.at = "mocks" => c.token = c.proxy

SomeGone == \E h \in Hosts : hosts[h].state = "gone"
CallsOK(s) ==
  /\ calls \in Seq(Call) /\ Once(calls, s)
  /\ \A k \in ToSet(calls) : /\ k.by = None => k.at = "clearMocks" /\ SomeGone
                             /\ k.by = s => k.at = command[s].at
  /\ command[s].at \in Writing \cup Clearing => Marked(calls, s)

RulesOK(s) ==
  /\ Installed => /\ command[s].at = "idle" /\ phase = "started"
                  /\ serving = rules["mocks"].digest
                  /\ rules["mocks"].token = rules["mocks"].port
  /\ command[s].at = "idle" /\ phase = "started" /\ serving \in Mocks
       => rules["mocks"] # None \/ SomeGone

RedirectRecord == [port: Hosts, token: Hosts, digest: Projects]
Typed ==
  /\ hosts \in [Hosts -> Machine] /\ active \in Projects /\ serving \in Projects \cup {None}
  /\ phase \in Outcomes /\ command \in [Sessions -> Going(Points)]
  /\ port \in Hosts \cup {None} /\ pacInstalled \in BOOLEAN
  /\ pacTask \in [Hosts -> Reply \cup {None}]
  /\ rules \in [{"mocks", "bodies"} -> RedirectRecord \cup {None}]
  /\ pac \in Hosts \cup {None}

LEMMA TypedIsTypeOK == Typed <=> TypeOK
BY DEF Typed, TypeOK, Machine, Going, Points, RedirectRecord

SessionInv(s) ==
  /\ Typed /\ \A h \in Hosts : HostOK(h, hosts[h], s)
  /\ CommandOK(command[s]) /\ CallsOK(s) /\ RulesOK(s)

SessionFacts(s) == Sessions = {s} /\ s # None /\ None \notin Hosts \cup Projects /\ Mocks \cup Bodies \subseteq Projects

LEMMA Continued ==
  ASSUME NEW s, SessionFacts(s), SessionInv(s), NEW c \in Going(Points \cup Outcomes),
         Continue(s, c), command[s].at \notin Writing \cup Clearing,
         CommandOK(c), rules' = rules, SomeGone => SomeGone',
         ~Installed \/ c.at = "clearMocks", c.at # "idle", c.at = "started" => c.project \notin Mocks
  PROVE  /\ command' \in [Sessions -> Going(Points)] /\ phase' \in Outcomes
         /\ serving' \in Projects \cup {None}
         /\ command'[s].at = IF c.at \in Outcomes THEN "idle" ELSE c.at
         /\ command'[s].project = c.project /\ command'[s].digest = c.digest
         /\ command'[s].proxy = c.proxy /\ command'[s].token = c.token
         /\ ~Installed' /\ CommandOK(command[s])' /\ CallsOK(s)' /\ RulesOK(s)'
<1> DEFINE d == Parked(c)
<1>1. /\ command' = [command EXCEPT ![s] = d] /\ s \in Sessions
      /\ command \in [Sessions -> Going(Points)]
  BY DEF Continue, SessionFacts, SessionInv, Typed
<1>2. /\ d \in Going(Points) /\ d.at = IF c.at \in Outcomes THEN "idle" ELSE c.at
      /\ d.project = c.project /\ d.digest = c.digest /\ d.proxy = c.proxy /\ d.token = c.token
  BY DEF Parked, Moved, Going, Points, Outcomes
<1> HIDE DEF d
<1>3. command' \in [Sessions -> Going(Points)] /\ command'[s] = d
  BY <1>1, <1>2
<1>4. phase' \in Outcomes /\ serving' \in Projects \cup {None}
  BY DEF Continue, Going, SessionInv, Typed
<1>5. CommandOK(command[s])'
  BY <1>2, <1>3 DEF CommandOK, Beyond, Outcomes
<1>6. c.at \in Outcomes => c.at \notin Writing \cup Clearing
  BY DEF Outcomes, Writing, Clearing
<1>7. /\ calls \in Seq(Call) /\ Once(calls, s) /\ ~Marked(calls, s)
      /\ \A k \in ToSet(calls) : k.by = None => k.at = "clearMocks" /\ SomeGone
  <2>1. \A k \in ToSet(calls) : k \in Call
    BY DEF SessionInv, CallsOK, ToSet
  <2> QED BY <2>1 DEF SessionInv, CallsOK, Marked, Call
<1>8. CallsOK(s)' /\ (c.at = "clearMocks" => ClearDue') /\ ToSet(calls) \subseteq ToSet(calls')
  <2>1. CASE c.at \in Writing \cup Clearing
    <3> DEFINE k == Read(s, c.at)
    <3>1. k \in Call /\ k.by = s /\ k.at = c.at
      BY <2>1 DEF Read, Call, SessionFacts
    <3>2. calls' = Append(calls, k)
      BY <2>1 DEF Continue
    <3> HIDE DEF k
    <3>3. /\ calls' \in Seq(Call) /\ ToSet(calls') = ToSet(calls) \cup {k} /\ Once(calls', s)
      BY <1>7, <3>1, <3>2, Grown, Longer
    <3>4. command'[s].at = c.at
      BY <1>2, <1>3, <1>6, <2>1
    <3> QED BY <1>7, <3>1, <3>3, <3>4 DEF CallsOK, Marked, ClearDue, SessionFacts
  <2>2. CASE c.at \notin Writing \cup Clearing
    <3>1. calls' = calls
      BY <2>2 DEF Continue
    <3>2. command'[s].at \notin Writing \cup Clearing
      BY <1>2, <1>3, <2>2 DEF Writing, Clearing
    <3> QED BY <1>7, <2>2, <3>1, <3>2 DEF CallsOK, Marked, Clearing
  <2> QED BY <2>1, <2>2
<1>9. ~Installed'
  BY <1>8 DEF Installed, ClearDue
<1>10. RulesOK(s)'
  <2>1. command'[s].at = "idle" => c.at \in Outcomes
    BY <1>2, <1>3
  <2>2. c.at \in Outcomes /\ phase' = "started" => serving' \notin Mocks
    BY DEF Continue
  <2> QED BY <1>9, <2>1, <2>2 DEF RulesOK
<1> QED BY <1>2, <1>3, <1>4, <1>5, <1>8, <1>9, <1>10

LEMMA MovedIs ==
  ASSUME NEW c \in Going(Points), NEW to \in Points \cup Outcomes
  PROVE  /\ Moved(c, to) \in Going(Points \cup Outcomes) /\ Moved(c, to).at = to
         /\ Moved(c, to).project = c.project /\ Moved(c, to).digest = c.digest
         /\ Moved(c, to).proxy = c.proxy /\ Moved(c, to).token = c.token
         /\ Moved(c, to).kind = c.kind
BY DEF Moved, Going

\* No frame of s is with host x.
Unmarked(x, s) ==
  ~Marked(x.inbox, s) /\ ~Marked(x.outbox, s) /\ (x.work = None \/ x.work.by # s)

LEMMA Calm ==
  ASSUME NEW h, NEW s, Unmarked(hosts[h], s)',
         hosts'[h].work # None =>
           hosts'[h].state = "running" /\ hosts'[h].work.type \in {"start", "stop"}
  PROVE  Carried(h, hosts[h], s)' /\ Tells(h, hosts[h], s)'
<1>1. /\ \A f \in ToSet(hosts'[h].inbox) : f.by # s
      /\ \A f \in ToSet(hosts'[h].outbox) : f.by # s
      /\ hosts'[h].work = None \/ hosts'[h].work.by # s
  BY DEF Unmarked, Marked
<1>2. LastOnly(hosts'[h].inbox, s) /\ Once(hosts'[h].outbox, s)
  BY <1>1 DEF LastOnly, Once, ToSet
<1> QED BY <1>1, <1>2 DEF Carried, Tells

LEMMA NotHearing ==
  ASSUME NEW s, SessionInv(s), command[s].at \notin Hearing, NEW h \in Hosts
  PROVE  Unmarked(hosts[h], s)
BY DEF SessionInv, HostOK, Carried, Due, Hearing, Unmarked, Marked

LEMMA ElsewhereUnmarked ==
  ASSUME NEW s, SessionInv(s), NEW h \in Hosts, h # port
  PROVE  Unmarked(hosts[h], s)
BY DEF SessionInv, HostOK, Carried, Due, Unmarked, Marked

WorkOK(x) == x.work # None => x.state = "running" /\ x.work.type \in {"start", "stop"}
LEMMA WorksOK ==
  ASSUME NEW s, SessionInv(s), NEW h \in Hosts
  PROVE  WorkOK(hosts[h])
BY DEF SessionInv, HostOK, Carried, WorkOK

\* A command that asks nothing of a host and has no use for what it has.
LEMMA QuietMove ==
  ASSUME NEW s, SessionFacts(s), SessionInv(s), NEW c \in Going(Points \cup Outcomes),
         Continue(s, c), command[s].at \notin Writing \cup Clearing \cup Hearing,
         c.at \in {"set", "stop"} \cup Clearing \cup Outcomes,
         CommandOK(c), UNCHANGED <<hosts, port, rules, active, pacTask>>,
         pacInstalled' \in BOOLEAN, pac' \in Hosts \cup {None},
         ~Installed \/ c.at = "clearMocks", c.at = "started" => c.project \notin Mocks
  PROVE  SessionInv(s)'
<1>1. /\ command' \in [Sessions -> Going(Points)] /\ phase' \in Outcomes
      /\ serving' \in Projects \cup {None}
      /\ command'[s].at = IF c.at \in Outcomes THEN "idle" ELSE c.at
      /\ ~Installed' /\ CommandOK(command[s])' /\ CallsOK(s)' /\ RulesOK(s)'
  <2>1. SomeGone => SomeGone'
    BY DEF SomeGone
  <2>2. c.at # "idle"
    BY DEF Clearing, Outcomes
  <2> QED BY <2>1, <2>2, Continued DEF Hearing
<1>2. command'[s].at \notin {"start", "hearStart", "hearStop"} \cup Beyond
  BY <1>1 DEF Clearing, Outcomes, Beyond
<1>3. ASSUME NEW h \in Hosts PROVE HostOK(h, hosts[h], s)'
  <2>1. Unmarked(hosts[h], s)' /\ WorkOK(hosts[h])
    BY NotHearing, WorksOK DEF Unmarked
  <2>2. Carried(h, hosts[h], s)' /\ Tells(h, hosts[h], s)'
    BY <2>1, Calm DEF WorkOK
  <2>3. Serves(h, hosts[h], s)
    BY DEF SessionInv, HostOK
  <2>4. command[s].at # "hearStop"
    BY DEF Hearing
  <2>5. Serves(h, hosts[h], s)'
    BY <1>1, <1>2, <2>3, <2>4 DEF Serves
  <2> QED BY <2>2, <2>5 DEF HostOK
<1>4. Typed'
  BY <1>1 DEF SessionInv, Typed
<1> QED BY <1>1, <1>3, <1>4 DEF SessionInv

LEMMA Busy ==
  ASSUME NEW s, SessionInv(s), command[s].at # "idle"
  PROVE  ~Installed
BY DEF SessionInv, RulesOK

LEMMA StartAsked ==
  ASSUME NEW s, SessionFacts(s), SessionInv(s), Start(s)
  PROVE  SessionInv(s)'
<1> DEFINE c == [Idle EXCEPT !.kind = "start", !.at = "set", !.project = active]
<1>1. /\ c \in Going(Points \cup Outcomes) /\ c.at = "set" /\ c.digest = None
  BY DEF Going, Idle, Points, SessionInv, Typed
<1>2. Continue(s, c) /\ UNCHANGED <<hosts, active, adapter, browser>>
      /\ command[s].at = "idle" /\ phase # "started"
  BY DEF Start
<1> HIDE DEF c
<1>3. ~Installed
  BY <1>2 DEF SessionInv, RulesOK
<1>4. CommandOK(c)
  BY <1>1 DEF CommandOK, Beyond
<1> QED BY <1>1, <1>2, <1>3, <1>4, QuietMove
        DEF adapter, browser, Hearing, Writing, Clearing, SessionInv, Typed

LEMMA StopAsked ==
  ASSUME NEW s, SessionFacts(s), SessionInv(s), Stop(s)
  PROVE  SessionInv(s)'
<1> DEFINE c == [Idle EXCEPT !.at = "clearMocks"]
<1>1. /\ c \in Going(Points \cup Outcomes) /\ c.at = "clearMocks" /\ c.digest = None
  BY DEF Going, Idle, Points, Clearing
<1>2. Continue(s, c) /\ UNCHANGED <<hosts, active, adapter, browser>> /\ command[s].at = "idle"
  BY DEF Stop
<1> HIDE DEF c
<1>3. CommandOK(c)
  BY <1>1 DEF CommandOK, Beyond
<1> QED BY <1>1, <1>2, <1>3, QuietMove
        DEF adapter, browser, Hearing, Writing, Clearing, SessionInv, Typed

LEMMA ClearPacStep ==
  ASSUME NEW s, SessionFacts(s), SessionInv(s), ClearPac(s)
  PROVE  SessionInv(s)'
<1>1. /\ command[s].at = "clearPac" /\ Continue(s, Moved(command[s], "stop"))
      /\ UNCHANGED <<hosts, active, port, pacTask, rules>>
      /\ pac' = None /\ pacInstalled' = FALSE
      /\ command[s] \in Going(Points) /\ CommandOK(command[s])
  BY DEF ClearPac, SessionInv, Typed, SessionFacts
<1>2. ~Installed
  BY <1>1, Busy
<1>3. "stop" \in Points
  BY DEF Points
<1> DEFINE c == Moved(command[s], "stop")
<1>4. /\ c \in Going(Points \cup Outcomes) /\ c.at = "stop" /\ c.project = command[s].project
      /\ c.digest = command[s].digest
  BY <1>1, <1>3, MovedIs
<1>5. CommandOK(c)
  BY <1>1, <1>4 DEF CommandOK, Beyond
<1>6. Continue(s, c)
  BY <1>1
<1> HIDE DEF c
<1> QED BY <1>1, <1>2, <1>4, <1>5, <1>6, QuietMove DEF Hearing, Writing, Clearing

\* Nothing can be sent: there is no port and no host to connect to.
LEMMA UnsentStep ==
  ASSUME NEW s, SessionFacts(s), SessionInv(s),
         command[s].at \in {"set", "start", "connect", "clearPac", "stop"},
         NEW to \in {"clearMocks", "failed", "stopped"}, Continue(s, Moved(command[s], to)),
         UNCHANGED <<hosts, port, active, pacInstalled, pacTask, browser>>
  PROVE  SessionInv(s)'
<1>1. command[s] \in Going(Points) /\ CommandOK(command[s])
  BY DEF SessionInv, Typed, SessionFacts
<1> DEFINE c == Moved(command[s], to)
<1>2. to \in Points \cup Outcomes
  BY DEF Points, Outcomes, Clearing
<1>3. /\ c \in Going(Points \cup Outcomes) /\ c.at = to /\ c.project = command[s].project
      /\ c.digest = command[s].digest
  BY <1>1, <1>2, MovedIs
<1>4. CommandOK(c)
  BY <1>1, <1>3 DEF CommandOK, Beyond
<1>5. Continue(s, c)
  OBVIOUS
<1>6. ~Installed
  BY Busy
<1> HIDE DEF c
<1> QED BY <1>1, <1>3, <1>4, <1>5, <1>6, QuietMove
        DEF Hearing, Writing, Clearing, Outcomes, browser, SessionInv, Typed

\* A request goes to the port, or to a new host.
LEMMA PostedCarried ==
  ASSUME NEW s, SessionFacts(s), NEW h \in Hosts, NEW x \in Machine, NEW f \in Request,
         Unmarked(x, s), WorkOK(x), hosts'[h] = Delivered(x, f), f.by = s,
         f.project = command'[s].project, Due(f, h, s)'
  PROVE  /\ hosts'[h] \in Machine /\ Carried(h, hosts[h], s)' /\ Tells(h, hosts[h], s)'
         /\ x.state = "fresh" => hosts'[h].state = "idle" /\ ToSet(hosts'[h].inbox) = {f}
         /\ x.state # "fresh" => /\ hosts'[h].state = x.state
                                 /\ ToSet(hosts'[h].inbox) \subseteq ToSet(x.inbox) \cup {f}
         /\ hosts'[h].work = x.work /\ hosts'[h].policy = x.policy
         /\ hosts'[h].intercepting = x.intercepting
<1> DEFINE y == hosts'[h]
<1>1. x.inbox \in Seq(Request) /\ x.outbox \in Seq(Reply)
  BY DEF Machine
<1>2. /\ Append(x.inbox, f) \in Seq(Request) /\ LastOnly(Append(x.inbox, f), s)
      /\ ToSet(Append(x.inbox, f)) = ToSet(x.inbox) \cup {f}
  BY <1>1, Grown, Longer DEF Unmarked
<1>3. <<f>> \in Seq(Request) /\ LastOnly(<<f>>, s) /\ ToSet(<<f>>) = {f}
  BY DEF LastOnly, ToSet
<1>4. PICK q \in Seq(Request) :
        /\ y.inbox = q /\ LastOnly(q, s) /\ y \in Machine
        /\ y.outbox = x.outbox /\ y.work = x.work /\ y.policy = x.policy
        /\ y.intercepting = x.intercepting /\ y.replies = x.replies
        /\ x.state = "fresh" => y.state = "idle" /\ ToSet(q) = {f}
        /\ x.state # "fresh" => y.state = x.state /\ ToSet(q) \subseteq ToSet(x.inbox) \cup {f}
  <2>1. CASE x.state = "fresh"
    <3>1. y = [x EXCEPT !.state = "idle", !.inbox = <<f>>]
      BY <2>1 DEF Delivered
    <3> HIDE DEF y
    <3> QED BY <1>3, <2>1, <3>1 DEF Machine
  <2>2. CASE x.state = "exited"
    <3>1. y = x
      BY <2>2 DEF Delivered
    <3>2. LastOnly(x.inbox, s)
      BY DEF Unmarked, Marked, LastOnly, ToSet
    <3> HIDE DEF y
    <3> QED BY <1>1, <2>2, <3>1, <3>2
  <2>3. CASE x.state \notin {"fresh", "exited"}
    <3>1. y = [x EXCEPT !.inbox = Append(@, f)]
      BY <2>3 DEF Delivered
    <3> HIDE DEF y
    <3> QED BY <1>2, <2>3, <3>1 DEF Machine
  <2> QED BY <2>1, <2>2, <2>3
<1>5. \A g \in ToSet(y.inbox) : g.by = s => g = f
  BY <1>4 DEF Unmarked, Marked
<1>6. ~Marked(y.outbox, s) /\ (y.work = None \/ y.work.by # s)
  BY <1>4 DEF Unmarked
<1>7. \A g \in ToSet(y.outbox) : g.by # s
  BY <1>6 DEF Marked
<1>8. Once(y.outbox, s)
  BY <1>7 DEF Once, ToSet
<1>9. y.work # None => y.state = "running" /\ y.work.type \in {"start", "stop"}
  BY <1>4 DEF WorkOK
<1>10. Tells(h, hosts[h], s)'
  BY <1>7 DEF Tells
<1>11. Carried(h, hosts[h], s)'
  <2>1. \A g \in ToSet(y.inbox) : g.by = s => Due(g, h, s)' /\ g.project = command'[s].project
    BY <1>5 DEF Due
  <2> QED BY <1>4, <1>6, <1>7, <1>8, <1>9, <2>1 DEF Carried
<1> QED BY <1>4, <1>10, <1>11

LEMMA PostStep ==
  ASSUME NEW s, SessionFacts(s), SessionInv(s),
         NEW type \in {"set", "start", "connect", "stop"}, NEW next \in Hearing, Post(s, type),
         Continue(s, Moved(command[s], next)), UNCHANGED <<active, pacInstalled, pacTask, browser>>,
         \/ type = "set" /\ command[s].at = "set" /\ next = "hearSet"
         \/ type = "start" /\ command[s].at = "start" /\ next = "hearStart"
         \/ type = "connect" /\ command[s].at = "connect" /\ next = "hearConnect"
         \/ type = "stop" /\ command[s].at \in {"stop", "clearPac"} /\ next = "hearStop"
  PROVE  SessionInv(s)'
<1> DEFINE c == Moved(command[s], next)
<1>0. PICK f \in Request : f = Frame(type, s, command[s].project, "request")
  BY DEF Frame, Request, SessionFacts, SessionInv, Typed, Going
<1>1. PICK h \in IF port = None THEN Fresh ELSE {port} :
        /\ hosts' = [hosts EXCEPT ![h] = Delivered(@, f)]
        /\ port' = h
  BY <1>0 DEF Post
<1>2. /\ h \in Hosts /\ hosts \in [Hosts -> Machine] /\ command[s] \in Going(Points)
      /\ port # None => h = port
      /\ port = None => hosts[h].state = "fresh"
      /\ CommandOK(command[s]) /\ s \in Sessions
  BY <1>1 DEF Fresh, SessionInv, Typed, SessionFacts
<1>3. f \in Request /\ f.by = s /\ f.type = type /\ f.project = command[s].project
  BY <1>0 DEF Frame
<1>4. /\ c \in Going(Points \cup Outcomes) /\ c.at = next /\ c.project = command[s].project
      /\ c.digest = command[s].digest /\ c.proxy = command[s].proxy /\ c.token = command[s].token
  BY <1>2, MovedIs DEF Points
<1>5. CommandOK(c)
  BY <1>2, <1>4 DEF CommandOK, Beyond
<1>6. Continue(s, c) /\ ~Installed /\ rules' = rules
  BY Busy DEF browser
<1> HIDE DEF c
<1>7. command[s].at \notin Hearing \cup Writing \cup Clearing /\ next \notin Outcomes \cup {"idle"}
  BY DEF Hearing, Writing, Clearing, Outcomes
<1>8. /\ hosts'[h] = Delivered(hosts[h], f)
      /\ \A g \in Hosts : g # h => hosts'[g] = hosts[g]
  BY <1>1, <1>2
<1>9. SomeGone => SomeGone'
  BY <1>2, <1>8, ZenonT(30) DEF SomeGone, Delivered, Machine
<1>10. /\ command' \in [Sessions -> Going(Points)] /\ phase' \in Outcomes
       /\ serving' \in Projects \cup {None}
       /\ command'[s].at = next /\ command'[s].project = command[s].project
       /\ command'[s].digest = command[s].digest /\ command'[s].proxy = command[s].proxy
       /\ ~Installed' /\ CommandOK(command[s])' /\ CallsOK(s)' /\ RulesOK(s)'
  BY <1>4, <1>5, <1>6, <1>7, <1>9, Continued DEF Outcomes
<1>11. Due(f, h, s)'
  <2>1. f.type = type /\ port' = h /\ command'[s].at = next
    BY <1>1, <1>3, <1>10
  <2> QED BY <2>1 DEF Due
<1>12. /\ hosts'[h] \in Machine /\ Carried(h, hosts[h], s)' /\ Tells(h, hosts[h], s)'
       /\ hosts[h].state = "fresh" => hosts'[h].state = "idle" /\ ToSet(hosts'[h].inbox) = {f}
       /\ hosts[h].state # "fresh" =>
            /\ hosts'[h].state = hosts[h].state
            /\ ToSet(hosts'[h].inbox) \subseteq ToSet(hosts[h].inbox) \cup {f}
       /\ hosts'[h].work = hosts[h].work /\ hosts'[h].policy = hosts[h].policy
       /\ hosts'[h].intercepting = hosts[h].intercepting
  <2>1. Unmarked(hosts[h], s) /\ WorkOK(hosts[h]) /\ hosts[h] \in Machine
    BY <1>2, <1>7, NotHearing, WorksOK
  <2>2. f.project = command'[s].project
    BY <1>3, <1>10
  <2> QED BY <1>2, <1>3, <1>8, <1>11, <2>1, <2>2, PostedCarried
<1>13. Serves(h, hosts[h], s)'
  <2>1. Serves(h, hosts[h], s) /\ (hosts[h].work # None => hosts[h].state = "running")
    BY <1>2, WorksOK DEF SessionInv, HostOK, WorkOK
  <2>2. hosts'[h].state \notin {"fresh", "gone"} /\ (port = None \/ h = port)
    BY <1>2, <1>12, <2>1 DEF Serves
  <2>3. next # "hearStop" => Staying(hosts'[h])
    BY <1>2, <1>3, <1>12, <2>1 DEF Serves, Staying, Without
  <2>4. next \in {"hearStart", "hearConnect"} /\ Blank(hosts[h]) => Blank(hosts'[h])
    BY <1>3, <1>12 DEF Blank, Without
  <2>5. next \in {"hearStart", "hearConnect"} /\ hosts[h].state = "fresh" => Blank(hosts'[h])
    BY <1>3, <1>12 DEF Blank, Without
  <2>6. \A p : next # "hearStop" /\ Holds(hosts[h], p) => Holds(hosts'[h], p)
    BY <1>12, <2>3 DEF Holds
  <2>7. \A p : next # "hearStop" /\ Listens(hosts[h], p) => Listens(hosts'[h], p)
    BY <1>12, <2>6 DEF Listens, Holds
  <2>8. next = "hearStart" /\ command[s].digest # None
          => Holds(hosts'[h], command[s].digest) \/ Blank(hosts'[h])
    BY <1>2, <2>1, <2>4, <2>5, <2>6 DEF Serves
  <2>9. next = "hearConnect" /\ h # command[s].proxy => Blank(hosts'[h])
    BY <1>2, <2>1, <2>4, <2>5 DEF Serves, Beyond
  <2>10. next = "hearConnect" /\ h = command[s].proxy =>
           Listens(hosts'[h], command[s].digest) \/ hosts'[h].state = "gone"
    BY <1>2, <1>12, <2>1, <2>7 DEF Serves, Beyond
  <2> QED BY <1>10, <2>2, <2>3, <2>8, <2>9, <2>10 DEF Serves, Hearing, Beyond
<1>14. ASSUME NEW g \in Hosts, g # h PROVE HostOK(g, hosts[g], s)'
  <2>1. Unmarked(hosts[g], s)' /\ WorkOK(hosts[g]) /\ hosts'[g] = hosts[g]
    BY <1>7, <1>8, <1>14, NotHearing, WorksOK DEF Unmarked
  <2>2. Carried(g, hosts[g], s)' /\ Tells(g, hosts[g], s)'
    BY <2>1, Calm DEF WorkOK
  <2>3. Serves(g, hosts[g], s) /\ port' # g
    BY <1>1, <1>14 DEF SessionInv, HostOK
  <2>4. next \in Beyond => command[s].at \in Beyond
    BY DEF Hearing, Beyond
  <2>5. next # "mocks"
    BY DEF Hearing
  <2>6. Serves(g, hosts[g], s)'
    BY <1>10, <2>1, <2>3, <2>4, <2>5 DEF Serves
  <2> QED BY <2>2, <2>6 DEF HostOK
<1>15. \A g \in Hosts : HostOK(g, hosts[g], s)'
  BY <1>12, <1>13, <1>14 DEF HostOK
<1>16. Typed'
  BY <1>1, <1>2, <1>10, <1>12 DEF SessionInv, Typed, browser
<1> QED BY <1>10, <1>15, <1>16 DEF SessionInv

-------------------------------------------------------------------------------
(* The answers of the hosts.                                                  *)

\* The machine of g is as it was but for what it has written, and for whom.
Same(g) ==
  /\ hosts'[g].state = hosts[g].state /\ hosts'[g].policy = hosts[g].policy
  /\ hosts'[g].intercepting = hosts[g].intercepting
  /\ \A type : Without(hosts[g].inbox, type) => Without(hosts'[g].inbox, type)
  /\ hosts'[g].work = None
       \/ (hosts[g].work # None /\ hosts'[g].work.type = hosts[g].work.type)

LEMMA SameServes ==
  ASSUME NEW g, Same(g)
  PROVE  /\ Staying(hosts[g]) => Staying(hosts'[g])
         /\ Blank(hosts[g]) => Blank(hosts'[g])
         /\ \A p : Holds(hosts[g], p) => Holds(hosts'[g], p)
         /\ \A p : Listens(hosts[g], p) => Listens(hosts'[g], p)
BY DEF Same, Staying, Blank, Holds, Listens

\* The command goes on as c, nobody's frames are its own, and the hosts are what c needs.
LEMMA MovesOn ==
  ASSUME NEW s, SessionFacts(s), SessionInv(s), NEW c \in Going(Points \cup Outcomes),
         Continue(s, c), command[s].at \in Hearing, CommandOK(c), c.at # "idle",
         c.at # "hearStop", c.at = "started" => c.project \notin Mocks,
         UNCHANGED <<active, pacInstalled, pacTask, browser>>, port' \in {port, None},
         port' # None => command[s].at # "hearStop",
         hosts' \in [Hosts -> Machine],
         \A g \in Hosts : Unmarked(hosts[g], s)' /\ WorkOK(hosts'[g]) /\ Same(g),
         c.at \in {"start", "hearStart"} /\ c.digest # None /\ port # None =>
           Holds(hosts[port], c.digest) \/ Blank(hosts[port]),
         c.at \in Beyond =>
           /\ c.proxy \in Hosts /\ port = c.proxy
           /\ Listens(hosts[port], c.digest)
  PROVE  SessionInv(s)'
<1>1. ~Installed /\ command[s].at \notin Writing \cup Clearing
  BY Busy DEF Hearing, Writing, Clearing
<1>2. SomeGone => SomeGone'
  BY DEF SomeGone, Same
<1>3. /\ command' \in [Sessions -> Going(Points)] /\ phase' \in Outcomes
      /\ serving' \in Projects \cup {None}
      /\ command'[s].at = IF c.at \in Outcomes THEN "idle" ELSE c.at
      /\ command'[s].digest = c.digest /\ command'[s].proxy = c.proxy
      /\ ~Installed' /\ CommandOK(command[s])' /\ CallsOK(s)' /\ RulesOK(s)'
  BY <1>1, <1>2, Continued DEF browser
<1>4. c.at \in Outcomes => c.at \notin {"start", "hearStart"} \cup Beyond
  BY DEF Outcomes, Beyond
<1>5. ASSUME NEW g \in Hosts PROVE HostOK(g, hosts[g], s)'
  <2>1. Carried(g, hosts[g], s)' /\ Tells(g, hosts[g], s)'
    BY Calm DEF WorkOK
  <2>2. Serves(g, hosts[g], s) /\ Same(g)
    BY DEF SessionInv, HostOK
  <2>3. /\ Staying(hosts[g]) => Staying(hosts'[g])
        /\ Blank(hosts[g]) => Blank(hosts'[g])
        /\ \A p : Holds(hosts[g], p) => Holds(hosts'[g], p)
        /\ \A p : Listens(hosts[g], p) => Listens(hosts'[g], p)
    BY <2>2, SameServes
  <2>4. g = port' => /\ g = port /\ command[s].at # "hearStop"
                     /\ hosts'[g].state \notin {"fresh", "gone"} /\ Staying(hosts'[g])
    BY <2>2, <2>3 DEF SessionFacts, Serves, Same
  <2>5. g = port' /\ command'[s].at \in {"start", "hearStart"} /\ command'[s].digest # None =>
          Holds(hosts'[g], command'[s].digest) \/ Blank(hosts'[g])
    BY <1>3, <1>4, <2>3, <2>4 DEF SessionFacts
  <2>6. command'[s].at \in Beyond => /\ g = port' => g = command'[s].proxy
                                     /\ g = command'[s].proxy => Listens(hosts'[g], command'[s].digest)
    BY <1>3, <2>3, <2>4 DEF Beyond, SessionFacts
  <2>7. Serves(g, hosts[g], s)'
    BY <1>3, <2>4, <2>5, <2>6 DEF Serves
  <2> QED BY <2>1, <2>7 DEF HostOK
<1>6. Typed'
  BY <1>3 DEF SessionInv, Typed, browser
<1> QED BY <1>3, <1>5, <1>6 DEF SessionInv

\* The worker has read a frame of h that command s waits for.
LEMMA Heard ==
  ASSUME NEW s, SessionFacts(s), SessionInv(s), NEW h \in Hosts, NEW type, Hears(h, type)
  PROVE  /\ Said(h) \in Reply /\ Said(h).type = type
         /\ hosts' \in [Hosts -> Machine] /\ \A g \in Hosts : WorkOK(hosts'[g]) /\ Same(g)
         /\ \A g \in Hosts : hosts'[g] = [hosts[g] EXCEPT !.outbox = hosts'[g].outbox]
         /\ \A g \in Hosts : g # h => hosts'[g] = hosts[g]
         /\ hosts[h].outbox \in Seq(Reply) /\ hosts[h].outbox # <<>>
         /\ hosts'[h].outbox = Tail(hosts[h].outbox)
         /\ Said(h).by # None =>
              /\ Said(h).by = s /\ s \in Sessions /\ h = port /\ Due(Said(h), h, s)
              /\ Said(h) \in ToSet(hosts[h].outbox) /\ Tells(h, hosts[h], s)
              /\ \A g \in Hosts : Unmarked(hosts[g], s)'
<1> DEFINE x == hosts[h]
<1>1. /\ x.outbox \in Seq(Reply) /\ x.outbox # <<>> /\ Said(h) = Head(x.outbox)
      /\ x \in Machine /\ hosts \in [Hosts -> Machine] /\ HostOK(h, x, s)
      /\ Head(x.outbox).type = type /\ hosts' = [hosts EXCEPT ![h].outbox = Tail(@)]
  BY DEF SessionInv, Typed, Machine, Hears, Said
<1> HIDE DEF x
<1>2. /\ Tail(x.outbox) \in Seq(Reply) /\ Head(x.outbox) \in Reply
      /\ ToSet(x.outbox) = {Head(x.outbox)} \cup ToSet(Tail(x.outbox))
      /\ Head(x.outbox).by = s => ~Marked(Tail(x.outbox), s)
  BY <1>1, Shorter DEF HostOK, Carried
<1>3. /\ hosts'[h] = [x EXCEPT !.outbox = Tail(@)]
      /\ \A g \in Hosts : g # h => hosts'[g] = hosts[g]
      /\ DOMAIN hosts' = Hosts
  BY <1>1 DEF x
<1>4. /\ hosts'[h] \in Machine /\ hosts'[h].outbox = Tail(x.outbox)
      /\ hosts'[h].inbox = x.inbox /\ hosts'[h].work = x.work /\ hosts'[h].state = x.state
      /\ hosts'[h].policy = x.policy /\ hosts'[h].intercepting = x.intercepting
  BY <1>1, <1>2, <1>3 DEF Machine
<1>5. hosts' \in [Hosts -> Machine]
  BY <1>1, <1>3, <1>4
<1>6. \A g \in Hosts : WorkOK(hosts'[g]) /\ Same(g)
  BY <1>3, <1>4, WorksOK DEF WorkOK, Same, x
<1>7. \A g \in Hosts : hosts'[g] = [hosts[g] EXCEPT !.outbox = hosts'[g].outbox]
  BY <1>1, <1>3, <1>4 DEF Machine, x
<1>8. ASSUME Said(h).by # None
      PROVE  /\ Said(h).by = s /\ s \in Sessions /\ h = port /\ Due(Said(h), h, s)
             /\ Said(h) \in ToSet(x.outbox) /\ Tells(h, x, s)
             /\ \A g \in Hosts : Unmarked(hosts[g], s)'
  <2>1. Said(h).by = s /\ s \in Sessions
    BY <1>1, <1>2, <1>8 DEF Reply, SessionFacts
  <2>2. Said(h) \in ToSet(x.outbox) /\ Due(Said(h), h, s) /\ Tells(h, x, s)
    BY <1>1, <1>2, <2>1 DEF HostOK, Carried
  <2>3. h = port
    BY <2>2 DEF Due
  <2>4. Unmarked(hosts[h], s)'
    BY <1>1, <1>2, <1>4, <2>1, <2>2 DEF Unmarked, Marked, HostOK, Carried
  <2>5. \A g \in Hosts : g # h => Unmarked(hosts[g], s)'
    BY <1>3, <2>3, ElsewhereUnmarked DEF Unmarked
  <2> QED BY <2>1, <2>2, <2>3, <2>4, <2>5
<1> QED BY <1>1, <1>2, <1>3, <1>4, <1>5, <1>6, <1>7, <1>8 DEF x

LEMMA HearSetStep ==
  ASSUME NEW s, SessionFacts(s), SessionInv(s), NEW h \in Hosts, HearProjectSet(h)
  PROVE  SessionInv(s)'
<1>1. Hears(h, "set") /\ Said(h).by # None
  BY DEF HearProjectSet
<1>2. /\ Said(h) \in Reply /\ Said(h).type = "set" /\ hosts' \in [Hosts -> Machine]
      /\ \A g \in Hosts : Unmarked(hosts[g], s)' /\ WorkOK(hosts'[g]) /\ Same(g)
      /\ Said(h).by = s /\ s \in Sessions /\ h = port /\ Due(Said(h), h, s)
      /\ Said(h) \in ToSet(hosts[h].outbox) /\ Tells(h, hosts[h], s)
  BY <1>1, Heard
<1>3. /\ command[s].at = "hearSet" /\ command[s] \in Going(Points) /\ CommandOK(command[s])
      /\ Said(h).project \in Projects \cup {None}
  BY <1>2 DEF Due, SessionInv, Typed, Reply
<1>4. Said(h).project # None =>
        Said(h).project = command[s].project /\ Holds(hosts[h], Said(h).project)
  BY <1>2, <1>3 DEF Tells
<1> DEFINE d == [command[s] EXCEPT !.digest = Said(h).project]
           to == IF Said(h).result = "refused" THEN "failed" ELSE "start"
           c == Moved(d, to)
<1>5. d \in Going(Points) /\ d.digest = Said(h).project /\ d.project = command[s].project
  BY <1>3 DEF Going
<1>6. Continue(s, c) /\ UNCHANGED <<active, adapter, browser>>
  BY <1>2 DEF HearProjectSet
<1>7. to \in Points \cup Outcomes /\ to \in {"failed", "start"}
  BY DEF Points, Outcomes
<1> HIDE DEF d, to
<1>8. /\ c \in Going(Points \cup Outcomes) /\ c.at = to /\ c.project = command[s].project
      /\ c.digest = Said(h).project
  BY <1>5, <1>7, MovedIs
<1> HIDE DEF c
<1>9. CommandOK(c) /\ c.at \notin Beyond
  BY <1>4, <1>7, <1>8 DEF CommandOK, Beyond
<1> QED BY <1>2, <1>3, <1>4, <1>6, <1>7, <1>8, <1>9, MovesOn DEF Hearing, adapter

LEMMA HearStartStep ==
  ASSUME NEW s, SessionFacts(s), SessionInv(s), NEW h \in Hosts, HearStart(h)
  PROVE  SessionInv(s)'
<1>1. Hears(h, "start") /\ Said(h).by # None
  BY DEF HearStart
<1>2. /\ Said(h).type = "start" /\ hosts' \in [Hosts -> Machine]
      /\ \A g \in Hosts : Unmarked(hosts[g], s)' /\ WorkOK(hosts'[g]) /\ Same(g)
      /\ Said(h).by = s /\ s \in Sessions /\ h = port /\ Due(Said(h), h, s)
      /\ Said(h) \in ToSet(hosts[h].outbox) /\ Tells(h, hosts[h], s)
  BY <1>1, Heard
<1>3. command[s].at = "hearStart" /\ command[s] \in Going(Points) /\ CommandOK(command[s])
  BY <1>2 DEF Due, SessionInv, Typed
<1>4. command[s].digest # None /\ Said(h).result = "active" =>
        Listens(hosts[h], command[s].digest)
  BY <1>2, <1>3 DEF Tells
<1> DEFINE d == [command[s] EXCEPT !.proxy = h]
           to == IF Said(h).result = "active" \/ ~NeedsRoute(d.project)
                   THEN AfterStart(d) ELSE "failed"
           c == Moved(d, to)
<1>5. /\ d \in Going(Points) /\ d.digest = command[s].digest /\ d.project = command[s].project
      /\ d.proxy = h
  BY <1>3 DEF Going
<1>6. Continue(s, c) /\ UNCHANGED <<active, adapter, browser>>
  BY <1>2 DEF HearStart
<1> HIDE DEF d
<1>7. /\ to \in {"bodies", "clearMocks", "started", "failed"}
      /\ to = "bodies" => /\ d.digest # None /\ d.project \in Bodies \cup Mocks
                          /\ Said(h).result = "active"
      /\ to = "started" => d.project \notin Mocks
  BY DEF AfterStart, NeedsRoute
<1> HIDE DEF to
<1>8. to \in Points \cup Outcomes
  BY <1>7 DEF Points, Outcomes, Writing, Clearing
<1>9. /\ c \in Going(Points \cup Outcomes) /\ c.at = to /\ c.project = command[s].project
      /\ c.digest = command[s].digest /\ c.proxy = h
  BY <1>5, <1>8, MovedIs
<1> HIDE DEF c
<1>10. CommandOK(c)
  BY <1>3, <1>5, <1>7, <1>9 DEF CommandOK, Beyond, SessionFacts
<1>11. c.at \in Beyond => c.proxy = h /\ Listens(hosts[h], c.digest)
  BY <1>4, <1>5, <1>7, <1>9 DEF Beyond
<1> QED BY <1>2, <1>3, <1>5, <1>6, <1>7, <1>9, <1>10, <1>11, MovesOn DEF Hearing, adapter

LEMMA HearConnectStep ==
  ASSUME NEW s, SessionFacts(s), SessionInv(s), NEW h \in Hosts, HearMockConnect(h)
  PROVE  SessionInv(s)'
<1>1. Hears(h, "connect") /\ Said(h).by # None
  BY DEF HearMockConnect
<1>2. /\ Said(h).type = "connect" /\ hosts' \in [Hosts -> Machine]
      /\ \A g \in Hosts : Unmarked(hosts[g], s)' /\ WorkOK(hosts'[g]) /\ Same(g)
      /\ Said(h).by = s /\ s \in Sessions /\ h = port /\ Due(Said(h), h, s)
      /\ Said(h) \in ToSet(hosts[h].outbox) /\ Tells(h, hosts[h], s)
  BY <1>1, Heard
<1>3. /\ command[s].at = "hearConnect" /\ command[s] \in Going(Points) /\ CommandOK(command[s])
      /\ Serves(h, hosts[h], s)
  BY <1>2 DEF Due, SessionInv, Typed, HostOK
<1>4. Said(h).project # None => h = command[s].proxy
  BY <1>2, <1>3 DEF Tells
<1>5. Listens(hosts[h], command[s].digest) \/ h # command[s].proxy
  BY <1>2, <1>3 DEF Serves, Beyond
<1> DEFINE d == [command[s] EXCEPT !.token = h]
           to == IF Said(h).project = d.project THEN "mocks" ELSE "clearMocks"
           c == Moved(d, to)
<1>6. /\ d \in Going(Points) /\ d.digest = command[s].digest /\ d.project = command[s].project
      /\ d.proxy = command[s].proxy /\ d.token = h
  BY <1>3 DEF Going
<1>7. Continue(s, c) /\ UNCHANGED <<active, adapter, browser>>
  BY <1>2 DEF HearMockConnect
<1> HIDE DEF d
<1>8. to \in {"mocks", "clearMocks"} /\ (to = "mocks" => Said(h).project = d.project)
  OBVIOUS
<1> HIDE DEF to
<1>9. to \in Points \cup Outcomes
  BY <1>8 DEF Points, Writing, Clearing
<1>10. /\ c \in Going(Points \cup Outcomes) /\ c.at = to /\ c.project = command[s].project
       /\ c.digest = command[s].digest /\ c.proxy = command[s].proxy /\ c.token = h
  BY <1>6, <1>9, MovedIs
<1> HIDE DEF c
<1>11. command[s].project \in Mocks /\ command[s].project # None
  BY <1>3 DEF CommandOK, Beyond, SessionFacts
<1>12. c.at = "mocks" => h = c.proxy
  BY <1>4, <1>6, <1>8, <1>10, <1>11
<1>13. CommandOK(c)
  BY <1>3, <1>8, <1>10, <1>12 DEF CommandOK, Beyond
<1>14. c.at \in Beyond => c.proxy = h /\ Listens(hosts[h], c.digest)
  BY <1>5, <1>8, <1>10, <1>12 DEF Beyond
<1> QED BY <1>2, <1>3, <1>7, <1>8, <1>10, <1>13, <1>14, MovesOn DEF Hearing, adapter

\* What a command does when it has no answer, or is told that the host has stopped.
LEMMA Fails ==
  ASSUME NEW s, SessionFacts(s), SessionInv(s), command[s].at \in Hearing
  PROVE  LET c == Moved(command[s], AfterFailure(command[s])) IN
         /\ c \in Going(Points \cup Outcomes) /\ CommandOK(c)
         /\ c.at \in {"clearMocks", "failed", "stopped"}
         /\ c.project = command[s].project
<1> DEFINE to == AfterFailure(command[s])
<1>1. command[s] \in Going(Points) /\ CommandOK(command[s])
  BY DEF SessionFacts, SessionInv, Typed
<1>2. to \in {"clearMocks", "failed", "stopped"}
  BY DEF AfterFailure
<1> HIDE DEF to
<1>3. to \in Points \cup Outcomes
  BY <1>2 DEF Points, Clearing, Outcomes
<1> DEFINE c == Moved(command[s], to)
<1>4. /\ c \in Going(Points \cup Outcomes) /\ c.at = to /\ c.project = command[s].project
      /\ c.digest = command[s].digest
  BY <1>1, <1>3, MovedIs
<1> HIDE DEF c
<1>5. CommandOK(c)
  BY <1>1, <1>2, <1>4 DEF CommandOK, Beyond
<1> QED BY <1>2, <1>4, <1>5 DEF c, to

LEMMA HearStopStep ==
  ASSUME NEW s, SessionFacts(s), SessionInv(s), NEW h \in Hosts, HearStop(h)
  PROVE  SessionInv(s)'
<1>1. Hears(h, "stop") /\ Said(h).by # None
  BY DEF HearStop
<1>2. /\ Said(h).type = "stop" /\ hosts' \in [Hosts -> Machine]
      /\ \A g \in Hosts : Unmarked(hosts[g], s)' /\ WorkOK(hosts'[g]) /\ Same(g)
      /\ Said(h).by = s /\ h = port /\ Due(Said(h), h, s)
  BY <1>1, Heard
<1>3. command[s].at = "hearStop"
  BY <1>2 DEF Due
<1> DEFINE c == Moved(command[s], AfterFailure(command[s]))
<1>4. /\ c \in Going(Points \cup Outcomes) /\ CommandOK(c)
      /\ c.at \in {"clearMocks", "failed", "stopped"}
  BY <1>3, Fails DEF Hearing
<1>5. /\ Continue(s, c) /\ port' = None
      /\ UNCHANGED <<active, pacInstalled, pacTask, browser>>
  BY <1>2 DEF HearStop
<1> HIDE DEF c
<1>6. c.at \notin Beyond
  BY <1>4 DEF Beyond
<1> QED BY <1>2, <1>3, <1>4, <1>5, <1>6, MovesOn DEF Hearing

-------------------------------------------------------------------------------
(* Steps in which no command moves.                                           *)

\* Hosts and frames, while the commands, the calls and the redirects stay.
LEMMA HostsMove ==
  ASSUME NEW s, SessionFacts(s), SessionInv(s),
         active' \in Projects \cup {active},
         UNCHANGED <<phase, serving, command, port, calls, rules>>,
         pacInstalled' \in BOOLEAN, pacTask' \in [Hosts -> Reply \cup {None}],
         pac' \in Hosts \cup {None}, hosts' \in [Hosts -> Machine], SomeGone => SomeGone',
         \A g \in Hosts : \E y : hosts'[g] = y /\ HostOK(g, y, s)
  PROVE  SessionInv(s)'
<1>1. Typed'
  BY DEF SessionInv, Typed
<1>2. ASSUME NEW g \in Hosts PROVE HostOK(g, hosts[g], s)'
  <2>1. PICK y : hosts'[g] = y /\ HostOK(g, y, s)
    OBVIOUS
  <2>2. Installed' = Installed
    BY DEF Installed, ClearDue
  <2>3. Carried(g, hosts[g], s)'
    BY <2>1 DEF HostOK, Carried, Due
  <2>4. Serves(g, hosts[g], s)'
    BY <2>1, <2>2 DEF HostOK, Serves
  <2>5. Tells(g, hosts[g], s)'
    BY <2>1 DEF HostOK, Tells
  <2> QED BY <2>3, <2>4, <2>5 DEF HostOK
<1>3. CommandOK(command[s])' /\ CallsOK(s)' /\ RulesOK(s)'
  BY DEF SessionInv, CommandOK, CallsOK, RulesOK, Installed, ClearDue
<1> QED BY <1>1, <1>2, <1>3 DEF SessionInv

\* A frame that s does not wait for is read.
LEMMA ReadAside ==
  ASSUME NEW s, SessionFacts(s), SessionInv(s), NEW h \in Hosts, NEW type, Hears(h, type),
         Said(h).by # s, UNCHANGED <<active, phase, serving, command, port, calls, browser>>,
         pacInstalled' \in BOOLEAN, pacTask' \in [Hosts -> Reply \cup {None}]
  PROVE  SessionInv(s)'
<1>1. /\ hosts' \in [Hosts -> Machine] /\ \A g \in Hosts : Same(g)
      /\ \A g \in Hosts : hosts'[g] = [hosts[g] EXCEPT !.outbox = hosts'[g].outbox]
      /\ \A g \in Hosts : g # h => hosts'[g] = hosts[g]
      /\ hosts[h].outbox \in Seq(Reply) /\ hosts[h].outbox # <<>>
      /\ hosts'[h].outbox = Tail(hosts[h].outbox)
  BY Heard
<1>2. /\ hosts \in [Hosts -> Machine] /\ HostOK(h, hosts[h], s)
      /\ \A g \in Hosts : HostOK(g, hosts[g], s)
  BY DEF SessionInv, Typed
<1>3. SomeGone => SomeGone'
  BY <1>1 DEF SomeGone, Same
<1>4. ASSUME NEW y, hosts'[h] = y PROVE HostOK(h, y, s)
  <2> DEFINE x == hosts[h]
  <2>1. /\ x \in Machine /\ HostOK(h, x, s) /\ x.outbox \in Seq(Reply) /\ x.outbox # <<>>
        /\ y = [x EXCEPT !.outbox = Tail(x.outbox)]
    BY <1>1, <1>2, <1>4
  <2> HIDE DEF x
  <2>2. /\ y.outbox = Tail(x.outbox) /\ y.inbox = x.inbox /\ y.work = x.work
        /\ y.state = x.state /\ y.policy = x.policy /\ y.intercepting = x.intercepting
    BY <2>1 DEF Machine
  <2>3. Once(y.outbox, s) /\ ToSet(y.outbox) \subseteq ToSet(x.outbox)
    BY <2>1, <2>2, Shorter DEF HostOK, Carried
  <2>4. Carried(h, y, s)
    BY <2>1, <2>2, <2>3 DEF HostOK, Carried, Marked
  <2>5. Serves(h, y, s)
    BY <2>1, <2>2 DEF HostOK, Serves, Holds, Listens, Blank, Staying
  <2>6. Tells(h, y, s)
    BY <2>1, <2>2, <2>3 DEF HostOK, Tells, Holds, Listens, Staying
  <2> QED BY <2>4, <2>5, <2>6 DEF HostOK
<1>5. \A g \in Hosts : \E y : hosts'[g] = y /\ HostOK(g, y, s)
  BY <1>1, <1>2, <1>4
<1> QED BY <1>1, <1>3, <1>5, HostsMove DEF browser, SessionInv, Typed

LEMMA IgnoreStep ==
  ASSUME NEW s, SessionFacts(s), SessionInv(s), NEW h \in Hosts, IgnoreAnswer(h)
  PROVE  SessionInv(s)'
<1>1. PICK type : Hears(h, type)
  BY DEF IgnoreAnswer
<1>2. Said(h).by # s /\ UNCHANGED <<active, phase, serving, command, adapter, calls, browser>>
  BY DEF IgnoreAnswer, SessionFacts
<1> QED BY <1>1, <1>2, ReadAside DEF adapter, SessionInv, Typed

LEMMA PacRequestStep ==
  ASSUME NEW s, SessionFacts(s), SessionInv(s), NEW h \in Hosts, HearPacRequest(h)
  PROVE  SessionInv(s)'
<1>1. PICK type \in PacRequest : Hears(h, type)
  BY DEF HearPacRequest
<1>2. Said(h) \in Reply /\ Said(h).type = type /\ (Said(h).by # None => Said(h).by = s /\ Due(Said(h), h, s))
  BY <1>1, Heard
<1>3. Said(h).by # s
  BY <1>1, <1>2 DEF Due, PacRequest, SessionFacts
<1>4. /\ UNCHANGED <<active, phase, serving, command, port, pacInstalled, calls, browser>>
      /\ pacTask' = [pacTask EXCEPT ![h] = Said(h)]
  BY DEF HearPacRequest
<1>5. pacTask' \in [Hosts -> Reply \cup {None}] /\ pacInstalled' \in BOOLEAN
  BY <1>2, <1>4 DEF SessionInv, Typed
<1> QED BY <1>1, <1>3, <1>4, <1>5, ReadAside

LEMMA CarryOutStep ==
  ASSUME NEW s, SessionFacts(s), SessionInv(s), NEW h \in Hosts, CarryOutPac(h)
  PROVE  SessionInv(s)'
<1>1. /\ UNCHANGED <<active, phase, serving, command, port, calls, rules>>
      /\ pacTask' = [pacTask EXCEPT ![h] = None]
      /\ pac' \in Hosts \cup {None} /\ pacInstalled' \in BOOLEAN
      /\ \E ok \in BOOLEAN : AnswerHost(ok)
  BY DEF CarryOutPac, SessionInv, Typed
<1>2. PICK ok \in BOOLEAN : AnswerHost(ok)
  BY <1>1
<1>3. pacTask' \in [Hosts -> Reply \cup {None}] /\ hosts \in [Hosts -> Machine]
  BY <1>1 DEF SessionInv, Typed
<1>4. ASSUME NEW g \in Hosts
      PROVE  /\ hosts'[g] \in Machine /\ hosts'[g].state = hosts[g].state
             /\ \A y : hosts'[g] = y => HostOK(g, y, s)
  <2> DEFINE x == hosts[g]
  <2>1. x \in Machine /\ HostOK(g, x, s)
    BY <1>3 DEF SessionInv
  <2>2. hosts'[g] = x \/ hosts'[g] = [x EXCEPT !.replies = Append(@, ok)]
    BY <1>2, <1>3 DEF AnswerHost
  <2> HIDE DEF x
  <2>3. Append(x.replies, ok) \in Seq(BOOLEAN)
    BY <2>1 DEF Machine
  <2>4. ASSUME NEW y, y = x \/ y = [x EXCEPT !.replies = Append(@, ok)]
        PROVE  y \in Machine /\ y.state = x.state /\ HostOK(g, y, s)
    <3>1. /\ y \in Machine /\ y.outbox = x.outbox /\ y.inbox = x.inbox /\ y.work = x.work
          /\ y.state = x.state /\ y.policy = x.policy /\ y.intercepting = x.intercepting
      BY <2>1, <2>3, <2>4 DEF Machine
    <3> QED BY <2>1, <3>1 DEF HostOK, Carried, Serves, Tells, Holds, Listens, Blank, Staying
  <2> QED BY <2>2, <2>4 DEF x
<1>5. hosts' \in [Hosts -> Machine]
  BY <1>2, <1>3, <1>4 DEF AnswerHost
<1>6. SomeGone => SomeGone'
  BY <1>4 DEF SomeGone
<1>7. \A g \in Hosts : \E y : hosts'[g] = y /\ HostOK(g, y, s)
  BY <1>4
<1> QED BY <1>1, <1>3, <1>5, <1>6, <1>7, HostsMove

LEMMA HostMoves ==
  ASSUME NEW s, SessionFacts(s), SessionInv(s), NEW h \in Hosts, HostStep(h)
  PROVE  SessionInv(s)'
<1>1. /\ UNCHANGED <<active, phase, serving, command, adapter, calls, browser>>
      /\ Alive(h)
  BY DEF HostStep, TakeProjectSet, TakeStart, TakeMockConnect, TakeStop, Takes, HearPacAnswer,
         Exit, PacTimesOut
<1>2. Step(h, s)
  BY <1>1 DEF Step, SessionFacts, SessionInv, Typed, RulesOK
<1>3. PICK y \in Machine : Becomes(h, y) /\ HostOK(h, y, s)
  BY <1>2, HostSteps DEF Leads
<1>4. /\ hosts \in [Hosts -> Machine] /\ hosts' = [hosts EXCEPT ![h] = y]
      /\ \A g \in Hosts : HostOK(g, hosts[g], s)
  BY <1>3 DEF Becomes, SessionInv, Typed
<1>5. hosts' \in [Hosts -> Machine] /\ hosts'[h] = y /\ \A g \in Hosts : g # h => hosts'[g] = hosts[g]
  BY <1>4
<1>6. SomeGone => SomeGone'
  BY <1>1, <1>5 DEF SomeGone, Alive
<1>7. \A g \in Hosts : \E z : hosts'[g] = z /\ HostOK(g, z, s)
  BY <1>3, <1>4, <1>5
<1>8. /\ pacInstalled' \in BOOLEAN /\ pacTask' \in [Hosts -> Reply \cup {None}]
      /\ pac' \in Hosts \cup {None}
      /\ UNCHANGED <<active, phase, serving, command, port, calls, rules>>
  BY <1>1 DEF adapter, browser, SessionInv, Typed
<1> QED BY <1>5, <1>6, <1>7, <1>8, HostsMove

-------------------------------------------------------------------------------
(* Frames that nobody waits for any more.                                     *)

\* The frames of z are those of q, but for whom they are.
ComeFrom(z, q, S) ==
  /\ \A g \in ToSet(z) : \E f \in ToSet(q) : g = Unheard(f, S)
  /\ \A type : Without(q, type) => Without(z, type)

LEMMA UnheardFrames ==
  ASSUME NEW R, NEW q \in Seq(R), NEW S, \A f \in R : Unheard(f, S).type = f.type,
         NEW z \in [DOMAIN q -> R], \A i \in DOMAIN q : z[i] = Unheard(q[i], S)
  PROVE  z \in Seq(R) /\ ComeFrom(z, q, S)
<1>1. DOMAIN q = 1 .. Len(q) /\ Len(q) \in Nat /\ \A i \in DOMAIN q : q[i] \in R
  OBVIOUS
<1>2. DOMAIN z = 1 .. Len(q) /\ \A i \in DOMAIN q : z[i] = Unheard(q[i], S) /\ z[i] \in R
  BY <1>1
<1>3. z \in [1 .. Len(q) -> R]
  BY <1>1, <1>2
<1>4. z \in Seq(R)
  BY <1>1, <1>3
<1>6. \A g \in ToSet(z) : \E f \in ToSet(q) : g = Unheard(f, S)
  BY <1>1, <1>2 DEF ToSet
<1>7. \A type : Without(q, type) => Without(z, type)
  <2>1. \A f \in ToSet(q) : f \in R
    BY <1>1 DEF ToSet
  <2> QED BY <1>6, <2>1 DEF Without
<1> QED BY <1>4, <1>6, <1>7 DEF ComeFrom

LEMMA UnheardIs ==
  ASSUME NEW S \in SUBSET Sessions
  PROVE  /\ \A f \in Request : Unheard(f, S) \in Request /\ Unheard(f, S).type = f.type
         /\ \A f \in Reply : Unheard(f, S) \in Reply /\ Unheard(f, S).type = f.type
         /\ \A f \in Request \cup Reply : Unheard(f, S).by = IF f.by \in S THEN None ELSE f.by
<1>1. ASSUME NEW f \in Request
      PROVE  Unheard(f, S) \in Request /\ Unheard(f, S).type = f.type
  BY DEF Unheard, Request
<1>2. ASSUME NEW f \in Reply
      PROVE  Unheard(f, S) \in Reply /\ Unheard(f, S).type = f.type
  BY DEF Unheard, Reply
<1>3. ASSUME NEW f \in Request \cup Reply
      PROVE  Unheard(f, S).by = IF f.by \in S THEN None ELSE f.by
  BY DEF Unheard, Request, Reply
<1> QED BY <1>1, <1>2, <1>3

\* Of the host x, when the frames of S are nobody's.
LEMMA Forgets ==
  ASSUME NEW s, SessionFacts(s), SessionInv(s), NEW S \in SUBSET {s}, NEW g \in Hosts,
         S = {} => Unmarked(hosts[g], s)
  PROVE  LET x == hosts[g]
             y == Forget(S)[g]
         IN  /\ y \in Machine /\ Unmarked(y, s) /\ WorkOK(y)
             /\ y.state = x.state /\ y.policy = x.policy /\ y.intercepting = x.intercepting
             /\ \A type : Without(x.inbox, type) => Without(y.inbox, type)
             /\ y.work = None \/ (x.work # None /\ y.work.type = x.work.type)
<1> DEFINE x == hosts[g]
           y == Forget(S)[g]
           inbox == [i \in DOMAIN x.inbox |-> Unheard(x.inbox[i], S)]
           outbox == [i \in DOMAIN x.outbox |-> Unheard(x.outbox[i], S)]
           work == IF x.work = None THEN None ELSE Unheard(x.work, S)
<1>1. /\ x \in Machine /\ WorkOK(x) /\ S \in SUBSET Sessions /\ s # None
      /\ S = {} => Unmarked(x, s)
      /\ S = {} \/ s \in S
  BY WorksOK DEF SessionInv, Typed, SessionFacts
<1>2. /\ y = [x EXCEPT !.inbox = inbox, !.outbox = outbox, !.work = work]
      /\ inbox = [i \in DOMAIN x.inbox |-> Unheard(x.inbox[i], S)]
      /\ outbox = [i \in DOMAIN x.outbox |-> Unheard(x.outbox[i], S)]
      /\ work = IF x.work = None THEN None ELSE Unheard(x.work, S)
  BY DEF Forget
<1> HIDE DEF x, y, inbox, outbox, work
<1>3. x.inbox \in Seq(Request) /\ x.outbox \in Seq(Reply) /\ x.work \in Request \cup {None}
  BY <1>1 DEF Machine
<1>11. /\ \A f \in Request : Unheard(f, S) \in Request /\ Unheard(f, S).type = f.type
       /\ \A f \in Reply : Unheard(f, S) \in Reply /\ Unheard(f, S).type = f.type
  BY <1>1, UnheardIs
<1>12. /\ \A i \in DOMAIN x.inbox : x.inbox[i] \in Request
       /\ \A i \in DOMAIN x.outbox : x.outbox[i] \in Reply
  BY <1>3
<1>13. /\ inbox \in [DOMAIN x.inbox -> Request]
       /\ \A i \in DOMAIN x.inbox : inbox[i] = Unheard(x.inbox[i], S)
  BY <1>2, <1>11, <1>12
<1>14. /\ outbox \in [DOMAIN x.outbox -> Reply]
       /\ \A i \in DOMAIN x.outbox : outbox[i] = Unheard(x.outbox[i], S)
  BY <1>2, <1>11, <1>12
<1>4. inbox \in Seq(Request) /\ ComeFrom(inbox, x.inbox, S)
  BY <1>3, <1>11, <1>13, UnheardFrames
<1>5. outbox \in Seq(Reply) /\ ComeFrom(outbox, x.outbox, S)
  BY <1>3, <1>11, <1>14, UnheardFrames
<1>6. /\ work \in Request \cup {None} /\ (x.work = None => work = None)
      /\ x.work # None => work = Unheard(x.work, S) /\ work.type = x.work.type
  BY <1>1, <1>2, <1>3, UnheardIs
<1>8. /\ y \in Machine /\ y.inbox = inbox /\ y.outbox = outbox /\ y.work = work
      /\ y.state = x.state /\ y.policy = x.policy /\ y.intercepting = x.intercepting
  BY <1>1, <1>2, <1>4, <1>5, <1>6 DEF Machine
<1>7. /\ \A e \in ToSet(x.inbox) : e \in Request
      /\ \A e \in ToSet(x.outbox) : e \in Reply
  BY <1>3 DEF ToSet
<1>9. \A e \in Request \cup Reply : Unheard(e, S).by = s => S = {} /\ e.by = s
  BY <1>1, UnheardIs
<1>10. Unmarked(y, s)
  BY <1>1, <1>3, <1>4, <1>5, <1>6, <1>7, <1>8, <1>9 DEF Unmarked, Marked, ComeFrom
<1> QED BY <1>1, <1>4, <1>6, <1>8, <1>10 DEF WorkOK, ComeFrom, x, y

LEMMA TimeOutStep ==
  ASSUME NEW s, SessionFacts(s), SessionInv(s), RequestTimesOut(s)
  PROVE  SessionInv(s)'
<1> DEFINE c == Moved(command[s], AfterFailure(command[s]))
<1>1. /\ command[s].at \in Hearing /\ hosts' = Forget({s})
      /\ port' = IF command[s].at = "hearStop" THEN None ELSE port
      /\ Continue(s, c) /\ UNCHANGED <<active, pacInstalled, pacTask, browser>>
  BY DEF RequestTimesOut
<1>2. /\ c \in Going(Points \cup Outcomes) /\ CommandOK(c)
      /\ c.at \in {"clearMocks", "failed", "stopped"}
  BY <1>1, Fails
<1> HIDE DEF c
<1>3. ASSUME NEW g \in Hosts
      PROVE  /\ hosts'[g] \in Machine /\ Unmarked(hosts[g], s)' /\ WorkOK(hosts'[g]) /\ Same(g)
  <2> DEFINE y == Forget({s})[g]
  <2>1. {s} \in SUBSET {s} /\ {s} # {} /\ hosts'[g] = y
    BY <1>1
  <2>2. /\ y \in Machine /\ Unmarked(y, s) /\ WorkOK(y)
        /\ y.state = hosts[g].state /\ y.policy = hosts[g].policy
        /\ y.intercepting = hosts[g].intercepting
        /\ \A type : Without(hosts[g].inbox, type) => Without(y.inbox, type)
        /\ y.work = None \/ (hosts[g].work # None /\ y.work.type = hosts[g].work.type)
    BY <2>1, Forgets
  <2> HIDE DEF y
  <2> QED BY <2>1, <2>2 DEF Unmarked, Same
<1>4. hosts' \in [Hosts -> Machine]
  BY <1>1, <1>3 DEF Forget
<1>5. c.at \notin Beyond
  BY <1>2 DEF Beyond
<1> QED BY <1>1, <1>2, <1>3, <1>4, <1>5, MovesOn

-------------------------------------------------------------------------------
(* A port disconnects.                                                        *)

LEMMA NoneToSeq == SetToSeq({}) = <<>>
<1>1. Cardinality({}) = 0
  BY FS_EmptySet
<1>2. SetToSeq({}) \in [1 .. 0 -> {}]
  <2>1. \E f \in [1 .. 0 -> {}] : IsInjective(f)
    <3>1. <<>> \in [1 .. 0 -> {}] /\ IsInjective(<<>>)
      BY DEF IsInjective
    <3> QED BY <3>1
  <2> QED BY <1>1, <2>1 DEF SetToSeq
<1> QED BY <1>2

LEMMA OneToSeq ==
  ASSUME NEW e
  PROVE  SetToSeq({e}) = <<e>>
<1>1. Cardinality({e}) = 1
  BY FS_Singleton
<1>2. SetToSeq({e}) \in [1 .. 1 -> {e}]
  <2>1. \E f \in [1 .. 1 -> {e}] : IsInjective(f)
    <3>1. <<e>> \in [1 .. 1 -> {e}] /\ IsInjective(<<e>>)
      BY DEF IsInjective
    <3> QED BY <3>1
  <2> QED BY <1>1, <2>1 DEF SetToSeq
<1> QED BY <1>2

\* The sweep of the mock redirects, and that of the command that waited.
LEMMA SweepCalls ==
  ASSUME NEW s, SessionFacts(s), SessionInv(s), NEW W \in SUBSET {s},
         s \in W => command[s].at \in Hearing,
         calls' = Append(calls, Read(None, "clearMocks")) \o
                    SetToSeq({Read(t, "clearMocks") : t \in W})
  PROVE  /\ calls' \in Seq(Call) /\ Once(calls', s) /\ ClearDue'
         /\ ToSet(calls) \subseteq ToSet(calls')
         /\ \A k \in ToSet(calls') : \/ k \in ToSet(calls)
                                     \/ k.by = None /\ k.at = "clearMocks"
                                     \/ k.by = s /\ k.at = "clearMocks" /\ s \in W
         /\ s \in W => Marked(calls', s)
<1> DEFINE k == Read(None, "clearMocks")
           l == Read(s, "clearMocks")
           q == Append(calls, k)
<1>1. /\ k \in Call /\ k.by = None /\ k.at = "clearMocks"
      /\ l \in Call /\ l.by = s /\ l.at = "clearMocks" /\ s # None
  BY DEF Read, Call, Clearing, SessionFacts
<1>2. calls \in Seq(Call) /\ Once(calls, s)
  BY DEF SessionInv, CallsOK
<1>3. calls' = q \o SetToSeq({Read(t, "clearMocks") : t \in W})
  OBVIOUS
<1>4. s \in W => ~Marked(calls, s)
  <2>1. \A e \in ToSet(calls) : e \in Call
    BY <1>2 DEF ToSet
  <2> QED BY <2>1 DEF SessionInv, CallsOK, Marked, Call, Hearing, Writing, Clearing
<1> HIDE DEF k
<1>5. /\ q \in Seq(Call) /\ ToSet(q) = ToSet(calls) \cup {k} /\ Once(q, s)
  BY <1>1, <1>2, Grown, Longer
<1> HIDE DEF l, q
<1>6. CASE W = {}
  <2>1. {Read(t, "clearMocks") : t \in W} = {}
    BY <1>6
  <2>2. calls' = q \o <<>>
    BY <1>3, <2>1, NoneToSeq
  <2>4. \A z \in Seq(Call) : z \o <<>> = z
    OBVIOUS
  <2>3. calls' = q
    BY <1>5, <2>2, <2>4
  <2> QED BY <1>1, <1>5, <1>6, <2>3 DEF ClearDue
<1>7. CASE W = {s}
  <2>1. {Read(t, "clearMocks") : t \in W} = {l}
    BY <1>7 DEF l
  <2>2. calls' = q \o <<l>>
    BY <1>3, <2>1, OneToSeq
  <2>5. /\ Append(q, l) \in Seq(Call) /\ q \o <<l>> = Append(q, l)
        /\ ToSet(Append(q, l)) = ToSet(q) \cup {l}
    BY <1>1, <1>5, Grown
  <2>3. ~Marked(q, s)
    BY <1>1, <1>4, <1>5, <1>7 DEF Marked
  <2>6. Once(Append(q, l), s)
    BY <1>1, <1>5, <2>3, Longer
  <2>7. calls' = Append(q, l)
    BY <2>2, <2>5
  <2>4. /\ calls' \in Seq(Call) /\ ToSet(calls') = ToSet(q) \cup {l} /\ Once(calls', s)
    BY <2>5, <2>6, <2>7
  <2> QED BY <1>1, <1>5, <1>7, <2>4 DEF ClearDue, Marked
<1> QED BY <1>6, <1>7

LEMMA DisconnectStep ==
  ASSUME NEW s, SessionFacts(s), SessionInv(s), "install" \notin Faults, NEW h \in Hosts,
         Disconnect(h)
  PROVE  SessionInv(s)'
<1> DEFINE next == [t \in Waiting |-> Moved(command[t], AfterFailure(command[t]))]
           ends == {t \in Waiting : next[t].at \in Outcomes}
           c == Moved(command[s], AfterFailure(command[s]))
<1>1. /\ hosts[h].state = "exited" /\ \A i \in DOMAIN calls : calls[i].at # "mocks"
      /\ hosts' = [Forget(Waiting) EXCEPT ![h].state = "gone"]
      /\ port' = None /\ pac' = (IF pacInstalled THEN None ELSE pac) /\ pacInstalled' = FALSE
      /\ command' = [t \in Sessions |-> IF t \in Waiting THEN Parked(next[t]) ELSE command[t]]
      /\ IF ends = {} THEN phase' = phase ELSE \E t \in ends : phase' = next[t].at
      /\ calls' = Append(calls, Read(None, "clearMocks")) \o
                    SetToSeq({Read(t, "clearMocks") : t \in Waiting \ ends})
      /\ UNCHANGED <<active, serving, pacTask, rules>>
  BY DEF Disconnect
<1>2. /\ Waiting \in SUBSET {s} /\ s \in Sessions /\ Sessions = {s}
      /\ s \in Waiting <=> command[s].at \in Hearing
      /\ s \in Waiting => next[s] = c
      /\ ends \subseteq Waiting /\ (s \in ends <=> s \in Waiting /\ c.at \in Outcomes)
  BY DEF Waiting, SessionFacts
<1>3. s \in Waiting => /\ c \in Going(Points \cup Outcomes) /\ CommandOK(c)
                       /\ c.at \in {"clearMocks", "failed", "stopped"}
  BY <1>2, Fails
<1>4. /\ command'[s] = IF s \in Waiting THEN Parked(c) ELSE command[s]
      /\ DOMAIN command' = Sessions
      /\ phase' = phase \/ (s \in Waiting /\ phase' = c.at /\ c.at \in Outcomes)
  <2>1. \A t \in ends : t = s
    BY <1>2
  <2> QED BY <1>1, <1>2, <2>1
<1>5. /\ command[s] \in Going(Points) /\ CommandOK(command[s]) /\ phase \in Outcomes
      /\ command \in [Sessions -> Going(Points)]
  BY <1>2 DEF SessionInv, Typed
<1>6. s \in Waiting => /\ command'[s] \in Going(Points) /\ CommandOK(command'[s])
                       /\ command'[s].at = IF c.at = "clearMocks" THEN "clearMocks" ELSE "idle"
                       /\ (s \in ends <=> c.at # "clearMocks")
  <2> HIDE DEF c
  <2>1. CASE s \in Waiting /\ c.at = "clearMocks"
    <3>1. command'[s] = c /\ s \notin ends
      BY <1>2, <1>4, <2>1 DEF Parked, Outcomes
    <3>2. c \in Going(Points)
      BY <1>3, <2>1 DEF Going, Points, Clearing
    <3> QED BY <1>3, <2>1, <3>1, <3>2
  <2>2. CASE s \in Waiting /\ c.at # "clearMocks"
    <3>1. command'[s] = Moved(c, "idle") /\ c.at \in Outcomes /\ s \in ends
      BY <1>2, <1>3, <1>4, <2>2 DEF Parked, Outcomes
    <3>2. command'[s] \in Going(Points) /\ command'[s].at = "idle" /\ command'[s].digest = c.digest
          /\ command'[s].project = c.project
      BY <1>3, <2>2, <3>1 DEF Moved, Going, Points
    <3> QED BY <1>3, <2>2, <3>1, <3>2 DEF CommandOK, Beyond
  <2> QED BY <2>1, <2>2
<1> DEFINE W == Waiting \ ends
<1>7. /\ calls' \in Seq(Call) /\ Once(calls', s) /\ ClearDue'
      /\ ToSet(calls) \subseteq ToSet(calls')
      /\ \A k \in ToSet(calls') : \/ k \in ToSet(calls)
                                  \/ k.by = None /\ k.at = "clearMocks"
                                  \/ k.by = s /\ k.at = "clearMocks" /\ s \in W
      /\ s \in W => Marked(calls', s)
  <2>1. calls' = Append(calls, Read(None, "clearMocks")) \o
                   SetToSeq({Read(t, "clearMocks") : t \in W})
    BY <1>1
  <2>2. W \in SUBSET {s} /\ (s \in W => command[s].at \in Hearing)
    BY <1>2
  <2> HIDE DEF W
  <2> QED BY <2>1, <2>2, SweepCalls
<1> HIDE DEF c, next, ends
<1>8. s \in W <=> s \in Waiting /\ command'[s].at = "clearMocks"
  BY <1>2, <1>6
<1> HIDE DEF W
<1>9. ASSUME NEW g \in Hosts
      PROVE  /\ hosts'[g] \in Machine /\ Unmarked(hosts'[g], s) /\ WorkOK(hosts'[g])
             /\ g # h => Same(g)
             /\ g = h => hosts'[g].state = "gone"
  <2> DEFINE y == Forget(Waiting)[g]
  <2>1. Waiting = {} => Unmarked(hosts[g], s)
    BY <1>2, NotHearing
  <2>2. /\ y \in Machine /\ Unmarked(y, s) /\ WorkOK(y)
        /\ y.state = hosts[g].state /\ y.policy = hosts[g].policy
        /\ y.intercepting = hosts[g].intercepting
        /\ \A type : Without(hosts[g].inbox, type) => Without(y.inbox, type)
        /\ y.work = None \/ (hosts[g].work # None /\ y.work.type = hosts[g].work.type)
    BY <1>2, <2>1, Forgets
  <2>3. hosts'[g] = IF g = h THEN [y EXCEPT !.state = "gone"] ELSE y
    BY <1>1 DEF Forget
  <2>4. g = h => y.work = None
    BY <1>1, <2>2 DEF WorkOK
  <2> HIDE DEF y
  <2>5. CASE g = h
    <3>1. /\ hosts'[g] \in Machine /\ hosts'[g].state = "gone" /\ hosts'[g].inbox = y.inbox
          /\ hosts'[g].outbox = y.outbox /\ hosts'[g].work = None
      BY <2>2, <2>3, <2>4, <2>5 DEF Machine
    <3> QED BY <2>2, <2>4, <2>5, <3>1 DEF Unmarked, WorkOK
  <2>6. CASE g # h
    BY <2>2, <2>3, <2>6 DEF Same
  <2> QED BY <2>5, <2>6
<1>10. hosts' \in [Hosts -> Machine] /\ SomeGone'
  BY <1>1, <1>9 DEF Forget, SomeGone
<1>11. ~Installed'
  BY <1>7 DEF Installed
<1>12. command[s].at # "mocks"
  <2>1. \A k \in ToSet(calls) : k.at # "mocks"
    BY <1>1 DEF ToSet
  <2> QED BY <2>1 DEF SessionInv, CallsOK, Writing, Marked
<1>13. ASSUME NEW g \in Hosts PROVE HostOK(g, hosts[g], s)'
  <2>1. Unmarked(hosts[g], s)' /\ WorkOK(hosts'[g])
    BY <1>9 DEF Unmarked
  <2>2. Carried(g, hosts[g], s)' /\ Tells(g, hosts[g], s)'
    BY <2>1, Calm DEF WorkOK
  <2>3. g # port'
    BY <1>1 DEF SessionFacts
  <2>4. command'[s].at \in Beyond => command'[s] = command[s] /\ command[s].at \in Beyond
    BY <1>4, <1>6 DEF Beyond
  <2>5. Serves(g, hosts[g], s)
    BY DEF SessionInv, HostOK
  <2>6. command'[s].at \in Beyond /\ g = command'[s].proxy =>
          Listens(hosts'[g], command'[s].digest) \/ (command'[s].at # "mocks" /\ hosts'[g].state = "gone")
    <3>1. CASE g = h
      BY <1>9, <1>12, <2>4, <3>1
    <3>2. CASE g # h
      <4>1. Same(g)
        BY <1>9, <3>2
      <4>2. \A p : Listens(hosts[g], p) => Listens(hosts'[g], p)
        BY <4>1, SameServes
      <4>3. hosts'[g].state = hosts[g].state
        BY <4>1 DEF Same
      <4> QED BY <2>4, <2>5, <4>2, <4>3 DEF Serves
    <3> QED BY <3>1, <3>2
  <2>7. Serves(g, hosts[g], s)'
    BY <1>11, <2>3, <2>6 DEF Serves
  <2> QED BY <2>2, <2>7 DEF HostOK
<1>14. command'[s] \in Going(Points) /\ CommandOK(command'[s])
  BY <1>4, <1>5, <1>6
<1>15. Typed'
  <2>1. command' \in [Sessions -> Going(Points)]
    BY <1>1, <1>2, <1>14
  <2>2. pac' \in Hosts \cup {None} /\ pacInstalled' \in BOOLEAN /\ port' \in Hosts \cup {None}
    BY <1>1 DEF SessionInv, Typed
  <2> QED BY <1>1, <1>4, <1>5, <1>10, <2>1, <2>2 DEF SessionInv, Typed
<1>16. CommandOK(command[s])'
  BY <1>14 DEF CommandOK
<1>17. CallsOK(s)'
  <2>1. \A k \in ToSet(calls) : k.by = s => k.at = command[s].at
    BY DEF SessionInv, CallsOK
  <2>2. \A k \in ToSet(calls) : k \in Call
    BY DEF SessionInv, CallsOK, ToSet
  <2>3. \A k \in ToSet(calls) : k.by = s => s \notin Waiting
    BY <1>2, <2>1, <2>2 DEF Call, Hearing, Writing, Clearing
  <2>4. \A k \in ToSet(calls') : /\ k.by = None => k.at = "clearMocks"
                                 /\ k.by = s => k.at = command'[s].at
    BY <1>4, <1>7, <1>8, <2>1, <2>3 DEF SessionInv, CallsOK, SessionFacts
  <2>5. command'[s].at \in Writing \cup Clearing => Marked(calls', s)
    <3>1. CASE s \in Waiting
      BY <1>6, <1>7, <1>8, <3>1 DEF Writing, Clearing
    <3>2. CASE s \notin Waiting
      BY <1>4, <1>7, <3>2 DEF SessionInv, CallsOK, Marked
    <3> QED BY <3>1, <3>2
  <2> QED BY <1>7, <1>10, <2>4, <2>5 DEF CallsOK, Marked
<1>18. RulesOK(s)'
  BY <1>10, <1>11 DEF RulesOK
<1> QED BY <1>13, <1>15, <1>16, <1>17, <1>18 DEF SessionInv

-------------------------------------------------------------------------------
(* The calls for session rules are answered.                                  *)

LEMMA FirstCall ==
  ASSUME NEW s, SessionFacts(s), SessionInv(s), calls # <<>>
  PROVE  /\ Head(calls) \in Call /\ Tail(calls) \in Seq(Call) /\ Once(Tail(calls), s)
         /\ ToSet(calls) = {Head(calls)} \cup ToSet(Tail(calls))
         /\ Head(calls).by = None \/ Head(calls).by = s
         /\ Head(calls).by = None => Head(calls).at = "clearMocks" /\ SomeGone
         /\ Head(calls).by = s => Head(calls).at = command[s].at /\ ~Marked(Tail(calls), s)
         /\ Head(calls).by # s /\ command[s].at \in Writing \cup Clearing => Marked(Tail(calls), s)
         /\ ~Installed /\ (Head(calls).by = s => command[s].at \notin Hearing)
<1>1. /\ calls \in Seq(Call) /\ Once(calls, s)
      /\ \A k \in ToSet(calls) : /\ k.by = None => k.at = "clearMocks" /\ SomeGone
                                 /\ k.by = s => k.at = command[s].at
      /\ command[s].at \in Writing \cup Clearing => Marked(calls, s)
  BY DEF SessionInv, CallsOK
<1>2. /\ Head(calls) \in Call /\ Tail(calls) \in Seq(Call) /\ Once(Tail(calls), s)
      /\ ToSet(calls) = {Head(calls)} \cup ToSet(Tail(calls))
      /\ Head(calls).by = s => ~Marked(Tail(calls), s)
  BY <1>1, Shorter
<1>3. /\ Head(calls).by = None \/ Head(calls).by = s
      /\ Head(calls).at \in Writing \cup Clearing
  BY <1>2 DEF Call, SessionFacts
<1>4. Head(calls).by = None => ~Installed
  BY <1>1, <1>2 DEF Installed, ClearDue
<1>5. Head(calls).by = s => ~Installed /\ command[s].at \notin Hearing
  <2>1. Head(calls).by = s => command[s].at \in Writing \cup Clearing
    BY <1>1, <1>2, <1>3
  <2> QED BY <2>1, Busy DEF Writing, Clearing, Hearing
<1>6. Head(calls).by # s /\ command[s].at \in Writing \cup Clearing => Marked(Tail(calls), s)
  BY <1>1, <1>2 DEF Marked
<1> QED BY <1>1, <1>2, <1>3, <1>4, <1>5, <1>6

\* The hosts stay, and are what the command and the redirects need.
LEMMA HostsStay ==
  ASSUME NEW s, SessionInv(s), UNCHANGED <<hosts, port>>, command[s].at \notin Hearing,
         command'[s].at \notin Hearing, Typed', CommandOK(command[s])', CallsOK(s)', RulesOK(s)',
         \A h \in Hosts : Serves(h, hosts[h], s) => Serves(h, hosts[h], s)'
  PROVE  SessionInv(s)'
<1>1. ASSUME NEW h \in Hosts PROVE HostOK(h, hosts[h], s)'
  <2>1. Unmarked(hosts[h], s)' /\ WorkOK(hosts[h]) /\ Serves(h, hosts[h], s)
    BY NotHearing, WorksOK DEF Unmarked, SessionInv, HostOK
  <2>2. Carried(h, hosts[h], s)' /\ Tells(h, hosts[h], s)'
    BY <2>1, Calm DEF WorkOK
  <2> QED BY <2>1, <2>2 DEF HostOK
<1> QED BY <1>1 DEF SessionInv

\* A command stays where it is, its redirects are still to come or to go.
LEMMA CommandStays ==
  ASSUME NEW s, SessionFacts(s), SessionInv(s), calls # <<>>,
         UNCHANGED <<hosts, port, command, phase, serving, active, pacInstalled, pacTask, pac>>,
         rules' \in [{"mocks", "bodies"} -> RedirectRecord \cup {None}], ~Installed',
         CallsOK(s)', rules' = rules \/ SomeGone
  PROVE  SessionInv(s)'
<1>1. Typed'
  BY DEF SessionInv, Typed
<1>2. CommandOK(command[s])'
  BY DEF SessionInv, CommandOK
<1>3. RulesOK(s)'
  BY DEF SessionInv, RulesOK, SomeGone
<1>4. ASSUME NEW h \in Hosts PROVE HostOK(h, hosts[h], s)'
  <2>1. HostOK(h, hosts[h], s)
    BY DEF SessionInv
  <2>2. Carried(h, hosts[h], s)'
    BY <2>1 DEF HostOK, Carried, Due
  <2>3. Tells(h, hosts[h], s)'
    BY <2>1 DEF HostOK, Tells
  <2>4. Serves(h, hosts[h], s)'
    BY <2>1 DEF HostOK, Serves
  <2> QED BY <2>2, <2>3, <2>4 DEF HostOK
<1> QED BY <1>1, <1>2, <1>3, <1>4 DEF SessionInv

\* Command s goes on after its call.
Goes(s, to) ==
  /\ to \in {"started", "connect", "clearPac"} \cup Clearing
  /\ command' = [command EXCEPT ![s] = Parked(Moved(command[s], to))]
  /\ calls' = Tail(calls) \o (IF to \in Clearing THEN <<Read(s, to)>> ELSE <<>>)
  /\ to = "connect" => command[s].at = "bodies" /\ command[s].project \in Mocks

LEMMA CallMoves ==
  ASSUME NEW s, SessionFacts(s), SessionInv(s), calls # <<>>, Head(calls).by = s,
         NEW to, Goes(s, to),
         hosts' = hosts
  PROVE  /\ command' \in [Sessions -> Going(Points)]
         /\ command'[s].at = IF to = "started" THEN "idle" ELSE to
         /\ command'[s].digest = command[s].digest /\ command'[s].proxy = command[s].proxy
         /\ CommandOK(command[s])' /\ CallsOK(s)'
         /\ ToSet(Tail(calls)) \subseteq ToSet(calls')
         /\ to = "clearMocks" => ClearDue'
<1> DEFINE c == Moved(command[s], to)
           d == Parked(c)
<1>0. /\ to \in {"started", "connect", "clearPac"} \cup Clearing /\ command' = [command EXCEPT ![s] = d]
      /\ calls' = Tail(calls) \o (IF to \in Clearing THEN <<Read(s, to)>> ELSE <<>>)
      /\ to = "connect" => command[s].at = "bodies" /\ command[s].project \in Mocks
  BY DEF Goes
<1>1. /\ command \in [Sessions -> Going(Points)] /\ s \in Sessions /\ CommandOK(command[s])
      /\ command' = [command EXCEPT ![s] = d] /\ command[s] \in Going(Points)
  BY <1>0 DEF SessionInv, Typed, SessionFacts
<1>2. to \in Points \cup Outcomes
  BY <1>0 DEF Points, Outcomes
<1>3. /\ c \in Going(Points \cup Outcomes) /\ c.at = to /\ c.project = command[s].project
      /\ c.digest = command[s].digest /\ c.proxy = command[s].proxy /\ c.token = command[s].token
  BY <1>1, <1>2, MovedIs
<1> HIDE DEF c
<1>4. /\ d \in Going(Points) /\ d.at = IF to = "started" THEN "idle" ELSE to
      /\ d.project = c.project /\ d.digest = c.digest /\ d.proxy = c.proxy /\ d.token = c.token
  <2>1. to \in Outcomes <=> to = "started"
    BY <1>0 DEF Outcomes, Clearing
  <2> QED BY <1>0, <1>3, <2>1 DEF Parked, Moved, Going, Points, Clearing
<1> HIDE DEF d
<1>5. command' \in [Sessions -> Going(Points)] /\ command'[s] = d
  BY <1>1, <1>4
<1>6. CommandOK(command[s])'
  <2>1. CommandOK(d)
    BY <1>0, <1>1, <1>3, <1>4 DEF CommandOK, Beyond, Clearing
  <2> QED BY <1>5, <2>1 DEF CommandOK
<1>7. /\ Tail(calls) \in Seq(Call) /\ Once(Tail(calls), s) /\ ~Marked(Tail(calls), s)
      /\ ToSet(Tail(calls)) \subseteq ToSet(calls)
  BY FirstCall
<1>8. \A k \in ToSet(Tail(calls)) : k.by # s /\ (k.by = None => k.at = "clearMocks" /\ SomeGone)
  BY <1>7 DEF Marked, SessionInv, CallsOK
<1>9. SomeGone' = SomeGone
  BY DEF SomeGone
<1>10. CallsOK(s)' /\ ToSet(Tail(calls)) \subseteq ToSet(calls') /\ (to = "clearMocks" => ClearDue')
  <2>1. CASE to \in Clearing
    <3> DEFINE k == Read(s, to)
               q == Tail(calls)
    <3>1. k \in Call /\ k.by = s /\ k.at = to
      BY <2>1 DEF Read, Call, SessionFacts
    <3>2. calls' = q \o <<k>> /\ q \in Seq(Call) /\ Once(q, s) /\ ~Marked(q, s)
      BY <1>0, <1>7, <2>1
    <3>3. \A l \in ToSet(q) : l.by # s /\ (l.by = None => l.at = "clearMocks" /\ SomeGone)
      BY <1>8
    <3> HIDE DEF k, q
    <3>4. /\ Append(q, k) \in Seq(Call) /\ q \o <<k>> = Append(q, k)
          /\ ToSet(Append(q, k)) = ToSet(q) \cup {k}
      BY <3>1, <3>2, Grown
    <3>5. Once(Append(q, k), s)
      BY <3>1, <3>2, Longer
    <3>6. calls' = Append(q, k)
      BY <3>2, <3>4
    <3>7. command'[s].at = to
      BY <1>4, <1>5, <2>1 DEF Clearing
    <3>8. k \in ToSet(calls') /\ ToSet(q) \subseteq ToSet(calls')
      BY <3>4, <3>6
    <3>9. /\ calls' \in Seq(Call) /\ Once(calls', s)
          /\ \A l \in ToSet(calls') : l \in ToSet(q) \/ l = k
      BY <3>4, <3>5, <3>6
    <3>10. CallsOK(s)'
      BY <1>9, <3>1, <3>3, <3>7, <3>8, <3>9 DEF CallsOK, Marked, SessionFacts
    <3> QED BY <3>1, <3>8, <3>10 DEF ClearDue, q
  <2>2. CASE to \notin Clearing
    <3>1. \A z \in Seq(Call) : z \o <<>> = z
      OBVIOUS
    <3>2. calls' = Tail(calls) \o <<>>
      BY <1>0, <2>2
    <3>3. calls' = Tail(calls)
      BY <1>7, <3>1, <3>2
    <3>4. command'[s].at \notin Writing \cup Clearing
      BY <1>0, <1>4, <1>5, <2>2 DEF Writing, Clearing
    <3>5. to # "clearMocks"
      BY <2>2 DEF Clearing
    <3> QED BY <1>7, <1>8, <1>9, <3>3, <3>4, <3>5 DEF CallsOK
  <2> QED BY <2>1, <2>2
<1> QED BY <1>3, <1>4, <1>5, <1>6, <1>10

\* ... and the redirects are not in place for it.
LEMMA CallLeads ==
  ASSUME NEW s, SessionFacts(s), SessionInv(s), calls # <<>>, Head(calls).by = s,
         NEW to, Goes(s, to),
         UNCHANGED <<hosts, active, port, pacInstalled, pacTask, pac>>,
         phase' \in Outcomes, serving' \in Projects \cup {None},
         rules' \in [{"mocks", "bodies"} -> RedirectRecord \cup {None}],
         \/ to = "clearMocks"
         \/ rules'["mocks"] = None
         \/ rules'["mocks"] = rules["mocks"] /\ Head(calls).at # "clearMocks",
         to = "started" => serving' \notin Mocks
  PROVE  SessionInv(s)'
<1>1. /\ command' \in [Sessions -> Going(Points)]
      /\ command'[s].at = IF to = "started" THEN "idle" ELSE to
      /\ command'[s].digest = command[s].digest /\ command'[s].proxy = command[s].proxy
      /\ CommandOK(command[s])' /\ CallsOK(s)'
      /\ ToSet(Tail(calls)) \subseteq ToSet(calls')
      /\ to = "clearMocks" => ClearDue'
  BY CallMoves
<1>2. /\ ToSet(calls) = {Head(calls)} \cup ToSet(Tail(calls)) /\ ~Installed
      /\ command[s].at \notin Hearing /\ command[s].at \in Writing \cup Clearing
  BY FirstCall DEF Call, SessionFacts
<1>3. ~Installed'
  BY <1>1, <1>2 DEF Installed, ClearDue
<1>4. Typed'
  BY <1>1 DEF SessionInv, Typed
<1>5. command'[s].at = "idle" => to = "started"
  BY <1>1 DEF Clearing, Goes
<1>6. RulesOK(s)'
  BY <1>3, <1>5 DEF RulesOK
<1>7. command'[s].at \notin Hearing
  BY <1>1 DEF Hearing, Clearing, Goes
<1>8. ASSUME NEW h \in Hosts, Serves(h, hosts[h], s) PROVE Serves(h, hosts[h], s)'
  <2>1. /\ command'[s].at \in Beyond => to = "connect"
        /\ command'[s].at \notin {"start", "hearStart", "mocks", "hearStop"}
        /\ command[s].at # "hearStop"
    BY <1>1, <1>2 DEF Beyond, Clearing, Hearing, Goes
  <2>2. to = "connect" => command[s].at \in Beyond /\ command[s].at # "mocks"
    BY DEF Beyond, Goes
  <2> QED BY <1>1, <1>3, <1>8, <2>1, <2>2 DEF Serves
<1> QED BY <1>1, <1>2, <1>4, <1>6, <1>7, <1>8, HostsStay

LEMMA ReadStep ==
  ASSUME NEW s, SessionFacts(s), SessionInv(s), AnswerRead
  PROVE  SessionInv(s)'
<1> DEFINE call == Head(calls)
           seen == rules[Band(call.at)] # None
<1>1. /\ calls # <<>> /\ call.op = "read"
      /\ UNCHANGED <<hosts, active, phase, serving, port, pacInstalled, pacTask, pac, rules>>
      /\ \/ /\ seen \/ call.at \in Writing
            /\ calls' = Append(Tail(calls), Put(call.by, call.at, seen))
            /\ UNCHANGED command
         \/ /\ ~seen /\ call.at \in Clearing
            /\ IF call.by = None
                 THEN calls' = Tail(calls) /\ UNCHANGED command
                 ELSE LET c == Moved(command[call.by], AfterCall(command[call.by])) IN
                      /\ command' = [command EXCEPT ![call.by] = c]
                      /\ calls' = Tail(calls) \o
                           (IF c.at \in Clearing THEN <<Read(call.by, c.at)>> ELSE <<>>)
  BY DEF AnswerRead, adapter, browser
<1>2. /\ call \in Call /\ Tail(calls) \in Seq(Call) /\ Once(Tail(calls), s)
      /\ ToSet(calls) = {call} \cup ToSet(Tail(calls))
      /\ call.by = None \/ call.by = s
      /\ call.by = None => call.at = "clearMocks" /\ SomeGone
      /\ call.by = s => call.at = command[s].at /\ ~Marked(Tail(calls), s)
      /\ call.by # s /\ command[s].at \in Writing \cup Clearing => Marked(Tail(calls), s)
      /\ ~Installed
  BY <1>1, FirstCall
<1>3. /\ rules \in [{"mocks", "bodies"} -> RedirectRecord \cup {None}] /\ s # None
      /\ \A k \in ToSet(Tail(calls)) : /\ k.by = None => k.at = "clearMocks" /\ SomeGone
                                       /\ k.by = s => k.at = command[s].at
  BY <1>2 DEF SessionInv, Typed, CallsOK, SessionFacts
<1>4. rules'["mocks"] = rules["mocks"] /\ SomeGone' = SomeGone
  BY <1>1 DEF SomeGone
<1>5. ~seen /\ call.at = "clearMocks" => rules["mocks"] = None
  BY DEF Band
<1>6. seen \in BOOLEAN
  OBVIOUS
<1> HIDE DEF seen
<1>7. CASE calls' = Append(Tail(calls), Put(call.by, call.at, seen)) /\ UNCHANGED command
  <2> DEFINE k == Put(call.by, call.at, seen)
             q == Tail(calls)
  <2>1. k \in Call /\ k.by = call.by /\ k.at = call.at
    BY <1>2, <1>6 DEF Put, Call
  <2>2. /\ q \in Seq(Call) /\ Once(q, s) /\ calls' = Append(q, k)
        /\ call.by = s => ~Marked(q, s)
    BY <1>2, <1>7
  <2> HIDE DEF k
  <2> HIDE DEF q
  <2>6. k.by # s \/ ~Marked(q, s)
    BY <2>1, <2>2
  <2>7. Append(q, k) \in Seq(Call) /\ ToSet(Append(q, k)) = ToSet(q) \cup {k}
    BY <2>1, <2>2, Grown
  <2>8. Once(Append(q, k), s)
    BY <2>1, <2>2, <2>6, Longer
  <2>9. q = Tail(calls)
    BY DEF q
  <2>3. calls' \in Seq(Call) /\ ToSet(calls') = ToSet(q) \cup {k} /\ Once(calls', s)
    BY <2>2, <2>7, <2>8
  <2>4. CallsOK(s)'
    BY <1>2, <1>3, <1>4, <1>7, <2>1, <2>3, <2>9 DEF CallsOK, Marked
  <2>5. ~Installed'
    BY <1>2, <1>4, <2>1, <2>3, <2>9 DEF Installed, ClearDue
  <2> QED BY <1>1, <1>3, <1>7, <2>4, <2>5, CommandStays
<1>8. CASE ~seen /\ call.by = None /\ calls' = Tail(calls) /\ UNCHANGED command
  <2>1. rules["mocks"] = None
    BY <1>2, <1>5, <1>8
  <2>2. ~Installed'
    BY <1>4, <2>1 DEF Installed
  <2>3. CallsOK(s)'
    BY <1>2, <1>3, <1>4, <1>8 DEF CallsOK
  <2> QED BY <1>1, <1>3, <1>8, <2>2, <2>3, CommandStays
<1>9. CASE /\ ~seen /\ call.by # None /\ call.at \in Clearing
           /\ LET c == Moved(command[call.by], AfterCall(command[call.by])) IN
              /\ command' = [command EXCEPT ![call.by] = c]
              /\ calls' = Tail(calls) \o
                   (IF c.at \in Clearing THEN <<Read(call.by, c.at)>> ELSE <<>>)
  <2> DEFINE to == AfterCall(command[s])
             c == Moved(command[s], to)
  <2>1. /\ call.by = s /\ call.at = command[s].at /\ command[s].at \in Clearing
        /\ command[s] \in Going(Points)
    BY <1>2, <1>9 DEF SessionInv, Typed, SessionFacts
  <2>2. /\ command' = [command EXCEPT ![s] = c]
        /\ calls' = Tail(calls) \o (IF c.at \in Clearing THEN <<Read(s, c.at)>> ELSE <<>>)
    BY <1>9, <2>1
  <2>3. to \in {"clearBodies", "clearPac"}
    BY <2>1 DEF AfterCall, Clearing
  <2> HIDE DEF to
  <2>4. c.at = to /\ Parked(c) = c
    <3>1. to \in Points \cup Outcomes /\ to \notin Outcomes
      BY <2>3 DEF Points, Clearing, Outcomes
    <3>2. c.at = to
      BY <2>1, <3>1, MovedIs
    <3> QED BY <3>1, <3>2 DEF Parked
  <2>5. to \in {"started", "connect", "clearPac"} \cup Clearing /\ to \notin {"connect", "started"}
    BY <2>3 DEF Clearing
  <2>6. command' = [command EXCEPT ![s] = Parked(c)]
    BY <2>2, <2>4
  <2>7. calls' = Tail(calls) \o (IF to \in Clearing THEN <<Read(s, to)>> ELSE <<>>)
    BY <2>2, <2>4
  <2>8. rules'["mocks"] = None \/ (rules'["mocks"] = rules["mocks"] /\ Head(calls).at # "clearMocks")
    BY <1>4, <1>5, <1>9
  <2>9. phase' \in Outcomes /\ serving' \in Projects \cup {None}
    BY <1>1 DEF SessionInv, Typed
  <2>10. rules' \in [{"mocks", "bodies"} -> RedirectRecord \cup {None}]
    BY <1>1, <1>3
  <2>11. Goes(s, to) /\ (to = "started" => serving' \notin Mocks)
    BY <2>5, <2>6, <2>7 DEF Goes
  <2> QED BY <1>1, <2>1, <2>8, <2>9, <2>10, <2>11, CallLeads
<1> QED BY <1>1, <1>7, <1>8, <1>9

\* A write that clears the mock redirects for nobody.
LEMMA SweptStep ==
  ASSUME NEW s, SessionFacts(s), SessionInv(s), calls # <<>>, Head(calls).by = None,
         rules' = [rules EXCEPT !["mocks"] = None], calls' = Tail(calls),
         UNCHANGED <<hosts, port, command, phase, serving, active, pacInstalled, pacTask, pac>>
  PROVE  SessionInv(s)'
<1>1. /\ Tail(calls) \in Seq(Call) /\ Once(Tail(calls), s) /\ SomeGone
      /\ ToSet(Tail(calls)) \subseteq ToSet(calls)
      /\ command[s].at \in Writing \cup Clearing => Marked(Tail(calls), s)
  BY FirstCall DEF SessionFacts
<1>2. rules \in [{"mocks", "bodies"} -> RedirectRecord \cup {None}]
  BY DEF SessionInv, Typed
<1>3. rules' \in [{"mocks", "bodies"} -> RedirectRecord \cup {None}] /\ rules'["mocks"] = None
  BY <1>2
<1>4. ~Installed' /\ SomeGone'
  BY <1>1, <1>3 DEF Installed, SomeGone
<1>5. CallsOK(s)'
  BY <1>1, <1>4 DEF SessionInv, CallsOK
<1> QED BY <1>1, <1>3, <1>4, <1>5, CommandStays

\* The mock redirects are in place: the start has succeeded.
LEMMA InstalledStep ==
  ASSUME NEW s, SessionFacts(s), SessionInv(s), calls # <<>>,
         Head(calls).by = s, command[s].at = "mocks", Goes(s, "started"),
         rules' = [rules EXCEPT !["mocks"] = Redirects(command[s])],
         phase' = "started", serving' = command[s].project,
         UNCHANGED <<hosts, active, port, pacInstalled, pacTask, pac>>
  PROVE  SessionInv(s)'
<1> DEFINE r == [port |-> command[s].proxy, token |-> command[s].token,
                 digest |-> command[s].digest]
<1>1. /\ command[s] \in Going(Points) /\ CommandOK(command[s])
      /\ rules \in [{"mocks", "bodies"} -> RedirectRecord \cup {None}]
  BY DEF SessionInv, Typed, SessionFacts
<1>2. /\ command[s].digest # None /\ command[s].digest = command[s].project
      /\ command[s].proxy # None /\ command[s].token = command[s].proxy
  BY <1>1 DEF CommandOK, Beyond
<1>3. /\ r \in RedirectRecord /\ r # None /\ r.port = command[s].proxy /\ r.token = r.port
      /\ r.digest = command[s].digest
  <2>1. /\ command[s].proxy \in Hosts /\ command[s].token \in Hosts
        /\ command[s].digest \in Projects
    BY <1>1, <1>2 DEF Going
  <2>2. r \in RedirectRecord
    BY <2>1 DEF RedirectRecord
  <2> QED BY <1>2, <2>2, RedirectAssumption DEF RedirectRecord
<1>4. rules' = [rules EXCEPT !["mocks"] = r]
  BY DEF Redirects
<1> HIDE DEF r
<1>5. rules' \in [{"mocks", "bodies"} -> RedirectRecord \cup {None}] /\ rules'["mocks"] = r
  BY <1>1, <1>3, <1>4
<1>6. /\ command' \in [Sessions -> Going(Points)] /\ command'[s].at = "idle"
      /\ CommandOK(command[s])' /\ CallsOK(s)'
  BY CallMoves
<1>7. serving' = r.digest /\ phase' \in Outcomes /\ serving' \in Projects \cup {None}
  BY <1>1, <1>2, <1>3 DEF Outcomes, Going
<1>8. Typed'
  BY <1>5, <1>6, <1>7 DEF SessionInv, Typed
<1>9. RulesOK(s)'
  BY <1>3, <1>5, <1>6, <1>7 DEF RulesOK
<1>10. ASSUME NEW h \in Hosts, Serves(h, hosts[h], s) PROVE Serves(h, hosts[h], s)'
  <2>1. h = command[s].proxy => Listens(hosts[h], command[s].digest)
    BY <1>10 DEF Serves, Beyond
  <2>2. h = port => hosts[h].state \notin {"fresh", "gone"} /\ Staying(hosts[h])
    BY <1>10 DEF Serves
  <2>3. command'[s].at \notin Beyond \cup {"start", "hearStart"}
    BY <1>6 DEF Beyond
  <2>4. h = rules'["mocks"].port => Listens(hosts[h], rules'["mocks"].digest)
    BY <1>3, <1>5, <2>1
  <2> QED BY <2>2, <2>3, <2>4 DEF Serves
<1>11. command[s].at \notin Hearing /\ command'[s].at \notin Hearing
  BY <1>6 DEF Hearing
<1> QED BY <1>6, <1>8, <1>9, <1>10, <1>11, HostsStay

LEMMA WriteStep ==
  ASSUME NEW s, SessionFacts(s), SessionInv(s), AnswerWrite
  PROVE  SessionInv(s)'
<1> DEFINE call == Head(calls)
           band == Band(call.at)
<1>1. PICK done \in BOOLEAN :
        /\ call.at \in Clearing => done
        /\ rules' = IF ~done THEN rules
                    ELSE [rules EXCEPT ![band] =
                            IF call.by = None THEN None ELSE Redirects(command[call.by])]
        /\ IF call.by = None
             THEN calls' = Tail(calls) /\ UNCHANGED <<command, phase, serving>>
             ELSE LET c == Moved(command[call.by], IF done THEN AfterCall(command[call.by])
                                                           ELSE AfterRefusal(call.at)) IN
                  /\ command' = [command EXCEPT ![call.by] = Parked(c)]
                  /\ phase' = IF c.at \in Outcomes THEN c.at ELSE phase
                  /\ serving' = IF c.at = "started" THEN c.project ELSE serving
                  /\ calls' = Tail(calls) \o
                       (IF c.at \in Clearing THEN <<Read(call.by, c.at)>> ELSE <<>>)
  <2>1. call.at \in Clearing => call.at \notin Writing
    BY DEF Writing, Clearing
  <2> QED BY <2>1 DEF AnswerWrite
<1>2. /\ calls # <<>> /\ UNCHANGED <<hosts, active, port, pacInstalled, pacTask, pac>>
  BY DEF AnswerWrite, adapter
<1>3. /\ call \in Call
      /\ call.by = None \/ call.by = s
      /\ call.by = None => call.at = "clearMocks"
      /\ call.by = s => call.at = command[s].at
      /\ rules \in [{"mocks", "bodies"} -> RedirectRecord \cup {None}] /\ s # None
      /\ command[s] \in Going(Points) /\ CommandOK(command[s])
  BY <1>2, FirstCall DEF SessionInv, Typed, SessionFacts
<1>4. CASE call.by = None
  <2>1. band = "mocks" /\ done
    BY <1>1, <1>3, <1>4 DEF Band, Clearing
  <2>2. /\ rules' = [rules EXCEPT !["mocks"] = None] /\ calls' = Tail(calls)
        /\ UNCHANGED <<command, phase, serving>>
    BY <1>1, <1>4, <2>1
  <2> QED BY <1>2, <1>4, <2>2, SweptStep
<1>5. CASE call.by = s
  <2> DEFINE to == IF done THEN AfterCall(command[s]) ELSE AfterRefusal(command[s].at)
             c == Moved(command[s], to)
  <2>1. /\ command[s].at \in Writing \cup Clearing /\ call.at = command[s].at
        /\ Head(calls).by = s /\ (command[s].at \in Clearing => done)
    BY <1>1, <1>3, <1>5 DEF Call
  <2>2. /\ rules' = (IF ~done THEN rules ELSE [rules EXCEPT ![band] = Redirects(command[s])])
        /\ command' = [command EXCEPT ![s] = Parked(c)]
        /\ phase' = (IF c.at \in Outcomes THEN c.at ELSE phase)
        /\ serving' = (IF c.at = "started" THEN c.project ELSE serving)
        /\ calls' = Tail(calls) \o (IF c.at \in Clearing THEN <<Read(s, c.at)>> ELSE <<>>)
    BY <1>1, <1>3, <1>5, <2>1
  <2>3. /\ to \in {"started", "connect", "clearPac"} \cup Clearing
        /\ to = "connect" => command[s].at = "bodies" /\ command[s].project \in Mocks
        /\ to = "started" => done /\ (command[s].at = "mocks" \/ command[s].project \notin Mocks)
        /\ command[s].at = "mocks" /\ done => to = "started"
        /\ command[s].at = "mocks" /\ ~done => to = "clearMocks"
    BY <2>1 DEF AfterCall, AfterRefusal, Writing, Clearing
  <2> HIDE DEF to
  <2>4. to \in Points \cup Outcomes /\ (to \in Outcomes => to = "started")
    BY <2>3 DEF Points, Clearing, Outcomes
  <2>5. c.at = to /\ c.project = command[s].project
    BY <1>3, <2>4, MovedIs
  <2>6. Goes(s, to)
    BY <2>2, <2>3, <2>5 DEF Goes
  <2>7. phase' \in Outcomes /\ serving' \in Projects \cup {None}
    BY <1>3, <2>2, <2>5 DEF SessionInv, Typed, Going
  <2>8. CASE command[s].at = "mocks" /\ done
    <3>1. to = "started" /\ phase' = "started" /\ serving' = command[s].project
      BY <2>2, <2>3, <2>5, <2>8 DEF Outcomes
    <3>2. rules' = [rules EXCEPT !["mocks"] = Redirects(command[s])]
      BY <2>1, <2>2, <2>8 DEF Band
    <3> QED BY <1>2, <2>1, <2>6, <2>8, <3>1, <3>2, InstalledStep
  <2>9. CASE ~(command[s].at = "mocks" /\ done)
    <3>1. /\ rules' \in [{"mocks", "bodies"} -> RedirectRecord \cup {None}]
          /\ to = "clearMocks" \/ rules'["mocks"] = None
             \/ (rules'["mocks"] = rules["mocks"] /\ call.at # "clearMocks")
      <4>1. CASE ~done
        BY <1>3, <2>1, <2>2, <4>1 DEF Clearing
      <4>2. CASE done
        <5>1. Redirects(command[s]) \in RedirectRecord \cup {None}
          <6>1. CASE command[s].at = "bodies" /\ command[s].project \in Bodies
            <7>1. command[s].proxy \in Hosts /\ command[s].digest \in Projects
              BY <1>3, <6>1 DEF CommandOK, Beyond, Going
            <7> QED BY <6>1, <7>1 DEF Redirects, RedirectRecord
          <6>2. CASE ~(command[s].at = "bodies" /\ command[s].project \in Bodies)
            BY <2>9, <4>2, <6>2 DEF Redirects
          <6> QED BY <6>1, <6>2
        <5>2. band \in {"mocks", "bodies"} /\ (band = "mocks" => command[s].at = "clearMocks")
              /\ (command[s].at = "clearMocks" => band = "mocks")
          BY <2>1, <2>9, <4>2 DEF Band
        <5>3. command[s].at = "clearMocks" => Redirects(command[s]) = None
          BY DEF Redirects
        <5>4. rules' = [rules EXCEPT ![band] = Redirects(command[s])]
          BY <2>2, <4>2
        <5> HIDE DEF band
        <5> QED BY <1>3, <2>1, <5>1, <5>2, <5>3, <5>4
      <4> QED BY <4>1, <4>2
    <3>2. to = "started" => serving' \notin Mocks
      BY <2>2, <2>3, <2>5, <2>9
    <3> QED BY <1>2, <2>1, <2>6, <2>7, <3>1, <3>2, CallLeads
  <2> QED BY <2>8, <2>9
<1> QED BY <1>3, <1>4, <1>5

-------------------------------------------------------------------------------
(* The whole session.                                                         *)

\* Nothing moves but the active project.
LEMMA AsideStep ==
  ASSUME NEW s, SessionFacts(s), SessionInv(s), active' \in Projects \cup {active},
         UNCHANGED <<hosts, phase, serving, command, adapter, calls, browser>>
  PROVE  SessionInv(s)'
<1>1. /\ UNCHANGED <<phase, serving, command, port, calls, rules>> /\ hosts' = hosts
      /\ pacInstalled' \in BOOLEAN /\ pacTask' \in [Hosts -> Reply \cup {None}]
      /\ pac' \in Hosts \cup {None} /\ hosts \in [Hosts -> Machine]
      /\ \A g \in Hosts : HostOK(g, hosts[g], s)
  BY DEF adapter, browser, SessionInv, Typed
<1>2. \A g \in Hosts : \E y : hosts'[g] = y /\ HostOK(g, y, s)
  BY <1>1
<1>3. SomeGone => SomeGone'
  BY <1>1 DEF SomeGone
<1> QED BY <1>1, <1>2, <1>3, HostsMove

LEMMA SendStep ==
  ASSUME NEW s, SessionFacts(s), SessionInv(s),
         SendProjectSet(s) \/ SendStart(s) \/ SendMockConnect(s) \/ SendStop(s)
  PROVE  SessionInv(s)'
<1>1. CASE SendProjectSet(s)
  <2>1. CASE Post(s, "set") /\ Continue(s, Moved(command[s], "hearSet"))
    BY <1>1, <2>1, PostStep DEF SendProjectSet, Send, Hearing
  <2>2. CASE Continue(s, Moved(command[s], AfterFailure(command[s]))) /\ UNCHANGED <<hosts, port>>
    <3>1. AfterFailure(command[s]) = "failed" /\ command[s].at = "set"
      BY <1>1 DEF SendProjectSet, Send, AfterFailure
    <3> QED BY <1>1, <2>2, <3>1, UnsentStep DEF SendProjectSet, Send
  <2> QED BY <1>1, <2>1, <2>2 DEF SendProjectSet, Send
<1>2. CASE SendStart(s)
  <2>1. CASE Post(s, "start") /\ Continue(s, Moved(command[s], "hearStart"))
    BY <1>2, <2>1, PostStep DEF SendStart, Send, Hearing
  <2>2. CASE Continue(s, Moved(command[s], AfterFailure(command[s]))) /\ UNCHANGED <<hosts, port>>
    <3>1. AfterFailure(command[s]) = "failed" /\ command[s].at = "start"
      BY <1>2 DEF SendStart, Send, AfterFailure
    <3> QED BY <1>2, <2>2, <3>1, UnsentStep DEF SendStart, Send
  <2> QED BY <1>2, <2>1, <2>2 DEF SendStart, Send
<1>3. CASE SendMockConnect(s)
  <2>1. CASE Post(s, "connect") /\ Continue(s, Moved(command[s], "hearConnect"))
    BY <1>3, <2>1, PostStep DEF SendMockConnect, Send, Hearing
  <2>2. CASE Continue(s, Moved(command[s], AfterFailure(command[s]))) /\ UNCHANGED <<hosts, port>>
    <3>1. AfterFailure(command[s]) = "clearMocks" /\ command[s].at = "connect"
      BY <1>3 DEF SendMockConnect, Send, AfterFailure
    <3> QED BY <1>3, <2>2, <3>1, UnsentStep DEF SendMockConnect, Send
  <2> QED BY <1>3, <2>1, <2>2 DEF SendMockConnect, Send
<1>4. CASE SendStop(s)
  <2>1. /\ command[s].at \in {"clearPac", "stop"}
        /\ UNCHANGED <<active, pacInstalled, pacTask, browser>>
    BY <1>4 DEF SendStop
  <2>2. CASE Post(s, "stop") /\ Continue(s, Moved(command[s], "hearStop"))
    BY <2>1, <2>2, PostStep DEF Hearing
  <2>3. CASE /\ Continue(s, Moved(command[s], AfterFailure(Moved(command[s], "hearStop"))))
             /\ UNCHANGED <<hosts, port>>
    <3> DEFINE to == AfterFailure(Moved(command[s], "hearStop"))
    <3>1. command[s] \in Going(Points) /\ "hearStop" \in Points
      BY DEF SessionInv, Typed, SessionFacts, Points, Hearing
    <3>2. Moved(command[s], "hearStop").at = "hearStop"
      BY <3>1, MovedIs
    <3>3. to \in {"failed", "stopped"}
      BY <3>2 DEF AfterFailure
    <3>4. Continue(s, Moved(command[s], to))
      BY <2>3
    <3> HIDE DEF to
    <3> QED BY <2>1, <2>3, <3>3, <3>4, UnsentStep
  <2> QED BY <1>4, <2>2, <2>3 DEF SendStop
<1> QED BY <1>1, <1>2, <1>3, <1>4

LEMMA SessionNext ==
  ASSUME NEW s, SessionFacts(s), "install" \notin Faults, SessionInv(s), [Next]_vars
  PROVE  SessionInv(s)'
<1>1. Sessions = {s}
  BY DEF SessionFacts
<1>2. CASE Start(s) \/ Stop(s) \/ ClearPac(s)
  BY <1>2, StartAsked, StopAsked, ClearPacStep
<1>3. CASE SendProjectSet(s) \/ SendStart(s) \/ SendMockConnect(s) \/ SendStop(s)
  BY <1>3, SendStep
<1>4. CASE RequestTimesOut(s)
  BY <1>4, TimeOutStep
<1>5. ASSUME NEW p \in Projects, Switch(p) PROVE SessionInv(s)'
  BY <1>5, AsideStep DEF Switch
<1>6. ASSUME NEW h \in Hosts, Hear(h) PROVE SessionInv(s)'
  BY <1>6, HearSetStep, HearStartStep, HearConnectStep, HearStopStep, IgnoreStep, PacRequestStep,
     CarryOutStep, DisconnectStep DEF Hear
<1>7. ASSUME NEW h \in Hosts, HostStep(h) PROVE SessionInv(s)'
  BY <1>7, HostMoves
<1>8. CASE AnswerRead \/ AnswerWrite
  BY <1>8, ReadStep, WriteStep
<1>9. CASE UNCHANGED vars
  BY <1>9, AsideStep DEF vars
<1> QED BY <1>1, <1>2, <1>3, <1>4, <1>5, <1>6, <1>7, <1>8, <1>9 DEF Next, WorkerStep

LEMMA SessionStarts ==
  ASSUME NEW s, SessionFacts(s), Init
  PROVE  SessionInv(s)
<1>1. /\ command \in [Sessions -> Going(Points)] /\ command[s].at = "idle"
      /\ command[s].digest = None
  BY DEF Init, Idle, Going, Points, SessionFacts
<1>2. hosts \in [Hosts -> Machine]
  BY DEF Init, NewHost, Machine
<1>3. Typed
  <2>1. rules = [mocks |-> None, bodies |-> None]
    BY DEF Init
  <2>2. rules \in [{"mocks", "bodies"} -> RedirectRecord \cup {None}]
    BY <2>1
  <2>3. pacTask \in [Hosts -> Reply \cup {None}]
    BY DEF Init
  <2> QED BY <1>1, <1>2, <2>2, <2>3 DEF Init, Typed, Outcomes
<1>4. /\ calls = <<>> /\ ToSet(calls) = {} /\ ~Marked(calls, s) /\ Once(calls, s)
      /\ ~Installed /\ phase = "stopped"
  BY NoneLeft DEF Init, Installed
<1>5. ASSUME NEW h \in Hosts PROVE HostOK(h, hosts[h], s)
  <2>1. /\ hosts[h].inbox = <<>> /\ hosts[h].outbox = <<>> /\ hosts[h].work = None
        /\ h # port
    BY DEF Init, NewHost, SessionFacts
  <2>2. Carried(h, hosts[h], s) /\ Tells(h, hosts[h], s)
    BY <2>1, NoneLeft DEF Carried, Tells
  <2>3. Serves(h, hosts[h], s)
    BY <1>1, <1>4, <2>1 DEF Serves, Beyond
  <2> QED BY <2>2, <2>3 DEF HostOK
<1>6. CommandOK(command[s]) /\ CallsOK(s) /\ RulesOK(s)
  BY <1>1, <1>4 DEF CommandOK, Beyond, CallsOK, RulesOK, Writing, Clearing
<1> QED BY <1>3, <1>5, <1>6 DEF SessionInv

LEMMA ServedAtRest ==
  ASSUME NEW s, SessionFacts(s), SessionInv(s)
  PROVE  MocksServed
<1>1. ASSUME Quiet
      PROVE  ~ClearDue /\ command[s].at = "idle" /\ \A h \in Hosts : hosts[h].state # "exited"
  BY <1>1, NoneLeft DEF Quiet, ClearDue, SessionFacts
<1>2. /\ rules \in [{"mocks", "bodies"} -> RedirectRecord \cup {None}] /\ RulesOK(s)
      /\ \A h \in Hosts : Serves(h, hosts[h], s)
      /\ rules.mocks = rules["mocks"]
  BY DEF SessionInv, Typed, HostOK
<1>3. ASSUME Quiet, rules["mocks"] # None
      PROVE  LET r == rules["mocks"] IN
             /\ Running(r.port) /\ hosts[r.port].intercepting
             /\ r.token = r.port /\ r.digest = hosts[r.port].policy
             /\ phase = "started" /\ serving = r.digest
  <2> DEFINE r == rules["mocks"]
  <2>1. Installed /\ r \in RedirectRecord /\ r.port \in Hosts
    BY <1>1, <1>2, <1>3 DEF Installed, RedirectRecord
  <2>2. Listens(hosts[r.port], r.digest) /\ hosts[r.port].state # "exited"
    BY <1>1, <1>2, <1>3, <2>1 DEF Serves
  <2> QED BY <1>2, <2>1, <2>2 DEF RulesOK, Listens, Holds, Running
<1>4. MockRedirectsServed
  BY <1>2, <1>3 DEF MockRedirectsServed
<1>5. StartedMocksInstalled
  BY <1>1, <1>2 DEF StartedMocksInstalled, RulesOK, SomeGone
<1> QED BY <1>4, <1>5 DEF MocksServed

\* service-worker.ts, native-messaging.ts: one session, whatever the hosts answer, when
\* they exit or time out, and whichever of the worker's calls fails: when nothing is
\* under way, mock redirects lead to the listener of a running host that has the
\* digest and the tokens in them, and only under a phase that says started; and a start
\* that succeeded for a project with mocks has put them there.  No exit is heard
\* while the redirects are being written ("install" is not among the faults).
THEOREM MocksAreServed ==
  ASSUME NEW s, Sessions = {s}, "install" \notin Faults
  PROVE  ServicesSpec => []MocksServed
<1>1. SessionFacts(s)
  BY HostAssumption DEF SessionFacts
<1>2. ServicesInit => SessionInv(s)
  BY <1>1, SessionStarts DEF ServicesInit
<1>3. SessionInv(s) /\ [ServicesNext]_all => SessionInv(s)'
  <2>1. [ServicesNext]_all => [Next]_vars
    BY DEF ServicesNext, all
  <2> QED BY <1>1, <2>1, SessionNext
<1>4. SessionInv(s) => MocksServed
  BY <1>1, ServedAtRest
<1> QED BY <1>2, <1>3, <1>4, PTL DEF ServicesSpec
===============================================================================
