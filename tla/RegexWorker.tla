---------------------------- MODULE RegexWorker ----------------------------
(***************************************************************************)
(* regex-replace.ts: the regular expressions of a project run on one       *)
(* worker thread, shared by every caller.  A boot is shared too; a job's   *)
(* deadline starts with the acknowledgement of the worker, and the only    *)
(* way to stop a runaway expression is to kill the thread under all the    *)
(* jobs that were posted to it.                                            *)
(***************************************************************************)
EXTENDS Integers, Sequences, FiniteSets

CONSTANTS Jobs, Workers, None

WorkerAssumption == None \notin Workers

VARIABLES
    worker,    \* regexWorker: the warm worker, or None
    boot,      \* regexWorkerBoot: the worker being booted (or booted), or None
    thread,    \* worker -> "none", "booting", "ready", "killed", "exited"
    queue,     \* worker -> the jobs posted to its thread and not yet taken
    running,   \* worker -> the job its thread executes, or None
    news,      \* worker -> the messages on their way to the main thread
    job        \* job -> [at, on]: "new", "waiting", "posted", "timed" or its outcome

vars == <<worker, boot, thread, queue, running, news, job>>

Init ==
    /\ worker = None /\ boot = None
    /\ thread = [w \in Workers |-> "none"]
    /\ queue = [w \in Workers |-> <<>>]
    /\ running = [w \in Workers |-> None]
    /\ news = [w \in Workers |-> <<>>]
    /\ job = [j \in Jobs |-> [at |-> "new", on |-> None]]

Pending(j) == job[j].at \in {"posted", "timed"}
Waiting(w) == {j \in Jobs : job[j] = [at |-> "waiting", on |-> w]}

\* A boot that fails rejects the callers that wait for it and is not kept.
BootFails(w) ==
    /\ thread[w] = "booting"
    /\ thread' = [thread EXCEPT ![w] = "exited"]
    /\ boot' = None
    /\ job' = [j \in Jobs |-> IF j \in Waiting(w) THEN [at |-> "boot-failed", on |-> w]
                              ELSE job[j]]
    /\ UNCHANGED <<worker, queue, running, news>>

\* A job waits for the boot under way, starts one, or is posted at once.
Ask(j) ==
    /\ job[j].at = "new"
    /\ \/ /\ worker # None
          /\ job' = [job EXCEPT ![j] = [at |-> "posted", on |-> worker]]
          /\ queue' = [queue EXCEPT ![worker] = Append(@, j)]
          /\ UNCHANGED <<boot, thread>>
       \/ /\ worker = None /\ boot # None
          /\ job' = [job EXCEPT ![j] = [at |-> "waiting", on |-> boot]]
          /\ UNCHANGED <<boot, thread, queue>>
       \/ /\ worker = None /\ boot = None
          /\ \E w \in Workers :
                /\ thread[w] = "none"
                /\ boot' = w
                /\ thread' = [thread EXCEPT ![w] = "booting"]
                /\ job' = [job EXCEPT ![j] = [at |-> "waiting", on |-> w]]
          /\ UNCHANGED queue
    /\ UNCHANGED <<worker, running, news>>

\* The first message of the thread: the callers that waited post their jobs.
BootReady(w) ==
    /\ thread[w] = "booting"
    /\ thread' = [thread EXCEPT ![w] = "ready"]
    /\ worker' = w
    /\ \E order \in [1..Cardinality(Waiting(w)) -> Waiting(w)] :
          /\ \A j \in Waiting(w) : \E n \in DOMAIN order : order[n] = j
          /\ queue' = [queue EXCEPT ![w] = order]
    /\ job' = [j \in Jobs |-> IF j \in Waiting(w) THEN [at |-> "posted", on |-> w] ELSE job[j]]
    /\ UNCHANGED <<boot, running, news>>

\* The thread acknowledges a job and begins it.
Take(w) ==
    /\ thread[w] = "ready" /\ running[w] = None /\ queue[w] # <<>>
    /\ running' = [running EXCEPT ![w] = Head(queue[w])]
    /\ queue' = [queue EXCEPT ![w] = Tail(@)]
    /\ news' = [news EXCEPT ![w] = Append(@, <<"ack", Head(queue[w])>>)]
    /\ UNCHANGED <<worker, boot, thread, job>>

\* A runaway expression never gets here.
Finish(w) ==
    /\ thread[w] = "ready" /\ running[w] # None
    /\ running' = [running EXCEPT ![w] = None]
    /\ news' = [news EXCEPT ![w] = Append(@, <<"result", running[w]>>)]
    /\ UNCHANGED <<worker, boot, thread, queue, job>>

\* An acknowledgement starts the deadline; a settled job has no listener left.
Hears(w) ==
    /\ news[w] # <<>>
    /\ news' = [news EXCEPT ![w] = Tail(@)]
    /\ LET kind == Head(news[w])[1]
           j == Head(news[w])[2]
       IN job' = IF ~Pending(j) THEN job
                 ELSE [job EXCEPT ![j].at = IF kind = "ack" THEN "timed" ELSE "result"]
    /\ UNCHANGED <<worker, boot, thread, queue, running>>

\* A plausible slip: the killed worker stays the warm one until its exit event.
ForgetLater(w) == UNCHANGED <<worker, boot>>

Forget(w) ==
    IF worker = w THEN worker' = None /\ boot' = None ELSE UNCHANGED <<worker, boot>>

\* The deadline kills the thread, whatever else was posted to it.
Deadline(j) ==
    /\ job[j].at = "timed"
    /\ LET w == job[j].on IN
          /\ Forget(w)
          /\ thread' = [thread EXCEPT ![w] = IF @ = "exited" THEN @ ELSE "killed"]
    /\ job' = [job EXCEPT ![j].at = "deadline"]
    /\ UNCHANGED <<queue, running, news>>

Rejected(w) == {j \in Jobs : Pending(j) /\ job[j].on = w}

\* A killed thread exits, and a thread may crash: no message of it is left behind
\* the event, and every job posted to it is rejected.
Exit(w) ==
    /\ thread[w] \in {"killed", "ready"}
    /\ thread[w] = "ready" => news[w] = <<>>
    /\ thread' = [thread EXCEPT ![w] = "exited"]
    /\ IF worker = w THEN worker' = None /\ boot' = None ELSE UNCHANGED <<worker, boot>>
    /\ job' = [j \in Jobs |-> IF j \in Rejected(w) THEN [at |-> "exited", on |-> w] ELSE job[j]]
    /\ queue' = [queue EXCEPT ![w] = <<>>]
    /\ running' = [running EXCEPT ![w] = None]
    /\ news' = [news EXCEPT ![w] = <<>>]

Next ==
    \/ \E j \in Jobs : Ask(j) \/ Deadline(j)
    \/ \E w \in Workers :
          BootReady(w) \/ BootFails(w) \/ Take(w) \/ Finish(w) \/ Hears(w) \/ Exit(w)

\* A boot has its own timer, the thread and the event loop go on, a killed thread
\* exits and a timer fires.  That an expression ends is not assumed.
Fairness ==
    /\ \A w \in Workers : /\ WF_vars(BootReady(w) \/ BootFails(w))
                          /\ WF_vars(Take(w)) /\ WF_vars(Hears(w))
                          /\ WF_vars(thread[w] = "killed" /\ Exit(w))
    /\ \A j \in Jobs : WF_vars(Deadline(j))

Spec == Init /\ [][Next]_vars /\ Fairness

-----------------------------------------------------------------------------
\* No job is ever posted to a thread that a deadline has killed: it would be lost
\* with the runaway job it has nothing to do with.
PostedToLive ==
    \A j \in Jobs : job[j].at \in {"new", "waiting"} /\ job'[j].at = "posted"
                       => thread'[job'[j].on] = "ready"
KilledIsNotUsed == [][PostedToLive]_vars

\* Every job that was asked for is settled, behind a runaway one too.
EveryJobSettles ==
    \A j \in Jobs : (job[j].at # "new") ~> (job[j].at \notin {"new", "waiting", "posted", "timed"})
=============================================================================
