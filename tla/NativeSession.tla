--------------------------- MODULE NativeSession ---------------------------
(***************************************************************************)
(* The native session of the extension: startNativeSession() and           *)
(* stopNativeSession(), the native-messaging adapter under them and the    *)
(* phase the service worker shows, over the hosts of NativeHost.           *)
(*                                                                         *)
(* A step runs from one await to the next.  The session rules of the       *)
(* browser are written in two calls, getSessionRules and                   *)
(* updateSessionRules; the calls of one worker are answered in order.      *)
(***************************************************************************)
EXTENDS NativeHost, SequencesExt

\* None is no redirect.
ASSUME RedirectAssumption == None \notin [port: Hosts, token: Hosts, digest: Projects]

VARIABLES
  active,    \* the active project
  phase,     \* nativePhase
  serving,   \* history: the project of the last start that succeeded
  command,   \* command[s]: where the start or stop command s is
  port,      \* the host at the other end of the adapter's port
  pacInstalled, \* the adapter's flag
  pacTask,   \* pacTask[h]: the PAC request of h being carried out
  calls,     \* session-rule calls not answered yet
  rules,     \* rules.mocks, rules.bodies: the session redirects
  pac        \* the host the browser's PAC points at

adapter == <<port, pacInstalled, pacTask>>
browser == <<rules, pac>>
vars == <<hosts, active, phase, serving, command, adapter, calls, browser>>

Idle ==
  [kind |-> "stop", at |-> "idle", project |-> None, digest |-> None,
   proxy |-> None, token |-> None]

Init ==
  /\ hosts = [h \in Hosts |-> NewHost]
  /\ active \in Projects
  /\ phase = "stopped" /\ serving = None
  /\ command = [s \in Sessions |-> Idle]
  /\ port = None /\ pacInstalled = FALSE
  /\ pacTask = [h \in Hosts |-> None]
  /\ calls = <<>>
  /\ rules = [mocks |-> None, bodies |-> None] /\ pac = None

-----------------------------------------------------------------------------
(* Where a command goes next.                                              *)

Writing  == {"mocks", "bodies"}            \* installs a band of redirects
Clearing == {"clearMocks", "clearBodies"}  \* clears one
Hearing  == {"hearSet", "hearStart", "hearConnect", "hearStop"}
Outcomes == {"started", "failed", "stopped"}

Band(at) == IF at \in {"mocks", "clearMocks"} THEN "mocks" ELSE "bodies"
Read(by, at) == [by |-> by, at |-> at, op |-> "read", seen |-> FALSE]
Put(by, at, seen) == [by |-> by, at |-> at, op |-> "write", seen |-> seen]

\* The response-body redirects come first, if the host gave a digest.
AfterStart(c) ==
  CASE c.digest # None /\ c.project \in Bodies \cup Mocks -> "bodies"
    [] c.digest = None /\ c.project \in Mocks -> "clearMocks"
    [] OTHER -> "started"

AfterCall(c) ==
  CASE c.at = "bodies" /\ c.project \in Mocks -> "connect"
    [] c.at = "clearMocks"  -> "clearBodies"
    [] c.at = "clearBodies" -> "clearPac"
    [] OTHER -> "started"

AfterRefusal(at) == IF at = "mocks" THEN "clearMocks" ELSE "clearBodies"

\* What a request that fails leads to.
AfterFailure(c) ==
  CASE c.at \in {"connect", "hearConnect"} -> "clearMocks"
    [] c.at = "hearStop" /\ c.kind = "stop" -> "stopped"
    [] OTHER -> "failed"

Moved(c, at) == [c EXCEPT !.at = at]
Parked(c) == IF c.at \in Outcomes THEN Moved(c, "idle") ELSE c

\* Command s goes on as c: it ends, or makes a session-rule call, or sends.
Continue(s, c) ==
  /\ command' = [command EXCEPT ![s] = Parked(c)]
  /\ phase' = IF c.at \in Outcomes THEN c.at ELSE phase
  /\ serving' = IF c.at = "started" THEN c.project ELSE serving
  /\ calls' = IF c.at \in Writing \cup Clearing
                THEN Append(calls, Read(s, c.at)) ELSE calls

-----------------------------------------------------------------------------
(* The user.  The page offers Start unless the phase is started, and Stop  *)
(* only then.  MaxFrames bounds what hosts that do not answer leave unread. *)

Start(s) ==
  /\ command[s].at = "idle" /\ phase # "started"
  /\ \A h \in Hosts : Backlog(h) + (IF pacTask[h] = None THEN 0 ELSE 1) < MaxFrames
  /\ Continue(s, [Idle EXCEPT !.kind = "start", !.at = "set", !.project = active])
  /\ UNCHANGED <<hosts, active, adapter, browser>>

\* Mutant of Stop: the redirects are left to the host.
StopOnlyHost(s) ==
  /\ command[s].at = "idle" /\ phase = "started"
  /\ Continue(s, [Idle EXCEPT !.at = "clearPac"])
  /\ UNCHANGED <<hosts, active, adapter, browser>>

Stop(s) ==
  /\ command[s].at = "idle" /\ phase = "started"
  /\ Continue(s, [Idle EXCEPT !.at = "clearMocks"])
  /\ UNCHANGED <<hosts, active, adapter, browser>>

Switch(p) ==
  /\ p # active
  /\ active' = p
  /\ UNCHANGED <<hosts, phase, serving, command, adapter, calls, browser>>

-----------------------------------------------------------------------------
(* send(): ensurePort() connects to a new host when there is no port.      *)

Fresh == {h \in Hosts : hosts[h].state = "fresh"}
Delivered(host, frame) ==
  CASE host.state = "fresh"  -> [host EXCEPT !.state = "idle", !.inbox = <<frame>>]
    [] host.state = "exited" -> host
    [] OTHER -> [host EXCEPT !.inbox = Append(@, frame)]

Post(s, type) ==
  \E h \in IF port = None THEN Fresh ELSE {port} :
    /\ hosts' = [hosts EXCEPT ![h] =
                   Delivered(@, Frame(type, s, command[s].project, "request"))]
    /\ port' = h

Send(s, at, type, next) ==
  /\ command[s].at = at
  /\ \/ /\ Post(s, type)
        /\ Continue(s, Moved(command[s], next))
     \/ /\ port = None /\ Fresh = {}    \* connectNative throws
        /\ Continue(s, Moved(command[s], AfterFailure(command[s])))
        /\ UNCHANGED <<hosts, port>>
  /\ UNCHANGED <<active, pacInstalled, pacTask, browser>>

SendProjectSet(s)  == Send(s, "set", "set", "hearSet")
SendStart(s)       == Send(s, "start", "start", "hearStart")
SendMockConnect(s) == Send(s, "connect", "connect", "hearConnect")

\* stop() of the adapter clears the PAC it knows of ...
ClearPac(s) ==
  /\ command[s].at = "clearPac" /\ pacInstalled
  /\ pac' = None /\ pacInstalled' = FALSE
  /\ Continue(s, Moved(command[s], "stop"))
  /\ UNCHANGED <<hosts, active, port, pacTask, rules>>

\* ... and sends runtime.stop if it has a port.
SendStop(s) ==
  /\ command[s].at = "stop" \/ (command[s].at = "clearPac" /\ ~pacInstalled)
  /\ \/ /\ port # None
        /\ Post(s, "stop")
        /\ Continue(s, Moved(command[s], "hearStop"))
     \/ /\ port = None
        /\ Continue(s, Moved(command[s], AfterFailure(Moved(command[s], "hearStop"))))
        /\ UNCHANGED <<hosts, port>>
  /\ UNCHANGED <<active, pacInstalled, pacTask, browser>>

-----------------------------------------------------------------------------
(* The answers of a host.                                                  *)

Hears(h, type) ==
  /\ hosts[h].outbox # <<>> /\ Head(hosts[h].outbox).type = type
  /\ hosts' = [hosts EXCEPT ![h].outbox = Tail(@)]
Said(h) == Head(hosts[h].outbox)

HearProjectSet(h) ==
  /\ Hears(h, "set") /\ Said(h).by # None
  /\ LET s == Said(h).by
         c == [command[s] EXCEPT !.digest = Said(h).project]
     IN Continue(s, Moved(c, IF Said(h).result = "refused" THEN "failed" ELSE "start"))
  /\ UNCHANGED <<active, adapter, browser>>

\* start() of the adapter: an inactive interception fails a project that
\* needs it; the host keeps the project it was set.
HearStart(h) ==
  /\ Hears(h, "start") /\ Said(h).by # None
  /\ LET s == Said(h).by
         c == [command[s] EXCEPT !.proxy = h]
     IN Continue(s, Moved(c, IF Said(h).result = "active" \/ ~NeedsRoute(c.project)
                               THEN AfterStart(c) ELSE "failed"))
  /\ UNCHANGED <<active, adapter, browser>>

\* The tokens must pair with the mock rules of the project.
HearMockConnect(h) ==
  /\ Hears(h, "connect") /\ Said(h).by # None
  /\ LET s == Said(h).by
         c == [command[s] EXCEPT !.token = h]
     IN Continue(s, Moved(c, IF Said(h).project = c.project THEN "mocks" ELSE "clearMocks"))
  /\ UNCHANGED <<active, adapter, browser>>

\* The adapter drops its port without disconnecting it.
HearStop(h) ==
  /\ Hears(h, "stop") /\ Said(h).by # None
  /\ LET s == Said(h).by IN Continue(s, Moved(command[s], AfterFailure(command[s])))
  /\ port' = None
  /\ UNCHANGED <<active, pacInstalled, pacTask, browser>>

\* A late answer: its request timed out.
IgnoreAnswer(h) ==
  /\ \E type \in {"set", "start", "connect", "stop"} : Hears(h, type)
  /\ Said(h).by = None
  /\ UNCHANGED <<active, phase, serving, command, adapter, calls, browser>>

\* The frames of S have nobody waiting for them any more.
Unheard(frame, S) == IF frame.by \in S THEN [frame EXCEPT !.by = None] ELSE frame
Forget(S) == [h \in Hosts |->
  [hosts[h] EXCEPT
     !.inbox  = [i \in DOMAIN @ |-> Unheard(@[i], S)],
     !.outbox = [i \in DOMAIN @ |-> Unheard(@[i], S)],
     !.work   = IF @ = None THEN None ELSE Unheard(@, S)]]

\* A frame, or the work on it, that will still answer s.
Answerable(s) ==
  \E h \in Hosts :
    \/ hosts[h].work # None /\ hosts[h].work.by = s
    \/ \E i \in DOMAIN hosts[h].inbox : hosts[h].inbox[i].by = s
    \/ \E i \in DOMAIN hosts[h].outbox : hosts[h].outbox[i].by = s

\* Mutant of RequestTimesOut: a posted request has no timer.
RequestLost(s) ==
  /\ command[s].at \in Hearing
  /\ ~Answerable(s)
  /\ hosts' = Forget({s})
  /\ port' = IF command[s].at = "hearStop" THEN None ELSE port
  /\ Continue(s, Moved(command[s], AfterFailure(command[s])))
  /\ UNCHANGED <<active, pacInstalled, pacTask, browser>>

RequestTimesOut(s) ==
  /\ command[s].at \in Hearing
  /\ "slow" \in Faults \/ ~Answerable(s)
  /\ hosts' = Forget({s})
  /\ port' = IF command[s].at = "hearStop" THEN None ELSE port
  /\ Continue(s, Moved(command[s], AfterFailure(command[s])))
  /\ UNCHANGED <<active, pacInstalled, pacTask, browser>>

-----------------------------------------------------------------------------
(* The PAC requests of a host.  The answer goes to the port of the adapter, *)
(* which may be another host's.                                             *)

HearPacRequest(h) ==
  /\ \E type \in PacRequest : Hears(h, type)
  /\ pacTask[h] = None
  /\ pacTask' = [pacTask EXCEPT ![h] = Said(h)]
  /\ UNCHANGED <<active, phase, serving, command, port, pacInstalled, calls, browser>>

AnswerHost(ok) ==
  hosts' = IF port = None \/ ~Alive(port) THEN hosts
           ELSE [hosts EXCEPT ![port].replies = Append(@, ok)]

CarryOutPac(h) ==
  /\ pacTask[h] # None
  /\ pacTask' = [pacTask EXCEPT ![h] = None]
  /\ \/ /\ pacTask[h].type = "pac-install"
        /\ pac' = IF pacTask[h].result = "script" THEN h ELSE None
        /\ pacInstalled' = TRUE
        /\ AnswerHost(TRUE)
     \/ /\ pacTask[h].type = "pac-install" /\ "proxy" \in Faults
        /\ AnswerHost(FALSE)
        /\ UNCHANGED <<pac, pacInstalled>>
     \/ /\ pacTask[h].type = "pac-remove"
        /\ pac' = None
        /\ pacInstalled' = FALSE
        /\ AnswerHost(TRUE)
  /\ UNCHANGED <<active, phase, serving, command, port, calls, rules>>

-----------------------------------------------------------------------------
(* The session rules of the browser.                                       *)

\* The redirects command c installs.
Redirects(c) ==
  CASE c.at = "mocks"  -> [port |-> c.proxy, token |-> c.token, digest |-> c.digest]
    [] c.at = "bodies" /\ c.project \in Bodies ->
                          [port |-> c.proxy, token |-> c.proxy, digest |-> c.digest]
    [] OTHER -> None

\* getSessionRules: a clear of an empty band makes no second call.
AnswerRead ==
  /\ calls # <<>> /\ Head(calls).op = "read"
  /\ LET call == Head(calls)
         s    == call.by
         seen == rules[Band(call.at)] # None
     IN
     \/ /\ seen \/ call.at \in Writing
        /\ calls' = Append(Tail(calls), Put(s, call.at, seen))
        /\ UNCHANGED <<command, phase, serving>>
     \/ /\ ~seen /\ call.at \in Clearing
        /\ IF s = None
             THEN calls' = Tail(calls) /\ UNCHANGED command
             ELSE LET c == Moved(command[s], AfterCall(command[s])) IN
                  /\ command' = [command EXCEPT ![s] = c]
                  /\ calls' = Tail(calls) \o
                       (IF c.at \in Clearing THEN <<Read(s, c.at)>> ELSE <<>>)
        /\ UNCHANGED <<phase, serving>>
  /\ UNCHANGED <<hosts, active, adapter, browser>>

\* updateSessionRules replaces the ids that were read; to add an id that came
\* in between fails, and the browser may refuse a rule.
AnswerWrite ==
  /\ calls # <<>> /\ Head(calls).op = "write"
  /\ LET call == Head(calls)
         s    == call.by
         band == Band(call.at)
         fits == call.at \in Clearing \/ call.seen \/ rules[band] = None
     IN \E done \in {fits} \cup IF call.at \in Writing /\ "rules" \in Faults THEN {FALSE} ELSE {} :
     /\ rules' = IF ~done THEN rules
                 ELSE [rules EXCEPT ![band] =
                         IF s = None THEN None ELSE Redirects(command[s])]
     /\ IF s = None
          THEN calls' = Tail(calls) /\ UNCHANGED <<command, phase, serving>>
          ELSE LET c == Moved(command[s], IF done THEN AfterCall(command[s])
                                                  ELSE AfterRefusal(call.at)) IN
               /\ command' = [command EXCEPT ![s] = Parked(c)]
               /\ phase' = IF c.at \in Outcomes THEN c.at ELSE phase
               /\ serving' = IF c.at = "started" THEN c.project ELSE serving
               /\ calls' = Tail(calls) \o
                    (IF c.at \in Clearing THEN <<Read(s, c.at)>> ELSE <<>>)
  /\ UNCHANGED <<hosts, active, adapter, pac>>

-----------------------------------------------------------------------------
(* A port disconnects, whichever it is: the adapter forgets the one it has, *)
(* clears the PAC it knows of, sweeps the mock redirects and rejects every  *)
(* request.                                                                 *)

Waiting == {s \in Sessions : command[s].at \in Hearing}

Disconnect(h) ==
  /\ hosts[h].state = "exited" /\ hosts[h].outbox = <<>>
  /\ "install" \in Faults \/ \A i \in DOMAIN calls : calls[i].at # "mocks"
  /\ hosts' = [Forget(Waiting) EXCEPT ![h].state = "gone"]
  /\ port' = None
  /\ pac' = IF pacInstalled THEN None ELSE pac
  /\ pacInstalled' = FALSE
  /\ LET next == [s \in Waiting |-> Moved(command[s], AfterFailure(command[s]))]
         ends == {s \in Waiting : next[s].at \in Outcomes}
     IN
     /\ command' = [s \in Sessions |->
                      IF s \in Waiting THEN Parked(next[s]) ELSE command[s]]
     /\ IF ends = {} THEN phase' = phase
                     ELSE \E s \in ends : phase' = next[s].at
     /\ calls' = Append(calls, Read(None, "clearMocks")) \o
                 SetToSeq({Read(s, "clearMocks") : s \in Waiting \ ends})
  /\ UNCHANGED <<active, serving, pacTask, rules>>

-----------------------------------------------------------------------------
HostStep(h) ==
  /\ \/ TakeProjectSet(h) \/ TakeStart(h) \/ TakeMockConnect(h) \/ TakeStop(h)
     \/ HearPacAnswer(h) \/ Exit(h)
     \/ /\ PacTimesOut(h)
        /\ \/ "slow" \in Faults
           \/ /\ hosts[h].replies = <<>> /\ pacTask[h] = None
              /\ \A i \in DOMAIN hosts[h].outbox : hosts[h].outbox[i].type \notin PacRequest
  /\ UNCHANGED <<active, phase, serving, command, adapter, calls, browser>>

WorkerStep(s) ==
  \/ SendProjectSet(s) \/ SendStart(s) \/ SendMockConnect(s)
  \/ ClearPac(s) \/ SendStop(s) \/ RequestTimesOut(s)

Hear(h) ==
  \/ HearProjectSet(h) \/ HearStart(h) \/ HearMockConnect(h) \/ HearStop(h)
  \/ IgnoreAnswer(h) \/ HearPacRequest(h) \/ CarryOutPac(h) \/ Disconnect(h)

Next ==
  \/ \E s \in Sessions : Start(s) \/ Stop(s) \/ WorkerStep(s)
  \/ \E p \in Projects : Switch(p)
  \/ \E h \in Hosts : HostStep(h) \/ Hear(h)
  \/ AnswerRead \/ AnswerWrite

Spec == Init /\ [][Next]_vars

\* The worker's own steps, its timers and the browser's calls; nothing of a host.
Fairness ==
  /\ \A s \in Sessions : WF_vars(WorkerStep(s))
  /\ WF_vars(AnswerRead \/ AnswerWrite)

FairSpec == Spec /\ Fairness

-----------------------------------------------------------------------------
(* Properties.                                                             *)

Request == [type: {"set", "start", "connect", "stop"}, by: Sessions \cup {None},
            project: Projects \cup {None}, result: {"request"}]
Reply ==
  [type: {"set", "start", "connect", "stop"} \cup PacRequest, by: Sessions \cup {None},
   project: Projects \cup {None},
   result: {"ok", "refused", "already-started", "active", "inactive", "tokens",
            "stopped", "script", "none"}]

TypeOK ==
  /\ hosts \in [Hosts ->
       [state: {"fresh", "idle", "running", "stopped", "exited", "gone"},
        policy: Projects \cup {None}, intercepting: BOOLEAN, routed: BOOLEAN,
        inbox: Seq(Request), outbox: Seq(Reply), replies: Seq(BOOLEAN),
        work: Request \cup {None}]]
  /\ active \in Projects /\ serving \in Projects \cup {None}
  /\ phase \in Outcomes
  /\ command \in [Sessions ->
       [kind: {"start", "stop"},
        at: {"idle", "set", "start", "connect", "clearPac", "stop"}
              \cup Hearing \cup Writing \cup Clearing,
        project: Projects \cup {None}, digest: Projects \cup {None},
        proxy: Hosts \cup {None}, token: Hosts \cup {None}]]
  /\ port \in Hosts \cup {None} /\ pacInstalled \in BOOLEAN
  /\ pacTask \in [Hosts -> Reply \cup {None}]
  /\ rules \in [{"mocks", "bodies"} ->
       [port: Hosts, token: Hosts, digest: Projects] \cup {None}]
  /\ pac \in Hosts \cup {None}

\* Nothing is under way: no command, no frame, no session-rule call.
Quiet ==
  /\ \A s \in Sessions : command[s].at = "idle"
  /\ \A h \in Hosts : /\ hosts[h].inbox = <<>> /\ hosts[h].outbox = <<>>
                      /\ hosts[h].replies = <<>> /\ hosts[h].work = None
                      /\ hosts[h].state # "exited" /\ pacTask[h] = None
  /\ calls = <<>>

\* architecture.md: mocks are served only while the native host is running.
\* When nothing is under way, the mock redirects lead to the listener of one
\* running host, with the tokens of that host and the digest of the project it
\* serves, and they are there only if the page shows a started runtime.
MockRedirectsServed ==
  Quiet /\ rules.mocks # None =>
    LET r == rules.mocks IN
    /\ Running(r.port) /\ hosts[r.port].intercepting
    /\ r.token = r.port /\ r.digest = hosts[r.port].policy
    /\ phase = "started" /\ serving = r.digest

\* A start that succeeds for a project with mock rules has installed their
\* redirects, and they stay as long as every host does.
StartedMocksInstalled ==
  Quiet /\ phase = "started" /\ serving \in Mocks
        /\ (\A h \in Hosts : hosts[h].state # "gone")
    => rules.mocks # None

\* The same for response-body rules, which the worker reports as active while
\* the phase is started; architecture.md: a start that fails rolls back all
\* state Rogatio owns, so a later start begins afresh.
StartedBodiesInstalled ==
  Quiet /\ phase = "started" /\ serving \in Bodies =>
    rules.bodies # None /\ rules.bodies.digest = serving

\* Every start and stop ends, even if no host ever takes another step: the
\* requests have timers.
CommandsEnd == \A s \in Sessions : (command[s].at # "idle") ~> (command[s].at = "idle")
=============================================================================
