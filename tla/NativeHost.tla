----------------------------- MODULE NativeHost -----------------------------
(***************************************************************************)
(* The native runtime host: createNativeHost() and its controller.         *)
(*                                                                         *)
(* A host is a process the browser launches for one native port.  It takes *)
(* the frames of its stdin one at a time (the command chain), except the   *)
(* answers to its own PAC requests, which pass the chain.  A frame the     *)
(* controller throws on gets no answer.                                    *)
(***************************************************************************)
EXTENDS Naturals, Sequences

CONSTANTS
  Hosts,      \* host processes the browser can launch
  Sessions,   \* concurrent start and stop commands of the service worker
  Projects,   \* projects with a valid document
  Routed,     \* those with a steerable request-body rule: they need the PAC
  Bodies,     \* those with a response-body rule
  Mocks,      \* those with an enabled mock rule
  Faults,     \* what may go wrong
  MaxFrames,  \* bound on the unread frames of a host
  None

ASSUME HostAssumption ==
  /\ Routed \cup Bodies \cup Mocks \subseteq Projects
  /\ None \notin Hosts \cup Sessions \cup Projects
  /\ Faults \subseteq {"project",    \* the host refuses the project (its folder)
                       "trust",      \* the device-local CA is not trusted
                       "proxy",      \* another owner controls the proxy settings
                       "rules",      \* the browser refuses a session redirect
                       "exit",       \* a host process ends by itself
                       "install",    \* ... even while mock redirects are installed
                       "slow"}       \* a host may outlast a request timeout
  /\ MaxFrames \in Nat

VARIABLE hosts

NeedsRoute(p)   == p \in Routed \cup Bodies \cup Mocks
PacRequest      == {"pac-install", "pac-remove"}
Frame(type, by, project, result) ==
  [type |-> type, by |-> by, project |-> project, result |-> result]

\* `policy` is the project of runtime.project.set; `intercepting` says the
\* listener runs for it, `routed` that the PAC points at it; `work` is the
\* command that awaits a PAC answer.
NewHost ==
  [state |-> "fresh", policy |-> None, intercepting |-> FALSE, routed |-> FALSE,
   inbox |-> <<>>, outbox |-> <<>>, replies |-> <<>>, work |-> None]

Alive(h)   == hosts[h].state \in {"idle", "running", "stopped"}
Running(h) == hosts[h].state = "running"

Write(host, frame) == [host EXCEPT !.outbox = Append(@, frame)]
Answer(host, m, project, result) == Write(host, Frame(m.type, m.by, project, result))

Backlog(h) == Len(hosts[h].inbox) + Len(hosts[h].outbox) + Len(hosts[h].replies)

Takes(h, type) ==
  /\ Alive(h) /\ hosts[h].work = None
  /\ hosts[h].inbox # <<>> /\ Head(hosts[h].inbox).type = type
Taken(h) == [hosts[h] EXCEPT !.inbox = Tail(@)]
Becomes(h, host) == hosts' = [hosts EXCEPT ![h] = host]

\* runtime.project.set: only an idle host takes a project.
TakeProjectSet(h) ==
  /\ Takes(h, "set")
  /\ LET m == Head(hosts[h].inbox) IN
     \/ /\ hosts[h].state = "idle"
        /\ Becomes(h, Answer([Taken(h) EXCEPT !.state = "running", !.policy = m.project],
                             m, m.project, "ok"))
     \/ /\ hosts[h].state = "idle" /\ "project" \in Faults
        /\ Becomes(h, Answer(Taken(h), m, None, "refused"))
     \/ /\ Running(h)
        /\ Becomes(h, Answer(Taken(h), m, None, "already-started"))
     \/ /\ hosts[h].state = "stopped"
        /\ Becomes(h, Taken(h))

\* runtime.start: bindInterception(), with the routes of the sender's project.
TakeStart(h) ==
  /\ Takes(h, "start")
  /\ LET m == Head(hosts[h].inbox)
         inactive == Answer(Taken(h), m, None, "inactive")
         active   == Answer([Taken(h) EXCEPT !.intercepting = TRUE], m, None, "active")
     IN
     \/ /\ ~Running(h) \/ ~NeedsRoute(m.project)
        /\ Becomes(h, inactive)
     \/ /\ Running(h) /\ NeedsRoute(m.project)
        /\ hosts[h].intercepting \/ m.project \notin Routed
        /\ Becomes(h, active)
     \/ /\ Running(h) /\ m.project \in Routed /\ ~hosts[h].intercepting
        /\ \/ /\ "trust" \in Faults
              /\ Becomes(h, inactive)
           \/ Becomes(h, Write([Taken(h) EXCEPT !.work = m],
                               Frame("pac-install", None, None, "script")))

\* mock.connect throws unless the runtime runs.
TakeMockConnect(h) ==
  /\ Takes(h, "connect")
  /\ LET m == Head(hosts[h].inbox) IN
     Becomes(h, IF Running(h) THEN Answer(Taken(h), m, hosts[h].policy, "tokens")
                              ELSE Taken(h))

Stopped(host) ==
  [host EXCEPT !.state = "stopped", !.policy = None, !.intercepting = FALSE,
               !.routed = FALSE, !.work = None]

\* runtime.stop removes the routing before the listener.
TakeStop(h) ==
  /\ Takes(h, "stop")
  /\ LET m == Head(hosts[h].inbox) IN
     IF Running(h) /\ hosts[h].routed
       THEN Becomes(h, Write([Taken(h) EXCEPT !.work = m],
                             Frame("pac-remove", None, None, "none")))
       ELSE Becomes(h, Answer(Stopped(Taken(h)), m, None, "stopped"))

\* The command in progress goes on when its PAC request is settled.
Resumed(host, ok) ==
  LET m == host.work IN
  CASE m.type = "stop" -> Answer(Stopped(host), m, None, "stopped")
    [] m.type = "start" /\ ok ->
         Answer([host EXCEPT !.intercepting = TRUE, !.routed = TRUE, !.work = None],
                m, None, "active")
    [] OTHER -> Answer([host EXCEPT !.work = None], m, None, "inactive")

\* A PAC answer nobody waits for is taken for a command, and answered as a
\* PAC request without a script.
HearPacAnswer(h) ==
  /\ Alive(h) /\ hosts[h].replies # <<>>
  /\ LET host == [hosts[h] EXCEPT !.replies = Tail(@)]
         ok   == Head(hosts[h].replies)
     IN
     \/ /\ host.work # None
        /\ Becomes(h, Resumed(host, ok))
     \/ /\ host.work = None /\ Running(h) /\ Len(host.outbox) < MaxFrames
        /\ Becomes(h, Write(host, Frame("pac-install", None, None, "none")))
     \/ /\ host.work = None /\ ~Running(h)
        /\ Becomes(h, host)

\* The timer of sendHostRequest().
PacTimesOut(h) ==
  /\ Alive(h) /\ hosts[h].work # None
  /\ Becomes(h, Resumed(hosts[h], FALSE))

\* The process ends: Chrome closes its port, or it crashes.
Exit(h) ==
  /\ "exit" \in Faults
  /\ Alive(h)
  /\ Becomes(h, [NewHost EXCEPT !.state = "exited", !.outbox = hosts[h].outbox])
=============================================================================
