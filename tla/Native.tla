-------------------------------- MODULE Native --------------------------------
(***************************************************************************)
(* The native side in one specification: the installation of the           *)
(* certificate authority, the interception proxy, the host's controller    *)
(* and the routing of rules.  They share no state; `part` names the one    *)
(* that takes the steps, the variables of the others stay None, and those  *)
(* of the certificate authority, which this module extends, stay initial.  *)
(***************************************************************************)
EXTENDS CaTrust

CONSTANTS
  Clients, Policies, ProxyUrls, Methods, Rules, Digests, Public, Private, MaxMocks,  \* proxy
  Inputs, Descriptors, Roots, Configs, Tokens, MaxSessions, Renderings, MaxErrors,
  BootstrapLife, SessionLife, MaxNow,                                                \* controller
  Projects, SiteUrls, Types                                                          \* routing

VARIABLES
  part,
  policy, served, open, activeMocks, aborted, stopped,
  state, preset, now, pairing, sessions, authorized, fileRoot, errors, rendering, file,
  inForce, client, asked,
  operations, enabled, phase, running, started, routes, dynamic, session

proxyVars == <<policy, served, open, activeMocks, aborted, stopped>>
controllerVars == <<state, preset, now, pairing, sessions, authorized, fileRoot, errors,
                    rendering, file, inForce, client, asked>>
routingVars == <<operations, enabled, phase, running, started, routes, dynamic, session>>
nativeVars == <<part, vars, proxyVars, controllerVars, routingVars>>

Proxy == INSTANCE InterceptProxy WITH Urls <- ProxyUrls
Controller == INSTANCE RuntimeController
Routing == INSTANCE RuleRouting WITH Urls <- SiteUrls

ASSUME NativeAssumption ==
  /\ Proxy!ProxyAssumption
  /\ Controller!ControllerAssumption
  /\ Routing!RoutingAssumption

NoProxy ==
  /\ policy = None /\ served = None /\ open = None /\ activeMocks = None /\ aborted = None
  /\ stopped = None
NoController ==
  /\ state = None /\ preset = None /\ now = None /\ pairing = None /\ sessions = None
  /\ authorized = None /\ fileRoot = None /\ errors = None /\ rendering = None /\ file = None
  /\ inForce = None /\ client = None /\ asked = None
NoRouting ==
  /\ operations = None /\ enabled = None /\ phase = None /\ running = None /\ started = None
  /\ routes = None /\ dynamic = None /\ session = None

NativeInit ==
  /\ Init
  /\ \/ part = "trust" /\ NoProxy /\ NoController /\ NoRouting
     \/ /\ store = "keychain"
        /\ \/ part = "proxy" /\ Proxy!Init /\ NoController /\ NoRouting
           \/ part = "controller" /\ Controller!Init /\ NoProxy /\ NoRouting
           \/ part = "routing" /\ Routing!Init /\ NoProxy /\ NoController

NativeNext ==
  /\ UNCHANGED part
  /\ \/ part = "trust" /\ Next /\ UNCHANGED <<proxyVars, controllerVars, routingVars>>
     \/ part = "proxy" /\ Proxy!Next /\ UNCHANGED <<vars, controllerVars, routingVars>>
     \/ part = "controller" /\ Controller!Next /\ UNCHANGED <<vars, proxyVars, routingVars>>
     \/ part = "routing" /\ Routing!Next /\ UNCHANGED <<vars, proxyVars, controllerVars>>

NativeSpec == NativeInit /\ [][NativeNext]_nativeVars

-------------------------------------------------------------------------------
\* InterceptProxy: the slots of mock renderings are counted right, and what is done to
\* a request was allowed, by an operation of the right kind that accepts it, by the one
\* policy in force when it arrived.
OnePolicyPerRequest == part = "proxy" => Proxy!SlotsCounted /\ Proxy!OnePolicyPerRequest

\* RuntimeController: one pairing, authority from a grant, and completions by the
\* provider file as it was when they were asked for.
PairedOnce == part = "controller" => Controller!PairedOnce /\ Controller!CompletionsUseTheFile

\* RuleRouting: browser and dry run agree about the requests that header rules and
\* mocks take; what an active request-body rule matches is sent to the listener, and
\* only hosts that a request-body rule of the started session names, enabled or not.
AppliesExactly == part = "routing" => Routing!AppliesExactly /\ Routing!RoutesFit
===============================================================================
