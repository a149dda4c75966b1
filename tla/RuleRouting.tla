----------------------------- MODULE RuleRouting -----------------------------
(***************************************************************************)
(* What becomes of a rule in the browser: the compiled operation           *)
(* (compile.ts), its condition (source-match.ts, source-projection.ts),    *)
(* its dynamic rule (dnr.ts, projection.ts, installer.ts), and, once the   *)
(* native session is started (native-session.ts), its PAC route (pac.ts)   *)
(* or its redirect to the listener (response-body-redirect.ts,             *)
(* mock-redirect.ts).  Beside it stand the verdict of the dry run          *)
(* (evaluate.ts) and the status the page shows (service-worker.ts,         *)
(* status.ts).  DnrReconciler and NativeSession are about the order and    *)
(* the failures of these calls; here each is one step.                     *)
(*                                                                         *)
(* An operation is [kind, group, rule, method, types, source], None for a  *)
(* method that is not set.  A source is [key, literal, safe, schemes,      *)
(* hosts, port, paths]: the requests its regular expression matches, by    *)
(* their parts; whether it names one literal host; and whether the scan of *)
(* pac-safety.ts lets it pass.  A URL is [scheme, host, port, path], None  *)
(* for a default port.                                                     *)
(***************************************************************************)
EXTENDS Integers, FiniteSets

CONSTANTS
    Projects,     \* sets of operations
    Urls, Methods, Types,
    None

VARIABLES
    operations,   \* the operations of the active project
    enabled,      \* its enabled groups
    phase,        \* nativePhase: "stopped", "started", "failed"
    running,      \* whether the host runs
    started,      \* the operations it was started with, none when it does not run
    routes,       \* the routes of the PAC script
    dynamic,      \* dynamic rules
    session       \* session rules

vars == <<operations, enabled, phase, running, started, routes, dynamic, session>>

\* What the compiler gives: rule ids are unique in a project, a literal source is
\* an exact host, or the URL regex of one scheme and one host.
RoutingAssumption ==
    /\ None \notin Methods
    /\ \A ops \in Projects : \A op \in ops :
          /\ op.method \in Methods \cup {None}
          /\ op.source.key \in {"host", "url"} /\ None \notin op.source.schemes
          /\ op.source.literal => \E host \in op.source.hosts : op.source.hosts = {host}
          /\ op.source.literal /\ op.source.key = "url" =>
               \E scheme \in op.source.schemes : op.source.schemes = {scheme}
    /\ \A ops \in Projects : \A x, y \in ops : x.rule = y.rule => x = y

Groups == UNION {{op.group : op \in p} : p \in Projects}
Requests == Urls \X Methods \X Types

-----------------------------------------------------------------------------
(* Sources                                                                 *)

Matches(source, url) ==
    /\ url.host \in source.hosts
    /\ source.key = "url" => /\ url.scheme \in source.schemes
                             /\ url.port = source.port
                             /\ url.path \in source.paths

\* An exact host regex; the anchored URL regex of one scheme and one literal host.
LiteralHost(source) == source.key = "host" /\ source.literal
Steered(source) == source.key = "url" /\ source.literal

OnlyHost(source) == CHOOSE host \in source.hosts : TRUE
OnlyScheme(source) == CHOOSE scheme \in source.schemes : TRUE

\* A plausible slip: the pinned filter forgets the optional port.
HostPinnedNoPort(host) == {url \in Urls : url.host = host /\ url.port = None}

\* `^https?://host(:[0-9]+)?([/?#]|$)`
HostPinned(host) == {url \in Urls : url.host = host}

Projectable(source) == source.key = "url" \/ LiteralHost(source)

Condition(source) ==
    IF source.key = "url" THEN {url \in Urls : Matches(source, url)}
    ELSE HostPinned(OnlyHost(source))

-----------------------------------------------------------------------------
(* Dynamic and session rules                                               *)

\* A redirect or a query rule carries no method, a header rule its own.
DynamicMethods(op) ==
    IF op.kind \in {"redirect", "query"} \/ op.method = None THEN Methods ELSE {op.method}

RuleOf(op, methods) ==
    [rule |-> op.rule, urls |-> Condition(op.source), methods |-> methods, types |-> op.types]

Dynamic(ops, groups) ==
    {RuleOf(op, DynamicMethods(op)) :
        op \in {o \in ops : /\ o.kind \in {"redirect", "query", "header"}
                            /\ o.group \in groups /\ Projectable(o.source)}}

\* A response body is fetched by GET when its rule names no method.
BodyRedirect(op) == RuleOf(op, {IF op.method = None THEN "GET" ELSE op.method})
MockRedirect(op) == RuleOf(op, IF op.method = None THEN Methods ELSE {op.method})

Takes(rule, request) ==
    request[1] \in rule.urls /\ request[2] \in rule.methods /\ request[3] \in rule.types

-----------------------------------------------------------------------------
(* The PAC script                                                          *)

\* A hostname for a host regex, scheme://host[:port] for a steered URL regex.
Route(source) ==
    [host |-> OnlyHost(source),
     scheme |-> IF LiteralHost(source) THEN None ELSE OnlyScheme(source),
     port |-> IF LiteralHost(source) THEN None ELSE source.port]

Routable(source) == source.safe /\ (LiteralHost(source) \/ Steered(source))

Routes(ops) ==
    {Route(op.source) : op \in {o \in ops : o.kind = "request-body" /\ Routable(o.source)}}

\* FindProxyForURL compares the host, and the URL with the prefix scheme://host
\* or scheme://host:port/ of a steered origin.
Proxied(url) ==
    \E route \in routes :
        /\ url.host = route.host
        /\ route.scheme \in {None, url.scheme}
        /\ route.port \in {None, url.port}

-----------------------------------------------------------------------------
(* Verdicts                                                                *)

\* The dry run of one rule for a complete test case.
DryRun(op, request) ==
    /\ Matches(op.source, request[1])
    /\ op.method \in {None, request[2]}
    /\ request[3] \in op.types

\* The status of a rule, native errors and capture references apart.
Status(op) ==
    CASE op.kind # "mock" /\ ~Projectable(op.source) -> "error"
      [] op.group \notin enabled -> "disabled"
      [] op.kind \in {"redirect", "query", "header"} -> "active"
      [] op.kind = "mock" /\ ~Projectable(op.source) -> "unsupported"
      [] op.kind = "request-body" /\ ~Routable(op.source) -> "needs runtime"
      [] op.kind = "mock" /\ phase = "failed" -> "error"
      [] OTHER -> IF phase = "started" THEN "active" ELSE "needs runtime"

-----------------------------------------------------------------------------
Init ==
    /\ operations \in Projects
    /\ enabled = {}
    /\ phase = "stopped" /\ running = FALSE /\ started = {}
    /\ routes = {} /\ dynamic = {} /\ session = {}

\* A toggle installs the dynamic rules again and leaves the session as it is.
SetGroupEnabled(group) ==
    /\ enabled' = IF group \in enabled THEN enabled \ {group} ELSE enabled \cup {group}
    /\ dynamic' = Dynamic(operations, enabled')
    /\ UNCHANGED <<operations, phase, running, started, routes, session>>

ResponseBodies == {op \in operations : op.kind = "response-body"}
Mocks == {op \in operations : op.kind = "mock" /\ op.group \in enabled}

\* The policy holds the operations of every group; only mocks are cut to the
\* enabled ones.  A redirect that cannot be built throws, with the host running.
Start ==
    /\ phase # "started" /\ ~running
    /\ running' = TRUE /\ started' = operations
    /\ routes' = Routes(operations)
    /\ LET bodies == {BodyRedirect(op) : op \in ResponseBodies}
           mocks == {MockRedirect(op) : op \in Mocks}
           built(ops) == \A op \in ops : Projectable(op.source)
       IN IF built(ResponseBodies) /\ built(Mocks)
          THEN phase' = "started" /\ session' = bodies \cup mocks
          ELSE /\ phase' = "failed"
               /\ session' = IF built(ResponseBodies) THEN bodies ELSE {}
    /\ UNCHANGED <<operations, enabled, dynamic>>

Stop ==
    /\ running
    /\ phase' = "stopped" /\ running' = FALSE /\ started' = {}
    /\ routes' = {} /\ session' = {}
    /\ UNCHANGED <<operations, enabled, dynamic>>

\* New content arrives with its groups disabled.
Save(ops) ==
    /\ operations' = ops
    /\ enabled' = {}
    /\ dynamic' = {}
    /\ UNCHANGED <<phase, running, started, routes, session>>

Next ==
    \/ \E group \in Groups : SetGroupEnabled(group)
    \/ Start \/ Stop
    \/ \E ops \in Projects : ops # operations /\ Save(ops)

Spec == Init /\ [][Next]_vars

-----------------------------------------------------------------------------
(* Properties                                                              *)

RulesOf(kind, ops, rules) ==
    {pair \in ops \X rules : pair[1].kind = kind /\ pair[1].rule = pair[2].rule}

\* What the dry run says of a header rule, or of a mock as the session was started
\* with it, is what the browser does: the condition is never wider nor narrower
\* than the source, with or without a port.
AppliesExactly ==
    \A pair \in RulesOf("header", operations, dynamic) \cup RulesOf("mock", started, session),
       request \in Requests :
        Takes(pair[2], request) <=> DryRun(pair[1], request)

\* Every request that an active request-body rule matches reaches the listener, when
\* the session was started with the project as it is.  In return a URL is sent there
\* only if some request-body rule the session was started with names its host by a
\* literal that the scan lets pass, and its scheme if the rule is about URLs; that
\* rule's group may be disabled (OnlyEnabledRulesAct), and its path another one.
RoutesFit ==
    /\ \A op \in operations, url \in Urls :
          /\ op.kind = "request-body" /\ Status(op) = "active"
          /\ Matches(op.source, url)
          /\ started = operations
          => Proxied(url)
    /\ \A url \in Urls : Proxied(url) =>
          \E op \in started :
             /\ op.kind = "request-body" /\ op.source.literal /\ op.source.safe
             /\ url.host \in op.source.hosts
             /\ op.source.key = "url" => url.scheme \in op.source.schemes

\* F10 AC-011: "The DNR condition honors method (when set)".
DnrHonoursMethod ==
    \A pair \in RulesOf("redirect", operations, dynamic) \cup RulesOf("query", operations, dynamic),
       request \in Requests :
        Takes(pair[2], request) => pair[1].method \in {None, request[2]}

\* F17 REQ-083: the PAC and the redirects route for enabled live operations only.
OnlyEnabledRulesAct ==
    /\ \A url \in Urls : Proxied(url) =>
          \E op \in operations : /\ op.kind = "request-body" /\ op.group \in enabled
                                 /\ url.host \in op.source.hosts
    /\ \A rule \in session : \E op \in operations : op.rule = rule.rule /\ op.group \in enabled
=============================================================================
