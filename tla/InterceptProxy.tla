--------------------------- MODULE InterceptProxy ---------------------------
(***************************************************************************)
(* The loopback listener of the native host (intercept-proxy.ts) with the  *)
(* calls it makes: the choice of the operation, the revalidation of its    *)
(* authority, the body transforms, the pinned dial and the fetch of a      *)
(* response-body redirect.  One event loop serves every client; each of    *)
(* its awaits ends an action here, and setPolicy, stop and the clients act *)
(* in between.                                                             *)
(*                                                                         *)
(* A policy is [digest, ops, local, rules, enabled]: the digest of its     *)
(* preset, the body operations, the origins that may use a non-public      *)
(* address, the rules its project holds and the groups that were enabled   *)
(* when it was sent.  An operation is [kind, group, rule, urls, method,    *)
(* priority]; urls are the URLs its source matches, rule is a number that  *)
(* stands for the order of the rule ids, None for method accepts all.  A   *)
(* URL is [name, origin, port].                                            *)
(***************************************************************************)
EXTENDS Integers, FiniteSets

CONSTANTS
    Clients,      \* the connections
    Policies,     \* the policies setPolicy is called with
    Urls, Methods,
    Rules, Digests,
    Public, Private,   \* addresses, numbers that stand for their sort order
    MaxMocks,     \* RUNTIME_LIMITS.maxConcurrentOperations
    None

MaxPriority == 1000   \* LIMITS.maxPriority

\* What the constants must be.  A rule has one operation, and the preset refuses a
\* priority above the limit.
ProxyAssumption ==
    /\ MaxMocks \in Nat \ {0}
    /\ Public \subseteq Nat /\ Private \subseteq Nat
    /\ Public \cap Private = {}
    /\ None \notin Nat \cup Policies
    /\ \A p \in Policies : \A a \in p.ops :
          /\ a.rule \in Nat /\ a.priority \in 0 .. MaxPriority
          /\ \A b \in p.ops : a.rule = b.rule => a = b

VARIABLES
    policy,       \* the policy in force, None for null
    served,       \* client -> what the listener knows of its request
    open,         \* the clients whose socket is still open
    activeMocks,  \* the slots taken by mock renderings
    aborted,      \* the renderings whose abort signal is set
    stopped       \* "no", "closing" (server.close waits), "done"

vars == <<policy, served, open, activeMocks, aborted, stopped>>

Idle == [step |-> "idle", kind |-> None, url |-> None, method |-> None,
         policy |-> None, requestOp |-> None, responseOp |-> None,
         sent |-> None, dialled |-> None, shown |-> None,
         answer |-> None]

Init ==
    /\ policy \in Policies \cup {None}
    /\ served = [i \in Clients |-> Idle]
    /\ open = Clients
    /\ activeMocks = 0
    /\ aborted = {}
    /\ stopped = "no"

At(i, step) == served[i].step = step
\* The request of i goes on to a step, with some of what is known of it changed.
Goes(i, record, step) == served' = [served EXCEPT ![i] = [record EXCEPT !.step = step]]
\* The request is answered, with an error status or with what was fetched; what
\* is written to a closed connection is lost.
Ends(i, status) ==
    served' = [served EXCEPT ![i].step = "over",
                             ![i].answer = IF i \notin open THEN None
                                           ELSE IF status = 200 THEN "relayed" ELSE "refused"]

Rewrites(i, rule) ==
    served' = [served EXCEPT ![i].step = "over", ![i].shown = rule,
                             ![i].answer = IF i \in open THEN "relayed" ELSE None]

UnchangedRest == UNCHANGED <<policy, open, activeMocks, aborted, stopped>>

-----------------------------------------------------------------------------
(* The choice of an operation and its authority                            *)

Accepts(op, url, method) == url \in op.urls /\ op.method \in {None, method}

Before(a, b) == a.priority > b.priority \/ (a.priority = b.priority /\ a.rule < b.rule)
Highest(ops) ==
    IF ops = {} THEN None
    ELSE CHOOSE a \in ops : \A b \in ops \ {a} : Before(a, b)

\* The sources run on the regex worker: one that misses its deadline is a
\* non-match, so any part of the operations that match may be found.
Found(p, kind, url, method) ==
    IF p = None THEN {None}
    ELSE {Highest(seen) : seen \in SUBSET {op \in p.ops : /\ op.kind = kind
                                                          /\ Accepts(op, url, method)}}

\* The project of the policy, its operations and the source are asked again.
Revalidated(p, op, url, method) ==
    /\ p # None /\ op \in p.ops
    /\ op.rule \in p.rules
    /\ Accepts(op, url, method)

-----------------------------------------------------------------------------
(* Which address is dialled                                                *)

Lowest(addresses) == CHOOSE a \in addresses : \A b \in addresses : a <= b

Pinned(answer, allowPrivate) ==
    IF answer = {} THEN None
    ELSE IF answer \subseteq Public \/ (allowPrivate /\ answer \subseteq Private)
         THEN Lowest(answer)
         ELSE None

Local(p) == IF p = None THEN {} ELSE p.local

Answers == SUBSET (Public \cup Private)   \* {} also stands for a failed lookup

-----------------------------------------------------------------------------
(* Absolute-form HTTP                                                      *)

HttpArrives(i, url, method) ==
    /\ At(i, "idle") /\ i \in open /\ stopped = "no"
    /\ Goes(i, [Idle EXCEPT !.kind = "http", !.url = url, !.method = method,
                            !.policy = policy], "choose-request")
    /\ UnchangedRest

\* Neither an absolute URL nor one of the two redirects, https in absolute form, or
\* a redirect with another method or a path that cannot be parsed.
OddFormArrives(i) ==
    /\ At(i, "idle") /\ i \in open /\ stopped = "no"
    /\ \E status \in {400, 405, 501} : Ends(i, status)
    /\ UnchangedRest

\* A plausible slip: the variable is read again after an await.
PolicyNow(i) == policy

\* The policy was read once, when the request came.
PolicyOf(i) == served[i].policy

ChooseRequestOp(i) ==
    /\ At(i, "choose-request")
    /\ LET r == served[i] IN
       \E op \in Found(PolicyOf(i), "request-body", r.url, r.method) :
          Goes(i, [r EXCEPT !.requestOp = op], "choose-response")
    /\ UnchangedRest

ChooseResponseOp(i) ==
    /\ At(i, "choose-response")
    /\ LET r == served[i] IN
       \E op \in Found(PolicyOf(i), "response-body", r.url, r.method) :
          Goes(i, [r EXCEPT !.responseOp = op], "upload")
    /\ UnchangedRest

\* The body is read to its end, over the limit, or up to a connection error: what
\* came before the error then counts as the body, and the request goes on.
ReadUpload(i) ==
    /\ At(i, "upload")
    /\ LET r == served[i] IN
       Goes(i, r, "rewrite-request") \/ Ends(i, 413)
    /\ UnchangedRest

\* The initiator is taken from the headers of the request; without one there is
\* no authority.
AuthorizeOp(i, op) ==
    op # None /\ Revalidated(PolicyOf(i), op, served[i].url, served[i].method)

\* A denial, an unsupported body, a missed
\* deadline or a result that is too large leave the body as it was read.
RewriteRequest(i) ==
    /\ At(i, "rewrite-request")
    /\ LET r == served[i] IN
       \/ Goes(i, r, "resolve")
       \/ /\ AuthorizeOp(i, r.requestOp)
          /\ Goes(i, [r EXCEPT !.sent = r.requestOp.rule], "resolve")
    /\ UnchangedRest

\* upstreamHttp: port 80 only, every answer of the resolver is checked, and the
\* address that was checked is the one that is dialled.
Resolve(i) ==
    /\ At(i, "resolve") /\ served[i].kind = "http"
    /\ LET r == served[i] IN
       IF r.url.port # 80 THEN Ends(i, 403)
       ELSE \E answer \in Answers :
              LET address == Pinned(answer, r.url.origin \in Local(PolicyOf(i))) IN
              IF address = None THEN Ends(i, 403)
              ELSE Goes(i, [r EXCEPT !.dialled = address], "upstream")
    /\ UnchangedRest

\* A timeout, an error or a bad status line is a 502.
Upstream(i) ==
    /\ At(i, "upstream")
    /\ \/ Goes(i, served[i], "rewrite-response")
       \/ Ends(i, 502)
    /\ UnchangedRest

RewriteResponse(i) ==
    /\ At(i, "rewrite-response")
    /\ LET op == served[i].responseOp IN
       Ends(i, 200) \/ (AuthorizeOp(i, op) /\ Rewrites(i, op.rule))
    /\ UnchangedRest

-----------------------------------------------------------------------------
(* Mock redirects                                                          *)

MockArrives(i, digest) ==
    /\ At(i, "idle") /\ i \in open /\ stopped = "no"
    /\ IF policy = None \/ digest # policy.digest
       THEN Ends(i, 403) /\ UNCHANGED activeMocks
       ELSE IF activeMocks >= MaxMocks
       THEN Ends(i, 429) /\ UNCHANGED activeMocks
       ELSE /\ Goes(i, [Idle EXCEPT !.kind = "mock", !.policy = policy], "rendering")
            /\ activeMocks' = activeMocks + 1
    /\ UNCHANGED <<policy, open, aborted, stopped>>

\* The finally clause runs whether the rendering was aborted, failed or not.
Released(i) == activeMocks' = activeMocks - 1

MockRendered(i) ==
    /\ At(i, "rendering")
    /\ IF i \in aborted
       THEN served' = [served EXCEPT ![i].step = "over"]
       ELSE \E status \in {200, 404, 405, 502} : Ends(i, status)
    /\ Released(i)
    /\ UNCHANGED <<policy, open, aborted, stopped>>

-----------------------------------------------------------------------------
(* Response-body redirects                                                 *)

\* The request has passed the method, the form, the token and the digest; the
\* source of the operation is then matched on the worker.
BodyArrives(i, url, rule, digest, held) ==
    /\ At(i, "idle") /\ i \in open /\ stopped = "no"
    /\ IF ~held \/ policy = None
       THEN Ends(i, 403)
       ELSE IF digest # policy.digest
       THEN Ends(i, 403)
       ELSE Goes(i, [Idle EXCEPT !.kind = "body", !.url = url, !.method = "GET",
                                 !.policy = policy,
                                 !.responseOp = LET ops == {op \in policy.ops :
                                                   /\ op.kind = "response-body"
                                                   /\ op.rule = rule}
                                                IN IF ops = {} THEN None
                                                   ELSE CHOOSE op \in ops : TRUE],
                 "match")
    /\ UnchangedRest

MatchBody(i) ==
    /\ At(i, "match")
    /\ LET r == served[i]
           op == r.responseOp
       IN \/ Ends(i, 404)      \* no such operation, no match or no answer in time
          \/ /\ op # None /\ r.url \in op.urls
             /\ IF op.method \notin {None, "GET"} THEN Ends(i, 405)
                ELSE IF r.url.port \notin {80, 443} THEN Ends(i, 400)
                ELSE Goes(i, r, "revalidate")
    /\ UnchangedRest

RevalidateBody(i) ==
    /\ At(i, "revalidate")
    /\ LET r == served[i] IN
       \/ Ends(i, 403)
       \/ Revalidated(PolicyOf(i), r.responseOp, r.url, "GET") /\ Goes(i, r, "fetch")
    /\ UnchangedRest

\* fetchAuthorized resolves for itself and takes public addresses only; a
\* redirect, an encoding, a size or the timer is an error.
FetchBody(i) ==
    /\ At(i, "fetch")
    /\ LET r == served[i] IN
       \E answer \in Answers :
          LET address == Pinned(answer, FALSE) IN
          IF address = None THEN Ends(i, 502)
          ELSE Goes(i, [r EXCEPT !.dialled = address], "transform")
    /\ UnchangedRest

TransformBody(i) ==
    /\ At(i, "transform")
    /\ Rewrites(i, served[i].responseOp.rule) \/ Ends(i, 502)
    /\ UnchangedRest

-----------------------------------------------------------------------------
(* CONNECT                                                                 *)

\* endConnect: a status and the end of the connection.
EndsConnect(i, status) == Ends(i, status) /\ open' = open \ {i}

ConnectArrives(i, url) ==
    /\ At(i, "idle") /\ i \in open /\ stopped = "no"
    /\ IF url.port # 443 THEN EndsConnect(i, 403)
       ELSE /\ Goes(i, [Idle EXCEPT !.kind = "connect", !.url = url, !.policy = policy],
                    "resolve")
            /\ UNCHANGED open
    /\ UNCHANGED <<policy, activeMocks, aborted, stopped>>

DialTunnel(i) ==
    /\ At(i, "resolve") /\ served[i].kind = "connect"
    /\ \E answer \in Answers :
          LET r == served[i]
              address == Pinned(answer, r.url.origin \in Local(r.policy))
          IN IF address = None \/ i \notin open THEN EndsConnect(i, 403)
             ELSE Goes(i, [r EXCEPT !.dialled = address], "dialling") /\ UNCHANGED open
    /\ UNCHANGED <<policy, activeMocks, aborted, stopped>>

TunnelDialled(i) ==
    /\ At(i, "dialling")
    /\ \/ /\ Goes(i, [served[i] EXCEPT !.answer = "relayed"], IF i \in open THEN "tunnel" ELSE "over")
          /\ UNCHANGED open
       \/ EndsConnect(i, 502)
    /\ UNCHANGED <<policy, activeMocks, aborted, stopped>>

TunnelCloses(i) ==
    /\ At(i, "tunnel") /\ i \in open
    /\ served' = [served EXCEPT ![i].step = "over"]
    /\ open' = open \ {i}
    /\ UNCHANGED <<policy, activeMocks, aborted, stopped>>

-----------------------------------------------------------------------------
(* Clients, policies and stop                                              *)

Leaves(i) ==
    /\ i \in open
    /\ open' = open \ {i}
    /\ aborted' = IF At(i, "rendering") THEN aborted \cup {i} ELSE aborted
    /\ served' = IF At(i, "tunnel") THEN [served EXCEPT ![i].step = "over"] ELSE served
    /\ UNCHANGED <<policy, activeMocks, stopped>>

\* A new connection, once the last one of this client is over.
Returns(i) ==
    /\ At(i, "over") /\ stopped = "no"
    /\ served' = [served EXCEPT ![i] = Idle]
    /\ open' = open \cup {i}
    /\ aborted' = aborted \ {i}
    /\ UNCHANGED <<policy, activeMocks, stopped>>

SetPolicy(p) ==
    /\ p # policy
    /\ policy' = p
    /\ UNCHANGED <<served, open, activeMocks, aborted, stopped>>

\* The connection of a CONNECT has left the HTTP server's hands.
Tunnels == {i \in open : served[i].kind = "connect"}

\* Every rendering is aborted and every HTTP connection destroyed.
Stop ==
    /\ stopped = "no"
    /\ stopped' = "closing"
    /\ aborted' = {i \in Clients : At(i, "rendering")}
    /\ open' = Tunnels
    /\ UNCHANGED <<policy, served, activeMocks>>

\* server.close answers when its last connection is gone.
StopEnds ==
    /\ stopped = "closing" /\ open = {}
    /\ stopped' = "done"
    /\ UNCHANGED <<policy, served, open, activeMocks, aborted>>

Handles(i) ==
    \/ ChooseRequestOp(i) \/ ChooseResponseOp(i) \/ ReadUpload(i)
    \/ RewriteRequest(i) \/ Resolve(i) \/ Upstream(i) \/ RewriteResponse(i)
    \/ MockRendered(i)
    \/ MatchBody(i) \/ RevalidateBody(i) \/ FetchBody(i) \/ TransformBody(i)
    \/ DialTunnel(i) \/ TunnelDialled(i)

Arrives(i) ==
    \/ \E url \in Urls, method \in Methods : HttpArrives(i, url, method)
    \/ OddFormArrives(i)
    \/ \E digest \in Digests : MockArrives(i, digest)
    \/ \E url \in Urls, rule \in Rules, digest \in Digests, held \in BOOLEAN :
          BodyArrives(i, url, rule, digest, held)
    \/ \E url \in Urls : ConnectArrives(i, url)

Next ==
    \/ \E i \in Clients : Arrives(i) \/ Handles(i) \/ TunnelCloses(i) \/ Leaves(i) \/ Returns(i)
    \/ \E p \in Policies \cup {None} : SetPolicy(p)
    \/ Stop \/ StopEnds

Spec == Init /\ [][Next]_vars
\* Every await ends: each has a timer of its own or of the socket.
FairSpec == Spec /\ WF_vars(StopEnds) /\ \A i \in Clients : WF_vars(Handles(i))

-----------------------------------------------------------------------------
(* Properties                                                              *)

\* The slots of the mock renderings are counted right under aborts, failures and
\* stop, so that the limit of concurrent renderings neither leaks nor is passed.
SlotsCounted ==
    /\ activeMocks = Cardinality({i \in Clients : At(i, "rendering")})
    /\ activeMocks <= MaxMocks

\* The policy a request arrived under has an operation of this kind and rule that
\* accepts the request, and its project holds the rule.
AllowedTo(r, kind, rule) ==
    /\ r.policy # None
    /\ rule \in r.policy.rules
    /\ \E op \in r.policy.ops : op.kind = kind /\ op.rule = rule /\ Accepts(op, r.url, r.method)

\* However often the policy changes while a request waits, what was done to it was
\* allowed by the one policy in force when it arrived: its body was rewritten by a
\* request-body operation of that policy that accepts its URL and method, its answer
\* by such a response-body operation, and no private address is dialled for an origin
\* that policy does not list.
OnePolicyPerRequest ==
    \A i \in Clients : LET r == served[i] IN
        /\ r.sent # None => AllowedTo(r, "request-body", r.sent)
        /\ r.shown # None => AllowedTo(r, "response-body", r.shown)
        /\ r.dialled \in Private => r.kind # "body" /\ r.url.origin \in Local(r.policy)

\* A body is rewritten by a rule of an enabled group only: the host gets the whole
\* project, and what is disabled has no authority over a request.
DisabledGroupsRest ==
    \A i \in Clients : LET r == served[i] IN
        r.shown # None =>
            \E op \in r.policy.ops : op.rule = r.shown /\ op.group \in r.policy.enabled

\* stop() ends: nothing it leaves open keeps it from answering.
StopAnswers == (stopped = "closing") ~> (stopped = "done")
=============================================================================
