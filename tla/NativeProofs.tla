----------------------------- MODULE NativeProofs -----------------------------
(***************************************************************************)
(* Theorems about the parts of Native that hold for every value of the     *)
(* constants: the interception proxy, the controller of the host and the   *)
(* routing of rules, each by itself and then in the composition; and       *)
(* CaTrust, for every set of directories, every kind of trust store and    *)
(* any number of commands, failures, kills and broken keys.                *)
(***************************************************************************)
EXTENDS Native, FiniteSetTheorems, SequenceTheorems, WellFoundedInduction, TLAPS

-------------------------------------------------------------------------------
(* Least numbers, and what they choose.                                    *)

LEMMA Smallest ==
  ASSUME NEW T \in SUBSET Nat, T # {}
  PROVE  \E a \in T : \A b \in T : a <= b
<1> DEFINE R == OpToRel(<, Nat)
<1>1. IsWellFoundedOn(R, Nat)
  BY NatLessThanWellFounded
<1>2. \A x, y \in Nat : y < x => <<y, x>> \in R
  BY DEF OpToRel
<1> HIDE DEF R
<1>3. \E x \in T : \A y \in T : ~ (<<y, x>> \in R)
  BY <1>1, WFMin
<1>4. PICK x \in T : \A y \in T : ~ (<<y, x>> \in R)
  BY <1>3
<1>5. ASSUME NEW y \in T PROVE x <= y
  <2>1. x \in Nat /\ y \in Nat
    OBVIOUS
  <2>2. ~ (y < x)
    BY <1>2, <1>4, <2>1
  <2> QED BY <2>1, <2>2
<1> QED BY <1>5

\* The address that is dialled is one of the answer.
LEMMA LowestIsOne ==
  ASSUME NEW answer \in SUBSET Nat, answer # {}
  PROVE  Proxy!Lowest(answer) \in answer
BY Smallest DEF Proxy!Lowest

\* Of operations with a rule each, one is the highest.
LEMMA HighestIsOne ==
  ASSUME Proxy!ProxyAssumption, NEW p \in Policies, NEW ops \in SUBSET p.ops, ops # {}
  PROVE  Proxy!Highest(ops) \in ops
<1>1. \A a \in ops : a.rule \in Nat /\ a.priority \in 0 .. Proxy!MaxPriority
  BY DEF Proxy!ProxyAssumption
<1>2. \A a, b \in ops : a.rule = b.rule => a = b
  BY DEF Proxy!ProxyAssumption
<1> DEFINE depth(a) == Proxy!MaxPriority - a.priority
           D == {depth(a) : a \in ops}
<1>10. \A a \in ops : a.priority \in Nat /\ depth(a) \in Nat
  <2>1. \A n \in 0 .. Proxy!MaxPriority : n \in Nat /\ Proxy!MaxPriority - n \in Nat
    BY DEF Proxy!MaxPriority
  <2> QED BY <1>1, <2>1
<1>3. D \in SUBSET Nat /\ D # {}
  BY <1>10
<1>4. PICK d \in D : \A e \in D : d <= e
  BY <1>3, Smallest
<1> DEFINE top == {a \in ops : depth(a) = d}
           N   == {a.rule : a \in top}
<1>5. N \in SUBSET Nat /\ N # {}
  BY <1>1, <1>4
<1>6. PICK n \in N : \A m \in N : n <= m
  BY <1>5, Smallest
<1>7. PICK a \in top : a.rule = n
  BY <1>6
<1>8. ASSUME NEW b \in ops \ {a} PROVE Proxy!Before(a, b)
  <2>6. a \in ops /\ b \in ops
    BY <1>7
  <2>1. /\ a.priority \in Nat /\ b.priority \in Nat /\ a.rule \in Nat /\ b.rule \in Nat
        /\ Proxy!MaxPriority \in Nat
    BY <1>1, <1>10, <2>6 DEF Proxy!MaxPriority
  <2>2. depth(a) <= depth(b)
    BY <1>4, <1>7
  <2>3. a.rule # b.rule
    BY <1>2, <1>7, <1>8
  <2>4. CASE depth(b) = d
    <3>1. a.rule <= b.rule /\ depth(a) = depth(b)
      BY <1>6, <1>7, <2>4
    <3> QED BY <2>1, <2>3, <3>1 DEF Proxy!Before
  <2>5. CASE depth(b) # d
    BY <1>7, <2>1, <2>2, <2>5 DEF Proxy!Before
  <2> QED BY <2>4, <2>5
<1>9. \E c \in ops : \A b \in ops \ {c} : Proxy!Before(c, b)
  BY <1>7, <1>8
<1> QED BY <1>9 DEF Proxy!Highest

-------------------------------------------------------------------------------
(* The inductive invariant.                                                *)

Ops   == UNION {p.ops : p \in Policies}
Named == {op.rule : op \in Ops}
Texts == {"idle", "choose-request", "choose-response", "upload", "rewrite-request", "resolve",
          "upstream", "rewrite-response", "rendering", "match", "revalidate", "fetch", "transform",
          "dialling", "tunnel", "over"}

Outcomes == {"relayed", "refused", None}

Request ==
  [step : Texts, kind : {"http", "mock", "body", "connect", None}, url : ProxyUrls \cup {None},
   method : Methods \cup {"GET", None}, policy : Policies \cup {None},
   requestOp : Ops \cup {None}, responseOp : Ops \cup {None},
   sent : Named \cup {None}, dialled : Public \cup Private \cup {None},
   shown : Named \cup {None}, answer : Outcomes]

ProxyTypes ==
  /\ policy \in Policies \cup {None}
  /\ served \in [Clients -> Request]

\* The operation that may write the answer of a request is one of its policy, and
\* what rewrote the request or the answer was allowed to by that policy.
Justified(r) ==
  /\ r.responseOp # None => /\ r.policy # None /\ r.responseOp \in r.policy.ops
                            /\ r.responseOp.kind = "response-body"
  /\ r.requestOp # None => r.requestOp.kind = "request-body"
  /\ r.sent # None => Proxy!AllowedTo(r, "request-body", r.sent)
  /\ r.shown # None => Proxy!AllowedTo(r, "response-body", r.shown)
  /\ r.dialled \in Private => r.kind # "body" /\ r.url.origin \in Proxy!Local(r.policy)

\* It was revalidated before a redirect fetches it.
Cleared(r) ==
  /\ r.responseOp # None /\ r.method = "GET"
  /\ Proxy!Revalidated(r.policy, r.responseOp, r.url, r.method)

RequestInv(r) ==
  /\ Justified(r)
  /\ r.step \in {"match", "revalidate"} => r.method = "GET"
  /\ r.step = "revalidate" => r.responseOp # None
  /\ r.step \in {"fetch", "transform"} => Cleared(r)

Rendering == {i \in Clients : Proxy!At(i, "rendering")}

ProxyInv ==
  /\ ProxyTypes
  /\ \A i \in Clients : RequestInv(served[i])
  /\ IsFiniteSet(Rendering) /\ Proxy!SlotsCounted

-------------------------------------------------------------------------------
(* A step of one client changes one request.                               *)

\* A request that neither takes nor leaves a slot.
LEMMA OneMoves ==
  ASSUME ProxyInv, NEW i \in Clients, NEW r \in Request,
         served' = [served EXCEPT ![i] = r], RequestInv(r),
         policy' \in Policies \cup {None}, UNCHANGED activeMocks,
         ~Proxy!At(i, "rendering"), r.step # "rendering"
  PROVE  ProxyInv'
<1> USE DEF ProxyInv
<1>1. /\ served' \in [Clients -> Request] /\ served'[i] = r
      /\ \A j \in Clients \ {i} : served'[j] = served[j]
  BY DEF ProxyTypes
<1>2. \A j \in Clients : RequestInv(served'[j])
  BY <1>1
<1>3. Rendering' = Rendering
  BY <1>1 DEF Rendering, Proxy!At
<1>4. Proxy!SlotsCounted'
  BY <1>3 DEF Proxy!SlotsCounted, Rendering
<1>5. (\A j \in Clients : RequestInv(served[j]))'
  BY <1>2 DEF RequestInv
<1> QED BY <1>1, <1>3, <1>4, <1>5 DEF ProxyTypes

LEMMA GoesKeeps ==
  ASSUME ProxyInv, NEW i \in Clients, NEW r \in Request, NEW step \in Texts, Proxy!Goes(i, r, step),
         Justified(r), step \in {"match", "revalidate"} => r.method = "GET",
         step = "revalidate" => r.responseOp # None,
         step \in {"fetch", "transform"} => Cleared(r),
         policy' \in Policies \cup {None}, UNCHANGED activeMocks,
         ~Proxy!At(i, "rendering"), step # "rendering"
  PROVE  ProxyInv'
<1> DEFINE q == [r EXCEPT !.step = step]
<1>1. q \in Request /\ q.step = step
  BY DEF Request
<1>2. RequestInv(q)
  BY <1>1 DEF RequestInv, Justified, Proxy!AllowedTo, Cleared, Request
<1>3. served' = [served EXCEPT ![i] = q]
  BY DEF Proxy!Goes
<1> HIDE DEF q
<1> QED BY <1>1, <1>2, <1>3, OneMoves

LEMMA OverIs ==
  ASSUME NEW r \in Request, Justified(r), NEW a \in Outcomes
  PROVE  LET q == [r EXCEPT !.step = "over", !.answer = a]
         IN  q \in Request /\ q.step = "over" /\ RequestInv(q)
<1> DEFINE q == [r EXCEPT !.step = "over", !.answer = a]
<1>1. q \in Request /\ q.step = "over"
  <2>1. "over" \in Texts
    BY DEF Texts
  <2> QED BY ZenonT(40), <2>1 DEF Request
<1>2. RequestInv(q)
  BY <1>1 DEF RequestInv, Justified, Proxy!AllowedTo, Request
<1> QED BY <1>1, <1>2

LEMMA EndsKeeps ==
  ASSUME ProxyInv, NEW i \in Clients, NEW status, Proxy!Ends(i, status),
         policy' \in Policies \cup {None}, UNCHANGED activeMocks, ~Proxy!At(i, "rendering")
  PROVE  ProxyInv'
<1> DEFINE answer == IF i \notin open THEN None ELSE IF status = 200 THEN "relayed" ELSE "refused"
           q      == [served[i] EXCEPT !.step = "over", !.answer = answer]
<1>1. served[i] \in Request /\ Justified(served[i])
  BY DEF ProxyInv, ProxyTypes, RequestInv
<1> HIDE DEF answer
<1>5. answer \in Outcomes
  BY DEF answer, Outcomes
<1>2. q \in Request /\ q.step = "over" /\ RequestInv(q)
  BY <1>1, <1>5, OverIs
<1>4. served' = [served EXCEPT ![i] = q]
  BY <1>1 DEF Proxy!Ends, ProxyInv, ProxyTypes, answer
<1> HIDE DEF q
<1> QED BY <1>2, <1>4, OneMoves

\* A rewritten answer: by an operation of the policy, which its project still has.
LEMMA RewritesKeeps ==
  ASSUME ProxyInv, NEW i \in Clients, NEW op \in Ops, Proxy!Rewrites(i, op.rule),
         served[i].policy # None, op \in served[i].policy.ops, op.kind = "response-body",
         op.rule \in served[i].policy.rules, Proxy!Accepts(op, served[i].url, served[i].method),
         policy' \in Policies \cup {None}, UNCHANGED activeMocks, ~Proxy!At(i, "rendering")
  PROVE  ProxyInv'
<1> DEFINE answer == IF i \in open THEN "relayed" ELSE None
           q      == [served[i] EXCEPT !.step = "over", !.shown = op.rule, !.answer = answer]
<1>1. served[i] \in Request /\ Justified(served[i])
  BY DEF ProxyInv, ProxyTypes, RequestInv
<1>2. q \in Request /\ q.step = "over" /\ q.shown = op.rule
  BY <1>1 DEF Request, Texts, Named, Outcomes
<1>3. RequestInv(q)
  BY <1>1, <1>2 DEF RequestInv, Justified, Proxy!AllowedTo, Request
<1>4. served' = [served EXCEPT ![i] = q]
  BY <1>1 DEF Proxy!Rewrites, ProxyInv, ProxyTypes
<1> HIDE DEF q
<1> QED BY <1>2, <1>3, <1>4, OneMoves

-------------------------------------------------------------------------------
(* The awaits.                                                             *)

LEMMA ProxyFacts ==
  ASSUME ProxyInv, NEW i \in Clients
  PROVE  /\ served[i] \in Request /\ Justified(served[i])
         /\ served[i].policy \in Policies \cup {None}
         /\ served[i].url \in ProxyUrls \cup {None}
BY DEF ProxyInv, ProxyTypes, RequestInv, Request

LEMMA FoundIs ==
  ASSUME Proxy!ProxyAssumption, NEW p \in Policies \cup {None}, NEW kind, NEW url, NEW method,
         NEW op \in Proxy!Found(p, kind, url, method)
  PROVE  /\ op \in Ops \cup {None}
         /\ op # None => p # None /\ op \in p.ops /\ op.kind = kind
<1>1. CASE p = None
  BY <1>1 DEF Proxy!Found
<1>2. CASE p # None
  <2> DEFINE all == {o \in p.ops : o.kind = kind /\ Proxy!Accepts(o, url, method)}
  <2>1. p \in Policies /\ all \in SUBSET p.ops
    BY <1>2
  <2>2. PICK seen \in SUBSET all : op = Proxy!Highest(seen)
    BY <1>2 DEF Proxy!Found
  <2>3. seen \in SUBSET p.ops
    BY <2>1, <2>2
  <2>4. CASE seen = {}
    BY <2>2, <2>4 DEF Proxy!Highest
  <2>5. CASE seen # {}
    <3>1. op \in seen
      BY <2>1, <2>2, <2>3, <2>5, HighestIsOne
    <3> QED BY <1>2, <2>1, <2>2, <3>1 DEF Ops
  <2> QED BY <2>4, <2>5
<1> QED BY <1>1, <1>2

LEMMA ChooseKeeps ==
  ASSUME Proxy!ProxyAssumption, ProxyInv, NEW i \in Clients,
         Proxy!ChooseRequestOp(i) \/ Proxy!ChooseResponseOp(i)
  PROVE  ProxyInv'
<1> DEFINE r == served[i]
<1>1. /\ r \in Request /\ Justified(r) /\ r.policy \in Policies \cup {None}
      /\ policy' \in Policies \cup {None} /\ UNCHANGED activeMocks
  BY ProxyFacts DEF Proxy!ChooseRequestOp, Proxy!ChooseResponseOp, Proxy!UnchangedRest, ProxyInv,
                    ProxyTypes
<1>2. CASE Proxy!ChooseRequestOp(i)
  <2>1. PICK op \in Proxy!Found(r.policy, "request-body", r.url, r.method) :
          Proxy!Goes(i, [r EXCEPT !.requestOp = op], "choose-response")
    BY <1>2 DEF Proxy!ChooseRequestOp, Proxy!PolicyOf
  <2>2. op \in Ops \cup {None} /\ (op # None => op.kind = "request-body")
    BY <1>1, <2>1, FoundIs
  <2> DEFINE q == [r EXCEPT !.requestOp = op]
  <2>3. q \in Request /\ Justified(q)
    BY <1>1, <2>2 DEF Request, Justified, Proxy!AllowedTo
  <2> HIDE DEF q
  <2>4. Proxy!Goes(i, q, "choose-response") /\ ~Proxy!At(i, "rendering")
    BY <1>2, <2>1 DEF q, Proxy!ChooseRequestOp, Proxy!At
  <2> QED BY <1>1, <2>3, <2>4, GoesKeeps DEF Texts
<1>3. CASE Proxy!ChooseResponseOp(i)
  <2>1. PICK op \in Proxy!Found(r.policy, "response-body", r.url, r.method) :
          Proxy!Goes(i, [r EXCEPT !.responseOp = op], "upload")
    BY <1>3 DEF Proxy!ChooseResponseOp, Proxy!PolicyOf
  <2>2. /\ op \in Ops \cup {None}
        /\ op # None => r.policy # None /\ op \in r.policy.ops /\ op.kind = "response-body"
    BY <1>1, <2>1, FoundIs
  <2> DEFINE q == [r EXCEPT !.responseOp = op]
  <2>3. q \in Request /\ Justified(q)
    BY <1>1, <2>2 DEF Request, Justified, Proxy!AllowedTo
  <2> HIDE DEF q
  <2>4. Proxy!Goes(i, q, "upload") /\ ~Proxy!At(i, "rendering")
    BY <1>3, <2>1 DEF q, Proxy!ChooseResponseOp, Proxy!At
  <2> QED BY <1>1, <2>3, <2>4, GoesKeeps DEF Texts
<1> QED BY <1>2, <1>3

LEMMA UploadKeeps ==
  ASSUME ProxyInv, NEW i \in Clients, Proxy!ReadUpload(i) \/ Proxy!Upstream(i)
  PROVE  ProxyInv'
<1>1. /\ served[i] \in Request /\ Justified(served[i])
      /\ policy' \in Policies \cup {None} /\ UNCHANGED activeMocks /\ ~Proxy!At(i, "rendering")
  BY ProxyFacts DEF Proxy!ReadUpload, Proxy!Upstream, Proxy!UnchangedRest, ProxyInv, ProxyTypes,
                    Proxy!At
<1>2. CASE Proxy!Goes(i, served[i], "rewrite-request")
      \/ Proxy!Goes(i, served[i], "rewrite-response")
  BY <1>1, <1>2, GoesKeeps DEF Texts
<1>3. CASE Proxy!Ends(i, 413) \/ Proxy!Ends(i, 502)
  BY <1>1, <1>3, EndsKeeps
<1> QED BY <1>2, <1>3 DEF Proxy!ReadUpload, Proxy!Upstream

LEMMA RewriteRequestKeeps ==
  ASSUME ProxyInv, NEW i \in Clients, Proxy!RewriteRequest(i)
  PROVE  ProxyInv'
<1> DEFINE r == served[i]
<1>1. /\ r \in Request /\ Justified(r) /\ r.policy \in Policies \cup {None}
      /\ policy' \in Policies \cup {None} /\ UNCHANGED activeMocks /\ ~Proxy!At(i, "rendering")
  BY ProxyFacts DEF Proxy!RewriteRequest, Proxy!UnchangedRest, ProxyInv, ProxyTypes, Proxy!At
<1>2. CASE Proxy!Goes(i, r, "resolve")
  BY <1>1, <1>2, GoesKeeps DEF Texts
<1>3. CASE /\ Proxy!AuthorizeOp(i, r.requestOp)
           /\ Proxy!Goes(i, [r EXCEPT !.sent = r.requestOp.rule], "resolve")
  <2> DEFINE op == r.requestOp
             q  == [r EXCEPT !.sent = op.rule]
  <2>1. /\ r.policy # None /\ op \in r.policy.ops /\ op.rule \in r.policy.rules
        /\ Proxy!Accepts(op, r.url, r.method) /\ op # None /\ op.kind = "request-body"
    BY <1>1, <1>3 DEF Proxy!AuthorizeOp, Proxy!Revalidated, Proxy!PolicyOf, Justified
  <2>2. op.rule \in Named
    BY <1>1, <2>1 DEF Named, Ops
  <2> HIDE DEF op
  <2>3. q \in Request /\ q.sent = op.rule
    BY <1>1, <2>2 DEF Request
  <2>5. Proxy!AllowedTo(q, "request-body", op.rule)
    BY <1>1, <2>1 DEF Proxy!AllowedTo, Request
  <2>6. Justified(q)
    BY <1>1, <2>3, <2>5 DEF Request, Justified, Proxy!AllowedTo
  <2>4. Proxy!Goes(i, q, "resolve")
    BY <1>3 DEF op
  <2> HIDE DEF q
  <2> QED BY <1>1, <2>3, <2>4, <2>6, GoesKeeps DEF Texts
<1> QED BY <1>2, <1>3 DEF Proxy!RewriteRequest

\* A private address is dialled for an origin that is allowed one.
LEMMA PinnedIs ==
  ASSUME Proxy!ProxyAssumption, NEW answer \in Proxy!Answers, NEW allow \in BOOLEAN,
         Proxy!Pinned(answer, allow) # None
  PROVE  /\ Proxy!Pinned(answer, allow) \in Public \cup Private
         /\ Proxy!Pinned(answer, allow) \in Private => allow
<1>1. answer # {} /\ Proxy!Pinned(answer, allow) = Proxy!Lowest(answer)
      /\ (answer \subseteq Public \/ (allow /\ answer \subseteq Private))
  BY DEF Proxy!Pinned
<1>2. answer \in SUBSET Nat
  BY DEF Proxy!Answers, Proxy!ProxyAssumption
<1>3. Proxy!Lowest(answer) \in answer
  BY <1>1, <1>2, LowestIsOne
<1> QED BY <1>1, <1>3 DEF Proxy!ProxyAssumption

LEMMA ResolveKeeps ==
  ASSUME Proxy!ProxyAssumption, ProxyInv, NEW i \in Clients, Proxy!Resolve(i)
  PROVE  ProxyInv'
<1> DEFINE r == served[i]
<1>1. /\ r \in Request /\ Justified(r) /\ r.kind = "http"
      /\ policy' \in Policies \cup {None} /\ UNCHANGED activeMocks /\ ~Proxy!At(i, "rendering")
  BY ProxyFacts DEF Proxy!Resolve, Proxy!UnchangedRest, ProxyInv, ProxyTypes, Proxy!At
<1>2. CASE Proxy!Ends(i, 403)
  BY <1>1, <1>2, EndsKeeps
<1>3. CASE \E answer \in Proxy!Answers :
             LET address == Proxy!Pinned(answer, r.url.origin \in Proxy!Local(Proxy!PolicyOf(i)))
             IN  address # None /\ Proxy!Goes(i, [r EXCEPT !.dialled = address], "upstream")
  <2> DEFINE allow == r.url.origin \in Proxy!Local(r.policy)
  <2>1. PICK answer \in Proxy!Answers :
           /\ Proxy!Pinned(answer, allow) # None
           /\ Proxy!Goes(i, [r EXCEPT !.dialled =
               Proxy!Pinned(answer, allow)], "upstream")
    BY <1>3 DEF Proxy!PolicyOf
  <2> DEFINE address == Proxy!Pinned(answer, allow)
  <2>2. allow \in BOOLEAN
    OBVIOUS
  <2> HIDE DEF allow
  <2>3. address \in Public \cup Private /\ (address \in Private => allow)
    BY <2>1, <2>2, PinnedIs
  <2> DEFINE q == [r EXCEPT !.dialled = address]
  <2> HIDE DEF address
  <2>4. q \in Request
    BY <1>1, <2>3 DEF Request
  <2>5. Justified(q)
    BY <1>1, <2>3 DEF Request, Justified, Proxy!AllowedTo, allow
  <2>6. Proxy!Goes(i, q, "upstream")
    BY <2>1 DEF address
  <2> HIDE DEF q
  <2> QED BY <1>1, <2>4, <2>5, <2>6, GoesKeeps DEF Texts
<1> QED BY <1>2, <1>3 DEF Proxy!Resolve

LEMMA RewriteResponseKeeps ==
  ASSUME ProxyInv, NEW i \in Clients, Proxy!RewriteResponse(i)
  PROVE  ProxyInv'
<1> DEFINE op == served[i].responseOp
<1>1. /\ served[i] \in Request /\ Justified(served[i])
      /\ policy' \in Policies \cup {None} /\ UNCHANGED activeMocks /\ ~Proxy!At(i, "rendering")
  BY ProxyFacts DEF Proxy!RewriteResponse, Proxy!UnchangedRest, ProxyInv, ProxyTypes, Proxy!At
<1>2. CASE Proxy!Ends(i, 200)
  BY <1>1, <1>2, EndsKeeps
<1>3. CASE Proxy!AuthorizeOp(i, op) /\ Proxy!Rewrites(i, op.rule)
  <2>1. /\ op # None /\ served[i].policy # None /\ op \in served[i].policy.ops
        /\ op.rule \in served[i].policy.rules
        /\ Proxy!Accepts(op, served[i].url, served[i].method)
    BY <1>3 DEF Proxy!AuthorizeOp, Proxy!Revalidated, Proxy!PolicyOf
  <2>2. op.kind = "response-body" /\ op \in Ops
    BY <1>1, <2>1 DEF Justified, Request
  <2> QED BY <1>1, <1>3, <2>1, <2>2, RewritesKeeps
<1> QED BY <1>2, <1>3 DEF Proxy!RewriteResponse

-------------------------------------------------------------------------------
(* Redirects.                                                              *)

LEMMA IdleIs ==
  /\ Proxy!Idle.url = None /\ Proxy!Idle.sent = None /\ Proxy!Idle.shown = None
  /\ Proxy!Idle.responseOp = None /\ Proxy!Idle.requestOp = None
  /\ Proxy!Idle \in Request /\ Proxy!Idle.step = "idle"
BY DEF Proxy!Idle, Request, Texts, Outcomes

\* A request that has just come.
LEMMA NewIs ==
  ASSUME Proxy!ProxyAssumption, NEW kind \in {"http", "mock", "body", "connect"},
         NEW url \in ProxyUrls \cup {None}, NEW method \in Methods \cup {"GET", None},
         NEW p \in Policies \cup {None},
         NEW op \in Ops \cup {None}, op # None =>
           p # None /\ op \in p.ops /\ op.kind = "response-body"
  PROVE  LET q == [Proxy!Idle EXCEPT !.kind = kind, !.url = url, !.method = method, !.policy = p,
                               !.responseOp = op]
         IN  q \in Request /\ Justified(q)
<1> DEFINE q == [Proxy!Idle EXCEPT !.kind = kind, !.url = url, !.method = method, !.policy = p,
                             !.responseOp = op]
<1>1. q \in Request
  BY DEF Proxy!Idle, Request, Texts, Outcomes
<1>2. /\ q.responseOp = op /\ q.policy = p /\ q.sent = None /\ q.shown = None /\ q.dialled = None
      /\ q.requestOp = None
  BY DEF Proxy!Idle
<1>3. None \notin Private
  BY DEF Proxy!ProxyAssumption
<1> HIDE DEF q
<1>4. Justified(q)
  BY <1>2, <1>3 DEF Justified
<1> QED BY <1>1, <1>4 DEF q

LEMMA ArrivesKeeps ==
  ASSUME Proxy!ProxyAssumption, ProxyInv, NEW i \in Clients,
         \/ \E url \in ProxyUrls, method \in Methods : Proxy!HttpArrives(i, url, method)
         \/ Proxy!OddFormArrives(i)
         \/ \E url \in ProxyUrls, rule \in Rules, digest \in Digests, held \in BOOLEAN :
               Proxy!BodyArrives(i, url, rule, digest, held)
         \/ \E url \in ProxyUrls : Proxy!ConnectArrives(i, url)
  PROVE  ProxyInv'
<1>1. /\ policy' \in Policies \cup {None} /\ UNCHANGED activeMocks /\ ~Proxy!At(i, "rendering")
      /\ policy \in Policies \cup {None}
  BY ZenonT(60)
     DEF Proxy!HttpArrives, Proxy!OddFormArrives, Proxy!BodyArrives, Proxy!ConnectArrives,
         Proxy!UnchangedRest, ProxyInv, ProxyTypes, Proxy!At
<1>2. ASSUME NEW status, Proxy!Ends(i, status) PROVE ProxyInv'
  BY <1>1, <1>2, EndsKeeps
<1>3. ASSUME NEW url \in ProxyUrls, NEW method \in Methods, Proxy!HttpArrives(i, url, method)
      PROVE ProxyInv'
  <2> DEFINE q == [Proxy!Idle EXCEPT !.kind = "http", !.url = url, !.method = method,
                    !.policy = policy]
  <2>1. q \in Request /\ Justified(q)
    <3>1. q \in Request
      BY <1>1 DEF Proxy!Idle, Request, Texts, Outcomes
    <3>2. /\ q.responseOp = None /\ q.requestOp = None
          /\ q.sent = None /\ q.shown = None /\ q.dialled = None
      BY DEF Proxy!Idle
    <3> HIDE DEF q
    <3>3. None \notin Private
      BY DEF Proxy!ProxyAssumption
    <3> QED BY <3>1, <3>2, <3>3 DEF Justified
  <2>2. Proxy!Goes(i, q, "choose-request")
    BY <1>3 DEF Proxy!HttpArrives
  <2> HIDE DEF q
  <2> QED BY <1>1, <2>1, <2>2, GoesKeeps DEF Texts
<1>4. ASSUME NEW url \in ProxyUrls, NEW rule \in Rules, NEW digest \in Digests,
             NEW held \in BOOLEAN,
             Proxy!BodyArrives(i, url, rule, digest, held)
      PROVE  ProxyInv'
  <2> DEFINE ops == {op \in policy.ops : op.kind = "response-body" /\ op.rule = rule}
             op  == IF ops = {} THEN None ELSE CHOOSE o \in ops : TRUE
             q   == [Proxy!Idle EXCEPT !.kind = "body", !.url = url, !.method = "GET",
                               !.policy = policy,
                                 !.responseOp = op]
  <2>1. Proxy!Ends(i, 403) \/ (policy # None /\ Proxy!Goes(i, q, "match"))
    BY <1>4 DEF Proxy!BodyArrives
  <2>2. ASSUME policy # None, Proxy!Goes(i, q, "match") PROVE ProxyInv'
    <3>1. op # None => op \in policy.ops /\ op.kind = "response-body"
      OBVIOUS
    <3>2. op \in Ops \cup {None}
      BY <1>1, <2>2, <3>1 DEF Ops
    <3> HIDE DEF op
    <3>3. q \in Request /\ Justified(q)
      BY <1>1, <2>2, <3>1, <3>2, NewIs
    <3>4. q.method = "GET"
      BY DEF Proxy!Idle
    <3> HIDE DEF q
    <3> QED BY <1>1, <2>2, <3>3, <3>4, GoesKeeps DEF Texts
  <2> QED BY <1>2, <2>1, <2>2
<1>5. ASSUME NEW url \in ProxyUrls, Proxy!ConnectArrives(i, url) PROVE ProxyInv'
  <2> DEFINE q == [Proxy!Idle EXCEPT !.kind = "connect", !.url = url, !.policy = policy]
  <2>1. q \in Request /\ Justified(q)
    <3>1. q \in Request
      BY <1>1 DEF Proxy!Idle, Request, Texts, Outcomes
    <3>2. /\ q.responseOp = None /\ q.requestOp = None
          /\ q.sent = None /\ q.shown = None /\ q.dialled = None
      BY DEF Proxy!Idle
    <3> HIDE DEF q
    <3>3. None \notin Private
      BY DEF Proxy!ProxyAssumption
    <3> QED BY <3>1, <3>2, <3>3 DEF Justified
  <2>2. Proxy!Ends(i, 403) \/ Proxy!Goes(i, q, "resolve")
    BY <1>5 DEF Proxy!ConnectArrives, Proxy!EndsConnect
  <2> HIDE DEF q
  <2> QED BY <1>1, <1>2, <2>1, <2>2, GoesKeeps DEF Texts
<1>6. Proxy!OddFormArrives(i) => \E status : Proxy!Ends(i, status)
  BY DEF Proxy!OddFormArrives
<1> QED BY <1>2, <1>3, <1>4, <1>5, <1>6

LEMMA MatchBodyKeeps ==
  ASSUME ProxyInv, NEW i \in Clients, Proxy!MatchBody(i) \/ Proxy!RevalidateBody(i)
  PROVE  ProxyInv'
<1> DEFINE r == served[i]
<1>1. /\ r \in Request /\ Justified(r)
      /\ policy' \in Policies \cup {None} /\ UNCHANGED activeMocks /\ ~Proxy!At(i, "rendering")
  BY ProxyFacts DEF Proxy!MatchBody, Proxy!RevalidateBody, Proxy!UnchangedRest, ProxyInv,
                    ProxyTypes, Proxy!At
<1>2. ASSUME NEW status, Proxy!Ends(i, status) PROVE ProxyInv'
  BY <1>1, <1>2, EndsKeeps
<1>5. r.method = "GET"
  BY DEF Proxy!MatchBody, Proxy!RevalidateBody, Proxy!At, ProxyInv, RequestInv
<1>3. CASE r.responseOp # None /\ Proxy!Goes(i, r, "revalidate")
  BY <1>1, <1>3, <1>5, GoesKeeps DEF Texts
<1>4. CASE /\ Proxy!RevalidateBody(i) /\ Proxy!Goes(i, r, "fetch")
           /\ Proxy!Revalidated(Proxy!PolicyOf(i), r.responseOp, r.url, "GET")
  <2>1. r.responseOp # None
    BY <1>4 DEF Proxy!RevalidateBody, Proxy!At, ProxyInv, RequestInv
  <2>2. Cleared(r)
    BY <1>4, <1>5, <2>1 DEF Cleared, Proxy!PolicyOf
  <2> QED BY <1>1, <1>4, <2>2, GoesKeeps DEF Texts
<1> QED BY <1>2, <1>3, <1>4 DEF Proxy!MatchBody, Proxy!RevalidateBody

LEMMA FetchBodyKeeps ==
  ASSUME Proxy!ProxyAssumption, ProxyInv, NEW i \in Clients, Proxy!FetchBody(i)
  PROVE  ProxyInv'
<1> DEFINE r == served[i]
<1>1. /\ r \in Request /\ Justified(r) /\ Cleared(r)
      /\ policy' \in Policies \cup {None} /\ UNCHANGED activeMocks /\ ~Proxy!At(i, "rendering")
  BY ProxyFacts DEF Proxy!FetchBody, Proxy!UnchangedRest, ProxyInv, ProxyTypes, Proxy!At, RequestInv
<1>2. CASE Proxy!Ends(i, 502)
  BY <1>1, <1>2, EndsKeeps
<1>3. CASE \E answer \in Proxy!Answers :
             Proxy!Pinned(answer, FALSE) # None /\
             Proxy!Goes(i, [r EXCEPT !.dialled = Proxy!Pinned(answer, FALSE)], "transform")
  <2>1. PICK answer \in Proxy!Answers :
           /\ Proxy!Pinned(answer, FALSE) # None
           /\ Proxy!Goes(i, [r EXCEPT !.dialled =
               Proxy!Pinned(answer, FALSE)], "transform")
    BY <1>3
  <2> DEFINE address == Proxy!Pinned(answer, FALSE)
  <2>2. address \in Public \cup Private /\ address \notin Private
    BY <2>1, PinnedIs
  <2> DEFINE q == [r EXCEPT !.dialled = address]
  <2> HIDE DEF address
  <2>3. q \in Request /\ q.dialled = address
    BY <1>1, <2>2 DEF Request
  <2>4. Justified(q) /\ Cleared(q)
    BY <1>1, <2>2 DEF Request, Justified, Proxy!AllowedTo, Cleared
  <2>5. Proxy!Goes(i, q, "transform")
    BY <2>1 DEF address
  <2> HIDE DEF q
  <2> QED BY <1>1, <2>3, <2>4, <2>5, GoesKeeps DEF Texts
<1> QED BY <1>2, <1>3 DEF Proxy!FetchBody

LEMMA TransformBodyKeeps ==
  ASSUME ProxyInv, NEW i \in Clients, Proxy!TransformBody(i)
  PROVE  ProxyInv'
<1> DEFINE op == served[i].responseOp
<1>1. /\ served[i] \in Request /\ Justified(served[i]) /\ Cleared(served[i])
      /\ policy' \in Policies \cup {None} /\ UNCHANGED activeMocks /\ ~Proxy!At(i, "rendering")
  BY ProxyFacts DEF Proxy!TransformBody, Proxy!UnchangedRest, ProxyInv, ProxyTypes, Proxy!At,
                    RequestInv
<1>2. CASE Proxy!Ends(i, 502)
  BY <1>1, <1>2, EndsKeeps
<1>3. CASE Proxy!Rewrites(i, op.rule)
  <2>1. /\ op # None /\ served[i].policy # None /\ op \in served[i].policy.ops
        /\ op.rule \in served[i].policy.rules
        /\ Proxy!Accepts(op, served[i].url, served[i].method)
    BY <1>1 DEF Cleared, Proxy!Revalidated
  <2>2. op.kind = "response-body" /\ op \in Ops
    BY <1>1, <2>1 DEF Justified, Request
  <2> QED BY <1>1, <1>3, <2>1, <2>2, RewritesKeeps
<1> QED BY <1>2, <1>3 DEF Proxy!TransformBody

-------------------------------------------------------------------------------
(* CONNECT.                                                                *)

LEMMA DialTunnelKeeps ==
  ASSUME Proxy!ProxyAssumption, ProxyInv, NEW i \in Clients, Proxy!DialTunnel(i)
  PROVE  ProxyInv'
<1> DEFINE r     == served[i]
           allow == r.url.origin \in Proxy!Local(r.policy)
<1>1. /\ r \in Request /\ Justified(r) /\ r.kind = "connect"
      /\ policy' \in Policies \cup {None} /\ UNCHANGED activeMocks /\ ~Proxy!At(i, "rendering")
  BY ProxyFacts DEF Proxy!DialTunnel, ProxyInv, ProxyTypes, Proxy!At
<1>2. CASE Proxy!Ends(i, 403)
  BY <1>1, <1>2, EndsKeeps
<1>3. CASE \E answer \in Proxy!Answers :
             Proxy!Pinned(answer, allow) # None /\
             Proxy!Goes(i, [r EXCEPT !.dialled = Proxy!Pinned(answer, allow)], "dialling")
  <2>1. PICK answer \in Proxy!Answers :
           /\ Proxy!Pinned(answer, allow) # None
           /\ Proxy!Goes(i, [r EXCEPT !.dialled =
               Proxy!Pinned(answer, allow)], "dialling")
    BY <1>3
  <2> DEFINE address == Proxy!Pinned(answer, allow)
  <2>2. allow \in BOOLEAN
    OBVIOUS
  <2> HIDE DEF allow
  <2>3. address \in Public \cup Private /\ (address \in Private => allow)
    BY <2>1, <2>2, PinnedIs
  <2> DEFINE q == [r EXCEPT !.dialled = address]
  <2> HIDE DEF address
  <2>4. q \in Request
    BY <1>1, <2>3 DEF Request
  <2>5. Justified(q)
    BY <1>1, <2>3 DEF Request, Justified, Proxy!AllowedTo, allow
  <2>6. Proxy!Goes(i, q, "dialling")
    BY <2>1 DEF address
  <2> HIDE DEF q
  <2> QED BY <1>1, <2>4, <2>5, <2>6, GoesKeeps DEF Texts
<1> QED BY <1>2, <1>3 DEF Proxy!DialTunnel, Proxy!EndsConnect

LEMMA TunnelKeeps ==
  ASSUME ProxyInv, NEW i \in Clients, Proxy!TunnelDialled(i) \/ Proxy!TunnelCloses(i)
  PROVE  ProxyInv'
<1> DEFINE r == served[i]
<1>1. /\ r \in Request /\ Justified(r)
      /\ policy' \in Policies \cup {None} /\ UNCHANGED activeMocks /\ ~Proxy!At(i, "rendering")
  BY ProxyFacts DEF Proxy!TunnelDialled, Proxy!TunnelCloses, ProxyInv, ProxyTypes, Proxy!At
<1>2. CASE Proxy!TunnelDialled(i)
  <2> DEFINE q == [r EXCEPT !.answer = "relayed"]
             step == IF i \in open THEN "tunnel" ELSE "over"
  <2>1. q \in Request /\ Justified(q)
    BY <1>1 DEF Request, Outcomes, Justified, Proxy!AllowedTo
  <2>2. Proxy!Goes(i, q, step) \/ Proxy!Ends(i, 502)
    BY <1>2 DEF Proxy!TunnelDialled, Proxy!EndsConnect
  <2> HIDE DEF q
  <2>3. step \in Texts /\ step \notin {"rendering", "match", "revalidate", "fetch", "transform"}
    BY DEF Texts
  <2> HIDE DEF step
  <2>4. Proxy!Goes(i, q, step) => ProxyInv'
    BY <1>1, <2>1, <2>3, GoesKeeps
  <2> QED BY <1>1, <2>2, <2>4, EndsKeeps
<1>3. CASE Proxy!TunnelCloses(i)
  <2>1. served' = [served EXCEPT ![i].step = "over"]
    BY <1>3 DEF Proxy!TunnelCloses
  <2>2. Proxy!Goes(i, r, "over")
    BY <1>1, <2>1 DEF Proxy!Goes, ProxyInv, ProxyTypes
  <2> QED BY <1>1, <2>2, GoesKeeps DEF Texts
<1> QED BY <1>2, <1>3

-------------------------------------------------------------------------------
(* Slots.                                                                  *)

\* The proxy counts its renderings with the operator the library's theorems are about.
LEMMA CountsAlike ==
  ASSUME NEW S
  PROVE  Proxy!Cardinality(S) = Cardinality(S)
BY DEF Proxy!Cardinality, Cardinality

LEMMA MockArrivesKeeps ==
  ASSUME Proxy!ProxyAssumption, ProxyInv, NEW i \in Clients, NEW digest,
         Proxy!MockArrives(i, digest)
  PROVE  ProxyInv'
<1> USE DEF ProxyInv
<1>1. policy' = policy /\ policy \in Policies \cup {None} /\ ~Proxy!At(i, "rendering")
      /\ served \in [Clients -> Request]
  BY DEF Proxy!MockArrives, ProxyTypes, Proxy!At
<1>2. ASSUME NEW status, Proxy!Ends(i, status), UNCHANGED activeMocks PROVE ProxyInv'
  BY <1>1, <1>2, EndsKeeps
<1> DEFINE q == [[Proxy!Idle EXCEPT !.kind = "mock", !.policy = policy] EXCEPT !.step = "rendering"]
<1>3. CASE /\ activeMocks < MaxMocks /\ activeMocks' = activeMocks + 1
           /\ served' = [served EXCEPT ![i] = q]
  <2>1. q \in Request /\ q.step = "rendering"
    BY <1>1 DEF Proxy!Idle, Request, Texts, Outcomes
  <2>2. /\ q.responseOp = None /\ q.requestOp = None
        /\ q.sent = None /\ q.shown = None /\ q.dialled = None
    BY DEF Proxy!Idle
  <2> HIDE DEF q
  <2>3. None \notin Private
    BY DEF Proxy!ProxyAssumption
  <2>4. RequestInv(q)
    BY <2>1, <2>2, <2>3 DEF RequestInv, Justified
  <2>5. /\ served' \in [Clients -> Request] /\ served'[i] = q
        /\ \A j \in Clients \ {i} : served'[j] = served[j]
    BY <1>1, <1>3, <2>1
  <2>6. (\A j \in Clients : RequestInv(served[j]))'
    <3>1. \A j \in Clients : RequestInv(served'[j])
      BY <2>4, <2>5
    <3> QED BY <3>1 DEF RequestInv
  <2>7. Rendering' = Rendering \cup {i} /\ i \notin Rendering
    BY <1>1, <2>1, <2>5 DEF Rendering, Proxy!At
  <2>8. IsFiniteSet(Rendering') /\ Cardinality(Rendering') = Cardinality(Rendering) + 1
    BY <2>7, FS_AddElement
  <2>9. Proxy!SlotsCounted'
    <3>1. activeMocks = Cardinality(Rendering) /\ Cardinality(Rendering) \in Nat /\ MaxMocks \in Nat
      BY CountsAlike, FS_CardinalityType DEF Proxy!SlotsCounted, Rendering, Proxy!ProxyAssumption
    <3>2. activeMocks' = Cardinality(Rendering') /\ activeMocks' <= MaxMocks
      BY <1>3, <2>8, <3>1
    <3> QED BY <3>2, CountsAlike DEF Proxy!SlotsCounted, Rendering
  <2> QED BY <1>1, <2>5, <2>6, <2>8, <2>9 DEF ProxyTypes
<1>4. \/ (Proxy!Ends(i, 403) \/ Proxy!Ends(i, 429)) /\ UNCHANGED activeMocks
      \/ /\ ~ (activeMocks >= MaxMocks) /\ activeMocks' = activeMocks + 1
         /\ served' = [served EXCEPT ![i] = q]
  BY DEF Proxy!MockArrives, Proxy!Goes
<1>5. ~ (activeMocks >= MaxMocks) => activeMocks < MaxMocks
  <2>1. activeMocks \in Nat /\ MaxMocks \in Nat
    BY CountsAlike, FS_CardinalityType DEF Proxy!SlotsCounted, Rendering, Proxy!ProxyAssumption
  <2> QED BY <2>1
<1> HIDE DEF q
<1> QED BY <1>2, <1>3, <1>4, <1>5

\* The slot is given back whether the rendering was aborted, failed or not.
LEMMA MockRenderedKeeps ==
  ASSUME Proxy!ProxyAssumption, ProxyInv, NEW i \in Clients, Proxy!MockRendered(i)
  PROVE  ProxyInv'
<1> USE DEF ProxyInv
<1>1. /\ policy' = policy /\ policy \in Policies \cup {None} /\ Proxy!At(i, "rendering")
      /\ served \in [Clients -> Request] /\ activeMocks' = activeMocks - 1
      /\ served[i] \in Request /\ Justified(served[i])
  BY ProxyFacts DEF Proxy!MockRendered, ProxyTypes, Proxy!Released
<1>2. \E q \in Request : q.step = "over" /\ RequestInv(q) /\ served' = [served EXCEPT ![i] = q]
  <2> DEFINE answer == IF i \notin open THEN None ELSE "relayed"
             over(a) == [served[i] EXCEPT !.step = "over", !.answer = a]
  <2>1. ASSUME NEW a \in Outcomes
        PROVE  over(a) \in Request /\ over(a).step = "over" /\ RequestInv(over(a))
    BY <1>1, OverIs
  <2>2. ASSUME NEW status, Proxy!Ends(i, status)
        PROVE  \E a \in Outcomes : served' = [served EXCEPT ![i] = over(a)]
    <3> DEFINE a == IF i \notin open THEN None ELSE IF status = 200 THEN "relayed" ELSE "refused"
    <3>1. a \in Outcomes
      BY DEF Outcomes
    <3>2. served' = [served EXCEPT ![i] = over(a)]
      BY <1>1, <2>2 DEF Proxy!Ends
    <3> QED BY <3>1, <3>2
  <2>3. ASSUME served' = [served EXCEPT ![i].step = "over"]
        PROVE  \E q \in Request :
                  q.step = "over" /\ RequestInv(q) /\ served' = [served EXCEPT ![i] = q]
    <3> DEFINE q == [served[i] EXCEPT !.step = "over"]
    <3>1. q \in Request /\ q.step = "over"
      BY <1>1 DEF Request, Texts
    <3>2. RequestInv(q)
      BY <1>1, <3>1 DEF RequestInv, Justified, Proxy!AllowedTo, Request
    <3> QED BY <1>1, <2>3, <3>1, <3>2
  <2> HIDE DEF over
  <2> QED BY <2>1, <2>2, <2>3 DEF Proxy!MockRendered
<1>3. PICK q \in Request : q.step = "over" /\ RequestInv(q) /\ served' = [served EXCEPT ![i] = q]
  BY <1>2
<1>4. /\ served' \in [Clients -> Request] /\ served'[i] = q
      /\ \A j \in Clients \ {i} : served'[j] = served[j]
  BY <1>1, <1>3
<1>5. (\A j \in Clients : RequestInv(served[j]))'
  <2>1. \A j \in Clients : RequestInv(served'[j])
    BY <1>3, <1>4
  <2> QED BY <2>1 DEF RequestInv
<1>6. Rendering' = Rendering \ {i} /\ i \in Rendering
  BY <1>1, <1>3, <1>4 DEF Rendering, Proxy!At
<1>7. IsFiniteSet(Rendering') /\ Cardinality(Rendering') = Cardinality(Rendering) - 1
  BY <1>6, FS_RemoveElement
<1>8. Proxy!SlotsCounted'
  <2>1. activeMocks = Cardinality(Rendering) /\ Cardinality(Rendering) \in Nat /\ MaxMocks \in Nat
        /\ activeMocks <= MaxMocks
    BY CountsAlike, FS_CardinalityType DEF Proxy!SlotsCounted, Rendering, Proxy!ProxyAssumption
  <2>2. activeMocks' = Cardinality(Rendering') /\ activeMocks' <= MaxMocks
    BY <1>1, <1>7, <2>1
  <2> QED BY <2>2, CountsAlike DEF Proxy!SlotsCounted, Rendering
<1> QED BY <1>1, <1>4, <1>5, <1>7, <1>8 DEF ProxyTypes

-------------------------------------------------------------------------------
(* Clients, policies and stop.                                             *)

\* What leaves the requests as they are.
LEMMA ProxyStays ==
  ASSUME ProxyInv, policy' \in Policies \cup {None}, UNCHANGED <<served, activeMocks>>
  PROVE  ProxyInv'
<1>1. ProxyTypes' /\ Rendering' = Rendering
  BY DEF ProxyInv, ProxyTypes, Rendering, Proxy!At
<1>2. Proxy!SlotsCounted'
  BY <1>1 DEF ProxyInv, Proxy!SlotsCounted, Rendering
<1>3. (\A i \in Clients : RequestInv(served[i]))'
  BY DEF ProxyInv, RequestInv
<1> QED BY <1>1, <1>2, <1>3 DEF ProxyInv

LEMMA LeavesKeeps ==
  ASSUME Proxy!ProxyAssumption, ProxyInv, NEW i \in Clients, Proxy!Leaves(i) \/ Proxy!Returns(i)
  PROVE  ProxyInv'
<1>1. /\ served[i] \in Request /\ Justified(served[i]) /\ served \in [Clients -> Request]
      /\ policy' \in Policies \cup {None} /\ UNCHANGED activeMocks
  BY ProxyFacts DEF Proxy!Leaves, Proxy!Returns, ProxyInv, ProxyTypes
<1>2. CASE UNCHANGED served
  BY <1>1, <1>2, ProxyStays
<1>3. CASE Proxy!At(i, "tunnel") /\ served' = [served EXCEPT ![i].step = "over"]
  <2>1. Proxy!Goes(i, served[i], "over") /\ ~Proxy!At(i, "rendering")
    BY <1>1, <1>3 DEF Proxy!Goes, Proxy!At
  <2> QED BY <1>1, <2>1, GoesKeeps DEF Texts
<1>4. CASE Proxy!Returns(i)
  <2>1. RequestInv(Proxy!Idle) /\ Proxy!Idle \in Request /\ Proxy!Idle.step # "rendering"
    <3>1. Proxy!Idle.dialled = None /\ None \notin Private
      BY DEF Proxy!Idle, Proxy!ProxyAssumption
    <3> QED BY <3>1, IdleIs DEF RequestInv, Justified
  <2>2. served' = [served EXCEPT ![i] = Proxy!Idle] /\ ~Proxy!At(i, "rendering")
    BY <1>4 DEF Proxy!Returns, Proxy!At
  <2> QED BY <1>1, <2>1, <2>2, OneMoves
<1> QED BY <1>2, <1>3, <1>4 DEF Proxy!Leaves

-------------------------------------------------------------------------------
(* The theorem.                                                            *)

LEMMA ProxyStarts ==
  ASSUME Proxy!ProxyAssumption, Proxy!Init
  PROVE  ProxyInv
<1>1. ProxyTypes
  BY IdleIs DEF Proxy!Init, ProxyTypes
<1>2. \A i \in Clients : RequestInv(served[i])
  <2>1. Proxy!Idle.dialled = None /\ None \notin Private
    BY DEF Proxy!Idle, Proxy!ProxyAssumption
  <2>2. RequestInv(Proxy!Idle)
    BY <2>1, IdleIs DEF RequestInv, Justified
  <2> QED BY <2>2 DEF Proxy!Init
<1>3. Rendering = {}
  BY IdleIs DEF Proxy!Init, Rendering, Proxy!At
<1>4. IsFiniteSet(Rendering) /\ Cardinality(Rendering) = 0
  BY <1>3, FS_EmptySet
<1>5. Proxy!SlotsCounted
  <2>1. activeMocks = Cardinality(Rendering) /\ activeMocks <= MaxMocks
    BY <1>4 DEF Proxy!Init, Proxy!ProxyAssumption
  <2> QED BY <2>1, CountsAlike DEF Proxy!SlotsCounted, Rendering
<1> QED BY <1>1, <1>2, <1>4, <1>5 DEF ProxyInv

LEMMA ProxyStep ==
  ASSUME Proxy!ProxyAssumption, ProxyInv, [Proxy!Next]_(Proxy!vars)
  PROVE  ProxyInv'
<1>1. ASSUME NEW i \in Clients, Proxy!Arrives(i) PROVE ProxyInv'
  BY <1>1, ArrivesKeeps, MockArrivesKeeps DEF Proxy!Arrives
<1>2. ASSUME NEW i \in Clients, Proxy!Handles(i) PROVE ProxyInv'
  <2>1. CASE Proxy!ChooseRequestOp(i) \/ Proxy!ChooseResponseOp(i) \/ Proxy!ReadUpload(i)
        \/ Proxy!RewriteRequest(i)
    BY <2>1, ChooseKeeps, UploadKeeps, RewriteRequestKeeps
  <2>2. CASE Proxy!Resolve(i) \/ Proxy!Upstream(i) \/ Proxy!RewriteResponse(i)
        \/ Proxy!MockRendered(i)
    BY <2>2, ResolveKeeps, UploadKeeps, RewriteResponseKeeps, MockRenderedKeeps
  <2>3. CASE Proxy!MatchBody(i) \/ Proxy!RevalidateBody(i) \/ Proxy!FetchBody(i)
        \/ Proxy!TransformBody(i)
    BY <2>3, MatchBodyKeeps, FetchBodyKeeps, TransformBodyKeeps
  <2>4. CASE Proxy!DialTunnel(i) \/ Proxy!TunnelDialled(i)
    BY <2>4, DialTunnelKeeps, TunnelKeeps
  <2> QED BY <1>2, <2>1, <2>2, <2>3, <2>4 DEF Proxy!Handles
<1>3. ASSUME NEW i \in Clients, Proxy!TunnelCloses(i) \/ Proxy!Leaves(i) \/ Proxy!Returns(i)
      PROVE ProxyInv'
  BY <1>3, TunnelKeeps, LeavesKeeps
<1>4. ASSUME NEW p \in Policies \cup {None}, Proxy!SetPolicy(p) PROVE ProxyInv'
  BY <1>4, ProxyStays DEF Proxy!SetPolicy
<1>5. CASE Proxy!Stop \/ Proxy!StopEnds \/ UNCHANGED Proxy!vars
  <2>1. UNCHANGED <<policy, served, activeMocks>>
    BY <1>5 DEF Proxy!Stop, Proxy!StopEnds, Proxy!vars
  <2>2. policy' \in Policies \cup {None}
    BY <2>1 DEF ProxyInv, ProxyTypes
  <2> QED BY <2>1, <2>2, ProxyStays
<1> QED BY <1>1, <1>2, <1>3, <1>4, <1>5 DEF Proxy!Next

-------------------------------------------------------------------------------
(* The controller.                                                           *)

\* A session is there only if the pairing was used, what was authorized has a
\* matcher of the preset behind it, and the preset was normalized.
SessionsPaired ==
  /\ pairing \in [consumed : BOOLEAN, closed : BOOLEAN, until : Int]
  /\ sessions \subseteq [token : Tokens, until : Int]
  /\ sessions # {} => pairing.consumed
  /\ \A s, t \in sessions : s = t
  /\ state = "idle" => sessions = {}

Admitted ==
  /\ state = "idle" => authorized = None
  /\ state = "running" =>
       \A n \in DOMAIN preset.grants : Controller!GrantHolds(preset, preset.grants[n])
  /\ authorized # None =>
       /\ authorized.by > 0
       /\ \E n \in DOMAIN preset.matchers :
            /\ preset.matchers[n].rule = authorized.what.rule
            /\ preset.matchers[n].group = authorized.what.group
            /\ preset.matchers[n].method \in {None, authorized.what.method}

ControllerInv ==
  /\ now \in Int /\ SessionsPaired /\ Admitted
  /\ Controller!CompletionsUseTheFile

LEMMA ControllerInit ==
  ASSUME Controller!Init
  PROVE  ControllerInv
BY DEF Controller!Init, ControllerInv, SessionsPaired, Admitted, Controller!CompletionsUseTheFile

\* Steps that leave pairing, sessions and authority alone.
LEMMA Untouched ==
  ASSUME ControllerInv, UNCHANGED Controller!pairs, UNCHANGED <<state, preset>>,
         Controller!CompletionsUseTheFile'
  PROVE  ControllerInv'
BY DEF Controller!pairs, ControllerInv, SessionsPaired, Admitted, Controller!GrantHolds

LEMMA ControllerNext ==
  ASSUME Controller!ControllerAssumption, ControllerInv, [Controller!Next]_(Controller!vars)
  PROVE  ControllerInv'
<1> USE DEF ControllerInv, Controller!ai
<1> DEFINE Kept == UNCHANGED Controller!ai => Controller!CompletionsUseTheFile'
<1>1. Kept
  BY DEF Controller!CompletionsUseTheFile
<1>2. ASSUME NEW input \in Inputs, Controller!Start(input)
      PROVE  ControllerInv'
  <2>1. \A n \in DOMAIN input.grants : Controller!GrantHolds(input, input.grants[n])
    BY <1>2 DEF Controller!Start, Controller!Normalizes
  <2>2. /\ state = "idle" /\ state' = "running" /\ preset' = input /\ now' = now
        /\ sessions' = {} /\ authorized' = authorized /\ UNCHANGED Controller!ai
        /\ pairing' = [consumed |-> FALSE, closed |-> FALSE, until |-> now + BootstrapLife]
    BY <1>2 DEF Controller!Start
  <2>3. now + BootstrapLife \in Int
    BY DEF Controller!ControllerAssumption
  <2>4. SessionsPaired'
    BY <2>2, <2>3 DEF SessionsPaired
  <2>5. Admitted'
    BY <2>1, <2>2 DEF Admitted, Controller!GrantHolds
  <2> QED BY <1>1, <2>2, <2>4, <2>5
<1>3. CASE Controller!Tick
  BY <1>1, <1>3 DEF Controller!Tick, SessionsPaired, Admitted, Controller!GrantHolds
<1>4. CASE Controller!Stop
  <2>1. /\ state' = "stopped" /\ preset' = preset /\ now' = now /\ authorized' = authorized
        /\ UNCHANGED Controller!ai
        /\ \/ /\ pairing' = [pairing EXCEPT !.closed = TRUE, !.consumed = TRUE]
              /\ sessions' = {}
           \/ UNCHANGED <<pairing, sessions>>
    BY <1>4 DEF Controller!Stop
  <2> QED BY <1>1, <2>1 DEF SessionsPaired, Admitted
<1>5. ASSUME NEW right \in BOOLEAN, Controller!Pair(right)
      PROVE  ControllerInv'
  <2>1. /\ state = "running" /\ UNCHANGED <<state, preset, now, authorized>>
        /\ UNCHANGED Controller!ai
    BY <1>5 DEF Controller!Pair
  <2>2. Controller!Live \subseteq sessions
    BY DEF Controller!Live
  <2>3. \/ /\ Controller!MayPair /\ pairing' = [pairing EXCEPT !.consumed = TRUE]
           /\ \E token \in Tokens :
                sessions' = Controller!Live \cup {[token |-> token, until |-> now + SessionLife]}
        \/ sessions' = Controller!Live /\ pairing' = pairing
    BY <1>5 DEF Controller!Pair
  <2>4. ASSUME Controller!MayPair, pairing' = [pairing EXCEPT !.consumed = TRUE],
               NEW token \in Tokens,
               sessions' = Controller!Live \cup {[token |-> token, until |-> now + SessionLife]}
        PROVE  SessionsPaired'
    <3> DEFINE paired == [token |-> token, until |-> now + SessionLife]
    <3>1. paired \in [token : Tokens, until : Int]
      BY DEF Controller!ControllerAssumption
    <3> HIDE DEF paired
    <3>2. sessions' = {paired}
      BY <2>2, <2>4 DEF SessionsPaired, Controller!MayPair, paired
    <3>3. pairing' \in [consumed : BOOLEAN, closed : BOOLEAN, until : Int] /\ pairing'.consumed
      BY <2>4 DEF SessionsPaired
    <3> QED BY <2>1, <3>1, <3>2, <3>3 DEF SessionsPaired
  <2>5. ASSUME sessions' = Controller!Live, pairing' = pairing
        PROVE  SessionsPaired'
    BY <2>1, <2>2, <2>5 DEF SessionsPaired
  <2>6. SessionsPaired'
    BY <2>3, <2>4, <2>5
  <2>7. Admitted'
    BY <2>1 DEF Admitted, Controller!GrantHolds
  <2> QED BY <1>1, <2>1, <2>6, <2>7
<1>6. ASSUME NEW token \in Tokens, NEW d \in Descriptors, NEW sameOrigin \in BOOLEAN,
             Controller!Authorize(token, d, sameOrigin)
      PROVE  ControllerInv'
  <2>1. /\ state = "running" /\ UNCHANGED <<state, preset, now, pairing>>
        /\ UNCHANGED Controller!ai /\ sessions' = Controller!Live
    BY <1>6 DEF Controller!Authorize
  <2>2. SessionsPaired'
    BY <2>1 DEF SessionsPaired, Controller!Live
  <2>3. authorized' = None \/
          \E paired \in sessions : /\ paired.until > now /\ Controller!Granted(d)
                                   /\ authorized' = [by |-> paired.until - now, what |-> d]
    BY <1>6 DEF Controller!Authorize, Controller!Live
  <2>4. ASSUME NEW paired \in sessions, paired.until > now, Controller!Granted(d),
               authorized' = [by |-> paired.until - now, what |-> d]
        PROVE  Admitted'
    <3>1. Controller!GrantHolds(preset, d)
      BY <2>1, <2>4 DEF Admitted, Controller!Granted
    <3>2. paired.until - now > 0
      BY <2>4 DEF SessionsPaired
    <3> QED BY <2>1, <2>4, <3>1, <3>2 DEF Admitted, Controller!GrantHolds
  <2>5. Admitted'
    BY <2>1, <2>3, <2>4 DEF Admitted, Controller!GrantHolds
  <2> QED BY <1>1, <2>1, <2>2, <2>5
<1>7. ASSUME \/ \E root \in Roots \cup {None} : Controller!SetFileRoot(root)
             \/ \E r \in Renderings : \/ Controller!MockRendered(r)
                                      \/ \E n \in 1 .. 2 : Controller!ServeMock(r, n)
      PROVE  ControllerInv'
  <2>1. UNCHANGED Controller!pairs /\ UNCHANGED <<state, preset>> /\ UNCHANGED Controller!ai
    BY <1>7 DEF Controller!SetFileRoot, Controller!MockRendered, Controller!ServeMock
  <2> QED BY <1>1, <2>1, Untouched
<1>8. ASSUME \/ \E c \in Configs \cup {None} : Controller!EditConfig(c)
             \/ Controller!AiStatus \/ Controller!AiComplete \/ Controller!AiAnswers
      PROVE  ControllerInv'
  <2>1. UNCHANGED Controller!pairs /\ UNCHANGED <<state, preset>>
    BY <1>8 DEF Controller!EditConfig, Controller!AiStatus, Controller!AiComplete,
                Controller!AiAnswers
  <2>2. Controller!CompletionsUseTheFile'
    BY <1>8 DEF Controller!EditConfig, Controller!AiStatus, Controller!AiComplete,
                Controller!AiAnswers, Controller!Refresh, Controller!SameConfig,
                Controller!CompletionsUseTheFile
  <2> QED BY <2>1, <2>2, Untouched
<1>9. CASE UNCHANGED Controller!vars
  <2>1. UNCHANGED Controller!pairs /\ UNCHANGED <<state, preset>> /\ UNCHANGED Controller!ai
    BY <1>9 DEF Controller!vars, Controller!pairs
  <2> QED BY <1>1, <2>1, Untouched
<1> QED BY <1>2, <1>3, <1>4, <1>5, <1>6, <1>7, <1>8, <1>9 DEF Controller!Next

-------------------------------------------------------------------------------
(* The routing of rules.                                                     *)

\* What is in the browser was made of the enabled rules of the project, and of the
\* rules of the project the session was started with.
RoutingInv ==
  /\ operations \in Projects /\ started \in Projects \cup {{}}
  /\ dynamic = Routing!Dynamic(operations, enabled)
  /\ routes = Routing!Routes(started)
  /\ \A rule \in session : \E op \in started :
       \/ op.kind = "response-body" /\ rule = Routing!BodyRedirect(op)
       \/ /\ op.kind = "mock" /\ Routing!Projectable(op.source)
          /\ rule = Routing!MockRedirect(op)

LEMMA RoutingInit ==
  ASSUME Routing!Init
  PROVE  RoutingInv
BY DEF Routing!Init, RoutingInv, Routing!Dynamic, Routing!Routes

LEMMA RoutingNext ==
  ASSUME RoutingInv, [Routing!Next]_(Routing!vars)
  PROVE  RoutingInv'
<1> USE DEF RoutingInv
<1>1. ASSUME NEW group, Routing!SetGroupEnabled(group)
      PROVE  RoutingInv'
  BY <1>1 DEF Routing!SetGroupEnabled
<1>2. CASE Routing!Start
  <2>1. /\ UNCHANGED <<operations, enabled, dynamic>>
        /\ started' = operations /\ routes' = Routing!Routes(operations)
    BY <1>2 DEF Routing!Start
  <2>2. \/ session' = {}
        \/ session' = {Routing!BodyRedirect(op) : op \in Routing!ResponseBodies}
        \/ /\ session' = {Routing!BodyRedirect(op) : op \in Routing!ResponseBodies}
                           \cup {Routing!MockRedirect(op) : op \in Routing!Mocks}
           /\ \A op \in Routing!Mocks : Routing!Projectable(op.source)
    BY <1>2 DEF Routing!Start
  <2>3. \A rule \in session' : \E op \in operations :
           \/ op.kind = "response-body" /\ rule = Routing!BodyRedirect(op)
           \/ /\ op.kind = "mock" /\ Routing!Projectable(op.source)
              /\ rule = Routing!MockRedirect(op)
    BY <2>2 DEF Routing!ResponseBodies, Routing!Mocks
  <2> QED BY <2>1, <2>3
<1>3. CASE Routing!Stop
  <2>1. started' = {} /\ routes' = {} /\ session' = {} /\ UNCHANGED <<operations, enabled, dynamic>>
    BY <1>3 DEF Routing!Stop
  <2> QED BY <2>1 DEF Routing!Routes
<1>4. ASSUME NEW ops \in Projects, Routing!Save(ops)
      PROVE  RoutingInv'
  <2>1. /\ operations' = ops /\ enabled' = {} /\ dynamic' = {}
        /\ UNCHANGED <<started, routes, session>>
    BY <1>4 DEF Routing!Save
  <2>2. Routing!Dynamic(ops, {}) = {}
    BY DEF Routing!Dynamic
  <2> QED BY <2>1, <2>2
<1>5. CASE UNCHANGED Routing!vars
  BY <1>5 DEF Routing!vars
<1> QED BY <1>1, <1>2, <1>3, <1>4, <1>5 DEF Routing!Next

\* The condition of a rule is its source, and a literal source names one host.
LEMMA ConditionExact ==
  ASSUME Routing!RoutingAssumption, NEW ops \in Projects, NEW op \in ops,
         Routing!Projectable(op.source)
  PROVE  Routing!Condition(op.source) = {url \in SiteUrls : Routing!Matches(op.source, url)}
<1>1. CASE op.source.key = "url"
  BY <1>1 DEF Routing!Condition
<1>2. CASE op.source.key # "url"
  <2>1. op.source.key = "host" /\ Routing!OnlyHost(op.source) \in op.source.hosts
        /\ op.source.hosts = {Routing!OnlyHost(op.source)}
    BY <1>2 DEF Routing!RoutingAssumption, Routing!Projectable, Routing!LiteralHost,
                Routing!OnlyHost
  <2> QED BY <1>2, <2>1 DEF Routing!Condition, Routing!HostPinned, Routing!Matches
<1> QED BY <1>1, <1>2

\* A rule with the condition of its operation takes the requests the dry run accepts.
LEMMA RuleExact ==
  ASSUME Routing!RoutingAssumption, NEW ops \in Projects, NEW op \in ops,
         Routing!Projectable(op.source), NEW methods,
         methods = IF op.method = None THEN Methods ELSE {op.method},
         NEW request \in Routing!Requests
  PROVE  Routing!Takes(Routing!RuleOf(op, methods), request) <=> Routing!DryRun(op, request)
<1>1. request[1] \in SiteUrls /\ request[2] \in Methods
  BY DEF Routing!Requests
<1>2. request[1] \in Routing!Condition(op.source) <=> Routing!Matches(op.source, request[1])
  BY <1>1, ConditionExact
<1>3. request[2] \in methods <=> op.method \in {None, request[2]}
  BY <1>1
<1> QED BY <1>2, <1>3 DEF Routing!Takes, Routing!RuleOf, Routing!DryRun

LEMMA AppliesAsTold ==
  ASSUME Routing!RoutingAssumption, RoutingInv
  PROVE  Routing!AppliesExactly
<1>1. ASSUME NEW op \in operations, NEW rule \in dynamic, op.kind = "header", op.rule = rule.rule,
             NEW request \in Routing!Requests
      PROVE  Routing!Takes(rule, request) <=> Routing!DryRun(op, request)
  <2>1. PICK o \in operations : /\ Routing!Projectable(o.source)
                                /\ rule = Routing!RuleOf(o, Routing!DynamicMethods(o))
    BY DEF RoutingInv, Routing!Dynamic
  <2>2. o = op
    BY <1>1, <2>1 DEF RoutingInv, Routing!RoutingAssumption, Routing!RuleOf
  <2> QED BY <1>1, <2>1, <2>2, RuleExact DEF RoutingInv, Routing!DynamicMethods
<1>2. ASSUME NEW op \in started, NEW rule \in session, op.kind = "mock", op.rule = rule.rule,
             NEW request \in Routing!Requests
      PROVE  Routing!Takes(rule, request) <=> Routing!DryRun(op, request)
  <2>1. PICK o \in started : 
           \/ o.kind = "response-body" /\ rule = Routing!BodyRedirect(o)
           \/ /\ o.kind = "mock" /\ Routing!Projectable(o.source)
              /\ rule = Routing!MockRedirect(o)
    BY DEF RoutingInv
  <2>2. rule.rule = o.rule /\ started \in Projects
    BY <2>1 DEF RoutingInv, Routing!BodyRedirect, Routing!MockRedirect, Routing!RuleOf
  <2>3. o = op
    BY <1>2, <2>2 DEF Routing!RoutingAssumption
  <2> QED BY <1>2, <2>1, <2>2, <2>3, RuleExact DEF Routing!MockRedirect
<1> QED BY <1>1, <1>2 DEF Routing!AppliesExactly, Routing!RulesOf

LEMMA RoutesFitIt ==
  ASSUME Routing!RoutingAssumption, RoutingInv
  PROVE  Routing!RoutesFit
<1>1. ASSUME NEW op \in operations, NEW url \in SiteUrls, op.kind = "request-body",
             Routing!Status(op) = "active", Routing!Matches(op.source, url), started = operations
      PROVE  Routing!Proxied(url)
  <2>1. Routing!Routable(op.source)
    BY <1>1 DEF Routing!Status
  <2>2. Routing!Route(op.source) \in routes
    BY <1>1, <2>1 DEF RoutingInv, Routing!Routes
  <2>3. op.source.literal /\ op.source.hosts = {Routing!OnlyHost(op.source)}
    BY <2>1 DEF RoutingInv, Routing!RoutingAssumption, Routing!Routable, Routing!LiteralHost,
                Routing!Steered, Routing!OnlyHost
  <2>4. ~ Routing!LiteralHost(op.source) =>
          op.source.key = "url" /\ op.source.schemes = {Routing!OnlyScheme(op.source)}
    BY <2>1 DEF RoutingInv, Routing!RoutingAssumption, Routing!Routable,
                Routing!Steered, Routing!OnlyScheme
  <2> QED BY <1>1, <2>2, <2>3, <2>4 DEF Routing!Proxied, Routing!Route, Routing!Matches
<1>2. ASSUME NEW url \in SiteUrls, Routing!Proxied(url)
      PROVE  \E op \in started :
                /\ op.kind = "request-body" /\ op.source.literal /\ op.source.safe
                /\ url.host \in op.source.hosts
                /\ op.source.key = "url" => url.scheme \in op.source.schemes
  <2>1. PICK op \in started : /\ op.kind = "request-body" /\ Routing!Routable(op.source)
                              /\ url.host = Routing!Route(op.source).host
                             /\ Routing!Route(op.source).scheme \in {None, url.scheme}
    BY <1>2 DEF Routing!Proxied, RoutingInv, Routing!Routes
  <2>2. /\ op.source.literal /\ op.source.safe
        /\ Routing!OnlyHost(op.source) \in op.source.hosts
    BY <2>1 DEF RoutingInv, Routing!RoutingAssumption, Routing!Routable, Routing!LiteralHost,
                Routing!Steered, Routing!OnlyHost
  <2>3. ASSUME op.source.key = "url" PROVE url.scheme \in op.source.schemes
    <3>1. /\ Routing!OnlyScheme(op.source) \in op.source.schemes
          /\ None \notin op.source.schemes
      BY <2>2, <2>3 DEF RoutingInv, Routing!RoutingAssumption, Routing!OnlyScheme
    <3>2. Routing!Route(op.source).scheme = Routing!OnlyScheme(op.source)
      BY <2>3 DEF Routing!Route, Routing!LiteralHost
    <3> QED BY <2>1, <3>1, <3>2
  <2> QED BY <2>1, <2>2, <2>3 DEF Routing!Route
<1> QED BY <1>1, <1>2 DEF Routing!RoutesFit

-------------------------------------------------------------------------------
(* The composition.                                                          *)

\* The part that takes the steps keeps its invariant.
NativeInv ==
  /\ part = "proxy" => ProxyInv
  /\ part = "controller" => ControllerInv
  /\ part = "routing" => RoutingInv

LEMMA NativeKept ==
  ASSUME NativeInv, [NativeNext]_nativeVars
  PROVE  NativeInv'
<1> USE NativeAssumption
<1>1. part' = part
  BY DEF NativeNext, nativeVars
<1>2. CASE part = "proxy"
  <2>1. [Proxy!Next]_(Proxy!vars)
    BY <1>2 DEF NativeNext, nativeVars, proxyVars, Proxy!vars
  <2> QED BY <1>1, <1>2, <2>1, ProxyStep DEF NativeInv
<1>3. CASE part = "controller"
  <2>1. [Controller!Next]_(Controller!vars)
    BY <1>3 DEF NativeNext, nativeVars, controllerVars, Controller!vars, Controller!pairs,
                Controller!ai
  <2> QED BY <1>1, <1>3, <2>1, ControllerNext DEF NativeInv
<1>4. CASE part = "routing"
  <2>1. [Routing!Next]_(Routing!vars)
    BY <1>4 DEF NativeNext, nativeVars, routingVars, Routing!vars
  <2> QED BY <1>1, <1>4, <2>1, RoutingNext DEF NativeInv
<1> QED BY <1>1, <1>2, <1>3, <1>4 DEF NativeInv

LEMMA NativeStarts ==
  ASSUME NativeInit
  PROVE  NativeInv
BY NativeAssumption, ProxyStarts, ControllerInit, RoutingInit DEF NativeInit, NativeInv

LEMMA NativeHolds == NativeSpec => []NativeInv
<1>1. NativeInit => NativeInv
  BY NativeStarts
<1>2. NativeInv /\ [NativeNext]_nativeVars => NativeInv'
  BY NativeKept
<1> QED BY <1>1, <1>2, PTL DEF NativeSpec

\* However often the policy changes while requests wait, a request is answered or
\* rewritten by operations of the one policy in force when it came, of the kind that
\* may, which accept its URL and method and whose rule that policy's project holds; a
\* private address is dialled for a listed origin only, and the slots of the renderings
\* are counted right under aborts, failures and stop (handleHttp, handleMock, handleResponseBody,
\* handleConnect of intercept-proxy.ts).
THEOREM RequestsKeepTheirPolicy == NativeSpec => []OnePolicyPerRequest
<1>1. NativeInv => OnePolicyPerRequest
  BY DEF NativeInv, OnePolicyPerRequest, ProxyInv, RequestInv, Justified,
         Proxy!OnePolicyPerRequest
<1> QED BY <1>1, NativeHolds, PTL

\* capability.ts, authorization.ts and lifecycle.ts: a bootstrap pairs one session
\* in the life of a host, what a session is allowed was granted by a preset whose
\* matchers admit it, and the AI client is the one of the provider file.
THEOREM OnePairing == NativeSpec => []PairedOnce
<1>1. NativeInv => PairedOnce
  BY DEF NativeInv, PairedOnce, ControllerInv, SessionsPaired, Admitted, Controller!PairedOnce
<1> QED BY <1>1, NativeHolds, PTL

\* dnr.ts, mock-redirect.ts and native-session.ts beside evaluate.ts: what the dry
\* run says of a header rule or a mock is what the browser does; while the session
\* runs the project as it is, the requests of active request-body rules go to the
\* proxy; and no request goes there whose host and scheme no request-body rule, in an
\* enabled group or not, of the project the session was started with names.
THEOREM BrowserAsTheDryRun == NativeSpec => []AppliesExactly
<1>1. NativeInv => AppliesExactly
  BY NativeAssumption, AppliesAsTold, RoutesFitIt DEF NativeInv, AppliesExactly
<1> QED BY <1>1, NativeHolds, PTL

-----------------------------------------------------------------------------
(* Lists of things to do.                                                  *)

\* SetToSeq lists a finite set: each member, and nothing else.
LEMMA Listed ==
  ASSUME NEW S, IsFiniteSet(S)
  PROVE  /\ SetToSeq(S) \in Seq(S)
         /\ ToSet(SetToSeq(S)) = S
         /\ S # {} => SetToSeq(S) # <<>>
<1> DEFINE D == 1 .. Cardinality(S)
<1>1. Cardinality(S) \in Nat /\ ExistsBijection(D, S)
  BY FS_CardinalityType
<1>2. \E f \in [D -> S] : IsInjective(f)
  BY <1>1 DEF ExistsBijection, Bijection, Injection, IsInjective
<1>3. SetToSeq(S) \in [D -> S] /\ IsInjective(SetToSeq(S))
  BY <1>2 DEF SetToSeq
<1>4. SetToSeq(S) \in Injection(D, S)
  BY <1>3 DEF Injection, IsInjective
<1>5. IsFiniteSet(D) /\ Cardinality(D) = Cardinality(S)
  BY <1>1, FS_Interval
<1>6. SetToSeq(S) \in Surjection(D, S)
  BY <1>4, <1>5, FS_Injection
<1>7. ToSet(SetToSeq(S)) = S
  BY <1>3, <1>6 DEF ToSet, Surjection
<1>8. SetToSeq(S) \in Seq(S)
  BY <1>1, <1>3
<1>9. S # {} => SetToSeq(S) # <<>>
  BY <1>7 DEF ToSet
<1> QED BY <1>7, <1>8, <1>9

LEMMA HeadAndRest ==
  ASSUME NEW S, NEW s \in Seq(S), s # <<>>
  PROVE  /\ Head(s) \in S /\ Tail(s) \in Seq(S)
         /\ ToSet(s) = {Head(s)} \cup ToSet(Tail(s))
         /\ ToSet(s) \subseteq S
         /\ Len(s) > 1 <=> Tail(s) # <<>>
         /\ Len(s) = 1 <=> Tail(s) = <<>>
<1>1. /\ Head(s) = s[1] /\ Tail(s) \in Seq(S)
      /\ Len(Tail(s)) = Len(s) - 1
      /\ \A i \in 1 .. Len(Tail(s)) : Tail(s)[i] = s[i + 1]
      /\ Len(s) \in Nat \ {0}
  BY HeadTailProperties, EmptySeq
<1>2. DOMAIN s = 1 .. Len(s) /\ DOMAIN Tail(s) = 1 .. Len(s) - 1
  BY <1>1, LenProperties
<1>3. \A i \in 1 .. Len(s) : s[i] \in S
  BY ElementOfSeq
<1>4. \A i \in 1 .. Len(s) : i = 1 \/ (i - 1 \in 1 .. Len(s) - 1 /\ (i - 1) + 1 = i)
  BY <1>1
<1>5. \A i \in 1 .. Len(s) - 1 : i + 1 \in 1 .. Len(s)
  BY <1>1
<1>6. ASSUME NEW i \in DOMAIN s PROVE s[i] \in {Head(s)} \cup ToSet(Tail(s))
  <2>1. CASE i = 1
    BY <1>1, <2>1
  <2>2. CASE i # 1
    <3>1. i - 1 \in DOMAIN Tail(s) /\ Tail(s)[i - 1] = s[i]
      BY <1>1, <1>2, <1>4, <1>6, <2>2
    <3> QED BY <3>1 DEF ToSet
  <2> QED BY <2>1, <2>2
<1>7. ASSUME NEW i \in DOMAIN Tail(s) PROVE Tail(s)[i] \in ToSet(s)
  BY <1>1, <1>2, <1>5, <1>7 DEF ToSet
<1>10. ToSet(s) = {Head(s)} \cup ToSet(Tail(s))
  <2>1. ToSet(s) \subseteq {Head(s)} \cup ToSet(Tail(s))
    BY <1>6 DEF ToSet
  <2>2. ToSet(Tail(s)) \subseteq ToSet(s)
    BY <1>7 DEF ToSet
  <2>3. 1 \in DOMAIN s
    BY <1>1, <1>2
  <2>4. Head(s) \in ToSet(s)
    BY <1>1, <2>3 DEF ToSet
  <2> QED BY <2>1, <2>2, <2>4
<1>8. ToSet(s) \subseteq S /\ Head(s) \in S
  BY <1>1, <1>2, <1>3 DEF ToSet
<1>9. Tail(s) = <<>> <=> Len(s) - 1 = 0
  BY <1>1, EmptySeq
<1> QED BY <1>1, <1>8, <1>9, <1>10

LEMMA Joined ==
  ASSUME NEW S, NEW s \in Seq(S), NEW t \in Seq(S)
  PROVE  /\ s \o t \in Seq(S)
         /\ ToSet(s \o t) = ToSet(s) \cup ToSet(t)
<1>1. /\ s \o t \in Seq(S) /\ Len(s \o t) = Len(s) + Len(t)
      /\ \A i \in 1 .. Len(s) + Len(t) : (s \o t)[i] = IF i <= Len(s) THEN s[i] ELSE t[i - Len(s)]
      /\ Len(s) \in Nat /\ Len(t) \in Nat
  BY ConcatProperties, LenProperties
<1> DEFINE st == s \o t
<1> HIDE DEF st
<1>2. /\ DOMAIN s = 1 .. Len(s) /\ DOMAIN t = 1 .. Len(t)
      /\ DOMAIN st = 1 .. Len(s) + Len(t)
  BY <1>1, LenProperties DEF st
<1>3. ASSUME NEW i \in DOMAIN st PROVE st[i] \in ToSet(s) \cup ToSet(t)
  <2>1. i \in 1 .. Len(s) \/ (~ (i <= Len(s)) /\ i - Len(s) \in 1 .. Len(t))
    BY <1>1, <1>2, <1>3
  <2>2. st[i] = IF i <= Len(s) THEN s[i] ELSE t[i - Len(s)]
    BY <1>1, <1>2, <1>3 DEF st
  <2> QED BY <1>1, <1>2, <2>1, <2>2 DEF ToSet
<1>4. ASSUME NEW i \in DOMAIN s PROVE s[i] \in ToSet(st)
  <2>1. i \in 1 .. Len(s) + Len(t) /\ i <= Len(s)
    BY <1>1, <1>2, <1>4
  <2>2. st[i] = s[i]
    BY <1>1, <2>1 DEF st
  <2> QED BY <1>2, <2>1, <2>2 DEF ToSet
<1>5. ASSUME NEW i \in DOMAIN t PROVE t[i] \in ToSet(st)
  <2>1. /\ Len(s) + i \in 1 .. Len(s) + Len(t) /\ ~ (Len(s) + i <= Len(s))
        /\ (Len(s) + i) - Len(s) = i
    BY <1>1, <1>2, <1>5
  <2>2. st[Len(s) + i] = t[i]
    BY <1>1, <2>1 DEF st
  <2> QED BY <1>2, <2>1, <2>2 DEF ToSet
<1> QED BY <1>1, <1>3, <1>4, <1>5 DEF ToSet, st

LEMMA FilesInOrder ==
  ASSUME NEW F \in SUBSET Files
  PROVE  /\ InOrder(F) \in Seq(F)
         /\ ToSet(InOrder(F)) = F
         /\ F # {} => InOrder(F) # <<>>
<1> DEFINE one(f) == IF f \in F THEN <<f>> ELSE <<>>
<1>1. ASSUME NEW f PROVE one(f) \in Seq(F) /\ ToSet(one(f)) = {f} \cap F
  BY DEF ToSet
<1>2. InOrder(F) = (one("key") \o one("pub")) \o one("cert")
  BY DEF InOrder
<1> HIDE DEF one
<1>3. /\ InOrder(F) \in Seq(F)
      /\ ToSet(InOrder(F)) = ({"key"} \cap F) \cup ({"pub"} \cap F) \cup ({"cert"} \cap F)
  <2>1. one("key") \o one("pub") \in Seq(F)
        /\ ToSet(one("key") \o one("pub")) = ({"key"} \cap F) \cup ({"pub"} \cap F)
    BY <1>1, Joined
  <2> DEFINE two   == one("key") \o one("pub")
             three == one("cert")
  <2>2. /\ two \in Seq(F) /\ ToSet(two) = ({"key"} \cap F) \cup ({"pub"} \cap F)
        /\ three \in Seq(F) /\ ToSet(three) = {"cert"} \cap F
        /\ InOrder(F) = two \o three
    BY <1>1, <1>2, <2>1
  <2> HIDE DEF two, three
  <2>3. two \o three \in Seq(F) /\ ToSet(two \o three) = ToSet(two) \cup ToSet(three)
    BY <2>2, Joined
  <2> QED BY <2>2, <2>3
<1>4. ToSet(InOrder(F)) = F
  BY <1>3 DEF Files
<1> QED BY <1>3, <1>4 DEF ToSet

-----------------------------------------------------------------------------
(* The inductive invariant.  First what holds of the device at any time,   *)
(* then what a command knows at each of its steps.                          *)

DeviceType ==
  [manifests : [Dirs -> Extensions \cup {None}], record : BOOLEAN,
   files : [Files -> CAs \cup {None, Broken}], previous : CAs \cup {None},
   anchors : SUBSET CAs]

Jobs == Dirs \cup {None} \cup Files

Command ==
  [cmd : {"install", "uninstall", "rollback"}, id : Extensions \cup {None}, at : Steps,
   todo : Seq(Jobs), written : SUBSET (Dirs \cup {None}), reuse : BOOLEAN, fresh : BOOLEAN,
   kept : CAs \cup {None}, done : SUBSET Files, ok : BOOLEAN, slips : Nat, before : DeviceType]

TrustParts ==
  /\ TypeOK
  /\ proc = Idle \/ proc \in Command
  /\ files["cert"] # Broken
  /\ anchors \subseteq 1 .. made
  /\ files["cert"] \in (1 .. made) \cup {None} /\ previous \in (1 .. made) \cup {None}
  /\ \A d \in Dirs \ Hosts : manifests[d] = None
  /\ ~Linux => ~record

\* The anchors can be told from the files.
Known == store = "keychain" /\ ~pending

\* A CA whose key is gone is not trusted, or the marker says that it may be.
KeyOfAnchor == Known /\ files["cert"] \in anchors \ stray => files["key"] # None

DeviceInv == TrustParts /\ AnchorsKnown /\ KeyOfAnchor

Left == ToSet(proc.todo)

Early      == {"manifests", "record", "caps", "decide", "sibling", "save"}
Trusting   == {"retire", "discard", "unmark", "wrap", "thrown"}
Granting   == Early \cup {"files", "trust"} \cup Trusting
Installing == Granting \cup {"undo", "restore"}
Removals   == {"remove", "forget", "mark", "delete", "untrust", "clear", "anchor", "drop"}

\* The manifests of an install.
ManifestsInv ==
  /\ proc.at \in Installing =>
       /\ proc.cmd = "install" /\ proc.id \in Extensions
       /\ proc.written \subseteq Hosts \cup (IF Linux THEN {None} ELSE {})
  /\ proc.at \in Granting \cup {"undo"} =>
       /\ \A d \in Dirs \ proc.written : manifests[d] = proc.before.manifests[d]
       /\ None \notin proc.written => record = proc.before.record
  /\ proc.at \in Granting =>
       /\ proc.ok
       /\ \A d \in Hosts : manifests[d] = proc.id \/ (proc.at = "manifests" /\ d \in Left)
  /\ proc.at = "manifests" => proc.todo \in Seq(Hosts) /\ proc.todo # <<>>
  /\ proc.at = "record" => Linux

\* Before the files of the CA are written.
EarlyInv ==
  /\ proc.at \in Early =>
       /\ files = proc.before.files /\ ~proc.reuse /\ proc.done = {} /\ proc.kept = None
  /\ proc.at \in {"manifests", "record", "caps", "decide"} => proc.fresh
  /\ proc.at \in {"sibling", "save"} =>
       /\ ~proc.fresh /\ files["cert"] # None
       /\ made \notin anchors /\ files["cert"] # made /\ previous # made /\ made \in CAs
  /\ proc.at = "sibling" => previous # None /\ previous # files["cert"]
  /\ proc.at = "save" /\ Known => anchors \subseteq {files["cert"]} \cup stray

\* Until the new CA is trusted.
ReplacingInv ==
  /\ (proc.at \in Early \cup {"files", "trust", "undo"} /\ store # "debian") =>
       anchors \subseteq proc.before.anchors
  /\ (proc.at \in {"files", "undo"} \/ (proc.at = "trust" /\ ~proc.reuse)) =>
       /\ ~proc.reuse /\ previous = proc.kept /\ (proc.fresh <=> proc.kept = None)
       /\ made \in CAs /\ previous # made
       /\ store = "keychain" => made \notin anchors
       /\ Known => anchors \subseteq {previous} \cup stray
       /\ "cert" \in proc.done => files["cert"] \in {made, None}
       /\ "cert" \notin proc.done =>
            /\ files["cert"] \in {None, previous}
            /\ files["cert"] = proc.before.files["cert"]
            /\ Known /\ proc.before.files["key"] = None => files["cert"] \notin anchors \ stray
  /\ proc.at = "files" =>
       /\ \/ proc.todo = <<"key", "pub", "cert">> /\ proc.done = {}
          \/ proc.todo = <<"pub", "cert">> /\ proc.done = {"key"}
          \/ proc.todo = <<"cert">> /\ proc.done = {"key", "pub"}
       /\ \A f \in proc.done : files[f] = made
       /\ \A f \in Files \ proc.done : files[f] = proc.before.files[f]
  /\ proc.at = "trust" =>
       /\ Reusable
       /\ IF proc.reuse THEN files = proc.before.files
          ELSE proc.done = Files /\ \A f \in Files : files[f] = made

\* Once it is.
TrustingInv ==
  /\ proc.at \in Trusting =>
       /\ Reusable /\ files["cert"] \in anchors
       /\ Linux => anchors = {files["cert"]}
  /\ proc.at = "retire" => Outgoing = previous /\ previous # files["cert"] /\ previous # None
  /\ proc.at \in {"discard", "unmark", "thrown"} /\ Known => anchors \subseteq {files["cert"]} \cup stray
  /\ proc.at = "wrap" => ~pending /\ anchors \subseteq {files["cert"]} \cup stray

\* What a rollback with no failure of its own has put back.
CaUndone ==
  /\ store # "debian" => anchors \subseteq proc.before.anchors
  /\ (proc.reuse \/ (~proc.fresh /\ "cert" \notin proc.done)) => files = proc.before.files

RollbackInv ==
  /\ proc.at \in {"undo", "restore"} => proc.slips >= 1
  /\ proc.at = "undo" =>
       /\ proc.todo \in Seq(DOMAIN UndoPlan(proc)) /\ proc.todo # <<>>
       /\ (proc.slips = 1 /\ ~proc.fresh /\ "cert" \notin proc.done) =>
            \A f \in Files : f \in Left \/ files[f] = proc.before.files[f]
  /\ proc.at = "restore" =>
       /\ ~proc.ok /\ proc.todo \in Seq(proc.written) /\ proc.todo # <<>>
       /\ proc.slips = 1 =>
            /\ \A d \in Dirs : d \in Left \/ manifests[d] = proc.before.manifests[d]
            /\ None \in Left \/ record = proc.before.record
            /\ CaUndone

\* What an uninstall leaves.
Gone ==
  /\ \A d \in Dirs : manifests[d] = None
  /\ ~record /\ ~pending /\ previous = None
  /\ \A f \in Files : files[f] = None
  /\ store = "keychain" => anchors \subseteq stray

RemovalInv ==
  /\ proc.at \in Removals =>
       /\ proc.cmd \in {"uninstall", "rollback"} /\ proc.ok /\ proc.before.previous = previous
  /\ proc.at \in {"remove", "forget", "mark"} => proc.before.files = files
  /\ proc.at = "remove" =>
       /\ proc.todo \in Seq(Hosts) /\ proc.todo # <<>>
       /\ \A d \in Dirs : d \in Left \/ manifests[d] = None
  /\ proc.at \in Removals \ {"remove"} => \A d \in Dirs : manifests[d] = None
  /\ proc.at \in Removals \ {"remove", "forget"} => ~record
  /\ proc.at = "delete" =>
       /\ IF proc.before.files["key"] = None THEN files["key"] = None ELSE pending
       /\ Known => anchors \subseteq {previous} \cup stray
       /\ \/ proc.todo = <<"key", "pub", "cert">>
          \/ proc.todo = <<"pub", "cert">> /\ files["key"] = None
          \/ proc.todo = <<"cert">> /\ files["key"] = None /\ files["pub"] = None
  /\ proc.at \in {"untrust", "clear", "anchor", "drop"} => \A f \in Files : files[f] = None
  /\ proc.at = "untrust" => pending
  /\ proc.at = "clear" => anchors = {}
  /\ proc.at \in {"anchor", "drop"} => ~pending
  /\ proc.at = "anchor" /\ store = "keychain" => anchors \subseteq {previous} \cup stray
  /\ proc.at = "drop" /\ store = "keychain" => anchors \subseteq stray
  /\ proc.at = "unwrap" => proc.cmd = "uninstall"
  /\ (proc.at \in {"unwrap", "report"} /\ proc.ok /\ proc.cmd # "install") => Gone

TrustInv ==
  /\ DeviceInv
  /\ ManifestsInv /\ EarlyInv /\ ReplacingInv /\ TrustingInv /\ RollbackInv /\ RemovalInv
  /\ InstallLeavesOne /\ FailedInstallRestores

-----------------------------------------------------------------------------
(* How a command goes on.                                                  *)

LEMMA Running ==
  ASSUME TrustParts, ~ (proc.at = "idle")
  PROVE  proc \in Command
BY DEF TrustParts, Idle

LEMMA Busy ==
  ASSUME TrustParts, proc.at \in Steps
  PROVE  proc \in Command
BY DEF TrustParts, Idle, Steps

LEMMA Steady ==
  ASSUME UNCHANGED store
  PROVE  Hosts' = Hosts /\ Linux' = Linux
BY DEF Hosts, Linux

\* What p and q have in common but their place, their list and their slips.
Same(q, p) ==
  /\ q.cmd = p.cmd /\ q.id = p.id /\ q.written = p.written /\ q.reuse = p.reuse
  /\ q.fresh = p.fresh /\ q.kept = p.kept /\ q.done = p.done /\ q.before = p.before

LEMMA FailsTo ==
  ASSUME NEW call, NEW p \in Command, Fails(call, p)
  PROVE  /\ proc' \in Command /\ Same(proc', p)
         /\ proc'.at = p.at /\ proc'.todo = p.todo /\ proc'.ok = p.ok
         /\ proc'.slips = p.slips + 1
BY DEF Fails, Command, Same

LEMMA Onwards ==
  ASSUME NEW p \in Command, NEW S \in SUBSET Jobs, p.todo \in Seq(S), p.todo # <<>>, NEW stage \in Steps
  PROVE  LET q == Onward(p, stage)
         IN  /\ q \in Command /\ Same(q, p) /\ q.ok = p.ok /\ q.slips = p.slips
             /\ q.todo = Tail(p.todo)
             /\ q.at = IF q.todo = <<>> THEN stage ELSE p.at
             /\ q.todo \in Seq(S)
             /\ ToSet(p.todo) = {Head(p.todo)} \cup ToSet(q.todo)
             /\ Head(p.todo) \in S
<1>1. /\ Tail(p.todo) \in Seq(S) /\ Head(p.todo) \in S
      /\ Len(p.todo) > 1 <=> Tail(p.todo) # <<>>
      /\ ToSet(p.todo) = {Head(p.todo)} \cup ToSet(Tail(p.todo))
  BY HeadAndRest
<1>2. Tail(p.todo) \in Seq(Jobs) /\ <<>> \in Seq(Jobs)
  BY <1>1
<1>3. CASE Len(p.todo) > 1
  BY <1>1, <1>2, <1>3 DEF Onward, Command, Same
<1>4. CASE ~ (Len(p.todo) > 1)
  BY <1>1, <1>2, <1>4 DEF Onward, Command, Same
<1> QED BY <1>3, <1>4

LEMMA RestoringIs ==
  ASSUME NEW p \in Command
  PROVE  LET q == Restoring(p)
         IN  /\ q \in Command /\ Same(q, p) /\ ~q.ok /\ q.slips = p.slips
             /\ p.written = {} => q.at = "report"
             /\ p.written # {} => /\ q.at = "restore" /\ q.todo \in Seq(p.written)
                                  /\ q.todo # <<>> /\ ToSet(q.todo) = p.written
<1>1. IsFiniteSet(p.written) /\ p.written \subseteq Jobs
  <2>1. IsFiniteSet(Dirs \cup {None})
    BY TrustAssumption, FS_AddElement
  <2> QED BY <2>1, FS_Subset DEF Command, Jobs
<1>2. /\ SetToSeq(p.written) \in Seq(p.written) /\ ToSet(SetToSeq(p.written)) = p.written
      /\ p.written # {} => SetToSeq(p.written) # <<>>
  BY <1>1, Listed
<1>3. SetToSeq(p.written) \in Seq(Jobs)
  BY <1>1, <1>2
<1> QED BY ZenonT(60), <1>2, <1>3 DEF Restoring, Command, Same, Steps

LEMMA HostsAre == Hosts \subseteq Dirs /\ Hosts # {} /\ IsFiniteSet(Hosts) /\ Hosts \subseteq Jobs
<1>1. Hosts \subseteq Dirs /\ Hosts # {}
  BY TrustAssumption DEF Hosts
<1> QED BY <1>1, TrustAssumption, FS_Subset DEF Jobs

\* A step that leaves the CA alone.
LEMMA DeviceStays ==
  ASSUME DeviceInv, UNCHANGED <<files, previous, pending, store, anchors, made, stray>>,
         proc' = Idle \/ proc' \in Command,
         manifests' \in [Dirs -> Extensions \cup {None}],
         record' \in BOOLEAN, wrapper' \in BOOLEAN,
         \A d \in Dirs \ Hosts : manifests'[d] = None,
         ~Linux => ~record'
  PROVE  DeviceInv'
<1>1. Hosts' = Hosts /\ (Linux <=> Linux')
  BY Steady
<1>2. TrustParts'
  BY <1>1 DEF DeviceInv, TrustParts, TypeOK, Idle, Command
<1> QED BY <1>1, <1>2 DEF DeviceInv, AnchorsKnown, KeyOfAnchor, Known

\* The parts of the invariant that speak of a stage.
LEMMA Placed ==
  ASSUME DeviceInv'
  PROVE  /\ proc'.at \in Early /\ ManifestsInv' /\ EarlyInv' /\ ReplacingInv' => TrustInv'
         /\ proc'.at \in {"files", "trust"} /\ ManifestsInv' /\ ReplacingInv' => TrustInv'
         /\ proc'.at \in Trusting /\ ManifestsInv' /\ TrustingInv' => TrustInv'
         /\ proc'.at = "undo" /\ ManifestsInv' /\ ReplacingInv' /\ RollbackInv' => TrustInv'
         /\ proc'.at = "restore" /\ ManifestsInv' /\ RollbackInv' => TrustInv'
         /\ proc'.at \in Removals \cup {"unwrap"} /\ RemovalInv' => TrustInv'
         /\ proc'.at = "report" /\ RemovalInv' /\ InstallLeavesOne' /\ FailedInstallRestores'
              => TrustInv'
         /\ proc' = Idle => TrustInv'
<1> USE DEF TrustInv, Early, Trusting, Granting, Installing, Removals
<1>1. proc'.at \notin Installing => ManifestsInv'
  BY DEF ManifestsInv
<1>2. proc'.at \notin Early => EarlyInv'
  BY DEF EarlyInv
<1>3. proc'.at \notin Early \cup {"files", "trust", "undo"} => ReplacingInv'
  BY DEF ReplacingInv
<1>4. proc'.at \notin Trusting => TrustingInv'
  BY DEF TrustingInv
<1>5. proc'.at \notin {"undo", "restore"} => RollbackInv'
  BY DEF RollbackInv
<1>6. proc'.at \notin Removals \cup {"unwrap", "report"} => RemovalInv'
  BY DEF RemovalInv
<1>7. proc'.at # "report" => InstallLeavesOne' /\ FailedInstallRestores'
  BY DEF InstallLeavesOne, FailedInstallRestores
<1>8. proc' = Idle => proc'.at = "idle"
  BY DEF Idle
<1> QED BY <1>1, <1>2, <1>3, <1>4, <1>5, <1>6, <1>7, <1>8

LEMMA RollsBack ==
  ASSUME TrustInv, NEW call, proc.at \in Granting \cup {"undo"},
         \/ Fails(call, Restoring(proc))
         \/ proc.at = "undo" /\ proc' = Restoring(proc),
         UNCHANGED <<manifests, record, store>>,
         proc' \in Command => DeviceInv',
         (proc' \in Command /\ proc'.slips = 1 /\ Same(proc', proc)) => CaUndone'
  PROVE  TrustInv'
<1> DEFINE q == Restoring(proc)
<1>1. proc \in Command /\ proc.cmd = "install" /\ proc.slips \in Nat /\ proc.before \in DeviceType
  BY Busy DEF TrustInv, DeviceInv, TrustParts, ManifestsInv, Installing, Granting, Early, Trusting, Steps, Command
<1>2. /\ q \in Command /\ Same(q, proc) /\ ~q.ok /\ q.slips = proc.slips
      /\ proc.written = {} => q.at = "report"
      /\ proc.written # {} => /\ q.at = "restore" /\ q.todo \in Seq(proc.written)
                              /\ q.todo # <<>> /\ ToSet(q.todo) = proc.written
  BY <1>1, RestoringIs
<1> HIDE DEF q
<1>3. /\ proc' \in Command /\ Same(proc', q) /\ proc'.at = q.at /\ proc'.todo = q.todo
      /\ proc'.ok = q.ok /\ proc'.slips >= 1
  <2>1. CASE Fails(call, q)
    BY <1>1, <1>2, <2>1, FailsTo
  <2>2. CASE proc.at = "undo" /\ proc' = q
    BY <1>1, <1>2, <2>2 DEF TrustInv, RollbackInv, Same
  <2> QED BY <2>1, <2>2 DEF q
<1>4. Same(proc', proc) /\ ~proc'.ok
  BY <1>2, <1>3 DEF Same
<1>5. Hosts' = Hosts /\ (Linux <=> Linux')
  BY Steady
<1>6. DeviceInv' /\ (proc'.slips = 1 => CaUndone')
  BY <1>3, <1>4
<1>7. /\ \A d \in Dirs \ proc.written : manifests[d] = proc.before.manifests[d]
      /\ None \notin proc.written => record = proc.before.record
  BY DEF TrustInv, ManifestsInv
<1>8. CASE proc.written = {}
  <2>1. proc'.at = "report" /\ proc'.cmd = "install"
    BY <1>1, <1>2, <1>3, <1>4, <1>8 DEF Same
  <2>2. manifests = proc.before.manifests
    <3>1. manifests \in [Dirs -> Extensions \cup {None}]
      BY DEF TrustInv, DeviceInv, TrustParts, TypeOK
    <3>2. proc.before.manifests \in [Dirs -> Extensions \cup {None}]
      BY <1>1 DEF DeviceType
    <3>3. \A d \in Dirs : manifests[d] = proc.before.manifests[d]
      BY <1>7, <1>8
    <3> QED BY <3>1, <3>2, <3>3
  <2>3. FailedInstallRestores'
    BY <1>4, <1>6, <1>7, <1>8, <2>1, <2>2 DEF FailedInstallRestores, CaUndone, Same
  <2>4. RemovalInv' /\ InstallLeavesOne'
    BY <1>4, <2>1 DEF RemovalInv, Removals, InstallLeavesOne
  <2> QED BY <1>6, <2>1, <2>3, <2>4, Placed
<1>9. CASE proc.written # {}
  <2>1. /\ proc'.at = "restore" /\ proc'.todo \in Seq(proc'.written)
        /\ proc'.todo # <<>> /\ ToSet(proc'.todo) = proc.written
    BY <1>2, <1>3, <1>4, <1>9 DEF Same
  <2>2. ManifestsInv'
    BY <1>1, <1>4, <1>5, <2>1 DEF TrustInv, ManifestsInv, Same, Installing, Granting, Early, Trusting
  <2>3. RollbackInv'
    BY <1>3, <1>4, <1>6, <1>7, <2>1 DEF RollbackInv, Left, Same
  <2> QED BY <1>6, <2>1, <2>2, <2>3, Placed
<1> QED BY <1>8, <1>9

-----------------------------------------------------------------------------
(* install: the manifests.                                                 *)

LEMMA CheckCapsKeeps ==
  ASSUME TrustInv, CheckCaps
  PROVE  TrustInv'
<1> USE DEF TrustInv
<1>1. /\ proc \in Command /\ proc.at = "caps"
      /\ UNCHANGED <<manifests, record, files, previous, pending, wrapper, store, anchors, made, stray>>
      /\ Hosts' = Hosts /\ (Linux <=> Linux')
  BY Busy, Steady DEF CheckCaps, At, DeviceInv, Steps, disk
<1>2. proc' \in Command => DeviceInv'
  BY <1>1, DeviceStays DEF DeviceInv, TrustParts, TypeOK
<1>3. CASE Works([proc EXCEPT !.at = "decide"])
  <2>1. proc' \in Command /\ Same(proc', proc) /\ proc'.at = "decide" /\ proc'.ok = proc.ok
    BY <1>1, <1>3 DEF Works, Command, Same, Steps
  <2>2. ManifestsInv'
    BY <1>1, <2>1 DEF ManifestsInv, Same, Installing, Granting, Early, Trusting
  <2>3. EarlyInv' /\ ReplacingInv'
    BY <1>1, <2>1 DEF EarlyInv, ReplacingInv, Same, Early
  <2> QED BY <1>2, <2>1, <2>2, <2>3, Placed DEF Early
<1>4. CASE Fails("caps", Restoring(proc))
  <2>1. Same(proc', proc) => CaUndone'
    BY <1>1 DEF CaUndone, EarlyInv, ReplacingInv, Early, Same
  <2> QED BY <1>1, <1>2, <1>4, <2>1, RollsBack DEF Granting, Early
<1> QED BY <1>3, <1>4 DEF CheckCaps

LEMMA InstallKeeps ==
  ASSUME TrustInv, NEW id \in Extensions, Install(id)
  PROVE  TrustInv'
<1> USE DEF TrustInv
<1>1. /\ proc = Idle /\ UNCHANGED <<manifests, record, files, previous, pending, wrapper, store, anchors, made, stray>>
      /\ Hosts' = Hosts /\ (Linux <=> Linux')
      /\ proc' = Begun("install", id, "manifests", SetToSeq(Hosts))
  BY Steady DEF Install, At, DeviceInv, TrustParts, TypeOK, Steps, disk, Command
<1>2. /\ SetToSeq(Hosts) \in Seq(Hosts) /\ ToSet(SetToSeq(Hosts)) = Hosts /\ SetToSeq(Hosts) # <<>>
      /\ SetToSeq(Hosts) \in Seq(Jobs)
  BY HostsAre, Listed
<1>3. Device \in DeviceType
  BY DEF Device, DeviceType, DeviceInv, TrustParts, TypeOK
<1>4. /\ proc' \in Command /\ proc'.cmd = "install" /\ proc'.id = id /\ proc'.at = "manifests"
      /\ proc'.todo = SetToSeq(Hosts) /\ proc'.written = {} /\ ~proc'.reuse /\ proc'.fresh
      /\ proc'.kept = None /\ proc'.done = {} /\ proc'.ok
      /\ proc'.before.files = files /\ proc'.before.anchors = anchors
      /\ proc'.before.manifests = manifests /\ proc'.before.record = record
  BY <1>1, <1>2, <1>3 DEF Begun, Command, Steps, Device
<1>5. DeviceInv'
  BY <1>1, <1>4, DeviceStays DEF DeviceInv, TrustParts, TypeOK
<1>6. ManifestsInv'
  BY <1>1, <1>2, <1>4 DEF ManifestsInv, Left
<1>7. EarlyInv' /\ ReplacingInv'
  BY <1>1, <1>4 DEF EarlyInv, ReplacingInv
<1> QED BY <1>4, <1>5, <1>6, <1>7, Placed DEF Early

LEMMA WriteManifestKeeps ==
  ASSUME TrustInv, WriteManifest
  PROVE  TrustInv'
<1> USE DEF TrustInv
<1> DEFINE d    == Head(proc.todo)
           p    == [proc EXCEPT !.written = @ \cup {d}]
           next == IF Linux THEN "record" ELSE "caps"
<1>1. /\ proc \in Command /\ proc.at = "manifests" /\ proc.todo \in Seq(Hosts) /\ proc.todo # <<>>
      /\ UNCHANGED <<record, files, previous, pending, wrapper, store, anchors, made, stray>>
      /\ Hosts' = Hosts /\ (Linux <=> Linux')
      /\ d \in Hosts /\ d \in Dirs
  BY Busy, Steady, HeadAndRest, HostsAre DEF WriteManifest, At, DeviceInv, ManifestsInv, Steps
<1>2. CASE /\ manifests' = [manifests EXCEPT ![d] = proc.id]
           /\ Works(Onward(p, next))
  <2>1. /\ p \in Command /\ p.todo = proc.todo /\ p.written = proc.written \cup {d}
        /\ p.cmd = proc.cmd /\ p.id = proc.id /\ p.reuse = proc.reuse /\ p.fresh = proc.fresh
        /\ p.kept = proc.kept /\ p.done = proc.done /\ p.before = proc.before /\ p.ok = proc.ok
        /\ p.at = "manifests" /\ p.slips = proc.slips
    BY <1>1 DEF Command
  <2> HIDE DEF p
  <2>2. /\ proc' \in Command /\ Same(proc', p) /\ proc'.ok = proc.ok
        /\ proc'.at = IF proc'.todo = <<>> THEN next ELSE "manifests"
        /\ proc'.todo \in Seq(Hosts)
        /\ ToSet(proc.todo) = {d} \cup ToSet(proc'.todo)
    <3>1. p.todo \in Seq(Hosts) /\ p.todo # <<>> /\ next \in Steps /\ proc' = Onward(p, next)
      BY <1>1, <1>2, <2>1 DEF Works, Steps
    <3> HIDE DEF next
    <3>2. Hosts \in SUBSET Jobs
      BY HostsAre
    <3>3. LET q == Onward(p, next)
          IN  /\ q \in Command /\ Same(q, p) /\ q.ok = p.ok
              /\ q.todo \in Seq(Hosts)
              /\ ToSet(p.todo) = {Head(p.todo)} \cup ToSet(q.todo)
              /\ q.at = IF q.todo = <<>> THEN next ELSE p.at
      BY <2>1, <3>1, <3>2, Onwards
    <3> QED BY <2>1, <3>1, <3>3
  <2>3. /\ manifests' \in [Dirs -> Extensions \cup {None}]
        /\ manifests'[d] = proc.id
        /\ \A e \in Dirs \ {d} : manifests'[e] = manifests[e]
    BY <1>1, <1>2 DEF DeviceInv, TrustParts, TypeOK, ManifestsInv, Installing, Granting, Early
  <2>4. DeviceInv'
    BY <1>1, <2>2, <2>3, DeviceStays DEF DeviceInv, TrustParts, TypeOK
  <2>5. proc'.todo = <<>> => ToSet(proc'.todo) = {}
    BY DEF ToSet
  <2>6. ManifestsInv'
    BY <1>1, <2>1, <2>2, <2>3, <2>5, HostsAre
       DEF ManifestsInv, Same, Installing, Granting, Early, Trusting, Left
  <2>7. EarlyInv' /\ ReplacingInv'
    BY <1>1, <2>1, <2>2 DEF EarlyInv, ReplacingInv, Same, Early
  <2> QED BY <2>2, <2>4, <2>6, <2>7, Placed DEF Early
<1>3. CASE Fails("file", Restoring(proc)) /\ UNCHANGED manifests
  <2>1. Same(proc', proc) => CaUndone'
    BY <1>1 DEF CaUndone, EarlyInv, ReplacingInv, Early, Same
  <2>2. proc' \in Command => DeviceInv'
    BY <1>1, <1>3, DeviceStays DEF DeviceInv, TrustParts, TypeOK
  <2> QED BY <1>1, <1>3, <2>1, <2>2, RollsBack DEF Granting, Early
<1> QED BY <1>2, <1>3 DEF WriteManifest

LEMMA WriteRecordKeeps ==
  ASSUME TrustInv, WriteRecord
  PROVE  TrustInv'
<1> USE DEF TrustInv
<1>1. /\ proc \in Command /\ proc.at = "record"
      /\ UNCHANGED <<manifests, files, previous, pending, wrapper, store, anchors, made, stray>>
      /\ Hosts' = Hosts /\ (Linux <=> Linux')
  BY Busy, Steady DEF WriteRecord, At, DeviceInv, Steps
<1>2. CASE record' = TRUE /\ Works([proc EXCEPT !.at = "caps", !.written = @ \cup {None}])
  <2>1. /\ proc' \in Command /\ proc'.written = proc.written \cup {None} /\ proc'.at = "caps"
        /\ proc'.cmd = proc.cmd /\ proc'.id = proc.id /\ proc'.reuse = proc.reuse
        /\ proc'.fresh = proc.fresh /\ proc'.kept = proc.kept /\ proc'.done = proc.done
        /\ proc'.before = proc.before /\ proc'.ok = proc.ok
    BY <1>1, <1>2 DEF Works, Command, Steps
  <2>2. DeviceInv' /\ Linux
    BY <1>1, <1>2, <2>1, DeviceStays DEF DeviceInv, TrustParts, TypeOK, ManifestsInv
  <2>3. ManifestsInv'
    BY <1>1, <2>1, <2>2 DEF ManifestsInv, Installing, Granting, Early, Trusting
  <2>4. EarlyInv' /\ ReplacingInv'
    BY <1>1, <2>1 DEF EarlyInv, ReplacingInv, Early
  <2> QED BY <2>1, <2>2, <2>3, <2>4, Placed DEF Early
<1>3. CASE Fails("file", Restoring(proc)) /\ UNCHANGED record
  <2>1. Same(proc', proc) => CaUndone'
    BY <1>1 DEF CaUndone, EarlyInv, ReplacingInv, Early, Same
  <2>2. proc' \in Command => DeviceInv'
    BY <1>1, <1>3, DeviceStays DEF DeviceInv, TrustParts, TypeOK
  <2> QED BY <1>1, <1>3, <2>1, <2>2, RollsBack DEF Granting, Early
<1> QED BY <1>2, <1>3 DEF WriteRecord

LEMMA RestoreWrittenKeeps ==
  ASSUME TrustInv, RestoreWritten
  PROVE  TrustInv'
<1> USE DEF TrustInv
<1> DEFINE d == Head(proc.todo)
           q == Onward(proc, "report")
<1>1. /\ proc \in Command /\ proc.at = "restore" /\ proc.todo \in Seq(proc.written) /\ proc.todo # <<>>
      /\ UNCHANGED <<files, previous, pending, wrapper, store, anchors, made, stray>>
      /\ Hosts' = Hosts /\ (Linux <=> Linux')
      /\ proc.written \in SUBSET Jobs /\ proc.before \in DeviceType /\ proc.slips \in Nat
      /\ proc.written \subseteq Hosts \cup (IF Linux THEN {None} ELSE {})
      /\ proc.cmd = "install" /\ proc.id \in Extensions /\ ~proc.ok /\ proc.slips >= 1
  BY Busy, Steady DEF RestoreWritten, At, DeviceInv, RollbackInv, ManifestsInv, Installing, Steps,
     Command, Jobs
<1>2. LET r == Onward(proc, "report")
      IN  /\ r \in Command /\ Same(r, proc) /\ r.ok = proc.ok /\ r.slips = proc.slips
          /\ r.at = IF r.todo = <<>> THEN "report" ELSE proc.at
          /\ r.todo \in Seq(proc.written)
          /\ ToSet(proc.todo) = {Head(proc.todo)} \cup ToSet(r.todo)
          /\ Head(proc.todo) \in proc.written
  <2>1. "report" \in Steps
    BY DEF Steps
  <2> DEFINE S == proc.written
  <2>2. S \in SUBSET Jobs /\ proc.todo \in Seq(S)
    BY <1>1
  <2> HIDE DEF S
  <2>3. LET r == Onward(proc, "report")
        IN  /\ r \in Command /\ Same(r, proc) /\ r.ok = proc.ok /\ r.slips = proc.slips
            /\ r.at = IF r.todo = <<>> THEN "report" ELSE proc.at
            /\ r.todo \in Seq(S)
            /\ ToSet(proc.todo) = {Head(proc.todo)} \cup ToSet(r.todo)
            /\ Head(proc.todo) \in S
    BY ZenonT(60), <1>1, <2>1, <2>2, Onwards
  <2> QED BY <2>3 DEF S
<1>3. /\ q \in Command /\ Same(q, proc) /\ ~q.ok /\ q.slips = proc.slips
      /\ q.at = IF q.todo = <<>> THEN "report" ELSE "restore"
      /\ q.todo \in Seq(proc.written) /\ ToSet(proc.todo) = {d} \cup ToSet(q.todo)
      /\ d \in proc.written
  BY <1>1, <1>2
<1> HIDE DEF q
<1>8. q.todo = <<>> => ToSet(q.todo) = {}
  BY DEF ToSet
<1>4. ASSUME proc' \in Command, Same(proc', proc), ~proc'.ok, proc'.at = q.at, proc'.todo = q.todo,
             proc'.slips >= 1,
             manifests' \in [Dirs -> Extensions \cup {None}], record' \in BOOLEAN,
             \A e \in Dirs \ Hosts : manifests'[e] = None,
             ~Linux => ~record',
             proc'.slips = 1 =>
               /\ proc.slips = 1
               /\ \A e \in Dirs : e = d \/ manifests'[e] = manifests[e]
               /\ d \in Dirs => manifests'[d] = proc.before.manifests[d]
               /\ record' = IF d = None THEN proc.before.record ELSE record
      PROVE  TrustInv'
  <2>1. DeviceInv'
    BY <1>1, <1>4, DeviceStays DEF DeviceInv, TrustParts, TypeOK
  <2>2. proc'.slips = 1 =>
          /\ \A e \in Dirs : e \in ToSet(q.todo) \/ manifests'[e] = proc.before.manifests[e]
          /\ None \in ToSet(q.todo) \/ record' = proc.before.record
          /\ CaUndone'
    <3>1. SUFFICES ASSUME proc'.slips = 1
          PROVE /\ \A e \in Dirs : e \in ToSet(q.todo) \/ manifests'[e] = proc.before.manifests[e]
                /\ None \in ToSet(q.todo) \/ record' = proc.before.record
                /\ CaUndone'
      OBVIOUS
    <3>2. /\ \A e \in Dirs : e \in ToSet(proc.todo) \/ manifests[e] = proc.before.manifests[e]
          /\ None \in ToSet(proc.todo) \/ record = proc.before.record
          /\ CaUndone
      BY <1>1, <1>4, <3>1 DEF RollbackInv, Left
    <3>3. CaUndone'
      BY <1>1, <1>4, <3>2 DEF CaUndone, Same
    <3> QED BY <1>3, <1>4, <3>1, <3>2, <3>3
  <2>3. CASE q.todo # <<>>
    <3>1. proc'.at = "restore"
      BY <1>3, <1>4, <2>3
    <3>2. ManifestsInv'
      BY <1>1, <1>4, <3>1 DEF ManifestsInv, Same, Installing, Granting, Early, Trusting
    <3>3. RollbackInv'
      BY <1>3, <1>4, <2>2, <2>3, <3>1 DEF RollbackInv, Left, Same
    <3> QED BY <2>1, <3>1, <3>2, <3>3, Placed
  <2>4. CASE q.todo = <<>>
    <3>1. proc'.at = "report" /\ proc'.cmd = "install" /\ ToSet(q.todo) = {}
      BY <1>1, <1>3, <1>4, <1>8, <2>4 DEF Same
    <3>2. proc'.slips = 1 => manifests' = proc.before.manifests
      BY <1>1, <1>4, <2>2, <3>1 DEF DeviceType
    <3>3. FailedInstallRestores'
      BY <1>4, <2>2, <3>1, <3>2 DEF FailedInstallRestores, CaUndone, Same
    <3>4. RemovalInv' /\ InstallLeavesOne'
      BY <1>4, <3>1 DEF RemovalInv, Removals, InstallLeavesOne
    <3> QED BY <2>1, <3>1, <3>3, <3>4, Placed
  <2> QED BY <2>3, <2>4
<1>5. /\ manifests \in [Dirs -> Extensions \cup {None}] /\ record \in BOOLEAN
      /\ \A e \in Dirs \ Hosts : manifests[e] = None
      /\ ~Linux => ~record
      /\ None \notin Dirs
  BY TrustAssumption DEF DeviceInv, TrustParts, TypeOK
<1>6. CASE /\ manifests' = [e \in Dirs |-> IF e = d THEN proc.before.manifests[e] ELSE manifests[e]]
           /\ record' = IF d = None THEN proc.before.record ELSE record
           /\ Works(q)
  <2>1. proc' = q
    BY <1>6 DEF Works
  <2>2. /\ proc.before.manifests \in [Dirs -> Extensions \cup {None}] /\ proc.before.record \in BOOLEAN
        /\ d \in Hosts \/ (d = None /\ Linux)
    BY <1>1, <1>3 DEF DeviceType
  <2>3. /\ manifests' \in [Dirs -> Extensions \cup {None}] /\ record' \in BOOLEAN
        /\ \A e \in Dirs \ Hosts : manifests'[e] = None
        /\ ~Linux => ~record'
        /\ \A e \in Dirs : e = d \/ manifests'[e] = manifests[e]
        /\ d \in Dirs => manifests'[d] = proc.before.manifests[d]
    <3> HIDE DEF d
    <3>1. record' \in BOOLEAN /\ (~Linux => ~record')
      BY <1>5, <1>6, <2>2, HostsAre
    <3>2. manifests' \in [Dirs -> Extensions \cup {None}]
      BY <1>5, <1>6, <2>2
    <3>3. \A e \in Dirs : manifests'[e] = IF e = d THEN proc.before.manifests[e] ELSE manifests[e]
      BY <1>6
    <3> QED BY <1>5, <2>2, <3>1, <3>2, <3>3
  <2> QED BY <1>1, <1>3, <1>4, <1>6, <2>1, <2>3
<1>7. CASE Fails("file", q) /\ UNCHANGED <<manifests, record>>
  <2>1. /\ proc' \in Command /\ Same(proc', q) /\ proc'.at = q.at /\ proc'.todo = q.todo
        /\ proc'.ok = q.ok /\ proc'.slips = q.slips + 1
    BY <1>3, <1>7, FailsTo
  <2>2. Same(proc', proc) /\ proc'.slips > 1
    BY <1>1, <1>3, <2>1 DEF Same
  <2> QED BY <1>1, <1>3, <1>4, <1>5, <1>7, <2>1, <2>2
<1> QED BY <1>6, <1>7 DEF RestoreWritten, q

-----------------------------------------------------------------------------
(* install: the CA.                                                        *)

\* A step that leaves the manifests alone.
LEMMA DeviceMoves ==
  ASSUME DeviceInv, UNCHANGED <<manifests, record, store>>,
         proc' = Idle \/ proc' \in Command,
         made' \in 0 .. MaxCAs, made <= made', pending' \in BOOLEAN, wrapper' \in BOOLEAN,
         files' \in [Files -> CAs \cup {None, Broken}],
         files'["cert"] \in (1 .. made') \cup {None}, previous' \in (1 .. made') \cup {None},
         stray' \subseteq anchors', anchors' \subseteq 1 .. made',
         Linux => anchors' \in {anchors, {}} \/ \E ca : anchors' = {ca},
         AnchorsKnown', KeyOfAnchor'
  PROVE  DeviceInv'
<1>1. Hosts' = Hosts /\ (Linux <=> Linux')
  BY Steady
<1>2. MaxCAs \in Nat /\ made \in Nat /\ made' \in Nat /\ made' <= MaxCAs
  BY TrustAssumption DEF DeviceInv, TrustParts, TypeOK
<1>3. 1 .. made' \subseteq CAs
  BY <1>2 DEF CAs
<1>4. Linux => Cardinality(anchors') <= 1
  <2>1. Cardinality({}) = 0 /\ \A ca : Cardinality({ca}) = 1
    BY FS_EmptySet, FS_Singleton
  <2>2. Linux => Cardinality(anchors) <= 1
    BY DEF DeviceInv, TrustParts, TypeOK
  <2>3. ASSUME Linux, NEW ca, anchors' = {ca} PROVE Cardinality(anchors') <= 1
    <3>1. Cardinality({ca}) = 1
      BY FS_Singleton
    <3>2. Cardinality(anchors') = 1
      BY <2>3, <3>1, Zenon
    <3> QED BY <3>2
  <2>4. ASSUME Linux, anchors' = {} PROVE Cardinality(anchors') <= 1
    BY <2>1, <2>4
  <2>5. ASSUME Linux, anchors' = anchors PROVE Cardinality(anchors') <= 1
    BY <2>2, <2>5
  <2> QED BY <2>3, <2>4, <2>5
<1>5. files'["cert"] # Broken
  BY <1>2, TrustAssumption
<1>6. TypeOK'
  BY <1>1, <1>3, <1>4 DEF DeviceInv, TrustParts, TypeOK, Idle, Command
<1>7. TrustParts'
  BY <1>1, <1>5, <1>6 DEF DeviceInv, TrustParts
<1> QED BY <1>7 DEF DeviceInv

\* What a rollback of the CA does, when the CA was to be replaced.
LEMMA UndoPlanOf ==
  ASSUME NEW p \in Command, ~p.reuse, previous = p.kept, p.fresh <=> p.kept = None
  PROVE  /\ p.fresh \/ ("cert" \in p.done /\ files["cert"] # p.kept)
              => UndoPlan(p) = [f \in p.done |-> None]
         /\ ~p.fresh /\ "cert" \notin p.done =>
              /\ DOMAIN UndoPlan(p) = {g \in {"key", "pub"} : g \in p.done \/ p.before.files[g] # None}
              /\ \A f \in DOMAIN UndoPlan(p) : UndoPlan(p)[f] = p.before.files[f]
BY DEF UndoPlan

LEMMA UndoPlanStays ==
  ASSUME proc \in Command, Same(proc', proc), UNCHANGED previous,
         ~proc.reuse, previous = proc.kept, proc.fresh <=> proc.kept = None,
         ~proc.fresh /\ "cert" \in proc.done =>
           files["cert"] # proc.kept /\ files'["cert"] # proc.kept
  PROVE  (DOMAIN UndoPlan(proc))' = DOMAIN UndoPlan(proc)
<1>1. CASE proc.fresh \/ "cert" \in proc.done
  <2>1. UndoPlan(proc) = [f \in proc.done |-> None]
    BY <1>1, UndoPlanOf
  <2>2. UndoPlan(proc)' = [f \in proc.done |-> None]
    BY <1>1 DEF UndoPlan, Same
  <2> QED BY <2>1, <2>2
<1>2. CASE ~proc.fresh /\ "cert" \notin proc.done
  <2>1. DOMAIN UndoPlan(proc) = {g \in {"key", "pub"} : g \in proc.done \/ proc.before.files[g] # None}
    BY <1>2, UndoPlanOf
  <2>2. (DOMAIN UndoPlan(proc))' = {g \in {"key", "pub"} : g \in proc.done \/ proc.before.files[g] # None}
    BY <1>2 DEF UndoPlan, Same
  <2> QED BY <2>1, <2>2
<1> QED BY <1>1, <1>2

\* And when it was not.
LEMMA NothingToUndo ==
  ASSUME NEW p \in Command,
         \/ p.reuse
         \/ p.done = {} /\ p.fresh
         \/ ~p.fresh /\ p.kept = None
  PROVE  Undoing(p) = Restoring(p)
<1>1. DOMAIN UndoPlan(p) = {}
  BY DEF UndoPlan
<1> QED BY <1>1 DEF Undoing

\* A CA that cannot be had: its files come first, then the manifests.
LEMMA UndoStarts ==
  ASSUME TrustInv, NEW call, Fails(call, Undoing(proc)), proc.at \in {"decide", "save", "files", "trust"},
         UNCHANGED <<manifests, record, files, previous, pending, store, made>>,
         proc' \in Command => DeviceInv',
         store # "debian" => anchors' \subseteq anchors,
         store = "keychain" => UNCHANGED <<anchors, stray>>
  PROVE  TrustInv'
<1> USE DEF TrustInv
<1>1. /\ proc \in Command /\ proc.slips \in Nat /\ proc.before \in DeviceType /\ proc.done \subseteq Files
      /\ Hosts' = Hosts /\ (Linux <=> Linux')
      /\ files \in [Files -> CAs \cup {None, Broken}]
  BY Busy, Steady DEF DeviceInv, TrustParts, TypeOK, Steps, Command
<1>2. store # "debian" => anchors' \subseteq proc.before.anchors
  BY DEF ReplacingInv, Early
<1>3. CASE Undoing(proc) = Restoring(proc) /\
           ((proc.reuse \/ (~proc.fresh /\ "cert" \notin proc.done)) => files = proc.before.files)
  <2>1. Same(proc', proc) => CaUndone'
    BY <1>2, <1>3 DEF CaUndone, Same
  <2> QED BY <1>1, <1>3, <2>1, RollsBack DEF Granting, Early
<1>4. CASE proc.at \in {"decide", "save"} \/ (proc.at = "trust" /\ proc.reuse)
  <2>1. \/ proc.reuse /\ files = proc.before.files
        \/ proc.done = {} /\ proc.fresh /\ files = proc.before.files
        \/ ~proc.fresh /\ proc.kept = None /\ files = proc.before.files
    BY <1>4 DEF EarlyInv, ReplacingInv, Early
  <2> QED BY <1>1, <1>3, <2>1, NothingToUndo
<1>5. CASE proc.at = "files" \/ (proc.at = "trust" /\ ~proc.reuse)
  <2>1. /\ ~proc.reuse /\ previous = proc.kept /\ (proc.fresh <=> proc.kept = None)
        /\ previous # made /\ made \in CAs
        /\ "cert" \in proc.done => files["cert"] = made
        /\ "cert" \notin proc.done => \A f \in Files \ proc.done : files[f] = proc.before.files[f]
    BY <1>5 DEF ReplacingInv, Files
  <2>2. /\ proc.fresh \/ "cert" \in proc.done => UndoPlan(proc) = [f \in proc.done |-> None]
        /\ ~proc.fresh /\ "cert" \notin proc.done =>
             /\ DOMAIN UndoPlan(proc) = {g \in {"key", "pub"} : g \in proc.done \/ proc.before.files[g] # None}
             /\ \A f \in DOMAIN UndoPlan(proc) : UndoPlan(proc)[f] = proc.before.files[f]
    BY <1>1, <2>1, UndoPlanOf
  <2> DEFINE F == DOMAIN UndoPlan(proc)
  <2>3. F \in SUBSET Files
    BY <1>1, <2>2 DEF Files
  <2>4. ~proc.fresh /\ "cert" \notin proc.done => \A f \in Files : f \in F \/ files[f] = proc.before.files[f]
    BY <2>1, <2>2 DEF Files
  <2>5. CASE F = {}
    <3>1. Undoing(proc) = Restoring(proc)
      BY <2>5 DEF Undoing
    <3>2. ~proc.fresh /\ "cert" \notin proc.done => files = proc.before.files
      BY <1>1, <2>4, <2>5 DEF DeviceType
    <3> QED BY <1>3, <2>1, <3>1, <3>2
  <2>6. CASE F # {}
    <3> DEFINE q == [proc EXCEPT !.at = "undo", !.todo = InOrder(F)]
    <3>1. /\ InOrder(F) \in Seq(F) /\ ToSet(InOrder(F)) = F /\ InOrder(F) # <<>>
          /\ InOrder(F) \in Seq(Jobs)
      <4> HIDE DEF F
      <4>1. InOrder(F) \in Seq(F) /\ ToSet(InOrder(F)) = F /\ InOrder(F) # <<>>
        BY <2>3, <2>6, FilesInOrder
      <4>2. F \subseteq Jobs
        BY <2>3 DEF Jobs
      <4> QED BY <4>1, <4>2
    <3>2. Undoing(proc) = q
      BY <2>6 DEF Undoing
    <3> HIDE DEF F
    <3>3. /\ q \in Command /\ Same(q, proc) /\ q.at = "undo" /\ q.todo = InOrder(F)
          /\ q.slips = proc.slips
      BY <1>1, <3>1 DEF Command, Same, Steps
    <3> HIDE DEF q
    <3>4. /\ proc' \in Command /\ Same(proc', proc) /\ proc'.at = "undo" /\ proc'.todo = InOrder(F)
          /\ proc'.slips >= 1
      <4>1. /\ proc' \in Command /\ Same(proc', q) /\ proc'.at = q.at /\ proc'.todo = q.todo
            /\ proc'.slips = q.slips + 1
        BY <3>2, <3>3, FailsTo
      <4> QED BY <1>1, <3>3, <4>1 DEF Same
    <3>5. DeviceInv'
      BY <3>4
    <3>6. ManifestsInv'
      BY <1>1, <3>4 DEF ManifestsInv, Same, Installing, Granting, Early, Trusting
    <3>7. ReplacingInv'
      BY <1>1, <1>2, <1>5, <2>1, <3>4 DEF ReplacingInv, Same, Early, Known, Files
    <3>8. (DOMAIN UndoPlan(proc))' = F
      BY <1>1, <2>1, <3>4, UndoPlanStays DEF F
    <3>9. RollbackInv'
      BY <2>4, <3>1, <3>4, <3>8 DEF RollbackInv, Same, Left
    <3> QED BY <3>4, <3>5, <3>6, <3>7, <3>9, Placed
  <2> QED BY <2>5, <2>6
<1> QED BY <1>4, <1>5

LEMMA DecideKeeps ==
  ASSUME TrustInv, Decide
  PROVE  TrustInv'
<1> USE DEF TrustInv
<1> DEFINE live == files["cert"]
           new  == [proc EXCEPT !.fresh = (live = None /\ previous = None)]
<1>1. /\ proc \in Command /\ proc.at = "decide"
      /\ UNCHANGED <<manifests, record, files, previous, pending, wrapper, store, anchors, stray>>
      /\ Hosts' = Hosts /\ (Linux <=> Linux')
      /\ files = proc.before.files /\ ~proc.reuse /\ proc.done = {} /\ proc.kept = None /\ proc.fresh
      /\ store # "debian" => anchors \subseteq proc.before.anchors
      /\ live \in CAs \cup {None} /\ previous \in CAs \cup {None}
      /\ live \in (1 .. made) \cup {None} /\ previous \in (1 .. made) \cup {None}
      /\ anchors \subseteq 1 .. made /\ made \in 0 .. MaxCAs /\ None \notin Nat
  BY Busy, Steady, TrustAssumption DEF Decide, At, DeviceInv, TrustParts, TypeOK, Steps, disk, EarlyInv,
     ReplacingInv, Early, CAs
<1>2. CASE Reusable /\ Works([proc EXCEPT !.at = "trust", !.reuse = TRUE]) /\ UNCHANGED made
  <2>1. /\ proc' \in Command /\ proc'.at = "trust" /\ proc'.reuse /\ proc'.cmd = proc.cmd
        /\ proc'.id = proc.id /\ proc'.written = proc.written /\ proc'.before = proc.before
        /\ proc'.ok = proc.ok
    BY ZenonT(60), <1>1, <1>2 DEF Works, Command, Steps
  <2>2. DeviceInv'
    BY <1>1, <1>2, <2>1, DeviceStays DEF DeviceInv, TrustParts, TypeOK
  <2>3. ManifestsInv'
    BY <1>1, <2>1 DEF ManifestsInv, Installing, Granting, Early, Trusting
  <2>4. Reusable'
    BY <1>1, <1>2 DEF Reusable, CAs
  <2>5. ReplacingInv'
    BY <1>1, <2>1, <2>4 DEF ReplacingInv, Early
  <2> QED BY <2>1, <2>2, <2>3, <2>5, Placed
<1>3. CASE Fails("file", Undoing(proc)) /\ UNCHANGED made
  <2>1. proc' \in Command => DeviceInv'
    BY <1>1, <1>3, DeviceStays DEF DeviceInv, TrustParts, TypeOK
  <2> QED BY <1>1, <1>3, <2>1, UndoStarts
<1>4. ASSUME made < MaxCAs, made' = made + 1, proc' \in Command, proc'.cmd = proc.cmd,
             proc'.id = proc.id, proc'.written = proc.written, proc'.before = proc.before,
             proc'.ok = proc.ok, proc'.at \in {"sibling", "save", "files"}
      PROVE  /\ DeviceInv' /\ ManifestsInv'
             /\ made' \in CAs /\ made' \notin anchors /\ live # made' /\ previous # made'
  <2>1. made' \in 0 .. MaxCAs /\ made <= made' /\ made' \in CAs /\ 1 .. made \subseteq 1 .. made'
        /\ made' \notin 1 .. made /\ made' # None
    <3>1. made \in Nat /\ MaxCAs \in Nat
      BY <1>1, TrustAssumption
    <3> QED BY <1>1, <1>4, <3>1 DEF CAs
  <2>2. AnchorsKnown' /\ KeyOfAnchor'
    BY <1>1 DEF DeviceInv, AnchorsKnown, KeyOfAnchor, Known
  <2>3. DeviceInv'
    BY <1>1, <1>4, <2>1, <2>2, DeviceMoves DEF DeviceInv, TrustParts, TypeOK
  <2>4. ManifestsInv'
    BY <1>1, <1>4 DEF ManifestsInv, Installing, Granting, Early, Trusting
  <2> QED BY <1>1, <2>1, <2>3, <2>4
<1>5. CASE /\ ~Reusable /\ made < MaxCAs /\ made' = made + 1
           /\ live = None /\ Works(Writing([new EXCEPT !.kept = previous]))
  <2>1. Order \in Seq(Jobs)
    BY DEF Order, Jobs, Files
  <2>2. /\ proc' \in Command /\ proc'.at = "files" /\ proc'.todo = Order /\ proc'.kept = previous
        /\ proc'.fresh <=> previous = None
        /\ ~proc'.reuse /\ proc'.done = {} /\ proc'.cmd = proc.cmd
        /\ proc'.id = proc.id /\ proc'.written = proc.written /\ proc'.before = proc.before
        /\ proc'.ok = proc.ok
    BY ZenonT(60), <1>1, <1>5, <2>1 DEF Works, Writing, Command, Steps
  <2>3. /\ DeviceInv' /\ ManifestsInv'
        /\ made' \in CAs /\ made' \notin anchors /\ live # made' /\ previous # made'
    BY <1>4, <1>5, <2>2
  <2>4. Known => anchors \subseteq {previous} \cup stray
    BY <1>1, <1>5 DEF DeviceInv, AnchorsKnown, Known
  <2>5. ReplacingInv'
    BY <1>1, <1>5, <2>2, <2>3, <2>4 DEF ReplacingInv, Early, Order, Known
  <2> QED BY <2>2, <2>3, <2>5, Placed
<1>6. CASE /\ ~Reusable /\ made < MaxCAs /\ made' = made + 1 /\ live # None
           /\ Works([new EXCEPT !.at = IF previous \in {None, live} THEN "save" ELSE "sibling"])
  <2>1. /\ proc' \in Command
        /\ proc'.at = IF previous \in {None, live} THEN "save" ELSE "sibling"
        /\ ~proc'.fresh /\ proc'.kept = None
        /\ ~proc'.reuse /\ proc'.done = {} /\ proc'.cmd = proc.cmd
        /\ proc'.id = proc.id /\ proc'.written = proc.written /\ proc'.before = proc.before
        /\ proc'.ok = proc.ok
    BY ZenonT(60), <1>1, <1>6 DEF Works, Command, Steps
  <2>2. /\ DeviceInv' /\ ManifestsInv'
        /\ made' \in CAs /\ made' \notin anchors /\ live # made' /\ previous # made'
    BY <1>4, <1>6, <2>1
  <2>3. Known /\ previous \in {None, live} => anchors \subseteq {live} \cup stray
    BY <1>1 DEF DeviceInv, AnchorsKnown, Known
  <2>4. EarlyInv' /\ ReplacingInv'
    BY <1>1, <1>6, <2>1, <2>2, <2>3 DEF EarlyInv, ReplacingInv, Early, Known
  <2> QED BY <2>1, <2>2, <2>4, Placed DEF Early
<1> QED BY <1>2, <1>3, <1>5, <1>6 DEF Decide

LEMMA RetireSiblingKeeps ==
  ASSUME TrustInv, RetireSibling
  PROVE  TrustInv'
<1> USE DEF TrustInv
<1>1. /\ proc \in Command /\ proc.at = "sibling"
      /\ UNCHANGED <<manifests, record, files, previous, pending, wrapper, store, made>>
      /\ Hosts' = Hosts /\ (Linux <=> Linux')
      /\ stray \subseteq anchors
  BY Busy, Steady DEF RetireSibling, At, DeviceInv, TrustParts, TypeOK, Steps, disk
<1>2. /\ anchors' \subseteq anchors /\ stray' \subseteq anchors'
      /\ anchors' \cap stray \subseteq stray'
      /\ store = "keychain" => previous \notin anchors' \ stray'
      /\ Linux => anchors' = anchors
      /\ \/ Works([proc EXCEPT !.at = "save"])
         \/ Fails("retire", [proc EXCEPT !.at = "save"])
  BY <1>1 DEF RetireSibling, Retire, Linux
<1>3. proc' \in Command /\ Same(proc', proc) /\ proc'.at = "save" /\ proc'.ok = proc.ok
  <2> DEFINE p == [proc EXCEPT !.at = "save"]
  <2>1. p \in Command /\ Same(p, proc) /\ p.at = "save" /\ p.ok = proc.ok
    BY <1>1 DEF Command, Steps, Same
  <2> HIDE DEF p
  <2>2. CASE Works(p)
    BY <2>1, <2>2 DEF Works
  <2>3. CASE Fails("retire", p)
    BY <2>1, <2>3, FailsTo DEF Same
  <2> QED BY <1>2, <2>2, <2>3 DEF p
<1>4. AnchorsKnown' /\ KeyOfAnchor'
  BY <1>1, <1>2 DEF DeviceInv, AnchorsKnown, KeyOfAnchor, Known
<1>5. DeviceInv'
  <2>1. made \in Nat /\ made \in 0 .. MaxCAs
    BY DEF DeviceInv, TrustParts, TypeOK
  <2> QED BY <1>1, <1>2, <1>3, <1>4, <2>1, DeviceMoves DEF DeviceInv, TrustParts, TypeOK
<1>6. ManifestsInv'
  BY <1>1, <1>3 DEF ManifestsInv, Same, Installing, Granting, Early, Trusting
<1>7. EarlyInv'
  BY <1>1, <1>2, <1>3 DEF EarlyInv, Same, Early, Known, DeviceInv, AnchorsKnown
<1>8. ReplacingInv'
  BY <1>1, <1>2, <1>3 DEF ReplacingInv, Same, Early
<1> QED BY <1>3, <1>5, <1>6, <1>7, <1>8, Placed DEF Early

LEMMA SavePreviousKeeps ==
  ASSUME TrustInv, SavePrevious
  PROVE  TrustInv'
<1> USE DEF TrustInv
<1>1. /\ proc \in Command /\ proc.at = "save"
      /\ UNCHANGED <<manifests, record, files, pending, wrapper, store, anchors, made, stray>>
      /\ Hosts' = Hosts /\ (Linux <=> Linux')
      /\ files = proc.before.files /\ ~proc.reuse /\ proc.done = {} /\ proc.kept = None /\ ~proc.fresh
      /\ files["cert"] \in CAs \cup {None} /\ files["cert"] # None
      /\ made \in CAs /\ made \notin anchors /\ files["cert"] # made
  BY Busy, Steady DEF SavePrevious, At, DeviceInv, TrustParts, TypeOK, Steps, EarlyInv, Early, Files
<1>2. CASE previous' = files["cert"] /\ Works(Writing([proc EXCEPT !.kept = files["cert"]]))
  <2>1. Order \in Seq(Jobs)
    BY DEF Order, Jobs, Files
  <2>2. /\ proc' \in Command /\ proc'.at = "files" /\ proc'.todo = Order /\ proc'.kept = files["cert"]
        /\ ~proc'.fresh /\ ~proc'.reuse /\ proc'.done = {} /\ proc'.cmd = proc.cmd
        /\ proc'.id = proc.id /\ proc'.written = proc.written /\ proc'.before = proc.before
        /\ proc'.ok = proc.ok
    BY ZenonT(60), <1>1, <1>2, <2>1 DEF Works, Writing, Command, Steps
  <2>3. Known => anchors \subseteq {files["cert"]} \cup stray
    BY <1>1 DEF EarlyInv
  <2>4. AnchorsKnown' /\ KeyOfAnchor'
    BY <1>1, <1>2, <2>3 DEF DeviceInv, AnchorsKnown, KeyOfAnchor, Known
  <2>5. DeviceInv'
    <3>1. made \in Nat /\ made \in 0 .. MaxCAs
      BY DEF DeviceInv, TrustParts, TypeOK
    <3> QED BY <1>1, <1>2, <2>2, <2>4, <3>1, DeviceMoves DEF DeviceInv, TrustParts, TypeOK
  <2>6. ManifestsInv'
    BY <1>1, <2>2 DEF ManifestsInv, Installing, Granting, Early, Trusting
  <2>7. Known /\ files["key"] = None => files["cert"] \notin anchors \ stray
    BY DEF DeviceInv, KeyOfAnchor
  <2>8. ReplacingInv'
    BY <1>1, <1>2, <2>2, <2>3, <2>7 DEF ReplacingInv, Early, Order, Known
  <2> QED BY <2>2, <2>5, <2>6, <2>8, Placed
<1>3. CASE Fails("file", Undoing(proc)) /\ UNCHANGED previous
  <2>1. proc' \in Command => DeviceInv'
    BY <1>1, <1>3, DeviceStays DEF DeviceInv, TrustParts, TypeOK
  <2> QED BY <1>1, <1>3, <2>1, UndoStarts
<1> QED BY <1>2, <1>3 DEF SavePrevious

LEMMA WriteFileKeeps ==
  ASSUME TrustInv, WriteFile
  PROVE  TrustInv'
<1> USE DEF TrustInv
<1> DEFINE f == Head(proc.todo)
           p == [proc EXCEPT !.done = @ \cup {f}]
<1>1. /\ proc \in Command /\ proc.at = "files"
      /\ UNCHANGED <<manifests, record, previous, pending, wrapper, store, anchors, made, stray>>
      /\ Hosts' = Hosts /\ (Linux <=> Linux')
      /\ files \in [Files -> CAs \cup {None, Broken}] /\ proc.before \in DeviceType
  BY Busy, Steady DEF WriteFile, At, DeviceInv, TrustParts, TypeOK, Steps, Command
<1>2. /\ ~proc.reuse /\ previous = proc.kept /\ (proc.fresh <=> proc.kept = None)
      /\ made \in CAs /\ previous # made
      /\ store = "keychain" => made \notin anchors
      /\ Known => anchors \subseteq {previous} \cup stray
      /\ \A g \in proc.done : files[g] = made
      /\ \A g \in Files \ proc.done : files[g] = proc.before.files[g]
      /\ "cert" \notin proc.done =>
           /\ files["cert"] \in {None, previous} /\ files["cert"] = proc.before.files["cert"]
           /\ Known /\ proc.before.files["key"] = None => files["cert"] \notin anchors \ stray
  BY <1>1 DEF ReplacingInv
<1>3. /\ f \in Files /\ "cert" \notin proc.done
      /\ \/ f = "key" /\ proc.done = {} /\ Len(proc.todo) > 1 /\ Tail(proc.todo) = <<"pub", "cert">>
         \/ f = "pub" /\ proc.done = {"key"} /\ Len(proc.todo) > 1 /\ Tail(proc.todo) = <<"cert">>
         \/ f = "cert" /\ proc.done = {"key", "pub"} /\ ~ (Len(proc.todo) > 1)
  <2>1. CASE proc.todo = <<"key", "pub", "cert">> /\ proc.done = {}
    BY <2>1 DEF Files
  <2>2. CASE proc.todo = <<"pub", "cert">> /\ proc.done = {"key"}
    BY <2>2 DEF Files
  <2>3. CASE proc.todo = <<"cert">> /\ proc.done = {"key", "pub"}
    BY <2>3 DEF Files
  <2> QED BY <1>1, <2>1, <2>2, <2>3 DEF ReplacingInv
<1>4. /\ p \in Command /\ p.todo = proc.todo /\ p.done = proc.done \cup {f} /\ p.at = "files"
      /\ p.cmd = proc.cmd /\ p.id = proc.id /\ p.written = proc.written /\ p.reuse = proc.reuse
      /\ p.fresh = proc.fresh /\ p.kept = proc.kept /\ p.before = proc.before /\ p.ok = proc.ok
  BY <1>1, <1>3 DEF Command
<1> HIDE DEF f, p
<1>5. CASE files' = [files EXCEPT ![f] = made] /\ Works(Onward(p, "trust"))
  <2>1. /\ proc' \in Command /\ proc'.done = proc.done \cup {f}
        /\ proc'.cmd = proc.cmd /\ proc'.id = proc.id /\ proc'.written = proc.written
        /\ proc'.reuse = proc.reuse /\ proc'.fresh = proc.fresh /\ proc'.kept = proc.kept
        /\ proc'.before = proc.before /\ proc'.ok = proc.ok
        /\ IF Len(proc.todo) > 1 THEN proc'.at = "files" /\ proc'.todo = Tail(proc.todo)
           ELSE proc'.at = "trust"
    <3>1. CASE Len(proc.todo) > 1
      <4>1. <<"pub", "cert">> \in Seq(Jobs) /\ <<"cert">> \in Seq(Jobs)
        BY DEF Jobs, Files
      <4>2. Tail(proc.todo) \in Seq(Jobs)
        BY <1>3, <3>1, <4>1
      <4>3. proc' = [p EXCEPT !.todo = Tail(proc.todo)]
        BY <1>4, <1>5, <3>1 DEF Works, Onward
      <4> QED BY <1>4, <3>1, <4>2, <4>3 DEF Command
    <3>2. CASE ~ (Len(proc.todo) > 1)
      <4>1. proc' = [p EXCEPT !.at = "trust", !.todo = <<>>] /\ <<>> \in Seq(Jobs)
        BY <1>4, <1>5, <3>2 DEF Works, Onward
      <4>2. proc' \in Command /\ Same(proc', p) /\ proc'.ok = p.ok /\ proc'.at = "trust"
        BY <1>4, <4>1 DEF Command, Steps, Same
      <4> QED BY <1>4, <3>2, <4>2 DEF Same
    <3> QED BY <3>1, <3>2
  <2>2. /\ files' \in [Files -> CAs \cup {None, Broken}]
        /\ files'[f] = made /\ \A g \in Files \ {f} : files'[g] = files[g]
        /\ "key" \in Files /\ "pub" \in Files /\ "cert" \in Files
    BY <1>1, <1>2, <1>3, <1>5 DEF Files
  <2>3. \A g \in Files : files'[g] = IF g \in proc'.done THEN made ELSE proc.before.files[g]
    BY <1>1, <1>2, <1>3, <2>1, <2>2
  <2>4. AnchorsKnown'
    BY <1>1, <1>2 DEF AnchorsKnown, Known
  <2>5. KeyOfAnchor'
    BY <1>1, <1>2, <1>3, <2>1, <2>2, TrustAssumption
       DEF DeviceInv, KeyOfAnchor, Known, CAs
  <2>6. DeviceInv'
    <3>1. /\ made \in Nat /\ made \in 0 .. MaxCAs /\ made \in 1 .. made /\ made # Broken
      BY <1>2, TrustAssumption DEF DeviceInv, TrustParts, TypeOK, CAs
    <3>2. files'["cert"] \in (1 .. made) \cup {None}
      BY <1>3, <2>2, <3>1 DEF DeviceInv, TrustParts
    <3> QED BY <1>1, <2>1, <2>2, <2>4, <2>5, <3>1, <3>2, DeviceMoves DEF DeviceInv, TrustParts, TypeOK
  <2>7. ManifestsInv'
    BY <1>1, <2>1 DEF ManifestsInv, Installing, Granting, Early, Trusting
  <2>8. (proc'.at = "files") =>
          /\ \/ proc'.todo = <<"pub", "cert">> /\ proc'.done = {"key"}
             \/ proc'.todo = <<"cert">> /\ proc'.done = {"key", "pub"}
          /\ "cert" \notin proc'.done /\ f # "cert"
    BY <1>3, <2>1
  <2>9. (proc'.at = "trust") => proc'.done = Files
    BY <1>3, <2>1 DEF Files
  <2>10. proc'.at \in {"files", "trust"}
    BY <2>1
  <2>11. ReplacingInv'
    <3>1. CASE proc'.at = "files"
      BY <1>1, <1>2, <2>1, <2>2, <2>3, <2>8, <3>1 DEF ReplacingInv, Early, Known
    <3>2. CASE proc'.at = "trust"
      <4>1. \A g \in Files : files'[g] = made
        BY <2>3, <2>9, <3>2
      <4>2. Reusable'
        BY <1>1, <1>2, <2>2, <4>1 DEF Reusable, CAs
      <4> QED BY <1>1, <1>2, <2>1, <2>2, <2>9, <3>2, <4>1, <4>2 DEF ReplacingInv, Early, Known
    <3> QED BY <2>10, <3>1, <3>2
  <2> QED BY <2>6, <2>7, <2>10, <2>11, Placed
<1>6. CASE Fails("file", Undoing(proc)) /\ UNCHANGED files
  <2>1. proc' \in Command => DeviceInv'
    BY <1>1, <1>6, DeviceStays DEF DeviceInv, TrustParts, TypeOK
  <2> QED BY <1>1, <1>6, <2>1, UndoStarts
<1> QED BY <1>5, <1>6 DEF WriteFile, f, p

LEMMA TrustCaKeeps ==
  ASSUME TrustInv, TrustCa
  PROVE  TrustInv'
<1> USE DEF TrustInv
<1> DEFINE ca == files["cert"]
<1>1. /\ proc \in Command /\ proc.at = "trust"
      /\ UNCHANGED <<manifests, record, files, previous, pending, wrapper, store, made>>
      /\ Hosts' = Hosts /\ (Linux <=> Linux')
      /\ stray' = stray \cap anchors'
      /\ stray \subseteq anchors /\ anchors \subseteq 1 .. made /\ made \in 0 .. MaxCAs /\ made \in Nat
      /\ Reusable /\ ca \in CAs /\ ca \in 1 .. made /\ ca # None
      /\ proc.reuse \/ previous = proc.kept
  BY Busy, Steady, TrustAssumption DEF TrustCa, At, DeviceInv, TrustParts, TypeOK, Steps, disk, ReplacingInv,
     Reusable, CAs
<1>2. ASSUME proc' = Idle \/ proc' \in Command,
             \/ anchors' = Trusted(ca)
             \/ UNCHANGED anchors
             \/ store = "p11kit" /\ anchors' = {}
      PROVE  DeviceInv'
  <2>1. /\ anchors' \subseteq 1 .. made
        /\ Linux => anchors' \in {anchors, {}} \/ \E c : anchors' = {c}
        /\ store = "keychain" => anchors' \subseteq anchors \cup {ca} /\ stray' = stray
    BY <1>1, <1>2 DEF Trusted, Linux
  <2>2. AnchorsKnown'
    BY <1>1, <2>1 DEF DeviceInv, AnchorsKnown
  <2>3. KeyOfAnchor'
    BY <1>1, TrustAssumption DEF KeyOfAnchor, Reusable, CAs
  <2>4. stray' \subseteq anchors' /\ made <= made' /\ made' \in 0 .. MaxCAs
    BY <1>1
  <2> QED BY <2>4, <1>1, <1>2, <2>1, <2>2, <2>3, DeviceMoves DEF DeviceInv, TrustParts, TypeOK
<1> DEFINE next == CASE Outgoing = None -> "unmark"
                     [] Outgoing = ca -> "discard"
                     [] OTHER -> "retire"
<1>3. CASE anchors' = Trusted(ca) /\ Works([proc EXCEPT !.at = next])
  <2>1. /\ next \in {"unmark", "discard", "retire"}
        /\ next = "unmark" => Outgoing = None
        /\ next = "discard" => Outgoing = ca
        /\ next = "retire" => Outgoing # None /\ Outgoing # ca
    BY <1>1
  <2>2. Outgoing = previous
    BY <1>1 DEF Outgoing
  <2> HIDE DEF next
  <2>3. proc' \in Command /\ Same(proc', proc) /\ proc'.at = next /\ proc'.ok = proc.ok
    BY <1>1, <1>3, <2>1 DEF Works, Command, Steps, Same
  <2>4. DeviceInv'
    BY <1>2, <1>3, <2>3
  <2>5. ManifestsInv'
    BY <1>1, <2>1, <2>3 DEF ManifestsInv, Same, Installing, Granting, Early, Trusting
  <2>6. Reusable' /\ Outgoing' = Outgoing
    BY <1>1, <2>3 DEF Reusable, CAs, Outgoing, Same
  <2>7. ca \in anchors' /\ (Linux => anchors' = {ca})
    BY <1>3 DEF Trusted, Linux
  <2>8. Known' /\ next \in {"unmark", "discard"} => anchors' \subseteq {ca} \cup stray'
    <3>1. None \notin anchors'
      <4>1. anchors' \subseteq 1 .. made
        BY <1>1, <1>3 DEF Trusted
      <4>2. None \notin Nat
        BY TrustAssumption
      <4>3. 1 .. made \subseteq Nat
        OBVIOUS
      <4> QED BY <4>1, <4>2, <4>3
    <3>2. Known' => anchors' \subseteq {ca, previous} \cup stray'
      BY <1>1, <2>4 DEF DeviceInv, AnchorsKnown, Known
    <3> QED BY <2>1, <2>2, <3>1, <3>2
  <2>9. TrustingInv'
    BY <1>1, <2>1, <2>2, <2>3, <2>6, <2>7, <2>8 DEF TrustingInv, Trusting
  <2> QED BY <2>1, <2>3, <2>4, <2>5, <2>9, Placed DEF Trusting
<1>4. CASE /\ Fails("trust", Undoing(proc))
           /\ \/ UNCHANGED anchors
              \/ store = "debian" /\ anchors' = Trusted(ca)
              \/ store = "p11kit" /\ anchors' = {}
  <2>1. proc' \in Command => DeviceInv'
    BY <1>2, <1>4
  <2>2. /\ store # "debian" => anchors' \subseteq anchors
        /\ store = "keychain" => UNCHANGED <<anchors, stray>>
    BY <1>1, <1>4
  <2> QED BY <1>1, <1>4, <2>1, <2>2, UndoStarts
<1> QED BY <1>3, <1>4 DEF TrustCa

LEMMA RetireOutgoingKeeps ==
  ASSUME TrustInv, RetireOutgoing
  PROVE  TrustInv'
<1> USE DEF TrustInv
<1>1. /\ proc \in Command /\ proc.at = "retire"
      /\ UNCHANGED <<manifests, record, files, previous, pending, wrapper, store, made>>
      /\ Hosts' = Hosts /\ (Linux <=> Linux')
      /\ stray \subseteq anchors
      /\ Reusable /\ files["cert"] \in anchors /\ (Linux => anchors = {files["cert"]})
      /\ Outgoing = previous /\ previous # files["cert"]
  BY Busy, Steady DEF RetireOutgoing, At, DeviceInv, TrustParts, TypeOK, Steps, disk, TrustingInv, Trusting
<1>2. /\ anchors' \subseteq anchors /\ stray' \subseteq anchors' /\ files["cert"] \in anchors'
      /\ anchors' \cap stray \subseteq stray'
      /\ store = "keychain" => previous \notin anchors' \ stray'
      /\ Linux => anchors' = anchors
      /\ \/ Works([proc EXCEPT !.at = "discard"])
         \/ Fails("retire", [proc EXCEPT !.at = "discard"])
  BY <1>1 DEF RetireOutgoing, Retire, Linux
<1>3. proc' \in Command /\ Same(proc', proc) /\ proc'.at = "discard" /\ proc'.ok = proc.ok
  <2> DEFINE p == [proc EXCEPT !.at = "discard"]
  <2>1. p \in Command /\ Same(p, proc) /\ p.at = "discard" /\ p.ok = proc.ok
    BY <1>1 DEF Command, Steps, Same
  <2> HIDE DEF p
  <2>2. CASE Works(p)
    BY <2>1, <2>2 DEF Works
  <2>3. CASE Fails("retire", p)
    BY <2>1, <2>3, FailsTo DEF Same
  <2> QED BY <1>2, <2>2, <2>3 DEF p
<1>4. AnchorsKnown' /\ KeyOfAnchor'
  BY <1>1, <1>2 DEF DeviceInv, AnchorsKnown, KeyOfAnchor, Known
<1>5. DeviceInv'
  <2>1. made \in Nat /\ made \in 0 .. MaxCAs
    BY DEF DeviceInv, TrustParts, TypeOK
  <2> QED BY <1>1, <1>2, <1>3, <1>4, <2>1, DeviceMoves DEF DeviceInv, TrustParts, TypeOK
<1>6. ManifestsInv'
  BY <1>1, <1>3 DEF ManifestsInv, Same, Installing, Granting, Early, Trusting
<1>7. Reusable'
  BY <1>1 DEF Reusable, CAs
<1>8. Known' => anchors' \subseteq {files["cert"]} \cup stray'
  BY <1>1, <1>2 DEF Known, DeviceInv, AnchorsKnown
<1>9. TrustingInv'
  BY <1>1, <1>2, <1>3, <1>7, <1>8 DEF TrustingInv, Trusting
<1> QED BY <1>3, <1>5, <1>6, <1>9, Placed DEF Trusting

LEMMA DiscardPreviousKeeps ==
  ASSUME TrustInv, DiscardPrevious
  PROVE  TrustInv'
<1> USE DEF TrustInv
<1>1. /\ proc \in Command /\ proc.at = "discard"
      /\ UNCHANGED <<manifests, record, files, pending, wrapper, store, anchors, made, stray>>
      /\ Hosts' = Hosts /\ (Linux <=> Linux')
  BY Busy, Steady DEF DiscardPrevious, At, DeviceInv, Steps
<1>2. /\ previous' \in {None, previous}
      /\ \/ Works([proc EXCEPT !.at = "unmark"])
         \/ Fails("file", [proc EXCEPT !.at = "unmark"])
  BY DEF DiscardPrevious
<1>3. proc' \in Command /\ Same(proc', proc) /\ proc'.at = "unmark" /\ proc'.ok = proc.ok
  <2> DEFINE p == [proc EXCEPT !.at = "unmark"]
  <2>1. p \in Command /\ Same(p, proc) /\ p.at = "unmark" /\ p.ok = proc.ok
    BY <1>1 DEF Command, Steps, Same
  <2> HIDE DEF p
  <2>2. CASE Works(p)
    BY <2>1, <2>2 DEF Works
  <2>3. CASE Fails("file", p)
    BY <2>1, <2>3, FailsTo DEF Same
  <2> QED BY <1>2, <2>2, <2>3 DEF p
<1>4. Known => anchors \subseteq {files["cert"]} \cup stray
  BY <1>1 DEF TrustingInv
<1>5. AnchorsKnown' /\ KeyOfAnchor'
  BY <1>1, <1>4 DEF DeviceInv, AnchorsKnown, KeyOfAnchor, Known
<1>6. DeviceInv'
  <2>1. made \in Nat /\ made \in 0 .. MaxCAs
    BY DEF DeviceInv, TrustParts, TypeOK
  <2> QED BY <1>1, <1>2, <1>3, <1>5, <2>1, DeviceMoves DEF DeviceInv, TrustParts, TypeOK
<1>7. ManifestsInv'
  BY <1>1, <1>3 DEF ManifestsInv, Same, Installing, Granting, Early, Trusting
<1>8. Reusable'
  BY <1>1 DEF Reusable, CAs, TrustingInv, Trusting
<1>9. TrustingInv'
  BY <1>1, <1>3, <1>4, <1>8 DEF TrustingInv, Trusting, Known
<1> QED BY <1>3, <1>6, <1>7, <1>9, Placed DEF Trusting

\* A step whose place alone changes, whether its call worked or not.
LEMMA GoesTo ==
  ASSUME proc \in Command, NEW at \in Steps, NEW call,
         \/ Works([proc EXCEPT !.at = at])
         \/ Fails(call, [proc EXCEPT !.at = at])
  PROVE  proc' \in Command /\ Same(proc', proc) /\ proc'.at = at /\ proc'.ok = proc.ok
<1> DEFINE p == [proc EXCEPT !.at = at]
<1>1. p \in Command /\ Same(p, proc) /\ p.at = at /\ p.ok = proc.ok
  BY DEF Command, Same
<1> HIDE DEF p
<1>2. CASE Works(p)
  BY <1>1, <1>2 DEF Works
<1>3. CASE Fails(call, p)
  BY <1>1, <1>3, FailsTo DEF Same
<1> QED BY <1>2, <1>3 DEF p

LEMMA UnmarkKeeps ==
  ASSUME TrustInv, Unmark
  PROVE  TrustInv'
<1> USE DEF TrustInv
<1>1. /\ proc \in Command /\ proc.at = "unmark"
      /\ UNCHANGED <<manifests, record, files, previous, wrapper, store, anchors, made>>
      /\ Hosts' = Hosts /\ (Linux <=> Linux')
      /\ stray \subseteq anchors
      /\ Reusable /\ files["cert"] \in anchors /\ (Linux => anchors = {files["cert"]})
  BY Busy, Steady DEF Unmark, At, DeviceInv, TrustParts, TypeOK, Steps, TrustingInv, Trusting
<1>2. /\ proc' \in Command /\ Same(proc', proc) /\ proc'.ok = proc.ok
      /\ \/ /\ proc'.at = "wrap" /\ pending' = FALSE
            /\ stray' = IF pending THEN stray \cup (anchors \ {files["cert"]}) ELSE stray
         \/ proc'.at = "thrown" /\ UNCHANGED <<pending, stray>>
  <2>1. CASE Works([proc EXCEPT !.at = "wrap"])
             /\ pending' = FALSE
             /\ stray' = IF pending THEN stray \cup (anchors \ {files["cert"]}) ELSE stray
    BY <1>1, <2>1 DEF Works, Command, Steps, Same
  <2>2. CASE Fails("file", [proc EXCEPT !.at = "thrown"]) /\ UNCHANGED <<pending, stray>>
    BY <1>1, <2>2, GoesTo DEF Steps
  <2> QED BY <2>1, <2>2 DEF Unmark
<1>9. pending' \in BOOLEAN
  BY <1>2 DEF DeviceInv, TrustParts, TypeOK
<1>10. stray' \subseteq anchors /\ stray \subseteq stray'
  BY <1>1, <1>2
<1>3. /\ Known' => anchors \subseteq {files["cert"]} \cup stray'
      /\ proc'.at = "wrap" => anchors \subseteq {files["cert"]} \cup stray'
  BY <1>1, <1>2 DEF TrustingInv, Known, Linux
<1>4. AnchorsKnown' /\ KeyOfAnchor'
  BY <1>1, <1>3, TrustAssumption DEF AnchorsKnown, KeyOfAnchor, Known, Reusable, CAs
<1>5. DeviceInv'
  <2>1. made \in Nat /\ made \in 0 .. MaxCAs
    BY DEF DeviceInv, TrustParts, TypeOK
  <2>2. stray' \subseteq anchors'
    BY <1>1, <1>10
  <2> QED BY <1>1, <1>9, <1>2, <1>4, <2>1, <2>2, DeviceMoves DEF DeviceInv, TrustParts, TypeOK
<1>6. ManifestsInv'
  BY <1>1, <1>2 DEF ManifestsInv, Same, Installing, Granting, Early, Trusting
<1>7. Reusable'
  BY <1>1 DEF Reusable, CAs
<1>8. TrustingInv'
  BY <1>1, <1>2, <1>3, <1>7, <1>9 DEF TrustingInv, Trusting, Known
<1> QED BY <1>2, <1>5, <1>6, <1>8, Placed DEF Trusting

-----------------------------------------------------------------------------
(* How a removal goes on.                                                  *)

\* A failure ends it.
LEMMA GivingUpKeeps ==
  ASSUME TrustInv, proc.at \in Removals, NEW call, Fails(call, GivesUp),
         UNCHANGED <<manifests, record, files, previous, pending, wrapper, store, anchors, made, stray>>
  PROVE  TrustInv'
<1> USE DEF TrustInv
<1> DEFINE stage == IF proc.cmd = "uninstall" THEN "unwrap" ELSE "report"
           p     == [proc EXCEPT !.ok = FALSE, !.at = stage]
<1>1. proc \in Command /\ proc.cmd \in {"uninstall", "rollback"}
  BY Busy DEF DeviceInv, Removals, Steps, RemovalInv
<1>2. GivesUp = p
  BY <1>1 DEF GivesUp, Ends, Command
<1>3. p \in Command /\ ~p.ok /\ p.at = stage /\ p.cmd = proc.cmd /\ stage \in {"unwrap", "report"}
  BY ZenonT(60), <1>1 DEF Command, Steps
<1> HIDE DEF p
<1>4. proc' \in Command /\ ~proc'.ok /\ proc'.at = stage /\ proc'.cmd = proc.cmd
  <2>1. proc' \in Command /\ Same(proc', p) /\ proc'.at = p.at /\ proc'.ok = p.ok
    BY <1>2, <1>3, FailsTo
  <2> QED BY <1>3, <2>1 DEF Same
<1>5. DeviceInv'
  BY <1>4, DeviceStays, Steady DEF DeviceInv, TrustParts, TypeOK
<1>6. RemovalInv'
  BY <1>1, <1>3, <1>4 DEF RemovalInv, Removals
<1>7. InstallLeavesOne' /\ FailedInstallRestores'
  BY <1>1, <1>4 DEF InstallLeavesOne, FailedInstallRestores
<1> QED BY <1>3, <1>4, <1>5, <1>6, <1>7, Placed DEF Removals

\* So does its last call.
LEMMA EndingKeeps ==
  ASSUME TrustInv, proc.at \in Removals, proc' = Ends(proc),
         proc' \in Command => DeviceInv', Gone'
  PROVE  TrustInv'
<1> USE DEF TrustInv
<1> DEFINE stage == IF proc.cmd = "uninstall" THEN "unwrap" ELSE "report"
<1>1. proc \in Command /\ proc.cmd \in {"uninstall", "rollback"}
  BY Busy DEF DeviceInv, Removals, Steps, RemovalInv
<1>2. proc' \in Command /\ proc'.at = stage /\ proc'.cmd = proc.cmd /\ stage \in {"unwrap", "report"}
  BY <1>1 DEF Ends, Command, Steps
<1>3. RemovalInv'
  BY <1>1, <1>2 DEF RemovalInv, Removals
<1>4. InstallLeavesOne' /\ FailedInstallRestores'
  BY <1>1, <1>2 DEF InstallLeavesOne, FailedInstallRestores
<1> QED BY <1>2, <1>3, <1>4, Placed DEF Removals

\* Its beginning: no manifest that is there is missed.
LEMMA RemovingIs ==
  ASSUME DeviceInv, NEW p \in Command
  PROVE  LET q == Removing(p)
         IN  /\ q \in Command /\ q.cmd = p.cmd /\ q.id = p.id /\ q.ok = p.ok /\ q.at = "remove"
             /\ q.todo \in Seq(Hosts) /\ q.todo # <<>> /\ q.before = Device
             /\ \A d \in Dirs : d \in ToSet(q.todo) \/ manifests[d] = None
<1>1. /\ ActiveDirs \subseteq Hosts /\ ActiveDirs # {}
      /\ \A d \in Dirs : d \in ActiveDirs \/ manifests[d] = None
  BY HostsAre DEF ActiveDirs, DeviceInv, TrustParts
<1>2. IsFiniteSet(ActiveDirs)
  BY <1>1, HostsAre, FS_Subset
<1>3. /\ SetToSeq(ActiveDirs) \in Seq(ActiveDirs) /\ ToSet(SetToSeq(ActiveDirs)) = ActiveDirs
      /\ SetToSeq(ActiveDirs) # <<>>
  BY <1>1, <1>2, Listed
<1>4. SetToSeq(ActiveDirs) \in Seq(Hosts) /\ SetToSeq(ActiveDirs) \in Seq(Jobs)
  BY <1>1, <1>3, HostsAre
<1>5. Device \in DeviceType
  BY DEF Device, DeviceType, DeviceInv, TrustParts, TypeOK
<1> DEFINE todo == SetToSeq(ActiveDirs)
<1> HIDE DEF todo
<1>6. Removing(p) = [p EXCEPT !.at = "remove", !.todo = todo, !.before = Device]
  BY DEF Removing, todo
<1>7. todo \in Seq(Jobs)
  BY <1>4 DEF todo
<1>8. LET q == Removing(p)
      IN  /\ q \in Command /\ q.cmd = p.cmd /\ q.id = p.id /\ q.ok = p.ok /\ q.at = "remove"
          /\ q.todo = todo /\ q.before = Device
  BY <1>5, <1>6, <1>7 DEF Command, Steps
<1> QED BY <1>1, <1>3, <1>4, <1>8 DEF todo

LEMMA WrapKeeps ==
  ASSUME TrustInv, Wrap
  PROVE  TrustInv'
<1> USE DEF TrustInv
<1>1. /\ proc \in Command /\ proc.at = "wrap" /\ proc.ok /\ proc.cmd = "install"
      /\ UNCHANGED <<manifests, record, files, previous, pending, store, anchors, made, stray>>
      /\ Hosts' = Hosts /\ (Linux <=> Linux')
      /\ \A d \in Hosts : manifests[d] = proc.id
      /\ Reusable /\ files["cert"] \in anchors /\ ~pending
      /\ anchors \subseteq {files["cert"]} \cup stray
  BY Busy, Steady DEF Wrap, At, DeviceInv, Steps, TrustingInv, Trusting, ManifestsInv, Installing, Granting
<1>2. CASE wrapper' = TRUE /\ Works([proc EXCEPT !.at = "report"])
  <2>1. proc' \in Command /\ Same(proc', proc) /\ proc'.at = "report" /\ proc'.ok
    BY <1>1, <1>2, GoesTo DEF Steps
  <2>2. DeviceInv'
    BY <1>1, <1>2, <2>1, DeviceStays DEF DeviceInv, TrustParts, TypeOK
  <2>3. Reusable'
    BY <1>1 DEF Reusable, CAs
  <2>4. InstallLeavesOne'
    BY <1>1, <1>2, <2>1, <2>3 DEF InstallLeavesOne, Same
  <2>5. FailedInstallRestores' /\ RemovalInv'
    BY <1>1, <2>1 DEF FailedInstallRestores, RemovalInv, Removals, Same
  <2> QED BY <2>1, <2>2, <2>4, <2>5, Placed
<1>3. CASE Fails("file", [Removing(proc) EXCEPT !.cmd = "rollback"]) /\ UNCHANGED wrapper
  <2> DEFINE q == Removing(proc)
             p == [q EXCEPT !.cmd = "rollback"]
  <2>1. /\ q \in Command /\ q.ok /\ q.at = "remove"
        /\ q.todo \in Seq(Hosts) /\ q.todo # <<>> /\ q.before = Device
        /\ \A d \in Dirs : d \in ToSet(q.todo) \/ manifests[d] = None
    BY <1>1, RemovingIs
  <2> HIDE DEF q
  <2>2. /\ p \in Command /\ p.cmd = "rollback" /\ p.ok /\ p.at = "remove"
        /\ p.todo = q.todo /\ p.before = Device
    BY <2>1 DEF Command
  <2>3. Fails("file", p)
    BY <1>3 DEF q
  <2> HIDE DEF p
  <2>4. /\ proc' \in Command /\ proc'.cmd = "rollback" /\ proc'.ok /\ proc'.at = "remove"
        /\ proc'.todo = q.todo /\ proc'.before = Device
    BY <2>2, <2>3, FailsTo DEF Same
  <2>5. DeviceInv'
    BY <1>1, <1>3, <2>4, DeviceStays DEF DeviceInv, TrustParts, TypeOK
  <2>6. RemovalInv'
    BY <1>1, <2>1, <2>4 DEF RemovalInv, Removals, Left, Device
  <2> QED BY <2>4, <2>5, <2>6, Placed DEF Removals
<1> QED BY <1>2, <1>3 DEF Wrap

LEMMA UndoFileKeeps ==
  ASSUME TrustInv, UndoFile
  PROVE  TrustInv'
<1> USE DEF TrustInv
<1> DEFINE f    == Head(proc.todo)
           plan == UndoPlan(proc)
<1>1. /\ proc \in Command /\ proc.at = "undo" /\ proc.before \in DeviceType /\ proc.done \subseteq Files
      /\ UNCHANGED <<manifests, record, previous, pending, wrapper, store, anchors, made, stray>>
      /\ Hosts' = Hosts /\ (Linux <=> Linux') /\ proc.slips \in Nat /\ proc.slips >= 1
      /\ files \in [Files -> CAs \cup {None, Broken}]
      /\ store # "debian" => anchors \subseteq proc.before.anchors
      /\ proc.todo \in Seq(DOMAIN plan) /\ proc.todo # <<>>
  BY Busy, Steady DEF UndoFile, At, DeviceInv, TrustParts, TypeOK, Steps, Command, RollbackInv, ReplacingInv
<1>2. /\ ~proc.reuse /\ previous = proc.kept /\ (proc.fresh <=> proc.kept = None)
      /\ made \in CAs /\ previous # made
      /\ store = "keychain" => made \notin anchors
      /\ Known => anchors \subseteq {previous} \cup stray
      /\ "cert" \in proc.done => files["cert"] \in {made, None}
      /\ "cert" \notin proc.done =>
           /\ files["cert"] \in {None, previous} /\ files["cert"] = proc.before.files["cert"]
           /\ Known /\ proc.before.files["key"] = None => files["cert"] \notin anchors \ stray
  BY <1>1 DEF ReplacingInv
<1>3. None \notin anchors /\ made # None /\ made \in Nat /\ made \in 0 .. MaxCAs
  <2>1. anchors \subseteq 1 .. made /\ made \in 0 .. MaxCAs
    BY DEF DeviceInv, TrustParts, TypeOK
  <2>2. None \notin Nat /\ MaxCAs \in Nat
    BY TrustAssumption
  <2>3. made \in Nat /\ 1 .. made \subseteq Nat
    BY <2>1, <2>2
  <2>4. made # None
    BY <2>2, <2>3
  <2> QED BY <2>1, <2>2, <2>3, <2>4
<1>4. /\ proc.fresh \/ "cert" \in proc.done => plan = [g \in proc.done |-> None]
      /\ ~proc.fresh /\ "cert" \notin proc.done =>
           /\ DOMAIN plan = {g \in {"key", "pub"} : g \in proc.done \/ proc.before.files[g] # None}
           /\ \A g \in DOMAIN plan : plan[g] = proc.before.files[g]
  BY <1>1, <1>2, <1>3, UndoPlanOf
<1> DEFINE F == DOMAIN plan
<1>5. F \in SUBSET Files /\ \A g \in F : plan[g] \in CAs \cup {None, Broken}
  BY <1>1, <1>4 DEF Files, DeviceType
<1>6. /\ f \in F /\ Tail(proc.todo) \in Seq(F) /\ ToSet(proc.todo) = {f} \cup ToSet(Tail(proc.todo))
      /\ Len(proc.todo) = 1 <=> Tail(proc.todo) = <<>>
  <2> HIDE DEF plan
  <2>1. proc.todo \in Seq(F)
    BY <1>1
  <2> HIDE DEF F
  <2> QED BY <1>1, <2>1, HeadAndRest
<1>7. f \in Files /\ "key" \in Files /\ "cert" \in Files
  BY <1>5, <1>6 DEF Files
<1> HIDE DEF f
<1>8. CASE /\ files' = [files EXCEPT ![f] = plan[f]]
           /\ Works(IF Len(proc.todo) = 1 THEN Restoring(proc) ELSE [proc EXCEPT !.todo = Tail(@)])
  <2>1. /\ files' \in [Files -> CAs \cup {None, Broken}]
        /\ files'[f] = plan[f] /\ \A g \in Files \ {f} : files'[g] = files[g]
    BY <1>1, <1>5, <1>6, <1>7, <1>8
  <2>2. /\ "cert" \in proc.done => files'["cert"] \in {made, None}
        /\ "cert" \notin proc.done =>
             /\ files'["cert"] = files["cert"]
             /\ proc.fresh \/ files'["key"] = files["key"] \/ files'["key"] = proc.before.files["key"]
        /\ ~proc.fresh /\ "cert" \notin proc.done => files'[f] = proc.before.files[f]
    BY <1>1, <1>2, <1>4, <1>6, <1>7, <2>1
  <2>3. AnchorsKnown' /\ KeyOfAnchor'
    <3>1. AnchorsKnown'
      BY <1>1, <1>2 DEF AnchorsKnown, Known
    <3>2. KeyOfAnchor'
      BY <1>1, <1>2, <1>3, <2>2 DEF DeviceInv, KeyOfAnchor, Known
    <3> QED BY <3>1, <3>2
  <2>4. files'["cert"] \in (1 .. made) \cup {None}
    BY <1>2, <1>3, <2>2 DEF DeviceInv, TrustParts, CAs
  <2>5. proc' \in Command => DeviceInv'
    BY <1>1, <1>3, <2>1, <2>3, <2>4, DeviceMoves DEF DeviceInv, TrustParts, TypeOK
  <2>6. (proc.slips = 1 /\ ~proc.fresh /\ "cert" \notin proc.done) =>
          \A g \in Files : g \in ToSet(Tail(proc.todo)) \/ files'[g] = proc.before.files[g]
    BY <1>1, <1>6, <2>1, <2>2 DEF RollbackInv, Left
  <2>7. CASE Len(proc.todo) = 1
    <3>1. ToSet(Tail(proc.todo)) = {}
      BY <1>6, <2>7 DEF ToSet
    <3>2. (proc.slips = 1 /\ ~proc.fresh /\ "cert" \notin proc.done) => files' = proc.before.files
      BY <1>1, <2>1, <2>6, <3>1 DEF DeviceType
    <3>3. proc' = Restoring(proc) /\ Restoring(proc).slips = proc.slips
      BY <1>1, <1>8, <2>7, RestoringIs DEF Works
    <3>4. (proc'.slips = 1 /\ Same(proc', proc)) => CaUndone'
      BY <1>1, <1>2, <3>2, <3>3 DEF CaUndone, Same
    <3> QED BY <1>1, <2>5, <3>3, <3>4, RollsBack
  <2>8. CASE Len(proc.todo) # 1
    <3>1. Tail(proc.todo) \in Seq(Jobs)
      <4>1. Tail(proc.todo) \in Seq(F) /\ F \subseteq Jobs
        BY <1>5, <1>6 DEF Jobs
      <4> HIDE DEF F
      <4> QED BY <4>1
    <3>2. /\ proc' \in Command /\ Same(proc', proc) /\ proc'.at = "undo" /\ proc'.ok = proc.ok
          /\ proc'.slips = proc.slips /\ proc'.todo = Tail(proc.todo)
      BY <1>1, <1>8, <2>8, <3>1 DEF Works, Command, Same
    <3>3. ManifestsInv'
      BY <1>1, <3>2 DEF ManifestsInv, Same, Installing, Granting, Early, Trusting
    <3>4. ReplacingInv'
      BY <1>1, <1>2, <2>2, <3>2 DEF ReplacingInv, Same, Early, Known
    <3>5. (DOMAIN UndoPlan(proc))' = F
      BY <1>1, <1>2, <1>3, <2>2, <3>2, UndoPlanStays
    <3>6. RollbackInv'
      BY <1>1, <1>6, <2>6, <2>8, <3>2, <3>5 DEF RollbackInv, Same, Left
    <3> QED BY <2>5, <3>2, <3>3, <3>4, <3>6, Placed
  <2> QED BY <2>7, <2>8
<1>9. CASE Fails("file", Restoring(proc)) /\ UNCHANGED files
  <2>1. proc' \in Command => DeviceInv'
    BY <1>1, <1>9, DeviceStays DEF DeviceInv, TrustParts, TypeOK
  <2>2. Restoring(proc) \in Command /\ Restoring(proc).slips = proc.slips
    BY <1>1, RestoringIs
  <2>3. proc'.slips > 1
    BY <1>1, <1>9, <2>2, FailsTo
  <2> QED BY <1>1, <1>9, <2>1, <2>3, RollsBack
<1> QED BY <1>8, <1>9 DEF UndoFile, f

-----------------------------------------------------------------------------
(* uninstall.                                                              *)

LEMMA UninstallKeeps ==
  ASSUME TrustInv, Uninstall
  PROVE  TrustInv'
<1> USE DEF TrustInv
<1> DEFINE p == Begun("uninstall", None, "remove", <<>>)
<1>1. /\ proc' = Removing(p)
      /\ UNCHANGED <<manifests, record, files, previous, pending, wrapper, store, anchors, made, stray>>
      /\ Hosts' = Hosts /\ (Linux <=> Linux')
  BY Steady DEF Uninstall, DeviceInv, disk
<1>2. Device \in DeviceType
  BY DEF Device, DeviceType, DeviceInv, TrustParts, TypeOK
<1>3. p \in Command /\ p.cmd = "uninstall" /\ p.ok
  BY <1>2 DEF Begun, Command, Steps
<1> HIDE DEF p
<1>4. /\ proc' \in Command /\ proc'.cmd = "uninstall" /\ proc'.ok /\ proc'.at = "remove"
      /\ proc'.todo \in Seq(Hosts) /\ proc'.todo # <<>> /\ proc'.before = Device
      /\ \A d \in Dirs : d \in ToSet(proc'.todo) \/ manifests[d] = None
  BY <1>1, <1>3, RemovingIs
<1>5. DeviceInv'
  BY <1>1, <1>4, DeviceStays DEF DeviceInv, TrustParts, TypeOK
<1>6. RemovalInv'
  BY <1>1, <1>4 DEF RemovalInv, Removals, Left, Device
<1> QED BY <1>4, <1>5, <1>6, Placed DEF Removals

LEMMA RemoveManifestKeeps ==
  ASSUME TrustInv, RemoveManifest
  PROVE  TrustInv'
<1> USE DEF TrustInv
<1> DEFINE d    == Head(proc.todo)
           next == IF Linux THEN "forget" ELSE "mark"
           q    == Onward(proc, next)
<1>1. /\ proc \in Command /\ proc.at = "remove" /\ proc.todo \in Seq(Hosts) /\ proc.todo # <<>>
      /\ proc.cmd \in {"uninstall", "rollback"} /\ proc.ok /\ proc.before.previous = previous
      /\ proc.before.files = files
      /\ UNCHANGED <<record, files, previous, pending, wrapper, store, anchors, made, stray>>
      /\ Hosts' = Hosts /\ (Linux <=> Linux')
      /\ \A e \in Dirs : e \in ToSet(proc.todo) \/ manifests[e] = None
  BY Busy, Steady DEF RemoveManifest, At, DeviceInv, RemovalInv, Removals, Steps, Left
<1>2. CASE manifests' = [manifests EXCEPT ![d] = None] /\ Works(q)
  <2>1. /\ q \in Command /\ Same(q, proc) /\ q.ok = proc.ok
        /\ q.at = IF q.todo = <<>> THEN next ELSE proc.at
        /\ q.todo \in Seq(Hosts)
        /\ ToSet(proc.todo) = {d} \cup ToSet(q.todo) /\ d \in Hosts
    <3>1. next \in Steps /\ Hosts \in SUBSET Jobs
      BY HostsAre DEF Steps
    <3> HIDE DEF next
    <3>2. LET r == Onward(proc, next)
          IN  /\ r \in Command /\ Same(r, proc) /\ r.ok = proc.ok
              /\ r.at = IF r.todo = <<>> THEN next ELSE proc.at
              /\ r.todo \in Seq(Hosts)
              /\ ToSet(proc.todo) = {Head(proc.todo)} \cup ToSet(r.todo)
              /\ Head(proc.todo) \in Hosts
      BY <1>1, <3>1, Onwards
    <3> QED BY <3>2
  <2> HIDE DEF q
  <2>2. proc' = q
    BY <1>2 DEF Works
  <2>3. /\ manifests' \in [Dirs -> Extensions \cup {None}]
        /\ \A e \in Dirs : e = d \/ manifests'[e] = manifests[e]
        /\ manifests'[d] = None
    BY <1>2, <2>1, HostsAre DEF DeviceInv, TrustParts, TypeOK
  <2>4. DeviceInv'
    BY <1>1, <2>1, <2>2, <2>3, DeviceStays DEF DeviceInv, TrustParts, TypeOK
  <2>5. \A e \in Dirs : e \in ToSet(q.todo) \/ manifests'[e] = None
    BY <1>1, <2>1, <2>3
  <2>6. CASE q.todo # <<>>
    <3>1. RemovalInv'
      BY <1>1, <2>1, <2>2, <2>5, <2>6 DEF RemovalInv, Removals, Left, Same
    <3> QED BY <1>1, <2>1, <2>2, <2>4, <2>6, <3>1, Placed DEF Removals
  <2>7. CASE q.todo = <<>>
    <3>1. ToSet(q.todo) = {}
      BY <2>7 DEF ToSet
    <3>2. ~Linux => ~record
      BY DEF DeviceInv, TrustParts
    <3>3. RemovalInv'
      BY <1>1, <2>1, <2>2, <2>5, <2>7, <3>1, <3>2 DEF RemovalInv, Removals, Same
    <3> QED BY <2>1, <2>2, <2>4, <2>7, <3>3, Placed DEF Removals
  <2> QED BY <2>6, <2>7
<1>3. CASE Fails("file", GivesUp) /\ UNCHANGED manifests
  BY <1>1, <1>3, GivingUpKeeps DEF Removals
<1> QED BY <1>2, <1>3 DEF RemoveManifest

LEMMA ForgetDirsKeeps ==
  ASSUME TrustInv, ForgetDirs
  PROVE  TrustInv'
<1> USE DEF TrustInv
<1>1. /\ proc \in Command /\ proc.at = "forget"
      /\ UNCHANGED <<manifests, files, previous, pending, wrapper, store, anchors, made, stray>>
      /\ Hosts' = Hosts /\ (Linux <=> Linux')
  BY Busy, Steady DEF ForgetDirs, At, DeviceInv, Steps
<1>2. CASE record' = FALSE /\ Works([proc EXCEPT !.at = "mark"])
  <2>1. proc' \in Command /\ Same(proc', proc) /\ proc'.at = "mark" /\ proc'.ok = proc.ok
    BY <1>1, <1>2, GoesTo DEF Steps
  <2>2. DeviceInv'
    BY <1>1, <1>2, <2>1, DeviceStays DEF DeviceInv, TrustParts, TypeOK
  <2>3. RemovalInv'
    BY <1>1, <1>2, <2>1 DEF RemovalInv, Removals, Same
  <2> QED BY <2>1, <2>2, <2>3, Placed DEF Removals
<1>3. CASE Fails("file", GivesUp) /\ UNCHANGED record
  BY <1>1, <1>3, GivingUpKeeps DEF Removals
<1> QED BY <1>2, <1>3 DEF ForgetDirs

LEMMA MarkPendingKeeps ==
  ASSUME TrustInv, MarkPending
  PROVE  TrustInv'
<1> USE DEF TrustInv
<1>1. /\ proc \in Command /\ proc.at = "mark"
      /\ UNCHANGED <<manifests, record, files, previous, wrapper, store, anchors, made, stray>>
      /\ Hosts' = Hosts /\ (Linux <=> Linux')
      /\ proc.before.files = files
  BY Busy, Steady DEF MarkPending, At, DeviceInv, Steps, RemovalInv
<1>2. CASE /\ pending' = (pending \/ KeyWasPresent)
           /\ Works([proc EXCEPT !.at = "delete", !.todo = Order])
  <2>1. Order \in Seq(Jobs)
    BY DEF Order, Jobs, Files
  <2>2. /\ proc' \in Command /\ Same(proc', proc) /\ proc'.at = "delete" /\ proc'.ok = proc.ok
        /\ proc'.todo = Order
    BY <1>1, <1>2, <2>1 DEF Works, Command, Steps, Same
  <2>3. pending' \in BOOLEAN
    BY <1>2 DEF DeviceInv, TrustParts, TypeOK, KeyWasPresent
  <2>4. (pending => pending') /\ (files["key"] = None \/ pending')
    BY <1>1, <1>2 DEF KeyWasPresent
  <2>5. AnchorsKnown' /\ KeyOfAnchor'
    BY <1>1, <2>4 DEF DeviceInv, AnchorsKnown, KeyOfAnchor, Known
  <2>6. DeviceInv'
    <3>1. made \in Nat /\ made \in 0 .. MaxCAs
      BY DEF DeviceInv, TrustParts, TypeOK
    <3> QED BY <1>1, <2>2, <2>3, <2>5, <3>1, DeviceMoves DEF DeviceInv, TrustParts, TypeOK
  <2>7. Known' => anchors \subseteq {previous} \cup stray
    <3>1. SUFFICES ASSUME Known' PROVE anchors \subseteq {previous} \cup stray
      OBVIOUS
    <3>2. Known /\ files["key"] = None
      BY <1>1, <2>4, <3>1 DEF Known
    <3>3. files["cert"] \notin anchors \ stray
      BY <3>2 DEF DeviceInv, KeyOfAnchor
    <3> QED BY <3>2, <3>3 DEF DeviceInv, AnchorsKnown, Known
  <2>8. RemovalInv'
    BY <1>1, <2>2, <2>4, <2>7 DEF RemovalInv, Removals, Same, Order
  <2> QED BY <2>2, <2>6, <2>8, Placed DEF Removals
<1>3. CASE Fails("file", GivesUp) /\ UNCHANGED pending
  BY <1>1, <1>3, GivingUpKeeps DEF Removals
<1> QED BY <1>2, <1>3 DEF MarkPending

\* The files are gone and the store is clean, or holds the copied CA alone.
LEMMA AfterStoreKeeps ==
  ASSUME TrustInv, proc.at \in {"delete", "clear"}, Works(AfterStore),
         UNCHANGED <<manifests, record, previous, store, anchors, made, stray>>,
         proc' \in Command => DeviceInv',
         ~pending', \A f \in Files : files'[f] = None,
         store = "keychain" => anchors \subseteq {previous} \cup stray,
         store = "keychain" /\ KeyWasPresent => anchors \subseteq stray
  PROVE  TrustInv'
<1> USE DEF TrustInv
<1>1. /\ proc \in Command /\ Saved = previous /\ None \notin anchors
      /\ \A d \in Dirs : manifests[d] = None
      /\ ~record /\ proc.before.previous = previous /\ proc.ok /\ proc.cmd \in {"uninstall", "rollback"}
  <2>1. anchors \subseteq Nat
    BY DEF DeviceInv, TrustParts
  <2>2. None \notin anchors
    BY <2>1, TrustAssumption
  <2> QED BY <2>2, Busy DEF DeviceInv, Steps, RemovalInv, Removals, Saved
<1>2. CASE Saved = None
  <2>1. Gone'
    BY <1>1, <1>2 DEF Gone
  <2> QED BY <1>2, <2>1, EndingKeeps DEF AfterStore, Works, Removals
<1>3. CASE Saved # None
  <2> DEFINE next == IF KeyWasPresent /\ Saved = proc.before.files["cert"] THEN "drop" ELSE "anchor"
  <2>1. next = "drop" => KeyWasPresent
    OBVIOUS
  <2>2. next \in {"drop", "anchor"} /\ proc' = [proc EXCEPT !.at = next]
    BY <1>3 DEF AfterStore, Works
  <2> HIDE DEF next
  <2>3. proc' \in Command /\ Same(proc', proc) /\ proc'.at = next /\ proc'.ok = proc.ok
    BY <1>1, <2>2 DEF Command, Steps, Same
  <2>4. RemovalInv'
    BY <1>1, <2>1, <2>2, <2>3 DEF RemovalInv, Removals, Same
  <2> QED BY <2>2, <2>3, <2>4, Placed DEF Removals
<1> QED BY <1>2, <1>3

LEMMA DeleteFileKeeps ==
  ASSUME TrustInv, DeleteFile
  PROVE  TrustInv'
<1> USE DEF TrustInv
<1> DEFINE f == Head(proc.todo)
<1>1. /\ proc \in Command /\ proc.at = "delete"
      /\ UNCHANGED <<manifests, record, previous, pending, wrapper, store, anchors, made, stray>>
      /\ Hosts' = Hosts /\ (Linux <=> Linux')
      /\ files \in [Files -> CAs \cup {None, Broken}]
      /\ IF proc.before.files["key"] = None THEN files["key"] = None ELSE pending
      /\ Known => anchors \subseteq {previous} \cup stray
  BY Busy, Steady DEF DeleteFile, At, DeviceInv, TrustParts, TypeOK, Steps, RemovalInv
<1>2. CASE Fails("file", GivesUp) /\ UNCHANGED files
  BY <1>1, <1>2, GivingUpKeeps DEF Removals
<1>3. CASE /\ files' = [files EXCEPT ![f] = None]
           /\ Works(IF Len(proc.todo) > 1 THEN Onward(proc, "delete")
                    ELSE IF pending THEN [proc EXCEPT !.at = "untrust"] ELSE AfterStore)
  <2>1. /\ f \in Files
        /\ \/ f = "key" /\ Len(proc.todo) > 1 /\ Tail(proc.todo) = <<"pub", "cert">>
           \/ f = "pub" /\ Len(proc.todo) > 1 /\ Tail(proc.todo) = <<"cert">> /\ files["key"] = None
           \/ f = "cert" /\ ~ (Len(proc.todo) > 1) /\ files["key"] = None /\ files["pub"] = None
    <3>1. CASE proc.todo = <<"key", "pub", "cert">>
      BY <3>1 DEF Files
    <3>2. CASE proc.todo = <<"pub", "cert">> /\ files["key"] = None
      BY <3>2 DEF Files
    <3>3. CASE proc.todo = <<"cert">> /\ files["key"] = None /\ files["pub"] = None
      BY <3>3 DEF Files
    <3> QED BY <1>1, <3>1, <3>2, <3>3 DEF RemovalInv
  <2> HIDE DEF f
  <2>2. /\ files' \in [Files -> CAs \cup {None, Broken}] /\ files'[f] = None
        /\ \A g \in Files : g = f \/ files'[g] = files[g]
        /\ "key" \in Files /\ "pub" \in Files /\ "cert" \in Files
    BY <1>1, <1>3, <2>1 DEF Files
  <2>3. AnchorsKnown'
    BY <1>1 DEF AnchorsKnown, Known
  <2>4. None \notin anchors
    <3>1. anchors \subseteq Nat
      BY DEF DeviceInv, TrustParts
    <3> QED BY <3>1, TrustAssumption
  <2>5. KeyOfAnchor'
    BY <1>1, <2>2, <2>4 DEF DeviceInv, KeyOfAnchor, Known
  <2>6. proc' \in Command => DeviceInv'
    <3>1. made \in Nat /\ made \in 0 .. MaxCAs
      BY DEF DeviceInv, TrustParts, TypeOK
    <3> QED BY <1>1, <2>2, <2>3, <2>5, <3>1, DeviceMoves DEF DeviceInv, TrustParts, TypeOK
  <2>7. CASE Len(proc.todo) > 1
    <3>1. Tail(proc.todo) \in Seq(Jobs)
      <4>1. <<"pub", "cert">> \in Seq(Jobs) /\ <<"cert">> \in Seq(Jobs)
        BY DEF Jobs, Files
      <4> QED BY <2>1, <2>7, <4>1
    <3>2. /\ proc' \in Command /\ Same(proc', proc) /\ proc'.at = "delete" /\ proc'.ok = proc.ok
          /\ proc'.todo = Tail(proc.todo)
      BY <1>1, <1>3, <2>7, <3>1 DEF Works, Onward, Command, Same
    <3>3. RemovalInv'
      BY <1>1, <2>1, <2>2, <2>7, <3>2 DEF RemovalInv, Removals, Same, Known
    <3> QED BY <2>6, <3>2, <3>3, Placed DEF Removals
  <2>8. CASE ~ (Len(proc.todo) > 1)
    <3>1. \A g \in Files : files'[g] = None
      BY <2>1, <2>2, <2>8 DEF Files
    <3>2. CASE pending
      <4>1. Works([proc EXCEPT !.at = "untrust"])
        BY <1>3, <2>8, <3>2
      <4>2. proc' \in Command /\ Same(proc', proc) /\ proc'.at = "untrust" /\ proc'.ok = proc.ok
        BY <1>1, <4>1, GoesTo DEF Steps
      <4>3. RemovalInv'
        BY <1>1, <3>1, <3>2, <4>2 DEF RemovalInv, Removals, Same
      <4> QED BY <2>6, <4>2, <4>3, Placed DEF Removals
    <3>3. CASE ~pending
      <4>1. Works(AfterStore) /\ ~KeyWasPresent
        BY <1>1, <1>3, <2>8, <3>3 DEF KeyWasPresent
      <4>2. store = "keychain" => anchors \subseteq {previous} \cup stray
        BY <1>1, <3>3 DEF Known
      <4> QED BY <1>1, <2>6, <3>1, <3>3, <4>1, <4>2, AfterStoreKeeps
    <3> QED BY <3>2, <3>3
  <2> QED BY <2>7, <2>8
<1> QED BY <1>2, <1>3 DEF DeleteFile

LEMMA UntrustKeeps ==
  ASSUME TrustInv, Untrust
  PROVE  TrustInv'
<1> USE DEF TrustInv
<1>1. /\ proc \in Command /\ proc.at = "untrust"
      /\ UNCHANGED <<manifests, record, files, previous, pending, wrapper, store, made>>
      /\ Hosts' = Hosts /\ (Linux <=> Linux')
  BY Busy, Steady DEF Untrust, At, DeviceInv, Steps, disk
<1>2. CASE anchors' = {} /\ stray' = {} /\ Works([proc EXCEPT !.at = "clear"])
  <2>1. proc' \in Command /\ Same(proc', proc) /\ proc'.at = "clear" /\ proc'.ok = proc.ok
    BY <1>1, <1>2, GoesTo DEF Steps
  <2>2. AnchorsKnown' /\ KeyOfAnchor'
    BY <1>2 DEF AnchorsKnown, KeyOfAnchor
  <2>3. DeviceInv'
    <3>1. made \in Nat /\ made \in 0 .. MaxCAs
      BY DEF DeviceInv, TrustParts, TypeOK
    <3> QED BY <1>1, <1>2, <2>1, <2>2, <3>1, DeviceMoves DEF DeviceInv, TrustParts, TypeOK
  <2>4. RemovalInv'
    BY <1>1, <1>2, <2>1 DEF RemovalInv, Removals, Same
  <2> QED BY <2>1, <2>3, <2>4, Placed DEF Removals
<1>3. CASE Fails("remover", GivesUp) /\ UNCHANGED <<anchors, stray>>
  BY <1>1, <1>3, GivingUpKeeps DEF Removals
<1> QED BY <1>2, <1>3 DEF Untrust

LEMMA ClearPendingKeeps ==
  ASSUME TrustInv, ClearPending
  PROVE  TrustInv'
<1> USE DEF TrustInv
<1>1. /\ proc \in Command /\ proc.at = "clear" /\ anchors = {}
      /\ UNCHANGED <<manifests, record, files, previous, wrapper, store, anchors, made, stray>>
      /\ \A f \in Files : files[f] = None
  BY Busy DEF ClearPending, At, DeviceInv, Steps, RemovalInv
<1>2. CASE pending' = FALSE /\ Works(AfterStore)
  <2>1. AnchorsKnown' /\ KeyOfAnchor'
    BY <1>1 DEF AnchorsKnown, KeyOfAnchor
  <2>2. proc' \in Command => DeviceInv'
    <3>1. made \in Nat /\ made \in 0 .. MaxCAs
      BY DEF DeviceInv, TrustParts, TypeOK
    <3>2. pending' \in BOOLEAN /\ wrapper' \in BOOLEAN /\ stray' \subseteq anchors'
      BY <1>1, <1>2 DEF DeviceInv, TrustParts, TypeOK
    <3>3. /\ files' \in [Files -> CAs \cup {None, Broken}] /\ files'["cert"] \in (1 .. made') \cup {None}
          /\ previous' \in (1 .. made') \cup {None} /\ anchors' \subseteq 1 .. made'
      BY <1>1 DEF DeviceInv, TrustParts, TypeOK
    <3>4. anchors' = anchors
      BY <1>1
    <3> QED BY <1>1, <2>1, <3>1, <3>2, <3>3, <3>4, DeviceMoves
  <2> QED BY <1>1, <1>2, <2>2, AfterStoreKeeps
<1>3. CASE Fails("file", GivesUp) /\ UNCHANGED pending
  BY <1>1, <1>3, GivingUpKeeps DEF Removals
<1> QED BY <1>2, <1>3 DEF ClearPending

LEMMA RemoveAnchorKeeps ==
  ASSUME TrustInv, RemoveAnchor
  PROVE  TrustInv'
<1> USE DEF TrustInv
<1>1. /\ proc \in Command /\ proc.at = "anchor" /\ Saved = previous /\ ~pending
      /\ UNCHANGED <<manifests, record, files, previous, pending, wrapper, store, made>>
      /\ Hosts' = Hosts /\ (Linux <=> Linux')
      /\ store = "keychain" => anchors \subseteq {previous} \cup stray
      /\ stray \subseteq anchors
  BY Busy, Steady DEF RemoveAnchor, At, DeviceInv, TrustParts, TypeOK, Steps, disk, RemovalInv, Removals, Saved
<1>2. CASE /\ anchors' = IF store = "keychain" THEN anchors \ {Saved} ELSE anchors
           /\ stray' = stray \cap anchors'
           /\ Works([proc EXCEPT !.at = "drop"])
  <2>1. proc' \in Command /\ Same(proc', proc) /\ proc'.at = "drop" /\ proc'.ok = proc.ok
    BY <1>1, <1>2, GoesTo DEF Steps
  <2>2. /\ anchors' \subseteq anchors /\ stray' \subseteq anchors'
        /\ store = "keychain" => anchors' \subseteq stray'
        /\ Linux => anchors' = anchors
    BY <1>1, <1>2 DEF Linux
  <2>3. AnchorsKnown' /\ KeyOfAnchor'
    BY <1>1, <2>2 DEF AnchorsKnown, KeyOfAnchor, Known
  <2>4. DeviceInv'
    <3>1. made \in Nat /\ made \in 0 .. MaxCAs
      BY DEF DeviceInv, TrustParts, TypeOK
    <3> QED BY <1>1, <2>1, <2>2, <2>3, <3>1, DeviceMoves DEF DeviceInv, TrustParts, TypeOK
  <2>5. RemovalInv'
    BY <1>1, <2>1, <2>2 DEF RemovalInv, Removals, Same
  <2> QED BY <2>1, <2>4, <2>5, Placed DEF Removals
<1>3. CASE store = "keychain" /\ Fails("retire", GivesUp) /\ UNCHANGED <<anchors, stray>>
  BY <1>1, <1>3, GivingUpKeeps DEF Removals
<1> QED BY <1>2, <1>3 DEF RemoveAnchor

LEMMA DropPreviousKeeps ==
  ASSUME TrustInv, DropPrevious
  PROVE  TrustInv'
<1> USE DEF TrustInv
<1>1. /\ proc.at = "drop" /\ ~pending
      /\ UNCHANGED <<manifests, record, files, pending, wrapper, store, anchors, made, stray>>
      /\ store = "keychain" => anchors \subseteq stray
      /\ \A f \in Files : files[f] = None
      /\ \A d \in Dirs : manifests[d] = None
      /\ ~record
  BY DEF DropPrevious, At, RemovalInv, Removals
<1>2. CASE previous' = None /\ Works(Ends(proc))
  <2>1. AnchorsKnown' /\ KeyOfAnchor'
    BY <1>1 DEF AnchorsKnown, KeyOfAnchor, Known
  <2>2. proc' \in Command => DeviceInv'
    <3>1. made \in Nat /\ made \in 0 .. MaxCAs
      BY DEF DeviceInv, TrustParts, TypeOK
    <3> QED BY <1>1, <1>2, <2>1, <3>1, DeviceMoves DEF DeviceInv, TrustParts, TypeOK
  <2>3. Gone'
    BY <1>1, <1>2 DEF Gone
  <2> QED BY <1>1, <1>2, <2>2, <2>3, EndingKeeps DEF Removals, Works
<1>3. CASE Fails("file", GivesUp) /\ UNCHANGED previous
  BY <1>1, <1>3, GivingUpKeeps DEF Removals
<1> QED BY <1>2, <1>3 DEF DropPrevious

LEMMA UnwrapKeeps ==
  ASSUME TrustInv, Unwrap
  PROVE  TrustInv'
<1> USE DEF TrustInv
<1>1. /\ proc \in Command /\ proc.at = "unwrap" /\ proc.cmd = "uninstall"
      /\ UNCHANGED <<manifests, record, files, previous, pending, store, anchors, made, stray>>
      /\ wrapper' \in BOOLEAN
      /\ \/ Works([proc EXCEPT !.at = "report"])
         \/ Fails("file", [proc EXCEPT !.at = "report"])
  BY Busy DEF Unwrap, At, DeviceInv, TrustParts, TypeOK, Steps, RemovalInv
<1>2. proc' \in Command /\ Same(proc', proc) /\ proc'.at = "report" /\ proc'.ok = proc.ok
  BY <1>1, GoesTo DEF Steps
<1>3. DeviceInv'
  BY <1>1, <1>2, DeviceStays DEF DeviceInv, TrustParts, TypeOK
<1>4. RemovalInv'
  <2>1. proc.ok => Gone
    BY <1>1 DEF RemovalInv
  <2>2. Gone => Gone'
    BY <1>1 DEF Gone
  <2> QED BY <1>1, <1>2, <2>1, <2>2 DEF RemovalInv, Removals
<1>5. InstallLeavesOne' /\ FailedInstallRestores'
  BY <1>1, <1>2 DEF InstallLeavesOne, FailedInstallRestores, Same
<1> QED BY <1>2, <1>3, <1>4, <1>5, Placed

-----------------------------------------------------------------------------
(* The rest of the world.                                                  *)

\* A command that is over, or killed at any step, leaves a device in order.
LEMMA EndKeeps ==
  ASSUME TrustInv, proc' = Idle, UNCHANGED <<disk, store, anchors, made, stray>>
  PROVE  TrustInv'
<1>1. DeviceInv'
  BY DeviceStays, Steady DEF TrustInv, DeviceInv, TrustParts, TypeOK, disk
<1> QED BY <1>1, Placed

LEMMA BreakKeyKeeps ==
  ASSUME TrustInv, BreakKey
  PROVE  TrustInv'
<1> USE DEF TrustInv
<1>1. /\ proc = Idle /\ proc' = Idle
      /\ UNCHANGED <<manifests, record, previous, pending, wrapper, store, anchors, made, stray>>
  BY DEF BreakKey, At, DeviceInv, TrustParts, TypeOK, Steps, Command
<1>2. /\ files' \in [Files -> CAs \cup {None, Broken}]
      /\ files'["cert"] = files["cert"] /\ files'["key"] = Broken /\ Broken # None
  BY TrustAssumption DEF BreakKey, DeviceInv, TrustParts, TypeOK, Files
<1>3. AnchorsKnown' /\ KeyOfAnchor'
  BY <1>1, <1>2 DEF DeviceInv, AnchorsKnown, KeyOfAnchor, Known
<1>4. DeviceInv'
  <2>1. made \in Nat /\ made \in 0 .. MaxCAs
    BY DEF DeviceInv, TrustParts, TypeOK
  <2> QED BY <1>1, <1>2, <1>3, <2>1, DeviceMoves DEF DeviceInv, TrustParts, TypeOK
<1> QED BY <1>1, <1>4, Placed

-----------------------------------------------------------------------------
(* The theorems.                                                           *)

LEMMA TrustStarts ==
  ASSUME Init
  PROVE  TrustInv
<1>1. MaxCAs \in Nat /\ Cardinality({}) = 0
  BY TrustAssumption, FS_EmptySet
<1>2. proc = Idle /\ proc.at = "idle" /\ made = 0 /\ anchors = {}
  BY DEF Init, Idle
<1>3. DeviceInv
  <2>1. TypeOK
    <3>1. {record, pending, wrapper} \subseteq BOOLEAN
      BY DEF Init
    <3>2. Linux => Cardinality(anchors) <= 1
      BY <1>1, <1>2
    <3>3. made \in 0 .. MaxCAs
      BY <1>1, <1>2
    <3> QED BY <1>2, <3>1, <3>2, <3>3 DEF Init, TypeOK
  <2>2. TrustParts
    BY <1>1, <2>1, TrustAssumption DEF Init, TrustParts, Files
  <2> QED BY <2>2 DEF Init, DeviceInv, AnchorsKnown, KeyOfAnchor
<1>4. ManifestsInv /\ EarlyInv /\ ReplacingInv /\ TrustingInv /\ RollbackInv /\ RemovalInv
  BY <1>2 DEF ManifestsInv, EarlyInv, ReplacingInv, TrustingInv, RollbackInv, RemovalInv,
     Installing, Granting, Early, Trusting, Removals
<1>5. InstallLeavesOne /\ FailedInstallRestores
  BY <1>2 DEF InstallLeavesOne, FailedInstallRestores
<1> QED BY <1>3, <1>4, <1>5 DEF TrustInv

LEMMA TrustStaysWhole ==
  ASSUME TrustInv, UNCHANGED vars
  PROVE  TrustInv'
<1>1. UNCHANGED <<manifests, record, files, previous, pending, wrapper, store, anchors, proc, made, stray>>
  BY DEF vars, disk
<1>2. UndoPlan(proc)' = UndoPlan(proc)
  BY <1>1 DEF UndoPlan
<1>3. DeviceInv' /\ ManifestsInv' /\ EarlyInv' /\ TrustingInv' /\ RemovalInv'
  BY <1>1 DEF TrustInv, DeviceInv, TrustParts, TypeOK, AnchorsKnown, KeyOfAnchor, Known, ManifestsInv,
     EarlyInv, TrustingInv, RemovalInv, Hosts, Linux, Left, Reusable, Outgoing, Gone
<1>4. ReplacingInv' /\ InstallLeavesOne' /\ FailedInstallRestores'
  BY <1>1 DEF TrustInv, ReplacingInv, InstallLeavesOne, FailedInstallRestores, Known, Reusable,
     Hosts, Linux
<1>5. RollbackInv'
  BY <1>1, <1>2 DEF TrustInv, RollbackInv, Left, CaUndone
<1> QED BY <1>3, <1>4, <1>5 DEF TrustInv

LEMMA TrustStep ==
  ASSUME TrustInv, [Next]_vars
  PROVE  TrustInv'
<1>1. ASSUME NEW id \in Extensions, Install(id) PROVE TrustInv'
  BY <1>1, InstallKeeps
<1>2. CASE WriteManifest \/ WriteRecord \/ CheckCaps \/ RestoreWritten
  BY <1>2, WriteManifestKeeps, WriteRecordKeeps, CheckCapsKeeps, RestoreWrittenKeeps
<1>3. CASE Decide \/ RetireSibling \/ SavePrevious \/ WriteFile
  BY <1>3, DecideKeeps, RetireSiblingKeeps, SavePreviousKeeps, WriteFileKeeps
<1>4. CASE TrustCa \/ RetireOutgoing \/ DiscardPrevious \/ Unmark \/ Wrap
  BY <1>4, TrustCaKeeps, RetireOutgoingKeeps, DiscardPreviousKeeps, UnmarkKeeps, WrapKeeps
<1>5. CASE UndoFile \/ Uninstall
  BY <1>5, UndoFileKeeps, UninstallKeeps
<1>6. CASE RemoveManifest \/ ForgetDirs \/ MarkPending \/ DeleteFile
  BY <1>6, RemoveManifestKeeps, ForgetDirsKeeps, MarkPendingKeeps, DeleteFileKeeps
<1>7. CASE Untrust \/ ClearPending \/ RemoveAnchor \/ DropPrevious \/ Unwrap
  BY <1>7, UntrustKeeps, ClearPendingKeeps, RemoveAnchorKeeps, DropPreviousKeeps, UnwrapKeeps
<1>8. CASE Report
  BY <1>8, EndKeeps DEF Report
<1>9. CASE Crash
  BY <1>9, EndKeeps DEF Crash
<1>10. CASE BreakKey
  BY <1>10, BreakKeyKeeps
<1>11. CASE UNCHANGED vars
  BY <1>11, TrustStaysWhole
<1> QED BY <1>1, <1>2, <1>3, <1>4, <1>5, <1>6, <1>7, <1>8, <1>9, <1>10, <1>11 DEF Next

LEMMA TrustHolds == Spec => []TrustInv
<1>1. Init => TrustInv
  BY TrustStarts
<1>2. TrustInv /\ [Next]_vars => TrustInv'
  BY TrustStep
<1> QED BY <1>1, <1>2, PTL DEF Spec

\* The device and the command have their types; in particular Linux, whose store
\* has room for one CA, never has two.
THEOREM TrustTypes == Spec => []TypeOK
<1>1. TrustInv => TypeOK
  BY DEF TrustInv, DeviceInv, TrustParts
<1> QED BY <1>1, TrustHolds, PTL

\* Wherever a trusted CA is removed by its certificate, the certificate of each is
\* still at hand, or the marker says that the store is to be cleaned: at every
\* step of every install and uninstall, whatever failed before and wherever the
\* process was killed (runCaTrust, rollbackReplacedCa, removeCa).
THEOREM AnchorsStayKnown == Spec => []AnchorsKnown
<1>1. TrustInv => AnchorsKnown
  BY DEF TrustInv, DeviceInv
<1> QED BY <1>1, TrustHolds, PTL

\* How a command ends says what it leaves: an install that succeeds one CA, trusted,
\* usable and alone; one that answers with a failure, its rollback undisturbed, what
\* was there; one that throws because the marker could not be removed its CA, trusted
\* and usable, with the manifests and nothing rolled back; an uninstall nothing,
\* whatever failed or was killed before it (handleInstall, install, uninstall).
THEOREM ReportsHold == Spec => []ReportsAreTrue
<1>1. TrustInv => UninstallLeavesNothing
  BY DEF TrustInv, RemovalInv, UninstallLeavesNothing, Gone
<1>2. TrustInv => ThrownInstallStands
  <2>1. SUFFICES ASSUME TrustInv, proc.at = "thrown" PROVE ThrownInstallStands
    BY DEF ThrownInstallStands
  <2>2. Reusable /\ files["cert"] \in anchors
    BY <2>1 DEF TrustInv, TrustingInv, Trusting
  <2>3. \A d \in Hosts : manifests[d] = proc.id
    BY <2>1 DEF TrustInv, ManifestsInv, Granting, Trusting
  <2>4. ~pending => anchors \subseteq {files["cert"]} \cup stray
    BY <2>1 DEF TrustInv, TrustingInv, Trusting, Known, Linux
  <2> QED BY <2>2, <2>3, <2>4 DEF ThrownInstallStands
<1>3. TrustInv => ReportsAreTrue
  BY <1>1, <1>2 DEF TrustInv, ReportsAreTrue
<1> QED BY <1>3, TrustHolds, PTL

===============================================================================
