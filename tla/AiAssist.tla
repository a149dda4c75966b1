------------------------------- MODULE AiAssist -------------------------------
(***************************************************************************)
(* AI Assist from the Send button to the Apply button: the editor          *)
(* (editor.ts, ai-assist-panel.ts), the two hosts that check a proposal,   *)
(* the service worker with the native runtime (ai-assist.ts of the         *)
(* extension, lifecycle.ts) and the editor server (ai-assist.ts of the     *)
(* runtime, routes.ts), and the client of the provider (ai-client.ts).     *)
(*                                                                         *)
(* A draft maps each group to its rules, in order, [id, good, from]:       *)
(* whether the rule validates, and the request whose proposal wrote it, 0  *)
(* for the user.  The group None stands for groups without an id.  A rule  *)
(* of a proposal is [group, good, whole]: group None when it names none,   *)
(* not whole without its source.  Hosts repair by position, the editor by  *)
(* id.                                                                     *)
(***************************************************************************)
EXTENDS Integers, Sequences, FiniteSets, SequencesExt

CONSTANTS
    Drafts,       \* the drafts at the start, with rule ids below FirstId
    Answers,      \* what the provider may answer: sequences of rules
    FirstId,
    Fallback,     \* the active group, where the extension puts a rule of no group
    MaxRequests,  \* bound: requests of the user
    MaxEdits,     \* bound: edits and applied proposals
    None

MaxAttempts == 3  \* MAX_FIX_ATTEMPTS
MaxRetries == 2   \* MAX_RETRIES

VARIABLES
    host,         \* "extension" or "cli"
    draft, freshId,
    targets,      \* aiRepairTargets: by group, the ids the next Apply repairs
    request,      \* the request in flight, None or [serial, fix, base, targets]
    serial,       \* requests so far
    edits,        \* edits and applied proposals so far
    offers,       \* proposals with Apply buttons: [request, rules]
    calls,        \* serials of the calls at the host; it serves the first
    fetch,        \* of that call: "none", "headers", "body"
    streams, retries, attempt,
    answer, got   \* what the provider sends; 0, 1 or 2 pieces of it are in, or 3: one was lost

vars == <<host, draft, freshId, targets, request, serial, edits, offers, calls, fetch, streams,
          retries, attempt, answer, got>>
editing == <<draft, freshId, targets, edits>>
client == <<fetch, streams, retries, attempt, answer, got>>

\* Ids are told apart in each group, and are below the next one.
IdsTold(d, next) ==
    \A group \in DOMAIN d : \A i, j \in DOMAIN d[group] :
        d[group][i].id < next /\ (d[group][i].id = d[group][j].id => i = j)

\* The drafts have the groups that the answers name.
AssistAssumption ==
    /\ FirstId \in Nat
    /\ \A d \in Drafts :
        /\ d \in [DOMAIN d -> Seq([id : Nat, good : BOOLEAN, from : {0}])]
        /\ {None, Fallback} \subseteq DOMAIN d /\ IdsTold(d, FirstId)
        /\ Answers \subseteq Seq([group : DOMAIN d, good : BOOLEAN, whole : BOOLEAN])

Groups == DOMAIN draft \ {None}
Valid(d) == d[None] = <<>> /\ \A group \in DOMAIN d : \A i \in DOMAIN d[group] : d[group][i].good

\* The places of the rules with an error, by group and in order.
Flagged(d) ==
    [group \in DOMAIN d |->
        FoldLeftDomain(LAMBDA places, i : IF d[group][i].good THEN places ELSE Append(places, i),
                       <<>>, d[group])]

-----------------------------------------------------------------------------
(* The check of a host: merge, or repair by position                       *)

Merged(d, rule) == [d EXCEPT ![rule.group] = Append(@, [id |-> None, good |-> rule.good, from |-> 0])]

\* acc is the project with the queues of its flagged places.  A rule that is not
\* whole is left out: only the server gets one.
RepairOne(acc, rule) ==
    IF ~rule.whole \/ rule.group = None THEN acc
    ELSE IF acc.queues[rule.group] = <<>> THEN [acc EXCEPT !.d = Merged(acc.d, rule)]
    ELSE [d |-> [acc.d EXCEPT ![rule.group][Head(acc.queues[rule.group])].good = rule.good],
          queues |-> [acc.queues EXCEPT ![rule.group] = Tail(@)]]

Repaired(d, rules) == FoldLeft(RepairOne, [d |-> d, queues |-> Flagged(d)], rules).d

\* The service worker places a rule of no group and takes whole rules only; the
\* server takes any list of rules.
Parsed(rules) ==
    IF host = "cli" THEN rules
    ELSE [i \in DOMAIN rules |->
            IF rules[i].group = None THEN [rules[i] EXCEPT !.group = Fallback] ELSE rules[i]]

\* The merge of a rule without a source throws.
Throws(req, rules) ==
    \E i \in DOMAIN rules : ~rules[i].whole /\ (host = "extension" \/ ~req.fix)

Checked(req, rules) ==
    IF req.fix THEN Repaired(req.base, rules) ELSE FoldLeft(Merged, req.base, rules)

-----------------------------------------------------------------------------
(* Apply, by id (applyAIProposal)                                          *)

IndexOf(d, group, id) == SelectInSeq(d[group], LAMBDA rule : rule.id = id)
Live(d, group, ids) == SelectInSeq(ids, LAMBDA id : IndexOf(d, group, id) # 0)

\* acc holds the draft, the next id, and the targets that are left.
Written(acc, rule, id) ==
    LET i == IndexOf(acc.d, rule.group, id)
        new == [id |-> id, good |-> rule.good, from |-> acc.from]
    IN [acc.d EXCEPT ![rule.group] = IF i = 0 THEN Append(@, new) ELSE [@ EXCEPT ![i] = new]]

\* A plausible slip: a target that is used stays in the list.
ApplyOneAgain(acc, rule) ==
    LET at == Live(acc.d, rule.group, acc.repairs[rule.group])
    IN IF at = 0 THEN [acc EXCEPT !.d = Written(acc, rule, acc.fresh), !.fresh = @ + 1]
       ELSE [acc EXCEPT !.d = Written(acc, rule, acc.repairs[rule.group][at])]

ApplyOne(acc, rule) ==
    LET at == Live(acc.d, rule.group, acc.repairs[rule.group])
    IN IF at = 0 THEN [acc EXCEPT !.d = Written(acc, rule, acc.fresh), !.fresh = @ + 1]
       ELSE [acc EXCEPT !.d = Written(acc, rule, acc.repairs[rule.group][at]),
                        !.repairs[rule.group] = RemoveAt(@, at)]

\* A rule without a source throws: those before it stay applied.
Applied(offer) ==
    LET broken == SelectInSeq(offer.rules, LAMBDA rule : ~rule.whole)
        rules == IF broken = 0 THEN offer.rules ELSE SubSeq(offer.rules, 1, broken - 1)
    IN FoldLeft(ApplyOne, [d |-> draft, fresh |-> freshId, repairs |-> targets,
                           from |-> offer.request.serial], rules)

-----------------------------------------------------------------------------
Init ==
    /\ host \in {"extension", "cli"}
    /\ draft \in Drafts /\ freshId = FirstId
    /\ targets = [group \in DOMAIN draft |-> <<>>]
    /\ request = None /\ serial = 0 /\ edits = 0 /\ offers = {} /\ calls = <<>>
    /\ fetch = "none" /\ streams = FALSE /\ retries = 0 /\ attempt = 0
    /\ answer = <<>> /\ got = 0

\* The user mends or breaks a rule, deletes it, or moves it up.
Edit(group, rules) ==
    /\ edits < MaxEdits /\ edits' = edits + 1
    /\ draft' = [draft EXCEPT ![group] = rules]
    /\ UNCHANGED <<host, freshId, targets, request, serial, offers, calls, client>>

EditRule(group, i) ==
    Edit(group, [draft[group] EXCEPT ![i].good = ~@, ![i].from = 0])
DeleteRule(group, i) == Edit(group, RemoveAt(draft[group], i))
MoveRule(group, i) ==
    i > 1 /\ Edit(group, [draft[group] EXCEPT ![i] = draft[group][i - 1],
                                              ![i - 1] = draft[group][i]])

\* Send: the targets are the flagged rules of the draft that is sent.
RunAIAssist ==
    /\ request = None /\ serial < MaxRequests
    /\ LET flagged == Flagged(draft)
           fix == ~Valid(draft)
           found == [group \in DOMAIN draft |->
                        IF fix THEN [i \in DOMAIN flagged[group] |-> draft[group][flagged[group][i]].id]
                        ELSE <<>>]
       IN /\ targets' = found
          /\ request' = [serial |-> serial + 1, fix |-> fix, base |-> draft, targets |-> found]
    /\ serial' = serial + 1
    /\ calls' = Append(calls, serial + 1)
    /\ UNCHANGED <<host, draft, freshId, edits, offers, client>>

\* Every Apply button of a proposal applies the whole proposal, and stays.
ApplyAIProposal(offer) ==
    /\ edits < MaxEdits /\ edits' = edits + 1
    /\ \E acc \in {Applied(offer)} : draft' = acc.d /\ freshId' = acc.fresh
    /\ targets' = [group \in DOMAIN draft |-> <<>>]
    /\ UNCHANGED <<host, request, serial, offers, calls, client>>

-----------------------------------------------------------------------------
(* The client of the provider                                              *)

StartFetch(stream, tried, attempted) ==
    /\ fetch' = "headers" /\ streams' = stream /\ retries' = tried /\ attempt' = attempted
    /\ got' = 0 /\ answer' = <<>>

\* The host takes up its next call; the server streams, the runtime does not.
TakeUp ==
    /\ fetch = "none" /\ calls # <<>>
    /\ StartFetch(host = "cli", 0, 1)
    /\ UNCHANGED <<host, request, serial, offers, calls, editing>>

\* The answer of a call reaches the editor if it still waits for it.
Settle(shown) ==
    /\ fetch' = "none" /\ calls' = Tail(calls)
    /\ IF request # None /\ request.serial = Head(calls)
       THEN request' = None /\ offers' = offers \cup shown
       ELSE UNCHANGED <<request, offers>>
    /\ UNCHANGED <<host, serial, streams, retries, attempt, answer, got, editing>>

\* A stream that fails is tried again as a completion.
Fails ==
    IF streams THEN /\ StartFetch(FALSE, 0, attempt)
                    /\ UNCHANGED <<host, request, serial, offers, calls, editing>>
    ELSE Settle({})

\* 429, 5xx and a network error are retried; any other status is final.
ProviderRefuses(again) ==
    /\ fetch = "headers"
    /\ IF again /\ retries < MaxRetries
       THEN /\ StartFetch(streams, retries + 1, attempt)
            /\ UNCHANGED <<host, request, serial, offers, calls, editing>>
       ELSE Fails

\* The timer of the fetch stops with the headers.
FetchTimesOut == fetch = "headers" /\ Fails

ProviderAccepts(rules) ==
    /\ fetch = "headers"
    /\ fetch' = "body" /\ answer' = rules
    /\ got' = IF streams THEN 0 ELSE 2
    /\ UNCHANGED <<host, request, serial, offers, calls, streams, retries, attempt, editing>>

\* A piece of the stream, whole, or of a kind the client passes over.
PieceArrives(whole) ==
    /\ fetch = "body" /\ got < 2
    /\ got' = IF whole THEN got + 1 ELSE 3
    /\ UNCHANGED <<host, request, serial, offers, calls, fetch, streams, retries, attempt,
                   answer, editing>>

BodyBreaks == fetch = "body" /\ Fails

\* The answer is read, checked, and shown, refused, or asked for again.
BodyEnds ==
    /\ fetch = "body"
    /\ LET rules == Parsed(answer)
           asks == request # None /\ request.serial = Head(calls)
       IN IF ~asks \/ got # 2 \/ Throws(request, rules) THEN Settle({})
          ELSE IF Valid(Checked(request, rules))
          THEN Settle({[request |-> request, rules |-> rules]})
          ELSE IF host = "cli" /\ attempt < MaxAttempts
          THEN /\ StartFetch(TRUE, 0, attempt + 1)
               /\ UNCHANGED <<host, request, serial, offers, calls, editing>>
          ELSE Settle({})

GivesUp ==
    /\ request' = None
    /\ UNCHANGED <<host, serial, offers, calls, client, editing>>

\* A plausible slip: the bridge times only the call that the host serves.
BridgeTimesOutServed ==
    /\ host = "extension" /\ request # None
    /\ request.serial = Head(calls)
    /\ GivesUp

\* The service worker waits ten seconds for the host, which goes on.
BridgeTimesOut == host = "extension" /\ request # None /\ GivesUp

Next ==
    \/ \E group \in Groups : \E i \in DOMAIN draft[group] :
          EditRule(group, i) \/ DeleteRule(group, i) \/ MoveRule(group, i)
    \/ RunAIAssist \/ TakeUp \/ FetchTimesOut \/ BodyBreaks \/ BodyEnds \/ BridgeTimesOut
    \/ \E offer \in offers : ApplyAIProposal(offer)
    \/ \E again \in BOOLEAN : ProviderRefuses(again)
    \/ \E rules \in Answers : ProviderAccepts(rules)
    \/ \E whole \in BOOLEAN : PieceArrives(whole)

Spec == Init /\ [][Next]_vars

\* The program runs its own steps and timers; the provider owes nothing.
FairSpec ==
    /\ Spec
    /\ WF_vars(TakeUp) /\ WF_vars(FetchTimesOut) /\ WF_vars(BridgeTimesOut)

-----------------------------------------------------------------------------
(* Properties                                                              *)

\* A proposal that is applied to the draft it was asked for leaves no error: the
\* repair by id in the editor does what the host checked by position.  Set apart
\* are proposals of the server with a rule that is not whole.
ApplyIsWhatWasChecked ==
    \A offer \in offers :
        /\ draft = offer.request.base /\ targets = offer.request.targets
        /\ \A i \in DOMAIN offer.rules : offer.rules[i].whole /\ offer.rules[i].group # None
        => Valid(Applied(offer).d)

\* Whatever the provider and the host do, the extension's editor gets an end to
\* each request.
ExtensionSettles ==
    \A n \in 1..MaxRequests :
        (host = "extension" /\ request # None /\ request.serial = n)
            ~> (request = None \/ request.serial # n)

\* REQ-003 of the AI integration: a request ends, by its timer if need be.
RequestSettles == (request # None) ~> (request = None)

\* REQ-3 of the repair spec: the targets of a proposal are those of its request.
RepairsItsOwn ==
    [][\A group \in DOMAIN draft : \A i \in DOMAIN draft'[group] :
          LET rule == draft'[group][i]
          IN \/ rule.from = 0 \/ rule.id >= freshId
             \/ \E j \in DOMAIN draft[group] : draft[group][j] = rule
             \/ \E offer \in offers :
                    /\ offer.request.serial = rule.from
                    /\ \E k \in DOMAIN offer.request.targets[group] :
                          offer.request.targets[group][k] = rule.id]_vars
=============================================================================
