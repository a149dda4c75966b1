----------------------------- MODULE MCDnrReconciler -----------------------------
(* Small profiles for the reconciler (two projects, two groups).  ChangesSpec   *)
(* allows what Spec does of three environments, told apart by `part`.           *)
EXTENDS DnrReconciler, TLC

CONSTANTS h1, h2, dA, dA2, dB, dC, dC2, dD, a, b, g1, g2, x, y, native

VARIABLE part

Op(rule, group, kind, body) ==
  [rule |-> rule, group |-> group, kind |-> kind, body |-> body]

MCDocName   == [d \in Docs |-> IF d \in {dB, dD} THEN b ELSE a]
MCDocGroups == [d \in Docs |-> {g1, g2}]

\* dA and dB share their ids, and 5 needs the native runtime; dA2 is an edit of dA
\* that moves no rule.  In dC, 11 and 12 collide in their hash; dC2 is an edit of
\* it, in which 13 is the first of the headers.
MCDocOps == [d \in Docs |->
  CASE d = dA  -> <<Op(1, g1, "url", x), Op(2, g2, "header", x)>>
    [] d = dA2 -> <<Op(3, g1, "url", x), Op(1, g2, "url", y)>>
    [] d = dB  -> <<Op(4, g1, "url", x)>>
    [] d = dC  -> <<Op(11, g1, "url", x), Op(12, g1, "url", x), Op(14, g2, "header", x)>>
    [] d = dC2 -> <<Op(13, g1, "header", x), Op(14, g2, "header", y), Op(12, g1, "url", y)>>
    [] d = dD  -> <<Op(15, g1, "url", x), Op(16, g1, "header", x), Op(17, g2, "url", native)>>]
MCHash == [r \in Rules |-> IF r = 5 THEN 2 ELSE IF r \in {3, 13} THEN 3 ELSE 1]

Project1(doc, enabled) ==
  [name |-> MCDocName[doc], doc |-> doc, revision |-> 1, updatedAt |-> 1,
   enabled |-> enabled, root |-> NoRoot]
Profile(first, second, enabled) ==
  [projects |-> [p \in {1, 2} |-> Project1(IF p = 1 THEN first ELSE second, enabled)],
   active |-> 1]
Profiles    == {Profile(dA, dB, {g1, g2}), Profile(dC, dD, {})}
AllDisabled == {Profile(dA2, dB, {})}

Toggles(ids) == [op: {"enable"}, id: ids, group: {g1, g2}, on: BOOLEAN]
Saves        == [op: {"save"}, id: {1}, doc: {dA, dA2, dC, dC2}, expected: 1 .. MaxRevision]
Switches     == [op: {"switch"}, id: {1, 2}]

\* Everything but emptying the profile.
AllCommands  == Toggles({1, 2}) \cup Saves \cup Switches \cup {[op |-> "remove", id |-> 2]}
ToggleSwitch == Toggles({1}) \cup Switches

-----------------------------------------------------------------------------
StoredDocs   == {store.projects[p].doc : p \in Ids(store)}
NoFailure    == \A h \in Handlers : ~At(h, "idle") => ~handler[h].failed
OneAtATime   == \A g, h \in Handlers : ~At(g, "idle") /\ ~At(h, "idle") => g = h
NotAfter(n)  == \A p \in Ids(store) : store.projects[p].revision <= n

\* Two handlers interleave while the selection moves.
Overlaps ==
  /\ \E h \in Handlers : Serve(h) \/ Refresh(h) \/ Advance(h)
  /\ store'.projects = store.projects /\ NoFailure'

\* Calls fail; handlers run one after the other.
Fails ==
  /\ \E h \in Handlers : Serve(h) \/ Refresh(h) \/ Advance(h)
  /\ OneAtATime' /\ 2 \in Ids(store') /\ store'.projects[2] = store.projects[2]
  /\ StoredDocs' \subseteq {dA, dA2, dB} /\ NotAfter(IF store.active = 1 THEN 2 ELSE 1)'

\* Every command, one after the other, over ids that move; the worker is stopped
\* while it is idle.
Changes == Next /\ OneAtATime' /\ NoFailure' /\ StoredDocs' \subseteq {dC, dC2, dD}

ChangesInit ==
  /\ Init
  /\ part \in IF dA \in StoredDocs THEN {"overlaps", "fails"} ELSE {"changes"}

ChangesNext ==
  /\ UNCHANGED part
  /\ \/ part = "overlaps" /\ Overlaps
     \/ part = "fails" /\ Fails
     \/ part = "changes" /\ Changes

ChangesSpec == ChangesInit /\ [][ChangesNext]_<<part, vars>>

\* One handler, and nothing else to bound.
OneSpec == part = "one" /\ Init /\ [][Next /\ UNCHANGED part]_<<part, vars>>

PairSymmetry == Permutations({h1, h2})

\* Every command over ids that move: a projection that ran alone, met no failure
\* and began with no rule it could not know leaves exactly the enabled rules in the
\* browser.
CommandsReconcile == [][part = "changes" => Reconciled]_<<part, vars>>
===============================================================================
