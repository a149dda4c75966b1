---------------------------- MODULE DnrReconciler ----------------------------
(***************************************************************************)
(* The service worker projects an envelope onto the browser's dynamic      *)
(* rules: state(), projectState() and createDnrInstaller().                *)
(*                                                                         *)
(* The browser keeps the dynamic rules; storage keeps the match index; the *)
(* worker keeps the map `tracked` and forgets it when the browser stops    *)
(* it.  Handlers interleave at every await.  A step here is one browser or *)
(* storage call together with the code up to the next one: calls of one    *)
(* worker are served, and answered, in the order they were made.           *)
(*                                                                         *)
(* Dynamic rule ids: 1 .. UrlIds for redirect and query rules (1..1000000  *)
(* in the code), above it for header rules (from 2000001 in the code).     *)
(***************************************************************************)
EXTENDS ProjectEnvelope, Sequences, Functions

CONSTANTS
  Handlers,       \* concurrent handlers of the service worker
  Commands,       \* the commands pages send (refresh aside)
  Rules,          \* rule ids of the compiler
  Bodies,         \* what a rule does: condition and action
  DynamicBodies,  \* bodies that need the native runtime (URL captures)
  DocOps,         \* DocOps[d]: the compiled operations of document d
  UrlIds,         \* REDIRECT_QUERY_ID_MAX
  Hash,           \* Hash[r]: ruleIdHash
  Stored,         \* the envelopes a profile may hold at the start
  MayFail,        \* the calls that may fail: "live", "drop", "add", "index"
  Stops,          \* when the worker may be stopped: "idle", "midway"
  MaxRevision     \* bound on the revision of a stored project

Operation == [rule: Rules, group: Groups, kind: {"url", "header"}, body: Bodies]

ASSUME DnrAssumption ==
  /\ Commands \subseteq Command
  /\ DynamicBodies \subseteq Bodies
  /\ DocOps \in [Docs -> Seq(Operation)]
  /\ \A d \in Docs : \A i, j \in DOMAIN DocOps[d] :
       DocOps[d][i].rule = DocOps[d][j].rule => i = j
  /\ \A d \in Docs : Len(DocOps[d]) <= UrlIds
  /\ UrlIds \in Nat \ {0}
  /\ Hash \in [Rules -> 1 .. UrlIds]
  /\ \A env \in Stored : IsEnvelope(env) /\ EnvelopeOK(env)
  /\ MayFail \subseteq {"live", "drop", "add", "index"}
  /\ Stops \subseteq {"idle", "midway"}
  /\ MaxRevision \in Nat

VARIABLES
  store,      \* the committed envelope
  live,       \* dynamic rules of the browser: id -> operation it was made from
  index,      \* the match index in storage: id -> rule and kind
  tracked,    \* the installer's memory: id -> operation
  handler,    \* handler[h]: where handler h is
  badge,      \* the action badge
  astray,     \* history: the index was not written after rules were added, or was
              \* read before; until a handler that ran alone has written it
  left        \* history: the worker was stopped or a rule could not be dropped or
              \* added; until a handler that ran alone has installed without failure

history == <<astray, left>>
vars == <<store, live, index, tracked, handler, badge, history>>

-----------------------------------------------------------------------------
(* Ids.                                                                    *)

Band(id) == IF id <= UrlIds THEN "url" ELSE "header"

\* The first free id from the hash on, cyclically.
Probe(hash, used) ==
  LET at(n) == ((hash - 1 + n) % UrlIds) + 1
      free  == {n \in 0 .. UrlIds - 1 : at(n) \notin used}
  IN  at(CHOOSE n \in free : \A k \in free : n <= k)

Compiled(env) == DocOps[env.projects[env.active].doc]

\* dnrManagedOps: the operations of the active project's enabled groups.
Desired(env) ==
  IF env.active = NoProject THEN {}
  ELSE {op \in Range(Compiled(env)) : op.group \in env.projects[env.active].enabled}

\* Rules that need the runtime are skipped.
Installable(ops) == {op \in ops : op.body \notin DynamicBodies}

\* The places of what install() will add, in the order of the document.
Places(env, kind) ==
  {i \in DOMAIN Compiled(env) : /\ Compiled(env)[i] \in Installable(Desired(env))
                                /\ Compiled(env)[i].kind = kind}

\* Redirect and query rules take the first id from their hash on that the ones
\* before them left; header ids are positions.
UrlPlan(env) ==
  LET id[i \in Places(env, "url")] ==
        Probe(Hash[Compiled(env)[i].rule], {id[j] : j \in {k \in Places(env, "url") : k < i}})
  IN  id

HeaderPlan(env) ==
  [i \in Places(env, "header") |->
     UrlIds + Cardinality({k \in Places(env, "header") : k <= i})]

Plan(env) ==
  LET of(kind, ids) == {[at |-> i, id |-> ids[i], op |-> Compiled(env)[i]] :
                          i \in Places(env, kind)}
  IN  of("url", UrlPlan(env)) \cup of("header", HeaderPlan(env))

\* Entry p of a plan is added before entry q.
Earlier(p, q) == IF p.op.kind = q.op.kind THEN p.at < q.at ELSE p.op.kind = "url"

PlannedIds(plan) == {p.id : p \in plan}

Put(f, x, y) == [z \in DOMAIN f \cup {x} |-> IF z = x THEN y ELSE f[z]]
Drop(f, S)   == Restrict(f, DOMAIN f \ S)
Empty        == [id \in {} |-> {}]

RulesOf(f) == {f[id].rule : id \in DOMAIN f}
Named(ops) == {op.rule : op \in ops}

\* current(): the tracked operations whose id the browser still has.
Current == Restrict(tracked, DOMAIN tracked \cap DOMAIN live)

\* They are the browser's rules.
Faithful == \A id \in DOMAIN Current : Current[id].rule = live[id].rule

\* The live ids that stand for an enabled rule which install() puts there again.
InPlace(plan) ==
  {id \in DOMAIN live : \E p \in plan : p.id = id /\ p.op.rule = live[id].rule}

-----------------------------------------------------------------------------
(* Handlers.  `alone`, `known`, `steady` and `failed` are history: no other *)
(* handler ran during this one; every rule the browser held when it began  *)
(* to project could be known to it; it is alone, what it first saw tracked *)
(* were the browser's rules, and its install moves no enabled one to       *)
(* another id; a call of it failed.                                        *)

Idle == [pc |-> "idle"]

Steps == {"read", "hydrate", "index", "current", "compare", "install", "drop",
          "add", "write", "store", "after"}

Fresh(pc, env) ==
  [pc |-> pc, env |-> env, cold |-> {}, before |-> {}, plan |-> {},
   orphans |-> {}, landed |-> FALSE, snapshot |-> Empty,
   alone |-> TRUE, known |-> TRUE, steady |-> TRUE, failed |-> FALSE]

Function(f, S) == IsFiniteSet(DOMAIN f) /\ DOMAIN f \subseteq Nat \ {0}
                    /\ \A id \in DOMAIN f : f[id] \in S

Entry == [rule: Rules, kind: {"url", "header"}]
Badge == [text: {"blank", "count"}, active: Nat, attention: BOOLEAN]

TypeOK ==
  /\ IsEnvelope(store)
  /\ Function(live, Operation)
  /\ Function(tracked, Operation)
  /\ Function(index, Entry)
  /\ badge \in Badge
  /\ DOMAIN handler = Handlers
  /\ \A h \in Handlers :
       \/ handler[h] = Idle
       \/ /\ handler[h].pc \in Steps
          /\ handler[h].pc # "read" => handler[h].env.active # NoProject
          /\ handler[h].pc = "hydrate" => handler[h].cold # {}
          /\ handler[h].pc = "drop" => handler[h].orphans # {}
          /\ handler[h].pc = "add" => handler[h].plan # {}
  \* the index lock
  /\ \A g, h \in Handlers :
       handler[g].pc = "store" /\ handler[h].pc = "store" => g = h

Init ==
  /\ store \in Stored
  /\ live = Empty
  /\ index = Empty
  /\ tracked = Empty
  /\ handler = [h \in Handlers |-> Idle]
  /\ badge = [text |-> "blank", active |-> 0, attention |-> FALSE]
  /\ astray = FALSE /\ left = FALSE

Go(h, r) == handler' = [handler EXCEPT ![h] = r]
At(h, pc) == handler[h].pc = pc

\* A rule was added and the index is still to be written.
Owes(h) == handler[h].pc \in {"add", "write", "store"} /\ handler[h].landed

Resting == \A h \in Handlers : At(h, "idle")

\* A handler starts; whoever is running is no longer alone.
Start(h, r) ==
  handler' = [g \in Handlers |->
    IF g = h THEN [r EXCEPT !.alone = Resting, !.steady = Resting]
    ELSE IF At(g, "idle") THEN Idle
    ELSE [handler[g] EXCEPT !.alone = FALSE, !.steady = FALSE]]

\* hydrateInstalled runs for the bands of which nothing is tracked.
ColdBands == {"url", "header"} \ {Band(id) : id \in DOMAIN tracked}

\* The worker tracks what the browser has, or tracks nothing and finds an
\* operation of the project it projects.
Knowable(id, env) ==
  IF id \in DOMAIN tracked THEN tracked[id] = live[id]
  ELSE live[id] \in Range(Compiled(env))

Projecting(r) ==
  [r EXCEPT !.cold = ColdBands,
            !.known = \A id \in DOMAIN live : Knowable(id, r.env),
            !.pc = IF ColdBands = {} THEN "current" ELSE "hydrate"]

WithinBound(env) == \A p \in Ids(env) : env.projects[p].revision <= MaxRevision

\* A command commits.  A switch projects the envelope it committed, the others
\* call state().
Serve(h) ==
  /\ At(h, "idle")
  /\ \E cmd \in Commands, stamp \in Stamps :
       LET built == Build(cmd, store, stamp)
       IN  /\ built.kind = "commit" /\ WithinBound(built.next)
           /\ store' = built.next
           /\ Start(h, IF cmd.op = "switch"
                       THEN Projecting(Fresh("current", built.next))
                       ELSE Fresh("read", EmptyEnvelope))
  /\ UNCHANGED <<live, index, tracked, badge, history>>

Refresh(h) ==
  /\ At(h, "idle")
  /\ Start(h, Fresh("read", EmptyEnvelope))
  /\ UNCHANGED <<store, live, index, tracked, badge, history>>

\* repository.state(), then projectState begins.
Read(h) ==
  /\ At(h, "read")
  /\ IF store.active = NoProject
     THEN /\ badge' = [text |-> "blank", active |-> 0, attention |-> FALSE]
          /\ Go(h, Idle)
     ELSE /\ Go(h, Projecting([handler[h] EXCEPT !.env = store]))
          /\ UNCHANGED badge
  /\ UNCHANGED <<store, live, index, tracked, history>>

-----------------------------------------------------------------------------
(* hydrateInstalled.                                                       *)

\* The live ids are kept in `orphans` until the index is read.
HydrateLive(h) ==
  /\ At(h, "hydrate")
  /\ \/ Go(h, [handler[h] EXCEPT !.pc = "index", !.orphans = DOMAIN live])
     \/ /\ "live" \in MayFail
        /\ Go(h, [handler[h] EXCEPT !.pc = "current", !.failed = TRUE])
  /\ UNCHANGED <<store, live, index, tracked, badge, history>>

\* Mutant of Recovered: header rules are not recovered.
RecoveredUrlOnly(r) ==
  {id \in r.orphans \cap DOMAIN index :
     /\ Band(id) = "url" /\ "url" \in r.cold
     /\ \E i \in DOMAIN Compiled(r.env) : Compiled(r.env)[i].rule = index[id].rule}

\* The live ids the index explains by an operation of the compiled project.
Recovered(r) ==
  {id \in r.orphans \cap DOMAIN index :
     /\ Band(id) \in r.cold /\ index[id].kind = Band(id)
     /\ \E i \in DOMAIN Compiled(r.env) :
          /\ Compiled(r.env)[i].rule = index[id].rule
          /\ Compiled(r.env)[i].kind = index[id].kind}

CompiledRule(env, rule) ==
  Compiled(env)[CHOOSE i \in DOMAIN Compiled(env) : Compiled(env)[i].rule = rule]

HydrateIndex(h) ==
  /\ At(h, "index")
  /\ \/ /\ tracked' = [id \in DOMAIN tracked \cup Recovered(handler[h]) |->
                      IF id \in Recovered(handler[h])
                      THEN CompiledRule(handler[h].env, index[id].rule)
                      ELSE tracked[id]]
        /\ Go(h, [handler[h] EXCEPT !.pc = "current", !.orphans = {}])
        /\ astray' = (astray \/ \E g \in Handlers : Owes(g))
     \/ /\ "index" \in MayFail
        /\ Go(h, [handler[h] EXCEPT !.pc = "current", !.orphans = {},
                                    !.failed = TRUE])
        /\ UNCHANGED <<tracked, astray>>
  /\ UNCHANGED <<store, live, index, badge, left>>

-----------------------------------------------------------------------------
(* projectState.                                                           *)

CurrentBefore(h) ==
  /\ At(h, "current")
  /\ LET seen == [handler[h] EXCEPT !.pc = "compare", !.steady = @ /\ Faithful]
     IN  \/ Go(h, [seen EXCEPT !.before = RulesOf(Current)])
         \/ "live" \in MayFail /\ Go(h, [seen EXCEPT !.failed = TRUE])
  /\ UNCHANGED <<store, live, index, tracked, badge, history>>

\* Mutant of SameSet: it is enough that there are as many rules.
SameSetSize(env, installed) == Cardinality(Named(Desired(env))) = Cardinality(installed)

\* sameSet: the rule ids decide, not what the rules do.
SameSet(env, installed) == Named(Desired(env)) = installed

Compare(h) ==
  /\ At(h, "compare")
  /\ LET then(installed) == IF SameSet(handler[h].env, installed) THEN "after"
                            ELSE "install"
     IN  \/ Go(h, [handler[h] EXCEPT !.pc = then(RulesOf(Current))])
         \/ /\ "live" \in MayFail
            /\ Go(h, [handler[h] EXCEPT !.pc = then({}), !.failed = TRUE])
  /\ UNCHANGED <<store, live, index, tracked, badge, history>>

\* Where install() goes when its next add, if any, is due.
Onward(r) ==
  [r EXCEPT !.pc = IF r.plan # {} THEN "add"
                   ELSE IF r.landed \/ r.orphans # {} \/ Desired(r.env) = {}
                   THEN "write" ELSE "after"]

\* Mutant of OrphanIds: everything is dropped before it is added again.
OrphanIdsAll(plan) == DOMAIN live

OrphanIds(plan) == DOMAIN live \ PlannedIds(plan)

\* Nothing is left to install for a handler that ran alone and met no failure.
Installed(r) == r.pc \in {"write", "after"} /\ r.alone /\ ~r.failed

\* install() reads the browser's rules and forgets what it tracked.
InstallBegins(h) ==
  /\ At(h, "install")
  /\ LET env     == handler[h].env
         plan    == Plan(env)
         stays   == \A id \in DOMAIN live \ InPlace(plan) :
                      live[id].rule \notin Named(Desired(env))
         planned == [handler[h] EXCEPT !.plan = plan, !.orphans = OrphanIds(plan),
                                       !.steady = @ /\ stays]
     IN  \/ /\ tracked' = Empty
            /\ Go(h, IF OrphanIds(plan) # {} THEN [planned EXCEPT !.pc = "drop"]
                     ELSE Onward(planned))
            /\ left' = (left /\ ~Installed(handler'[h]))
         \/ /\ "live" \in MayFail
            /\ Go(h, [handler[h] EXCEPT !.pc = "after", !.failed = TRUE])
            /\ UNCHANGED <<tracked, left>>
  /\ UNCHANGED <<store, live, index, badge, astray>>

DropOrphans(h) ==
  /\ At(h, "drop")
  /\ \/ /\ live' = Drop(live, handler[h].orphans)
        /\ Go(h, Onward(handler[h]))
        /\ left' = (left /\ ~Installed(handler'[h]))
     \/ /\ "drop" \in MayFail
        /\ Go(h, Onward([handler[h] EXCEPT !.failed = TRUE]))
        /\ left' = TRUE
        /\ UNCHANGED live
  /\ UNCHANGED <<store, index, tracked, badge, astray>>

\* One rule is replaced under its own id.
AddRule(h) ==
  /\ At(h, "add")
  /\ \E next \in handler[h].plan :
       /\ \A p \in handler[h].plan \ {next} : Earlier(next, p)
       /\ LET rest == [handler[h] EXCEPT !.plan = @ \ {next}]
          IN  \/ /\ live' = Put(live, next.id, next.op)
                 /\ tracked' = Put(tracked, next.id, next.op)
                 /\ Go(h, Onward([rest EXCEPT !.landed = TRUE]))
                 /\ left' = (left /\ ~Installed(handler'[h]))
              \/ /\ "add" \in MayFail
                 /\ Go(h, Onward([rest EXCEPT !.failed = TRUE]))
                 /\ left' = TRUE
                 /\ UNCHANGED <<live, tracked>>
  /\ UNCHANGED <<store, index, badge, astray>>

\* Mutant of LockIndex: the lock is not waited for.
LockIndexUnlocked(h) ==
  /\ At(h, "write")
  /\ Go(h, [handler[h] EXCEPT !.pc = "store", !.snapshot =
       [id \in DOMAIN tracked |-> [rule |-> tracked[id].rule,
                                   kind |-> tracked[id].kind]]])
  /\ UNCHANGED <<store, live, index, tracked, badge, history>>

\* writeWholesaleMatchIndex takes the lock and the entries ...
LockIndex(h) ==
  /\ At(h, "write")
  /\ \A g \in Handlers : ~At(g, "store")
  /\ Go(h, [handler[h] EXCEPT !.pc = "store", !.snapshot =
       [id \in DOMAIN tracked |-> [rule |-> tracked[id].rule,
                                   kind |-> tracked[id].kind]]])
  /\ UNCHANGED <<store, live, index, tracked, badge, history>>

\* ... and stores them.
StoreIndex(h) ==
  /\ At(h, "store")
  /\ \/ /\ index' = handler[h].snapshot
        /\ Go(h, [handler[h] EXCEPT !.pc = "after", !.snapshot = Empty])
        /\ astray' = (astray /\ ~handler[h].alone)
     \/ /\ "index" \in MayFail
        /\ Go(h, [handler[h] EXCEPT !.pc = "after", !.snapshot = Empty,
                                    !.failed = TRUE])
        /\ astray' = (astray \/ Owes(h))
        /\ UNCHANGED index
  /\ UNCHANGED <<store, live, tracked, badge, left>>

\* computeRuleStatuses and computeBadge: a rule seen before or after counts.
BadgeOf(env, installed) ==
  [text |-> "count",
   active |-> Cardinality(Named(Desired(env)) \cap installed),
   attention |-> ~(Named(Desired(env)) \subseteq installed)]

CurrentAfter(h) ==
  /\ At(h, "after")
  /\ \E after \in {RulesOf(Current)} \cup (IF "live" \in MayFail THEN {{}} ELSE {}) :
       badge' = BadgeOf(handler[h].env, handler[h].before \cup after)
  /\ Go(h, Idle)
  /\ UNCHANGED <<store, live, index, tracked, history>>

-----------------------------------------------------------------------------
\* The browser stops the worker: its memory is gone.
Stop ==
  /\ \/ "idle" \in Stops /\ \A h \in Handlers : At(h, "idle")
     \/ "midway" \in Stops /\ \E h \in Handlers : ~At(h, "idle")
  /\ tracked' = Empty
  /\ handler' = [h \in Handlers |-> Idle]
  /\ astray' = (astray \/ \E h \in Handlers : Owes(h))
  /\ left' = TRUE
  /\ UNCHANGED <<store, live, index, badge>>

Install(h) ==
  \/ InstallBegins(h)
  \/ DropOrphans(h)
  \/ AddRule(h)
  \/ LockIndex(h)
  \/ StoreIndex(h)

Advance(h) ==
  \/ Read(h)
  \/ HydrateLive(h)
  \/ HydrateIndex(h)
  \/ CurrentBefore(h)
  \/ Compare(h)
  \/ Install(h)
  \/ CurrentAfter(h)

Next ==
  \/ \E h \in Handlers : Serve(h) \/ Refresh(h) \/ Advance(h)
  \/ Stop

Spec == Init /\ [][Next]_vars

-----------------------------------------------------------------------------
(* Properties.                                                             *)

\* A projection of envelope handler[h].env ends (empty when none is active).
Finishes(h) == CurrentAfter(h) \/ (Read(h) /\ store.active = NoProject)

LiveOps == {live[id] : id \in DOMAIN live}

\* A projection that ran alone, met no failure and began with no rule it could
\* not know leaves in the browser the enabled rules of the envelope it projected
\* and nothing else (projectState, ADR 0009: "Drop Rogatio-owned orphans that
\* are no longer desired"); a stop of the worker in between changes nothing.
Reconciled ==
  \A h \in Handlers :
    Finishes(h) /\ handler[h].alone /\ handler[h].known /\ ~handler[h].failed
      => LiveOps = Installable(Desired(handler[h].env))
ProjectionReconciles == [][Reconciled]_vars

\* The same of the rules alone, whatever they do: rules no one enabled are
\* dropped and enabled ones are there, unless the index went astray.  (A rule that
\* an edit made to need the runtime may stay: sameSet compares names.)
Settled ==
  \A h \in Handlers :
    CurrentAfter(h) /\ handler[h].alone /\ ~handler[h].failed /\ ~astray
      => LET desired == Desired(handler[h].env)
         IN  /\ Named(Installable(desired)) \subseteq RulesOf(live)
             /\ RulesOf(live) \subseteq Named(desired)
ProjectionSettlesRules == [][Settled]_vars

\* The same, unless a rule may have been left behind before: by a stop of the
\* worker or by a drop or an add that failed.
SettlesUnlessLeft == [][~left => Settled]_vars

\* While no handler runs, an entry of the match index for a live id names the
\* rule behind that id, unless the index went astray: a match is logged under its
\* own rule's name or under none (ADR 0003).
IndexHonest ==
  Resting /\ ~astray => \A id \in DOMAIN index \cap DOMAIN live :
               index[id].rule = live[id].rule

\* A projection that ran alone and moved no enabled rule to another id never counts
\* more active rules than the browser has, even when its calls failed (computeBadge
\* over before and after).
Counted ==
  \A h \in Handlers :
    Finishes(h) /\ handler[h].steady
      => badge'.active <= Cardinality(RulesOf(live) \cap Named(Desired(handler[h].env)))

\* No step takes away an enabled rule that sits where it is to be installed:
\* installing replaces rules in place (install: "Desired ids are never removed
\* here").
Covered ==
  \A h \in Handlers :
    handler[h].pc \in {"drop", "add"} /\ handler'[h] # handler[h]
      => {live[id].rule : id \in InPlace(Plan(handler[h].env))} \subseteq RulesOf(live')

\* Installing leaves no gap, and the badge never overstates, whatever fails.
FailuresLeaveNoGap == [][Covered /\ Counted]_vars
=============================================================================
