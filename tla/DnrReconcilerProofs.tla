--------------------------- MODULE DnrReconcilerProofs ---------------------------
(***************************************************************************)
(* Theorems about the reconciler, for every value of the constants.        *)
(***************************************************************************)
EXTENDS DnrReconciler, ProjectEnvelopeProofs

-------------------------------------------------------------------------------
(* Handlers.                                                                 *)

\* A handler under way.
Fields == {"pc", "env", "cold", "before", "plan", "orphans", "landed", "snapshot",
           "alone", "known", "steady", "failed"}

Working(r) ==
  /\ r = [f \in Fields |-> r[f]]
  /\ r.pc \in Steps
  /\ r.alone \in BOOLEAN /\ r.failed \in BOOLEAN
  /\ r.steady \in BOOLEAN /\ (r.steady => r.alone)

\* Who runs alone is the only one under way.
HandlersInv ==
  /\ DOMAIN handler = Handlers
  /\ \A h \in Handlers : At(h, "idle") => handler[h] = Idle
  /\ \A h \in Handlers : ~At(h, "idle") => Working(handler[h])
  /\ \A g, h \in Handlers :
       ~At(h, "idle") /\ handler[h].alone /\ ~At(g, "idle") => g = h

\* What handler h and no other does in a step: it goes on, or ends.
Goes(h, r) == /\ h \in Handlers
              /\ Go(h, r)
              /\ \/ r = Idle
                 \/ Working(r) /\ ~At(h, "idle") /\ r.alone = handler[h].alone

LEMMA GoesOn ==
  ASSUME HandlersInv, NEW h \in Handlers, NEW r, Goes(h, r)
  PROVE  /\ HandlersInv'
         /\ handler'[h] = r
         /\ \A g \in Handlers \ {h} : handler'[g] = handler[g]
<1>1. /\ DOMAIN handler' = Handlers
      /\ handler'[h] = r
      /\ \A g \in Handlers \ {h} : handler'[g] = handler[g]
  BY DEF Goes, Go, HandlersInv
<1>2. r = Idle \/ (Working(r) /\ r.pc # "idle")
  BY DEF Goes, Working, Fields, Steps
<1>3. \A g \in Handlers : (At(g, "idle") => handler[g] = Idle)'
  BY <1>1, <1>2 DEF HandlersInv, At
<1>4. \A g \in Handlers : (~At(g, "idle") => Working(handler[g]))'
  <2>1. Idle.pc = "idle"
    BY DEF Idle
  <2>2. \A g \in Handlers : handler'[g].pc # "idle" => Working(handler'[g])
    BY <1>1, <1>2, <2>1 DEF HandlersInv, At
  <2> QED BY <2>2 DEF Working, Fields, At
<1>5. \A f, g \in Handlers :
        (~At(g, "idle") /\ handler[g].alone /\ ~At(f, "idle") => f = g)'
  <2>1. \A g \in Handlers : handler'[g].pc # "idle" => handler[g].pc # "idle"
                              /\ handler'[g].alone = handler[g].alone
    BY <1>1, <1>2 DEF Goes, Idle, At
  <2> QED BY <2>1 DEF HandlersInv, At
<1> QED BY <1>1, <1>3, <1>4, <1>5 DEF HandlersInv

\* Who else runs tells them apart at most.
Alike(r, w) == \A f \in Fields \ {"alone", "steady"} : r[f] = w[f]

\* A handler starts; it is alone if all others are idle.
LEMMA StartsOne ==
  ASSUME HandlersInv, NEW h \in Handlers, At(h, "idle"), NEW r, Working(r), Start(h, r)
  PROVE  /\ HandlersInv'
         /\ Alike(handler'[h], r)
         /\ \A g \in Handlers \ {h} :
              \/ At(g, "idle") /\ handler'[g] = Idle
              \/ /\ ~At(g, "idle") /\ Working(handler'[g]) /\ ~handler'[g].alone
                 /\ Alike(handler'[g], handler[g])
<1> DEFINE mine == [r EXCEPT !.alone = Resting, !.steady = Resting]
           other(g) == [handler[g] EXCEPT !.alone = FALSE, !.steady = FALSE]
<1>1. /\ DOMAIN handler' = Handlers
      /\ handler'[h] = mine
      /\ \A g \in Handlers \ {h} :
           handler'[g] = IF At(g, "idle") THEN Idle ELSE other(g)
  BY DEF Start
<1>2. \A g \in Handlers : ~At(g, "idle") =>
        Working(other(g)) /\ ~other(g).alone /\ Alike(other(g), handler[g])
          /\ other(g).pc = handler[g].pc
  <2> SUFFICES ASSUME NEW g \in Handlers, ~At(g, "idle")
               PROVE  Working(other(g)) /\ ~other(g).alone /\ Alike(other(g), handler[g])
                      /\ other(g).pc = handler[g].pc
    OBVIOUS
  <2> DEFINE w == handler[g]
  <2>1. Working(w)
    BY DEF HandlersInv
  <2> HIDE DEF w
  <2>2. LET v == [w EXCEPT !.alone = FALSE, !.steady = FALSE]
        IN  Working(v) /\ ~v.alone /\ Alike(v, w) /\ v.pc = w.pc
    BY <2>1 DEF Working, Fields, Alike
  <2> QED BY <2>2 DEF w
<1>3. Working(mine) /\ Alike(mine, r) /\ mine.pc # "idle" /\ mine.alone = Resting
  <2> DEFINE alone == Resting
             v     == [r EXCEPT !.alone = alone, !.steady = alone]
  <2>1. alone \in BOOLEAN
    BY DEF Resting
  <2> HIDE DEF alone
  <2>2. Working(v) /\ Alike(v, r) /\ v.pc # "idle" /\ v.alone = alone
    BY <2>1 DEF Working, Fields, Steps, Alike
  <2> QED BY <2>2 DEF alone
<1> HIDE DEF mine, other
<1>4. \A g \in Handlers : (At(g, "idle") => handler[g] = Idle)'
  BY <1>1, <1>2, <1>3 DEF At
<1>5. \A g \in Handlers : (~At(g, "idle") => Working(handler[g]))'
  <2>1. Idle.pc = "idle"
    BY DEF Idle
  <2>2. \A g \in Handlers : handler'[g].pc # "idle" => Working(handler'[g])
    BY <1>1, <1>2, <1>3, <2>1
  <2> QED BY <2>2 DEF Working, Fields, At
<1>6. \A f, g \in Handlers :
        (~At(g, "idle") /\ handler[g].alone /\ ~At(f, "idle") => f = g)'
  <2>1. Idle.pc = "idle"
    BY DEF Idle
  <2>2. \A g \in Handlers \ {h} : handler'[g].pc # "idle" => ~At(g, "idle") /\ ~handler'[g].alone
    BY <1>1, <1>2, <2>1
  <2> QED BY <1>1, <1>3, <2>2 DEF At, Resting
<1>7. \A g \in Handlers \ {h} :
        \/ At(g, "idle") /\ handler'[g] = Idle
        \/ /\ ~At(g, "idle") /\ Working(handler'[g]) /\ ~handler'[g].alone
           /\ Alike(handler'[g], handler[g])
  BY <1>1, <1>2
<1> QED BY <1>1, <1>3, <1>4, <1>5, <1>6, <1>7 DEF HandlersInv

LEMMA FreshWorks ==
  ASSUME NEW pc \in {"read", "current"}, NEW env
  PROVE  /\ Working(Fresh(pc, env)) /\ Fresh(pc, env).pc = pc
         /\ Fresh(pc, env).env = env /\ Fresh(pc, env).before = {}
BY DEF Working, Fields, Fresh, Steps

\* A projection begins.
LEMMA Projects ==
  ASSUME NEW r, Working(r)
  PROVE  /\ Working(Projecting(r))
         /\ Projecting(r).pc \in {"current", "hydrate"}
         /\ Projecting(r).env = r.env
         /\ Projecting(r).before = r.before
         /\ Projecting(r).alone = r.alone
         /\ Projecting(r).steady = r.steady
         /\ Projecting(r).failed = r.failed
<1> DEFINE known == \A id \in DOMAIN live : Knowable(id, r.env)
           pc    == IF ColdBands = {} THEN "current" ELSE "hydrate"
           p     == [r EXCEPT !.cold = ColdBands, !.known = known, !.pc = pc]
<1>1. Projecting(r) = p
  BY DEF Projecting
<1>2. pc \in {"current", "hydrate"}
  OBVIOUS
<1> HIDE DEF known, pc
<1>3. /\ Working(p) /\ p.pc = pc /\ p.env = r.env /\ p.before = r.before
      /\ p.alone = r.alone /\ p.steady = r.steady /\ p.failed = r.failed
  BY <1>2 DEF Working, Fields, Steps
<1> QED BY <1>1, <1>2, <1>3

LEMMA StartsFresh ==
  ASSUME NEW h \in Handlers, Serve(h) \/ Refresh(h)
  PROVE  /\ UNCHANGED <<live, index, tracked, astray, left>> /\ At(h, "idle")
         /\ \E r : Working(r) /\ r.pc \in {"read", "current", "hydrate"} /\ Start(h, r)
<1>1. CASE Serve(h)
  <2>1. \A env : LET r == Projecting(Fresh("current", env))
                 IN  Working(r) /\ r.pc \in {"read", "current", "hydrate"}
    BY FreshWorks, Projects
  <2>2. LET r == Fresh("read", EmptyEnvelope)
        IN  Working(r) /\ r.pc \in {"read", "current", "hydrate"}
    BY FreshWorks
  <2> QED BY <1>1, <2>1, <2>2 DEF Serve, history
<1>2. CASE Refresh(h)
  BY <1>2, FreshWorks DEF Refresh, history
<1> QED BY <1>1, <1>2

-------------------------------------------------------------------------------
(* What each step does to its handler.                                       *)

\* What the handler of a projection keeps.
Keeps(w, r) ==
  /\ w.pc # "read" => r.env = w.env
  /\ w.failed => r.failed
  /\ r.steady => w.steady

\* Handler w goes on at pc as r.
GoesTo(w, r, pc) == Working(r) /\ Keeps(w, r) /\ r.alone = w.alone /\ r.pc = pc

LEMMA Updates ==
  ASSUME NEW w, Working(w), NEW pc \in Steps, NEW x
  PROVE  /\ LET r == [w EXCEPT !.pc = pc]
            IN  GoesTo(w, r, pc) /\ r.before = w.before /\ r.plan = w.plan
                /\ r.orphans = w.orphans /\ r.landed = w.landed
         /\ LET r == [w EXCEPT !.pc = pc, !.failed = TRUE]
            IN  GoesTo(w, r, pc) /\ r.before = w.before /\ r.failed
         /\ LET r == [w EXCEPT !.pc = pc, !.orphans = x]
            IN  GoesTo(w, r, pc) /\ r.before = w.before
         /\ LET r == [w EXCEPT !.pc = pc, !.orphans = x, !.failed = TRUE]
            IN  GoesTo(w, r, pc) /\ r.before = w.before
         /\ LET r == [w EXCEPT !.pc = pc, !.snapshot = x]
            IN  GoesTo(w, r, pc) /\ r.before = w.before /\ r.snapshot = x
                /\ r.landed = w.landed /\ r.failed = w.failed
         /\ LET r == [w EXCEPT !.pc = pc, !.snapshot = x, !.failed = TRUE]
            IN  GoesTo(w, r, pc) /\ r.before = w.before /\ r.failed
<1>1. LET r == [w EXCEPT !.pc = pc]
      IN  GoesTo(w, r, pc) /\ r.before = w.before /\ r.plan = w.plan
          /\ r.orphans = w.orphans /\ r.landed = w.landed
  BY DEF Working, Fields, GoesTo, Keeps
<1>2. LET r == [w EXCEPT !.pc = pc, !.failed = TRUE]
      IN  GoesTo(w, r, pc) /\ r.before = w.before /\ r.failed
  BY DEF Working, Fields, GoesTo, Keeps
<1>3. LET r == [w EXCEPT !.pc = pc, !.orphans = x]
      IN  GoesTo(w, r, pc) /\ r.before = w.before
  BY DEF Working, Fields, GoesTo, Keeps
<1>4. LET r == [w EXCEPT !.pc = pc, !.orphans = x, !.failed = TRUE]
      IN  GoesTo(w, r, pc) /\ r.before = w.before
  BY DEF Working, Fields, GoesTo, Keeps
<1>5. LET r == [w EXCEPT !.pc = pc, !.snapshot = x]
      IN  GoesTo(w, r, pc) /\ r.before = w.before /\ r.snapshot = x
          /\ r.landed = w.landed /\ r.failed = w.failed
  BY DEF Working, Fields, GoesTo, Keeps
<1>6. LET r == [w EXCEPT !.pc = pc, !.snapshot = x, !.failed = TRUE]
      IN  GoesTo(w, r, pc) /\ r.before = w.before /\ r.failed
  BY DEF Working, Fields, GoesTo, Keeps
<1> QED BY <1>1, <1>2, <1>3, <1>4, <1>5, <1>6

Quiet(h) == \/ Read(h) \/ HydrateLive(h) \/ HydrateIndex(h) \/ CurrentBefore(h)
            \/ Compare(h) \/ CurrentAfter(h)

\* A step of h that neither installs nor writes the index.
Moves(h, r) ==
  LET w == handler[h]
  IN  /\ Goes(h, r)
      /\ w.pc \in {"read", "hydrate", "index", "current", "compare", "after"}
      /\ \/ r = Idle
         \/ /\ Working(r) /\ Keeps(w, r)
            /\ r.pc \in {"hydrate", "index", "current", "compare", "install", "after"}
            /\ w.pc = "read" => r.env = store /\ store.active # NoProject
            /\ r.before = w.before \/ (r.pc = "compare" /\ r.before = RulesOf(Current))
            /\ r.pc \in {"hydrate", "index", "current"} => w.pc \in {"read", "hydrate", "index"}
            /\ r.pc = "compare" => w.pc = "current" /\ (r.steady => Faithful)
            /\ r.pc = "install" => w.pc = "compare"
            /\ r.pc = "after" => /\ w.pc = "compare"
                                 /\ r.failed \/ SameSet(r.env, RulesOf(Current))

LEMMA QuietMoves ==
  ASSUME HandlersInv, NEW h \in Handlers, Quiet(h)
  PROVE  \E r : Moves(h, r)
<1> DEFINE w == handler[h]
<1>1. CASE Read(h)
  <2>1. Working(w) /\ ~At(h, "idle") /\ w.pc = "read" /\ At(h, "read")
    BY <1>1 DEF Read, At, HandlersInv
  <2>2. CASE store.active = NoProject
    BY <1>1, <2>1, <2>2 DEF Read, Goes, Moves
  <2>3. CASE store.active # NoProject
    <3> DEFINE v == [w EXCEPT !.env = store]
    <3>1. Working(v) /\ v.alone = w.alone /\ v.failed = w.failed /\ v.env = store
          /\ v.before = w.before /\ v.steady = w.steady
      BY <2>1 DEF Working, Fields
    <3>2. Go(h, Projecting(v))
      BY <1>1, <2>3 DEF Read
    <3> HIDE DEF v
    <3>3. Moves(h, Projecting(v))
      BY <2>1, <2>3, <3>1, <3>2, Projects DEF Goes, Keeps, Moves
    <3> QED BY <3>3
  <2> QED BY <2>2, <2>3
<1>2. CASE HydrateLive(h)
  <2>1. Working(w) /\ ~At(h, "idle") /\ w.pc = "hydrate" /\ ~At(h, "read")
    BY <1>2 DEF HydrateLive, At, HandlersInv
  <2> DEFINE a == [w EXCEPT !.pc = "index", !.orphans = DOMAIN live]
             b == [w EXCEPT !.pc = "current", !.failed = TRUE]
  <2>2. GoesTo(w, a, "index") /\ GoesTo(w, b, "current")
        /\ a.before = w.before /\ b.before = w.before
    <3>1. "index" \in Steps /\ "current" \in Steps
      BY DEF Steps
    <3> HIDE DEF w
    <3> QED BY <2>1, <3>1 DEF Working, Fields, GoesTo, Keeps
  <2>3. Go(h, a) \/ Go(h, b)
    BY <1>2 DEF HydrateLive
  <2> HIDE DEF a, b
  <2>4. Moves(h, a) \/ Moves(h, b)
    BY <2>1, <2>2, <2>3 DEF Goes, GoesTo, Moves
  <2> QED BY <2>4
<1>3. CASE HydrateIndex(h)
  <2>1. Working(w) /\ ~At(h, "idle") /\ w.pc = "index" /\ ~At(h, "read")
    BY <1>3 DEF HydrateIndex, At, HandlersInv
  <2> DEFINE a == [w EXCEPT !.pc = "current", !.orphans = {}]
             b == [w EXCEPT !.pc = "current", !.orphans = {}, !.failed = TRUE]
  <2>2. GoesTo(w, a, "current") /\ GoesTo(w, b, "current")
        /\ a.before = w.before /\ b.before = w.before
    <3>1. "index" \in Steps /\ "current" \in Steps
      BY DEF Steps
    <3> HIDE DEF w
    <3> QED BY <2>1, <3>1 DEF Working, Fields, GoesTo, Keeps
  <2>3. Go(h, a) \/ Go(h, b)
    BY <1>3 DEF HydrateIndex
  <2> HIDE DEF a, b
  <2>4. Moves(h, a) \/ Moves(h, b)
    BY <2>1, <2>2, <2>3 DEF Goes, GoesTo, Moves
  <2> QED BY <2>4
<1>4. CASE CurrentBefore(h)
  <2>1. Working(w) /\ ~At(h, "idle") /\ w.pc = "current" /\ ~At(h, "read")
    BY <1>4 DEF CurrentBefore, At, HandlersInv
  <2> DEFINE t == w.steady /\ Faithful
             x == RulesOf(Current)
             seen == [w EXCEPT !.pc = "compare", !.steady = t]
             a == [seen EXCEPT !.before = x]
             b == [seen EXCEPT !.failed = TRUE]
  <2>2. /\ GoesTo(w, a, "compare") /\ a.before = x /\ (a.steady => Faithful)
        /\ GoesTo(w, b, "compare") /\ b.before = w.before /\ (b.steady => Faithful)
    <3>1. t \in BOOLEAN /\ (t => w.steady) /\ (t => Faithful)
      BY <2>1 DEF Working
    <3>2. "compare" \in Steps
      BY DEF Steps
    <3> HIDE DEF w, t, x
    <3>3. /\ GoesTo(w, a, "compare") /\ a.before = x /\ a.steady = t
          /\ GoesTo(w, b, "compare") /\ b.before = w.before /\ b.steady = t
      BY <2>1, <3>1, <3>2 DEF Working, Fields, GoesTo, Keeps
    <3> QED BY <3>1, <3>3
  <2>3. Go(h, a) \/ Go(h, b)
    BY <1>4 DEF CurrentBefore
  <2> HIDE DEF a, b
  <2>4. Moves(h, a) \/ Moves(h, b)
    BY <2>1, <2>2, <2>3 DEF Goes, GoesTo, Moves
  <2> QED BY <2>4
<1>5. CASE Compare(h)
  <2>1. Working(w) /\ ~At(h, "idle") /\ w.pc = "compare" /\ At(h, "compare") /\ ~At(h, "read")
    BY <1>5 DEF Compare, At, HandlersInv
  <2> DEFINE then(installed) == IF SameSet(w.env, installed) THEN "after" ELSE "install"
             p == then(RulesOf(Current))
             q == then({})
             a == [w EXCEPT !.pc = p]
             b == [w EXCEPT !.pc = q, !.failed = TRUE]
  <2>2. p \in {"after", "install"} /\ q \in {"after", "install"}
    OBVIOUS
  <2>3. p = "after" => SameSet(w.env, RulesOf(Current))
    OBVIOUS
  <2>4. Go(h, a) \/ Go(h, b)
    BY <1>5 DEF Compare
  <2> HIDE DEF p, q
  <2>5. GoesTo(w, a, p) /\ GoesTo(w, b, q) /\ b.failed
        /\ a.before = w.before /\ b.before = w.before
    <3>1. p \in Steps /\ q \in Steps
      BY <2>2 DEF Steps
    <3> HIDE DEF w
    <3> QED BY <2>1, <3>1, Updates
  <2> HIDE DEF a, b
  <2>6. /\ Goes(h, a) \/ Goes(h, b)
        /\ Working(a) /\ Keeps(w, a) /\ a.pc = p /\ a.env = w.env /\ a.before = w.before
        /\ Working(b) /\ Keeps(w, b) /\ b.pc = q /\ b.failed /\ b.before = w.before
    BY <2>1, <2>4, <2>5 DEF Goes, GoesTo, Keeps
  <2>7. Moves(h, a) \/ Moves(h, b)
    BY <2>1, <2>2, <2>3, <2>6 DEF Moves
  <2> QED BY <2>7
<1>6. CASE CurrentAfter(h)
  <2>1. Working(w) /\ ~At(h, "idle") /\ w.pc = "after" /\ Go(h, Idle)
    BY <1>6 DEF CurrentAfter, At, HandlersInv
  <2> QED BY <2>1 DEF Goes, Moves
<1> QED BY <1>1, <1>2, <1>3, <1>4, <1>5, <1>6 DEF Quiet

\* Where install() goes on.
NextPc(r) ==
  IF r.plan # {} THEN "add"
  ELSE IF r.landed \/ r.orphans # {} \/ Desired(r.env) = {} THEN "write"
  ELSE "after"

\* A handler that installs keeps all but what is said.
Installs(w, r, plan, orphans, landed, failed) ==
  /\ Working(r) /\ r.env = w.env /\ r.alone = w.alone /\ r.before = w.before
  /\ r.steady => w.steady
  /\ r.plan = plan /\ r.orphans = orphans /\ r.landed = landed /\ r.failed = failed

LEMMA OnwardKeeps ==
  ASSUME NEW r, Working(r)
  PROVE  /\ Installs(r, Onward(r), r.plan, r.orphans, r.landed, r.failed)
         /\ Onward(r).pc = NextPc(r)
<1>1. NextPc(r) \in Steps
  BY DEF NextPc, Steps
<1>2. Onward(r) = [r EXCEPT !.pc = NextPc(r)]
  BY DEF Onward, NextPc
<1>3. \A pc \in Steps : LET v == [r EXCEPT !.pc = pc]
                        IN  Installs(r, v, r.plan, r.orphans, r.landed, r.failed) /\ v.pc = pc
  BY DEF Working, Fields, Installs
<1> QED BY <1>1, <1>2, <1>3

LEMMA InstallUpdates ==
  ASSUME NEW w, Working(w), NEW x, NEW y
  PROVE  /\ \A s \in BOOLEAN :
              LET r == [w EXCEPT !.plan = x, !.orphans = y, !.steady = @ /\ s]
              IN  Installs(w, r, x, y, w.landed, w.failed) /\ (r.steady => s)
         /\ LET r == [w EXCEPT !.failed = TRUE]
            IN  Installs(w, r, w.plan, w.orphans, w.landed, TRUE)
         /\ LET r == [w EXCEPT !.plan = x]
            IN  /\ Installs(w, [r EXCEPT !.landed = TRUE], x, w.orphans, TRUE, w.failed)
                /\ Installs(w, [r EXCEPT !.failed = TRUE], x, w.orphans, w.landed, TRUE)
<1>1. ASSUME NEW s \in BOOLEAN
      PROVE  LET r == [w EXCEPT !.plan = x, !.orphans = y, !.steady = @ /\ s]
             IN  Installs(w, r, x, y, w.landed, w.failed) /\ (r.steady => s)
  <2> DEFINE t == w.steady /\ s
             r == [w EXCEPT !.plan = x, !.orphans = y, !.steady = t]
  <2>1. t \in BOOLEAN /\ (t => w.steady) /\ (t => s)
    BY DEF Working
  <2>2. r = [w EXCEPT !.plan = x, !.orphans = y, !.steady = @ /\ s]
    OBVIOUS
  <2> HIDE DEF t
  <2>3. Installs(w, r, x, y, w.landed, w.failed) /\ r.steady = t
    BY <2>1 DEF Working, Fields, Installs
  <2> QED BY <2>1, <2>2, <2>3
<1>2. LET r == [w EXCEPT !.failed = TRUE]
      IN  Installs(w, r, w.plan, w.orphans, w.landed, TRUE)
  BY DEF Working, Fields, Installs
<1>3. LET r == [w EXCEPT !.plan = x]
      IN  /\ Installs(w, [r EXCEPT !.landed = TRUE], x, w.orphans, TRUE, w.failed)
          /\ Installs(w, [r EXCEPT !.failed = TRUE], x, w.orphans, w.landed, TRUE)
  BY DEF Working, Fields, Installs
<1> QED BY <1>1, <1>2, <1>3

\* The enabled rules the browser holds stay where they are.
Stays(env) == \A id \in DOMAIN live \ InPlace(Plan(env)) :
                live[id].rule \notin Named(Desired(env))

LEMMA InstallBeginsMoves ==
  ASSUME HandlersInv, NEW h \in Handlers, InstallBegins(h)
  PROVE  LET w    == handler[h]
             plan == Plan(w.env)
         IN \/ /\ tracked' = Empty
               /\ \E r : /\ Goes(h, r)
                         /\ Installs(w, r, plan, OrphanIds(plan), w.landed, w.failed)
                         /\ r.pc = IF OrphanIds(plan) # {} THEN "drop" ELSE NextPc(r)
                         /\ r.steady => Stays(w.env)
                         /\ left' = (left /\ ~Installed(r))
            \/ /\ "live" \in MayFail /\ tracked' = tracked /\ left' = left
               /\ \E r : Goes(h, r) /\ GoesTo(w, r, "after") /\ r.before = w.before /\ r.failed
<1> DEFINE w == handler[h]
           plan == Plan(w.env)
           stays == Stays(w.env)
           planned == [w EXCEPT !.plan = plan, !.orphans = OrphanIds(plan), !.steady = @ /\ stays]
<1>1. Working(w) /\ ~At(h, "idle") /\ w.pc = "install"
  BY DEF InstallBegins, At, HandlersInv
<1>2. CASE /\ tracked' = Empty
           /\ Go(h, IF OrphanIds(plan) # {} THEN [planned EXCEPT !.pc = "drop"]
                    ELSE Onward(planned))
           /\ left' = (left /\ ~Installed(handler'[h]))
  <2>1. Installs(w, planned, plan, OrphanIds(plan), w.landed, w.failed)
        /\ (planned.steady => stays)
    <3>1. stays \in BOOLEAN
      BY DEF Stays
    <3> HIDE DEF w, plan, stays
    <3> QED BY <1>1, <3>1, InstallUpdates
  <2> DEFINE dropping == [planned EXCEPT !.pc = "drop"]
  <2>2. Installs(w, dropping, plan, OrphanIds(plan), w.landed, w.failed) /\ dropping.pc = "drop"
        /\ dropping.steady = planned.steady
    <3> HIDE DEF planned, w, plan
    <3>1. "drop" \in Steps
      BY DEF Steps
    <3> QED BY <2>1, <3>1 DEF Installs, Working, Fields
  <2>3. /\ Installs(w, Onward(planned), plan, OrphanIds(plan), w.landed, w.failed)
        /\ Onward(planned).pc = NextPc(Onward(planned))
        /\ Onward(planned).steady => planned.steady
    <3> HIDE DEF planned, w, plan
    <3>1. Working(planned)
      BY <2>1 DEF Installs
    <3>2. /\ Installs(planned, Onward(planned), planned.plan, planned.orphans, planned.landed,
                      planned.failed)
          /\ Onward(planned).pc = NextPc(planned)
      BY <3>1, OnwardKeeps
    <3> QED BY <2>1, <3>2 DEF Installs, NextPc
  <2> DEFINE r == IF OrphanIds(plan) # {} THEN dropping ELSE Onward(planned)
  <2>4. /\ Installs(w, r, plan, OrphanIds(plan), w.landed, w.failed)
        /\ r.pc = IF OrphanIds(plan) # {} THEN "drop" ELSE NextPc(r)
        /\ Go(h, r)
        /\ r.steady => stays
    BY <1>2, <2>1, <2>2, <2>3
  <2> HIDE DEF r, planned
  <2>5. Goes(h, r)
    BY <1>1, <2>4 DEF Goes, Installs
  <2>6. left' = (left /\ ~Installed(r))
    BY <1>2, <2>5, GoesOn
  <2> QED BY <1>2, <2>4, <2>5, <2>6
<1>3. CASE /\ "live" \in MayFail
           /\ Go(h, [w EXCEPT !.pc = "after", !.failed = TRUE])
           /\ UNCHANGED <<tracked, left>>
  <2> DEFINE r == [w EXCEPT !.pc = "after", !.failed = TRUE]
  <2>1. GoesTo(w, r, "after") /\ r.before = w.before /\ r.failed
    <3> HIDE DEF w
    <3> QED BY <1>1, Updates DEF Steps
  <2> HIDE DEF r
  <2>2. Goes(h, r)
    BY <1>1, <1>3, <2>1 DEF Goes, GoesTo, r
  <2> QED BY <1>3, <2>1, <2>2
<1> QED BY <1>2, <1>3 DEF InstallBegins, Stays

\* A step of install() that goes on by Onward.
LEMMA OnwardMoves ==
  ASSUME HandlersInv, NEW h \in Handlers, ~At(h, "idle"), NEW v, NEW plan, NEW orphans,
         NEW landed, NEW failed, Installs(handler[h], v, plan, orphans, landed, failed),
         Go(h, Onward(v))
  PROVE  \E r : /\ Goes(h, r) /\ Installs(handler[h], r, plan, orphans, landed, failed)
                /\ r.pc = NextPc(r)
<1> DEFINE r == Onward(v)
<1>1. Working(v)
  BY DEF Installs
<1>2. Installs(v, r, v.plan, v.orphans, v.landed, v.failed) /\ r.pc = NextPc(v)
  BY <1>1, OnwardKeeps
<1> HIDE DEF r
<1>3. Installs(handler[h], r, plan, orphans, landed, failed) /\ r.pc = NextPc(r)
  BY <1>2 DEF Installs, NextPc
<1>4. Goes(h, r)
  BY <1>3 DEF Goes, Installs, r
<1> QED BY <1>3, <1>4

LEMMA DropOrphansMoves ==
  ASSUME HandlersInv, NEW h \in Handlers, DropOrphans(h)
  PROVE  LET w == handler[h]
         IN  \E failed \in BOOLEAN :
               /\ IF failed THEN "drop" \in MayFail /\ live' = live /\ left'
                  ELSE /\ live' = Drop(live, w.orphans)
                       /\ left' = (left /\ ~Installed(handler'[h]))
               /\ \E r : /\ Goes(h, r)
                         /\ Installs(w, r, w.plan, w.orphans, w.landed, failed \/ w.failed)
                         /\ r.pc = NextPc(r)
<1> DEFINE w == handler[h]
<1>1. Working(w) /\ ~At(h, "idle")
  BY DEF DropOrphans, At, HandlersInv
<1>2. CASE /\ live' = Drop(live, w.orphans) /\ Go(h, Onward(w))
           /\ left' = (left /\ ~Installed(handler'[h]))
  <2>1. Installs(w, w, w.plan, w.orphans, w.landed, FALSE \/ w.failed)
    BY <1>1 DEF Installs, Working
  <2>2. \E r : /\ Goes(h, r) /\ Installs(w, r, w.plan, w.orphans, w.landed, FALSE \/ w.failed)
               /\ r.pc = NextPc(r)
    BY <1>1, <1>2, <2>1, OnwardMoves
  <2> QED BY <1>2, <2>2
<1>3. CASE /\ "drop" \in MayFail /\ UNCHANGED live /\ left' = TRUE
           /\ Go(h, Onward([w EXCEPT !.failed = TRUE]))
  <2> DEFINE v == [w EXCEPT !.failed = TRUE]
  <2>1. Installs(w, v, w.plan, w.orphans, w.landed, TRUE \/ w.failed)
    <3>1. Installs(w, v, w.plan, w.orphans, w.landed, TRUE)
      <4> HIDE DEF w
      <4> QED BY <1>1, InstallUpdates
    <3> QED BY <3>1
  <2> HIDE DEF v
  <2>2. \E r : /\ Goes(h, r) /\ Installs(w, r, w.plan, w.orphans, w.landed, TRUE \/ w.failed)
               /\ r.pc = NextPc(r)
    BY <1>1, <1>3, <2>1, OnwardMoves DEF v
  <2> QED BY <1>3, <2>2
<1> QED BY <1>2, <1>3 DEF DropOrphans

LEMMA AddRuleMoves ==
  ASSUME HandlersInv, NEW h \in Handlers, AddRule(h)
  PROVE  LET w == handler[h]
         IN  \E next \in w.plan :
               LET rest == w.plan \ {next}
               IN  \/ /\ live' = Put(live, next.id, next.op)
                      /\ tracked' = Put(tracked, next.id, next.op)
                      /\ left' = (left /\ ~Installed(handler'[h]))
                      /\ \E r : /\ Goes(h, r)
                                /\ Installs(w, r, rest, w.orphans, TRUE, w.failed)
                                /\ r.pc = NextPc(r)
                   \/ /\ "add" \in MayFail /\ live' = live /\ tracked' = tracked /\ left'
                      /\ \E r : /\ Goes(h, r)
                                /\ Installs(w, r, rest, w.orphans, w.landed, TRUE)
                                /\ r.pc = NextPc(r)
<1> DEFINE w == handler[h]
<1>1. Working(w) /\ ~At(h, "idle")
  BY DEF AddRule, At, HandlersInv
<1>2. PICK next \in w.plan :
        LET rest == [w EXCEPT !.plan = @ \ {next}]
        IN  \/ /\ live' = Put(live, next.id, next.op)
               /\ tracked' = Put(tracked, next.id, next.op)
               /\ Go(h, Onward([rest EXCEPT !.landed = TRUE]))
               /\ left' = (left /\ ~Installed(handler'[h]))
            \/ /\ "add" \in MayFail
               /\ Go(h, Onward([rest EXCEPT !.failed = TRUE]))
               /\ left' = TRUE
               /\ UNCHANGED <<live, tracked>>
  BY DEF AddRule
<1> DEFINE plan == w.plan \ {next}
           rest == [w EXCEPT !.plan = plan]
           a == [rest EXCEPT !.landed = TRUE]
           b == [rest EXCEPT !.failed = TRUE]
<1>3. Installs(w, a, plan, w.orphans, TRUE, w.failed)
  <2> HIDE DEF w, plan
  <2> QED BY <1>1, InstallUpdates
<1>4. Installs(w, b, plan, w.orphans, w.landed, TRUE)
  <2> HIDE DEF w, plan
  <2> QED BY <1>1, InstallUpdates
<1>5. \/ /\ live' = Put(live, next.id, next.op)
         /\ tracked' = Put(tracked, next.id, next.op)
         /\ Go(h, Onward(a))
         /\ left' = (left /\ ~Installed(handler'[h]))
      \/ /\ "add" \in MayFail /\ live' = live /\ tracked' = tracked /\ left'
         /\ Go(h, Onward(b))
  BY <1>2
<1> HIDE DEF a, b, plan
<1>6. CASE /\ live' = Put(live, next.id, next.op)
           /\ tracked' = Put(tracked, next.id, next.op)
           /\ left' = (left /\ ~Installed(handler'[h]))
           /\ Go(h, Onward(a))
  <2>1. \E r : Goes(h, r) /\ Installs(w, r, plan, w.orphans, TRUE, w.failed) /\ r.pc = NextPc(r)
    <3>1. Installs(handler[h], a, plan, w.orphans, TRUE, w.failed)
      BY <1>3
    <3> HIDE DEF w
    <3>2. \E r : /\ Goes(h, r) /\ Installs(handler[h], r, plan, w.orphans, TRUE, w.failed)
                 /\ r.pc = NextPc(r)
      <4> DEFINE l == TRUE
                 f == w.failed
                 o == w.orphans
      <4>1. Installs(handler[h], a, plan, o, l, f) /\ Go(h, Onward(a))
        BY <1>6, <3>1
      <4> HIDE DEF l, f, o
      <4>2. \E r : Goes(h, r) /\ Installs(handler[h], r, plan, o, l, f) /\ r.pc = NextPc(r)
        BY <1>1, <4>1, OnwardMoves
      <4> QED BY <4>2 DEF l, f, o
    <3> QED BY <3>2 DEF w
  <2> QED BY <1>6, <2>1 DEF plan
<1>7. CASE /\ "add" \in MayFail /\ live' = live /\ tracked' = tracked /\ left'
           /\ Go(h, Onward(b))
  <2>1. \E r : Goes(h, r) /\ Installs(w, r, plan, w.orphans, w.landed, TRUE) /\ r.pc = NextPc(r)
    <3>1. Installs(handler[h], b, plan, w.orphans, w.landed, TRUE)
      BY <1>4
    <3> HIDE DEF w
    <3>2. \E r : /\ Goes(h, r) /\ Installs(handler[h], r, plan, w.orphans, w.landed, TRUE)
                 /\ r.pc = NextPc(r)
      <4> DEFINE l == w.landed
                 f == TRUE
                 o == w.orphans
      <4>1. Installs(handler[h], b, plan, o, l, f) /\ Go(h, Onward(b))
        BY <1>7, <3>1
      <4> HIDE DEF l, f, o
      <4>2. \E r : Goes(h, r) /\ Installs(handler[h], r, plan, o, l, f) /\ r.pc = NextPc(r)
        BY <1>1, <4>1, OnwardMoves
      <4> QED BY <4>2 DEF l, f, o
    <3> QED BY <3>2 DEF w
  <2> QED BY <1>7, <2>1 DEF plan
<1> QED BY <1>5, <1>6, <1>7

LEMMA IndexMoves ==
  ASSUME HandlersInv, NEW h \in Handlers, LockIndex(h) \/ StoreIndex(h)
  PROVE  \E r : /\ Goes(h, r) /\ r.before = handler[h].before
                /\ \/ LockIndex(h) /\ GoesTo(handler[h], r, "store") /\ r.landed = handler[h].landed
                      /\ r.failed = handler[h].failed /\ r.plan = handler[h].plan
                      /\ r.snapshot = [id \in DOMAIN tracked |->
                            [rule |-> tracked[id].rule, kind |-> tracked[id].kind]]
                   \/ StoreIndex(h) /\ GoesTo(handler[h], r, "after")
                      /\ \/ index' = handler[h].snapshot /\ r.failed = handler[h].failed
                            /\ astray' = (astray /\ ~handler[h].alone)
                         \/ index' = index /\ "index" \in MayFail /\ r.failed
                            /\ astray' = (astray \/ Owes(h))
<1> DEFINE w == handler[h]
           taken == [id \in DOMAIN tracked |->
                       [rule |-> tracked[id].rule, kind |-> tracked[id].kind]]
<1>1. Working(w) /\ ~At(h, "idle")
  BY DEF LockIndex, StoreIndex, At, HandlersInv
<1>2. CASE LockIndex(h)
  <2> DEFINE r == [w EXCEPT !.pc = "store", !.snapshot = taken]
  <2>1. GoesTo(w, r, "store") /\ r.before = w.before /\ r.snapshot = taken
        /\ r.landed = w.landed /\ r.failed = w.failed /\ r.plan = w.plan
    <3>1. "store" \in Steps
      BY DEF Steps
    <3> HIDE DEF w, taken
    <3> QED BY <1>1, <3>1 DEF Working, Fields, GoesTo, Keeps
  <2>2. Go(h, r)
    BY <1>2 DEF LockIndex
  <2> HIDE DEF r
  <2>3. Goes(h, r)
    BY <1>1, <2>1, <2>2 DEF Goes, GoesTo
  <2> QED BY <1>2, <2>1, <2>3
<1>3. CASE StoreIndex(h)
  <2> DEFINE a == [w EXCEPT !.pc = "after", !.snapshot = Empty]
             b == [w EXCEPT !.pc = "after", !.snapshot = Empty, !.failed = TRUE]
  <2>1. /\ GoesTo(w, a, "after") /\ a.before = w.before /\ a.failed = w.failed
        /\ GoesTo(w, b, "after") /\ b.before = w.before /\ b.failed
    <3>1. "after" \in Steps
      BY DEF Steps
    <3> HIDE DEF w
    <3> QED BY <1>1, <3>1 DEF Working, Fields, GoesTo, Keeps
  <2>2. \/ /\ index' = w.snapshot /\ Go(h, a) /\ astray' = (astray /\ ~w.alone)
        \/ /\ "index" \in MayFail /\ Go(h, b) /\ astray' = (astray \/ Owes(h)) /\ index' = index
    BY <1>3 DEF StoreIndex
  <2> HIDE DEF a, b
  <2>3. (Go(h, a) => Goes(h, a)) /\ (Go(h, b) => Goes(h, b))
    BY <1>1, <2>1 DEF Goes, GoesTo
  <2> QED BY <1>3, <2>1, <2>2, <2>3
<1> QED BY <1>2, <1>3

-------------------------------------------------------------------------------
(* The match index is honest.                                                *)

\* The rules f and g name for a common id are the same.
Agrees(f, g) == \A id \in DOMAIN f \cap DOMAIN g : f[id].rule = g[id].rule

Installing == {"drop", "add", "write", "store"}

TrackedAgree == ~astray => Agrees(tracked, live)
IndexAgrees  == ~astray => Agrees(index, live) \/ \E g \in Handlers : Owes(g)
SnapshotsAgree ==
  \A h \in Handlers : At(h, "store") /\ ~astray =>
    Agrees(handler[h].snapshot, live) \/ \E g \in Handlers \ {h} : Owes(g)
OneStores == \A g, h \in Handlers : At(g, "store") /\ At(h, "store") => g = h
AloneAgrees ==
  \A h \in Handlers : handler[h].pc \in Installing /\ handler[h].alone =>
    /\ Agrees(tracked, live)
    /\ At(h, "store") => Agrees(handler[h].snapshot, live)

\* What the worker tracks names the rule behind each live id; the index does, or a
\* handler is about to write it; so does what that handler will write, or another one
\* is still to.  A handler that ran alone needs no history for it.
IndexInv ==
  /\ HandlersInv
  /\ TrackedAgree
  /\ IndexAgrees
  /\ SnapshotsAgree
  /\ OneStores
  /\ AloneAgrees

\* Handler h goes on to r and its rules are as they were.
LEMMA IndexKept ==
  ASSUME IndexInv, NEW h \in Handlers, NEW r, Goes(h, r), ~At(h, "idle"),
         r.pc # "store", UNCHANGED index,
         \/ live' = live
         \/ \E S : live' = Drop(live, S),
         tracked' = tracked \/ tracked' = Empty \/ (~astray' => Agrees(tracked', live')),
         astray => astray',
         astray' \/ (Owes(h) => r.pc \in {"add", "write"} /\ r.landed),
         r.pc \in Installing => \/ handler[h].pc \in Installing /\ tracked' = tracked
                                \/ tracked' = Empty
  PROVE  IndexInv'
<1>1. /\ HandlersInv'
      /\ handler'[h] = r
      /\ \A g \in Handlers \ {h} : handler'[g] = handler[g]
  BY GoesOn DEF IndexInv
<1>2. \A f : Agrees(f, live) => Agrees(f, live')
  BY DEF Agrees, Drop, Restrict
<1>3. Agrees(Empty, live')
  BY DEF Agrees, Empty
<1>4. /\ \A g \in Handlers \ {h} : (At(g, "store") <=> At(g, "store")')
      /\ \A g \in Handlers \ {h} : Owes(g) => Owes(g)'
      /\ ~astray' /\ Owes(h) => Owes(h)'
      /\ ~At(h, "store")'
  BY <1>1 DEF At, Owes
<1>5. TrackedAgree'
  <2>1. ~astray' => Agrees(tracked', live')
    BY <1>2, <1>3 DEF IndexInv, TrackedAgree
  <2> QED BY <2>1 DEF TrackedAgree, Agrees
<1>6. IndexAgrees'
  <2>1. ~astray' => Agrees(index', live') \/ \E g \in Handlers : Owes(g)'
    BY <1>2, <1>4 DEF IndexInv, IndexAgrees
  <2> QED BY <2>1 DEF IndexAgrees, Agrees
<1>7. SnapshotsAgree'
  <2>1. \A k \in Handlers : At(k, "store")' /\ ~astray' =>
          Agrees(handler'[k].snapshot, live') \/ \E g \in Handlers \ {k} : Owes(g)'
    BY <1>1, <1>2, <1>4 DEF IndexInv, SnapshotsAgree
  <2> QED BY <2>1 DEF SnapshotsAgree, Agrees
<1>8. OneStores'
  BY <1>4 DEF IndexInv, OneStores
<1>9. AloneAgrees'
  <2>1. \A k \in Handlers \ {h} : ~(handler'[k].pc \in Installing /\ handler'[k].alone)
    BY <1>1 DEF IndexInv, HandlersInv, At, Installing
  <2>2. r.pc \in Installing /\ r.alone => Agrees(tracked', live')
    <3> HAVE r.pc \in Installing /\ r.alone
    <3>0. Idle.pc \notin Installing
      BY DEF Idle, Installing
    <3>1. handler[h].alone
      BY <3>0 DEF Goes
    <3> QED BY <1>2, <1>3, <3>1 DEF IndexInv, AloneAgrees
  <2>3. \A k \in Handlers : handler'[k].pc \in Installing /\ handler'[k].alone =>
          /\ Agrees(tracked', live')
          /\ At(k, "store")' => Agrees(handler'[k].snapshot, live')
    BY <1>1, <1>4, <2>1, <2>2
  <2> QED BY <2>3 DEF AloneAgrees, Agrees
<1> QED BY <1>1, <1>5, <1>6, <1>7, <1>8, <1>9 DEF IndexInv

LEMMA IndexInit == Init => IndexInv
<1> SUFFICES ASSUME Init
             PROVE  IndexInv
  OBVIOUS
<1>1. \A h \in Handlers : handler[h] = Idle /\ handler[h].pc = "idle"
  BY DEF Init, Idle
<1>2. HandlersInv
  BY <1>1 DEF Init, HandlersInv, At
<1>3. TrackedAgree /\ IndexAgrees /\ SnapshotsAgree /\ OneStores /\ AloneAgrees
  BY <1>1 DEF Init, Empty, TrackedAgree, IndexAgrees, SnapshotsAgree, OneStores, AloneAgrees,
              Agrees, At, Installing
<1> QED BY <1>2, <1>3 DEF IndexInv

\* A handler starts.
LEMMA IndexStarts ==
  ASSUME IndexInv, NEW h \in Handlers, Serve(h) \/ Refresh(h)
  PROVE  IndexInv'
<1>1. /\ UNCHANGED <<live, index, tracked, astray>> /\ At(h, "idle")
      /\ \E r : Working(r) /\ r.pc \in {"read", "current", "hydrate"} /\ Start(h, r)
  BY StartsFresh
<1>2. PICK r : Working(r) /\ r.pc \in {"read", "current", "hydrate"} /\ Start(h, r)
  BY <1>1
<1>3. /\ HandlersInv'
      /\ At(h, "idle") /\ handler'[h].pc = r.pc
      /\ \A g \in Handlers \ {h} :
           \/ At(g, "idle") /\ handler'[g] = Idle
           \/ /\ ~At(g, "idle") /\ Working(handler'[g]) /\ ~handler'[g].alone
              /\ Alike(handler'[g], handler[g])
  BY <1>1, <1>2, StartsOne DEF IndexInv, Alike, Fields
<1>4. \A g \in Handlers \ {h} :
        /\ handler'[g].pc = handler[g].pc
        /\ At(g, "idle") \/ /\ handler'[g].landed = handler[g].landed
                            /\ handler'[g].snapshot = handler[g].snapshot
                            /\ ~handler'[g].alone
  <2> TAKE g \in Handlers \ {h}
  <2>1. CASE At(g, "idle")
    BY <2>1, <1>3 DEF IndexInv, HandlersInv
  <2>2. CASE ~At(g, "idle")
    <3> DEFINE w == handler[g]
    <3>1. Working(w)
      BY <2>2 DEF IndexInv, HandlersInv
    <3>2. Alike(handler'[g], w) /\ ~handler'[g].alone
      BY <1>3, <2>2
    <3> HIDE DEF w
    <3>3. handler'[g].pc = w.pc /\ handler'[g].landed = w.landed /\ handler'[g].snapshot = w.snapshot
      BY <3>1, <3>2 DEF Alike, Fields
    <3> QED BY <3>2, <3>3 DEF w
  <2> QED BY <2>1, <2>2
<1>5. /\ \A g \in Handlers : (At(g, "store") <=> At(g, "store")') /\ (Owes(g) <=> Owes(g)')
      /\ \A g \in Handlers : ~(handler'[g].pc \in Installing /\ handler'[g].alone)
      /\ \A g \in Handlers : At(g, "store")' => handler'[g].snapshot = handler[g].snapshot
  BY <1>2, <1>3, <1>4 DEF At, Owes, Installing
<1>6. TrackedAgree'
  BY <1>1 DEF IndexInv, TrackedAgree, Agrees
<1>7. IndexAgrees'
  <2>1. ~astray' => Agrees(index', live') \/ \E g \in Handlers : Owes(g)'
    BY <1>1, <1>5 DEF IndexInv, IndexAgrees
  <2> QED BY <2>1 DEF IndexAgrees, Agrees
<1>8. SnapshotsAgree'
  <2>1. \A k \in Handlers : At(k, "store")' /\ ~astray' =>
          Agrees(handler'[k].snapshot, live') \/ \E g \in Handlers \ {k} : Owes(g)'
    BY <1>1, <1>5 DEF IndexInv, SnapshotsAgree
  <2> QED BY <2>1 DEF SnapshotsAgree, Agrees
<1>9. OneStores' /\ AloneAgrees'
  BY <1>5 DEF IndexInv, OneStores, AloneAgrees
<1> QED BY <1>3, <1>6, <1>7, <1>8, <1>9 DEF IndexInv

\* A step that neither installs nor writes; hydrating recovers what the index names.
LEMMA IndexQuiet ==
  ASSUME IndexInv, NEW h \in Handlers, Quiet(h)
  PROVE  IndexInv'
<1>1. PICK r : /\ Goes(h, r)
               /\ handler[h].pc \in {"read", "hydrate", "index", "current", "compare", "after"}
               /\ r.pc \in {"idle", "hydrate", "index", "current", "compare", "install", "after"}
  <2>1. Idle.pc = "idle"
    BY DEF Idle
  <2> QED BY <2>1, QuietMoves DEF IndexInv, Moves
<1>2. ~At(h, "idle") /\ ~Owes(h) /\ r.pc # "store" /\ r.pc \notin Installing
  BY <1>1 DEF At, Owes, Installing
<1>3. UNCHANGED <<live, index>>
  BY DEF Quiet, Read, HydrateLive, HydrateIndex, CurrentBefore, Compare, CurrentAfter
<1>4. CASE UNCHANGED <<tracked, astray>>
  BY <1>1, <1>2, <1>3, <1>4, IndexKept
<1>5. CASE ~UNCHANGED <<tracked, astray>>
  <2>1. /\ tracked' = [id \in DOMAIN tracked \cup Recovered(handler[h]) |->
                         IF id \in Recovered(handler[h])
                         THEN CompiledRule(handler[h].env, index[id].rule)
                         ELSE tracked[id]]
        /\ astray' = (astray \/ \E g \in Handlers : Owes(g))
    BY <1>5 DEF Quiet, Read, HydrateLive, HydrateIndex, CurrentBefore, Compare, CurrentAfter,
                history
  <2>2. \A id \in Recovered(handler[h]) :
          id \in DOMAIN index /\ CompiledRule(handler[h].env, index[id].rule).rule = index[id].rule
    BY DEF Recovered, CompiledRule
  <2>3. ~astray' => Agrees(tracked', live')
    <3> HAVE ~astray'
    <3>1. Agrees(index, live) /\ Agrees(tracked, live)
      BY <2>1 DEF IndexInv, IndexAgrees, TrackedAgree
    <3> QED BY <1>3, <2>1, <2>2, <3>1 DEF Agrees
  <2> QED BY <1>1, <1>2, <1>3, <2>1, <2>3, IndexKept
<1> QED BY <1>4, <1>5

\* install() begins, or drops the orphans.
LEMMA IndexDrops ==
  ASSUME IndexInv, NEW h \in Handlers, InstallBegins(h) \/ DropOrphans(h)
  PROVE  IndexInv'
<1>1. /\ UNCHANGED <<index, astray>> /\ ~At(h, "idle") /\ ~Owes(h)
      /\ InstallBegins(h) => live' = live
      /\ DropOrphans(h) => tracked' = tracked /\ handler[h].pc \in Installing
  BY DEF InstallBegins, DropOrphans, At, Owes, Installing
<1>2. CASE InstallBegins(h)
  <2>1. \E r : /\ Goes(h, r)
               /\ \/ tracked' = Empty /\ r.pc # "store"
                  \/ tracked' = tracked /\ r.pc = "after"
    BY <1>2, InstallBeginsMoves DEF IndexInv, NextPc, GoesTo
  <2>2. "after" \notin Installing
    BY DEF Installing
  <2> QED BY <1>1, <1>2, <2>1, <2>2, IndexKept
<1>3. CASE DropOrphans(h)
  <2>1. PICK failed \in BOOLEAN :
          /\ IF failed THEN "drop" \in MayFail /\ live' = live
             ELSE live' = Drop(live, handler[h].orphans)
          /\ \E r : Goes(h, r) /\ r.pc = NextPc(r)
    BY <1>3, DropOrphansMoves DEF IndexInv
  <2>2. PICK r : Goes(h, r) /\ r.pc # "store"
    BY <2>1 DEF NextPc
  <2>3. live' = live \/ \E S : live' = Drop(live, S)
    BY <2>1
  <2> QED BY <1>1, <1>3, <2>2, <2>3, IndexKept
<1> QED BY <1>2, <1>3

\* A rule is added: the index is owed.
LEMMA IndexAdds ==
  ASSUME IndexInv, NEW h \in Handlers, AddRule(h)
  PROVE  IndexInv'
<1> DEFINE w == handler[h]
<1>1. UNCHANGED <<index, astray>> /\ ~At(h, "idle") /\ w.pc = "add" /\ w.pc \in Installing
  BY DEF AddRule, At, Installing
<1>2. PICK next \in w.plan :
        \/ /\ live' = Put(live, next.id, next.op)
           /\ tracked' = Put(tracked, next.id, next.op)
           /\ \E r : /\ Goes(h, r)
                     /\ Installs(w, r, w.plan \ {next}, w.orphans, TRUE, w.failed)
                     /\ r.pc = NextPc(r)
        \/ /\ "add" \in MayFail /\ live' = live /\ tracked' = tracked
           /\ \E r : /\ Goes(h, r)
                     /\ Installs(w, r, w.plan \ {next}, w.orphans, w.landed, TRUE)
                     /\ r.pc = NextPc(r)
  BY AddRuleMoves DEF IndexInv
<1>3. CASE /\ live' = Put(live, next.id, next.op)
           /\ tracked' = Put(tracked, next.id, next.op)
           /\ \E r : /\ Goes(h, r)
                     /\ Installs(w, r, w.plan \ {next}, w.orphans, TRUE, w.failed)
                     /\ r.pc = NextPc(r)
  <2>1. PICK r : Goes(h, r) /\ r.pc \in {"add", "write"} /\ r.landed /\ r.alone = w.alone
    BY <1>3 DEF Installs, NextPc
  <2>2. /\ HandlersInv'
        /\ handler'[h] = r
        /\ \A g \in Handlers \ {h} : handler'[g] = handler[g]
    BY <2>1, GoesOn DEF IndexInv
  <2>3. Owes(h)' /\ ~At(h, "store")'
    BY <2>1, <2>2 DEF Owes, At
  <2>4. Agrees(tracked, live) => Agrees(tracked', live')
    BY <1>3 DEF Agrees, Put
  <2>5. TrackedAgree'
    <3>1. ~astray' => Agrees(tracked', live')
      BY <1>1, <2>4 DEF IndexInv, TrackedAgree
    <3> QED BY <3>1 DEF TrackedAgree, Agrees
  <2>6. IndexAgrees' /\ SnapshotsAgree'
    BY <2>3 DEF IndexAgrees, SnapshotsAgree
  <2>7. \A g \in Handlers \ {h} : /\ At(g, "store") <=> At(g, "store")'
                                  /\ ~(handler'[g].pc \in Installing /\ handler'[g].alone)
    BY <1>1, <2>2 DEF IndexInv, HandlersInv, At, Installing
  <2>8. OneStores'
    BY <2>3, <2>7 DEF IndexInv, OneStores
  <2>9. AloneAgrees'
    <3>1. handler'[h].alone => Agrees(tracked', live')
      BY <1>1, <2>1, <2>2, <2>4 DEF IndexInv, AloneAgrees
    <3>2. \A k \in Handlers : handler'[k].pc \in Installing /\ handler'[k].alone =>
            /\ Agrees(tracked', live')
            /\ At(k, "store")' => Agrees(handler'[k].snapshot, live')
      BY <2>3, <2>7, <3>1
    <3> QED BY <3>2 DEF AloneAgrees, Agrees
  <2> QED BY <2>2, <2>5, <2>6, <2>8, <2>9 DEF IndexInv
<1>4. CASE /\ live' = live /\ tracked' = tracked
           /\ \E r : /\ Goes(h, r)
                     /\ Installs(w, r, w.plan \ {next}, w.orphans, w.landed, TRUE)
                     /\ r.pc = NextPc(r)
  <2>1. PICK r : /\ Goes(h, r) /\ r.pc # "store"
                 /\ Owes(h) => r.pc \in {"add", "write"} /\ r.landed
    BY <1>4 DEF Installs, NextPc, Owes
  <2> QED BY <1>1, <1>4, <2>1, IndexKept
<1> QED BY <1>2, <1>3, <1>4

\* The snapshot is taken under the lock, then written.
LEMMA IndexWrites ==
  ASSUME IndexInv, NEW h \in Handlers, LockIndex(h) \/ StoreIndex(h)
  PROVE  IndexInv'
<1> DEFINE w == handler[h]
<1>1. /\ UNCHANGED <<live, tracked>> /\ ~At(h, "idle")
      /\ w.pc \in Installing
      /\ \A g \in Handlers \ {h} : ~At(g, "store")
  BY DEF LockIndex, StoreIndex, At, Installing, IndexInv, OneStores
<1>2. PICK r : /\ Goes(h, r)
               /\ \/ LockIndex(h) /\ GoesTo(w, r, "store") /\ r.landed = w.landed
                     /\ r.snapshot = [id \in DOMAIN tracked |->
                           [rule |-> tracked[id].rule, kind |-> tracked[id].kind]]
                  \/ StoreIndex(h) /\ GoesTo(w, r, "after")
                     /\ \/ index' = w.snapshot /\ astray' = (astray /\ ~w.alone)
                        \/ index' = index /\ astray' = (astray \/ Owes(h))
  BY IndexMoves DEF IndexInv
<1>3. /\ HandlersInv'
      /\ handler'[h] = r
      /\ \A g \in Handlers \ {h} : handler'[g] = handler[g]
  BY <1>2, GoesOn DEF IndexInv
<1>4. /\ \A g \in Handlers \ {h} : Owes(g) => Owes(g)'
      /\ \A g \in Handlers \ {h} : ~At(g, "store")'
      /\ \A g \in Handlers \ {h} : ~(handler'[g].pc \in Installing /\ handler'[g].alone)
  BY <1>1, <1>3 DEF At, Owes, IndexInv, HandlersInv, Installing
<1>5. OneStores'
  BY <1>4 DEF OneStores
<1>6. CASE LockIndex(h)
  <2>1. UNCHANGED <<index, astray>> /\ w.pc = "write" /\ ~At(h, "store")
    BY <1>6 DEF LockIndex, At, history
  <2>2. /\ r.pc = "store" /\ r.alone = w.alone /\ r.landed = w.landed
        /\ r.snapshot = [id \in DOMAIN tracked |->
              [rule |-> tracked[id].rule, kind |-> tracked[id].kind]]
    BY <1>2, <1>6, <2>1 DEF GoesTo, StoreIndex, At
  <2>3. Agrees(tracked, live) => Agrees(handler'[h].snapshot, live')
    BY <1>1, <1>3, <2>2 DEF Agrees
  <2>4. (Owes(h) => Owes(h)') /\ At(h, "store")'
    BY <1>3, <2>2 DEF Owes, At
  <2>5. TrackedAgree'
    BY <1>1, <2>1 DEF IndexInv, TrackedAgree, Agrees
  <2>6. IndexAgrees'
    <3>1. ~astray' => Agrees(index', live') \/ \E g \in Handlers : Owes(g)'
      BY <1>1, <1>4, <2>1, <2>4 DEF IndexInv, IndexAgrees
    <3> QED BY <3>1 DEF IndexAgrees, Agrees
  <2>7. SnapshotsAgree'
    <3>1. ~astray' => Agrees(handler'[h].snapshot, live')
      BY <2>1, <2>3 DEF IndexInv, TrackedAgree
    <3>2. \A k \in Handlers : At(k, "store")' /\ ~astray' => Agrees(handler'[k].snapshot, live')
      BY <1>4, <3>1
    <3> QED BY <3>2 DEF SnapshotsAgree, Agrees
  <2>8. AloneAgrees'
    <3>1. handler'[h].alone => Agrees(tracked', live') /\ Agrees(handler'[h].snapshot, live')
      BY <1>1, <1>3, <2>2, <2>3 DEF IndexInv, AloneAgrees
    <3>2. \A k \in Handlers : handler'[k].pc \in Installing /\ handler'[k].alone =>
            Agrees(tracked', live') /\ Agrees(handler'[k].snapshot, live')
      BY <1>4, <3>1
    <3> QED BY <3>2 DEF AloneAgrees, Agrees
  <2> QED BY <1>3, <1>5, <2>5, <2>6, <2>7, <2>8 DEF IndexInv
<1>7. CASE StoreIndex(h)
  <2>1. /\ r.pc = "after" /\ At(h, "store")
        /\ \/ index' = w.snapshot /\ astray' = (astray /\ ~w.alone)
           \/ index' = index /\ astray' = (astray \/ Owes(h))
    BY <1>2, <1>7 DEF GoesTo, LockIndex, StoreIndex, At
  <2>2. \A g \in Handlers : ~At(g, "store")' /\ ~(handler'[g].pc \in Installing /\ handler'[g].alone)
    BY <1>3, <1>4, <2>1 DEF At, Installing
  <2>3. SnapshotsAgree' /\ AloneAgrees'
    BY <2>2 DEF SnapshotsAgree, AloneAgrees
  <2>4. ~astray' => Agrees(tracked, live)
    BY <1>1, <2>1 DEF IndexInv, TrackedAgree, AloneAgrees
  <2>5. ~astray' => Agrees(index', live) \/ \E g \in Handlers \ {h} : Owes(g)
    BY <1>1, <2>1 DEF IndexInv, IndexAgrees, SnapshotsAgree, AloneAgrees
  <2>6. TrackedAgree'
    BY <1>1, <2>4 DEF TrackedAgree, Agrees
  <2>7. IndexAgrees'
    <3>1. ~astray' => Agrees(index', live') \/ \E g \in Handlers : Owes(g)'
      BY <1>1, <1>4, <2>5
    <3> QED BY <3>1 DEF IndexAgrees, Agrees
  <2> QED BY <1>3, <1>5, <2>3, <2>6, <2>7 DEF IndexInv
<1> QED BY <1>6, <1>7

LEMMA IndexNext ==
  ASSUME IndexInv, Next
  PROVE  IndexInv'
<1>1. CASE \E h \in Handlers : Serve(h) \/ Refresh(h) \/ Advance(h)
  BY <1>1, IndexStarts, IndexQuiet, IndexDrops, IndexAdds, IndexWrites DEF Advance, Install, Quiet
<1>2. CASE Stop
  <2>1. /\ handler' = [h \in Handlers |-> Idle]
        /\ \A h \in Handlers : handler'[h] = Idle /\ handler'[h].pc = "idle"
    BY <1>2 DEF Stop, Idle
  <2>2. HandlersInv'
    <3>1. DOMAIN handler' = Handlers /\ \A h \in Handlers : At(h, "idle")' /\ handler'[h] = Idle
      BY <2>1 DEF At
    <3> QED BY <3>1 DEF HandlersInv
  <2>3. ~astray' => Agrees(index, live)
    BY <1>2 DEF Stop, IndexInv, IndexAgrees
  <2>4. TrackedAgree' /\ IndexAgrees'
    BY <1>2, <2>3 DEF Stop, TrackedAgree, IndexAgrees, Agrees, Empty
  <2>5. SnapshotsAgree' /\ OneStores' /\ AloneAgrees'
    BY <2>1 DEF SnapshotsAgree, OneStores, AloneAgrees, At, Installing
  <2> QED BY <2>2, <2>4, <2>5 DEF IndexInv
<1> QED BY <1>1, <1>2 DEF Next

LEMMA IndexStutters ==
  ASSUME IndexInv, UNCHANGED vars
  PROVE  IndexInv'
BY DEF vars, history, IndexInv, HandlersInv, TrackedAgree, IndexAgrees, SnapshotsAgree, OneStores,
       AloneAgrees, Agrees, Owes, At

LEMMA IndexSettled == IndexInv => IndexHonest
BY DEF IndexInv, IndexAgrees, IndexHonest, Resting, Agrees, Owes, At

\* Whatever handlers do at the same time, which calls fail and when the worker is
\* stopped: at rest, the match index names the rule behind each live id, unless it
\* was not written after rules were added, or was read before, and no handler that
\* ran alone has written it since.
THEOREM IndexNamesLiveRules == Spec => []IndexHonest
<1>1. Init => IndexInv
  BY IndexInit
<1>2. IndexInv /\ [Next]_vars => IndexInv'
  BY IndexNext, IndexStutters
<1>3. IndexInv => IndexHonest
  BY IndexSettled
<1> QED BY <1>1, <1>2, <1>3, PTL DEF Spec

-------------------------------------------------------------------------------
(* What install() is to add.                                                 *)

\* A document of the profile is active.
Active(env) == IsEnvelope(env) /\ env.active \in Ids(env)

LEMMA CompiledTyped ==
  ASSUME NEW env, Active(env)
  PROVE  /\ Compiled(env) \in Seq(Operation)
         /\ Len(Compiled(env)) \in Nat /\ Len(Compiled(env)) <= UrlIds
         /\ DOMAIN Compiled(env) = 1 .. Len(Compiled(env))
         /\ \A i \in DOMAIN Compiled(env) : Compiled(env)[i] \in Operation
<1>1. env.projects[env.active].doc \in Docs
  BY ProjectTyped DEF Active, Project
<1>2. /\ Compiled(env) \in Seq(Operation) /\ Len(Compiled(env)) <= UrlIds
  BY <1>1, DnrAssumption DEF Compiled
<1> HIDE DEF Compiled
<1> QED BY <1>2

\* The ids from a hash on come back to it after all of them.
LEMMA Cyclic ==
  ASSUME NEW hash \in 1 .. UrlIds, NEW n \in 0 .. UrlIds - 1
  PROVE  ((hash - 1 + n) % UrlIds) + 1 = IF hash + n <= UrlIds THEN hash + n ELSE hash + n - UrlIds
<1>1. UrlIds \in Nat \ {0}
  BY DnrAssumption
<1> DEFINE x == hash - 1 + n
<1>2. x \in Nat /\ x < 2 * UrlIds
  BY <1>1
<1>3. \A y \in Nat : y < UrlIds => y % UrlIds = y
  BY <1>1
<1>4. \A y \in Nat : y >= UrlIds /\ y < 2 * UrlIds => y % UrlIds = y - UrlIds
  BY <1>1
<1> QED BY <1>1, <1>2, <1>3, <1>4

\* The first free id from a hash on exists while fewer than UrlIds ids are taken.
LEMMA ProbesFree ==
  ASSUME NEW hash \in 1 .. UrlIds, NEW f, NEW k \in Nat, k < UrlIds,
         NEW used, used \subseteq {f[j] : j \in 1 .. k}
  PROVE  Probe(hash, used) \in 1 .. UrlIds /\ Probe(hash, used) \notin used
<1> DEFINE at(n) == ((hash - 1 + n) % UrlIds) + 1
           S     == 0 .. UrlIds - 1
           free  == {n \in S : at(n) \notin used}
<1>1. UrlIds \in Nat \ {0}
  BY DnrAssumption
<1>2. \A n \in S : at(n) = IF hash + n <= UrlIds THEN hash + n ELSE hash + n - UrlIds
  BY Cyclic
<1>3. /\ \A n \in S : at(n) \in 1 .. UrlIds
      /\ \A m, n \in S : at(m) = at(n) => m = n
  BY <1>1, <1>2
<1> HIDE DEF at
<1>4. free # {}
  <2> SUFFICES ASSUME \A n \in S : at(n) \in used
               PROVE  FALSE
    OBVIOUS
  <2> DEFINE from == [n \in S |-> CHOOSE j \in 1 .. k : f[j] = at(n)]
  <2>1. \A n \in S : from[n] \in 1 .. k /\ f[from[n]] = at(n)
    <3> TAKE n \in S
    <3>1. \E j \in 1 .. k : f[j] = at(n)
      OBVIOUS
    <3> QED BY <3>1
  <2>2. IsFiniteSet(S) /\ IsFiniteSet(1 .. k) /\ Cardinality(1 .. k) < Cardinality(S)
    BY <1>1, FS_Interval
  <2>3. from \in [S -> 1 .. k]
    BY <2>1
  <2>4. \E x, y \in S : x # y /\ from[x] = from[y]
    <3> HIDE DEF from, S
    <3> QED BY <2>2, <2>3, FS_PigeonHole
  <2> QED BY <1>3, <2>1, <2>4
<1>5. free \subseteq Nat
  BY <1>1
<1>6. \E l \in free : \A m \in free : l <= m
  BY <1>4, <1>5, LeastNatural
<1>7. (CHOOSE n \in free : \A m \in free : n <= m) \in free
  BY <1>6
<1>8. Probe(hash, used) = at(CHOOSE n \in free : \A m \in free : n <= m)
  BY DEF Probe, at
<1> QED BY <1>3, <1>7, <1>8

\* What UrlPlan gives rule i of a document after f gave the ones before it.
NextUrl(env, f, i) ==
  Probe(Hash[Compiled(env)[i].rule], {f[j] : j \in {k \in Places(env, "url") : k < i}})

LEMMA UrlPlanRecursion ==
  ASSUME NEW env, Active(env)
  PROVE  UrlPlan(env) = [i \in Places(env, "url") |-> NextUrl(env, UrlPlan(env), i)]
<1> DEFINE S     == Places(env, "url")
           To(n) == {i \in S : i <= n}
           Planned(f, n) == f = [i \in To(n) |-> NextUrl(env, f, i)]
           N == Len(Compiled(env))
<1>1. S \subseteq 1 .. N /\ N \in Nat
  BY CompiledTyped DEF Places
<1>2. \A i \in S : Compiled(env)[i].rule \in Rules
  BY CompiledTyped DEF Places, Operation
<1> DEFINE K == {n \in Nat : ~ \E f : Planned(f, n)}
<1>3. K = {}
  <2> SUFFICES ASSUME K # {}
               PROVE  FALSE
    OBVIOUS
  <2>1. PICK n \in K : \A m \in K : n <= m
    BY LeastNatural
  <2>2. CASE n = 0
    <3>1. To(0) = {}
      BY <1>1
    <3>2. Planned([i \in {} |-> 0], 0)
      BY <3>1
    <3> QED BY <2>1, <2>2, <3>2
  <2>3. CASE n # 0
    <3> DEFINE m == n - 1
    <3>1. m \in Nat /\ m \notin K /\ n = m + 1
      <4>1. n \in Nat
        BY <2>1
      <4> HIDE DEF K
      <4> QED BY <2>1, <2>3, <4>1
    <3>2. PICK f : Planned(f, m)
      BY <3>1
    <3> DEFINE g == [i \in To(n) |-> NextUrl(env, f, i)]
    <3>3. \A i \in To(n) : \A k \in S : k < i => k \in To(n) /\ g[k] = f[k]
      <4> SUFFICES ASSUME NEW i \in To(n), NEW k \in S, k < i
                   PROVE  k \in To(n) /\ g[k] = f[k]
        OBVIOUS
      <4>1. k \in To(m) /\ k \in To(n)
        BY <1>1, <3>1
      <4>2. f[k] = NextUrl(env, f, k) /\ g[k] = NextUrl(env, f, k)
        <5> HIDE DEF To
        <5> QED BY <3>2, <4>1
      <4> QED BY <4>1, <4>2
    <3>4. \A i \in To(n) : NextUrl(env, f, i) = NextUrl(env, g, i)
      <4> TAKE i \in To(n)
      <4>1. {f[j] : j \in {k \in S : k < i}} = {g[j] : j \in {k \in S : k < i}}
        <5> HIDE DEF g
        <5> QED BY <3>3
      <4> HIDE DEF g
      <4> QED BY <4>1 DEF NextUrl
    <3>5. Planned(g, n)
      BY <3>4
    <3> QED BY <2>1, <3>5
  <2> QED BY <2>2, <2>3
<1>4. \E f : Planned(f, N)
  BY <1>1, <1>3
<1>5. To(N) = S
  BY <1>1
<1>6. \E f : f = [i \in S |-> NextUrl(env, f, i)]
  <2> HIDE DEF To, S
  <2> QED BY <1>4, <1>5
<1> QED BY <1>6 DEF UrlPlan, NextUrl

\* Redirect and query rules get ids of their own.
LEMMA UrlPlanIds ==
  ASSUME NEW env, Active(env)
  PROVE  /\ \A i \in Places(env, "url") : UrlPlan(env)[i] \in 1 .. UrlIds
         /\ \A i, j \in Places(env, "url") : UrlPlan(env)[i] = UrlPlan(env)[j] => i = j
<1> DEFINE S  == Places(env, "url")
           id == UrlPlan(env)
           N  == Len(Compiled(env))
<1>1. S \subseteq 1 .. N /\ N \in Nat /\ N <= UrlIds /\ UrlIds \in Nat
  BY CompiledTyped, DnrAssumption DEF Places
<1>2. \A i \in S : id[i] = NextUrl(env, id, i)
  BY UrlPlanRecursion
<1>3. \A i \in S : id[i] \in 1 .. UrlIds /\ id[i] \notin {id[j] : j \in {k \in S : k < i}}
  <2> TAKE i \in S
  <2>1. Compiled(env)[i].rule \in Rules
    BY CompiledTyped DEF Places, Operation
  <2>2. Hash[Compiled(env)[i].rule] \in 1 .. UrlIds
    BY <2>1, DnrAssumption
  <2> DEFINE used == {id[j] : j \in {k \in S : k < i}}
             h    == Hash[Compiled(env)[i].rule]
             k    == i - 1
  <2>3. k \in Nat /\ k < UrlIds
    BY <1>1
  <2>4. used \subseteq {id[j] : j \in 1 .. k}
    BY <1>1
  <2>5. id[i] = Probe(h, used)
    BY <1>2 DEF NextUrl
  <2> HIDE DEF id, h, k, used
  <2> QED BY <2>2, <2>3, <2>4, <2>5, ProbesFree DEF used, h
<1>4. \A i, j \in S : j < i => id[j] # id[i]
  <2> HIDE DEF id
  <2> QED BY <1>3
<1>5. \A i, j \in S : i = j \/ i < j \/ j < i
  BY <1>1
<1> HIDE DEF id, S
<1> QED BY <1>3, <1>4, <1>5 DEF id, S

\* Header rules too, above them.
LEMMA HeaderPlanIds ==
  ASSUME NEW env, Active(env)
  PROVE  /\ \A i \in Places(env, "header") : HeaderPlan(env)[i] \in Nat /\ HeaderPlan(env)[i] > UrlIds
         /\ \A i, j \in Places(env, "header") : HeaderPlan(env)[i] = HeaderPlan(env)[j] => i = j
<1> DEFINE S    == Places(env, "header")
           N    == Len(Compiled(env))
           To(i) == {k \in S : k <= i}
<1>1. S \subseteq 1 .. N /\ N \in Nat /\ UrlIds \in Nat
  BY CompiledTyped, DnrAssumption DEF Places
<1>2. \A i \in S : IsFiniteSet(To(i))
  <2>1. IsFiniteSet(1 .. N)
    BY <1>1, FS_Interval
  <2> QED BY <1>1, <2>1, FS_Subset
<1>3. \A i \in S : Cardinality(To(i)) \in Nat /\ Cardinality(To(i)) # 0
  <2> TAKE i \in S
  <2>1. i \in To(i)
    BY <1>1
  <2> HIDE DEF To
  <2> QED BY <1>2, <2>1, FS_CardinalityType, FS_EmptySet
<1>4. \A i, j \in S : i < j => Cardinality(To(i)) # Cardinality(To(j))
  <2> SUFFICES ASSUME NEW i \in S, NEW j \in S, i < j
               PROVE  Cardinality(To(i)) # Cardinality(To(j))
    OBVIOUS
  <2>1. To(i) \in SUBSET To(j) /\ j \in To(j) /\ j \notin To(i)
    BY <1>1
  <2> HIDE DEF To
  <2> QED BY <1>2, <2>1, FS_Subset
<1>5. \A i \in S : HeaderPlan(env)[i] = UrlIds + Cardinality(To(i))
  BY DEF HeaderPlan
<1>6. \A i, j \in S : i = j \/ i < j \/ j < i
  BY <1>1
<1> HIDE DEF S, To
<1>7. \A i, j \in S : HeaderPlan(env)[i] = HeaderPlan(env)[j] => Cardinality(To(i)) = Cardinality(To(j))
  BY <1>1, <1>3, <1>5
<1>8. \A i \in S : HeaderPlan(env)[i] \in Nat /\ HeaderPlan(env)[i] > UrlIds
  BY <1>1, <1>3, <1>5
<1> QED BY <1>4, <1>6, <1>7, <1>8 DEF S

\* No two of a project's enabled rules are given one id, however their hashes collide
\* (install: probing, then the header band above).
THEOREM PlanIds ==
  ASSUME NEW env, Active(env), NEW p \in Plan(env), NEW q \in Plan(env), p.id = q.id
  PROVE  p = q
<1> DEFINE entry(kind, ids, i) == [at |-> i, id |-> ids[i], op |-> Compiled(env)[i]]
           U == UrlPlan(env)
           H == HeaderPlan(env)
<1>1. \A r \in Plan(env) : \/ \E i \in Places(env, "url") : r = entry("url", U, i)
                           \/ \E i \in Places(env, "header") : r = entry("header", H, i)
  BY DEF Plan
<1>2. UrlIds \in Nat
  BY DnrAssumption
<1> HIDE DEF U, H
<1>3. \A i \in Places(env, "url") : U[i] \in 1 .. UrlIds
  BY UrlPlanIds DEF U
<1>4. \A i \in Places(env, "header") : H[i] \in Nat /\ H[i] > UrlIds
  BY HeaderPlanIds DEF H
<1>5. \A i \in Places(env, "url"), j \in Places(env, "header") : U[i] # H[j]
  BY <1>2, <1>3, <1>4
<1>6. /\ \A i, j \in Places(env, "url") : U[i] = U[j] => i = j
      /\ \A i, j \in Places(env, "header") : H[i] = H[j] => i = j
  BY UrlPlanIds, HeaderPlanIds DEF U, H
<1> QED BY <1>1, <1>5, <1>6

\* What is to be installed is what is desired and can be.
LEMMA PlanOps ==
  ASSUME NEW env, Active(env)
  PROVE  /\ \A p \in Plan(env) : p.op \in Installable(Desired(env))
         /\ \A op \in Installable(Desired(env)) : \E p \in Plan(env) : p.op = op
<1>1. \A p \in Plan(env) : p.op \in Installable(Desired(env))
  BY DEF Plan, Places
<1>2. ASSUME NEW op \in Installable(Desired(env))
      PROVE  \E p \in Plan(env) : p.op = op
  <2>1. op \in Range(Compiled(env))
    <3>1. op \in Desired(env)
      BY DEF Installable
    <3> QED BY <3>1 DEF Desired
  <2>2. PICK i \in DOMAIN Compiled(env) : op = Compiled(env)[i]
    BY <2>1 DEF Range
  <2>3. op.kind \in {"url", "header"}
    BY <2>2, CompiledTyped DEF Operation
  <2>4. i \in Places(env, op.kind)
    BY <2>2 DEF Places
  <2>5. CASE op.kind = "url"
    <3> DEFINE p == [at |-> i, id |-> UrlPlan(env)[i], op |-> Compiled(env)[i]]
    <3>1. p \in Plan(env)
      BY <2>4, <2>5 DEF Plan
    <3> QED BY <2>2, <3>1
  <2>6. CASE op.kind = "header"
    <3> DEFINE p == [at |-> i, id |-> HeaderPlan(env)[i], op |-> Compiled(env)[i]]
    <3>1. p \in Plan(env)
      BY <2>4, <2>6 DEF Plan
    <3> QED BY <2>2, <3>1
  <2> QED BY <2>3, <2>5, <2>6
<1> QED BY <1>1, <1>2

-------------------------------------------------------------------------------
(* What a handler is about to install.                                       *)

\* The envelope it projects has an active project; its plan is that project's.
Prepared(w) ==
  /\ w.pc = "read" => w.env = EmptyEnvelope
  /\ w.pc # "read" => Active(w.env)
  /\ w.pc \in {"read", "hydrate", "index", "current"} => w.before = {}
  /\ w.pc \in {"drop", "add"} => w.plan \subseteq Plan(w.env)
  /\ w.pc = "drop" => w.orphans \cap PlannedIds(Plan(w.env)) = {}

PreparedInv ==
  /\ IsEnvelope(store) /\ EnvelopeOK(store)
  /\ \A h \in Handlers : ~At(h, "idle") => Prepared(handler[h])

LEMMA PreparedInit == Init => PreparedInv
BY DnrAssumption DEF Init, PreparedInv, At, Idle

\* Handler h goes on to r, the others are as they were.
LEMMA PreparedGoes ==
  ASSUME HandlersInv, PreparedInv, NEW h \in Handlers, NEW r, Goes(h, r), r = Idle \/ Prepared(r),
         UNCHANGED store
  PROVE  PreparedInv'
<1>1. handler'[h] = r /\ \A g \in Handlers \ {h} : handler'[g] = handler[g]
  BY GoesOn
<1>2. Idle.pc = "idle"
  BY DEF Idle
<1>3. \A g \in Handlers : handler'[g].pc # "idle" => Prepared(handler'[g])
  BY <1>1, <1>2 DEF PreparedInv, At
<1> QED BY <1>3 DEF PreparedInv, At

LEMMA StoreActive ==
  ASSUME NEW env, IsEnvelope(env), EnvelopeOK(env), env.active # NoProject
  PROVE  Active(env)
BY DEF Active, EnvelopeOK, OneActive

LEMMA PreparedStarts ==
  ASSUME HandlersInv, PreparedInv, NEW h \in Handlers, Serve(h) \/ Refresh(h)
  PROVE  PreparedInv'
<1> DEFINE fresh == Fresh("read", EmptyEnvelope)
<1>1. Working(fresh) /\ fresh.pc = "read" /\ Prepared(fresh)
  BY FreshWorks DEF Prepared
<1> HIDE DEF fresh
<1>2. /\ At(h, "idle") /\ IsEnvelope(store') /\ EnvelopeOK(store')
      /\ \E r : Working(r) /\ Prepared(r) /\ Start(h, r)
  <2>1. CASE Refresh(h)
    BY <1>1, <2>1 DEF Refresh, PreparedInv, fresh
  <2>2. CASE Serve(h)
    <3>1. PICK cmd \in Commands, stamp \in Stamps :
            LET built == Build(cmd, store, stamp)
            IN  /\ built.kind = "commit"
                /\ store' = built.next
                /\ Start(h, IF cmd.op = "switch"
                            THEN Projecting(Fresh("current", built.next))
                            ELSE fresh)
      BY <2>2 DEF Serve, fresh
    <3> DEFINE built == Build(cmd, store, stamp)
    <3>2. cmd \in Command
      BY DnrAssumption
    <3>3. IsEnvelope(store') /\ EnvelopeOK(store')
      BY <3>1, <3>2, BuildGood DEF Good, PreparedInv
    <3>4. CASE cmd.op = "switch"
      <4> DEFINE p == Projecting(Fresh("current", store'))
      <4>1. built = BuildSwitch(store, cmd.id) /\ cmd.id \in ProjectIds
        BY <3>2, <3>4 DEF Build, Command, CreateCommand, ImportCommand, SaveCommand, SwitchCommand,
                           RemoveCommand, EnableCommand, RootCommand
      <4>2. Has(store, cmd.id) /\ store' = [store EXCEPT !.active = cmd.id]
        BY <3>1, <4>1 DEF BuildSwitch, Commit, Failure
      <4>3. store'.active = cmd.id
        BY <4>2, ProjectTyped DEF PreparedInv
      <4>4. Active(store')
        BY <3>3, <4>1, <4>3, EnvelopeAssumption, StoreActive
      <4>5. Working(p) /\ p.pc \in {"current", "hydrate"} /\ p.env = store' /\ p.before = {}
        BY FreshWorks, Projects
      <4>6. Start(h, p)
        BY <3>1, <3>4
      <4> HIDE DEF p
      <4>7. Prepared(p)
        BY <4>4, <4>5 DEF Prepared
      <4> QED BY <2>2, <3>3, <4>5, <4>6, <4>7 DEF Serve
    <3>5. CASE cmd.op # "switch"
      BY <1>1, <2>2, <3>1, <3>3, <3>5 DEF Serve
    <3> QED BY <3>4, <3>5
  <2> QED BY <2>1, <2>2
<1>3. PICK r : Working(r) /\ Prepared(r) /\ Start(h, r)
  BY <1>2
<1>4. /\ Alike(handler'[h], r)
      /\ \A g \in Handlers \ {h} :
           \/ At(g, "idle") /\ handler'[g] = Idle
           \/ ~At(g, "idle") /\ Alike(handler'[g], handler[g])
  BY <1>2, <1>3, StartsOne
<1>5. \A v, w : Alike(v, w) /\ Prepared(w) => Prepared(v)
  BY DEF Alike, Fields, Prepared
<1>6. Idle.pc = "idle"
  BY DEF Idle
<1>7. \A g \in Handlers : handler'[g].pc # "idle" => Prepared(handler'[g])
  BY <1>3, <1>4, <1>5, <1>6 DEF PreparedInv
<1> QED BY <1>2, <1>7 DEF PreparedInv, At

LEMMA PreparedQuiet ==
  ASSUME HandlersInv, PreparedInv, NEW h \in Handlers, Quiet(h)
  PROVE  PreparedInv'
<1>1. PICK r : Moves(h, r)
  BY QuietMoves
<1>2. UNCHANGED store
  BY DEF Quiet, Read, HydrateLive, HydrateIndex, CurrentBefore, Compare, CurrentAfter
<1>3. Goes(h, r) /\ ~At(h, "idle")
  BY <1>1 DEF Moves, At
<1>4. CASE r # Idle
  <2> DEFINE w == handler[h]
  <2>1. Prepared(w)
    BY <1>3 DEF PreparedInv
  <2>2. /\ Keeps(w, r)
        /\ r.pc \in {"hydrate", "index", "current", "compare", "install", "after"}
        /\ w.pc \in {"read", "hydrate", "index", "current", "compare", "after"}
        /\ w.pc = "read" => r.env = store /\ store.active # NoProject
        /\ r.before = w.before \/ r.pc = "compare"
        /\ r.pc \in {"hydrate", "index", "current"} => w.pc \in {"read", "hydrate", "index", "current"}
    BY <1>1, <1>4 DEF Moves
  <2>3. Active(r.env)
    <3>1. CASE w.pc = "read"
      BY <2>2, <3>1, StoreActive DEF PreparedInv
    <3>2. CASE w.pc # "read"
      BY <2>1, <2>2, <3>2 DEF Prepared, Keeps
    <3> QED BY <3>1, <3>2
  <2>4. Prepared(r)
    BY <2>1, <2>2, <2>3 DEF Prepared
  <2> QED BY <1>2, <1>3, <2>4, PreparedGoes
<1> QED BY <1>2, <1>3, <1>4, PreparedGoes

LEMMA PreparedInstalls ==
  ASSUME HandlersInv, PreparedInv, NEW h \in Handlers, Install(h)
  PROVE  PreparedInv'
<1> DEFINE w == handler[h]
<1>1. UNCHANGED store
  BY DEF Install, InstallBegins, DropOrphans, AddRule, LockIndex, StoreIndex
<1>2. Prepared(w) /\ w.pc # "read"
  BY DEF Install, InstallBegins, DropOrphans, AddRule, LockIndex, StoreIndex, At, PreparedInv
<1>3. \A r : GoesTo(w, r, "after") \/ GoesTo(w, r, "store") => Prepared(r)
  BY <1>2 DEF GoesTo, Keeps, Prepared
<1>4. \A r, plan, orphans, landed, failed :
        /\ Installs(w, r, plan, orphans, landed, failed) /\ r.pc = NextPc(r)
        /\ plan \subseteq Plan(w.env)
        => Prepared(r)
  BY <1>2 DEF Installs, NextPc, Prepared
<1>5. CASE InstallBegins(h)
  <2> DEFINE plan == Plan(w.env)
  <2>1. \/ \E r : /\ Goes(h, r)
                  /\ Installs(w, r, plan, OrphanIds(plan), w.landed, w.failed)
                  /\ r.pc = IF OrphanIds(plan) # {} THEN "drop" ELSE NextPc(r)
        \/ \E r : Goes(h, r) /\ GoesTo(w, r, "after")
    BY <1>5, InstallBeginsMoves
  <2>2. \A r : Installs(w, r, plan, OrphanIds(plan), w.landed, w.failed) /\ r.pc = "drop"
                 => Prepared(r)
    BY <1>2 DEF Installs, Prepared, OrphanIds
  <2>3. \E r : Goes(h, r) /\ Prepared(r)
    BY <1>3, <1>4, <2>1, <2>2
  <2> QED BY <1>1, <2>3, PreparedGoes
<1>6. CASE DropOrphans(h)
  <2>1. w.pc = "drop"
    BY <1>6 DEF DropOrphans, At
  <2>2. \E failed \in BOOLEAN : \E r :
          /\ Goes(h, r)
          /\ Installs(w, r, w.plan, w.orphans, w.landed, failed \/ w.failed)
          /\ r.pc = NextPc(r)
    BY <1>6, DropOrphansMoves
  <2>3. \E r : Goes(h, r) /\ Prepared(r)
    BY <1>2, <1>4, <2>1, <2>2 DEF Prepared
  <2> QED BY <1>1, <2>3, PreparedGoes
<1>7. CASE AddRule(h)
  <2>1. w.pc = "add"
    BY <1>7 DEF AddRule, At
  <2>2. \E next \in w.plan : \E landed, failed, r :
          /\ Goes(h, r)
          /\ Installs(w, r, w.plan \ {next}, w.orphans, landed, failed)
          /\ r.pc = NextPc(r)
    BY <1>7, AddRuleMoves
  <2>3. \E r : Goes(h, r) /\ Prepared(r)
    BY <1>2, <1>4, <2>1, <2>2 DEF Prepared
  <2> QED BY <1>1, <2>3, PreparedGoes
<1>8. CASE LockIndex(h) \/ StoreIndex(h)
  <2>1. \E r : Goes(h, r) /\ Prepared(r)
    BY <1>3, <1>8, IndexMoves
  <2> QED BY <1>1, <2>1, PreparedGoes
<1> QED BY <1>5, <1>6, <1>7, <1>8 DEF Install

LEMMA PreparedNext ==
  ASSUME HandlersInv, PreparedInv, Next
  PROVE  PreparedInv'
<1>1. CASE \E h \in Handlers : Serve(h) \/ Refresh(h) \/ Advance(h)
  BY <1>1, PreparedStarts, PreparedQuiet, PreparedInstalls DEF Advance, Quiet
<1>2. CASE Stop
  BY <1>2 DEF Stop, PreparedInv, At, Idle
<1> QED BY <1>1, <1>2 DEF Next

-------------------------------------------------------------------------------
(* What a handler first saw stays in the browser.                            *)

\* The rules that f holds where the plan puts them.
RulesAt(plan, f) ==
  {f[id].rule : id \in {i \in DOMAIN f : \E p \in plan : p.id = i /\ p.op.rule = f[i].rule}}

LEMMA DropKeeps ==
  ASSUME NEW plan, NEW f, NEW S, S \cap PlannedIds(plan) = {}
  PROVE  RulesAt(plan, f) \subseteq RulesAt(plan, Drop(f, S))
BY DEF RulesAt, PlannedIds, Drop, Restrict

LEMMA PutKeeps ==
  ASSUME NEW env, Active(env), NEW f, NEW next \in Plan(env)
  PROVE  RulesAt(Plan(env), f) \subseteq RulesAt(Plan(env), Put(f, next.id, next.op))
<1> DEFINE plan == Plan(env)
           g    == Put(f, next.id, next.op)
<1>1. \A p \in plan : p.id = next.id => p = next
  BY PlanIds
<1>2. ASSUME NEW i \in DOMAIN f, NEW p \in plan, p.id = i, p.op.rule = f[i].rule
      PROVE  i \in DOMAIN g /\ p.op.rule = g[i].rule
  BY <1>1, <1>2 DEF Put
<1> HIDE DEF plan, g
<1> QED BY <1>2 DEF RulesAt, plan, g

LEMMA RulesThere ==
  ASSUME NEW plan, NEW f
  PROVE  RulesAt(plan, f) \subseteq RulesOf(f)
BY DEF RulesAt, RulesOf

\* The enabled rules a handler first saw.
Seen(w) == w.before \cap Named(Desired(w.env))

\* They are in the browser still, where they are to be; what is tracked are the
\* browser's rules.
Steadied(w, f, t) ==
  w.steady =>
    /\ w.pc \in {"compare", "install", "drop", "add", "write", "store", "after"} =>
         Agrees(t, f) /\ Seen(w) \subseteq RulesOf(f)
    /\ w.pc \in {"drop", "add"} => Seen(w) \subseteq RulesAt(Plan(w.env), f)

SteadyInv == \A h \in Handlers : ~At(h, "idle") => Steadied(handler[h], live, tracked)

LEMMA SteadyInit == Init => SteadyInv
BY DEF Init, SteadyInv, At, Idle

\* Who shares the time is not alone.
LEMMA NotAlone ==
  ASSUME HandlersInv, NEW h \in Handlers, ~At(h, "idle"), NEW g \in Handlers \ {h}, ~At(g, "idle")
  PROVE  ~handler[g].alone /\ ~handler[g].steady
BY DEF HandlersInv, Working

LEMMA SteadyGoes ==
  ASSUME HandlersInv, SteadyInv, NEW h \in Handlers, NEW r, Goes(h, r), ~At(h, "idle"),
         r = Idle \/ Steadied(r, live', tracked')
  PROVE  SteadyInv'
<1>1. handler'[h] = r /\ \A g \in Handlers \ {h} : handler'[g] = handler[g]
  BY GoesOn
<1>2. Idle.pc = "idle"
  BY DEF Idle
<1>3. \A g \in Handlers \ {h} : handler[g].pc # "idle" => Steadied(handler'[g], live', tracked')
  BY <1>1, NotAlone DEF Steadied, At
<1>4. \A g \in Handlers : handler'[g].pc # "idle" => Steadied(handler'[g], live', tracked')
  BY <1>1, <1>2, <1>3
<1> QED BY <1>4 DEF SteadyInv, At

LEMMA SteadyStarts ==
  ASSUME HandlersInv, SteadyInv, NEW h \in Handlers, Serve(h) \/ Refresh(h)
  PROVE  SteadyInv'
<1>1. At(h, "idle") /\ \E r : Working(r) /\ r.pc \in {"read", "current", "hydrate"} /\ Start(h, r)
  BY StartsFresh
<1>2. PICK r : Working(r) /\ r.pc \in {"read", "current", "hydrate"} /\ Start(h, r)
  BY <1>1
<1>3. /\ Alike(handler'[h], r)
      /\ \A g \in Handlers \ {h} :
           \/ At(g, "idle") /\ handler'[g] = Idle
           \/ Working(handler'[g]) /\ ~handler'[g].alone
  BY <1>1, <1>2, StartsOne
<1>4. handler'[h].pc \in {"read", "current", "hydrate"}
  BY <1>2, <1>3 DEF Alike, Fields
<1>5. \A g \in Handlers \ {h} : handler'[g] = Idle \/ ~handler'[g].steady
  BY <1>3 DEF Working
<1>6. Idle.pc = "idle"
  BY DEF Idle
<1>7. \A g \in Handlers : handler'[g].pc # "idle" => Steadied(handler'[g], live', tracked')
  BY <1>4, <1>5, <1>6 DEF Steadied
<1> QED BY <1>7 DEF SteadyInv, At

LEMMA SteadyQuiet ==
  ASSUME HandlersInv, PreparedInv, SteadyInv, NEW h \in Handlers, Quiet(h)
  PROVE  SteadyInv'
<1> DEFINE w == handler[h]
<1>1. PICK r : Moves(h, r)
  BY QuietMoves
<1>2. Goes(h, r) /\ ~At(h, "idle")
  BY <1>1 DEF Moves, At
<1>3. CASE r # Idle
  <2>1. Prepared(w) /\ Steadied(w, live, tracked)
    BY <1>2 DEF PreparedInv, SteadyInv
  <2>2. /\ Keeps(w, r)
        /\ r.pc \in {"hydrate", "index", "current", "compare", "install", "after"}
        /\ r.before = w.before \/ (r.pc = "compare" /\ r.before = RulesOf(Current))
        /\ r.pc = "compare" => w.pc = "current" /\ (r.steady => Faithful)
        /\ r.pc \in {"install", "after"} => w.pc = "compare"
    BY <1>1, <1>3 DEF Moves
  <2>3. CASE r.pc = "compare"
    <3>1. w.before = {} /\ w.pc = "current" /\ UNCHANGED <<live, tracked>>
      <4>1. At(h, "current")
        BY <2>2, <2>3 DEF At
      <4> QED BY <2>1, <4>1 DEF Prepared, At, Quiet, Read, HydrateLive, HydrateIndex, CurrentBefore,
                                  Compare, CurrentAfter
    <3>2. Faithful => Agrees(tracked, live) /\ RulesOf(Current) \subseteq RulesOf(live)
      BY DEF Faithful, Current, Restrict, Agrees, RulesOf
    <3>3. Seen(r) \subseteq r.before
      BY DEF Seen
    <3> QED BY <1>2, <2>2, <2>3, <3>1, <3>2, <3>3, SteadyGoes DEF Steadied
  <2>4. CASE r.pc \in {"install", "after"}
    <3>1. w.pc = "compare" /\ r.before = w.before /\ r.env = w.env /\ (r.steady => w.steady)
      BY <2>2, <2>4 DEF Keeps
    <3>2. UNCHANGED <<live, tracked>>
      BY <3>1 DEF Quiet, Read, HydrateLive, HydrateIndex, CurrentBefore, Compare, CurrentAfter, At
    <3>3. Seen(r) = Seen(w)
      BY <3>1 DEF Seen
    <3>4. Steadied(r, live', tracked')
      BY <2>1, <2>4, <3>1, <3>2, <3>3 DEF Steadied
    <3> QED BY <1>2, <3>4, SteadyGoes
  <2>5. CASE r.pc \in {"hydrate", "index", "current"}
    BY <1>2, <2>5, SteadyGoes DEF Steadied
  <2> QED BY <2>2, <2>3, <2>4, <2>5
<1> QED BY <1>2, <1>3, SteadyGoes

\* A handler that installs keeps what it first saw.
LEMMA SteadyOnward ==
  ASSUME NEW w, NEW r, NEW plan, NEW orphans, NEW landed, NEW failed, NEW f, NEW t,
         Installs(w, r, plan, orphans, landed, failed), r.pc = NextPc(r),
         w.steady => Agrees(t, f) /\ Seen(w) \subseteq RulesAt(Plan(w.env), f)
  PROVE  Steadied(r, f, t)
<1>1. Seen(r) = Seen(w) /\ r.env = w.env /\ (r.steady => w.steady)
  BY DEF Installs, Seen
<1>2. RulesAt(Plan(w.env), f) \subseteq RulesOf(f)
  BY RulesThere
<1> QED BY <1>1, <1>2 DEF Steadied, NextPc

LEMMA SteadyInstalls ==
  ASSUME HandlersInv, PreparedInv, SteadyInv, NEW h \in Handlers, Install(h)
  PROVE  SteadyInv'
<1> DEFINE w == handler[h]
<1>1. ~At(h, "idle") /\ Prepared(w) /\ Steadied(w, live, tracked)
  BY DEF Install, InstallBegins, DropOrphans, AddRule, LockIndex, StoreIndex, At, PreparedInv, SteadyInv
<1>2. \A r : (GoesTo(w, r, "after") \/ GoesTo(w, r, "store")) /\ r.before = w.before
             /\ w.pc \in {"install", "write", "store"}
               => Steadied(r, live, tracked)
  <2> SUFFICES ASSUME NEW r, GoesTo(w, r, "after") \/ GoesTo(w, r, "store"), r.before = w.before,
                      w.pc \in {"install", "write", "store"}
               PROVE  Steadied(r, live, tracked)
    OBVIOUS
  <2>1. r.env = w.env /\ (r.steady => w.steady) /\ r.pc \in {"after", "store"}
    BY DEF GoesTo, Keeps
  <2>2. Seen(r) = Seen(w)
    BY <2>1 DEF Seen
  <2> QED BY <1>1, <2>1, <2>2 DEF Steadied
<1>3. CASE InstallBegins(h)
  <2> DEFINE plan == Plan(w.env)
  <2>1. w.pc = "install" /\ live' = live
    BY <1>3 DEF InstallBegins, At
  <2>2. \/ /\ tracked' = Empty
           /\ \E r : /\ Goes(h, r)
                     /\ Installs(w, r, plan, OrphanIds(plan), w.landed, w.failed)
                     /\ r.pc = IF OrphanIds(plan) # {} THEN "drop" ELSE NextPc(r)
                     /\ r.steady => Stays(w.env)
        \/ tracked' = tracked /\ \E r : Goes(h, r) /\ GoesTo(w, r, "after") /\ r.before = w.before
    BY <1>3, InstallBeginsMoves
  <2>3. CASE /\ tracked' = Empty
             /\ \E r : /\ Goes(h, r)
                       /\ Installs(w, r, plan, OrphanIds(plan), w.landed, w.failed)
                       /\ r.pc = IF OrphanIds(plan) # {} THEN "drop" ELSE NextPc(r)
                       /\ r.steady => Stays(w.env)
    <3>1. PICK r : /\ Goes(h, r)
                   /\ Installs(w, r, plan, OrphanIds(plan), w.landed, w.failed)
                   /\ r.pc = IF OrphanIds(plan) # {} THEN "drop" ELSE NextPc(r)
                   /\ r.steady => Stays(w.env)
      BY <2>3
    <3>2. Agrees(Empty, live)
      BY DEF Agrees, Empty
    <3>3. /\ Seen(r) = Seen(w) /\ r.env = w.env /\ (r.steady => w.steady)
          /\ r.pc \in {"drop", "add", "write", "after"}
      BY <3>1 DEF Installs, Seen, NextPc
    <3>4. r.steady => Seen(w) \subseteq RulesAt(plan, live) /\ Seen(w) \subseteq RulesOf(live)
      <4> HAVE r.steady
      <4>1. Seen(w) \subseteq RulesOf(live) /\ Seen(w) \subseteq Named(Desired(w.env))
        BY <1>1, <2>1, <3>3 DEF Steadied, Seen
      <4>2. \A id \in DOMAIN live : live[id].rule \in Named(Desired(w.env)) =>
              live[id].rule \in RulesAt(plan, live)
        BY <3>1 DEF Stays, InPlace, RulesAt
      <4> QED BY <4>1, <4>2 DEF RulesOf
    <3>5. Steadied(r, live', tracked')
      BY <2>1, <2>3, <3>2, <3>3, <3>4 DEF Steadied
    <3> QED BY <1>1, <3>1, <3>5, SteadyGoes
  <2>4. CASE tracked' = tracked /\ \E r : Goes(h, r) /\ GoesTo(w, r, "after") /\ r.before = w.before
    BY <1>1, <1>2, <2>1, <2>4, SteadyGoes
  <2> QED BY <2>2, <2>3, <2>4
<1>4. CASE DropOrphans(h)
  <2>1. w.pc = "drop" /\ tracked' = tracked
    BY <1>4 DEF DropOrphans, At
  <2>2. \E failed \in BOOLEAN : \E r :
          /\ IF failed THEN live' = live ELSE live' = Drop(live, w.orphans)
          /\ Goes(h, r)
          /\ Installs(w, r, w.plan, w.orphans, w.landed, failed \/ w.failed)
          /\ r.pc = NextPc(r)
    BY <1>4, DropOrphansMoves
  <2>3. RulesAt(Plan(w.env), live) \subseteq RulesAt(Plan(w.env), live')
    BY <1>1, <2>1, <2>2, DropKeeps DEF Prepared
  <2>4. Agrees(tracked, live) => Agrees(tracked', live')
    BY <2>1, <2>2 DEF Agrees, Drop, Restrict
  <2>5. w.steady => Agrees(tracked', live') /\ Seen(w) \subseteq RulesAt(Plan(w.env), live')
    BY <1>1, <2>1, <2>3, <2>4 DEF Steadied
  <2>6. \E r : Goes(h, r) /\ Steadied(r, live', tracked')
    <3>1. PICK failed \in BOOLEAN :
            \E r : /\ Goes(h, r)
                   /\ Installs(w, r, w.plan, w.orphans, w.landed, failed \/ w.failed)
                   /\ r.pc = NextPc(r)
      BY <2>2
    <3>2. PICK r : /\ Goes(h, r)
                   /\ Installs(w, r, w.plan, w.orphans, w.landed, failed \/ w.failed)
                   /\ r.pc = NextPc(r)
      BY <3>1
    <3> DEFINE f == failed \/ w.failed
               p == w.plan
               o == w.orphans
               l == w.landed
    <3>3. Installs(w, r, p, o, l, f) /\ r.pc = NextPc(r)
      BY <3>2
    <3> HIDE DEF f, p, o, l, w
    <3>4. Steadied(r, live', tracked')
      BY <2>5, <3>3, SteadyOnward
    <3> QED BY <3>2, <3>4
  <2> QED BY <1>1, <2>6, SteadyGoes
<1>5. CASE AddRule(h)
  <2>1. w.pc = "add" /\ Active(w.env) /\ w.plan \subseteq Plan(w.env)
    BY <1>1, <1>5 DEF AddRule, At, Prepared
  <2>2. PICK next \in w.plan : \E landed, failed, r :
          /\ \/ live' = Put(live, next.id, next.op) /\ tracked' = Put(tracked, next.id, next.op)
             \/ live' = live /\ tracked' = tracked
          /\ Goes(h, r)
          /\ Installs(w, r, w.plan \ {next}, w.orphans, landed, failed)
          /\ r.pc = NextPc(r)
    BY <1>5, AddRuleMoves
  <2>3. RulesAt(Plan(w.env), live) \subseteq RulesAt(Plan(w.env), live')
    BY <2>1, <2>2, PutKeeps
  <2>4. Agrees(tracked, live) => Agrees(tracked', live')
    BY <2>2 DEF Agrees, Put
  <2>5. w.steady => Agrees(tracked', live') /\ Seen(w) \subseteq RulesAt(Plan(w.env), live')
    BY <1>1, <2>1, <2>3, <2>4 DEF Steadied
  <2>6. \E r : Goes(h, r) /\ Steadied(r, live', tracked')
    <3>1. PICK landed, failed, r :
            /\ Goes(h, r)
            /\ Installs(w, r, w.plan \ {next}, w.orphans, landed, failed)
            /\ r.pc = NextPc(r)
      BY <2>2
    <3> DEFINE p == w.plan \ {next}
               o == w.orphans
    <3>2. Installs(w, r, p, o, landed, failed) /\ r.pc = NextPc(r)
      BY <3>1
    <3> HIDE DEF p, o, w
    <3>3. Steadied(r, live', tracked')
      BY <2>5, <3>2, SteadyOnward
    <3> QED BY <3>1, <3>3
  <2> QED BY <1>1, <2>6, SteadyGoes
<1>6. CASE LockIndex(h) \/ StoreIndex(h)
  <2>1. w.pc \in {"write", "store"} /\ UNCHANGED <<live, tracked>>
    BY <1>6 DEF LockIndex, StoreIndex, At
  <2>2. \E r : /\ Goes(h, r) /\ r.before = w.before
               /\ GoesTo(w, r, "store") \/ GoesTo(w, r, "after")
    BY <1>6, IndexMoves
  <2> QED BY <1>1, <1>2, <2>1, <2>2, SteadyGoes
<1> QED BY <1>3, <1>4, <1>5, <1>6 DEF Install

LEMMA SteadyNext ==
  ASSUME HandlersInv, PreparedInv, SteadyInv, Next
  PROVE  SteadyInv'
<1>1. CASE \E h \in Handlers : Serve(h) \/ Refresh(h) \/ Advance(h)
  BY <1>1, SteadyStarts, SteadyQuiet, SteadyInstalls DEF Advance, Quiet
<1>2. CASE Stop
  BY <1>2 DEF Stop, SteadyInv, At, Idle
<1> QED BY <1>1, <1>2 DEF Next

-------------------------------------------------------------------------------
(* Installing leaves no gap, and the badge never overstates.                 *)

\* What is prepared is projected, and the handler that runs alone keeps what it saw.
GapInv == IndexInv /\ PreparedInv /\ SteadyInv

LEMMA GapNext ==
  ASSUME GapInv, [Next]_vars
  PROVE  GapInv'
<1>1. CASE Next
  BY <1>1, IndexNext, PreparedNext, SteadyNext DEF GapInv, IndexInv
<1>2. CASE UNCHANGED vars
  <2>1. UNCHANGED <<store, live, tracked, handler>>
    BY <1>2 DEF vars, history
  <2>2. PreparedInv' /\ SteadyInv'
    BY <2>1 DEF GapInv, PreparedInv, SteadyInv, Steadied, Agrees, At
  <2> QED BY <1>2, <2>2, IndexStutters DEF GapInv
<1> QED BY <1>1, <1>2

\* A rule that is where the plan puts it is in the browser after the step.
LEMMA CoveredNext ==
  ASSUME GapInv, Next
  PROVE  Covered
<1> SUFFICES ASSUME NEW h \in Handlers, handler[h].pc \in {"drop", "add"}, handler'[h] # handler[h]
             PROVE  {live[id].rule : id \in InPlace(Plan(handler[h].env))} \subseteq RulesOf(live')
  BY DEF Covered
<1> DEFINE w == handler[h]
           plan == Plan(w.env)
<1>1. {live[id].rule : id \in InPlace(plan)} = RulesAt(plan, live)
  BY DEF InPlace, RulesAt
<1>2. ~At(h, "idle") /\ Prepared(w) /\ Active(w.env) /\ HandlersInv
  BY DEF GapInv, IndexInv, PreparedInv, Prepared, At
<1>3. CASE live' = live
  BY <1>1, <1>3, RulesThere
<1>4. CASE DropOrphans(h)
  <2>1. w.pc = "drop" /\ (live' = live \/ live' = Drop(live, w.orphans))
    BY <1>4 DEF DropOrphans, At
  <2>2. RulesAt(plan, Drop(live, w.orphans)) \subseteq RulesOf(Drop(live, w.orphans))
    BY RulesThere
  <2>3. RulesAt(plan, live) \subseteq RulesAt(plan, Drop(live, w.orphans))
    BY <1>2, <2>1, DropKeeps DEF Prepared
  <2> QED BY <1>1, <1>3, <2>1, <2>2, <2>3
<1>5. CASE AddRule(h)
  <2>1. PICK next \in w.plan : live' = Put(live, next.id, next.op) \/ live' = live
    BY <1>5 DEF AddRule
  <2>2. next \in plan
    BY <1>2, <1>5 DEF Prepared, AddRule, At
  <2>3. RulesAt(plan, live) \subseteq RulesAt(plan, Put(live, next.id, next.op))
    BY <1>2, <2>2, PutKeeps
  <2>4. RulesAt(plan, Put(live, next.id, next.op)) \subseteq RulesOf(Put(live, next.id, next.op))
    BY RulesThere
  <2> QED BY <1>1, <1>3, <2>1, <2>3, <2>4
<1>6. CASE Stop \/ \E g \in Handlers : Serve(g) \/ Refresh(g)
  <2>1. live' = live
    BY <1>6 DEF Stop, Serve, Refresh
  <2> QED BY <1>3, <2>1
<1>7. CASE \E g \in Handlers \ {h} : Advance(g)
  <2>1. PICK g \in Handlers \ {h} : Advance(g)
    BY <1>7
  <2>2. \E r : Goes(g, r)
    <3>1. CASE Quiet(g)
      BY <1>2, <3>1, QuietMoves DEF Moves
    <3>2. CASE Install(g)
      BY <1>2, <3>2, InstallBeginsMoves, DropOrphansMoves, AddRuleMoves, IndexMoves DEF Install
    <3> QED BY <2>1, <3>1, <3>2 DEF Advance, Quiet
  <2>3. handler'[h] = handler[h]
    BY <1>2, <2>2, GoesOn
  <2> QED BY <2>3
<1>8. CASE Advance(h)
  <2>1. live' = live \/ DropOrphans(h) \/ AddRule(h)
    BY <1>8 DEF Advance, Install, InstallBegins, LockIndex, StoreIndex, Read, HydrateLive,
                HydrateIndex, CurrentBefore, Compare, CurrentAfter
  <2> QED BY <1>3, <1>4, <1>5, <2>1
<1> QED BY <1>6, <1>7, <1>8 DEF Next

\* The enabled rules can be counted.
LEMMA DesiredFinite ==
  ASSUME NEW env, Active(env)
  PROVE  IsFiniteSet(Named(Desired(env)))
<1> DEFINE N == Len(Compiled(env))
           f == [i \in 1 .. N |-> Compiled(env)[i].rule]
           S == {f[i] : i \in 1 .. N}
<1>1. N \in Nat /\ DOMAIN Compiled(env) = 1 .. N
  BY CompiledTyped
<1>2. IsFiniteSet(1 .. N)
  BY <1>1, FS_Interval
<1>3. IsFiniteSet(S)
  <2>1. f \in Surjection(1 .. N, S)
    BY DEF Surjection
  <2> HIDE DEF N, f, S
  <2> QED BY <1>2, <2>1, FS_Surjection
<1>4. Named(Desired(env)) \subseteq S
  BY <1>1 DEF Named, Desired, Range
<1> HIDE DEF S
<1> QED BY <1>3, <1>4, FS_Subset

\* A projection that ends with a project.
LEMMA CountedAfter ==
  ASSUME GapInv, NEW h \in Handlers, CurrentAfter(h), handler[h].steady
  PROVE  badge'.active <= Cardinality(RulesOf(live) \cap Named(Desired(handler[h].env)))
<1> DEFINE w == handler[h]
           desired == Named(Desired(w.env))
<1>1. w.pc = "after" /\ ~At(h, "idle")
  BY DEF CurrentAfter, At
<1>2. Active(w.env) /\ Agrees(tracked, live) /\ w.before \cap desired \subseteq RulesOf(live)
  BY <1>1 DEF GapInv, PreparedInv, Prepared, SteadyInv, Steadied, Seen
<1>3. PICK after \in {RulesOf(Current), {}} : badge' = BadgeOf(w.env, w.before \cup after)
  BY DEF CurrentAfter
<1>4. RulesOf(Current) \subseteq RulesOf(live)
  BY <1>2 DEF RulesOf, Current, Restrict, Agrees
<1>5. desired \cap (w.before \cup after) \subseteq RulesOf(live) \cap desired
  BY <1>2, <1>3, <1>4
<1>6. IsFiniteSet(RulesOf(live) \cap desired)
  BY <1>2, DesiredFinite, FS_Subset
<1>7. Cardinality(desired \cap (w.before \cup after)) <= Cardinality(RulesOf(live) \cap desired)
  <2> HIDE DEF desired
  <2> QED BY <1>5, <1>6, FS_Subset
<1> QED BY <1>3, <1>7 DEF BadgeOf

\* A projection that ends; with no project, nothing is enabled.
LEMMA CountedNext ==
  ASSUME GapInv, Next
  PROVE  Counted
<1> SUFFICES ASSUME NEW h \in Handlers, Read(h), store.active = NoProject, handler[h].steady
             PROVE  badge'.active <= Cardinality(RulesOf(live) \cap Named(Desired(handler[h].env)))
  BY CountedAfter DEF Counted, Finishes
<1>1. handler[h].env = EmptyEnvelope
  BY DEF Read, At, GapInv, PreparedInv, Prepared
<1>2. Named(Desired(handler[h].env)) = {}
  BY <1>1 DEF Named, Desired, EmptyEnvelope
<1>3. RulesOf(live) \cap Named(Desired(handler[h].env)) = {}
  BY <1>2
<1>4. Cardinality(RulesOf(live) \cap Named(Desired(handler[h].env))) = 0
  BY <1>3, FS_EmptySet
<1>5. badge'.active = 0
  BY DEF Read
<1> QED BY <1>4, <1>5

\* Whatever handlers do at the same time, which calls fail and when the worker is
\* stopped: dropping orphans or adding rules takes no rule out of the browser that
\* was under the id the plan has for it, and a projection that ran alone and moved no
\* enabled rule never counts more active rules than the browser has.
THEOREM InstallingLeavesNoGap == Spec => FailuresLeaveNoGap
<1>1. Init => GapInv
  BY IndexInit, PreparedInit, SteadyInit DEF GapInv
<1>2. GapInv /\ [Next]_vars => GapInv'
  BY GapNext
<1>3. GapInv /\ [Next]_vars => [Covered /\ Counted]_vars
  BY CoveredNext, CountedNext
<1> QED BY <1>1, <1>2, <1>3, PTL DEF Spec, FailuresLeaveNoGap

-------------------------------------------------------------------------------
(* A projection settles the rules, unless a rule was left behind.            *)

\* Handler w is about to drop id, or to add a rule under it.
Answers(w, id) ==
  \/ w.pc = "drop" /\ id \in w.orphans
  \/ w.pc \in {"drop", "add"} /\ id \in PlannedIds(w.plan)

\* Every live id is tracked, or a handler answers for it.
Accounted ==
  ~left => \A id \in DOMAIN live :
             id \in DOMAIN tracked \/ \E g \in Handlers : Answers(handler[g], id)

\* All of the plan of env but `rest` is in the browser f and in the memory t, and f has
\* no id besides the plan's.
Placed(rest, env, f, t) ==
  /\ DOMAIN f \subseteq PlannedIds(Plan(env))
  /\ \A p \in Plan(env) \ rest : p.id \in DOMAIN f \cap DOMAIN t /\ f[p.id] = p.op

\* The installable rules are there, and only enabled ones.
Final(env, f) ==
  /\ Named(Installable(Desired(env))) \subseteq RulesOf(f)
  /\ RulesOf(f) \subseteq Named(Desired(env))

\* With nothing left to add, the rules are settled and tracked.
LEMMA PlacedFinal ==
  ASSUME NEW env, Active(env), NEW f, NEW t, Placed({}, env, f, t)
  PROVE  Final(env, f) /\ DOMAIN f \subseteq DOMAIN t
<1>1. \A id \in DOMAIN f : \E p \in Plan(env) : p.id = id /\ id \in DOMAIN t /\ f[id] = p.op
  BY DEF Placed, PlannedIds
<1>2. Named(Installable(Desired(env))) \subseteq RulesOf(f)
  <2> SUFFICES ASSUME NEW op \in Installable(Desired(env))
               PROVE  op.rule \in RulesOf(f)
    BY DEF Named
  <2>1. PICK p \in Plan(env) : p.op = op
    BY PlanOps
  <2> QED BY <2>1 DEF Placed, RulesOf
<1>3. RulesOf(f) \subseteq Named(Desired(env))
  BY <1>1, PlanOps DEF RulesOf, Named, Installable
<1> QED BY <1>1, <1>2, <1>3 DEF Final

\* A handler that runs alone and met no failure: the plan is in the browser but for
\* what it is still to add; in the end, the rules are settled (sure: nothing went
\* astray and nothing was left behind).
LoneOf(w, f, t, sure) ==
  w.alone /\ ~w.failed =>
    /\ w.pc = "drop" => w.plan = Plan(w.env) /\ DOMAIN f \ w.orphans \subseteq PlannedIds(w.plan)
    /\ w.pc \in {"add", "write", "store"} => Placed(w.plan, w.env, f, t)
    /\ w.pc \in {"write", "store"} => w.plan = {}
    /\ w.pc = "after" /\ sure => Final(w.env, f)

LoneInv == \A h \in Handlers : ~At(h, "idle") => LoneOf(handler[h], live, tracked, ~astray /\ ~left)

\* What is live is tracked or answered for; who runs alone has its plan in place.
SettleInv == IndexInv /\ PreparedInv /\ Accounted /\ LoneInv

LEMMA SettleInit == Init => Accounted /\ LoneInv
BY DEF Init, Accounted, LoneInv, At, Idle, Empty

\* Only the handler that takes the step may run alone.
LEMMA LoneGoes ==
  ASSUME HandlersInv, NEW h \in Handlers, NEW r, Goes(h, r), ~At(h, "idle"),
         r = Idle \/ LoneOf(r, live', tracked', ~astray' /\ ~left')
  PROVE  LoneInv'
<1>1. handler'[h] = r /\ \A g \in Handlers \ {h} : handler'[g] = handler[g]
  BY GoesOn
<1>2. Idle.pc = "idle"
  BY DEF Idle
<1>3. \A g \in Handlers : handler'[g].pc # "idle" =>
        LoneOf(handler'[g], live', tracked', ~astray' /\ ~left')
  BY <1>1, <1>2, NotAlone DEF LoneOf, At
<1> QED BY <1>3 DEF LoneInv, At

\* A step after which every live id is tracked or answered for as before.
LEMMA AccountedGoes ==
  ASSUME HandlersInv, Accounted, NEW h \in Handlers, NEW r, Goes(h, r),
         left => left', DOMAIN live' \subseteq DOMAIN live, DOMAIN tracked \subseteq DOMAIN tracked',
         \A id \in DOMAIN live' : Answers(handler[h], id) => Answers(r, id)
  PROVE  Accounted'
<1>1. handler'[h] = r /\ \A g \in Handlers \ {h} : handler'[g] = handler[g]
  BY GoesOn
<1>2. ~left' => \A id \in DOMAIN live' :
        id \in DOMAIN tracked' \/ \E g \in Handlers : Answers(handler'[g], id)
  BY <1>1 DEF Accounted
<1> QED BY <1>2 DEF Accounted, Answers

\* A handler starts.
LEMMA SettleStarts ==
  ASSUME HandlersInv, Accounted, NEW h \in Handlers, Serve(h) \/ Refresh(h)
  PROVE  Accounted' /\ LoneInv'
<1>1. /\ UNCHANGED <<live, tracked, left>> /\ At(h, "idle")
      /\ \E r : Working(r) /\ r.pc \in {"read", "current", "hydrate"} /\ Start(h, r)
  BY StartsFresh
<1>2. PICK r : Working(r) /\ r.pc \in {"read", "current", "hydrate"} /\ Start(h, r)
  BY <1>1
<1>3. /\ Alike(handler'[h], r)
      /\ \A g \in Handlers \ {h} :
           \/ At(g, "idle") /\ handler'[g] = Idle
           \/ ~handler'[g].alone /\ Alike(handler'[g], handler[g])
  BY <1>1, <1>2, StartsOne
<1>4. handler'[h].pc \in {"read", "current", "hydrate"}
  BY <1>2, <1>3 DEF Alike, Fields
<1>5. Idle.pc = "idle"
  BY DEF Idle
<1>6. \A g \in Handlers : handler'[g].pc # "idle" =>
        LoneOf(handler'[g], live', tracked', ~astray' /\ ~left')
  BY <1>3, <1>4, <1>5 DEF LoneOf
<1>7. \A v, w, id : Alike(v, w) /\ Answers(w, id) => Answers(v, id)
  BY DEF Alike, Fields, Answers
<1>8. \A g \in Handlers, id \in DOMAIN live : Answers(handler[g], id) => Answers(handler'[g], id)
  BY <1>1, <1>3, <1>7 DEF Answers, At
<1>9. ~left' => \A id \in DOMAIN live' :
        id \in DOMAIN tracked' \/ \E g \in Handlers : Answers(handler'[g], id)
  BY <1>1, <1>8 DEF Accounted
<1> QED BY <1>6, <1>9 DEF LoneInv, Accounted, Answers, At

\* Neither installing nor writing: at compare, the tracked rules are all there are.
LEMMA SettleQuiet ==
  ASSUME SettleInv, NEW h \in Handlers, Quiet(h)
  PROVE  Accounted' /\ LoneInv'
<1> DEFINE w == handler[h]
<1>0. HandlersInv /\ TrackedAgree
  BY DEF SettleInv, IndexInv
<1>1. PICK r : Moves(h, r)
  BY <1>0, QuietMoves
<1>2. Goes(h, r) /\ ~At(h, "idle")
  BY <1>1 DEF Moves, At
<1>3. UNCHANGED <<live, left>> /\ DOMAIN tracked \subseteq DOMAIN tracked'
  BY DEF Quiet, Read, HydrateLive, HydrateIndex, CurrentBefore, Compare, CurrentAfter, history
<1>4. \A id : ~Answers(w, id)
  BY <1>1 DEF Moves, Answers
<1>5. Accounted'
  BY <1>0, <1>2, <1>3, <1>4, AccountedGoes DEF SettleInv
<1>6. r = Idle \/ LoneOf(r, live', tracked', ~astray' /\ ~left')
  <2> SUFFICES ASSUME r # Idle, r.pc = "after", r.alone, ~r.failed, ~astray', ~left'
               PROVE  Final(r.env, live')
    BY <1>1 DEF LoneOf, Moves
  <2>1. w.pc = "compare" /\ SameSet(r.env, RulesOf(Current)) /\ w.alone
    BY <1>1, <1>2 DEF Moves, Goes
  <2>2. ~astray /\ ~left
    BY <1>3, <2>1 DEF Quiet, Read, HydrateLive, HydrateIndex, CurrentBefore, Compare, CurrentAfter,
                      history, At
  <2>3. \A g \in Handlers \ {h} : handler[g].pc = "idle"
    BY <1>0, <1>2, <2>1 DEF HandlersInv, At
  <2>4. \A id \in DOMAIN live : id \in DOMAIN tracked
    BY <1>4, <2>2, <2>3 DEF SettleInv, Accounted, Answers
  <2>5. Agrees(tracked, live)
    BY <1>0, <2>2 DEF TrackedAgree
  <2>6. RulesOf(Current) = RulesOf(live)
    BY <2>4, <2>5 DEF RulesOf, Current, Restrict, Agrees
  <2> QED BY <1>3, <2>1, <2>6 DEF SameSet, Final, Named, Installable
<1>7. LoneInv'
  BY <1>0, <1>2, <1>6, LoneGoes
<1> QED BY <1>5, <1>7

\* Going on with the plan in place but for what is still to add.
LEMMA PlacedOnward ==
  ASSUME NEW w, NEW r, NEW plan, NEW orphans, NEW landed, NEW failed, NEW f, NEW t, NEW sure,
         Installs(w, r, plan, orphans, landed, failed), r.pc = NextPc(r), Active(w.env),
         w.alone /\ ~failed => Placed(plan, w.env, f, t)
  PROVE  LoneOf(r, f, t, sure)
<1>1. r.plan = plan /\ r.env = w.env /\ r.alone = w.alone /\ r.failed = failed
  BY DEF Installs
<1>2. \/ r.pc = "add"
      \/ r.pc \in {"write", "after"} /\ plan = {}
  BY <1>1 DEF NextPc
<1>3. Placed({}, w.env, f, t) => Final(w.env, f)
  BY PlacedFinal
<1> QED BY <1>1, <1>2, <1>3 DEF LoneOf

\* install() forgets what it tracked and answers for every live id.
LEMMA SettleBegins ==
  ASSUME SettleInv, NEW h \in Handlers, InstallBegins(h)
  PROVE  Accounted' /\ LoneInv'
<1> DEFINE w == handler[h]
           plan == Plan(w.env)
<1>0. HandlersInv
  BY DEF SettleInv, IndexInv
<1>1. w.pc = "install" /\ ~At(h, "idle") /\ live' = live
  BY DEF InstallBegins, At
<1>2. Active(w.env)
  BY <1>1 DEF SettleInv, PreparedInv, Prepared
<1>3. CASE /\ tracked' = Empty
           /\ \E r : /\ Goes(h, r)
                     /\ Installs(w, r, plan, OrphanIds(plan), w.landed, w.failed)
                     /\ r.pc = IF OrphanIds(plan) # {} THEN "drop" ELSE NextPc(r)
  <2>1. PICK r : /\ Goes(h, r)
                 /\ Installs(w, r, plan, OrphanIds(plan), w.landed, w.failed)
                 /\ r.pc = IF OrphanIds(plan) # {} THEN "drop" ELSE NextPc(r)
    BY <1>3
  <2>2. r.plan = plan /\ r.orphans = OrphanIds(plan) /\ r.env = w.env
    BY <2>1 DEF Installs
  <2>3. \A id \in DOMAIN live : Answers(r, id)
    <3>1. r.pc = "drop" \/ (OrphanIds(plan) = {} /\ (plan # {} => r.pc = "add"))
      BY <2>1, <2>2 DEF NextPc
    <3>2. plan = {} => PlannedIds(plan) = {}
      BY DEF PlannedIds
    <3> HIDE DEF plan
    <3> QED BY <2>2, <3>1, <3>2 DEF Answers, OrphanIds
  <2>4. handler'[h] = r
    BY <1>0, <2>1, GoesOn
  <2>5. \A id \in DOMAIN live' : \E g \in Handlers : Answers(handler'[g], id)
    BY <1>1, <2>3, <2>4
  <2>6. Accounted'
    BY <2>5 DEF Accounted, Answers
  <2>7. LoneOf(r, live', tracked', ~astray' /\ ~left')
    <3>1. CASE OrphanIds(plan) # {}
      BY <1>1, <2>1, <2>2, <3>1 DEF LoneOf, OrphanIds
    <3>2. CASE OrphanIds(plan) = {}
      <4> DEFINE o == OrphanIds(plan)
                 l == w.landed
                 f == w.failed
                 s == ~astray' /\ ~left'
      <4>1. Placed(plan, w.env, live', tracked')
        BY <1>1, <3>2 DEF Placed, OrphanIds
      <4>2. Installs(w, r, plan, o, l, f) /\ r.pc = NextPc(r)
        BY <2>1, <3>2
      <4> HIDE DEF w, plan, o, l, f, s
      <4>3. LoneOf(r, live', tracked', s)
        BY <1>2, <4>1, <4>2, PlacedOnward
      <4> QED BY <4>3 DEF s
    <3> QED BY <3>1, <3>2
  <2>8. LoneInv'
    BY <1>0, <1>1, <2>1, <2>7, LoneGoes
  <2> QED BY <2>6, <2>8
<1>4. CASE /\ tracked' = tracked /\ left' = left
           /\ \E r : Goes(h, r) /\ GoesTo(w, r, "after") /\ r.failed
  <2>1. PICK r : Goes(h, r) /\ r.failed
    BY <1>4
  <2>2. LoneOf(r, live', tracked', ~astray' /\ ~left')
    BY <2>1 DEF LoneOf
  <2>3. LoneInv'
    BY <1>0, <1>1, <2>1, <2>2, LoneGoes
  <2>4. \A id : ~Answers(w, id)
    BY <1>1 DEF Answers
  <2>5. Accounted'
    BY <1>0, <1>1, <1>4, <2>1, <2>4, AccountedGoes DEF SettleInv
  <2> QED BY <2>3, <2>5
<1> QED BY <1>0, <1>3, <1>4, InstallBeginsMoves

\* The orphans are dropped; the plan answers for the others.
LEMMA SettleDrops ==
  ASSUME SettleInv, NEW h \in Handlers, DropOrphans(h)
  PROVE  Accounted' /\ LoneInv'
<1> DEFINE w == handler[h]
<1>0. HandlersInv
  BY DEF SettleInv, IndexInv
<1>1. w.pc = "drop" /\ ~At(h, "idle") /\ tracked' = tracked
  BY DEF DropOrphans, At
<1>2. Active(w.env) /\ LoneOf(w, live, tracked, ~astray /\ ~left)
  BY <1>1 DEF SettleInv, PreparedInv, Prepared, LoneInv
<1>3. CASE /\ live' = live /\ left'
           /\ \E r : Goes(h, r) /\ Installs(w, r, w.plan, w.orphans, w.landed, TRUE)
  <2>1. PICK r : Goes(h, r) /\ r.failed
    BY <1>3 DEF Installs
  <2>2. LoneInv'
    BY <1>0, <1>1, <2>1, LoneGoes DEF LoneOf
  <2> QED BY <1>3, <2>2 DEF Accounted
<1>4. CASE /\ live' = Drop(live, w.orphans) /\ left' = (left /\ ~Installed(handler'[h]))
           /\ \E r : /\ Goes(h, r) /\ Installs(w, r, w.plan, w.orphans, w.landed, w.failed)
                     /\ r.pc = NextPc(r)
  <2>1. PICK r : /\ Goes(h, r) /\ Installs(w, r, w.plan, w.orphans, w.landed, w.failed)
                 /\ r.pc = NextPc(r)
    BY <1>4
  <2>2. /\ r.plan = w.plan /\ r.alone = w.alone /\ r.failed = w.failed
        /\ w.plan # {} => r.pc = "add"
    BY <2>1 DEF Installs, NextPc
  <2>3. DOMAIN live' = DOMAIN live \ w.orphans
    BY <1>4 DEF Drop, Restrict
  <2>4. w.alone /\ ~w.failed => w.plan = Plan(w.env) /\ Placed(w.plan, w.env, live', tracked')
    BY <1>1, <1>2, <2>3 DEF LoneOf, Placed
  <2>5. LoneOf(r, live', tracked', ~astray' /\ ~left')
    <3> DEFINE p == w.plan
               o == w.orphans
               l == w.landed
               f == w.failed
               s == ~astray' /\ ~left'
    <3>1. Installs(w, r, p, o, l, f) /\ r.pc = NextPc(r)
      BY <2>1
    <3>2. w.alone /\ ~f => Placed(p, w.env, live', tracked')
      BY <2>4
    <3> HIDE DEF w, p, o, l, f, s
    <3>3. LoneOf(r, live', tracked', s)
      BY <1>2, <3>1, <3>2, PlacedOnward
    <3> QED BY <3>3 DEF s
  <2>6. LoneInv'
    BY <1>0, <1>1, <2>1, <2>5, LoneGoes
  <2>7. handler'[h] = r
    BY <1>0, <2>1, GoesOn
  <2>8. CASE Installed(r)
    <3>1. w.alone /\ ~w.failed /\ w.plan = {}
      BY <2>2, <2>8 DEF Installed
    <3>2. DOMAIN live' = {}
      BY <2>4, <3>1 DEF Placed, PlannedIds
    <3> QED BY <2>6, <3>2 DEF Accounted
  <2>9. CASE ~Installed(r)
    <3>1. left => left'
      BY <1>4, <2>7, <2>9
    <3>2. \A id \in DOMAIN live' : Answers(w, id) => Answers(r, id)
      <4> SUFFICES ASSUME NEW id \in DOMAIN live', Answers(w, id)
                   PROVE  Answers(r, id)
        OBVIOUS
      <4>1. id \in PlannedIds(w.plan)
        BY <2>3 DEF Answers
      <4>2. w.plan # {}
        BY <4>1 DEF PlannedIds
      <4> QED BY <2>2, <4>1, <4>2 DEF Answers
    <3>3. Accounted'
      BY <1>0, <1>1, <2>1, <2>3, <3>1, <3>2, AccountedGoes DEF SettleInv
    <3> QED BY <2>6, <3>3
  <2> QED BY <2>8, <2>9
<1>5. \/ /\ live' = live /\ left'
         /\ \E r : Goes(h, r) /\ Installs(w, r, w.plan, w.orphans, w.landed, TRUE)
      \/ /\ live' = Drop(live, w.orphans) /\ left' = (left /\ ~Installed(handler'[h]))
         /\ \E r : /\ Goes(h, r) /\ Installs(w, r, w.plan, w.orphans, w.landed, w.failed)
                   /\ r.pc = NextPc(r)
  <2>1. PICK failed \in BOOLEAN :
          /\ IF failed THEN live' = live /\ left'
             ELSE /\ live' = Drop(live, w.orphans)
                  /\ left' = (left /\ ~Installed(handler'[h]))
          /\ \E r : /\ Goes(h, r)
                    /\ Installs(w, r, w.plan, w.orphans, w.landed, failed \/ w.failed)
                    /\ r.pc = NextPc(r)
    BY <1>0, DropOrphansMoves
  <2>2. w.failed \in BOOLEAN
    BY <1>0, <1>1 DEF HandlersInv, Working
  <2>3. CASE failed
    <3>1. (failed \/ w.failed) = TRUE
      BY <2>3
    <3> QED BY <2>1, <2>3, <3>1
  <2>4. CASE ~failed
    <3>1. (failed \/ w.failed) = w.failed
      BY <2>2, <2>4
    <3> QED BY <2>1, <2>4, <3>1
  <2> QED BY <2>3, <2>4
<1> QED BY <1>3, <1>4, <1>5

\* A rule is added and tracked.
LEMMA SettleAdds ==
  ASSUME SettleInv, NEW h \in Handlers, AddRule(h)
  PROVE  Accounted' /\ LoneInv'
<1> DEFINE w == handler[h]
<1>0. HandlersInv
  BY DEF SettleInv, IndexInv
<1>1. w.pc = "add" /\ ~At(h, "idle")
  BY DEF AddRule, At
<1>2. Active(w.env) /\ w.plan \subseteq Plan(w.env) /\ LoneOf(w, live, tracked, ~astray /\ ~left)
  BY <1>1 DEF SettleInv, PreparedInv, Prepared, LoneInv
<1>3. PICK next \in w.plan :
        LET rest == w.plan \ {next}
        IN  \/ /\ live' = Put(live, next.id, next.op)
               /\ tracked' = Put(tracked, next.id, next.op)
               /\ left' = (left /\ ~Installed(handler'[h]))
               /\ \E r : /\ Goes(h, r)
                         /\ Installs(w, r, rest, w.orphans, TRUE, w.failed)
                         /\ r.pc = NextPc(r)
            \/ /\ left'
               /\ \E r : /\ Goes(h, r)
                         /\ Installs(w, r, rest, w.orphans, w.landed, TRUE)
  BY <1>0, AddRuleMoves
<1> DEFINE rest == w.plan \ {next}
<1>4. CASE left' /\ \E r : Goes(h, r) /\ Installs(w, r, rest, w.orphans, w.landed, TRUE)
  <2>1. PICK r : Goes(h, r) /\ r.failed
    BY <1>4 DEF Installs
  <2>2. LoneInv'
    BY <1>0, <1>1, <2>1, LoneGoes DEF LoneOf
  <2> QED BY <1>4, <2>2 DEF Accounted
<1>5. CASE /\ live' = Put(live, next.id, next.op)
           /\ tracked' = Put(tracked, next.id, next.op)
           /\ left' = (left /\ ~Installed(handler'[h]))
           /\ \E r : /\ Goes(h, r) /\ Installs(w, r, rest, w.orphans, TRUE, w.failed)
                     /\ r.pc = NextPc(r)
  <2>1. PICK r : /\ Goes(h, r) /\ Installs(w, r, rest, w.orphans, TRUE, w.failed)
                 /\ r.pc = NextPc(r)
    BY <1>5
  <2>2. /\ r.plan = rest /\ r.alone = w.alone /\ r.failed = w.failed
        /\ rest # {} => r.pc = "add"
    BY <2>1 DEF Installs, NextPc
  <2>3. /\ DOMAIN live' = DOMAIN live \cup {next.id}
        /\ DOMAIN tracked' = DOMAIN tracked \cup {next.id}
        /\ live'[next.id] = next.op
        /\ \A id \in DOMAIN live \ {next.id} : live'[id] = live[id]
    BY <1>5 DEF Put
  <2>4. w.alone /\ ~w.failed => Placed(rest, w.env, live', tracked')
    <3> SUFFICES ASSUME w.alone, ~w.failed
                 PROVE  Placed(rest, w.env, live', tracked')
      OBVIOUS
    <3>1. Placed(w.plan, w.env, live, tracked)
      BY <1>1, <1>2 DEF LoneOf
    <3>2. next \in Plan(w.env)
      BY <1>2
    <3>3. DOMAIN live' \subseteq PlannedIds(Plan(w.env))
      BY <2>3, <3>1, <3>2 DEF Placed, PlannedIds
    <3>4. ASSUME NEW p \in Plan(w.env) \ rest
          PROVE  p.id \in DOMAIN live' \cap DOMAIN tracked' /\ live'[p.id] = p.op
      <4>1. CASE p = next
        BY <2>3, <4>1
      <4>2. CASE p # next
        <5>1. p.id # next.id
          BY <1>2, <3>2, <4>2, PlanIds
        <5>2. p \in Plan(w.env) \ w.plan
          BY <4>2
        <5> QED BY <2>3, <3>1, <5>1, <5>2 DEF Placed
      <4> QED BY <4>1, <4>2
    <3> QED BY <3>3, <3>4 DEF Placed
  <2>5. LoneOf(r, live', tracked', ~astray' /\ ~left')
    <3> DEFINE o == w.orphans
               l == TRUE
               f == w.failed
               s == ~astray' /\ ~left'
    <3>1. Installs(w, r, rest, o, l, f) /\ r.pc = NextPc(r)
      BY <2>1
    <3>2. w.alone /\ ~f => Placed(rest, w.env, live', tracked')
      BY <2>4
    <3> HIDE DEF w, rest, o, l, f, s
    <3>3. LoneOf(r, live', tracked', s)
      BY <1>2, <3>1, <3>2, PlacedOnward
    <3> QED BY <3>3 DEF s
  <2>6. LoneInv'
    BY <1>0, <1>1, <2>1, <2>5, LoneGoes
  <2>7. handler'[h] = r /\ \A g \in Handlers \ {h} : handler'[g] = handler[g]
    BY <1>0, <2>1, GoesOn
  <2>8. CASE Installed(r)
    <3>1. w.alone /\ ~w.failed /\ rest = {}
      BY <2>2, <2>8 DEF Installed
    <3>2. DOMAIN live' \subseteq DOMAIN tracked'
      BY <1>2, <2>4, <3>1, PlacedFinal
    <3> QED BY <2>6, <3>2 DEF Accounted
  <2>9. CASE ~Installed(r)
    <3>1. left => left'
      BY <1>5, <2>7, <2>9
    <3>2. \A id : Answers(w, id) => id = next.id \/ Answers(r, id)
      <4> SUFFICES ASSUME NEW id, Answers(w, id), id # next.id
                   PROVE  Answers(r, id)
        OBVIOUS
      <4>1. PICK p \in w.plan : p.id = id
        BY <1>1 DEF Answers, PlannedIds
      <4>2. p \in rest
        BY <4>1
      <4> QED BY <2>2, <4>1, <4>2 DEF Answers, PlannedIds
    <3>3. ~left' => \A id \in DOMAIN live' :
            id \in DOMAIN tracked' \/ \E g \in Handlers : Answers(handler'[g], id)
      <4> SUFFICES ASSUME ~left', NEW id \in DOMAIN live', id \notin DOMAIN tracked'
                   PROVE  \E g \in Handlers : Answers(handler'[g], id)
        OBVIOUS
      <4>1. id \in DOMAIN live /\ id \notin DOMAIN tracked /\ id # next.id /\ ~left
        BY <2>3, <3>1
      <4>2. PICK g \in Handlers : Answers(handler[g], id)
        BY <4>1 DEF SettleInv, Accounted
      <4> QED BY <2>7, <3>2, <4>1, <4>2
    <3> QED BY <2>6, <3>3 DEF Accounted, Answers
  <2> QED BY <2>8, <2>9
<1> QED BY <1>3, <1>4, <1>5

\* The index does not matter to the rules.
LEMMA SettleWrites ==
  ASSUME SettleInv, NEW h \in Handlers, LockIndex(h) \/ StoreIndex(h)
  PROVE  Accounted' /\ LoneInv'
<1> DEFINE w == handler[h]
<1>0. HandlersInv
  BY DEF SettleInv, IndexInv
<1>1. w.pc \in {"write", "store"} /\ ~At(h, "idle") /\ UNCHANGED <<live, tracked, left>>
  BY DEF LockIndex, StoreIndex, At, history
<1>2. Active(w.env) /\ LoneOf(w, live, tracked, ~astray /\ ~left)
  BY <1>1 DEF SettleInv, PreparedInv, Prepared, LoneInv
<1>3. PICK r : /\ Goes(h, r)
               /\ \/ GoesTo(w, r, "store") /\ r.failed = w.failed /\ r.plan = w.plan
                  \/ GoesTo(w, r, "after")
  BY <1>0, IndexMoves
<1>4. r.env = w.env /\ r.alone = w.alone /\ (w.failed => r.failed)
  BY <1>1, <1>3 DEF GoesTo, Keeps
<1>5. LoneOf(r, live', tracked', ~astray' /\ ~left')
  <2> SUFFICES ASSUME r.alone, ~r.failed
               PROVE  LoneOf(r, live', tracked', ~astray' /\ ~left')
    BY DEF LoneOf
  <2>1. Placed({}, w.env, live, tracked) /\ w.plan = {}
    BY <1>1, <1>2, <1>4 DEF LoneOf
  <2>2. Final(w.env, live)
    BY <1>2, <2>1, PlacedFinal
  <2> QED BY <1>1, <1>3, <1>4, <2>1, <2>2 DEF LoneOf, GoesTo
<1>6. LoneInv'
  BY <1>0, <1>1, <1>3, <1>5, LoneGoes
<1>7. \A id : ~Answers(w, id)
  BY <1>1 DEF Answers
<1>8. Accounted'
  BY <1>0, <1>1, <1>3, <1>7, AccountedGoes DEF SettleInv
<1> QED BY <1>6, <1>8

LEMMA SettleNext ==
  ASSUME SettleInv, [Next]_vars
  PROVE  SettleInv'
<1>1. CASE Next
  <2>1. CASE \E h \in Handlers : Serve(h) \/ Refresh(h) \/ Advance(h)
    <3>1. Accounted' /\ LoneInv'
      BY <2>1, SettleStarts, SettleQuiet, SettleBegins, SettleDrops, SettleAdds, SettleWrites
         DEF Advance, Install, Quiet, SettleInv, IndexInv
    <3> QED BY <1>1, <3>1, IndexNext, PreparedNext DEF SettleInv, IndexInv
  <2>2. CASE Stop
    <3>1. Accounted' /\ LoneInv'
      BY <2>2 DEF Stop, Accounted, LoneInv, At, Idle
    <3> QED BY <1>1, <3>1, IndexNext, PreparedNext DEF SettleInv, IndexInv
  <2> QED BY <1>1, <2>1, <2>2 DEF Next
<1>2. CASE UNCHANGED vars
  <2>1. UNCHANGED <<store, live, tracked, handler, astray, left>>
    BY <1>2 DEF vars, history
  <2>2. PreparedInv' /\ Accounted' /\ LoneInv'
    BY <2>1 DEF SettleInv, PreparedInv, Accounted, Answers, LoneInv, At
  <2> QED BY <1>2, <2>2, IndexStutters DEF SettleInv
<1> QED BY <1>1, <1>2

\* Whatever handlers do at the same time, which calls fail and when the worker is
\* stopped: a projection that ran alone and met no failure leaves every enabled rule
\* that can be installed in the browser and no rule that is not enabled, unless the
\* index went astray or a rule was left behind, and no handler that ran alone has
\* written the index, or installed, since.
THEOREM ProjectionsSettleRules == Spec => SettlesUnlessLeft
<1>1. Init => SettleInv
  BY IndexInit, PreparedInit, SettleInit DEF SettleInv
<1>2. SettleInv /\ [Next]_vars => SettleInv'
  BY SettleNext
<1>3. SettleInv => (~left => Settled)
  <2> SUFFICES ASSUME SettleInv, ~left, NEW h \in Handlers, CurrentAfter(h), handler[h].alone,
                      ~handler[h].failed, ~astray
               PROVE  Final(handler[h].env, live)
    BY DEF Settled, Final
  <2> QED BY DEF SettleInv, LoneInv, LoneOf, CurrentAfter, At
<1>4. SettleInv /\ [Next]_vars => [~left => Settled]_vars
  BY <1>3
<1> QED BY <1>1, <1>2, <1>4, PTL DEF Spec, SettlesUnlessLeft
===============================================================================
