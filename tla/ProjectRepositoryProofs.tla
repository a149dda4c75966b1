----------------------- MODULE ProjectRepositoryProofs -----------------------
(***************************************************************************)
(* Theorems about ProjectRepository, for every set of handlers, ids,       *)
(* documents and commands.  Every committed envelope comes out of Build    *)
(* (ProjectEnvelopeProofs); the first part shows that what waits at a swap *)
(* was built from what it will be compared with; the second that the       *)
(* storage changes only by whole commands, and so what a step may do to    *)
(* projects and selection; the last that the repository implements the     *)
(* atomic store.                                                           *)
(***************************************************************************)
EXTENDS ProjectRepository, ProjectEnvelopeProofs

-----------------------------------------------------------------------------
(* The inductive invariant.  StoreOK is not inductive by itself: a swap    *)
(* commits what an earlier step built, so the invariant speaks of the      *)
(* prepared envelopes as well, and of the commands they are built for.     *)

ServedOK == \A h \in Handlers : step[h] \in {"read", "swap", "reread"} =>
                                  request[h] \in Requests

Inv == TypeOK /\ StoreOK /\ PreparedOK /\ ServedOK

LEMMA InitInv == Init => Inv
<1> SUFFICES ASSUME Init PROVE Inv
  OBVIOUS
<1>1. TypeOK
  BY EmptyOK DEF Init, TypeOK, Replies, Steps
<1>2. StoreOK /\ PreparedOK /\ ServedOK
  BY EmptyOK DEF Init, StoreOK, PreparedOK, ServedOK
<1> QED BY <1>1, <1>2 DEF Inv

\* A handler whose promise settles leaves nothing prepared.
LEMMA SettleInv ==
  ASSUME Inv, NEW h \in Handlers, NEW kind \in Replies,
         Settle(h, kind), request' = request,
         IsEnvelope(store'), EnvelopeOK(store')
  PROVE  Inv'
<1> USE DEF Inv, Settle
<1>1. TypeOK'
  BY EmptyOK DEF TypeOK, Steps
<1>2. StoreOK'
  BY DEF StoreOK
<1>3. \A k \in Handlers : step'[k] = IF k = h THEN "replied" ELSE step[k]
  BY DEF TypeOK
<1>4. \A k \in Handlers : k # h => next'[k] = next[k] /\ raw'[k] = raw[k]
  BY DEF TypeOK
<1>5. PreparedOK'
  BY <1>3, <1>4 DEF PreparedOK
<1>6. ServedOK'
  BY <1>3 DEF ServedOK
<1> QED BY <1>1, <1>2, <1>5, <1>6

LEMMA SubmitInv ==
  ASSUME Inv, NEW h \in Handlers, NEW cmd \in Requests, Submit(h, cmd)
  PROVE  Inv'
<1> USE DEF Inv, Submit
<1>1. TypeOK'
  BY DEF TypeOK, Steps
<1>2. StoreOK'
  BY DEF StoreOK
<1>3. PreparedOK'
  BY DEF PreparedOK, TypeOK
<1>4. ServedOK'
  BY DEF ServedOK, TypeOK
<1> QED BY <1>1, <1>2, <1>3, <1>4

LEMMA ReadAndBuildInv ==
  ASSUME Inv, NEW h \in Handlers, ReadAndBuild(h)
  PROVE  Inv'
<1>1. PICK stamp \in Stamps :
        LET mutation == Build(request[h], store, stamp)
        IN  IF mutation.kind = "commit"
            THEN /\ step' = [step EXCEPT ![h] = "swap"]
                 /\ raw' = [raw EXCEPT ![h] = store]
                 /\ next' = [next EXCEPT ![h] = mutation.next]
                 /\ UNCHANGED <<reply, attempt>>
            ELSE Settle(h, mutation.kind)
  BY DEF ReadAndBuild
<1>2. step[h] = "read" /\ store' = store /\ request' = request
  BY DEF ReadAndBuild
<1> DEFINE mutation == Build(request[h], store, stamp)
<1>3. request[h] \in Command
  BY <1>2, RepositoryAssumption DEF Inv, ServedOK
<1>4. IsEnvelope(store) /\ EnvelopeOK(store)
  BY DEF Inv, TypeOK, StoreOK
<1>5. /\ mutation.kind \in {"commit", "conflict"} \cup FailureCodes
      /\ mutation.kind = "commit" => mutation = Commit(mutation.next)
  BY <1>3, BuildKind
<1>6. Good(mutation)
  BY <1>3, <1>4, BuildGood
<1>7. CASE mutation.kind = "commit"
  <2> HIDE DEF mutation
  <2>1. /\ step' = [step EXCEPT ![h] = "swap"]
        /\ raw' = [raw EXCEPT ![h] = store]
        /\ next' = [next EXCEPT ![h] = mutation.next]
        /\ reply' = reply /\ attempt' = attempt
    BY <1>1, <1>7 DEF mutation
  <2>2. IsEnvelope(mutation.next) /\ EnvelopeOK(mutation.next)
    BY <1>6, <1>7 DEF Good
  <2>3. TypeOK'
    BY <1>2, <1>4, <2>1, <2>2 DEF Inv, TypeOK, Steps
  <2>4. StoreOK'
    BY <1>2, <1>4 DEF StoreOK
  <2>5. ASSUME NEW k \in Handlers, step'[k] = "swap"
        PROVE  /\ EnvelopeOK(next'[k])
               /\ \E s \in Stamps : Build(request'[k], raw'[k], s) = Commit(next'[k])
    <3>1. CASE k = h
      <4>1. next'[k] = mutation.next /\ raw'[k] = store /\ request'[k] = request[h]
        BY <1>2, <2>1, <3>1 DEF Inv, TypeOK
      <4>2. Build(request[h], store, stamp) = Commit(mutation.next)
        BY <1>5, <1>7 DEF mutation
      <4> QED BY <2>2, <4>1, <4>2
    <3>2. CASE k # h
      <4>1. next'[k] = next[k] /\ raw'[k] = raw[k] /\ request'[k] = request[k] /\ step[k] = "swap"
        BY <1>2, <2>1, <2>5, <3>2 DEF Inv, TypeOK
      <4> QED BY <4>1 DEF Inv, PreparedOK
    <3> QED BY <3>1, <3>2
  <2>6. PreparedOK'
    BY <2>5 DEF PreparedOK
  <2>7. ServedOK'
    BY <1>2, <2>1 DEF Inv, ServedOK, TypeOK
  <2> QED BY <2>3, <2>4, <2>6, <2>7 DEF Inv
<1>8. CASE mutation.kind # "commit"
  <2>1. Settle(h, mutation.kind)
    BY <1>1, <1>8
  <2>2. mutation.kind \in Replies
    BY <1>5 DEF Replies
  <2> HIDE DEF mutation
  <2> QED BY <1>2, <1>4, <2>1, <2>2, SettleInv
<1> QED BY <1>7, <1>8

LEMMA ReadFailsInv ==
  ASSUME Inv, NEW h \in Handlers, ReadFails(h)
  PROVE  Inv'
<1>1. IsEnvelope(store') /\ EnvelopeOK(store')
  BY DEF ReadFails, Inv, TypeOK, StoreOK
<1> QED BY <1>1, SettleInv DEF ReadFails, Replies, StorageCodes

LEMMA SwapCommitsInv ==
  ASSUME Inv, NEW h \in Handlers, SwapCommits(h)
  PROVE  Inv'
<1>1. IsEnvelope(store') /\ EnvelopeOK(store')
  BY DEF SwapCommits, Inv, TypeOK, PreparedOK
<1> QED BY <1>1, SettleInv DEF SwapCommits, Replies

LEMMA SwapLosesInv ==
  ASSUME Inv, NEW h \in Handlers, SwapLoses(h)
  PROVE  Inv'
<1>1. step[h] = "swap" /\ store' = store /\ request' = request
  BY DEF SwapLoses
<1>2. CASE Settle(h, "core.storage-conflict")
  <2>1. IsEnvelope(store') /\ EnvelopeOK(store')
    BY <1>1 DEF Inv, TypeOK, StoreOK
  <2> QED BY <1>1, <1>2, <2>1, SettleInv DEF Replies, StorageCodes
<1>3. CASE ~ Settle(h, "core.storage-conflict")
  <2>1. /\ \/ step' = [step EXCEPT ![h] = "reread"]
           \/ step' = [step EXCEPT ![h] = "read"]
        /\ raw' = [raw EXCEPT ![h] = EmptyEnvelope]
        /\ next' = [next EXCEPT ![h] = EmptyEnvelope]
        /\ reply' = reply
        /\ \/ attempt' = attempt
           \/ /\ attempt[h] + 1 < Attempts(request[h])
              /\ attempt' = [attempt EXCEPT ![h] = @ + 1]
    BY <1>3 DEF SwapLoses
  <2>2. Attempts(request[h]) <= 3 /\ Attempts(request[h]) \in Nat
    BY DEF Attempts
  <2>3. attempt' \in [Handlers -> 0..2]
    <3>1. attempt[h] \in 0..2
      BY DEF Inv, TypeOK
    <3>2. CASE attempt' = attempt
      BY <3>2 DEF Inv, TypeOK
    <3>3. CASE /\ attempt[h] + 1 < Attempts(request[h])
               /\ attempt' = [attempt EXCEPT ![h] = @ + 1]
      <4>1. attempt[h] + 1 \in 0..2
        BY <2>2, <3>1, <3>3
      <4> QED BY <3>3, <4>1 DEF Inv, TypeOK
    <3> QED BY <2>1, <3>2, <3>3
  <2>4. TypeOK'
    BY <1>1, <2>1, <2>3, EmptyOK DEF Inv, TypeOK, Steps
  <2>5. StoreOK' /\ ServedOK'
    BY <1>1, <2>1 DEF Inv, StoreOK, ServedOK, TypeOK
  <2>6. PreparedOK'
    BY <1>1, <2>1 DEF Inv, PreparedOK, TypeOK
  <2> QED BY <2>4, <2>5, <2>6 DEF Inv
<1> QED BY <1>2, <1>3

LEMMA RereadForConflictInv ==
  ASSUME Inv, NEW h \in Handlers, RereadForConflict(h)
  PROVE  Inv'
<1>1. IsEnvelope(store') /\ EnvelopeOK(store')
  BY DEF RereadForConflict, Inv, TypeOK, StoreOK
<1> DEFINE kind == IF Has(store, request[h].id) THEN "conflict"
                   ELSE "core.storage-conflict"
<1>2. kind \in Replies
  BY DEF Replies, StorageCodes
<1>3. Settle(h, kind) /\ request' = request
  BY DEF RereadForConflict
<1> HIDE DEF kind
<1> QED BY <1>1, <1>2, <1>3, SettleInv

LEMMA DeliverInv ==
  ASSUME Inv, NEW h \in Handlers, Deliver(h)
  PROVE  Inv'
<1> USE DEF Inv, Deliver
<1>1. TypeOK'
  BY DEF TypeOK, Steps, Replies
<1>2. StoreOK'
  BY DEF StoreOK
<1>3. PreparedOK'
  BY DEF PreparedOK, TypeOK
<1>4. ServedOK'
  BY DEF ServedOK, TypeOK
<1> QED BY <1>1, <1>2, <1>3, <1>4

LEMMA NextInv == Inv /\ [Next]_vars => Inv'
<1>1. ASSUME Inv, Next PROVE Inv'
  <2>1. PICK h \in Handlers : (\E cmd \in Requests : Submit(h, cmd)) \/ Proceed(h)
    BY <1>1 DEF Next
  <2> QED BY <1>1, <2>1, SubmitInv, ReadAndBuildInv, ReadFailsInv, SwapCommitsInv,
             SwapLosesInv, RereadForConflictInv, DeliverInv DEF Proceed
<1>2. ASSUME Inv, UNCHANGED vars PROVE Inv'
  BY <1>2 DEF Inv, vars, TypeOK, StoreOK, PreparedOK, ServedOK
<1> QED BY <1>1, <1>2

THEOREM Invariance == Spec => []Inv
  BY InitInv, NextInv, PTL DEF Spec

\* Type correctness: every variable keeps the values the code gives it.
THEOREM TypeCorrect == Spec => []TypeOK
<1>1. Inv => TypeOK
  BY DEF Inv
<1> QED BY <1>1, Invariance, PTL

\* The stored envelope has unique names, respects the limit, has exactly one
\* active project whenever it has any, and enables only declared groups,
\* however many handlers read, build and swap at the same time.
THEOREM StoreSafe == Spec => []StoreOK
<1>1. Inv => StoreOK
  BY DEF Inv
<1> QED BY <1>1, Invariance, PTL

\* What waits at a swap was built from what it will be compared with.
THEOREM PreparedSafe == Spec => []PreparedOK
<1>1. Inv => PreparedOK
  BY DEF Inv
<1> QED BY <1>1, Invariance, PTL

\* The storage changes only by a swap.
LEMMA StoreChange ==
  ASSUME Inv, [Next]_vars, store' # store
  PROVE  \E h \in Handlers : SwapCommits(h)
BY DEF Next, Proceed, vars, Submit, ReadAndBuild, ReadFails, SwapLoses,
       RereadForConflict, Deliver

\* Every change of the storage is the whole effect of one command on the
\* envelope as it is at that moment: no read survives another handler's commit.
THEOREM Serial == Spec => CommitsAreSerial
<1> DEFINE Change == store' # store =>
                       \E h \in Handlers : \E stamp \in Stamps :
                         /\ step[h] = "swap"
                         /\ Build(request[h], store, stamp) = Commit(store')
<1>1. Inv /\ [Next]_vars => [Change]_vars
  <2> SUFFICES ASSUME Inv, [Next]_vars, store' # store
               PROVE  \E h \in Handlers : \E stamp \in Stamps :
                        /\ step[h] = "swap"
                        /\ Build(request[h], store, stamp) = Commit(store')
    OBVIOUS
  <2>1. PICK h \in Handlers : SwapCommits(h)
    BY StoreChange
  <2> QED BY <2>1 DEF SwapCommits, Inv, PreparedOK
<1> QED BY <1>1, Invariance, PTL DEF Spec, CommitsAreSerial

-----------------------------------------------------------------------------
(* What a step may do to the projects and to the selection.                *)

\* What a change of the storage may do, as a fact about a step.
LEMMA ChangeLawful ==
  ASSUME Inv, [Next]_vars, store' # store
  PROVE  /\ Stepwise(store, store') /\ Disables(store, store')
         /\ \E h \in Handlers :
              SwapCommits(h) /\ (Selects(store, store') \/ request[h].op = "switch")
<1>1. PICK h \in Handlers : SwapCommits(h)
  BY StoreChange
<1>2. step[h] = "swap" /\ store = raw[h] /\ store' = next[h]
  BY <1>1 DEF SwapCommits
<1>3. PICK stamp \in Stamps : Build(request[h], store, stamp) = Commit(store')
  BY <1>2 DEF Inv, PreparedOK
<1>4. request[h] \in Command /\ IsEnvelope(store) /\ EnvelopeOK(store)
  BY <1>2, RepositoryAssumption DEF Inv, ServedOK, TypeOK, StoreOK
<1> QED BY <1>1, <1>3, <1>4, BuildLawful

\* No update of a surviving project is overwritten by another handler: every
\* change raises the revision by exactly one.
THEOREM NoUpdateLost == Spec => NoLostUpdate
<1> DEFINE Change == \A p \in Ids(store) \cap Ids(store)' :
                       store'.projects[p] # store.projects[p] =>
                         store'.projects[p].revision = store.projects[p].revision + 1
<1>1. Inv /\ [Next]_vars => [Change]_vars
  <2> SUFFICES ASSUME Inv, [Next]_vars, store' # store PROVE Change
    OBVIOUS
  <2> QED BY ChangeLawful DEF Stepwise, Ids
<1> QED BY <1>1, Invariance, PTL DEF Spec, NoLostUpdate

\* Whatever handlers interleave, content that was not stored before arrives
\* with every group disabled.
THEOREM ContentArrivesDisabled == Spec => NewContentIsDisabled
<1> DEFINE Change ==
      \A p \in Ids(store)' :
        (p \notin Ids(store) \/ store'.projects[p].doc # store.projects[p].doc)
          => store'.projects[p].enabled = {}
<1>1. Inv /\ [Next]_vars => [Change]_vars
  <2> SUFFICES ASSUME Inv, [Next]_vars, vars' # vars PROVE Change
    OBVIOUS
  <2>1. CASE store' = store
    BY <2>1 DEF Ids
  <2>2. CASE store' # store
    BY <2>2, ChangeLawful DEF Disables, Ids
  <2> QED BY <2>1, <2>2
<1> QED BY <1>1, Invariance, PTL DEF Spec, NewContentIsDisabled

\* The active project changes under a surviving selection only by the commit
\* of a switch.
THEOREM SelectionStays == Spec => OnlySwitchMovesSelection
<1> DEFINE Change ==
      \A h \in Handlers :
        (/\ step[h] = "swap" /\ step'[h] = "replied" /\ reply'[h] = "commit"
         /\ store.active # NoProject /\ store.active \in Ids(store)'
         /\ store'.active # store.active)
        => request[h].op = "switch"
<1>1. Inv /\ [Next]_vars => [Change]_vars
  <2> SUFFICES ASSUME Inv, [Next]_vars, NEW h \in Handlers,
                      step[h] = "swap", step'[h] = "replied",
                      store.active \in Ids(store)', store'.active # store.active
               PROVE  request[h].op = "switch"
    BY DEF vars
  <2>1. PICK k \in Handlers :
          SwapCommits(k) /\ (Selects(store, store') \/ request[k].op = "switch")
    BY ChangeLawful
  <2>2. k = h
    BY <2>1 DEF SwapCommits, Settle, Inv, TypeOK
  <2> QED BY <2>1, <2>2 DEF Selects, Ids
<1> QED BY <1>1, Invariance, PTL DEF Spec, OnlySwitchMovesSelection

-----------------------------------------------------------------------------
(* The repository implements the atomic store: every behaviour of          *)
(* ProjectRepository is one of ProjectStore, with the same envelope,       *)
(* commands and replies.  The swap of a commit is the instant at which the *)
(* command takes effect; every other await is a stutter.                   *)

\* The builders of the abstract store are those of the repository.
LEMMA SameBuild ==
  \A cmd, env, stamp : Abstract!Build(cmd, env, stamp) = Build(cmd, env, stamp)
<1>1. \A env, id, project :
        Abstract!ReplaceProject(env, id, project) = ReplaceProject(env, id, project)
  BY DEF Abstract!ReplaceProject, ReplaceProject, Abstract!Ids, Ids
<1>2. \A env, id, doc, stamp :
        Abstract!BuildCreate(env, id, doc, stamp) = BuildCreate(env, id, doc, stamp)
  <2>1. \A env, name, ids : Abstract!NameTaken(env, name, ids) <=> NameTaken(env, name, ids)
    BY DEF Abstract!NameTaken, NameTaken, Abstract!Ids, Ids
  <2>2. \A env, id : Abstract!Has(env, id) <=> Has(env, id)
    BY DEF Abstract!Has, Has, Abstract!Ids, Ids
  <2>3. \A env : /\ Abstract!Ids(env) = Ids(env)
                  /\ Abstract!Commit(env) = Commit(env)
                  /\ \A code : Abstract!Failure(env, code) = Failure(env, code)
    BY DEF Abstract!Ids, Ids, Abstract!Commit, Commit, Abstract!Failure, Failure
  <2>4. \A S : Abstract!Cardinality(S) = Cardinality(S)
    BY DEF Abstract!Cardinality, Cardinality
  <2> QED BY <1>1, <2>1, <2>2, <2>3, <2>4 DEF Abstract!BuildCreate, BuildCreate
<1>3. \A env, id, doc, expected, stamp :
        Abstract!BuildUpdate(env, id, doc, expected, stamp)
          = BuildUpdate(env, id, doc, expected, stamp)
  BY <1>1 DEF Abstract!BuildUpdate, BuildUpdate, Abstract!Failure, Failure,
         Abstract!NameTaken, NameTaken, Abstract!Ids, Ids, Abstract!Commit, Commit,
         Abstract!Conflict, Conflict, Abstract!Updated, Updated
<1>4. \A env, cmd, stamp :
        Abstract!BuildImport(env, cmd, stamp) = BuildImport(env, cmd, stamp)
  BY <1>2, <1>3 DEF Abstract!BuildImport, BuildImport, Abstract!Failure, Failure,
         Abstract!Ids, Ids
<1>5. \A env, cmd, stamp :
        Abstract!BuildSave(env, cmd, stamp) = BuildSave(env, cmd, stamp)
  BY <1>3 DEF Abstract!BuildSave, BuildSave, Abstract!Failure, Failure,
         Abstract!Has, Has, Abstract!Ids, Ids, Abstract!Conflict, Conflict
<1>6. \A env, id :
        /\ Abstract!BuildSwitch(env, id) = BuildSwitch(env, id)
        /\ Abstract!BuildRemove(env, id) = BuildRemove(env, id)
  BY DEF Abstract!BuildSwitch, BuildSwitch, Abstract!BuildRemove, BuildRemove,
         Abstract!Failure, Failure, Abstract!Has, Has, Abstract!Ids, Ids,
         Abstract!Commit, Commit, Abstract!Successor, Successor,
         Abstract!Precedes, Precedes
<1>7. \A env, cmd, stamp :
        Abstract!BuildEnable(env, cmd, stamp) = BuildEnable(env, cmd, stamp)
  BY <1>1 DEF Abstract!BuildEnable, BuildEnable, Abstract!Failure, Failure,
         Abstract!Has, Has, Abstract!Ids, Ids, Abstract!Commit, Commit
<1>8. \A env, cmd, stamp :
        Abstract!BuildRoot(env, cmd, stamp) = BuildRoot(env, cmd, stamp)
  BY <1>1 DEF Abstract!BuildRoot, BuildRoot, Abstract!Failure, Failure,
         Abstract!Has, Has, Abstract!Ids, Ids, Abstract!Commit, Commit
<1> QED
  BY <1>2, <1>4, <1>5, <1>6, <1>7, <1>8 DEF Abstract!Build, Build

-----------------------------------------------------------------------------
(* The invariant that ties a handler's await to what the abstract store    *)
(* knows of it: a handler at an await has a command and no reply yet.      *)

AwaitsAgree ==
  /\ request \in [Handlers -> Requests \cup {NoCommand}]
  /\ reply \in [Handlers -> Replies]
  /\ \A h \in Handlers :
       /\ step[h] = "idle" => request[h] = NoCommand /\ reply[h] = "none"
       /\ step[h] \in {"read", "swap", "reread"} =>
            request[h] \in Requests /\ reply[h] = "none"
       /\ step[h] = "reread" => request[h].op = "save"
       /\ step[h] = "replied" => reply[h] # "none"

RefInv == Inv /\ AwaitsAgree

LEMMA InitAgrees == Init => AwaitsAgree
BY DEF Init, AwaitsAgree, Replies

\* A promise that settles is answered with something.
LEMMA SettleAgrees ==
  ASSUME RefInv, NEW h \in Handlers, NEW kind \in Replies \ {"none"},
         Settle(h, kind), request' = request
  PROVE  AwaitsAgree'
BY DEF RefInv, Inv, TypeOK, AwaitsAgree, Settle

LEMMA NextAgrees == RefInv /\ [Next]_vars => AwaitsAgree'
<1> SUFFICES ASSUME RefInv, [Next]_vars PROVE AwaitsAgree'
  OBVIOUS
<1>1. ASSUME NEW h \in Handlers, NEW cmd \in Requests, Submit(h, cmd)
      PROVE  AwaitsAgree'
  BY <1>1 DEF RefInv, Inv, TypeOK, AwaitsAgree, Submit
<1>2. ASSUME NEW h \in Handlers, ReadAndBuild(h) PROVE AwaitsAgree'
  <2>1. PICK stamp \in Stamps :
          LET mutation == Build(request[h], store, stamp)
          IN  IF mutation.kind = "commit"
              THEN step' = [step EXCEPT ![h] = "swap"] /\ UNCHANGED reply
              ELSE Settle(h, mutation.kind)
    BY <1>2 DEF ReadAndBuild
  <2>2. step[h] = "read" /\ request' = request
    BY <1>2 DEF ReadAndBuild
  <2> DEFINE mutation == Build(request[h], store, stamp)
  <2>3. mutation.kind \in {"commit", "conflict"} \cup FailureCodes
    BY <2>2, BuildKind, RepositoryAssumption DEF RefInv, AwaitsAgree
  <2>4. mutation.kind \in Replies \ {"none"}
    BY <2>3 DEF Replies, FailureCodes
  <2>5. CASE step' = [step EXCEPT ![h] = "swap"] /\ reply' = reply
    BY <2>2, <2>5 DEF RefInv, Inv, TypeOK, AwaitsAgree
  <2>6. CASE Settle(h, mutation.kind)
    <3> HIDE DEF mutation
    <3> QED BY <2>2, <2>4, <2>6, SettleAgrees
  <2> QED BY <2>1, <2>5, <2>6
<1>3. ASSUME NEW h \in Handlers, ReadFails(h) PROVE AwaitsAgree'
  BY <1>3, SettleAgrees DEF ReadFails, Replies, StorageCodes
<1>4. ASSUME NEW h \in Handlers, SwapCommits(h) PROVE AwaitsAgree'
  BY <1>4, SettleAgrees DEF SwapCommits, Replies
<1>5. ASSUME NEW h \in Handlers, SwapLoses(h) PROVE AwaitsAgree'
  <2>1. CASE Settle(h, "core.storage-conflict")
    BY <1>5, <2>1, SettleAgrees DEF SwapLoses, Replies, StorageCodes
  <2>2. CASE /\ \/ step' = [step EXCEPT ![h] = "reread"] /\ request[h].op = "save"
                \/ step' = [step EXCEPT ![h] = "read"]
             /\ UNCHANGED reply
    BY <1>5, <2>2 DEF SwapLoses, RefInv, Inv, TypeOK, AwaitsAgree
  <2> QED BY <1>5, <2>1, <2>2 DEF SwapLoses
<1>6. ASSUME NEW h \in Handlers, RereadForConflict(h) PROVE AwaitsAgree'
  <2>1. CASE Settle(h, "conflict")
    BY <1>6, <2>1, SettleAgrees DEF RereadForConflict, Replies
  <2>2. CASE Settle(h, "core.storage-conflict")
    BY <1>6, <2>2, SettleAgrees DEF RereadForConflict, Replies, StorageCodes
  <2> QED BY <1>6, <2>1, <2>2 DEF RereadForConflict
<1>7. ASSUME NEW h \in Handlers, Deliver(h) PROVE AwaitsAgree'
  BY <1>7 DEF Deliver, RefInv, Inv, TypeOK, AwaitsAgree, Replies
<1>8. CASE UNCHANGED vars
  BY <1>8 DEF vars, RefInv, AwaitsAgree
<1> QED BY <1>1, <1>2, <1>3, <1>4, <1>5, <1>6, <1>7, <1>8 DEF Next, Proceed

LEMMA RefInvariance == Spec => []RefInv
<1>1. Init => RefInv
  BY InitInv, InitAgrees DEF RefInv
<1>2. RefInv /\ [Next]_vars => RefInv'
  BY NextInv, NextAgrees DEF RefInv
<1> QED BY <1>1, <1>2, PTL DEF Spec

-----------------------------------------------------------------------------
(* Every step of the repository is a step of the store, or none.           *)

LEMMA InitRefines == Init => Abstract!Init
BY DEF Init, Abstract!Init, EmptyEnvelope, Abstract!EmptyEnvelope

\* The command of h takes its effect, or is refused, on the envelope it sees.
LEMMA PerformStep ==
  ASSUME RefInv, NEW h \in Handlers, NEW stamp \in Stamps,
         step[h] \in {"read", "swap"}, request' = request,
         store' = Build(request[h], store, stamp).next,
         Settle(h, Build(request[h], store, stamp).kind)
  PROVE  Abstract!Perform(h)
<1>1. request[h] # NoCommand /\ reply[h] = "none"
  BY RepositoryAssumption DEF RefInv, AwaitsAgree
<1>2. Abstract!Undecided(h)
  BY <1>1 DEF Abstract!Undecided
<1>3. Abstract!Build(request[h], store, stamp) = Build(request[h], store, stamp)
  BY SameBuild
<1> QED BY <1>2, <1>3 DEF Abstract!Perform, Settle

\* The storage failed the command of h.
LEMMA GiveUpStep ==
  ASSUME RefInv, NEW h \in Handlers, NEW code \in StorageCodes,
         step[h] \in {"read", "swap", "reread"}, request' = request,
         store' = store, Settle(h, code)
  PROVE  Abstract!GiveUp(h)
<1>1. request[h] # NoCommand /\ reply[h] = "none"
  BY RepositoryAssumption DEF RefInv, AwaitsAgree
<1> QED BY <1>1 DEF Abstract!GiveUp, Abstract!Undecided, Abstract!StorageCodes,
                    StorageCodes, Settle

LEMMA StepRefines == RefInv /\ [Next]_vars => [Abstract!Next]_(Abstract!vars)
<1> SUFFICES ASSUME RefInv, [Next]_vars PROVE [Abstract!Next]_(Abstract!vars)
  OBVIOUS
<1>1. ASSUME NEW h \in Handlers, NEW cmd \in Requests, Submit(h, cmd)
      PROVE  Abstract!Submit(h)
  <2>1. request[h] = NoCommand
    BY <1>1 DEF Submit, RefInv, AwaitsAgree
  <2>2. request' = [request EXCEPT ![h] = cmd] /\ request'[h] = cmd
    BY <1>1 DEF Submit, RefInv, AwaitsAgree
  <2>3. cmd \in Abstract!Command
    BY RepositoryAssumption DEF Command, CreateCommand, ImportCommand, SaveCommand,
       SwitchCommand, RemoveCommand, EnableCommand, RootCommand, AnyDoc, Revisions,
       Abstract!Command, Abstract!CreateCommand, Abstract!ImportCommand,
       Abstract!SaveCommand, Abstract!SwitchCommand, Abstract!RemoveCommand,
       Abstract!EnableCommand, Abstract!RootCommand, Abstract!AnyDoc,
       Abstract!Revisions
  <2> QED BY <1>1, <2>1, <2>2, <2>3 DEF Submit, Abstract!Submit
<1>2. ASSUME NEW h \in Handlers, ReadAndBuild(h)
      PROVE  Abstract!Perform(h) \/ UNCHANGED Abstract!vars
  <2>1. PICK stamp \in Stamps :
          LET mutation == Build(request[h], store, stamp)
          IN  IF mutation.kind = "commit" THEN UNCHANGED reply
              ELSE Settle(h, mutation.kind)
    BY <1>2 DEF ReadAndBuild
  <2>2. step[h] = "read" /\ request' = request /\ store' = store
    BY <1>2 DEF ReadAndBuild
  <2>3. CASE Build(request[h], store, stamp).kind = "commit"
    BY <2>1, <2>2, <2>3 DEF Abstract!vars
  <2>4. CASE Build(request[h], store, stamp).kind # "commit"
    <3>1. request[h] \in Command
      BY <2>2, RepositoryAssumption DEF RefInv, AwaitsAgree
    <3>2. Build(request[h], store, stamp).next = store
      BY <3>1, <2>4, BuildKind
    <3> QED BY <2>1, <2>2, <2>4, <3>2, PerformStep
  <2> QED BY <2>3, <2>4
<1>3. ASSUME NEW h \in Handlers, ReadFails(h) PROVE Abstract!GiveUp(h)
  BY <1>3, GiveUpStep DEF ReadFails, StorageCodes
<1>4. ASSUME NEW h \in Handlers, SwapCommits(h) PROVE Abstract!Perform(h)
  <2>1. PICK stamp \in Stamps : Build(request[h], raw[h], stamp) = Commit(next[h])
    BY <1>4 DEF SwapCommits, RefInv, Inv, PreparedOK
  <2>2. Build(request[h], store, stamp) = Commit(store')
    BY <1>4, <2>1 DEF SwapCommits
  <2>3. /\ Build(request[h], store, stamp).next = store'
        /\ Build(request[h], store, stamp).kind = "commit"
    BY <2>2 DEF Commit
  <2> QED BY <1>4, <2>3, PerformStep DEF SwapCommits
<1>5. ASSUME NEW h \in Handlers, SwapLoses(h)
      PROVE  Abstract!GiveUp(h) \/ UNCHANGED Abstract!vars
  <2>1. CASE Settle(h, "core.storage-conflict")
    BY <1>5, <2>1, GiveUpStep DEF SwapLoses, StorageCodes
  <2>2. CASE UNCHANGED reply
    BY <1>5, <2>2 DEF SwapLoses, Abstract!vars
  <2> QED BY <1>5, <2>1, <2>2 DEF SwapLoses
<1>6. ASSUME NEW h \in Handlers, RereadForConflict(h)
      PROVE  Abstract!Contend(h) \/ Abstract!GiveUp(h)
  <2>1. CASE Has(store, request[h].id)
    <3>1. request[h] # NoCommand /\ reply[h] = "none" /\ request[h].op = "save"
      BY <1>6, RepositoryAssumption DEF RereadForConflict, RefInv, AwaitsAgree
    <3>2. Abstract!Has(store, request[h].id)
      BY <2>1 DEF Has, Ids, Abstract!Has, Abstract!Ids
    <3> QED BY <1>6, <2>1, <3>1, <3>2 DEF RereadForConflict, Settle,
               Abstract!Contend, Abstract!Undecided
  <2>2. CASE ~ Has(store, request[h].id)
    BY <1>6, <2>2, GiveUpStep DEF RereadForConflict, StorageCodes
  <2> QED BY <2>1, <2>2
<1>7. ASSUME NEW h \in Handlers, Deliver(h) PROVE Abstract!Deliver(h)
  BY <1>7 DEF Deliver, Abstract!Deliver, RefInv, AwaitsAgree
<1>8. CASE UNCHANGED vars
  BY <1>8 DEF vars, Abstract!vars
<1> QED
  BY <1>1, <1>2, <1>3, <1>4, <1>5, <1>6, <1>7, <1>8 DEF Next, Proceed, Abstract!Next

\* The repository, with its reads, retries and lost swaps, is an atomic store
\* for whoever sends commands and receives replies.
THEOREM Implements == Spec => Refinement
BY InitRefines, StepRefines, RefInvariance, PTL DEF Spec, Refinement, Abstract!Spec
=============================================================================
