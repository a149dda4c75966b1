------------------------ MODULE ProjectEnvelopeProofs ------------------------
(***************************************************************************)
(* Lemmas about the builders of ProjectEnvelope, for every set of ids,     *)
(* documents and commands: Build maps a good envelope to a good one, and   *)
(* what a commit may do to the projects and to the selection.              *)
(***************************************************************************)
EXTENDS ProjectEnvelope, FiniteSetTheorems, WellFoundedInduction, TLAPS

-----------------------------------------------------------------------------
(* A first element exists in every nonempty set of stored projects.        *)

Below == {ss \in Nat \X Nat : ss[1] < ss[2]}

LEMMA LeastNatural ==
  ASSUME NEW K, K \subseteq Nat, K # {}
  PROVE  \E n \in K : \A m \in K : n <= m
<1>1. IsWellFoundedOn(Below, Nat)
  BY NatLessThanWellFounded DEF OpToRel, Below
<1>2. PICK n \in K : \A m \in K : ~ (<<m, n>> \in Below)
  BY <1>1, WFMin
<1>3. ASSUME NEW m \in K PROVE n <= m
  <2>1. ~ (<<m, n>> \in Below)
    BY <1>2
  <2>2. m \in Nat /\ n \in Nat
    OBVIOUS
  <2> QED BY <2>1, <2>2 DEF Below
<1> QED BY <1>3

LEMMA ProjectTyped ==
  ASSUME NEW env, IsEnvelope(env)
  PROVE  /\ Ids(env) \subseteq ProjectIds
         /\ \A p \in Ids(env) : env.projects[p] \in Project
         /\ env.active \in ProjectIds \cup {NoProject}
         /\ env = [projects |-> env.projects, active |-> env.active]
BY DEF IsEnvelope, Ids

\* The order removal sorts by is total and transitive.
LEMMA PrecedesOrder ==
  ASSUME NEW env, IsEnvelope(env),
         NEW p \in Ids(env), NEW q \in Ids(env), NEW r \in Ids(env)
  PROVE  /\ Precedes(env, p, p)
         /\ Precedes(env, p, q) \/ Precedes(env, q, p)
         /\ Precedes(env, p, q) /\ Precedes(env, q, r) => Precedes(env, p, r)
<1>1. /\ p \in Nat /\ q \in Nat /\ r \in Nat
      /\ env.projects[p].updatedAt \in Nat
      /\ env.projects[q].updatedAt \in Nat
      /\ env.projects[r].updatedAt \in Nat
  BY ProjectTyped, EnvelopeAssumption DEF Project
<1> QED BY <1>1 DEF Precedes

First(env, S) == \E p \in S : \A q \in S : Precedes(env, p, q)

LEMMA FirstExists ==
  ASSUME NEW env, IsEnvelope(env), NEW rest \in SUBSET Ids(env), rest # {}
  PROVE  First(env, rest)
<1> DEFINE Bad == {S \in SUBSET rest : S # {} /\ ~ First(env, S)}
           Sizes == {Cardinality(S) : S \in Bad}
<1>1. IsFiniteSet(rest)
  <2>1. rest \subseteq ProjectIds
    BY ProjectTyped
  <2> QED BY <2>1, EnvelopeAssumption, FS_Subset
<1>2. \A S \in SUBSET rest : IsFiniteSet(S) /\ Cardinality(S) \in Nat
  BY <1>1, FS_Subset, FS_CardinalityType
<1>3. SUFFICES ASSUME Bad # {} PROVE FALSE
  OBVIOUS
<1>4. Sizes \subseteq Nat /\ Sizes # {}
  BY <1>2, <1>3
<1>5. PICK n \in Sizes : \A m \in Sizes : n <= m
  <2> HIDE DEF Sizes
  <2> QED BY <1>4, LeastNatural
<1>6. PICK S \in Bad : Cardinality(S) = n
  BY <1>5
<1>7. PICK x \in S : TRUE
  BY <1>6
<1> DEFINE T == S \ {x}
<1>8. Cardinality(T) = Cardinality(S) - 1 /\ T \in SUBSET rest
  BY <1>2, <1>6, <1>7, FS_RemoveElement
<1>9. T \notin Bad
  <2>1. SUFFICES ASSUME T \in Bad PROVE FALSE
    OBVIOUS
  <2>2. n <= Cardinality(T)
    BY <2>1, <1>5
  <2>3. Cardinality(S) \in Nat
    BY <1>2, <1>6
  <2> QED BY <2>2, <2>3, <1>6, <1>8
<1>10. x \in Ids(env) /\ S \subseteq Ids(env)
  BY <1>6, <1>7
<1>11. CASE T = {}
  <2>1. \A q \in S : q = x
    BY <1>11
  <2>2. Precedes(env, x, x)
    BY <1>10, PrecedesOrder
  <2> QED BY <2>1, <2>2, <1>6, <1>7 DEF First
<1>12. CASE T # {}
  <2>1. PICK y \in T : \A q \in T : Precedes(env, y, q)
    BY <1>8, <1>9, <1>12 DEF First
  <2>2. y \in Ids(env) /\ y \in S
    BY <1>10
  <2>3. Precedes(env, x, y) \/ Precedes(env, y, x)
    BY <1>10, <2>2, PrecedesOrder
  <2>4. CASE Precedes(env, y, x)
    <3>1. \A q \in S : Precedes(env, y, q)
      BY <2>1, <2>4
    <3> QED BY <3>1, <2>2, <1>6 DEF First
  <2>5. CASE Precedes(env, x, y)
    <3>1. ASSUME NEW q \in S PROVE Precedes(env, x, q)
      <4>1. CASE q = x
        BY <4>1, <1>10, PrecedesOrder
      <4>2. CASE q # x
        <5>1. Precedes(env, y, q)
          BY <4>2, <2>1
        <5>2. q \in Ids(env)
          BY <1>10
        <5> QED BY <5>1, <5>2, <2>2, <2>5, <1>10, PrecedesOrder
      <4> QED BY <4>1, <4>2
    <3> QED BY <3>1, <1>6, <1>7 DEF First
  <2> QED BY <2>3, <2>4, <2>5
<1> QED BY <1>11, <1>12

LEMMA SuccessorStored ==
  ASSUME NEW env, IsEnvelope(env), NEW rest \in SUBSET Ids(env)
  PROVE  Successor(env, rest) \in IF rest = {} THEN {NoProject} ELSE rest
<1>1. CASE rest = {}
  BY <1>1 DEF Successor
<1>2. CASE rest # {}
  <2>1. \E p \in rest : \A q \in rest : Precedes(env, p, q)
    BY <1>2, FirstExists DEF First
  <2> QED BY <1>2, <2>1 DEF Successor
<1> QED BY <1>1, <1>2

-----------------------------------------------------------------------------
(* Build maps a good envelope to a good envelope.                          *)

LEMMA ReplaceTyped ==
  ASSUME NEW env, IsEnvelope(env), NEW id \in ProjectIds, NEW project \in Project
  PROVE  LET after == ReplaceProject(env, id, project)
         IN  /\ IsEnvelope(after)
             /\ Ids(after) = Ids(env) \cup {id}
             /\ after.active = env.active
             /\ after.projects[id] = project
             /\ \A p \in Ids(env) : p # id => after.projects[p] = env.projects[p]
<1> DEFINE after == ReplaceProject(env, id, project)
           stored == [p \in Ids(env) \cup {id} |->
                        IF p = id THEN project ELSE env.projects[p]]
<1>1. after = [projects |-> stored, active |-> env.active]
  BY ProjectTyped DEF ReplaceProject
<1>2. stored \in [Ids(env) \cup {id} -> Project]
  BY ProjectTyped
<1>3. Ids(env) \cup {id} \in SUBSET ProjectIds /\ env.active \in ProjectIds \cup {NoProject}
  BY ProjectTyped
<1>4. IsEnvelope(after)
  BY <1>1, <1>2, <1>3 DEF IsEnvelope
<1> QED BY <1>1, <1>4 DEF Ids

\* An update of a stored project that keeps names unique keeps all of it.
LEMMA UpdateOK ==
  ASSUME NEW env, IsEnvelope(env), EnvelopeOK(env),
         NEW id \in Ids(env), NEW project \in Project,
         ~ NameTaken(env, project.name, {id}),
         project.name = DocName[project.doc],
         project.enabled \subseteq DocGroups[project.doc]
  PROVE  /\ IsEnvelope(ReplaceProject(env, id, project))
         /\ EnvelopeOK(ReplaceProject(env, id, project))
<1> DEFINE after == ReplaceProject(env, id, project)
<1>0. id \in ProjectIds
  BY ProjectTyped
<1>1. /\ IsEnvelope(after)
      /\ Ids(after) = Ids(env)
      /\ after.active = env.active
      /\ after.projects[id] = project
      /\ \A p \in Ids(env) : p # id => after.projects[p] = env.projects[p]
  <2>1. /\ IsEnvelope(after)
        /\ Ids(after) = Ids(env) \cup {id}
        /\ after.active = env.active
        /\ after.projects[id] = project
        /\ \A p \in Ids(env) : p # id => after.projects[p] = env.projects[p]
    BY <1>0, ReplaceTyped
  <2> HIDE DEF after
  <2>2. Ids(env) \cup {id} = Ids(env)
    OBVIOUS
  <2> QED BY <2>1, <2>2
<1> HIDE DEF after
<1>2. UniqueNames(after)
  BY <1>1 DEF UniqueNames, EnvelopeOK, NameTaken
<1>3. WithinLimit(after) /\ OneActive(after) /\ DataAgrees(after)
  BY <1>1 DEF WithinLimit, OneActive, DataAgrees, EnvelopeOK
<1> QED BY <1>1, <1>2, <1>3 DEF EnvelopeOK, after

\* An update that leaves the name and the document alone is one of those.
LEMMA PatchOK ==
  ASSUME NEW env, IsEnvelope(env), EnvelopeOK(env),
         NEW id \in Ids(env), NEW project \in Project,
         project.name = env.projects[id].name,
         project.doc = env.projects[id].doc,
         project.enabled \subseteq DocGroups[project.doc]
  PROVE  /\ IsEnvelope(ReplaceProject(env, id, project))
         /\ EnvelopeOK(ReplaceProject(env, id, project))
<1>1. ~ NameTaken(env, project.name, {id})
  BY DEF NameTaken, EnvelopeOK, UniqueNames
<1>2. project.name = DocName[project.doc]
  BY DEF EnvelopeOK, DataAgrees
<1> QED BY <1>1, <1>2, UpdateOK

Good(mutation) == mutation.kind = "commit" =>
                    IsEnvelope(mutation.next) /\ EnvelopeOK(mutation.next)

LEMMA CreateGood ==
  ASSUME NEW env, IsEnvelope(env), EnvelopeOK(env),
         NEW id \in ProjectIds, NEW doc \in AnyDoc, NEW stamp \in Stamps
  PROVE  Good(BuildCreate(env, id, doc, stamp))
<1> DEFINE fresh == [name |-> DocName[doc], doc |-> doc, revision |-> 1,
                     updatedAt |-> stamp, enabled |-> {}, root |-> NoRoot]
           grown == ReplaceProject(env, id, fresh)
           after == IF Ids(env) = {} THEN [grown EXCEPT !.active = id] ELSE grown
<1>1. SUFFICES ASSUME doc # InvalidDoc,
                      ~ NameTaken(env, DocName[doc], {}),
                      ~ (Cardinality(Ids(env)) >= MaxProjects),
                      ~ Has(env, id)
               PROVE  IsEnvelope(after) /\ EnvelopeOK(after)
  BY DEF Good, BuildCreate, Commit, Failure
<1>2. fresh \in Project
  BY <1>1, EnvelopeAssumption DEF Project, AnyDoc
<1>3. /\ IsEnvelope(grown)
      /\ Ids(grown) = Ids(env) \cup {id}
      /\ grown.active = env.active
      /\ grown.projects[id] = fresh
      /\ \A p \in Ids(env) : p # id => grown.projects[p] = env.projects[p]
  <2> HIDE DEF fresh
  <2> QED BY <1>2, ReplaceTyped
<1>4. fresh.name = DocName[doc] /\ fresh.doc = doc /\ fresh.enabled = {}
  OBVIOUS
<1> HIDE DEF fresh, grown
<1>5. /\ IsEnvelope(after)
      /\ Ids(after) = Ids(env) \cup {id}
      /\ after.active = IF Ids(env) = {} THEN id ELSE env.active
      /\ after.projects = grown.projects
  <2>1. grown = [projects |-> grown.projects, active |-> grown.active]
    BY <1>3, ProjectTyped
  <2> QED BY <1>3, <2>1 DEF IsEnvelope, Ids
<1> HIDE DEF after
<1>6. UniqueNames(after)
  BY <1>1, <1>3, <1>4, <1>5 DEF UniqueNames, EnvelopeOK, NameTaken, Has
<1>7. WithinLimit(after)
  <2>1. IsFiniteSet(Ids(env))
    BY ProjectTyped, EnvelopeAssumption, FS_Subset
  <2>2. Cardinality(Ids(env)) \in Nat /\ MaxProjects \in Nat
    BY <2>1, FS_CardinalityType, EnvelopeAssumption
  <2>3. Cardinality(Ids(env) \cup {id}) = Cardinality(Ids(env)) + 1
    BY <2>1, <1>1, FS_AddElement DEF Has
  <2> QED BY <1>1, <1>5, <2>2, <2>3 DEF WithinLimit
<1>8. OneActive(after)
  BY <1>5 DEF OneActive, EnvelopeOK
<1>9. DataAgrees(after)
  BY <1>1, <1>3, <1>4, <1>5 DEF DataAgrees, EnvelopeOK, Has
<1> QED BY <1>5, <1>6, <1>7, <1>8, <1>9 DEF EnvelopeOK

\* What an update writes over a stored project.
LEMMA UpdatedRecord ==
  ASSUME NEW existing \in Project, NEW doc \in Docs, NEW stamp \in Stamps
  PROVE  /\ Updated(existing, doc, stamp) \in Project
         /\ Updated(existing, doc, stamp).name = DocName[doc]
         /\ Updated(existing, doc, stamp).doc = doc
         /\ Updated(existing, doc, stamp).enabled = {}
         /\ Updated(existing, doc, stamp).revision = existing.revision + 1
<1>1. /\ DocName[doc] \in Names
      /\ existing.revision + 1 \in Nat \ {0}
  BY EnvelopeAssumption DEF Project
<1> QED BY <1>1 DEF Project, Updated

LEMMA UpdateGood ==
  ASSUME NEW env, IsEnvelope(env), EnvelopeOK(env), NEW id \in Ids(env),
         NEW doc \in AnyDoc, NEW expected, NEW stamp \in Stamps
  PROVE  Good(BuildUpdate(env, id, doc, expected, stamp))
<1> DEFINE existing == env.projects[id]
           project == Updated(existing, doc, stamp)
<1>1. SUFFICES ASSUME doc # InvalidDoc,
                      ~ (DocName[doc] # existing.name /\ NameTaken(env, DocName[doc], {id}))
               PROVE  /\ IsEnvelope(ReplaceProject(env, id, project))
                      /\ EnvelopeOK(ReplaceProject(env, id, project))
  BY DEF Good, BuildUpdate, Commit, Failure, Conflict
<1>2. existing \in Project /\ doc \in Docs
  BY <1>1, ProjectTyped DEF AnyDoc
<1>4. /\ project \in Project
      /\ project.name = DocName[doc]
      /\ project.doc = doc
      /\ project.enabled = {}
  BY <1>2, UpdatedRecord
<1>5. ~ NameTaken(env, project.name, {id})
  BY <1>1, <1>4 DEF NameTaken, EnvelopeOK, UniqueNames
<1> HIDE DEF project
<1> QED BY <1>4, <1>5, UpdateOK

LEMMA ImportGood ==
  ASSUME NEW env, IsEnvelope(env), EnvelopeOK(env),
         NEW cmd \in ImportCommand, NEW stamp \in Stamps
  PROVE  Good(BuildImport(env, cmd, stamp))
<1> DEFINE matches == IF cmd.byId THEN {cmd.id} \cap Ids(env)
                      ELSE {p \in Ids(env) : env.projects[p].name = DocName[cmd.doc]}
           chosen == CHOOSE p \in matches : TRUE
<1>1. cmd.id \in ProjectIds /\ cmd.doc \in AnyDoc
  BY DEF ImportCommand
<1>2. CASE cmd.doc = InvalidDoc
  BY <1>2 DEF Good, BuildImport, Failure
<1>3. CASE cmd.doc # InvalidDoc /\ matches = {}
  BY <1>1, <1>3, CreateGood DEF BuildImport
<1>4. CASE cmd.doc # InvalidDoc /\ matches # {}
  <2>1. chosen \in Ids(env)
    BY <1>4
  <2>2. BuildImport(env, cmd, stamp)
          = BuildUpdate(env, chosen, cmd.doc, cmd.expected, stamp)
    BY <1>4 DEF BuildImport
  <2> HIDE DEF chosen
  <2> QED BY <1>1, <2>1, <2>2, UpdateGood
<1> QED BY <1>2, <1>3, <1>4

LEMMA SwitchGood ==
  ASSUME NEW env, IsEnvelope(env), EnvelopeOK(env), NEW id \in ProjectIds
  PROVE  Good(BuildSwitch(env, id))
<1> DEFINE after == [env EXCEPT !.active = id]
<1>1. SUFFICES ASSUME Has(env, id)
               PROVE  IsEnvelope(after) /\ EnvelopeOK(after)
  BY DEF Good, BuildSwitch, Commit, Failure
<1>2. after = [projects |-> env.projects, active |-> id]
  BY ProjectTyped
<1>3. IsEnvelope(after)
  BY <1>2 DEF IsEnvelope
<1>4. Ids(after) = Ids(env) /\ after.projects = env.projects /\ after.active = id
  BY <1>2 DEF Ids
<1> HIDE DEF after
<1> QED BY <1>1, <1>3, <1>4
        DEF EnvelopeOK, UniqueNames, WithinLimit, OneActive, DataAgrees, Has

LEMMA RemoveGood ==
  ASSUME NEW env, IsEnvelope(env), EnvelopeOK(env), NEW id \in ProjectIds
  PROVE  Good(BuildRemove(env, id))
<1> DEFINE rest == Ids(env) \ {id}
           active == IF env.active = id THEN Successor(env, rest) ELSE env.active
           after == [projects |-> [p \in rest |-> env.projects[p]], active |-> active]
<1>1. SUFFICES ASSUME Has(env, id)
               PROVE  IsEnvelope(after) /\ EnvelopeOK(after)
  BY DEF Good, BuildRemove, Commit, Failure
<1>2. rest \in SUBSET Ids(env)
  OBVIOUS
<1>3. active \in IF rest = {} THEN {NoProject} ELSE rest
  <2>1. CASE env.active = id
    BY <1>2, <2>1, SuccessorStored
  <2>2. CASE env.active # id
    <3>1. env.active \in Ids(env)
      BY <1>1 DEF EnvelopeOK, OneActive, Has
    <3> QED BY <2>2, <3>1
  <2> QED BY <2>1, <2>2
<1> HIDE DEF active
<1>4. IsEnvelope(after)
  <2>1. rest \in SUBSET ProjectIds /\ [p \in rest |-> env.projects[p]] \in [rest -> Project]
    BY ProjectTyped
  <2>2. active \in ProjectIds \cup {NoProject}
    BY <1>3, <2>1
  <2> QED BY <2>1, <2>2 DEF IsEnvelope
<1>5. /\ Ids(after) = rest /\ after.active = active
      /\ \A p \in rest : after.projects[p] = env.projects[p]
  BY DEF Ids
<1> HIDE DEF after
<1>6. WithinLimit(after)
  <2>1. IsFiniteSet(Ids(env))
    BY ProjectTyped, EnvelopeAssumption, FS_Subset
  <2>2. Cardinality(Ids(env)) \in Nat /\ Cardinality(rest) \in Nat
    BY <2>1, <1>2, FS_Subset, FS_CardinalityType
  <2>3. Cardinality(rest) <= Cardinality(Ids(env))
    BY <2>1, <1>2, FS_Subset
  <2> QED BY <1>5, <2>2, <2>3, EnvelopeAssumption DEF WithinLimit, EnvelopeOK
<1>7. OneActive(after)
  BY <1>3, <1>5 DEF OneActive
<1>8. UniqueNames(after) /\ DataAgrees(after)
  BY <1>5 DEF UniqueNames, DataAgrees, EnvelopeOK
<1> QED BY <1>4, <1>6, <1>7, <1>8 DEF EnvelopeOK

\* What a toggle or a root change writes over a stored project.
LEMMA PatchedRecord ==
  ASSUME NEW existing \in Project, NEW stamp \in Stamps,
         NEW enabled \in SUBSET Groups, NEW root \in Roots \cup {NoRoot}
  PROVE  /\ LET project == [existing EXCEPT !.enabled = enabled, !.revision = @ + 1,
                                            !.updatedAt = stamp]
            IN  /\ project \in Project /\ project.name = existing.name
                /\ project.doc = existing.doc /\ project.enabled = enabled
                /\ project.revision = existing.revision + 1
         /\ LET project == [existing EXCEPT !.root = root, !.revision = @ + 1,
                                            !.updatedAt = stamp]
            IN  /\ project \in Project /\ project.name = existing.name
                /\ project.doc = existing.doc /\ project.enabled = existing.enabled
                /\ project.revision = existing.revision + 1
<1>1. existing.revision + 1 \in Nat \ {0}
  BY DEF Project
<1> QED BY <1>1 DEF Project

LEMMA EnableGood ==
  ASSUME NEW env, IsEnvelope(env), EnvelopeOK(env),
         NEW cmd \in EnableCommand, NEW stamp \in Stamps
  PROVE  Good(BuildEnable(env, cmd, stamp))
<1> DEFINE existing == env.projects[cmd.id]
           enabled == IF cmd.on THEN existing.enabled \cup {cmd.group}
                      ELSE existing.enabled \ {cmd.group}
           project == [existing EXCEPT !.enabled = enabled,
                                       !.revision = @ + 1, !.updatedAt = stamp]
<1>1. SUFFICES ASSUME Has(env, cmd.id), cmd.group \in DocGroups[existing.doc]
               PROVE  /\ IsEnvelope(ReplaceProject(env, cmd.id, project))
                      /\ EnvelopeOK(ReplaceProject(env, cmd.id, project))
  BY DEF Good, BuildEnable, Commit, Failure
<1>2. existing \in Project /\ cmd.id \in Ids(env) /\ cmd.group \in Groups
  BY <1>1, ProjectTyped DEF Has, EnableCommand
<1>3. existing.enabled \subseteq DocGroups[existing.doc]
  BY <1>2 DEF EnvelopeOK, DataAgrees
<1>4. enabled \subseteq DocGroups[existing.doc] /\ enabled \in SUBSET Groups
  BY <1>1, <1>2, <1>3 DEF Project
<1> HIDE DEF enabled
<1>5. /\ project \in Project
      /\ project.name = existing.name
      /\ project.doc = existing.doc
      /\ project.enabled = enabled
  BY <1>2, <1>4, PatchedRecord DEF Project
<1> HIDE DEF project
<1> QED BY <1>2, <1>4, <1>5, PatchOK

LEMMA RootGood ==
  ASSUME NEW env, IsEnvelope(env), EnvelopeOK(env),
         NEW cmd \in RootCommand, NEW stamp \in Stamps
  PROVE  Good(BuildRoot(env, cmd, stamp))
<1> DEFINE existing == env.projects[cmd.id]
           project == [existing EXCEPT !.root = cmd.root,
                                       !.revision = @ + 1, !.updatedAt = stamp]
<1>1. SUFFICES ASSUME Has(env, cmd.id), cmd.root # RelativeRoot
               PROVE  /\ IsEnvelope(ReplaceProject(env, cmd.id, project))
                      /\ EnvelopeOK(ReplaceProject(env, cmd.id, project))
  BY DEF Good, BuildRoot, Commit, Failure
<1>2. existing \in Project /\ cmd.id \in Ids(env) /\ cmd.root \in Roots \cup {NoRoot}
  BY <1>1, ProjectTyped DEF Has, RootCommand
<1>3. /\ project \in Project
      /\ project.name = existing.name
      /\ project.doc = existing.doc
      /\ project.enabled = existing.enabled
  BY <1>2, PatchedRecord DEF Project
<1>4. existing.enabled \subseteq DocGroups[existing.doc]
  BY <1>2 DEF EnvelopeOK, DataAgrees
<1> HIDE DEF project
<1> QED BY <1>2, <1>3, <1>4, PatchOK

LEMMA SaveGood ==
  ASSUME NEW env, IsEnvelope(env), EnvelopeOK(env),
         NEW cmd \in SaveCommand, NEW stamp \in Stamps
  PROVE  Good(BuildSave(env, cmd, stamp))
<1>1. CASE ~ Has(env, cmd.id) \/ env.projects[cmd.id].revision # cmd.expected
  BY <1>1 DEF Good, BuildSave, Failure, Conflict
<1>2. CASE Has(env, cmd.id) /\ env.projects[cmd.id].revision = cmd.expected
  <2>1. BuildSave(env, cmd, stamp)
          = BuildUpdate(env, cmd.id, cmd.doc, cmd.expected, stamp)
    BY <1>2 DEF BuildSave
  <2>2. cmd.id \in Ids(env) /\ cmd.doc \in AnyDoc
    BY <1>2 DEF Has, SaveCommand
  <2> QED BY <2>1, <2>2, UpdateGood
<1> QED BY <1>1, <1>2

\* Every command maps a good envelope to a good one.
LEMMA BuildGood ==
  ASSUME NEW env, IsEnvelope(env), EnvelopeOK(env),
         NEW cmd \in Command, NEW stamp \in Stamps
  PROVE  Good(Build(cmd, env, stamp))
<1>1. CASE cmd \in CreateCommand
  <2>1. Build(cmd, env, stamp) = BuildCreate(env, cmd.id, cmd.doc, stamp)
    BY <1>1 DEF Build, CreateCommand
  <2> QED BY <1>1, <2>1, CreateGood DEF CreateCommand
<1>2. CASE cmd \in ImportCommand
  <2>1. Build(cmd, env, stamp) = BuildImport(env, cmd, stamp)
    BY <1>2 DEF Build, ImportCommand
  <2> QED BY <1>2, <2>1, ImportGood
<1>3. CASE cmd \in SaveCommand
  <2>1. Build(cmd, env, stamp) = BuildSave(env, cmd, stamp)
    BY <1>3 DEF Build, SaveCommand
  <2> QED BY <1>3, <2>1, SaveGood
<1>4. CASE cmd \in SwitchCommand
  <2>1. Build(cmd, env, stamp) = BuildSwitch(env, cmd.id)
    BY <1>4 DEF Build, SwitchCommand
  <2> QED BY <1>4, <2>1, SwitchGood DEF SwitchCommand
<1>5. CASE cmd \in RemoveCommand
  <2>1. Build(cmd, env, stamp) = BuildRemove(env, cmd.id)
    BY <1>5 DEF Build, RemoveCommand
  <2> QED BY <1>5, <2>1, RemoveGood DEF RemoveCommand
<1>6. CASE cmd \in EnableCommand
  <2>1. Build(cmd, env, stamp) = BuildEnable(env, cmd, stamp)
    BY <1>6 DEF Build, EnableCommand
  <2> QED BY <1>6, <2>1, EnableGood
<1>7. CASE cmd \in RootCommand
  <2>1. Build(cmd, env, stamp) = BuildRoot(env, cmd, stamp)
    BY <1>7 DEF Build, RootCommand
  <2> QED BY <1>7, <2>1, RootGood
<1> QED BY <1>1, <1>2, <1>3, <1>4, <1>5, <1>6, <1>7 DEF Command

\* A mutation commits, conflicts, or names the reason it fails, and only a
\* commit asks for another envelope.
LEMMA BuildKind ==
  ASSUME NEW env, NEW cmd \in Command, NEW stamp \in Stamps
  PROVE  LET mutation == Build(cmd, env, stamp)
         IN  /\ mutation.kind \in {"commit", "conflict"} \cup FailureCodes
             /\ mutation.kind = "commit" => mutation = Commit(mutation.next)
             /\ mutation.kind # "commit" => mutation.next = env
<1> DEFINE Shape(mutation) ==
             /\ mutation.kind \in {"commit", "conflict"} \cup FailureCodes
             /\ mutation.kind = "commit" => mutation = Commit(mutation.next)
             /\ mutation.kind # "commit" => mutation.next = env
<1>1. \A after : Shape(Commit(after))
  BY DEF Commit
<1>2. Shape(Conflict(env)) /\ \A code \in FailureCodes : Shape(Failure(env, code))
  BY DEF Conflict, Failure, FailureCodes
<1>3. \A id, doc : Shape(BuildCreate(env, id, doc, stamp))
  <2> HIDE DEF Shape
  <2> QED BY <1>1, <1>2 DEF BuildCreate, FailureCodes
<1>4. \A id, doc, expected : Shape(BuildUpdate(env, id, doc, expected, stamp))
  <2> HIDE DEF Shape
  <2> QED BY <1>1, <1>2 DEF BuildUpdate, FailureCodes
<1> HIDE DEF Shape
<1>5. Shape(BuildImport(env, cmd, stamp)) /\ Shape(BuildSave(env, cmd, stamp))
  BY <1>2, <1>3, <1>4 DEF BuildImport, BuildSave, FailureCodes
<1>6. Shape(BuildSwitch(env, cmd.id)) /\ Shape(BuildRemove(env, cmd.id))
  BY <1>1, <1>2 DEF BuildSwitch, BuildRemove, FailureCodes
<1>7. Shape(BuildEnable(env, cmd, stamp)) /\ Shape(BuildRoot(env, cmd, stamp))
  BY <1>1, <1>2 DEF BuildEnable, BuildRoot, FailureCodes
<1>8. cmd.op \in {"create", "import", "save", "switch", "remove", "enable", "root"}
  BY DEF Command, CreateCommand, ImportCommand, SaveCommand, SwitchCommand,
         RemoveCommand, EnableCommand, RootCommand
<1>9. Shape(Build(cmd, env, stamp))
  BY <1>3, <1>5, <1>6, <1>7, <1>8 DEF Build
<1> QED BY <1>9 DEF Shape

\* The envelope of a fresh profile is a good one.
LEMMA EmptyOK == IsEnvelope(EmptyEnvelope) /\ EnvelopeOK(EmptyEnvelope)
<1>1. /\ Ids(EmptyEnvelope) = {}
      /\ EmptyEnvelope.active = NoProject
  BY DEF EmptyEnvelope, Ids
<1>2. IsEnvelope(EmptyEnvelope)
  <2>1. [p \in {} |-> {}] \in [{} -> Project]
    OBVIOUS
  <2> QED BY <2>1 DEF EmptyEnvelope, IsEnvelope
<1>3. WithinLimit(EmptyEnvelope)
  BY <1>1, FS_EmptySet, EnvelopeAssumption DEF WithinLimit
<1> QED BY <1>1, <1>2, <1>3 DEF EnvelopeOK, UniqueNames, OneActive, DataAgrees

-----------------------------------------------------------------------------
(* What a committed mutation may do to the projects: a changed project has *)
(* the next revision, new content is disabled, and only a switch moves the *)
(* selection while its project is stored.                                  *)

Stepwise(env, after) ==
  \A p \in Ids(env) \cap Ids(after) :
    after.projects[p] # env.projects[p] =>
      after.projects[p].revision = env.projects[p].revision + 1

Disables(env, after) ==
  \A p \in Ids(after) :
    (p \notin Ids(env) \/ after.projects[p].doc # env.projects[p].doc)
      => after.projects[p].enabled = {}

Selects(env, after) == env.active \in Ids(after) => after.active = env.active

Lawful(env, after) == Stepwise(env, after) /\ Disables(env, after) /\ Selects(env, after)

\* Replacing one project by its next revision disturbs no other.
LEMMA ReplaceLawful ==
  ASSUME NEW env, IsEnvelope(env), NEW id \in ProjectIds, NEW project \in Project,
         id \in Ids(env) => project.revision = env.projects[id].revision + 1,
         \/ id \in Ids(env) /\ project.doc = env.projects[id].doc
         \/ project.enabled = {}
  PROVE  Lawful(env, ReplaceProject(env, id, project))
<1> DEFINE after == ReplaceProject(env, id, project)
<1>1. /\ after.projects[id] = project /\ after.active = env.active
      /\ Ids(after) = Ids(env) \cup {id}
      /\ \A p \in Ids(env) : p # id => after.projects[p] = env.projects[p]
  BY ReplaceTyped
<1> HIDE DEF after
<1>2. Stepwise(env, after)
  BY <1>1 DEF Stepwise
<1>3. Disables(env, after)
  BY <1>1 DEF Disables
<1> QED BY <1>1, <1>2, <1>3 DEF Lawful, Selects, after

LEMMA CreateLawful ==
  ASSUME NEW env, IsEnvelope(env), EnvelopeOK(env), NEW id \in ProjectIds,
         NEW doc \in AnyDoc, NEW stamp \in Stamps, NEW after,
         BuildCreate(env, id, doc, stamp) = Commit(after)
  PROVE  Lawful(env, after)
<1> DEFINE fresh == [name |-> DocName[doc], doc |-> doc, revision |-> 1,
                     updatedAt |-> stamp, enabled |-> {}, root |-> NoRoot]
           grown == ReplaceProject(env, id, fresh)
<1>1. /\ doc # InvalidDoc /\ ~ Has(env, id)
      /\ after = IF Ids(env) = {} THEN [grown EXCEPT !.active = id] ELSE grown
  BY DEF BuildCreate, Commit, Failure
<1>2. fresh \in Project /\ fresh.enabled = {}
  BY <1>1, EnvelopeAssumption DEF Project, AnyDoc
<1> HIDE DEF fresh
<1>3. IsEnvelope(grown) /\ Lawful(env, grown) /\ Ids(grown) = Ids(env) \cup {id}
  BY <1>1, <1>2, ReplaceLawful, ReplaceTyped DEF Has
<1> HIDE DEF grown
<1>4. after.projects = grown.projects /\ Ids(after) = Ids(grown)
  BY <1>1, <1>3, ProjectTyped DEF Ids
<1>5. Ids(env) = {} => env.active \notin Ids(after)
  BY <1>3, <1>4, EnvelopeAssumption DEF EnvelopeOK, OneActive
<1>6. Ids(env) # {} => after.active = grown.active
  BY <1>1
<1> QED BY <1>3, <1>4, <1>5, <1>6 DEF Lawful, Stepwise, Disables, Selects

LEMMA UpdateLawful ==
  ASSUME NEW env, IsEnvelope(env), NEW id \in Ids(env), NEW doc \in AnyDoc,
         NEW expected, NEW stamp \in Stamps, NEW after,
         BuildUpdate(env, id, doc, expected, stamp) = Commit(after)
  PROVE  Lawful(env, after)
<1> DEFINE existing == env.projects[id]
           project == Updated(existing, doc, stamp)
<1>1. doc # InvalidDoc /\ after = ReplaceProject(env, id, project)
  BY DEF BuildUpdate, Commit, Failure, Conflict
<1>2. existing \in Project /\ doc \in Docs /\ id \in ProjectIds
  BY <1>1, ProjectTyped DEF AnyDoc
<1>3. project \in Project /\ project.revision = existing.revision + 1
  BY <1>2, UpdatedRecord
<1>4. project.enabled = {}
  BY <1>2 DEF Updated, Project
<1> HIDE DEF project
<1> QED BY <1>1, <1>2, <1>3, <1>4, ReplaceLawful

LEMMA BuildLawful ==
  ASSUME NEW env, IsEnvelope(env), EnvelopeOK(env), NEW cmd \in Command,
         NEW stamp \in Stamps, NEW after, Build(cmd, env, stamp) = Commit(after)
  PROVE  /\ Stepwise(env, after) /\ Disables(env, after)
         /\ Selects(env, after) \/ cmd.op = "switch"
<1>1. CASE cmd \in CreateCommand
  BY <1>1, CreateLawful DEF Build, CreateCommand, Lawful
<1>2. CASE cmd \in ImportCommand
  <2> DEFINE matches == IF cmd.byId THEN {cmd.id} \cap Ids(env)
                        ELSE {p \in Ids(env) : env.projects[p].name = DocName[cmd.doc]}
             chosen == CHOOSE p \in matches : TRUE
  <2>1. cmd.id \in ProjectIds /\ cmd.doc \in AnyDoc
    BY <1>2 DEF ImportCommand
  <2>2. BuildImport(env, cmd, stamp) = Commit(after)
    BY <1>2 DEF Build, ImportCommand
  <2>3. \/ BuildCreate(env, cmd.id, cmd.doc, stamp) = Commit(after)
        \/ /\ matches # {}
           /\ BuildUpdate(env, chosen, cmd.doc, cmd.expected, stamp) = Commit(after)
    BY <2>2 DEF BuildImport, Commit, Failure
  <2>4. matches # {} => chosen \in Ids(env)
    OBVIOUS
  <2> HIDE DEF chosen, matches
  <2> QED BY <2>1, <2>3, <2>4, CreateLawful, UpdateLawful DEF Lawful
<1>3. CASE cmd \in SaveCommand
  <2>1. BuildSave(env, cmd, stamp) = Commit(after)
    BY <1>3 DEF Build, SaveCommand
  <2>2. /\ BuildUpdate(env, cmd.id, cmd.doc, cmd.expected, stamp) = Commit(after)
        /\ cmd.id \in Ids(env) /\ cmd.doc \in AnyDoc
    BY <1>3, <2>1 DEF BuildSave, Commit, Failure, Conflict, Has, SaveCommand
  <2> QED BY <2>2, UpdateLawful DEF Lawful
<1>4. CASE cmd \in SwitchCommand
  <2>1. after = [env EXCEPT !.active = cmd.id]
    BY <1>4 DEF Build, SwitchCommand, BuildSwitch, Commit, Failure
  <2>2. after.projects = env.projects
    BY <2>1, ProjectTyped
  <2> QED BY <1>4, <2>2 DEF Stepwise, Disables, Ids, SwitchCommand
<1>5. CASE cmd \in RemoveCommand
  <2>1. /\ after.projects = [p \in Ids(env) \ {cmd.id} |-> env.projects[p]]
        /\ env.active # cmd.id => after.active = env.active
    BY <1>5 DEF Build, RemoveCommand, BuildRemove, Commit, Failure
  <2> QED BY <2>1 DEF Stepwise, Disables, Selects, Ids
<1>6. CASE cmd \in EnableCommand
  <2> DEFINE existing == env.projects[cmd.id]
             enabled == IF cmd.on THEN existing.enabled \cup {cmd.group}
                        ELSE existing.enabled \ {cmd.group}
             project == [existing EXCEPT !.enabled = enabled,
                                         !.revision = @ + 1, !.updatedAt = stamp]
  <2>1. /\ Has(env, cmd.id)
        /\ after = ReplaceProject(env, cmd.id, project)
    BY <1>6 DEF Build, EnableCommand, BuildEnable, Commit, Failure
  <2>2. /\ existing \in Project /\ cmd.id \in Ids(env) /\ cmd.id \in ProjectIds
        /\ cmd.group \in Groups
    BY <1>6, <2>1, ProjectTyped DEF Has, EnableCommand
  <2>3. enabled \in SUBSET Groups
    BY <2>2 DEF Project
  <2> HIDE DEF enabled
  <2>4. /\ project \in Project /\ project.revision = existing.revision + 1
        /\ project.doc = existing.doc
    BY <2>2, <2>3, PatchedRecord DEF Project
  <2> HIDE DEF project
  <2> QED BY <2>1, <2>2, <2>4, ReplaceLawful DEF Lawful
<1>7. CASE cmd \in RootCommand
  <2> DEFINE existing == env.projects[cmd.id]
             project == [existing EXCEPT !.root = cmd.root,
                                         !.revision = @ + 1, !.updatedAt = stamp]
  <2>1. /\ Has(env, cmd.id) /\ cmd.root # RelativeRoot
        /\ after = ReplaceProject(env, cmd.id, project)
    BY <1>7 DEF Build, RootCommand, BuildRoot, Commit, Failure
  <2>2. /\ existing \in Project /\ cmd.id \in Ids(env) /\ cmd.id \in ProjectIds
        /\ cmd.root \in Roots \cup {NoRoot}
    BY <1>7, <2>1, ProjectTyped DEF Has, RootCommand
  <2>3. /\ project \in Project /\ project.revision = existing.revision + 1
        /\ project.doc = existing.doc
    BY <2>2, PatchedRecord DEF Project
  <2> HIDE DEF project
  <2> QED BY <2>1, <2>2, <2>3, ReplaceLawful DEF Lawful
<1> QED BY <1>1, <1>2, <1>3, <1>4, <1>5, <1>6, <1>7 DEF Command
=============================================================================
