--------------------------- MODULE ProjectEnvelope ---------------------------
(***************************************************************************)
(* The stored envelope of @rogatio/browser-core and the pure builders of   *)
(* ProjectRepository: each operation of the repository maps the envelope   *)
(* it read to a mutation, which either commits a next envelope, reports a  *)
(* conflict, or fails without a change.                                    *)
(*                                                                         *)
(* A project's data is abstracted to a document (a member of Docs) with a  *)
(* name and a set of group ids; everything else in the data is opaque to   *)
(* the repository.  A document that fails validation is InvalidDoc.        *)
(***************************************************************************)
EXTENDS Integers, FiniteSets

CONSTANTS
  ProjectIds,    \* project ids; naturals, because removal breaks ties by id
  Docs,          \* documents that pass validateProjectDetailed
  InvalidDoc,    \* stands for every document that does not
  Names,         \* project names
  Groups,        \* group ids
  DocName,       \* DocName[d] is the name inside document d
  DocGroups,     \* DocGroups[d] is the set of group ids document d declares
  Roots,         \* absolute mock file roots
  NoRoot,        \* the mock file root is not set
  RelativeRoot,  \* stands for every root the repository refuses
  Stamps,        \* values Date.now() may return, in any order
  NoRevision,    \* an import that carries no expectedRevision
  NoProject,     \* activeProjectId is null
  MaxProjects    \* MAX_PROJECTS (64 in the code)

ASSUME EnvelopeAssumption ==
  /\ ProjectIds \subseteq Nat /\ IsFiniteSet(ProjectIds)
  /\ DocName \in [Docs -> Names]
  /\ DocGroups \in [Docs -> SUBSET Groups]
  /\ InvalidDoc \notin Docs
  /\ NoRoot \notin Roots
  /\ RelativeRoot \notin Roots \cup {NoRoot}
  /\ Stamps \subseteq Nat
  /\ NoRevision \notin Nat
  /\ NoProject \notin ProjectIds
  /\ MaxProjects \in Nat \ {0}

Project == [name: Names, doc: Docs, revision: Nat \ {0}, updatedAt: Stamps,
            enabled: SUBSET Groups, root: Roots \cup {NoRoot}]

IsEnvelope(env) ==
  \E S \in SUBSET ProjectIds :
    env \in [projects: [S -> Project], active: ProjectIds \cup {NoProject}]

EmptyEnvelope == [projects |-> [p \in {} |-> {}], active |-> NoProject]

-----------------------------------------------------------------------------
(* Commands: what a service-worker handler asks of the repository.         *)

AnyDoc == Docs \cup {InvalidDoc}
Revisions == Nat \ {0}

CreateCommand == [op: {"create"}, id: ProjectIds, doc: AnyDoc]
ImportCommand == [op: {"import"}, byId: BOOLEAN, id: ProjectIds, doc: AnyDoc,
                  expected: Revisions \cup {NoRevision}]
SaveCommand   == [op: {"save"}, id: ProjectIds, doc: AnyDoc,
                  expected: Revisions]
SwitchCommand == [op: {"switch"}, id: ProjectIds]
RemoveCommand == [op: {"remove"}, id: ProjectIds]
EnableCommand == [op: {"enable"}, id: ProjectIds, group: Groups, on: BOOLEAN]
RootCommand   == [op: {"root"}, id: ProjectIds,
                  root: Roots \cup {NoRoot, RelativeRoot}]

Command == CreateCommand \cup ImportCommand \cup SaveCommand
             \cup SwitchCommand \cup RemoveCommand \cup EnableCommand
             \cup RootCommand

-----------------------------------------------------------------------------
(* Mutations.                                                              *)

Commit(next)        == [kind |-> "commit",   next |-> next]
Conflict(env)       == [kind |-> "conflict", next |-> env]
Failure(env, code)  == [kind |-> code,       next |-> env]

FailureCodes == {"core.invariant", "core.not-found", "core.duplicate-name",
                 "core.duplicate-id", "core.project-limit"}

Ids(env)      == DOMAIN env.projects
Has(env, id)  == id \in Ids(env)

\* replaceProject: the project under id, new or not, becomes project.
ReplaceProject(env, id, project) ==
  [env EXCEPT !.projects = [p \in Ids(env) \cup {id} |->
                              IF p = id THEN project ELSE env.projects[p]]]

NameTaken(env, name, exceptIds) ==
  \E p \in Ids(env) \ exceptIds : env.projects[p].name = name

\* Mutants of BuildCreate: one project too many; the new project is selected.
BuildCreateBeyondLimit(env, id, doc, stamp) ==
  IF doc = InvalidDoc THEN Failure(env, "core.invariant")
  ELSE IF NameTaken(env, DocName[doc], {}) THEN Failure(env, "core.duplicate-name")
  ELSE IF Cardinality(Ids(env)) > MaxProjects THEN Failure(env, "core.project-limit")
  ELSE IF Has(env, id) THEN Failure(env, "core.duplicate-id")
  ELSE LET fresh == [name |-> DocName[doc], doc |-> doc, revision |-> 1,
                     updatedAt |-> stamp, enabled |-> {}, root |-> NoRoot]
           grown == ReplaceProject(env, id, fresh)
       IN  Commit(IF Ids(env) = {} THEN [grown EXCEPT !.active = id] ELSE grown)

BuildCreateSelecting(env, id, doc, stamp) ==
  LET built == BuildCreateBeyondLimit(env, id, doc, stamp)
  IN  IF built.kind = "commit" THEN Commit([built.next EXCEPT !.active = id])
      ELSE built

BuildCreate(env, id, doc, stamp) ==
  IF doc = InvalidDoc THEN Failure(env, "core.invariant")
  ELSE IF NameTaken(env, DocName[doc], {}) THEN Failure(env, "core.duplicate-name")
  ELSE IF Cardinality(Ids(env)) >= MaxProjects THEN Failure(env, "core.project-limit")
  ELSE IF Has(env, id) THEN Failure(env, "core.duplicate-id")
  ELSE LET fresh == [name |-> DocName[doc], doc |-> doc, revision |-> 1,
                     updatedAt |-> stamp, enabled |-> {}, root |-> NoRoot]
           next  == ReplaceProject(env, id, fresh)
       IN  Commit(IF Ids(env) = {} THEN [next EXCEPT !.active = id] ELSE next)

\* Mutant of Updated: the groups stay enabled.
UpdatedKeepingGroups(existing, doc, stamp) ==
  [existing EXCEPT !.name = DocName[doc], !.doc = doc, !.revision = @ + 1,
                   !.updatedAt = stamp]

\* New data in a stored project: the next revision, every group disabled.
Updated(existing, doc, stamp) ==
  [existing EXCEPT !.name = DocName[doc], !.doc = doc, !.revision = @ + 1,
                   !.updatedAt = stamp, !.enabled = {}]

BuildUpdate(env, id, doc, expected, stamp) ==
  LET existing == env.projects[id]
  IN  IF expected # NoRevision /\ existing.revision # expected THEN Conflict(env)
      ELSE IF doc = InvalidDoc THEN Failure(env, "core.invariant")
      ELSE IF /\ DocName[doc] # existing.name
              /\ NameTaken(env, DocName[doc], {id})
           THEN Failure(env, "core.duplicate-name")
      ELSE Commit(ReplaceProject(env, id, Updated(existing, doc, stamp)))

\* importProject: by id when the caller gave one, else by name; create when
\* nothing matches (an expected revision is then not looked at).
BuildImport(env, cmd, stamp) ==
  IF cmd.doc = InvalidDoc THEN Failure(env, "core.invariant")
  ELSE LET matches == IF cmd.byId THEN {cmd.id} \cap Ids(env)
                      ELSE {p \in Ids(env) : env.projects[p].name = DocName[cmd.doc]}
       IN  IF matches = {} THEN BuildCreate(env, cmd.id, cmd.doc, stamp)
           ELSE BuildUpdate(env, CHOOSE p \in matches : TRUE, cmd.doc,
                            cmd.expected, stamp)

\* Mutant of BuildSave: any revision will do.
BuildSaveAnyRevision(env, cmd, stamp) ==
  IF ~Has(env, cmd.id) THEN Failure(env, "core.not-found")
  ELSE BuildUpdate(env, cmd.id, cmd.doc, NoRevision, stamp)

\* saveProject: the revision the page loaded must still be the stored one.
BuildSave(env, cmd, stamp) ==
  IF ~Has(env, cmd.id) THEN Failure(env, "core.not-found")
  ELSE IF env.projects[cmd.id].revision # cmd.expected THEN Conflict(env)
  ELSE BuildUpdate(env, cmd.id, cmd.doc, cmd.expected, stamp)

BuildSwitch(env, id) ==
  IF ~Has(env, id) THEN Failure(env, "core.not-found")
  ELSE Commit([env EXCEPT !.active = id])

\* The successor of a removed active project: the most recently updated one,
\* the smallest id among equals.
Precedes(env, p, q) ==
  \/ env.projects[p].updatedAt > env.projects[q].updatedAt
  \/ /\ env.projects[p].updatedAt = env.projects[q].updatedAt
     /\ p <= q

Successor(env, rest) ==
  IF rest = {} THEN NoProject
  ELSE CHOOSE p \in rest : \A q \in rest : Precedes(env, p, q)

BuildRemove(env, id) ==
  IF ~Has(env, id) THEN Failure(env, "core.not-found")
  ELSE LET rest == Ids(env) \ {id}
       IN  Commit([projects |-> [p \in rest |-> env.projects[p]],
                   active   |-> IF env.active = id THEN Successor(env, rest)
                                ELSE env.active])

BuildEnable(env, cmd, stamp) ==
  IF ~Has(env, cmd.id) THEN Failure(env, "core.not-found")
  ELSE LET existing == env.projects[cmd.id]
       IN  IF cmd.group \notin DocGroups[existing.doc]
           THEN Failure(env, "core.not-found")
           ELSE Commit(ReplaceProject(env, cmd.id,
                  [existing EXCEPT
                     !.enabled = IF cmd.on THEN @ \cup {cmd.group}
                                 ELSE @ \ {cmd.group},
                     !.revision = @ + 1, !.updatedAt = stamp]))

BuildRoot(env, cmd, stamp) ==
  IF cmd.root = RelativeRoot THEN Failure(env, "core.invariant")
  ELSE IF ~Has(env, cmd.id) THEN Failure(env, "core.not-found")
  ELSE Commit(ReplaceProject(env, cmd.id,
         [env.projects[cmd.id] EXCEPT !.root = cmd.root,
                                      !.revision = @ + 1, !.updatedAt = stamp]))

Build(cmd, env, stamp) ==
  CASE cmd.op = "create" -> BuildCreate(env, cmd.id, cmd.doc, stamp)
    [] cmd.op = "import" -> BuildImport(env, cmd, stamp)
    [] cmd.op = "save"   -> BuildSave(env, cmd, stamp)
    [] cmd.op = "switch" -> BuildSwitch(env, cmd.id)
    [] cmd.op = "remove" -> BuildRemove(env, cmd.id)
    [] cmd.op = "enable" -> BuildEnable(env, cmd, stamp)
    [] cmd.op = "root"   -> BuildRoot(env, cmd, stamp)

-----------------------------------------------------------------------------
(* What every committed envelope promises.                                 *)

\* No two projects share a name.
UniqueNames(env) ==
  \A p, q \in Ids(env) : env.projects[p].name = env.projects[q].name => p = q

\* At most MaxProjects projects are stored.
WithinLimit(env) == Cardinality(Ids(env)) <= MaxProjects

\* Exactly one stored project is active whenever there is one.
OneActive(env) == IF Ids(env) = {} THEN env.active = NoProject
                  ELSE env.active \in Ids(env)

\* The name beside the data is the data's own, and only groups the data
\* declares are enabled.
DataAgrees(env) ==
  \A p \in Ids(env) :
    /\ env.projects[p].name = DocName[env.projects[p].doc]
    /\ env.projects[p].enabled \subseteq DocGroups[env.projects[p].doc]

EnvelopeOK(env) == UniqueNames(env) /\ WithinLimit(env) /\ OneActive(env)
                     /\ DataAgrees(env)
=============================================================================
