------------------------- MODULE WorkspacePageProofs -------------------------
(***************************************************************************)
(* Theorems about WorkspacePage, for any number of pages, of async         *)
(* functions under way on each, of projects and of documents.              *)
(***************************************************************************)
EXTENDS WorkspacePage, ProjectEnvelopeProofs

-----------------------------------------------------------------------------
(* The inductive invariants.                                               *)

\* Whatever envelope is stored, shown or on its way was good when committed.
EnvelopesGood ==
  /\ EnvelopeOK(store)
  /\ \A pg \in Pages :
       /\ EnvelopeOK(view[pg])
       /\ \A t \in Tasks[pg] : task[pg][t].pc = "got" => EnvelopeOK(task[pg][t].envelope)

\* An editor that does not show the active project is replaced by a refresh that
\* waits for the AI check: one that saw the project change, or remounts anyway.
ShowsOrWillShow ==
  \A pg \in Pages : Editing(pg) =>
    \/ mounted[pg].project = view[pg].active
    \/ \E t \in Tasks[pg] : /\ task[pg][t].pc = "checking"
                            /\ task[pg][t].moved \/ ~ task[pg][t].soft

PageInv == TypeOK /\ EnvelopesGood /\ ShowsOrWillShow

\* What follows for the pages that never patch a refresh in: there is no AI check
\* to wait for, and no Enable button is used.
NoSoftPaint == Phases \subseteq {"stopped"} /\ \A pg \in Pages : "toggle" \notin Can[pg]

\* A revision names one document: that of the stored project, if it is the latest.
Dated(env, id, revision, doc) ==
  id \in Ids(env) => \/ revision < env.projects[id].revision
                     \/ /\ revision = env.projects[id].revision
                        /\ doc = env.projects[id].doc
Older(env, old) ==
  \A p \in Ids(old) : Dated(env, p, old.projects[p].revision, old.projects[p].doc)

\* Nothing is soft, what was received is an older store, and a save on its way
\* names the revision of the document its draft was made from.
Steady(env, k) ==
  /\ k.pc # "checking"
  /\ k.pc \in {"asked", "failed", "got"} => ~ k.soft
  /\ k.pc \in {"sent", "answered"} => k.kind # "toggle"
  /\ k.pc = "got" => Older(env, k.envelope)
  /\ k.pc = "sent" =>
       /\ k.cmd.op \in {"save", "switch", "remove"}
       /\ k.kind = "save" => /\ k.cmd.op = "save"
                             /\ Dated(env, k.cmd.id, k.cmd.expected, k.origin.base)

\* An editor was mounted with the document that the page holds for it.
SavingInv ==
  \A pg \in Pages :
    /\ Editing(pg) => /\ mounted[pg].project = view[pg].active
                      /\ mounted[pg].base = view[pg].projects[view[pg].active].doc
    /\ Older(store, view[pg])
    /\ \A t \in Tasks[pg] : Steady(store, task[pg][t])

-----------------------------------------------------------------------------
(* What one async function, and what a repaint, may disturb.               *)

TasksTyped ==
  /\ DOMAIN task = Pages
  /\ \A pg \in Pages : /\ DOMAIN task[pg] = Tasks[pg]
                       /\ \A t \in Tasks[pg] : TaskOK(task[pg][t])

MountedTyped ==
  /\ DOMAIN mounted = Pages
  /\ \A pg \in Pages : mounted[pg] \in Editor(pg) \cup {NoEditor}

LEMMA GoMoves ==
  ASSUME TasksTyped, NEW pg \in Pages, NEW t \in Tasks[pg], NEW k, Go(pg, t, k)
  PROVE  /\ DOMAIN task' = Pages
         /\ \A q \in Pages : DOMAIN task'[q] = Tasks[q]
         /\ task'[pg][t] = k
         /\ \A q \in Pages : \A u \in Tasks[q] : (q # pg \/ u # t) => task'[q][u] = task[q][u]
<1>1. task' = [task EXCEPT ![pg] = [task[pg] EXCEPT ![t] = k]]
  BY DEF Go
<1>2. DOMAIN task' = Pages /\ task'[pg] = [task[pg] EXCEPT ![t] = k]
      /\ \A q \in Pages : q # pg => task'[q] = task[q]
  BY <1>1 DEF TasksTyped
<1> QED BY <1>2 DEF TasksTyped

LEMMA GoTyped ==
  ASSUME TasksTyped, NEW pg \in Pages, NEW t \in Tasks[pg], NEW k, Go(pg, t, k), TaskOK(k)
  PROVE  TasksTyped'
BY GoMoves DEF TasksTyped, TaskOK

\* A good envelope is painted as it is.
LEMMA RenderShows ==
  ASSUME MountedTyped, NEW pg \in Pages, NEW env, IsEnvelope(env), EnvelopeOK(env),
         NoTask \notin Tasks[pg], Render(pg, env)
  PROVE  /\ MountedTyped'
         /\ \A q \in Pages : q # pg => mounted'[q] = mounted[q]
         /\ Editing(pg)' => /\ mounted'[pg].project = env.active
                            /\ mounted'[pg].base = env.projects[env.active].doc
<1> DEFINE doc == env.projects[env.active].doc
           editor == [project |-> env.active, base |-> doc, doc |-> doc, saving |-> NoTask]
<1>1. env.active # NoProject => env.active \in Ids(env)
  BY DEF EnvelopeOK, OneActive
<1>2. env.active # NoProject => /\ env.active \in ProjectIds
                                /\ doc \in Docs
  BY <1>1, ProjectTyped DEF Project
<1>3. mounted' = [mounted EXCEPT ![pg] = IF env.active = NoProject THEN NoEditor ELSE editor]
  BY DEF Render
<1>4. env.active # NoProject => editor \in Editor(pg)
  BY <1>2 DEF Editor
<1>5. editor.project = env.active /\ editor.base = doc
  OBVIOUS
<1> HIDE DEF editor
<1> QED BY <1>3, <1>4, <1>5 DEF MountedTyped, Editing

\* Steps of the user and of the worker leave what is shown alone, but for the
\* draft and its lock.
SameShown ==
  /\ view' = view
  /\ \A pg \in Pages : Editing(pg)' => /\ Editing(pg)
                                       /\ mounted'[pg].project = mounted[pg].project
                                       /\ mounted'[pg].base = mounted[pg].base

LEMMA SameShownShows ==
  ASSUME ShowsOrWillShow, TasksTyped, SameShown, NEW pg \in Pages, NEW t \in Tasks[pg], NEW k,
         Go(pg, t, k), task[pg][t].pc # "checking"
  PROVE  ShowsOrWillShow'
BY GoMoves DEF ShowsOrWillShow, SameShown

LEMMA EnvelopesStay ==
  ASSUME EnvelopesGood, TasksTyped, NEW pg \in Pages, NEW t \in Tasks[pg], NEW k,
         Go(pg, t, k), k.pc # "got" \/ EnvelopeOK(k.envelope),
         EnvelopeOK(store'), \A q \in Pages : EnvelopeOK(view'[q])
  PROVE  EnvelopesGood'
BY GoMoves DEF EnvelopesGood

LEMMA PageTypes ==
  TypeOK <=> /\ IsEnvelope(store)
             /\ DOMAIN view = Pages /\ \A pg \in Pages : IsEnvelope(view[pg])
             /\ ai \in [Pages -> BOOLEAN]
             /\ MountedTyped /\ TasksTyped
BY DEF TypeOK, MountedTyped, TasksTyped

\* The places of an async function that carry little.
LEMMA SmallTasks ==
  /\ TaskOK(Idle) /\ Idle.pc = "idle"
  /\ TaskOK([pc |-> "asked", soft |-> TRUE]) /\ TaskOK([pc |-> "asked", soft |-> FALSE])
  /\ \A kind \in Actions : TaskOK([pc |-> "answered", kind |-> kind, ok |-> FALSE])
BY DEF TaskOK, Idle

-----------------------------------------------------------------------------
(* The user, and the worker.                                               *)

LEMMA EditKeeps ==
  ASSUME PageInv, NEW pg \in Pages, Edit(pg)
  PROVE  PageInv'
<1> USE DEF PageInv
<1>1. PICK doc \in Docs : mounted' = [mounted EXCEPT ![pg].doc = doc]
  BY DEF Edit
<1>2. store' = store /\ view' = view /\ ai' = ai /\ task' = task /\ Editing(pg)
  BY DEF Edit
<1>3. mounted[pg] \in Editor(pg)
  BY <1>2, PageTypes DEF MountedTyped, Editing
<1>4. /\ [mounted[pg] EXCEPT !.doc = doc] \in Editor(pg)
      /\ [mounted[pg] EXCEPT !.doc = doc].project = mounted[pg].project
  BY <1>3 DEF Editor
<1>5. MountedTyped' /\ \A q \in Pages : Editing(q)' =>
                         Editing(q) /\ mounted'[q].project = mounted[q].project
  BY <1>1, <1>2, <1>4, PageTypes DEF MountedTyped, Editing
<1>6. TypeOK'
  BY <1>2, <1>5, PageTypes DEF TypeOK, MountedTyped, TasksTyped
<1>7. EnvelopesGood' /\ ShowsOrWillShow'
  BY <1>2, <1>5 DEF EnvelopesGood, ShowsOrWillShow
<1> QED BY <1>6, <1>7

\* A user action starts an async function with a message or a refresh.
LEMMA UserSends ==
  ASSUME PageInv, NEW pg \in Pages, NEW t \in Tasks[pg], User(pg, t)
  PROVE  /\ task[pg][t].pc = "idle"
         /\ store' = store /\ view' = view /\ ai' = ai
         /\ MountedTyped'
         /\ \E k : Go(pg, t, k) /\ TaskOK(k) /\ k.pc \in {"sent", "asked"}
         /\ SameShown
<1> USE DEF PageInv
<1>1. /\ task[pg][t].pc = "idle" /\ store' = store /\ view' = view /\ ai' = ai
  BY DEF User, Save, Toggle, Switch, Remove, Refresh, Free
<1>2. IsEnvelope(view[pg]) /\ EnvelopeOK(view[pg])
  BY DEF TypeOK, EnvelopesGood
<1>3. view[pg].active # NoProject => view[pg].active \in Ids(view[pg])
  BY <1>2 DEF EnvelopeOK, OneActive
<1>4. \A p \in Ids(view[pg]) : p \in ProjectIds /\ view[pg].projects[p] \in Project
  BY <1>2, ProjectTyped
<1>5. Editing(pg) => mounted[pg] \in Editor(pg)
  BY PageTypes DEF MountedTyped, Editing
<1>6. Editing(pg) => From(pg) \in Origin /\ mounted[pg].doc \in Docs /\ mounted[pg].base \in Docs
  BY <1>5 DEF Editor, From, Origin
<1>7. ASSUME Save(pg, t)
      PROVE  /\ \E k : Go(pg, t, k) /\ TaskOK(k) /\ k.pc \in {"sent", "asked"}
             /\ MountedTyped' /\ SameShown
  <2> DEFINE id == view[pg].active
             cmd == [op |-> "save", id |-> id, doc |-> mounted[pg].doc,
                     expected |-> view[pg].projects[id].revision]
  <2>1. Editing(pg) /\ id \in Ids(view[pg])
    BY <1>3, <1>7 DEF Save, Dirty
  <2>2. id \in ProjectIds /\ view[pg].projects[id].revision \in Revisions
    BY <1>4, <2>1 DEF Project, Revisions
  <2>3. cmd \in Command
    BY <1>6, <2>1, <2>2 DEF Command, SaveCommand, AnyDoc
  <2>4. Go(pg, t, Sent("save", cmd, From(pg)))
    BY <1>7 DEF Save
  <2>5. TaskOK(Sent("save", cmd, From(pg))) /\ Sent("save", cmd, From(pg)).pc = "sent"
    BY <1>6, <2>1, <2>3 DEF TaskOK, Sent, Actions
  <2>6. mounted' = [mounted EXCEPT ![pg].saving = t]
    BY <1>7 DEF Save
  <2>7. /\ [mounted[pg] EXCEPT !.saving = t] \in Editor(pg)
        /\ [mounted[pg] EXCEPT !.saving = t].project = mounted[pg].project
        /\ [mounted[pg] EXCEPT !.saving = t].base = mounted[pg].base
    BY <1>5, <2>1 DEF Editor
  <2>8. MountedTyped' /\ SameShown
    BY <1>1, <2>1, <2>6, <2>7, PageTypes DEF MountedTyped, SameShown, Editing
  <2> QED BY <2>4, <2>5, <2>8
<1>8. ASSUME mounted' = mounted
      PROVE  MountedTyped' /\ SameShown
  BY <1>1, <1>8, PageTypes DEF MountedTyped, SameShown, Editing
<1>9. ASSUME Toggle(pg, t) PROVE \E k : Go(pg, t, k) /\ TaskOK(k) /\ k.pc \in {"sent", "asked"}
  <2>1. PICK group \in DocGroups[mounted[pg].base] :
          Go(pg, t, Sent("toggle",
               [op |-> "enable", id |-> view[pg].active, group |-> group,
                on |-> group \notin view[pg].projects[view[pg].active].enabled], From(pg)))
    BY <1>9 DEF Toggle
  <2>2. group \in Groups /\ view[pg].active \in ProjectIds /\ From(pg) \in Origin
    BY <1>3, <1>4, <1>6, <1>9, EnvelopeAssumption DEF Toggle
  <2> DEFINE cmd == [op |-> "enable", id |-> view[pg].active, group |-> group,
                     on |-> group \notin view[pg].projects[view[pg].active].enabled]
  <2>3. cmd \in Command
    BY <2>2 DEF Command, EnableCommand
  <2>4. TaskOK(Sent("toggle", cmd, From(pg))) /\ Sent("toggle", cmd, From(pg)).pc = "sent"
    BY <2>2, <2>3 DEF TaskOK, Sent, Actions
  <2> QED BY <2>1, <2>4
<1>10. ASSUME Switch(pg, t) PROVE \E k : Go(pg, t, k) /\ TaskOK(k) /\ k.pc \in {"sent", "asked"}
  <2>1. PICK id \in Ids(view[pg]) : Go(pg, t, Sent("switch", [op |-> "switch", id |-> id], From(pg)))
    BY <1>10 DEF Switch
  <2>2. [op |-> "switch", id |-> id] \in Command
    BY <1>4 DEF Command, SwitchCommand
  <2>3. From(pg) \in Origin
    BY <1>6, <1>10 DEF Switch
  <2>4. /\ TaskOK(Sent("switch", [op |-> "switch", id |-> id], From(pg)))
        /\ Sent("switch", [op |-> "switch", id |-> id], From(pg)).pc = "sent"
    BY <2>2, <2>3 DEF TaskOK, Sent, Actions
  <2> QED BY <2>1, <2>4
<1>11. ASSUME Remove(pg, t) PROVE \E k : Go(pg, t, k) /\ TaskOK(k) /\ k.pc \in {"sent", "asked"}
  <2> DEFINE cmd == [op |-> "remove", id |-> view[pg].active]
  <2>1. Go(pg, t, Sent("remove", cmd, From(pg)))
    BY <1>11 DEF Remove
  <2>2. cmd \in Command
    BY <1>3, <1>4, <1>11 DEF Remove, Command, RemoveCommand
  <2>3. From(pg) \in Origin
    BY <1>6, <1>11 DEF Remove
  <2>4. TaskOK(Sent("remove", cmd, From(pg))) /\ Sent("remove", cmd, From(pg)).pc = "sent"
    BY <2>2, <2>3 DEF TaskOK, Sent, Actions
  <2> QED BY <2>1, <2>4
<1>12. ASSUME Refresh(pg, t) PROVE \E k : Go(pg, t, k) /\ TaskOK(k) /\ k.pc \in {"sent", "asked"}
  <2> DEFINE k == [pc |-> "asked", soft |-> FALSE]
  <2>1. Go(pg, t, k)
    BY <1>12 DEF Refresh
  <2>2. TaskOK(k) /\ k.pc = "asked"
    BY SmallTasks
  <2> HIDE DEF k
  <2> QED BY <2>1, <2>2
<1>13. (Toggle(pg, t) \/ Switch(pg, t) \/ Remove(pg, t) \/ Refresh(pg, t)) => mounted' = mounted
  BY DEF Toggle, Switch, Remove, Refresh
<1> QED BY <1>1, <1>7, <1>8, <1>9, <1>10, <1>11, <1>12, <1>13 DEF User

LEMMA UserKeeps ==
  ASSUME PageInv, NEW pg \in Pages, NEW t \in Tasks[pg], User(pg, t)
  PROVE  PageInv'
<1> USE DEF PageInv
<1>1. /\ task[pg][t].pc = "idle" /\ store' = store /\ view' = view /\ ai' = ai
      /\ MountedTyped' /\ SameShown
  BY UserSends
<1>2. PICK k : Go(pg, t, k) /\ TaskOK(k) /\ k.pc \in {"sent", "asked"}
  BY UserSends
<1>3. TasksTyped
  BY PageTypes
<1>4. TasksTyped'
  BY <1>2, <1>3, GoTyped
<1>5. TypeOK'
  BY <1>1, <1>4, PageTypes DEF TypeOK, MountedTyped, TasksTyped
<1>6. ShowsOrWillShow'
  BY <1>1, <1>2, <1>3, SameShownShows
<1>7. EnvelopesGood'
  <2>1. EnvelopeOK(store') /\ \A q \in Pages : EnvelopeOK(view'[q])
    BY <1>1 DEF EnvelopesGood
  <2> QED BY <1>2, <1>3, <2>1, EnvelopesStay
<1> QED BY <1>5, <1>6, <1>7

\* The store takes the whole effect of a command, or nothing.
LEMMA WorkerAnswers ==
  ASSUME PageInv, NEW pg \in Pages, NEW t \in Tasks[pg], Worker(pg, t)
  PROVE  /\ view' = view /\ ai' = ai /\ mounted' = mounted
         /\ task[pg][t].pc \in {"sent", "asked"}
         /\ IsEnvelope(store') /\ EnvelopeOK(store')
         /\ \E k : /\ Go(pg, t, k) /\ TaskOK(k)
                   /\ k.pc \in {"answered", "got", "failed"}
                   /\ k.pc = "got" => k.envelope = store
<1> USE DEF PageInv
<1>1. view' = view /\ ai' = ai /\ mounted' = mounted /\ task[pg][t].pc \in {"sent", "asked"}
  BY DEF Worker, ServeCommand, RefuseCommand, ServeRefresh
<1>2. TaskOK(task[pg][t]) /\ IsEnvelope(store) /\ EnvelopeOK(store)
  BY DEF TypeOK, EnvelopesGood
<1>3. ASSUME ServeCommand(pg, t)
      PROVE  /\ IsEnvelope(store') /\ EnvelopeOK(store')
             /\ \E k : Go(pg, t, k) /\ TaskOK(k) /\ k.pc = "answered"
  <2>1. PICK stamp \in Stamps, heard \in Heard :
          /\ store' = Build(task[pg][t].cmd, store, stamp).next
          /\ Go(pg, t, [pc |-> "answered", kind |-> task[pg][t].kind,
                        ok |-> heard /\ Build(task[pg][t].cmd, store, stamp).kind = "commit"])
    BY <1>3 DEF ServeCommand
  <2> DEFINE mutation == Build(task[pg][t].cmd, store, stamp)
             k == [pc |-> "answered", kind |-> task[pg][t].kind,
                   ok |-> heard /\ mutation.kind = "commit"]
  <2>2. task[pg][t].cmd \in Command /\ task[pg][t].kind \in Actions
    BY <1>2, <1>3 DEF ServeCommand, TaskOK, Idle
  <2>3. Good(mutation)
    BY <1>2, <2>2, BuildGood
  <2>4. mutation.kind # "commit" => mutation.next = store
    BY <2>2, BuildKind
  <2>5. (heard /\ mutation.kind = "commit") \in BOOLEAN
    OBVIOUS
  <2>6. TaskOK(k) /\ k.pc = "answered"
    BY <2>2, <2>5 DEF TaskOK
  <2> HIDE DEF mutation
  <2>7. IsEnvelope(store') /\ EnvelopeOK(store')
    BY <1>2, <2>1, <2>3, <2>4 DEF Good, mutation
  <2> QED BY <2>1, <2>6, <2>7 DEF mutation
<1>4. ASSUME RefuseCommand(pg, t)
      PROVE  \E k : Go(pg, t, k) /\ TaskOK(k) /\ k.pc = "answered"
  <2> DEFINE k == [pc |-> "answered", kind |-> task[pg][t].kind, ok |-> FALSE]
  <2>1. Go(pg, t, k)
    BY <1>4 DEF RefuseCommand
  <2>2. task[pg][t].kind \in Actions
    BY <1>2, <1>4 DEF RefuseCommand, TaskOK, Idle
  <2>3. TaskOK(k) /\ k.pc = "answered"
    BY <2>2, SmallTasks
  <2> HIDE DEF k
  <2> QED BY <2>1, <2>3
<1>5. ASSUME ServeRefresh(pg, t)
      PROVE  \E k : /\ Go(pg, t, k) /\ TaskOK(k) /\ k.pc \in {"got", "failed"}
                    /\ k.pc = "got" => k.envelope = store
  <2>1. task[pg][t].soft \in BOOLEAN
    BY <1>2, <1>5 DEF ServeRefresh, TaskOK, Idle
  <2>2. ASSUME NEW phase \in Phases,
               Go(pg, t, [pc |-> "got", soft |-> task[pg][t].soft,
                          envelope |-> store, phase |-> phase])
        PROVE  \E k : /\ Go(pg, t, k) /\ TaskOK(k) /\ k.pc \in {"got", "failed"}
                      /\ k.pc = "got" => k.envelope = store
    BY <1>2, <2>1, <2>2 DEF TaskOK
  <2>3. ASSUME Go(pg, t, [pc |-> "failed", soft |-> task[pg][t].soft])
        PROVE  \E k : /\ Go(pg, t, k) /\ TaskOK(k) /\ k.pc \in {"got", "failed"}
                      /\ k.pc = "got" => k.envelope = store
    BY <2>1, <2>3 DEF TaskOK
  <2> QED BY <1>5, <2>2, <2>3 DEF ServeRefresh
<1>6. (RefuseCommand(pg, t) \/ ServeRefresh(pg, t)) => store' = store
  BY DEF RefuseCommand, ServeRefresh
<1> QED BY <1>1, <1>2, <1>3, <1>4, <1>5, <1>6 DEF Worker

LEMMA WorkerKeeps ==
  ASSUME PageInv, NEW pg \in Pages, NEW t \in Tasks[pg], Worker(pg, t)
  PROVE  PageInv'
<1> USE DEF PageInv
<1>1. /\ view' = view /\ ai' = ai /\ mounted' = mounted
      /\ task[pg][t].pc \in {"sent", "asked"}
      /\ IsEnvelope(store') /\ EnvelopeOK(store')
  BY WorkerAnswers
<1>2. PICK k : /\ Go(pg, t, k) /\ TaskOK(k)
               /\ k.pc \in {"answered", "got", "failed"}
               /\ k.pc = "got" => k.envelope = store
  BY WorkerAnswers
<1>3. TasksTyped /\ TasksTyped'
  BY <1>2, GoTyped, PageTypes
<1>4. TypeOK'
  BY <1>1, <1>3, PageTypes DEF TypeOK, MountedTyped, TasksTyped
<1>5. SameShown
  BY <1>1 DEF SameShown, Editing
<1>6. ShowsOrWillShow'
  BY <1>1, <1>2, <1>3, <1>5, SameShownShows
<1>7. EnvelopesGood'
  <2>1. \A q \in Pages : EnvelopeOK(view'[q])
    BY <1>1 DEF EnvelopesGood
  <2>2. k.pc # "got" \/ EnvelopeOK(k.envelope)
    BY <1>2 DEF EnvelopesGood
  <2> QED BY <1>1, <1>2, <1>3, <2>1, <2>2, EnvelopesStay
<1> QED BY <1>4, <1>6, <1>7

-----------------------------------------------------------------------------
(* The page goes on.                                                       *)

\* A step that paints pg from the envelope the page then holds, or leaves the
\* editor alone; t goes on to k.
Paints(pg, t, k) ==
  /\ Go(pg, t, k) /\ TaskOK(k) /\ k.pc \in {"idle", "asked", "checking"}
  /\ \A q \in Pages : q # pg => view'[q] = view[q] /\ mounted'[q] = mounted[q]
  /\ DOMAIN view' = Pages /\ IsEnvelope(view'[pg]) /\ EnvelopeOK(view'[pg])
  /\ ai' \in [Pages -> BOOLEAN] /\ store' = store
  /\ MountedTyped'

LEMMA PaintsKeeps ==
  ASSUME PageInv, NEW pg \in Pages, NEW t \in Tasks[pg], NEW k, Paints(pg, t, k),
         Editing(pg)' =>
           \/ mounted'[pg].project = view'[pg].active
           \/ k.pc = "checking" /\ (k.moved \/ ~ k.soft)
           \/ /\ view'[pg].active = view[pg].active
              /\ Editing(pg) /\ mounted'[pg].project = mounted[pg].project
              /\ task[pg][t].pc = "checking" => ~ (task[pg][t].moved \/ ~ task[pg][t].soft)
  PROVE  PageInv'
<1> USE DEF PageInv
<1>1. TasksTyped /\ TasksTyped'
  BY GoTyped, PageTypes DEF Paints
<1>2. /\ task'[pg][t] = k
      /\ \A q \in Pages : \A u \in Tasks[q] : (q # pg \/ u # t) => task'[q][u] = task[q][u]
  BY <1>1, GoMoves DEF Paints
<1>3. TypeOK'
  BY <1>1, PageTypes DEF Paints, TypeOK, MountedTyped, TasksTyped
<1>4. EnvelopesGood'
  <2>1. EnvelopeOK(store') /\ \A q \in Pages : EnvelopeOK(view'[q])
    BY DEF EnvelopesGood, Paints
  <2> QED BY <1>1, <2>1, EnvelopesStay DEF Paints
<1>5. ShowsOrWillShow'
  <2> SUFFICES ASSUME NEW q \in Pages, Editing(q)', mounted'[q].project # view'[q].active
               PROVE  \E u \in Tasks[q] : /\ task'[q][u].pc = "checking"
                                          /\ task'[q][u].moved \/ ~ task'[q][u].soft
    BY DEF ShowsOrWillShow
  <2>1. CASE q # pg
    BY <1>2, <2>1 DEF ShowsOrWillShow, Paints, Editing
  <2>2. CASE q = pg /\ k.pc = "checking" /\ (k.moved \/ ~ k.soft)
    BY <1>2, <2>2
  <2>3. CASE q = pg /\ ~ (k.pc = "checking" /\ (k.moved \/ ~ k.soft))
    <3>1. /\ view'[pg].active = view[pg].active /\ Editing(pg)
          /\ mounted'[pg].project = mounted[pg].project
          /\ task[pg][t].pc = "checking" => ~ (task[pg][t].moved \/ ~ task[pg][t].soft)
      BY <2>3
    <3>2. PICK u \in Tasks[pg] : /\ task[pg][u].pc = "checking"
                                 /\ task[pg][u].moved \/ ~ task[pg][u].soft
      BY <2>3, <3>1 DEF ShowsOrWillShow
    <3> QED BY <1>2, <2>3, <3>1, <3>2
  <2> QED BY <2>1, <2>2, <2>3
<1> QED BY <1>3, <1>4, <1>5

\* The editor of pg is left as it is, or only unlocked.
LEMMA Unpainted ==
  ASSUME MountedTyped, NEW pg \in Pages, NoTask \notin Tasks[pg],
         \/ mounted' = mounted
         \/ Editing(pg) /\ mounted' = [mounted EXCEPT ![pg].saving = NoTask]
  PROVE  /\ MountedTyped'
         /\ \A q \in Pages : q # pg => mounted'[q] = mounted[q]
         /\ Editing(pg)' => /\ Editing(pg) /\ mounted'[pg].project = mounted[pg].project
                            /\ mounted'[pg].base = mounted[pg].base
<1>1. CASE mounted' = mounted
  BY <1>1 DEF MountedTyped, Editing
<1>2. CASE Editing(pg) /\ mounted' = [mounted EXCEPT ![pg].saving = NoTask]
  <2>1. mounted[pg] \in Editor(pg)
    BY <1>2 DEF MountedTyped, Editing
  <2>2. /\ [mounted[pg] EXCEPT !.saving = NoTask] \in Editor(pg)
        /\ [mounted[pg] EXCEPT !.saving = NoTask].project = mounted[pg].project
        /\ [mounted[pg] EXCEPT !.saving = NoTask].base = mounted[pg].base
    BY <2>1 DEF Editor
  <2> QED BY <1>2, <2>2 DEF MountedTyped
<1> QED BY <1>1, <1>2

LEMMA HearAnswerKeeps ==
  ASSUME PageInv, NEW pg \in Pages, NEW t \in Tasks[pg],
         HearAnswer(pg, t) \/ HearFailedRefresh(pg, t)
  PROVE  /\ PageInv'
         /\ view' = view /\ store' = store
         /\ \A q \in Pages : q # pg => mounted'[q] = mounted[q]
         /\ Editing(pg)' =>
              \/ /\ mounted'[pg].project = view[pg].active
                 /\ mounted'[pg].base = view[pg].projects[view[pg].active].doc
              \/ /\ Editing(pg) /\ mounted'[pg].project = mounted[pg].project
                 /\ mounted'[pg].base = mounted[pg].base
         /\ \E k : /\ Go(pg, t, k)
                   /\ \/ k = Idle
                      \/ /\ k = [pc |-> "asked", soft |-> task[pg][t].kind = "toggle"]
                         /\ task[pg][t].pc = "answered"
<1> USE DEF PageInv
<1>1. /\ store' = store /\ view' = view /\ ai' = ai
      /\ task[pg][t].pc \in {"answered", "failed"}
  BY DEF HearAnswer, HearFailedRefresh
<1>2. PICK k : /\ Go(pg, t, k)
               /\ \/ k = Idle
                  \/ /\ k = [pc |-> "asked", soft |-> task[pg][t].kind = "toggle"]
                     /\ task[pg][t].pc = "answered"
  BY DEF HearAnswer, HearFailedRefresh
<1>3. TaskOK(k) /\ k.pc \in {"idle", "asked"}
  <2>1. CASE task[pg][t].kind = "toggle"
    <3>1. k = Idle \/ k = [pc |-> "asked", soft |-> TRUE]
      BY <1>2, <2>1
    <3>2. k.pc \in {"idle", "asked"}
      BY <3>1 DEF Idle
    <3>3. TaskOK(k)
      BY <3>1, SmallTasks, Zenon
    <3> QED BY <3>2, <3>3
  <2>2. CASE task[pg][t].kind # "toggle"
    <3>1. k = Idle \/ k = [pc |-> "asked", soft |-> FALSE]
      BY <1>2, <2>2
    <3>2. k.pc \in {"idle", "asked"}
      BY <3>1 DEF Idle
    <3>3. TaskOK(k)
      BY <3>1, SmallTasks, Zenon
    <3> QED BY <3>2, <3>3
  <2> QED BY <2>1, <2>2
<1>4. /\ MountedTyped /\ IsEnvelope(view[pg]) /\ EnvelopeOK(view[pg])
      /\ NoTask \notin Tasks[pg] /\ DOMAIN view = Pages /\ ai \in [Pages -> BOOLEAN]
  BY PageTypes, PageAssumption DEF EnvelopesGood
<1>5. /\ MountedTyped'
      /\ \A q \in Pages : q # pg => mounted'[q] = mounted[q]
      /\ Editing(pg)' =>
           \/ /\ mounted'[pg].project = view[pg].active
              /\ mounted'[pg].base = view[pg].projects[view[pg].active].doc
           \/ /\ Editing(pg) /\ mounted'[pg].project = mounted[pg].project
              /\ mounted'[pg].base = mounted[pg].base
  <2>1. CASE Render(pg, view[pg])
    BY <1>4, <2>1, RenderShows
  <2>2. CASE \/ mounted' = mounted
             \/ Editing(pg) /\ mounted' = [mounted EXCEPT ![pg].saving = NoTask]
    BY <1>4, <2>2, Unpainted
  <2> QED BY <2>1, <2>2 DEF HearAnswer, HearFailedRefresh
<1>6. Paints(pg, t, k)
  BY <1>1, <1>2, <1>3, <1>4, <1>5 DEF Paints
<1>7. PageInv'
  <2>1. task[pg][t].pc # "checking"
    BY <1>1
  <2> QED BY <1>1, <1>5, <1>6, <2>1, PaintsKeeps
<1> QED BY <1>1, <1>2, <1>5, <1>7

\* What a refresh or the AI check leaves on the page that heard it.
HearKept(pg, t) ==
  /\ store' = store
  /\ \A q \in Pages : q # pg => view'[q] = view[q] /\ mounted'[q] = mounted[q]

LEMMA HearRefreshKeeps ==
  ASSUME PageInv, NEW pg \in Pages, NEW t \in Tasks[pg], HearRefresh(pg, t)
  PROVE  /\ PageInv' /\ HearKept(pg, t)
         /\ task[pg][t].pc = "got" /\ view'[pg] = task[pg][t].envelope
         /\ task[pg][t].phase # "started" =>
              /\ Go(pg, t, Idle)
              /\ ~ task[pg][t].soft /\ Editing(pg)' =>
                   /\ mounted'[pg].project = view'[pg].active
                   /\ mounted'[pg].base = view'[pg].projects[view'[pg].active].doc
<1> USE DEF PageInv
<1> DEFINE k == task[pg][t]
           moved == view[pg].active # k.envelope.active
           next == [pc |-> "checking", soft |-> k.soft, moved |-> moved, hadAI |-> ai[pg]]
<1>1. /\ k.pc = "got" /\ store' = store
      /\ view' = [view EXCEPT ![pg] = k.envelope]
  BY DEF HearRefresh
<1>2. /\ MountedTyped /\ NoTask \notin Tasks[pg] /\ DOMAIN view = Pages
      /\ ai \in [Pages -> BOOLEAN] /\ TaskOK(k)
      /\ IsEnvelope(view[pg]) /\ EnvelopeOK(view[pg])
  BY PageTypes, PageAssumption DEF EnvelopesGood, TasksTyped
<1>3. IsEnvelope(k.envelope) /\ EnvelopeOK(k.envelope) /\ k.soft \in BOOLEAN
  BY <1>1, <1>2 DEF EnvelopesGood, TaskOK, Idle
<1>4. /\ DOMAIN view' = Pages /\ view'[pg] = k.envelope
      /\ \A q \in Pages : q # pg => view'[q] = view[q]
  BY <1>1, <1>2
<1>5. CASE k.phase = "started"
  <2>1. Go(pg, t, next) /\ ai' = ai /\ mounted' = mounted
    BY <1>5 DEF HearRefresh
  <2>2. ai[pg] \in BOOLEAN
    BY <1>2
  <2>3. moved \in BOOLEAN
    OBVIOUS
  <2>4. /\ TaskOK(next) /\ next.pc = "checking" /\ next.soft = k.soft
        /\ next.moved = moved
    BY <1>3, <2>2, <2>3 DEF TaskOK
  <2>5. ~ moved => view'[pg].active = view[pg].active
    BY <1>4
  <2> HIDE DEF next, moved
  <2>6. /\ MountedTyped'
        /\ Editing(pg)' => Editing(pg) /\ mounted'[pg].project = mounted[pg].project
    BY <1>2, <2>1 DEF MountedTyped, Editing
  <2>7. Paints(pg, t, next)
    BY <1>1, <1>2, <1>3, <1>4, <2>1, <2>4, <2>6 DEF Paints
  <2>8. PageInv'
    BY <1>1, <2>4, <2>5, <2>6, <2>7, PaintsKeeps
  <2> QED BY <1>1, <1>4, <1>5, <2>1, <2>8 DEF HearKept
<1>6. CASE k.phase # "started"
  <2>1. /\ Go(pg, t, Idle) /\ ai' = [ai EXCEPT ![pg] = FALSE]
        /\ IF Patches(k.soft, moved, ai[pg]) THEN mounted' = mounted ELSE Render(pg, k.envelope)
    BY <1>6 DEF HearRefresh
  <2>2. ai' \in [Pages -> BOOLEAN]
    BY <1>2, <2>1
  <2>3. CASE Patches(k.soft, moved, ai[pg])
    <3>1. mounted' = mounted /\ view'[pg].active = view[pg].active /\ k.soft
      BY <1>4, <2>1, <2>3 DEF Patches
    <3>2. /\ MountedTyped'
          /\ Editing(pg)' => Editing(pg) /\ mounted'[pg].project = mounted[pg].project
      BY <1>2, <3>1 DEF MountedTyped, Editing
    <3>3. Paints(pg, t, Idle)
      BY <1>1, <1>3, <1>4, <2>1, <2>2, <3>1, <3>2, SmallTasks DEF Paints
    <3>4. k.pc # "checking"
      BY <1>1
    <3>5. PageInv'
      BY <3>1, <3>2, <3>3, <3>4, PaintsKeeps
    <3> QED BY <1>1, <1>4, <2>1, <3>1, <3>5 DEF HearKept
  <2>4. CASE ~ Patches(k.soft, moved, ai[pg])
    <3>1. Render(pg, k.envelope)
      BY <2>1, <2>4
    <3>2. /\ MountedTyped'
          /\ \A q \in Pages : q # pg => mounted'[q] = mounted[q]
          /\ Editing(pg)' => /\ mounted'[pg].project = k.envelope.active
                             /\ mounted'[pg].base = k.envelope.projects[k.envelope.active].doc
      BY <1>2, <1>3, <3>1, RenderShows
    <3>3. Paints(pg, t, Idle)
      BY <1>1, <1>3, <1>4, <2>1, <2>2, <3>2, SmallTasks DEF Paints
    <3>4. PageInv'
      BY <1>4, <3>2, <3>3, PaintsKeeps
    <3> QED BY <1>1, <1>4, <2>1, <3>2, <3>4 DEF HearKept
  <2> QED BY <2>3, <2>4
<1> QED BY <1>5, <1>6

LEMMA HearAISupportKeeps ==
  ASSUME PageInv, NEW pg \in Pages, NEW t \in Tasks[pg], HearAISupport(pg, t)
  PROVE  PageInv' /\ task[pg][t].pc = "checking"
<1> USE DEF PageInv
<1> DEFINE k == task[pg][t]
<1>1. k.pc = "checking" /\ store' = store /\ view' = view /\ Go(pg, t, Idle)
  BY DEF HearAISupport
<1>2. PICK supported \in BOOLEAN :
        /\ ai' = [ai EXCEPT ![pg] = supported]
        /\ IF Patches(k.soft, k.moved, k.hadAI # supported) THEN mounted' = mounted
           ELSE Render(pg, view[pg])
  BY DEF HearAISupport
<1>3. /\ MountedTyped /\ NoTask \notin Tasks[pg] /\ DOMAIN view = Pages
      /\ ai \in [Pages -> BOOLEAN]
      /\ IsEnvelope(view[pg]) /\ EnvelopeOK(view[pg])
  BY PageTypes, PageAssumption DEF EnvelopesGood
<1>4. ai' \in [Pages -> BOOLEAN]
  BY <1>2, <1>3
<1>5. CASE Patches(k.soft, k.moved, k.hadAI # supported)
  <2>1. mounted' = mounted /\ ~ (k.moved \/ ~ k.soft)
    BY <1>2, <1>5 DEF Patches
  <2>2. /\ MountedTyped'
        /\ Editing(pg)' => Editing(pg) /\ mounted'[pg].project = mounted[pg].project
    BY <1>3, <2>1 DEF MountedTyped, Editing
  <2>3. Paints(pg, t, Idle)
    BY <1>1, <1>3, <1>4, <2>1, <2>2, SmallTasks DEF Paints
  <2> QED BY <1>1, <2>1, <2>2, <2>3, PaintsKeeps
<1>6. CASE ~ Patches(k.soft, k.moved, k.hadAI # supported)
  <2>1. Render(pg, view[pg])
    BY <1>2, <1>6
  <2>2. /\ MountedTyped'
        /\ \A q \in Pages : q # pg => mounted'[q] = mounted[q]
        /\ Editing(pg)' => mounted'[pg].project = view[pg].active
    BY <1>3, <2>1, RenderShows
  <2>3. Paints(pg, t, Idle)
    BY <1>1, <1>3, <1>4, <2>2, SmallTasks DEF Paints
  <2> QED BY <1>1, <2>2, <2>3, PaintsKeeps
<1> QED BY <1>5, <1>6

-----------------------------------------------------------------------------
(* The page shows its project.                                             *)

LEMMA PageInit ==
  ASSUME Init
  PROVE  PageInv
<1> USE DEF Init
<1>1. PICK first \in [Pages -> UNION {Tasks[pg] : pg \in Pages}] :
        task = [pg \in Pages |-> [t \in Tasks[pg] |->
                  IF t = first[pg] THEN [pc |-> "asked", soft |-> FALSE] ELSE Idle]]
  OBVIOUS
<1>2. \A pg \in Pages : \A t \in Tasks[pg] :
        task[pg][t] \in {[pc |-> "asked", soft |-> FALSE], Idle}
  BY <1>1
<1>3. TasksTyped
  BY <1>1, <1>2, SmallTasks DEF TasksTyped
<1>4. \A pg \in Pages : ~ Editing(pg)
  BY DEF Editing
<1>5. MountedTyped
  BY DEF MountedTyped
<1>6. IsEnvelope(store) /\ \A pg \in Pages : IsEnvelope(view[pg]) /\ EnvelopeOK(view[pg])
  BY PageAssumption, EmptyOK
<1>7. TypeOK
  BY <1>3, <1>5, <1>6, PageTypes
<1>8. EnvelopesGood
  BY <1>2, <1>6, PageAssumption DEF EnvelopesGood, Idle
<1> QED BY <1>4, <1>7, <1>8 DEF PageInv, ShowsOrWillShow

LEMMA PageNext ==
  ASSUME PageInv, [Next]_vars
  PROVE  PageInv'
<1>1. ASSUME NEW pg \in Pages, NEW t \in Tasks[pg],
             User(pg, t) \/ Worker(pg, t) \/ Page(pg, t)
      PROVE  PageInv'
  BY <1>1, UserKeeps, WorkerKeeps, HearAnswerKeeps, HearRefreshKeeps, HearAISupportKeeps DEF Page
<1>2. CASE UNCHANGED vars
  BY <1>2 DEF vars, PageInv, TypeOK, EnvelopesGood, ShowsOrWillShow, Editing
<1> QED BY <1>1, <1>2, EditKeeps DEF Next

\* extension-page-entry.ts: the pages, what is mounted on them and every message
\* on its way have their types, whatever pages and functions interleave.
THEOREM PageTypesHold == Spec => []TypeOK
<1>1. Init => PageInv
  BY PageInit
<1>2. PageInv /\ [Next]_vars => PageInv'
  BY PageNext
<1>3. PageInv => TypeOK
  BY DEF PageInv
<1> QED BY <1>1, <1>2, <1>3, PTL DEF Spec

\* refresh() and renderShell() in extension-page-entry.ts: once no refresh waits
\* for the AI check, the mounted editor is that of the project the page takes for
\* the active one, however refreshes, failures and actions overlap.
THEOREM EditorsShowTheActiveProject == Spec => []EditorShowsActive
<1>1. Init => PageInv
  BY PageInit
<1>2. PageInv /\ [Next]_vars => PageInv'
  BY PageNext
<1>3. PageInv => EditorShowsActive
  BY DEF PageInv, ShowsOrWillShow, EditorShowsActive
<1> QED BY <1>1, <1>2, <1>3, PTL DEF Spec

-----------------------------------------------------------------------------
(* A save replaces its base.                                               *)

LEMMA SavingInit ==
  ASSUME Init
  PROVE  SavingInv
<1> USE DEF Init
<1>1. PICK first \in [Pages -> UNION {Tasks[pg] : pg \in Pages}] :
        task = [pg \in Pages |-> [t \in Tasks[pg] |->
                  IF t = first[pg] THEN [pc |-> "asked", soft |-> FALSE] ELSE Idle]]
  OBVIOUS
<1>2. \A pg \in Pages : \A t \in Tasks[pg] :
        task[pg][t] \in {[pc |-> "asked", soft |-> FALSE], Idle}
  BY <1>1
<1>3. Ids(EmptyEnvelope) = {}
  BY DEF EmptyEnvelope, Ids
<1>4. \A pg \in Pages : Older(store, view[pg]) /\ ~ Editing(pg)
  BY <1>3 DEF Older, Editing
<1> QED BY <1>2, <1>4 DEF SavingInv, Steady, Idle

\* A command of a page adds no project, and gives a changed one its next revision.
LEMMA NoneAdded ==
  ASSUME NEW env, IsEnvelope(env), EnvelopeOK(env), NEW cmd \in Command, NEW stamp \in Stamps,
         cmd.op \in {"save", "switch", "remove"},
         NEW after, after = Build(cmd, env, stamp).next
  PROVE  /\ Ids(after) \subseteq Ids(env)
         /\ \A p \in Ids(after) :
              \/ after.projects[p] = env.projects[p]
              \/ after.projects[p].revision = env.projects[p].revision + 1
<1> DEFINE mutation == Build(cmd, env, stamp)
<1>1. CASE mutation.kind # "commit"
  <2>1. after = env
    BY <1>1, BuildKind
  <2> QED BY <2>1
<1>2. CASE mutation.kind = "commit"
  <2>1. mutation = Commit(after)
    BY <1>2, BuildKind
  <2>2. Stepwise(env, after)
    BY <2>1, BuildLawful
  <2>3. Ids(after) \subseteq Ids(env)
    <3>1. CASE cmd.op = "save"
      <4>1. BuildSave(env, cmd, stamp) = Commit(after)
        BY <2>1, <3>1 DEF Build
      <4>2. /\ cmd.id \in Ids(env)
            /\ BuildUpdate(env, cmd.id, cmd.doc, cmd.expected, stamp) = Commit(after)
        BY <4>1 DEF BuildSave, Commit, Failure, Conflict, Has
      <4>3. PICK project : after = ReplaceProject(env, cmd.id, project)
        BY <4>2 DEF BuildUpdate, Commit, Failure, Conflict
      <4>4. after.projects = [p \in Ids(env) \cup {cmd.id} |->
                                IF p = cmd.id THEN project ELSE env.projects[p]]
        BY <4>3, ProjectTyped DEF ReplaceProject
      <4> QED BY <4>2, <4>4 DEF Ids
    <3>2. CASE cmd.op = "switch"
      <4>1. after = [env EXCEPT !.active = cmd.id]
        BY <2>1, <3>2 DEF Build, BuildSwitch, Commit, Failure
      <4>2. after.projects = env.projects
        BY <4>1, ProjectTyped
      <4> QED BY <4>2 DEF Ids
    <3>3. CASE cmd.op = "remove"
      <4>1. after.projects = [p \in Ids(env) \ {cmd.id} |-> env.projects[p]]
        BY <2>1, <3>3 DEF Build, BuildRemove, Commit, Failure
      <4> QED BY <4>1 DEF Ids
    <3> QED BY <3>1, <3>2, <3>3
  <2> HIDE DEF mutation
  <2> QED BY <2>2, <2>3 DEF Stepwise
<1> QED BY <1>1, <1>2

Onward(env, after) ==
  /\ Ids(after) \subseteq Ids(env)
  /\ \A p \in Ids(after) : \/ after.projects[p] = env.projects[p]
                           \/ after.projects[p].revision = env.projects[p].revision + 1

\* While the store only moves on to next revisions, what was dated stays so.
LEMMA DatesStay ==
  ASSUME NEW env, IsEnvelope(env), NEW after, Onward(env, after)
  PROVE  /\ \A id, doc : \A revision \in Nat :
              Dated(env, id, revision, doc) => Dated(after, id, revision, doc)
         /\ \A old : IsEnvelope(old) /\ Older(env, old) => Older(after, old)
         /\ \A k : TaskOK(k) /\ Steady(env, k) => Steady(after, k)
<1>1. \A p \in Ids(env) : env.projects[p].revision \in Nat
  BY ProjectTyped DEF Project
<1>2. ASSUME NEW id, NEW doc, NEW revision \in Nat, Dated(env, id, revision, doc)
      PROVE  Dated(after, id, revision, doc)
  <2> SUFFICES ASSUME id \in Ids(after)
               PROVE  \/ revision < after.projects[id].revision
                      \/ /\ revision = after.projects[id].revision
                         /\ doc = after.projects[id].doc
    BY DEF Dated
  <2>1. id \in Ids(env) /\ env.projects[id].revision \in Nat
    BY <1>1 DEF Onward
  <2>2. \/ revision < env.projects[id].revision
        \/ revision = env.projects[id].revision /\ doc = env.projects[id].doc
    BY <1>2, <2>1 DEF Dated
  <2>3. CASE after.projects[id] = env.projects[id]
    BY <2>2, <2>3
  <2>4. CASE after.projects[id].revision = env.projects[id].revision + 1
    BY <2>1, <2>2, <2>4
  <2> QED BY <2>3, <2>4 DEF Onward
<1>3. ASSUME NEW old, IsEnvelope(old), Older(env, old) PROVE Older(after, old)
  <2>1. \A p \in Ids(old) : old.projects[p].revision \in Nat
    BY <1>3, ProjectTyped DEF Project
  <2> QED BY <1>2, <1>3, <2>1 DEF Older
<1>4. ASSUME NEW k, TaskOK(k), Steady(env, k) PROVE Steady(after, k)
  <2>1. k.pc = "got" => IsEnvelope(k.envelope)
    BY <1>4 DEF TaskOK, Idle
  <2>2. k.pc = "sent" /\ k.cmd.op = "save" => k.cmd.expected \in Nat
    <3> SUFFICES ASSUME k.pc = "sent", k.cmd.op = "save" PROVE k.cmd.expected \in Nat
      OBVIOUS
    <3>1. k.cmd \in Command
      BY <1>4 DEF TaskOK, Idle
    <3>2. k.cmd \in SaveCommand
      BY <3>1 DEF Command, SaveCommand, CreateCommand, ImportCommand, SwitchCommand,
                  RemoveCommand, EnableCommand, RootCommand
    <3> QED BY <3>2 DEF SaveCommand, Revisions
  <2> QED BY <1>2, <1>3, <1>4, <2>1, <2>2 DEF Steady
<1> QED BY <1>2, <1>3, <1>4

\* One async function moves on; the rest stays steady.
LEMMA SteadyStep ==
  ASSUME PageInv, SavingInv, Onward(store, store'),
         NEW pg \in Pages, NEW t \in Tasks[pg], NEW k, Go(pg, t, k), Steady(store', k),
         \A q \in Pages : q # pg => view'[q] = view[q] /\ mounted'[q] = mounted[q],
         Older(store', view'[pg]),
         Editing(pg)' => /\ mounted'[pg].project = view'[pg].active
                         /\ mounted'[pg].base = view'[pg].projects[view'[pg].active].doc
  PROVE  SavingInv'
<1>1. TasksTyped /\ IsEnvelope(store) /\ \A q \in Pages : IsEnvelope(view[q])
  BY PageTypes DEF PageInv
<1>2. /\ task'[pg][t] = k
      /\ \A q \in Pages : \A u \in Tasks[q] : (q # pg \/ u # t) => task'[q][u] = task[q][u]
  BY <1>1, GoMoves
<1>3. \A q \in Pages : \A u \in Tasks[q] : Steady(store', task[q][u])
  BY <1>1, DatesStay DEF SavingInv, TasksTyped
<1>4. \A q \in Pages : Older(store', view[q])
  BY <1>1, DatesStay DEF SavingInv
<1>5. \A q \in Pages : \A u \in Tasks[q] : Steady(store', task'[q][u])
  BY <1>2, <1>3
<1>6. \A q \in Pages : Older(store', view'[q])
  BY <1>4
<1>7. \A q \in Pages : Editing(q)' =>
        /\ mounted'[q].project = view'[q].active
        /\ mounted'[q].base = view'[q].projects[view'[q].active].doc
  BY DEF SavingInv, Editing
<1> QED BY <1>5, <1>6, <1>7 DEF SavingInv

\* What a user action sends is steady: a save names the revision that the page
\* holds, and its editor was mounted with the document of that revision.
LEMMA SavingUser ==
  ASSUME NoSoftPaint, PageInv, SavingInv, NEW pg \in Pages, NEW t \in Tasks[pg], User(pg, t)
  PROVE  SavingInv'
<1>1. /\ store' = store /\ view' = view /\ SameShown
  BY UserSends
<1>2. Editing(pg) /\ view[pg].active # NoProject =>
        /\ view[pg].active \in Ids(view[pg])
        /\ From(pg).base = view[pg].projects[view[pg].active].doc
  BY DEF SavingInv, From, PageInv, EnvelopesGood, EnvelopeOK, OneActive
<1>3. Older(store, view[pg])
  BY DEF SavingInv
<1>4. \E k : Go(pg, t, k) /\ Steady(store, k)
  <2>1. CASE Save(pg, t)
    <3> DEFINE id == view[pg].active
               cmd == [op |-> "save", id |-> id, doc |-> mounted[pg].doc,
                       expected |-> view[pg].projects[id].revision]
    <3>1. Go(pg, t, Sent("save", cmd, From(pg))) /\ Editing(pg) /\ id # NoProject
      BY <2>1 DEF Save, Dirty
    <3>2. Dated(store, cmd.id, cmd.expected, From(pg).base)
      BY <1>2, <1>3, <3>1 DEF Older
    <3> QED BY <3>1, <3>2 DEF Steady, Sent
  <2>2. CASE Switch(pg, t)
    <3>1. PICK id : Go(pg, t, Sent("switch", [op |-> "switch", id |-> id], From(pg)))
      BY <2>2 DEF Switch
    <3> QED BY <3>1 DEF Steady, Sent
  <2>3. CASE Remove(pg, t)
    <3>1. Go(pg, t, Sent("remove", [op |-> "remove", id |-> view[pg].active], From(pg)))
      BY <2>3 DEF Remove
    <3> QED BY <3>1 DEF Steady, Sent
  <2>4. CASE Refresh(pg, t)
    <3>1. Go(pg, t, [pc |-> "asked", soft |-> FALSE])
      BY <2>4 DEF Refresh
    <3>2. Steady(store, [pc |-> "asked", soft |-> FALSE])
      BY DEF Steady
    <3> QED BY <3>1, <3>2
  <2>5. ~ Toggle(pg, t)
    BY DEF NoSoftPaint, Toggle
  <2> QED BY <2>1, <2>2, <2>3, <2>4, <2>5 DEF User
<1>5. PICK k : Go(pg, t, k) /\ Steady(store, k)
  BY <1>4
<1>6. Onward(store, store')
  BY <1>1 DEF Onward
<1>7. \A q \in Pages : Editing(q)' =>
        /\ mounted'[q].project = view'[q].active
        /\ mounted'[q].base = view'[q].projects[view'[q].active].doc
  BY <1>1 DEF SameShown, SavingInv
<1>8. TasksTyped
  BY PageTypes DEF PageInv
<1>9. \A q \in Pages : \A u \in Tasks[q] : Steady(store', task'[q][u])
  BY <1>1, <1>5, <1>8, GoMoves DEF SavingInv
<1>10. \A q \in Pages : Older(store', view'[q])
  BY <1>1 DEF SavingInv
<1> QED BY <1>7, <1>9, <1>10 DEF SavingInv

\* The worker moves the store on, and answers a refresh with it.
LEMMA SavingWorker ==
  ASSUME NoSoftPaint, PageInv, SavingInv, NEW pg \in Pages, NEW t \in Tasks[pg], Worker(pg, t)
  PROVE  SavingInv'
<1>1. /\ view' = view /\ mounted' = mounted
      /\ IsEnvelope(store) /\ EnvelopeOK(store)
  BY WorkerAnswers DEF PageInv, TypeOK, EnvelopesGood
<1>2. TaskOK(task[pg][t]) /\ Steady(store, task[pg][t])
  BY DEF PageInv, TypeOK, SavingInv
<1>3. \E k : Go(pg, t, k) /\ Steady(store', k) /\ Onward(store, store')
  <2>1. CASE ServeCommand(pg, t)
    <3>1. task[pg][t].pc = "sent"
      BY <2>1 DEF ServeCommand
    <3>2. task[pg][t].cmd \in Command /\ task[pg][t].kind # "toggle"
          /\ task[pg][t].cmd.op \in {"save", "switch", "remove"}
      BY <1>2, <3>1 DEF TaskOK, Idle, Steady
    <3>3. PICK stamp \in Stamps, heard \in Heard :
            /\ store' = Build(task[pg][t].cmd, store, stamp).next
            /\ Go(pg, t, [pc |-> "answered", kind |-> task[pg][t].kind,
                          ok |-> heard /\ Build(task[pg][t].cmd, store, stamp).kind = "commit"])
      BY <2>1, Zenon DEF ServeCommand
    <3>4. Onward(store, store')
      BY <1>1, <3>2, <3>3, NoneAdded DEF Onward
    <3> DEFINE ok == heard /\ Build(task[pg][t].cmd, store, stamp).kind = "commit"
    <3>5. Go(pg, t, [pc |-> "answered", kind |-> task[pg][t].kind, ok |-> ok])
      BY <3>3
    <3> HIDE DEF ok
    <3>6. Steady(store', [pc |-> "answered", kind |-> task[pg][t].kind, ok |-> ok])
      BY <3>2 DEF Steady
    <3> QED BY <3>4, <3>5, <3>6
  <2>2. CASE RefuseCommand(pg, t)
    <3> DEFINE k == [pc |-> "answered", kind |-> task[pg][t].kind, ok |-> FALSE]
    <3>1. Go(pg, t, k) /\ store' = store /\ task[pg][t].pc = "sent"
      BY <2>2 DEF RefuseCommand
    <3>2. Steady(store', k)
      BY <1>2, <3>1 DEF Steady
    <3> HIDE DEF k
    <3> QED BY <3>1, <3>2 DEF Onward
  <2>3. CASE ServeRefresh(pg, t)
    <3>1. store' = store /\ task[pg][t].pc = "asked" /\ ~ task[pg][t].soft
      BY <1>2, <2>3 DEF ServeRefresh, Steady
    <3>2. Older(store, store)
      BY <1>1, ProjectTyped DEF Older, Dated, Project
    <3>3. ASSUME NEW phase, Go(pg, t, [pc |-> "got", soft |-> task[pg][t].soft,
                                       envelope |-> store, phase |-> phase])
          PROVE  \E k : Go(pg, t, k) /\ Steady(store', k)
      <4> DEFINE k == [pc |-> "got", soft |-> task[pg][t].soft,
                       envelope |-> store, phase |-> phase]
      <4>1. Steady(store', k)
        BY <3>1, <3>2 DEF Steady
      <4>2. Go(pg, t, k)
        BY <3>3
      <4> HIDE DEF k
      <4> QED BY <4>1, <4>2
    <3>4. ASSUME Go(pg, t, [pc |-> "failed", soft |-> task[pg][t].soft])
          PROVE  \E k : Go(pg, t, k) /\ Steady(store', k)
      <4>1. Steady(store', [pc |-> "failed", soft |-> task[pg][t].soft])
        BY <3>1 DEF Steady
      <4> QED BY <3>4, <4>1
    <3> QED BY <2>3, <3>1, <3>3, <3>4 DEF ServeRefresh, Onward
  <2> QED BY <2>1, <2>2, <2>3 DEF Worker
<1>4. PICK k : Go(pg, t, k) /\ Steady(store', k) /\ Onward(store, store')
  BY <1>3
<1>5. Older(store', view'[pg])
  BY <1>1, <1>4, DatesStay DEF SavingInv, PageInv, TypeOK
<1>6. Editing(pg)' => /\ mounted'[pg].project = view'[pg].active
                      /\ mounted'[pg].base = view'[pg].projects[view'[pg].active].doc
  BY <1>1 DEF SavingInv, Editing
<1> QED BY <1>1, <1>4, <1>5, <1>6, SteadyStep

\* What the page hears is painted, and it was the store once.
LEMMA SavingPage ==
  ASSUME NoSoftPaint, PageInv, SavingInv, NEW pg \in Pages, NEW t \in Tasks[pg], Page(pg, t)
  PROVE  SavingInv'
<1>1. TaskOK(task[pg][t]) /\ Steady(store, task[pg][t])
  BY DEF PageInv, TypeOK, SavingInv
<1>2. CASE HearAnswer(pg, t) \/ HearFailedRefresh(pg, t)
  <2>1. /\ view' = view /\ store' = store
        /\ \A q \in Pages : q # pg => mounted'[q] = mounted[q]
        /\ Editing(pg)' =>
             \/ /\ mounted'[pg].project = view[pg].active
                /\ mounted'[pg].base = view[pg].projects[view[pg].active].doc
             \/ /\ Editing(pg) /\ mounted'[pg].project = mounted[pg].project
                /\ mounted'[pg].base = mounted[pg].base
    BY <1>2, HearAnswerKeeps
  <2>2. PICK k : /\ Go(pg, t, k)
                 /\ \/ k = Idle
                    \/ /\ k = [pc |-> "asked", soft |-> task[pg][t].kind = "toggle"]
                       /\ task[pg][t].pc = "answered"
    BY <1>2, HearAnswerKeeps
  <2>3. Steady(store', k)
    <3>1. task[pg][t].pc = "answered" => task[pg][t].kind # "toggle"
      BY <1>1 DEF Steady
    <3>2. k = Idle \/ k = [pc |-> "asked", soft |-> FALSE]
      BY <2>2, <3>1
    <3>3. Steady(store', Idle) /\ Steady(store', [pc |-> "asked", soft |-> FALSE])
      BY DEF Steady, Idle
    <3> QED BY <3>2, <3>3, Zenon
  <2>4. Older(store', view'[pg]) /\ Onward(store, store')
    BY <2>1 DEF SavingInv, Onward
  <2>5. Editing(pg)' => /\ mounted'[pg].project = view'[pg].active
                        /\ mounted'[pg].base = view'[pg].projects[view'[pg].active].doc
    BY <2>1 DEF SavingInv
  <2> QED BY <2>1, <2>2, <2>3, <2>4, <2>5, SteadyStep
<1>3. CASE HearRefresh(pg, t)
  <2>1. /\ HearKept(pg, t)
        /\ task[pg][t].pc = "got" /\ view'[pg] = task[pg][t].envelope
        /\ task[pg][t].phase # "started" =>
             /\ Go(pg, t, Idle)
             /\ ~ task[pg][t].soft /\ Editing(pg)' =>
                  /\ mounted'[pg].project = view'[pg].active
                  /\ mounted'[pg].base = view'[pg].projects[view'[pg].active].doc
    BY <1>3, HearRefreshKeeps
  <2>2. task[pg][t].phase # "started" /\ ~ task[pg][t].soft
        /\ Older(store, task[pg][t].envelope)
    BY <1>1, <2>1 DEF NoSoftPaint, TaskOK, Idle, Steady
  <2>3. Steady(store', Idle)
    BY DEF Steady, Idle
  <2>4. Onward(store, store')
    BY <2>1 DEF HearKept, Onward
  <2> QED BY <2>1, <2>2, <2>3, <2>4, SteadyStep DEF HearKept
<1>4. ~ HearAISupport(pg, t)
  BY <1>1 DEF HearAISupport, Steady
<1> QED BY <1>2, <1>3, <1>4 DEF Page

LEMMA SavingNext ==
  ASSUME NoSoftPaint, PageInv, SavingInv, [Next]_vars
  PROVE  SavingInv'
<1>1. ASSUME NEW pg \in Pages, Edit(pg)
      PROVE  SavingInv'
  <2>1. PICK doc \in Docs : mounted' = [mounted EXCEPT ![pg].doc = doc]
    BY <1>1 DEF Edit
  <2>2. store' = store /\ view' = view /\ task' = task /\ Editing(pg)
    BY <1>1 DEF Edit
  <2>3. mounted[pg] \in Editor(pg) /\ DOMAIN mounted = Pages
    BY <2>2 DEF PageInv, TypeOK, Editing
  <2>4. /\ [mounted[pg] EXCEPT !.doc = doc].project = mounted[pg].project
        /\ [mounted[pg] EXCEPT !.doc = doc].base = mounted[pg].base
    BY <2>3 DEF Editor
  <2>5. \A q \in Pages : Editing(q)' => /\ Editing(q)
                                        /\ mounted'[q].project = mounted[q].project
                                        /\ mounted'[q].base = mounted[q].base
    BY <2>1, <2>2, <2>3, <2>4 DEF Editing
  <2> QED BY <2>2, <2>5 DEF SavingInv
<1>2. CASE UNCHANGED vars
  BY <1>2 DEF vars, SavingInv, Editing
<1> QED BY <1>1, <1>2, SavingUser, SavingWorker, SavingPage DEF Next

\* The worker takes a save only onto the document its editor was mounted with.
LEMMA TakenOnItsBase ==
  ASSUME PageInv, SavingInv, [Next]_vars, NEW pg \in Pages, NEW t \in Tasks[pg],
         Takes(pg, t), task[pg][t].kind = "save"
  PROVE  store.projects[task[pg][t].cmd.id].doc = task[pg][t].origin.base
<1>1. task[pg][t].pc = "sent" /\ task'[pg][t].pc = "answered" /\ store' # store
  BY DEF Takes
<1>2. TaskOK(task[pg][t]) /\ Steady(store, task[pg][t]) /\ TasksTyped
      /\ IsEnvelope(store) /\ EnvelopeOK(store)
  BY PageTypes DEF PageInv, TypeOK, SavingInv, EnvelopesGood
<1> DEFINE cmd == task[pg][t].cmd
<1>3. cmd \in Command /\ cmd.op = "save" /\ Dated(store, cmd.id, cmd.expected, task[pg][t].origin.base)
  BY <1>1, <1>2 DEF TaskOK, Idle, Steady
<1>4. ServeCommand(pg, t)
  <2>1. PICK q \in Pages : \E u \in Tasks[q] : ServeCommand(q, u)
    <3>1. Next
      BY <1>1 DEF vars
    <3>2. \A q \in Pages : ~ Edit(q)
      BY <1>1 DEF Edit
    <3>3. \A q \in Pages : \A u \in Tasks[q] : ~ User(q, u)
      BY <1>1, UserSends
    <3>4. \A q \in Pages : \A u \in Tasks[q] : ~ Page(q, u)
      BY <1>1 DEF Page, HearAnswer, HearFailedRefresh, HearRefresh, HearAISupport
    <3>5. \A q \in Pages : \A u \in Tasks[q] : Worker(q, u) => ServeCommand(q, u)
      BY <1>1 DEF Worker, RefuseCommand, ServeRefresh
    <3> QED BY <3>1, <3>2, <3>3, <3>4, <3>5 DEF Next
  <2>2. PICK u \in Tasks[q] : ServeCommand(q, u)
    BY <2>1
  <2>3. PICK k : Go(q, u, k)
    BY <2>2 DEF ServeCommand
  <2>4. q = pg /\ u = t
    BY <1>1, <1>2, <2>3, GoMoves
  <2> QED BY <2>2, <2>4
<1>5. PICK stamp \in Stamps : store' = Build(cmd, store, stamp).next
  BY <1>4 DEF ServeCommand
<1>6. Build(cmd, store, stamp) = BuildSave(store, cmd, stamp)
  BY <1>3 DEF Build
<1>7. cmd.id \in Ids(store) /\ store.projects[cmd.id].revision = cmd.expected
  BY <1>1, <1>5, <1>6 DEF BuildSave, Has, Failure, Conflict
<1>8. store.projects[cmd.id].revision \in Nat
  BY <1>2, <1>7, ProjectTyped DEF Project
<1> QED BY <1>3, <1>7, <1>8 DEF Dated

\* saveProject and the editor's save callback in extension-page-entry.ts: a save
\* replaces the very document its draft was made from, whatever other pages have
\* committed and however old the page's state is.  The hypothesis cannot be dropped:
\* a refresh patched in after an Enable button, and one that waits for the AI check,
\* both bring a newer revision under an older draft, and its save then overwrites.
THEOREM SavesReplaceTheirBase == ASSUME NoSoftPaint PROVE Spec => SaveReplacesItsBase
<1>1. Init => PageInv /\ SavingInv
  BY PageInit, SavingInit
<1>2. PageInv /\ SavingInv /\ [Next]_vars => (PageInv /\ SavingInv)'
  BY PageNext, SavingNext
<1>3. PageInv /\ SavingInv /\ [Next]_vars =>
        [\A pg \in Pages : \A t \in Tasks[pg] :
           (Takes(pg, t) /\ task[pg][t].kind = "save")
             => store.projects[task[pg][t].cmd.id].doc = task[pg][t].origin.base]_vars
  BY TakenOnItsBase
<1> QED BY <1>1, <1>2, <1>3, PTL DEF Spec, SaveReplacesItsBase

=============================================================================
