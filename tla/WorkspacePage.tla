---------------------------- MODULE WorkspacePage ----------------------------
(***************************************************************************)
(* Management pages (tabs) over the service worker.  A page keeps the last *)
(* envelope it received and, on its Workspace tab, a mounted editor with a *)
(* draft; every user action is an async function of the page that sends a  *)
(* message, waits, and refreshes.  Several of them may be between two      *)
(* awaits at once; each is a task here.                                    *)
(*                                                                         *)
(* The worker is the atomic store that ProjectRepository implements: a     *)
(* command takes effect in one step.  Its answer may get lost (the worker  *)
(* is stopped after the commit), and answers may overtake each other.      *)
(***************************************************************************)
EXTENDS ProjectEnvelope

CONSTANTS
  Pages,        \* open management pages
  Tasks,        \* Tasks[pg]: async functions of page pg that may run at once
  Can,          \* Can[pg]: the actions the user takes on page pg
  Phases,       \* phases of the native runtime a refresh may report
  Heard,        \* whether the answer to a committed command reaches the page
  Stored,       \* the envelope the profile holds at the start
  NoEditor,     \* no editor is mounted
  NoTask,       \* no save is pending in an editor
  MaxRevision   \* bound on the revision of a stored project

Actions == {"refresh", "save", "toggle", "switch", "remove"}

ASSUME PageAssumption ==
  /\ Can \in [Pages -> SUBSET Actions]
  /\ Phases \subseteq {"started", "stopped"}
  /\ IsEnvelope(Stored) /\ EnvelopeOK(Stored)
  /\ Heard \subseteq BOOLEAN
  /\ \A pg \in Pages : NoTask \notin Tasks[pg]
  /\ MaxRevision \in Nat

VARIABLES
  store,      \* the committed envelope
  view,       \* view[pg]: the page's state, the last envelope it received
  ai,         \* ai[pg]: aiSupported
  mounted,    \* mounted[pg]: the page's editor
  task        \* task[pg][t]: where the async function t of the page is

vars == <<store, view, ai, mounted, task>>

Idle == [pc |-> "idle"]

\* Everything the page sent from an editor remembers which project and which
\* document that editor was mounted with.
Editor(pg) == [project: ProjectIds, base: Docs, doc: Docs,
               saving: Tasks[pg] \cup {NoTask}]
Origin == [project: ProjectIds, base: Docs]

TaskOK(k) ==
  \/ k = Idle
  \/ /\ k.pc = "sent" /\ k.kind \in Actions \ {"refresh"} /\ k.cmd \in Command
     /\ k.origin \in Origin
  \/ k.pc = "answered" /\ k.kind \in Actions /\ k.ok \in BOOLEAN
  \/ k.pc = "asked" /\ k.soft \in BOOLEAN
  \/ k.pc = "failed" /\ k.soft \in BOOLEAN
  \/ /\ k.pc = "got" /\ k.soft \in BOOLEAN /\ IsEnvelope(k.envelope)
     /\ k.phase \in Phases
  \/ k.pc = "checking" /\ {k.soft, k.moved, k.hadAI} \subseteq BOOLEAN

TypeOK ==
  /\ IsEnvelope(store)
  /\ DOMAIN view = Pages /\ \A pg \in Pages : IsEnvelope(view[pg])
  /\ ai \in [Pages -> BOOLEAN]
  /\ DOMAIN mounted = Pages
  /\ \A pg \in Pages : mounted[pg] \in Editor(pg) \cup {NoEditor}
  /\ DOMAIN task = Pages
  /\ \A pg \in Pages : /\ DOMAIN task[pg] = Tasks[pg]
                       /\ \A t \in Tasks[pg] : TaskOK(task[pg][t])

\* A page refreshes when it is opened.
Init ==
  /\ store = Stored
  /\ view = [pg \in Pages |-> EmptyEnvelope]
  /\ ai = [pg \in Pages |-> FALSE]
  /\ mounted = [pg \in Pages |-> NoEditor]
  /\ \E first \in [Pages -> UNION {Tasks[pg] : pg \in Pages}] :
       /\ \A pg \in Pages : first[pg] \in Tasks[pg]
       /\ task = [pg \in Pages |-> [t \in Tasks[pg] |->
                   IF t = first[pg] THEN [pc |-> "asked", soft |-> FALSE] ELSE Idle]]

Go(pg, t, k) == task' = [task EXCEPT ![pg][t] = k]
Free(pg, t)  == task[pg][t].pc = "idle"

\* renderShell: the editor is destroyed, and mounted anew on the active project.
Render(pg, env) ==
  mounted' = [mounted EXCEPT ![pg] =
    IF env.active = NoProject THEN NoEditor
    ELSE LET doc == env.projects[env.active].doc
         IN  [project |-> env.active, base |-> doc, doc |-> doc,
              saving |-> NoTask]]

-----------------------------------------------------------------------------
(* The user.                                                               *)

Editing(pg) == mounted[pg] # NoEditor
Dirty(pg)   == Editing(pg) /\ mounted[pg].doc # mounted[pg].base
Saving(pg)  == Editing(pg) /\ mounted[pg].saving # NoTask
From(pg)    == [project |-> mounted[pg].project, base |-> mounted[pg].base]

Edit(pg) ==
  /\ "save" \in Can[pg]
  /\ Editing(pg) /\ ~Saving(pg)
  /\ \E doc \in Docs : mounted' = [mounted EXCEPT ![pg].doc = doc]
  /\ UNCHANGED <<store, view, ai, task>>

Sent(kind, cmd, origin) ==
  [pc |-> "sent", kind |-> kind, cmd |-> cmd, origin |-> origin]

\* The editor's save callback: project and revision come from the page's state.
Save(pg, t) ==
  /\ "save" \in Can[pg] /\ Free(pg, t)
  /\ Dirty(pg) /\ ~Saving(pg)
  /\ view[pg].active # NoProject
  /\ LET id == view[pg].active
         cmd == [op |-> "save", id |-> id, doc |-> mounted[pg].doc,
                 expected |-> view[pg].projects[id].revision]
     IN  Go(pg, t, Sent("save", cmd, From(pg)))
  /\ mounted' = [mounted EXCEPT ![pg].saving = t]
  /\ UNCHANGED <<store, view, ai>>

\* The Enable button of a group: the group is one of the mounted document's,
\* the project and the next value come from the page's state.
Toggle(pg, t) ==
  /\ "toggle" \in Can[pg] /\ Free(pg, t)
  /\ Editing(pg)
  /\ view[pg].active # NoProject
  /\ \E group \in DocGroups[mounted[pg].base] :
       LET id == view[pg].active
           cmd == [op |-> "enable", id |-> id, group |-> group,
                   on |-> group \notin view[pg].projects[id].enabled]
       IN  Go(pg, t, Sent("toggle", cmd, From(pg)))
  /\ UNCHANGED <<store, view, ai, mounted>>

Switch(pg, t) ==
  /\ "switch" \in Can[pg] /\ Free(pg, t) /\ Editing(pg)
  /\ \E id \in Ids(view[pg]) \ {view[pg].active} :
       Go(pg, t, Sent("switch", [op |-> "switch", id |-> id], From(pg)))
  /\ UNCHANGED <<store, view, ai, mounted>>

Remove(pg, t) ==
  /\ "remove" \in Can[pg] /\ Free(pg, t) /\ Editing(pg)
  /\ view[pg].active # NoProject
  /\ Go(pg, t, Sent("remove", [op |-> "remove", id |-> view[pg].active], From(pg)))
  /\ UNCHANGED <<store, view, ai, mounted>>

Refresh(pg, t) ==
  /\ "refresh" \in Can[pg] /\ Free(pg, t)
  /\ Go(pg, t, [pc |-> "asked", soft |-> FALSE])
  /\ UNCHANGED <<store, view, ai, mounted>>

-----------------------------------------------------------------------------
(* The worker.                                                             *)

WithinBound(env) == \A p \in Ids(env) : env.projects[p].revision <= MaxRevision

\* A command takes effect; the page hears of it, or only that it failed.
ServeCommand(pg, t) ==
  /\ task[pg][t].pc = "sent"
  /\ \E stamp \in Stamps, heard \in Heard :
       LET mutation == Build(task[pg][t].cmd, store, stamp)
       IN  /\ WithinBound(mutation.next)
           /\ store' = mutation.next
           /\ Go(pg, t, [pc |-> "answered", kind |-> task[pg][t].kind,
                         ok |-> heard /\ mutation.kind = "commit"])
  /\ UNCHANGED <<view, ai, mounted>>

\* The storage, or the worker, fails before the command takes effect.
RefuseCommand(pg, t) ==
  /\ task[pg][t].pc = "sent"
  /\ Go(pg, t, [pc |-> "answered", kind |-> task[pg][t].kind, ok |-> FALSE])
  /\ UNCHANGED <<store, view, ai, mounted>>

ServeRefresh(pg, t) ==
  /\ task[pg][t].pc = "asked"
  /\ \/ \E phase \in Phases :
          Go(pg, t, [pc |-> "got", soft |-> task[pg][t].soft,
                     envelope |-> store, phase |-> phase])
     \/ Go(pg, t, [pc |-> "failed", soft |-> task[pg][t].soft])
  /\ UNCHANGED <<store, view, ai, mounted>>

-----------------------------------------------------------------------------
(* The page goes on after an await.                                        *)

\* Mutant of HearAnswer: a refused save leaves the editor locked.
HearAnswerLocked(pg, t) ==
  /\ task[pg][t].pc = "answered"
  /\ IF task[pg][t].ok THEN Go(pg, t, [pc |-> "asked", soft |-> FALSE])
     ELSE Go(pg, t, Idle)
  /\ UNCHANGED <<store, view, ai, mounted>>

\* The answer to a command.  A toggle refreshes in any case, without a remount;
\* the others refresh when they succeeded.
HearAnswer(pg, t) ==
  /\ task[pg][t].pc = "answered"
  /\ LET kind == task[pg][t].kind
     IN  \/ /\ task[pg][t].ok \/ kind = "toggle"
            /\ Go(pg, t, [pc |-> "asked", soft |-> kind = "toggle"])
            /\ UNCHANGED mounted
         \/ /\ ~task[pg][t].ok /\ kind = "save"
            /\ Go(pg, t, Idle)
            /\ mounted' = IF Editing(pg) /\ mounted[pg].saving = t
                          THEN [mounted EXCEPT ![pg].saving = NoTask]
                          ELSE mounted
         \/ /\ ~task[pg][t].ok /\ kind \in {"switch", "remove"}
            /\ Go(pg, t, Idle)
            /\ Render(pg, view[pg])
  /\ UNCHANGED <<store, view, ai>>

\* A refresh that failed paints the page from the state it has.
HearFailedRefresh(pg, t) ==
  /\ task[pg][t].pc = "failed"
  /\ Go(pg, t, Idle)
  /\ IF task[pg][t].soft THEN UNCHANGED mounted ELSE Render(pg, view[pg])
  /\ UNCHANGED <<store, view, ai>>

\* Mutant of Patches: a soft refresh is patched in across a change of project.
PatchesAlways(soft, moved, aiChanged) == soft /\ ~aiChanged

\* A soft refresh keeps the editor unless the active project or the support of
\* AI assistance changed.
Patches(soft, moved, aiChanged) == soft /\ ~moved /\ ~aiChanged

\* refresh() after its first await: the page's state is replaced.  With the
\* runtime started the page awaits the AI check before it paints.
HearRefresh(pg, t) ==
  /\ task[pg][t].pc = "got"
  /\ LET k == task[pg][t]
         moved == view[pg].active # k.envelope.active
     IN  /\ view' = [view EXCEPT ![pg] = k.envelope]
         /\ IF k.phase = "started"
            THEN /\ Go(pg, t, [pc |-> "checking", soft |-> k.soft,
                               moved |-> moved, hadAI |-> ai[pg]])
                 /\ UNCHANGED <<ai, mounted>>
            ELSE /\ Go(pg, t, Idle)
                 /\ ai' = [ai EXCEPT ![pg] = FALSE]
                 /\ IF Patches(k.soft, moved, ai[pg]) THEN UNCHANGED mounted
                    ELSE Render(pg, k.envelope)
  /\ UNCHANGED store

\* checkNativeAISupport() returned: paint from the state as it is now.
HearAISupport(pg, t) ==
  /\ task[pg][t].pc = "checking"
  /\ \E supported \in BOOLEAN :
       LET k == task[pg][t]
       IN  /\ ai' = [ai EXCEPT ![pg] = supported]
           /\ IF Patches(k.soft, k.moved, k.hadAI # supported)
              THEN UNCHANGED mounted
              ELSE Render(pg, view[pg])
  /\ Go(pg, t, Idle)
  /\ UNCHANGED <<store, view>>

User(pg, t) ==
  Save(pg, t) \/ Toggle(pg, t) \/ Switch(pg, t) \/ Remove(pg, t) \/ Refresh(pg, t)

Worker(pg, t) == ServeCommand(pg, t) \/ RefuseCommand(pg, t) \/ ServeRefresh(pg, t)

Page(pg, t) ==
  \/ HearAnswer(pg, t)
  \/ HearFailedRefresh(pg, t)
  \/ HearRefresh(pg, t)
  \/ HearAISupport(pg, t)

Next == \E pg \in Pages :
          \/ Edit(pg)
          \/ \E t \in Tasks[pg] : User(pg, t) \/ Worker(pg, t) \/ Page(pg, t)

Spec == Init /\ [][Next]_vars

\* Every message is answered, if only by its port closing, and every callback
\* of the page runs.
Fairness == \A pg \in Pages : \A t \in Tasks[pg] :
              WF_vars(Worker(pg, t) \/ Page(pg, t))
FairSpec == Spec /\ Fairness

-----------------------------------------------------------------------------
(* Properties.                                                             *)

\* The step in which the command of task t takes effect.
Takes(pg, t) == task[pg][t].pc = "sent" /\ task'[pg][t].pc = "answered"
                  /\ store' # store

\* What an editor sends changes the project it was mounted on: "the mounted
\* draft belongs to the previous project and must not be saved against the new
\* active id" (refresh in extension-page-entry.ts).
DraftStaysHome ==
  [][\A pg \in Pages : \A t \in Tasks[pg] :
       (Takes(pg, t) /\ task[pg][t].kind \in {"save", "toggle"})
         => task[pg][t].cmd.id = task[pg][t].origin.project]_vars

\* While no refresh waits for the AI check, an editor shows the project that
\* the page takes for the active one.
EditorShowsActive ==
  \A pg \in Pages :
    (Editing(pg) /\ \A t \in Tasks[pg] : task[pg][t].pc # "checking")
      => mounted[pg].project = view[pg].active

\* A save replaces the very document its draft was made from: what another page
\* committed in between makes it a conflict (AC-008 of f7-extension-shell.md,
\* the expected revision of saveProject).
SaveReplacesItsBase ==
  [][\A pg \in Pages : \A t \in Tasks[pg] :
       (Takes(pg, t) /\ task[pg][t].kind = "save")
         => store.projects[task[pg][t].cmd.id].doc = task[pg][t].origin.base]_vars

\* An editor that waits for its save gets unlocked or replaced (saveDraft).
SavingEnds == \A pg \in Pages : Saving(pg) ~> ~Saving(pg)
=============================================================================
