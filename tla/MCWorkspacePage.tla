--------------------------- MODULE MCWorkspacePage ---------------------------
(* Two pages over a profile with two projects. *)
EXTENDS WorkspacePage, TLC

CONSTANTS p1, p2, t1, t2, t3, dA, dA2, dB, a, b, c, g

MCDocName == [d \in Docs |-> CASE d = dA -> a [] d = dA2 -> c [] d = dB -> b]
MCDocGroups == [d \in Docs |-> {g}]

Untouched(doc) == [name |-> MCDocName[doc], doc |-> doc, revision |-> 1,
               updatedAt |-> 1, enabled |-> {}, root |-> NoRoot]

TwoProjects == [projects |-> [p \in {1, 2} |-> Untouched(IF p = 1 THEN dA ELSE dB)],
                active |-> 1]

\* Two async functions at once on the first page, one on the second.
MCTasks == [pg \in {p1, p2} |-> IF pg = p1 THEN {t1, t2} ELSE {t3}]
OneTask == [pg \in {p1, p2} |-> IF pg = p1 THEN {t1} ELSE {t3}]
TaskSymmetry == Permutations({t1, t2})

\* One page edits, saves and toggles; the other removes the active project.
PaintCan == [pg \in {p1, p2} |-> IF pg = p1 THEN {"save", "toggle"} ELSE {"remove"}]
\* Both pages edit and save; one refreshes and switches.
SavingCan == [pg \in {p1, p2} |-> IF pg = p1 THEN {"refresh", "save", "switch"}
                                   ELSE {"save"}]
\* One page only refreshes and saves while the other moves the selection.
ForeignCan == [pg \in {p1, p2} |-> IF pg = p1 THEN {"refresh", "save"}
                                    ELSE {"switch", "remove"}]
=============================================================================
