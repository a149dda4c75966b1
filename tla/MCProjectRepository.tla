------------------------- MODULE MCProjectRepository -------------------------
(* Small instances of ProjectRepository for TLC. *)
EXTENDS ProjectRepository

CONSTANTS
  h1, h2,           \* handlers
  dA, dA2, dB, dC,  \* documents: two named a (one with a group), one each b and c
  a, b, c,            \* names
  g,                \* a group
  root              \* an absolute mock file root

MCDocs == {dA, dA2, dB, dC}
MCDocName == [d \in MCDocs |-> CASE d = dB -> b [] d = dC -> c [] OTHER -> a]
MCDocGroups == [d \in MCDocs |-> IF d = dA THEN {g} ELSE {}]

\* Two handlers, three ids, a limit of two: names, limit and selection, and
\* saves, toggles and root changes of one project that race.
MCIds == 1..3
MCRequests ==
  {[op |-> "create", id |-> 1, doc |-> dA], [op |-> "create", id |-> 2, doc |-> dB]}
    \cup [op: {"import"}, byId: {FALSE}, id: {3}, doc: {dC}, expected: {NoRevision}]
    \cup [op: {"import"}, byId: {TRUE}, id: {1}, doc: {dB}, expected: {1}]
    \cup [op: {"save"}, id: {1}, doc: {dA2}, expected: {1, 2}]
    \cup [op: {"enable"}, id: {1}, group: {g}, on: {TRUE}]
    \cup [op: {"root"}, id: {1}, root: {root}]
    \cup [op: {"switch"}, id: {2}]
    \cup [op: {"remove"}, id: {1}]
=============================================================================
