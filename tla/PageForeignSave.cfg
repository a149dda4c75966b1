SPECIFICATION Spec
CONSTANTS
  p1 = p1
  p2 = p2
  t1 = t1
  t2 = t2
  t3 = t3
  dA = dA
  dA2 = dA2
  dB = dB
  a = a
  b = b
  c = c
  g = g
  Docs = {dA, dA2, dB}
  DocName <- MCDocName
  DocGroups <- MCDocGroups
  InvalidDoc = InvalidDoc
  Names = {a, b, c}
  Groups = {g}
  Roots = {}
  NoRoot = NoRoot
  RelativeRoot = RelativeRoot
  NoRevision = NoRevision
  NoProject = NoProject
  NoEditor = NoEditor
  NoTask = NoTask
  ProjectIds = {1, 2}
  Stamps = {1}
  MaxProjects = 2
  Stored <- TwoProjects
  Pages = {p1, p2}
  Tasks <- MCTasks
  Can <- ForeignCan
  Phases = {"started"}
  Heard = {TRUE, FALSE}
  MaxRevision = 2
CHECK_DEADLOCK FALSE
PROPERTIES
  DraftStaysHome
