SPECIFICATION OneSpec
CONSTANTS
  h1 = h1
  h2 = h2
  dA = dA
  dA2 = dA2
  dB = dB
  dC = dC
  dC2 = dC2
  dD = dD
  a = a
  b = b
  g1 = g1
  g2 = g2
  x = x
  y = y
  native = native
  Docs = {dA, dA2, dB, dC, dC2, dD}
  DocName <- MCDocName
  DocGroups <- MCDocGroups
  InvalidDoc = InvalidDoc
  Names = {a, b}
  Groups = {g1, g2}
  Roots = {}
  NoRoot = NoRoot
  RelativeRoot = RelativeRoot
  NoRevision = NoRevision
  NoProject = NoProject
  ProjectIds = {1, 2}
  Stamps = {1}
  MaxProjects = 2
  Rules = {1, 2, 3, 4, 5, 6, 11, 12, 13, 14, 15, 16, 17}
  Bodies = {x, y, native}
  DynamicBodies = {native}
  UrlIds = 4
  Handlers = {h1}
  Commands <- ToggleSwitch
  DocOps <- MCDocOps
  Hash <- MCHash
  Stored <- AllDisabled
  MayFail = {}
  Stops = {"idle"}
  MaxRevision = 3
PROPERTIES
  ProjectionSettlesRules
