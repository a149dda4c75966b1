SPECIFICATION FairSpec
CONSTANTS
  h1 = h1
  h2 = h2
  dA = dA
  dA2 = dA2
  dB = dB
  dC = dC
  a = a
  b = b
  c = c
  g = g
  root = root
  Docs <- MCDocs
  DocName <- MCDocName
  DocGroups <- MCDocGroups
  InvalidDoc = InvalidDoc
  Names = {a, b, c}
  Groups = {g}
  Roots = {root}
  NoRoot = NoRoot
  RelativeRoot = RelativeRoot
  NoRevision = NoRevision
  NoProject = NoProject
  NoCommand = NoCommand
  Handlers = {h1, h2}
  ProjectIds <- MCIds
  Requests <- MCRequests
  Stamps = {1}
  MaxProjects = 2
  MaxRevision = 3
INVARIANTS
  TypeOK
  StoreOK
PROPERTIES
  OnlySwitchMovesSelection
  EveryCommandAnswered
  CommitsAreSerial
  NoLostUpdate
  NewContentIsDisabled
  Refinement
