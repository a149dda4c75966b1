SPECIFICATION ServicesSpec
CONSTANTS
  None = None
  Hosts = {h1, h2}
  Sessions = {s1}
  Projects = {p, q}
  Routed = {p}
  Bodies = {p}
  Mocks = {p, q}
  Faults = {"project", "trust", "proxy", "rules", "slow", "exit"}
  MaxFrames = 1
  Sets = {A, B, C}
  MaxApplies = 2
  Base = 4
  MaxFrame = 4
  Streams <- MCStreams
  Jobs = {j1, j2, j3}
  Workers = {w1, w2}
  Drafts <- MCDrafts
  Answers <- MCAnswers
  FirstId = 4
  Fallback = "a"
  MaxRequests = 2
  MaxEdits = 1
INVARIANTS
  MocksServed
  OutcomesHonest
  FramesExact
  ApplyIsWhatWasChecked
PROPERTIES
  CommandsEnd
  AllServed
  EveryJobSettles
  ExtensionSettles
CHECK_DEADLOCK FALSE
