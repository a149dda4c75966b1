SPECIFICATION Spec
CONSTANTS
  None = None
  Hosts = {h1, h2}
  Sessions = {s1}
  Projects = {p, q}
  Routed = {p}
  Bodies = {p}
  Mocks = {}
  Faults = {"trust"}
  MaxFrames = 2
INVARIANTS
  StartedBodiesInstalled
