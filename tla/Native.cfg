SPECIFICATION MCSpec
CONSTANTS
  Dirs = {d1, d2}
  Extensions = {x, y}
  None = None
  Broken = Broken
  Stores = {"keychain", "debian", "p11kit"}
  MayFail = {"file", "caps", "trust", "retire", "remover"}
  MaxCAs = 4
  MaxCommands = 4
  MaxCrashes = 2
  MaxFaults = 2
  MaxBreaks = 2
  Clients = {c1, c2}
  Policies <- MCPolicies
  ProxyUrls <- MCProxyUrls
  Methods = {"GET", "POST"}
  Rules = {1, 2, 3}
  Digests = {"d1", "d2"}
  Public = {1}
  Private = {2}
  Inputs <- MCInputs
  Descriptors <- MCDescriptors
  Configs <- MCConfigs
  Projects <- MCProjects
  SiteUrls <- MCSiteUrls
  Types = {"xhr", "image"}
  MaxMocks = 1
  MaxErrors = 1
  BootstrapLife = 1
  SessionLife = 2
  MaxNow = 3
  Tokens = {t1, t2}
  MaxSessions = 2
  Renderings = {s1, s2}
  Roots = {root}
  MaxPieces = 5
CHECK_DEADLOCK FALSE
INVARIANTS
  AnchorsKnown
  ReportsAreTrue
  OnePolicyPerRequest
  PairedOnce
  AppliesExactly
  ScanExact
SYMMETRY NativeSymmetry
