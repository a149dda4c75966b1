SPECIFICATION MCSpec
CONSTANTS
  None = None
  Other = Other
  Null = Null
  MaxRevision = 2
  MaxGroups = 2
  MaxRules = 4
  MaxTokens = 3
  MaxOffers = 1
  MaxRuns = 4
  named = named
  nameless = nameless
  Servers = {s1, s2}
  Paths = {f1, f2}
  Docs = {named, other}
  BadDocs = {nameless}
  Fresh <- MCFresh
  WithName <- MCWithName
  Requests = {r1, r2}
  Roots = {root}
  MaxPriority = 3
  MaxItems = 2
  MaxPattern = 6
  InitialDrafts <- MCDrafts
  Typed <- MCTyped
  Proposals <- MCProposals
  Kinds = {"redirect", "query"}
  Worlds <- MCWorlds
  Live <- MCLive
  MaxChanges = 1
INVARIANT
  DollarsStayLiteral
CHECK_DEADLOCK FALSE
SYMMETRY ServerSymmetry
