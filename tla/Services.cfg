SPECIFICATION Spec
CONSTANTS
  n1 = n1
  n2 = n2
  u1 = u1
  u2 = u2
  reindexAtStart = reindexAtStart
  f1 = f1
  f2 = f2
  k1 = k1
  k2 = k2
  health = health
  mcp = mcp
  x = x
  jira = jira
  all = all
  w1 = w1
  w2 = w2
  Schedules = {1}
  Nodes = {n1, n2}
  HourLength = 2
  HourCount = 1
  Expressions <- MCExpressions
  MaxFailures = 1
  MaxEvents = 3
  Readers = {u1, u2}
  Startup = reindexAtStart
  Fields = {f1, f2}
  MaxRuns = 2
  MaxScanErrors = 1
  Loaders = {health, mcp}
  Writer = health
  Keys = {k1, k2}
  Seeded = {k1}
  Settings = {x}
  Unset = Unset
  MaxWrites = 2
  MaxRestarts = 2
  MaxReadErrors = 1
  Chunks = {1, 2, 3, 4}
  Documents = {"a", "b"}
  DocumentOf <- MCDocumentOf
  IndexOf <- MCIndexOf
  Collections = {"main", "other"}
  DefaultCollection = "main"
  NoCollection = NoCollection
  CollectionOf <- MCCollectionOf
  KeptBy <- MCKeptBy
  Orders <- MCOrders
  Depths = {3}
  TopKs = {1, 2}
  Limits = {1, 3}
  RerankCap = 2
  HybridCap = 2
  PageSize = 2
  ScrollSlack = 1
  SampleSize = 2
  MaxIndexChanges = 1
  RequestsPerMinute = 75
  Limiters = {jira, all}
  Tasks = {w1, w2}
  Demands = {1, 2}
  Paths <- MCPaths
  MaxCalls = 4
INVARIANTS
  ServicesTypeOK
  TriggersPerMinuteBounded
  TermsNotStale
  UndisturbedAnswersAreComplete
PROPERTIES
  EveryEventIsFollowedByAnAttempt
  ChangesReachEveryProcess
  EveryWaiterGoesOn
CHECK_DEADLOCK FALSE
