SPECIFICATION Spec
CONSTANTS
  c1 = c1
  c2 = c2
  d1 = d1
  vendor = vendor
  main = main
  other = other
  file = file
  ta = ta
  tb = tb
  proj = proj
  empty = empty
  i1 = i1
  i2 = i2
  Users = {c1, c2}
  Erasures = {1, 2}
  Nobody = Nobody
  MaxAccountFaults = 1
  Documents = {d1}
  Collections = {main, other}
  Default = main
  Fields = {vendor}
  Unread = {}
  Operators = {c1, c2}
  MaxRules = 3
  MaxTime = 2
  MaxCrashes = 1
  Files = {file}
  TagNames = {ta, tb}
  Taggers = {c1, c2}
  MaxTags = 1
  MaxFailures = 1
  Kinds = {"jira", "server", "cloud", "git"}
  Docs = {1, 2}
  Projects = {proj, empty}
  ProjectOf <- MCProjectOf
  FileName <- MCFileName
  Unparsable = {}
  Unlisted = {empty}
  PageSize = 1
  MaxChanges = 2
  MaxFaults = 1
  Openers = {c1, c2}
  MaxKills = 2
  Runners = {c1, c2}
  RunIds = {i1, i2}
  Original = Original
  Absent = Absent
  MaxRuns = 2
  MaxExpFaults = 1
INVARIANTS
  StoresTypeOK
  ErasedStaysOut
  IngestedValueIsSaved
  RepeatingRepairs
  UnstagedIsFetched
  VersionTellsTables
  RacesAreWon
  MeasuresItsOwnCollection
SYMMETRY Symmetry
CHECK_DEADLOCK FALSE
