SPECIFICATION FairSpec
CONSTANTS
  j1 = j1
  j2 = j2
  j3 = j3
  e1 = e1
  e2 = e2
  o1 = o1
  NoJob = NoJob
  Jobs = {j1, j2}
  Executors = {e1, e2}
  Drainers = {e1}
  Operators = {o1}
  Priorities = {0}
  MaxConcurrent = 1
  CliWindow = 1
  MaxResumes = 1
  MaxCrashes = 1
INVARIANTS
  TypeOK
  OneExecutorPerJob
  RunningHasOwner
PROPERTIES
  FollowsLifecycle
  EveryJobSettles
