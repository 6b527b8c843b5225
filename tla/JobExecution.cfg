SPECIFICATION FairSpec
CONSTANTS
  j1 = j1
  j2 = j2
  w1 = w1
  w2 = w2
  NoJob = NoJob
  Jobs = {j1, j2}
  Drained = {j2}
  Workers = {w1, w2}
  MaxFiles = 2
  FileCounts <- OneOrTwoFiles
  QueueCap = 1
  ProgressEvery = 1
  MaxStarts = 2
  MaxErrors = 1
INVARIANTS
  TypeOK
  EveryTaskInOnePlace
  JoinWaitsForAll
  JobsMissOnlyWhatIsOwed
  FailuresFailTheJob
PROPERTIES
  StopReturns
  ExecutionReturns
CHECK_DEADLOCK FALSE
