SPECIFICATION Spec
CONSTANTS
  j1 = j1
  j2 = j2
  j3 = j3
  e1 = e1
  e2 = e2
  o1 = o1
  NoJob = NoJob
  Jobs = {j1, j2, j3}
  Executors = {e1, e2}
  Drainers = {}
  Operators = {}
  Priorities = {0, 50}
  MaxConcurrent = 1
  CliWindow = 2
  MaxResumes = 1
  MaxCrashes = 1
INVARIANTS
  CapacityOvershootBounded
SYMMETRY JobSymmetry
