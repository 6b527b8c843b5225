SPECIFICATION FairSpec
CONSTANTS
  a = a
  b = b
  r1 = r1
  r2 = r2
  Providers = {a, b}
  Chains <- OneOrTwo
  Requests = {r1, r2}
  NativeBatch = TRUE
  BatchSize = 1
  FailureThreshold = 2
  CooldownBase = 1
  CooldownMax = 2
  WindowSeconds = 1
  MaxRequests = 1
  MaxKept = 3
INVARIANTS
  TypeOK
  BudgetOvershootBounded
  ClosedUnlessFailing
PROPERTIES
  RecoversWhenUp
