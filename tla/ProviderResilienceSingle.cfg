SPECIFICATION Spec
CONSTANTS
  a = a
  b = b
  r1 = r1
  r2 = r2
  Providers = {a}
  Chains <- OneProvider
  Requests = {r1, r2}
  NativeBatch = FALSE
  BatchSize = 1
  FailureThreshold = 2
  CooldownBase = 1
  CooldownMax = 2
  WindowSeconds = 1
  MaxRequests = 2
  MaxKept = 2
INVARIANTS
  SingleTest
