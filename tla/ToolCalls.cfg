SPECIFICATION Spec
CONSTANTS
  c1 = c1
  c2 = c2
  s1 = s1
  s2 = s2
  q1 = q1
  q2 = q2
  RequestsPerMinute = 75
  MaxSize = 17
  TTL = 1
  Calls = {c1, c2}
  Subjects = {s1, s2}
  Queries = {q1, q2}
  Matches <- OneMore
  Transports = {"stdio", "streamable-http"}
  CleanupInterval = 2
  MaxVersion = 1
  MaxTime = 2
INVARIANTS
  TypeOK
  GrantsWithinRate
  RetryAfterSuffices
  CachedWasSearched
  AccountedUnlessRecounted
SYMMETRY Symmetry
