SPECIFICATION FairSpec
CONSTANTS
  p1 = p1
  p2 = p2
  t1 = t1
  t2 = t2
  i1 = i1
  i2 = i2
  m1 = m1
  Short = Short
  Unreadable = Unreadable
  Missing = Missing
  Paths = {p1}
  Texts = {t1, t2}
  Batches = 2
  Ingesters = {i1}
  Maintainers = {m1}
  Maintenance = {"reingest"}
  MaxEdits = 1
  MaxForced = 0
  MaxFailures = 0
  MaxCrashes = 0
PROPERTIES
  QueuedIsReingested
CHECK_DEADLOCK FALSE
