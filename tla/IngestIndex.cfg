SPECIFICATION Spec
CONSTANTS
  p1 = p1
  p2 = p2
  t1 = t1
  t2 = t2
  i1 = i1
  i2 = i2
  m1 = m1
  Short = Short
  Unreadable = Unreadable
  Missing = Missing
  Paths = {p1}
  Texts = {t1, t2}
  Batches = 2
  Ingesters = {i1, i2}
  Maintainers = {m1}
  Maintenance = {"watch", "sync", "clean", "remove", "reingest", "api_delete"}
  MaxEdits = 2
  MaxForced = 1
  MaxFailures = 1
  MaxCrashes = 1
INVARIANTS
  OkRowDescribesIndex
  OneVersionPerDocument
  UnservedIsNoticed
SYMMETRY Symmetry
CHECK_DEADLOCK FALSE
