SPECIFICATION Spec
CONSTANTS
  None = None
  p1 = p1
  d1 = d1
  t1 = t1
  t2 = t2
  c1 = c1
  c2 = c2
  Providers = {p1}
  Dids = {d1}
  Threads = {t1, t2}
  Processes = {c1, c2}
  Requests <- MCRequests
CHECK_DEADLOCK FALSE
INVARIANTS TypeOK AddedIsComplete RemovedIsGone
PROPERTY FailureExplained
SYMMETRY Symmetry
