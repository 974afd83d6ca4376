SPECIFICATION FairSpec
CONSTANTS
  t1 = t1
  t2 = t2
  c1 = c1
  c2 = c2
  Threads <- TwoThreads
  Calls <- TwoCalls
  Kinds <- AllKinds
  MaxCalls = 1
  EndCalls = TRUE
  None = None
INVARIANTS
  TypeOK
  CountersSound
  EndReportedOnce
  DestroyedWhenOver
CHECK_DEADLOCK FALSE
PROPERTY EndedCallReported
