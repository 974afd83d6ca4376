SPECIFICATION FairSpec
CONSTANTS
  w1 = w1
  w2 = w2
  j1 = j1
  j2 = j2
  j3 = j3
  Workers <- TwoWorkers
  Jobs <- ThreeJobs
  LateSubmits = TRUE
  NoJob = NoJob
INVARIANTS
  TypeOK
  OnePlace
  StopDrains
PROPERTIES
  ResultsFinal
  JobsResolved
CHECK_DEADLOCK FALSE
