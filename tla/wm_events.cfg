SPECIFICATION FairSpec
CONSTANTS
  w1 = w1
  w2 = w2
  a = a
  b = b
  Workers <- TwoWorkers
  Calls <- TwoCalls
  ShardOf <- Together
  NoUrl <- OnlyB
  MayStop = TRUE
  MaxEvents = 2
  None = None
INVARIANTS
  TypeOK
  InOrder
PROPERTIES
  ImplementsDelivery
  EventsLeaveQueue
  StopReturnsUnlessMissed
CHECK_DEADLOCK FALSE
