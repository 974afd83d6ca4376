SPECIFICATION FairSpec
CONSTANTS
  h1 = h1
  h2 = h2
  Helpers <- TwoHelpers
  MAX_RECONNECT_ATTEMPTS = 2
  TransferKinds <- AllKinds
  MaxTransfers = 1
INVARIANTS
  TypeOK
  SomeoneInCharge
PROPERTIES
  DropHandled
  TransferSettles
  CleanupEndsUnlessLateOpen
CHECK_DEADLOCK FALSE
