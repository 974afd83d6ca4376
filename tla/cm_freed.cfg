SPECIFICATION Spec
CONSTANTS
  t1 = t1
  t2 = t2
  c1 = c1
  c2 = c2
  Threads <- OneThread
  Calls <- TwoCalls
  Kinds <- SipKinds
  MaxCalls = 1
  EndCalls = TRUE
  None = None
INVARIANT ObjectOutlivesCallbacks
CHECK_DEADLOCK FALSE
