SPECIFICATION Spec
CONSTANTS
  i1 = i1
  i2 = i2
  i3 = i3
  s1 = s1
  s2 = s2
  IDs <- MCIDs
  SeenIDs <- MCSeenIDs
  Senders <- MCSenders
  Nobody = Nobody
INVARIANTS
  TypeOK
  AtMostOnce
  NothingSwallowed
PROPERTIES
  Delivered
  SubmitReturns
  ImplementsOnceDelivery
CHECK_DEADLOCK FALSE
