SPECIFICATION RoutingSpec
CONSTANTS
  OrderIds = {o1}
  Callers = {c1}
  MaxRetries = 1
  MaxAge = 0
  Size = 2
  NoPayload = NoPayload
  NoOrder = NoOrder
  MaxTime = 1
  MaxKeys = 1
  MaxCopies = 2
  MaxRevived = 1
INVARIANTS
  RoutingTypeOK
  NoPhantomFill
  FillsAreRemembered
CHECK_DEADLOCK FALSE
