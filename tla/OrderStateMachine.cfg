SPECIFICATION Spec
CONSTANTS
  OrderIds = {o1}
  Callers = {c1, c2}
  MaxRetries = 1
  MaxAge = 1
  Size = 1
  NoPayload = NoPayload
  NoOrder = NoOrder
  MaxTime = 3
  MaxKeys = 2
INVARIANTS
  TypeOK
  LogExplainsState
  RetryBudget
PROPERTIES
  FilledIsFinal
CHECK_DEADLOCK FALSE
