SPECIFICATION Spec
CONSTANTS
  MaxEvents = 3
  Malformed = {2}
  Urgent = {3}
  Handlers = {h1, h2}
  MaxQueue = 2
  Tasks = {t1, t2}
  None = None
INVARIANTS
  TypeOK
  JoinMeansHandled
  AtMostOnce
  InOrder
PROPERTIES
  EventuallyHandled
  StopEndsConsumers
CHECK_DEADLOCK FALSE
