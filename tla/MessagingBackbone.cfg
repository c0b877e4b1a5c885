SPECIFICATION Spec
CONSTANTS
  Processes = {p1, p2}
  Keys = {k1}
  NumSubs = 2
  MaxRetries = 2
  MaxDeadLetters = 2
  Retention = 0
  Never = Never
  NoKey = NoKey
  MaxAccepted = 4
  MaxTime = 1
INVARIANTS
  TypeOK
  DeliveriesArePaidFor
  EverySubscriberIsCalled
  FailuresLeaveATrace
