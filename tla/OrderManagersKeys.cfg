SPECIFICATION Spec
CONSTANTS
  s1 = s1
  s2 = s2
  s3 = s3
  Clients = {"v1"}
  OrderIds = {o1}
  Threads = {t1}
  Entry = entry
  LegA = legA
  LegB = legB
  None = none
  Unknown = unknown
  BrokerIds <- MCBrokerIds
  Slices <- MCSlices
  Size = 2
  MaxCopies = 2
  MaxRetries = 1
  Prices = {2}
  Distance = 1
  MaxRepeats = 0
PROPERTIES
  OneOrderPerSubmit
CHECK_DEADLOCK FALSE
