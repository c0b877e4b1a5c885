SPECIFICATION Spec
CONSTANTS
  s1 = s1
  s2 = s2
  s3 = s3
  Clients = {"v1", "v2", "unified", "bracket", "oco", "iceberg", "trailing"}
  OrderIds = {o1}
  Threads = {t1}
  Entry = entry
  LegA = legA
  LegB = legB
  None = none
  Unknown = unknown
  BrokerIds <- MCBrokerIds
  Slices <- MCSlices
  Size = 2
  MaxCopies = 2
  MaxRetries = 1
  Prices = {2, 4, 6}
  Distance = 1
  MaxRepeats = 1
INVARIANTS
  TypeOK
  NoPhantomFill
  OneSliceShown
  FillsAreBacked
  StopFollowsBest
PROPERTIES
  FinalStatusHolds
  SubmitReturns
CHECK_DEADLOCK FALSE
