SPECIFICATION FairSpec
CONSTANTS
  Callers = {c1, c2}
  Slots = {s1}
  Children = {k1, k2, k3}
  Standby = 1
  MaxOps = 1
  RssCheckEvery = 1
  KeepAfterRevoked = FALSE
  BigPayload = TRUE
  MayClose = TRUE
  None = None
PROPERTIES
  CallsReturnWhileOpen
  CloseReturns
CHECK_DEADLOCK FALSE
