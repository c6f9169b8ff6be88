SPECIFICATION FairSpec
CONSTANTS
  Callers = {c1}
  Slots = {s1}
  Children = {k1, k2}
  Standby = 0
  MaxOps = 2
  RssCheckEvery = 1
  KeepAfterRevoked = FALSE
  BigPayload = FALSE
  MayClose = TRUE
  None = None
PROPERTY
  CallsReturn
CHECK_DEADLOCK FALSE
