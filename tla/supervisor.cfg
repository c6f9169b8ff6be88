SPECIFICATION Spec
CONSTANTS
  Callers = {c1, c2}
  Slots = {s1, s2}
  Children = {k1, k2, k3, k4}
  Standby = 1
  MaxOps = 2
  RssCheckEvery = 1
  KeepAfterRevoked = FALSE
  BigPayload = FALSE
  MayClose = TRUE
  None = None
SYMMETRY Perms
INVARIANTS
  SlotsConserved
  ChildrenAccounted
  AnswerIsOwn
CHECK_DEADLOCK FALSE
