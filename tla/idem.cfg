SPECIFICATION Spec
CONSTANTS
  Callers = {c1, c2, c3, c4}
  Rest = {c1, c2, c3}
  Keys = {k1, k2}
  RestKeys = {k1}
  Entries = {e1, e2, e3, e4, e5}
  MaxEntries = 1
  MayCancel = TRUE
  None = None
SYMMETRY Perms
INVARIANTS
  CacheIsCoherent
  RunsOnce
  WaitersAreServed
CHECK_DEADLOCK FALSE
