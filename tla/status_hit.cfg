SPECIFICATION RevSpec
CONSTANTS
  Checkers = {t1, t2}
  Subjects = {x1, x2}
  MaxEntries = 1
  GoodTTL = 1
  RevokedTTL = 2
  CallTime = 1
  MaxClock = 3
  MaxStored = 2
  NoSubject = NoSubject
INVARIANT HitIsDetermined
CHECK_DEADLOCK FALSE
