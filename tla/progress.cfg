SPECIFICATION ProgressSpec
CONSTANTS
  N = 3
  Requested <- AnyConcurrency
  PoolSize = 2
  None = None
  NumMsgs = 2
  Slots = {s1, s2}
  MaxPoll = 2
  MaxFaults = 1
  MaxStarts = 2
  Versions <- MCVersions
  Unparsed = Unparsed
INVARIANTS
  SettledIsAnswered
  ShutdownIsOrderly
PROPERTIES
  ImplementsContract
  Terminates
  EveryMessageSettles
CHECK_DEADLOCK FALSE
