SPECIFICATION DelivSpec
CONSTANTS
  NumMsgs = 2
  Slots = {s1, s2}
  MaxPoll = 2
  MaxFaults = 1
  MaxStarts = 2
INVARIANT NothingIsSkipped
CHECK_DEADLOCK FALSE
