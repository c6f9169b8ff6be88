CONSTANTS
    Ids = {j1, j2}
    Workers = {w1}
    Clients = {c1}
    Cancellers = {c1}
    Keys = {}
    Ops = {"single"}
    None = None
    NoJob = NoJob
    QueueSize = 1
    IdemMax = 1
    Durable = TRUE
    MaxStops = 1
    MaxFaults = 1
SPECIFICATION FairSpec
INVARIANTS
  EndIsAnnounced
PROPERTIES
  EveryJobEnds
CHECK_DEADLOCK FALSE
