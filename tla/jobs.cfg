CONSTANTS
    Ids = {j1, j2}
    Workers = {w1, w2}
    Clients = {c1, c2}
    Cancellers = {c1}
    Keys = {k1}
    Ops = {"single"}
    None = None
    NoJob = NoJob
    QueueSize = 1
    IdemMax = 1
    Durable = TRUE
    MaxStops = 1
    MaxFaults = 0
SPECIFICATION Spec
SYMMETRY Perms
INVARIANTS
  ExecutedAtMostOnce
  NoOrphan
  SubmitIsAtomic
PROPERTIES
  OutcomeStands
CHECK_DEADLOCK FALSE
