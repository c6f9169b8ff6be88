CONSTANTS
    Ids = {j1}
    Workers = {w1}
    Clients = {c1}
    Cancellers = {c1}
    Keys = {}
    Ops = {"single"}
    None = None
    NoJob = NoJob
    QueueSize = 1
    IdemMax = 1
    Durable = TRUE
    MaxStops = 0
    MaxFaults = 0
SPECIFICATION Spec
PROPERTY TerminalIsFinal
CHECK_DEADLOCK FALSE
