CONSTANTS
    Subs = {s1, s2}
    SubIds = {a}
    Publishers = {p1}
    ClientIds = {}
    QueueCap = 1
    BatchSizes = {1}
    SeenLimit = 8
    MaxEvents = 2
    Faults = {"delete", "disconnect", "stall"}
    None = None
SPECIFICATION FairSpec
INVARIANTS
    NoOrphans
PROPERTIES
    SessionEnds
    RemovedWritersStop
    PublishReturns
CHECK_DEADLOCK FALSE
