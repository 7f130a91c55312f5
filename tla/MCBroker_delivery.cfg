CONSTANTS
    Subs = {s1}
    SubIds = {a}
    Publishers = {p1, p2}
    ClientIds = {1}
    QueueCap = 2
    BatchSizes = {1, 2}
    SeenLimit = 2
    MaxEvents = 2
    Faults = {}
    None = None
SPECIFICATION Spec
SYMMETRY Symmetry
INVARIANTS
    TypeOK
    AtMostOnce
    PublisherOrder
CHECK_DEADLOCK FALSE
