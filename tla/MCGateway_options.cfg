CONSTANTS
    Requests = {r1, r2, r3}
    Clients <- MCClients
    Limit = 1
    Window = 3
    Second = 2
    None = None
    Versions = {v1, v2}
    Token = Token
    Workloads <- MCWorkloads
SPECIFICATION Spec
SYMMETRY Symmetry
INVARIANTS
    NoNullsForProtobuf
CHECK_DEADLOCK FALSE
