CONSTANTS
    Writers = {}
    Reader = Reader
    MaxMessageSize = 2
    MaxControl = 2
    ControlLens = {0, 1}
    CloseLens = {0, 2}
    CloseCodes = {1000}
    MaxFrames = 3
    MaxWrites = 0
    None = None
SPECIFICATION Spec
INVARIANTS
    ConformingPeerKept
CHECK_DEADLOCK FALSE
