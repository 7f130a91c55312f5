CONSTANTS
    Writers = {w1}
    Reader = Reader
    MaxMessageSize = 2
    MaxControl = 2
    ControlLens = {0, 1}
    CloseLens = {0, 1, 2}
    CloseCodes = {999, 1000, 1005, 1014, 1015, 3000, 5000}
    MaxFrames = 3
    MaxWrites = 1
    None = None
SPECIFICATION Spec
INVARIANTS
    TypeOK
    SentCodesAllowed
    DeliveredAsSent
    OnlyCrowdingRefused
CHECK_DEADLOCK FALSE
