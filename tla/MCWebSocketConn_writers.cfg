CONSTANTS
    Writers = {w1}
    Reader = Reader
    MaxMessageSize = 1
    MaxControl = 1
    ControlLens = {0, 1}
    CloseLens = {0}
    CloseCodes = {1000}
    MaxFrames = 2
    MaxWrites = 2
    None = None
SPECIFICATION FairSpec
INVARIANTS
    FramesWhole
    CloseIsLast
    PongsAnswerPings
PROPERTIES
    CloseCompletes
CHECK_DEADLOCK FALSE
