SPECIFICATION Spec
CONSTANTS
    Ids = {r1}
    NoId = NoId
    Stallers = {}
    MayReset = FALSE
    MaxUp = 2
    MaxResp = 1
    ChanCap = 2
    HighWater = 0
    MaxFlaps = 0
CHECK_DEADLOCK FALSE
INVARIANTS UploadHasNoHole
