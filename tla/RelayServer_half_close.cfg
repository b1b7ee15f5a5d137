SPECIFICATION Spec
CONSTANTS
    Reqs = {r1}
    NoReq = NoReq
    Stallers = {}
    MayHalfClose = TRUE
    MayTimeout = FALSE
    MayIdle = FALSE
    MaxData = 1
    MaxUp = 1
    HighWater = 0
    MaxFlaps = 0
CHECK_DEADLOCK FALSE
INVARIANTS TransparentResponse
