SPECIFICATION Spec
CONSTANTS
    Reqs = {r1, r2}
    NoReq = NoReq
    Stallers = {}
    MayHalfClose = FALSE
    MayTimeout = FALSE
    MayIdle = TRUE
    MaxData = 2
    MaxUp = 1
    HighWater = 0
    MaxFlaps = 0
CHECK_DEADLOCK FALSE
SYMMETRY Symmetry
INVARIANTS ResponsePrefix NoLeak ClosesUnderWay
