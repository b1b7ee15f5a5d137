SPECIFICATION Spec
CONSTANTS
    Reqs = {r1}
    NoReq = NoReq
    Stallers = {r1}
    MayHalfClose = TRUE
    MayTimeout = TRUE
    MayIdle = TRUE
    MaxData = 2
    MaxUp = 2
    HighWater = 1
    MaxFlaps = 1
CHECK_DEADLOCK FALSE
INVARIANTS WorkerTold
PROPERTIES EndIsLast EndCloses ListenersFinish
