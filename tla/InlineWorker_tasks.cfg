SPECIFICATION Spec
CONSTANTS
    Ids = {r1, r2}
    Talkers = {r2}
    MayReset = TRUE
    MaxResp = 1
    ChanCap = 1
    MaxFlaps = 1
CHECK_DEADLOCK FALSE
INVARIANTS TypeOK NoLeak EndIsTold
PROPERTIES TasksEnd ServesRequests
