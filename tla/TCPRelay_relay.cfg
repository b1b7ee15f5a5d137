SPECIFICATION Spec
CONSTANTS
    Ids = {r1}
    NoId = NoId
    Stallers = {r1}
    MayReset = TRUE
    MaxUp = 2
    MaxResp = 2
    ChanCap = 2
    HighWater = 0
    MaxFlaps = 1
CHECK_DEADLOCK FALSE
INVARIANTS TypeOK ResponseOrdered UploadOrdered NoLeak EndMeansComplete
PROPERTIES UpstreamEndIsFinal CloseTearsDown ServesRequests
