SPECIFICATION Spec
CONSTANTS
    Clients = {p1, p2, p3}
    NoProc = NoProc
    MaxUpdates = 1
INVARIANTS
    TypeOK
    OneClient
    StoppedCleanly
    OneTunnel
    LoopNeverSpins
PROPERTIES
    ClientComesBack
    TunnelHonest
    StopCompletes
CHECK_DEADLOCK FALSE
