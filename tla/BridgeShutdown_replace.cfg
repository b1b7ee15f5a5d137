SPECIFICATION StopSpec
CONSTANTS
    Conns = {c1, c2}
    Tasks = {t1}
    NoConn = NoConn
    UpKinds = {"badauth", "auth", "auth_ok", "garbage"}
    UpCap = 1
    DownCap = 1
CHECK_DEADLOCK FALSE
INVARIANTS StopWaitsEnd SlotOwner LockDiscipline NothingBeforeInstall
PROPERTIES SendsReturn DeadWorkerLeaves StopEnds
