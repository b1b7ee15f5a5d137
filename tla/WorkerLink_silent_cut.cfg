SPECIFICATION LinkSpec
CONSTANTS
    Conns = {c1, c2, c3}
    Tasks = {t1}
    NoConn = NoConn
    UpKinds = {"auth"}
    UpCap = 1
    DownCap = 2
    MaxDrops = 0
    MaxCuts = 1
CHECK_DEADLOCK FALSE
PROPERTIES NoForgottenClient
