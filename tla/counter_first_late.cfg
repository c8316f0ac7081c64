SPECIFICATION Spec
CONSTANTS
    NumConns = 1
    Stride = 5
    FirstXid = 1
    RouteByXid = FALSE
    MaxPackets = 4
    TimeLimit = TRUE
    UInt = 16
    Junk = {0}
    EchoXid = 2
    EchoConns = {}
    Reordering = TRUE
    MaxReq = 4
    MaxExtra = 0
INVARIANTS
    LateAnswersFillTheirRow
CHECK_DEADLOCK FALSE
