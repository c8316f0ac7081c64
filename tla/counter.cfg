SPECIFICATION Spec
CONSTANTS
    NumConns = 2
    Stride = 4
    FirstXid = 1
    RouteByXid = TRUE
    MaxPackets = 3
    TimeLimit = TRUE
    UInt = 16
    Junk = {0}
    EchoXid = 2
    EchoConns = {0}
    Reordering = TRUE
    MaxReq = 3
    MaxExtra = 2
INVARIANTS
    TypeOK
    RowsPaired
    WatermarkIsTail
    DeliveredRecorded
    RecordedAnswered
    MissingIsPlaceholders
    IntervalLossBounded
PROPERTIES
    LogOnlyImproves
    KeepsLog
CHECK_DEADLOCK FALSE
