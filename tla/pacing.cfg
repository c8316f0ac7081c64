SPECIFICATION FairSpec
CONSTANTS
    NumConns = 2
    Word = 4
    Second = 4
    Rates = {1, 3, 5}
    Intervals = {2, 3}
    Sizes = {0, 1, 2}
    MaxLines = 3
    MaxPackets = 3
    TimeLimit = TRUE
    MaxBursts = 9
INVARIANTS
    TypeOK
    CreditExact
    BurstAfterItsLine
    OvershootBounded
PROPERTIES
    SenderStops
CHECK_DEADLOCK FALSE
