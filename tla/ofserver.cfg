SPECIFICATION FairSpec
CONSTANTS
    Conns = {c1, c2}
    Stoppers = {sender, s1}
    Loop = loop
    Sender = sender
    DownStops = TRUE
    MaxTimer = 2
INVARIANTS
    TypeOK
    LinkMatchesConnection
    OneStopDrains
PROPERTIES
    QuietAfterStop
    HangupFreed
    LateStopReturns
CHECK_DEADLOCK FALSE
