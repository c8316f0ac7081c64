SPECIFICATION FairSpec
CONSTANTS
    Conns = {c1}
    Stoppers = {s1}
    Loop = loop
    Sender = sender
    DownStops = FALSE
    MaxTimer = 1
PROPERTY StopEndsRun
CHECK_DEADLOCK FALSE
