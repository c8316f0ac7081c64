SPECIFICATION FairSpec
CONSTANTS
    Own = {s1, s2}
    External = {h}
    CtrlVersion = 4
    PeerVersions = {1, 4}
    MaxDials = 2
    MaxCuts = 1
INVARIANTS
    TypeOK
    NumberIsPlace
    ListedCompatible
    ListedAfterSwitch
    ConnectedWhole
PROPERTIES
    RunStarts
    SwitchesJoin
CHECK_DEADLOCK FALSE
