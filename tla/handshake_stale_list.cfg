SPECIFICATION Spec
CONSTANTS
    Own = {s1, s2}
    External = {}
    CtrlVersion = 1
    PeerVersions = {}
    MaxDials = 2
    MaxCuts = 1
PROPERTIES
    ConnectedAfterAll
CHECK_DEADLOCK FALSE
