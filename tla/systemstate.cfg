SPECIFICATION FairSpec
CONSTANTS
    NumTenants = 2
    MaxFailures = 2
INVARIANTS
    TypeOK
    RunStartsConnected
    StoppedAfterLastRequest
    OutcomeHasLogs
PROPERTIES
    RunFinishes
    LoneFailureReported
CHECK_DEADLOCK FALSE
