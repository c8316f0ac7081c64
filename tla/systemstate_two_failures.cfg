SPECIFICATION FairSpec
CONSTANTS
    NumTenants = 2
    MaxFailures = 2
PROPERTY FailureReported
CHECK_DEADLOCK FALSE
