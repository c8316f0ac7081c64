SPECIFICATION Spec
CONSTANTS
    NumTenants = 2
    Reports = {"live", "file"}
    MaxCount = 2
INVARIANTS
    TypeOK
    ReportedOnce
    RatioDefined
CHECK_DEADLOCK FALSE
