SPECIFICATION Spec
CONSTANTS
    NumTenants = 2
    MaxFailures = 0
INVARIANT LogsWholeAtEnd
CHECK_DEADLOCK FALSE
