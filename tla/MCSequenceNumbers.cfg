CONSTANTS
    Keys <- MCKeys
    Callers = {c1, c2, c3}
    Operations <- MCOperations
    MaxAttempts = 2
    MaxDisturbances = 1
SPECIFICATION FairSpec
INVARIANTS
    TypeOK
    RejectedForReason
PROPERTIES
    CallsSettle
    Dispensed
\* callers make one call each
CHECK_DEADLOCK FALSE
