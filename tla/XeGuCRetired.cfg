SPECIFICATION CtSpec
CONSTANTS
    MaxPending = 2
    HCount = 16
    GCount = 1024
    MaxFences = 4
    Environments <- ImpatientOnly
INVARIANTS
    RepliesHaveOwners
CHECK_DEADLOCK FALSE
