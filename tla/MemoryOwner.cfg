SPECIFICATION OwnerSpec
CONSTANTS
    MaxAllocations = 2
    Sizes = {1, 2}
    MaxTotal = 2
    MaxGeneration = 4
    MaxHolds = 2
    Careless = TRUE
    Consumers = TRUE
INVARIANTS
    BackingIsOwned
    UsedIsMapped
    WritesAreVisible
    CloseSucceeds
CHECK_DEADLOCK FALSE
