SPECIFICATION FifoSpec
CONSTANTS
    MaxAllocations = 3
    Sizes = {1}
    MaxTotal = 3
    MaxGeneration = 5
    MaxHolds = 3
    Careless = FALSE
    Consumers = FALSE
    MaxJobs = 1
    MaxDataResources = 1
    MaxSequence = 1
    MaxQueueGeneration = 3
    Bindings <- MCBindings
    Setups <- QueueAmongOthers
INVARIANTS
    HoldsAreExact
    AccessIsMapped
PROPERTIES
    ImplementsOwnership
CHECK_DEADLOCK FALSE
