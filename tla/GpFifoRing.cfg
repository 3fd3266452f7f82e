SPECIFICATION FifoSpec
CONSTANTS
    MaxAllocations = 4
    Sizes = {1}
    MaxTotal = 4
    MaxGeneration = 5
    MaxHolds = 3
    Careless = FALSE
    Consumers = FALSE
    MaxJobs = 2
    MaxDataResources = 1
    MaxSequence = 3
    MaxQueueGeneration = 3
    Bindings <- MCBindings
    Setups <- QueueAlone
INVARIANTS
    EntriesIntact
    JobsReallyComplete
CHECK_DEADLOCK FALSE
