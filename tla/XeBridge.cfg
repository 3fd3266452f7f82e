SPECIFICATION BridgeSpec
CONSTANTS
    Capacity = 2
    Owners = {o1}
    NoOwner = nobody
    FirstVa = 0
    LimitVa = 2
    Sizes = {1}
    Alignments = {1}
    MaxGeneration = 3
    MaxUses = 2
    Timelines = {}
    MaxValue = 0
    MaxJobs = 2
    Resources <- Handles
    MaxResources = 2
    MaxSequence = 2
    MaxQueueGeneration = 2
    MaxTime = 1
    QueueOwner = o1
INVARIANTS UsesAreHolds DmaIsMapped
PROPERTY ImplementsOwnership
