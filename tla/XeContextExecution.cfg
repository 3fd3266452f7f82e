SPECIFICATION ExecSpec
CONSTANTS
    Capacity = 2
    Owners = {o1}
    NoOwner = nobody
    FirstVa = 0
    LimitVa = 2
    Sizes = {1}
    Alignments = {1}
    MaxGeneration = 3
    MaxUses = 2
    Timelines = {}
    MaxValue = 0
    MaxSequence = 2
    JobHandles = 2
    ContextOwner = o1
INVARIANTS RunIsBacked CompletionIsReal
PROPERTY RunCloses
