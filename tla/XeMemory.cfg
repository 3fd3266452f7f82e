SPECIFICATION VmSpec
CONSTANTS
    Capacity = 2
    Owners = {o1, o2}
    NoOwner = nobody
    FirstVa = 1
    LimitVa = 4
    Sizes = {1, 2}
    Alignments = {1, 2}
    MaxGeneration = 3
    MaxUses = 1
    Timelines = {t1, t2}
    MaxValue = 2
SYMMETRY Symmetry
INVARIANTS MappedIsPinned RecordsDisjoint RecordedWorkMapped FirstFit
CHECK_DEADLOCK FALSE
