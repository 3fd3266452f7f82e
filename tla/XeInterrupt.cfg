SPECIFICATION IrqSpec
CONSTANTS
    BankBits = 2
    Wired = {0, 1, 2}
INVARIANTS
    MaskFollowsState
    PendingIsLatched
PROPERTIES
    FaultSticks
    WorkIsServed
