SPECIFICATION UnitsSpec
CONSTANTS
    Requests = 6
    MaxPolls = 3
    MaxAttempts = 2
    MaxRefs = 2
    TopLevel = 2
    EntryCount = 2
    PoolSize = 5
    DataPages = {6, 7}
INVARIANTS AnswerIsOwn WakeIsOwned TablesAreExact
PROPERTY ExchangeReturns
CHECK_DEADLOCK FALSE
