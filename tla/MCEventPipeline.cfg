SPECIFICATION Spec
CONSTANTS
    a1 = a1
    tx1 = tx1
    tx2 = tx2
    Aggregate = {a1}
    ContractEvent <- Events
    EventsPerLedger = 2
    MaxSequence = 10
    Task = {d1, d2}
    UrlCount = 2
    MaxRetries = 1
    MaxDlqDepth = 1
    Cache = {"none", "memory", "redis"}
    MaxInputs = 3
    None = None
INVARIANTS
    TypeOK
    LogInChainOrder
    RefusedOnlyIfOvertaken
    NothingForgotten
PROPERTIES
    DispatchEnds
CHECK_DEADLOCK FALSE
