\* Batches of two samples, two pool threads; the collector goes away twice.
CONSTANTS
    v1 = v1
    v2 = v2
    Variables = {v1, v2}
    Value = {0, 1}
    Kind <- MCKind
    FirstTemp <- MCFirstTemp
    MaxCache = 2
    MaxTasks = 2
    MaxSamples = 5
    MaxOutages = 2
SPECIFICATION ProxySpec
INVARIANTS
    OneTimer
    InOrder
    Conserved
    BuffersBounded
    OrderWithinBatch
PROPERTIES
    HandsOnPieces
    Persisted
    Reconnects
CHECK_DEADLOCK FALSE
