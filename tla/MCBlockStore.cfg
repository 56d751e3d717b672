\* No crashes; 3 blocks fit, of 4 or 5 pages; the ring goes round at least twice.
CONSTANTS
    TimeStamp = {1, 3}
    DiskSize = 38
    MainSize = 4
    BtempPages = 2
    PageSize = 2
    BlocksPerDisk = 4
    Word = 64
    UIntRange = 16
    MaxGrowth = 2
    RemoveMayFail = FALSE
    FirstPeriod <- MCFirstPeriod
    MaxPoints = 8
    MaxCrashes = 0
    CrashPoints = {}
SPECIFICATION RunSpec
INVARIANTS
    RingInOrder
    EvictsOldest
    BudgetRespected
PROPERTIES
    ImplementsLog
CHECK_DEADLOCK FALSE
