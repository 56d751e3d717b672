\* A crash may come at any point, twice, and a removal may fail.  Time stamps
\* are larger than UIntRange, as milliseconds are larger than 2^32.
CONSTANTS
    TimeStamp = {17, 19}
    DiskSize = 20
    MainSize = 4
    BtempPages = 1
    PageSize = 2
    BlocksPerDisk = 4
    Word = 64
    UIntRange = 16
    MaxGrowth = 1
    RemoveMayFail = TRUE
    FirstPeriod <- MCFirstPeriod
    MaxPoints = 8
    MaxCrashes = 2
    CrashPoints = {"idle", "catalog", "create", "saveCurrent", "remove", "refill",
                   "recycleSaveCurrent", "saveOldest", "open", "insert"}
SPECIFICATION Spec
INVARIANTS
    SealedCatalogued
    ConfigSaved
    
CHECK_DEADLOCK FALSE
