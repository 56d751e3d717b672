\* A query mounts the block that is being recycled.
\* The stamps are beyond UIntRange, as milliseconds are beyond 2^32.
CONSTANTS
    TimeStamp = {17, 19}
    DiskSize = 16
    MainSize = 4
    BtempPages = 1
    PageSize = 2
    BlocksPerDisk = 3
    Word = 64
    UIntRange = 16
    MaxGrowth = 1
    RemoveMayFail = FALSE
    FirstPeriod <- MCFirstPeriod
    MaxPoints = 5
    MaxCrashes = 0
    CrashPoints = {}
    Readers = {r1}
    Ranges <- WideRanges
    MaxQueries = 2
SPECIFICATION QuerySpec
INVARIANTS
    InsertsSucceed
CHECK_DEADLOCK FALSE
