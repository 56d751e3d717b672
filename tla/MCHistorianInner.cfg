\* A query for a range that lies strictly inside the period of a block.
\* The stamps are below UIntRange: the narrowing of the end plays no part.
CONSTANTS
    TimeStamp = {1, 2, 3}
    DiskSize = 16
    MainSize = 4
    BtempPages = 1
    PageSize = 2
    BlocksPerDisk = 3
    Word = 64
    UIntRange = 16
    MaxGrowth = 1
    RemoveMayFail = FALSE
    FirstPeriod <- MCFirstPeriod
    MaxPoints = 4
    MaxCrashes = 0
    CrashPoints = {}
    Readers = {r1}
    Ranges <- InnerRanges
    MaxQueries = 2
SPECIFICATION QuerySpec
INVARIANTS
    ReadsEveryBlock
CHECK_DEADLOCK FALSE
