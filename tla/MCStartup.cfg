\* Seven documents, three starts; 8-bit sizes, four blocks on a disk.
CONSTANTS
    Documents <- MCDocuments
    DefaultDisk = 100
    MainSize = 10
    BtempSize = 1
    Blocks = 4
    Word = 256
    Garbage = {0, 1}
    MaxStarts = 3
    MaxBlock = 3
SPECIFICATION Spec
INVARIANTS
    WritesWhatItSaved
    CataloguedBlocksThere
    BlocksFit
PROPERTIES
    KeepsConfiguration
    ComesUp
CHECK_DEADLOCK FALSE
