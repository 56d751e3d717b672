----------------------------- MODULE BlockStore -----------------------------
(***************************************************************************)
(* SQLiteDatabase::storeVariablePoint, run by the main thread (called the  *)
(* storage thread in these modules): a ring of SQLite files b1.db,         *)
(* b2.db, ... under data/, filled one after the other with the samples the *)
(* real-time cache hands over, and recycled oldest-first once the disk     *)
(* budget is used up.  Which block is written (currentBlock) and which one *)
(* is recycled next (oldestBlock) is kept in memory and, by separate SQL   *)
(* statements, in the one row of DB_Config; the interval of time stamps of *)
(* every filled block is kept in the table Catalog.                        *)
(*                                                                         *)
(* Every file operation and every SQL statement of storeVariablePoint that *)
(* survives a crash is a step of its own, so that a crash (Crash) or a     *)
(* reader (module HistorianQuery) can come between any two of them.  A     *)
(* file is its size in pages, whether it has the VariablePoint table, and  *)
(* the set of rows of that table; a row is the number of the sample in     *)
(* order of arrival and its time stamp.                                    *)
(***************************************************************************)
EXTENDS Integers, FiniteSetsExt

CONSTANTS
    TimeStamp,      \* the time stamps the collector puts on samples
    DiskSize,       \* DB_Config.diskSize, bytes
    MainSize,       \* DB_Config.mainSize: the budget of main.db, bytes
    BtempPages,     \* pages of the template file btemp.db
    PageSize,       \* bytes of an SQLite page
    BlocksPerDisk,  \* 100 in Configuration
    Word,           \* 2^64, the range of a quint64
    UIntRange,      \* 2^32, the range of the uint QVariant::toUInt returns
    MaxGrowth,      \* the most pages one INSERT adds to a file
    RemoveMayFail,  \* whether the file system may refuse to remove a file
    FirstPeriod,    \* the Catalog row configure() writes for block 1
    MaxPoints,      \* bound: samples handed over in one behaviour
    MaxCrashes,     \* bound: crashes in one behaviour
    CrashPoints     \* where a crash may happen (values of pc)

BtempSize == BtempPages * PageSize
BlockSize == ((DiskSize - (MainSize + BtempSize)) % Word) \div BlocksPerDisk

ASSUME BlockStoreAssumption ==
    /\ TimeStamp \subseteq Nat /\ MaxGrowth \in Nat \ {0}
    /\ {DiskSize, MainSize, MaxPoints, MaxCrashes} \subseteq Nat
    /\ {BtempPages, PageSize, BlocksPerDisk, Word, UIntRange} \subseteq Nat \ {0}
    /\ DiskSize < Word /\ MainSize < Word
    /\ BtempSize < BlockSize /\ RemoveMayFail \in BOOLEAN
    /\ FirstPeriod \in [begin : Nat, end : Nat]

(* How many pages an INSERT adds: none where the row still fits a page, and *)
(* more than one where SQLite splits inner pages of the table as well.      *)
Growth == 0 .. MaxGrowth

(* The fewest and the most pages of a file that is found full, whether k    *)
(* such files fit on the disk, and whether they leave no room for another.  *)
SealedPages  == (BlockSize + PageSize - 1) \div PageSize
LargestPages == SealedPages + MaxGrowth - 1
Taken(k)     == MainSize + (BtempPages + k * SealedPages) * PageSize
Fits(k)      == Taken(k) <= DiskSize
AlwaysFits(k) == MainSize + (BtempPages + k * LargestPages) * PageSize <= DiskSize
NoMore(k)    == DiskSize - Taken(k) < BlockSize

(* Sizes that are well chosen: there is room for a block, and where the     *)
(* smallest blocks leave BlockSize bytes, one block more fits even if all   *)
(* are the largest.  (That is not given: BlockSize need not be a whole      *)
(* number of pages, and a block may be overshot by MaxGrowth - 1 pages.)    *)
Sized ==
    /\ AlwaysFits(1)
    /\ \A k \in 1 .. DiskSize : NoMore(k) \/ AlwaysFits(k + 1)

VARIABLES
    files,      \* the block files in data/: block number -> contents
    used,       \* pages taken by all files of data/ whose name starts with 'b'
    catalog,    \* table Catalog of main.db: block number -> period
    dbConfig,   \* currentBlock and oldestBlock as saved in table DB_Config
    current,    \* m_currentBlockNumber
    oldest,     \* m_oldestBlockNumber
    handle,     \* the block the connection m_currentBlockDB is open on
    pc,         \* where the storage thread stands
    pending,    \* the sample storeVariablePoint was called with
    arrived,    \* samples handed over so far
    crashes,    \* crashes so far
    torn        \* (history) whether a crash fell inside the recycling of a block

diskVars   == <<files, used>>
memoryVars == <<current, oldest, handle>>
boundVars  == <<arrived, crashes, torn>>
vars == <<files, used, catalog, dbConfig, current, oldest, handle, pc, pending,
          arrived, crashes, torn>>

Point   == [n : Nat, ts : TimeStamp]
File    == [table : BOOLEAN, rows : SUBSET Point, pages : Nat]
NoPoint == [n |-> 0, ts |-> 0]
Fresh   == [table |-> TRUE,  rows |-> {}, pages |-> BtempPages]  \* a copy of btemp.db
Empty   == [table |-> FALSE, rows |-> {}, pages |-> 0]           \* made by sqlite3_open
Blocks  == DOMAIN files

(* Of a file f: its time stamps, and what updateCatalog writes about them. *)
Stamps(f) == {r.ts : r \in f.rows}
Period(f) == [begin |-> Min(Stamps(f)), end |-> Max(Stamps(f)) % UIntRange]

Put(f, b, c) == [x \in DOMAIN f \cup {b} |-> IF x = b THEN c ELSE f[x]]
Drop(f, b)   == [x \in DOMAIN f \ {b} |-> f[x]]

CurrentBlockFull == files[handle].pages * PageSize >= BlockSize
RemainingSizeNoMain  == (DiskSize - used * PageSize) % Word                       \* mutant
RemainingSizeTwoMain == (DiskSize - (2 * MainSize + used * PageSize)) % Word      \* mutant
RemainingSize    == (DiskSize - (MainSize + used * PageSize)) % Word
MaxBlockNumber   == Max(DOMAIN catalog)

Init ==
    /\ files = [b \in {1} |-> Fresh]
    /\ used = 2 * BtempPages
    /\ catalog = [b \in {1} |-> FirstPeriod]
    /\ dbConfig = [current |-> 1, oldest |-> 1]
    /\ current = 1 /\ oldest = 1 /\ handle = 1
    /\ pc = "idle" /\ pending = NoPoint
    /\ arrived = 0 /\ crashes = 0 /\ torn = FALSE

-----------------------------------------------------------------------------
(* storeVariablePoint is called for the next sample of the event queue.    *)
Store(ts) ==
    /\ pc = "idle"
    /\ arrived < MaxPoints
    /\ arrived' = arrived + 1
    /\ pending' = [n |-> arrived + 1, ts |-> ts]
    /\ pc' = IF CurrentBlockFull THEN "catalog" ELSE "insert"
    /\ UNCHANGED <<diskVars, catalog, dbConfig, memoryVars, crashes, torn>>

UpdateCatalogOnce ==   \* mutant: never updates the row of a recycled block
    /\ pc = "catalog"
    /\ catalog' = IF current \in DOMAIN catalog THEN catalog
                  ELSE Put(catalog, current, Period(files[handle]))
    /\ pc' = IF RemainingSize >= BlockSize THEN "create" ELSE "remove"
    /\ UNCHANGED <<diskVars, dbConfig, memoryVars, pending, boundVars>>

(* updateCatalog inserts or updates the row of the full block; then the    *)
(* room that is left decides between a new block and the oldest one.       *)
UpdateCatalog ==
    /\ pc = "catalog"
    /\ catalog' = Put(catalog, current, Period(files[handle]))
    /\ pc' = IF RemainingSize >= BlockSize THEN "create" ELSE "remove"
    /\ UNCHANGED <<diskVars, dbConfig, memoryVars, pending, boundVars>>

(* QFile::copy never overwrites, and its result is not looked at.          *)
CopyBtemp(b) ==
    IF b \in Blocks THEN UNCHANGED diskVars
    ELSE files' = Put(files, b, Fresh) /\ used' = used + BtempPages

(* createNewBlock *)
CreateNewBlock ==
    /\ pc = "create"
    /\ CopyBtemp(current + 1)
    /\ current' = current + 1
    /\ pc' = "saveCurrent"
    /\ UNCHANGED <<catalog, dbConfig, oldest, handle, pending, boundVars>>

(* deleteOldestBlock, one step per file operation and SQL statement. *)
RemoveOldest ==
    /\ pc = "remove" /\ oldest \in Blocks
    /\ files' = Drop(files, oldest)
    /\ used' = used - files[oldest].pages
    /\ pc' = "refill"
    /\ UNCHANGED <<catalog, dbConfig, memoryVars, pending, boundVars>>

RemoveFails ==
    /\ pc = "remove" /\ (oldest \in Blocks => RemoveMayFail)
    /\ pc' = "insert"
    /\ UNCHANGED <<diskVars, catalog, dbConfig, memoryVars, pending, boundVars>>

NextOldestStays    == oldest                                             \* mutant
NextOldestFirst    == 1                                                  \* mutant
NextOldest == IF oldest = MaxBlockNumber THEN 1 ELSE oldest + 1

RefillOldest ==
    /\ pc = "refill"
    /\ CopyBtemp(oldest)
    /\ current' = oldest
    /\ oldest' = NextOldest
    /\ pc' = "recycleSaveCurrent"
    /\ UNCHANGED <<catalog, dbConfig, handle, pending, boundVars>>

UpdateCurrentBlock ==
    /\ pc \in {"saveCurrent", "recycleSaveCurrent"}
    /\ dbConfig' = [dbConfig EXCEPT !.current = current]
    /\ pc' = IF pc = "saveCurrent" THEN "open" ELSE "saveOldest"
    /\ UNCHANGED <<diskVars, catalog, memoryVars, pending, boundVars>>

UpdateOldestBlockForgotten ==   \* mutant
    /\ pc = "saveOldest"
    /\ pc' = "open"
    /\ UNCHANGED <<diskVars, catalog, dbConfig, memoryVars, pending, boundVars>>

UpdateOldestBlock ==
    /\ pc = "saveOldest"
    /\ dbConfig' = [dbConfig EXCEPT !.oldest = oldest]
    /\ pc' = "open"
    /\ UNCHANGED <<diskVars, catalog, memoryVars, pending, boundVars>>

(* Opening a file that is not there makes SQLite create it, with no table. *)
OpenFile(b) == files' = IF b \in Blocks THEN files ELSE Put(files, b, Empty)

OpenCurrent ==
    /\ pc = "open"
    /\ OpenFile(current)
    /\ handle' = current
    /\ pc' = "insert"
    /\ UNCHANGED <<used, catalog, dbConfig, current, oldest, pending, boundVars>>

InsertPoint ==
    /\ pc = "insert" /\ files[handle].table
    /\ \E g \in Growth :
          /\ files' = [files EXCEPT ![handle].rows = @ \cup {pending},
                                    ![handle].pages = @ + g]
          /\ used' = used + g
    /\ pc' = "idle" /\ pending' = NoPoint
    /\ UNCHANGED <<catalog, dbConfig, memoryVars, boundVars>>

InsertFails ==
    /\ pc = "insert" /\ ~files[handle].table
    /\ pc' = "idle" /\ pending' = NoPoint
    /\ UNCHANGED <<diskVars, catalog, dbConfig, memoryVars, boundVars>>

-----------------------------------------------------------------------------
(* The process dies: memory is lost, files and committed statements stay.  *)
(* From the removal of the oldest block (732) to the saving of the number  *)
(* of the next one (752) the files and DB_Config do not fit each other.    *)
Recycling == {"refill", "recycleSaveCurrent", "saveOldest"}
Crash ==
    /\ pc \in CrashPoints
    /\ crashes < MaxCrashes
    /\ crashes' = crashes + 1
    /\ torn' = (torn \/ pc \in Recycling)
    /\ pc' = "down" /\ pending' = NoPoint
    /\ UNCHANGED <<diskVars, catalog, dbConfig, memoryVars, arrived>>

(* BDHServerController::run with isConfigured true: connect loads          *)
(* DB_Config and opens the current block.                                  *)
Connect ==
    /\ pc = "down" /\ 1 \in Blocks
    /\ current' = dbConfig.current /\ oldest' = dbConfig.oldest
    /\ OpenFile(dbConfig.current)
    /\ handle' = dbConfig.current
    /\ pc' = "idle"
    /\ UNCHANGED <<used, catalog, dbConfig, pending, boundVars>>

(* Without b1.db isConfigured is false; configure only adds rows that are  *)
(* never read (a second DB_Config row, a Catalog row its primary key       *)
(* rejects), connect fails and no sample is stored any more.               *)
RefuseToConnect ==
    /\ pc = "down" /\ 1 \notin Blocks
    /\ pc' = "unconfigured"
    /\ UNCHANGED <<diskVars, catalog, dbConfig, memoryVars, pending, boundVars>>

-----------------------------------------------------------------------------
Rotate == UpdateCatalog \/ CreateNewBlock \/ RemoveOldest \/ RemoveFails
             \/ RefillOldest \/ UpdateCurrentBlock \/ UpdateOldestBlock
             \/ OpenCurrent
Step == Rotate \/ InsertPoint \/ InsertFails
Run  == (\E ts \in TimeStamp : Store(ts)) \/ Step
Restart == Connect \/ RefuseToConnect
Next == Run \/ Crash \/ Restart

Spec    == Init /\ [][Next]_vars /\ WF_vars(Step) /\ WF_vars(Restart)
RunSpec == Init /\ [][Run]_vars /\ WF_vars(Step)
-----------------------------------------------------------------------------
(* Block numbers, here and in main.db, count from 1, and files are files or *)
(* absent: no rotation or restart of SQLiteDatabase makes a block b0.db.   *)
TypeOK ==
    /\ Blocks \subseteq Nat \ {0}
    /\ \A b \in Blocks : files[b] \in File
    /\ used \in Int
    /\ DOMAIN catalog \subseteq Nat \ {0}
    /\ \A b \in DOMAIN catalog : catalog[b] \in [begin : Nat, end : Nat]
    /\ dbConfig \in [current : Nat \ {0}, oldest : Nat \ {0}]
    /\ {current, oldest, handle} \subseteq Nat \ {0}
    /\ pc \in {"idle", "catalog", "create", "saveCurrent", "remove", "refill",
               "recycleSaveCurrent", "saveOldest", "open", "insert", "down",
               "unconfigured"}
    /\ pending \in Point \cup {NoPoint}
    /\ arrived \in Nat /\ crashes \in Nat /\ torn \in BOOLEAN

(* All samples of block b arrived before those of block c. *)
Older(b, c) == \A r \in files[b].rows, s \in files[c].rows : r.n < s.n

(* deleteOldestBlock removes the block with the oldest samples of all:     *)
(* "Sino borro el bloque mas viejo" (sqlitedatabase.cpp:234).              *)
EvictsOldest ==
    pc = "remove" =>
        /\ oldest \in Blocks
        /\ \A b \in Blocks \ {oldest} : Older(oldest, b) /\ files[oldest].rows # {}

(* After crashes and failed removals too, unless a crash fell inside the   *)
(* recycling of a block (732-752).  Then DB_Config may name one block for  *)
(* both: at once, when currentBlock was saved (751) and oldestBlock not    *)
(* (752), or later, when createNewBlock comes to the block that was being  *)
(* recycled; the next rotation removes that block, the newest samples.     *)
EvictsOldestUnlessTorn ==
    pc = "remove" /\ ~torn =>
        oldest \in Blocks /\ \A b \in Blocks \ {oldest} : Older(oldest, b)

(* The ring: starting at oldestBlock and going up and around, every block  *)
(* holds older samples than the blocks after it, and no number is skipped. *)
RingPosition(b) == IF b >= oldest THEN b ELSE b + Max(Blocks)
RingInOrder ==
    /\ \A b, c \in Blocks : RingPosition(b) < RingPosition(c) => Older(b, c)
    /\ Blocks \cup {oldest} = 1 .. Max(Blocks \cup {oldest})

(* The files never take more than the disk the configuration grants them.  *)
BudgetRespected == MainSize + used * PageSize <= DiskSize

(* A block is only added when there is room for all of it: "Si queda       *)
(* espacio para crear otro bloque" (sqlitedatabase.cpp:231).               *)
CreatesWithSpace ==
    pc = "create" => MainSize + used * PageSize + BlockSize <= DiskSize

(* A block that is no longer written has a Catalog row that is not stale,  *)
(* also after a crash at any point: it begins with the first time stamp of *)
(* the block, and it ends with what toUInt leaves of the last one - which  *)
(* is not that time stamp, once stamps are milliseconds.                   *)
Describes(period, f) ==
    /\ period.begin \in Stamps(f)
    /\ \A t \in Stamps(f) : period.begin <= t
    /\ \E last \in Stamps(f) :
          /\ \A t \in Stamps(f) : t <= last
          /\ period.end = last % UIntRange
Catalogued(b) == b \in DOMAIN catalog /\ Describes(catalog[b], files[b])
Written == IF pc \in {"down", "unconfigured"} THEN dbConfig.current ELSE current
SealedCatalogued ==
    \A b \in Blocks \ {Written} : files[b].rows # {} => Catalogued(b)

(* Between two calls of storeVariablePoint, DB_Config says what memory     *)
(* says: a restart there resumes with the right two blocks.                *)
ConfigSaved ==
    pc \in {"idle", "insert"} => dbConfig = [current |-> current, oldest |-> oldest]
=============================================================================
