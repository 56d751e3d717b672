-------------------------- MODULE BlockStoreProofs --------------------------
(***************************************************************************)
(* Proofs about BlockStore for every value of its constants.               *)
(*                                                                         *)
(* Part 1 is about Spec, with crashes at any point: types, DB_Config in    *)
(* step with memory, and a Catalog row that is not stale for every block   *)
(* that is not being written.  They rest on CInv.                                      *)
(***************************************************************************)
EXTENDS BlockStore, TLAPS

-----------------------------------------------------------------------------
(* Max and Min of a set that has one. *)
LEMMA MaxIsUpperEnd ==
    ASSUME NEW S \in SUBSET Int, NEW m \in S, \A y \in S : y <= m
    PROVE  Max(S) = m
<1>1. m \in S /\ \A y \in S : m >= y
  OBVIOUS
<1>2. Max(S) \in S /\ \A y \in S : Max(S) >= y
  BY <1>1 DEF Max
<1>3. Max(S) \in Int /\ m \in Int
  BY <1>1, <1>2
<1>4. Max(S) >= m /\ m >= Max(S)
  BY <1>1, <1>2
<1> QED
  BY <1>3, <1>4

LEMMA MinIsLowerEnd ==
    ASSUME NEW S \in SUBSET Int, NEW m \in S, \A y \in S : m <= y
    PROVE  Min(S) = m
<1>1. m \in S /\ \A y \in S : m =< y
  OBVIOUS
<1>2. Min(S) \in S /\ \A y \in S : Min(S) =< y
  BY <1>1 DEF Min
<1>3. Min(S) \in Int /\ m \in Int
  BY <1>1, <1>2
<1>4. Min(S) <= m /\ m <= Min(S)
  BY <1>1, <1>2
<1> QED
  BY <1>3, <1>4

(* A file that has grown to the block size is longer than the template. *)
LEMMA FullIsLonger ==
    ASSUME NEW p \in Nat, p * PageSize >= BlockSize
    PROVE  p > BtempPages
<1>1. PageSize \in Nat \ {0} /\ BtempPages \in Nat \ {0} /\ BtempPages * PageSize < BlockSize
  BY BlockStoreAssumption DEF BtempSize
<1>2. BlockSize \in Int
  BY BlockStoreAssumption DEF BlockSize, BtempSize
<1>3. SUFFICES ASSUME p <= BtempPages
               PROVE  p * PageSize <= BtempPages * PageSize
  BY <1>1, <1>2
<1> QED
  BY <1>1, <1>3

-----------------------------------------------------------------------------
(* A file that is not empty has a first and a last time stamp, and one     *)
(* longer than the template is not empty.                                  *)
Ends(f) == \E lo, hi \in Stamps(f) : \A t \in Stamps(f) : lo <= t /\ t <= hi
GoodFile(f) ==
    /\ f \in File
    /\ f.rows # {} => Ends(f)
    /\ f.pages > BtempPages => f.rows # {}

BlocksInv == \A b \in Blocks : GoodFile(files[b])

Steady == {"idle", "catalog", "create", "remove", "refill", "insert"}

(* Which of memory, DB_Config and the open connection agree, and where.    *)
ConfigInv ==
    /\ pc \in Steady => handle = current
    /\ pc \in Steady \cup {"open"} => dbConfig = [current |-> current, oldest |-> oldest]
    /\ pc = "saveCurrent" => dbConfig.oldest = oldest
    /\ pc = "saveOldest" => dbConfig.current = current
    /\ pc \in {"idle", "catalog", "create", "remove", "insert"} => handle \in Blocks
    /\ pc = "catalog" => files[handle].rows # {}

(* While a rotation is under way every block with samples is catalogued,   *)
(* otherwise all but the one DB_Config calls current.                      *)
CatalogInv ==
    \A b \in Blocks :
        /\ files[b].rows # {}
        /\ pc \in {"idle", "catalog", "insert", "down", "unconfigured"} => b # dbConfig.current
        => Catalogued(b)

PendingInv == pc \notin {"idle", "down", "unconfigured"} => pending \in Point

CInv == TypeOK /\ BlocksInv /\ ConfigInv /\ PendingInv

-----------------------------------------------------------------------------
LEMMA ConstantTypes ==
    /\ BtempPages \in Nat \ {0} /\ PageSize \in Nat \ {0} /\ UIntRange \in Nat \ {0}
    /\ TimeStamp \subseteq Nat /\ Growth \subseteq Nat /\ MaxGrowth \in Nat \ {0}
    /\ FirstPeriod \in [begin : Nat, end : Nat]
    /\ BtempSize < BlockSize /\ BtempSize \in Nat /\ BlockSize \in Int
BY BlockStoreAssumption DEF BlockSize, BtempSize, Growth

LEMMA FreshFiles ==
    /\ GoodFile(Fresh) /\ GoodFile(Empty)
    /\ Fresh.rows = {} /\ Empty.rows = {}
<1> USE ConstantTypes
<1>1. Fresh \in File /\ Fresh.rows = {} /\ Fresh.pages = BtempPages
  BY DEF Fresh, File
<1>2. Empty \in File /\ Empty.rows = {} /\ Empty.pages = 0
  BY DEF Empty, File
<1> QED
  BY <1>1, <1>2 DEF GoodFile

LEMMA InitCInv == Init => CInv
<1> SUFFICES ASSUME Init PROVE CInv
  OBVIOUS
<1> USE ConstantTypes DEF Init
<1>1. Blocks = {1} /\ files[1] = Fresh
  BY DEF Blocks
<1>2. TypeOK
  <2>1. torn \in BOOLEAN
    BY Zenon
  <2> QED
    BY <1>1, <2>1, FreshFiles DEF TypeOK, Point, NoPoint, GoodFile
<1>3. BlocksInv
  BY <1>1, FreshFiles DEF BlocksInv
<1>4. ConfigInv
  BY <1>1 DEF ConfigInv, Steady
<1> QED
  BY <1>2, <1>3, <1>4 DEF CInv, PendingInv

(* What a copy of btemp.db or an open of a missing file does to the blocks. *)
LEMMA NewFile ==
    ASSUME BlocksInv, NEW b \in Nat \ {0}, NEW c \in {Fresh, Empty},
           files' = IF b \in Blocks THEN files ELSE Put(files, b, c)
    PROVE  /\ Blocks' = Blocks \cup {b}
           /\ \A x \in Blocks : files'[x] = files[x]
           /\ b \notin Blocks => files'[b] = c
           /\ BlocksInv'
<1>1. /\ Blocks' = Blocks \cup {b}
      /\ \A x \in Blocks : files'[x] = files[x]
      /\ b \notin Blocks => files'[b] = c
  BY DEF Blocks, Put
<1>2. \A x \in Blocks' : GoodFile(files'[x])
  BY <1>1, FreshFiles DEF BlocksInv
<1> QED
  BY <1>1, <1>2 DEF BlocksInv

(* updateCatalog describes a file that has samples. *)
LEMMA PeriodDescribes ==
    ASSUME NEW f, GoodFile(f), f.rows # {}
    PROVE  /\ Period(f) \in [begin : Nat, end : Nat]
           /\ Describes(Period(f), f)
<1> USE ConstantTypes
<1>1. Stamps(f) \subseteq TimeStamp
  BY DEF GoodFile, File, Stamps, Point
<1>2. PICK lo \in Stamps(f), hi \in Stamps(f) : \A t \in Stamps(f) : lo <= t /\ t <= hi
  BY DEF GoodFile, Ends
<1> Stamps(f) \in SUBSET Int
  <2>1. \A t \in Nat : t \in Int
    OBVIOUS
  <2>2. \A t \in Stamps(f) : t \in TimeStamp
    BY <1>1
  <2>3. \A t \in TimeStamp : t \in Nat
    OBVIOUS
  <2>4. \A t \in Stamps(f) : t \in Int
    BY <2>1, <2>2, <2>3
  <2> QED
    BY <2>4
<1>3. Min(Stamps(f)) = lo
  <2>1. \A t \in Stamps(f) : lo <= t
    BY <1>2
  <2> QED
    BY <2>1, MinIsLowerEnd
<1>4. Max(Stamps(f)) = hi
  <2>1. \A t \in Stamps(f) : t <= hi
    BY <1>2
  <2> QED
    BY <2>1, MaxIsUpperEnd
<1>5. Period(f) = [begin |-> lo, end |-> hi % UIntRange]
  BY <1>3, <1>4 DEF Period
<1>6. lo \in Nat /\ hi \in Nat
  BY <1>1, <1>2
<1>7. hi % UIntRange \in Nat
  BY <1>6
<1>8. Describes(Period(f), f)
  BY <1>2, <1>5 DEF Describes
<1> QED
  BY <1>5, <1>6, <1>7, <1>8

(* A row added to a good file leaves a good file. *)
LEMMA InsertedFile ==
    ASSUME NEW f, GoodFile(f), NEW p \in Point, NEW g \in Growth, NEW h,
           h = [f EXCEPT !.rows = @ \cup {p}, !.pages = @ + g]
    PROVE  GoodFile(h)
<1> USE ConstantTypes
<1>1. h \in File /\ h.rows = f.rows \cup {p}
  <2>1. f \in File
    BY DEF GoodFile
  <2>2. f.rows \cup {p} \in SUBSET Point /\ f.pages + g \in Nat
    BY <2>1 DEF File
  <2> QED
    BY <2>1, <2>2 DEF File
<1>2. Stamps(h) = Stamps(f) \cup {p.ts}
  BY <1>1 DEF Stamps
<1>3. Stamps(f) \subseteq Nat /\ p.ts \in Nat
  BY DEF GoodFile, File, Stamps, Point
<1>4. Ends(h)
  <2>1. CASE f.rows = {}
    BY <1>2, <1>3, <2>1 DEF Stamps, Ends
  <2>2. CASE f.rows # {}
    <3>1. PICK lo \in Stamps(f), hi \in Stamps(f) : \A t \in Stamps(f) : lo <= t /\ t <= hi
      BY <2>2 DEF GoodFile, Ends
    <3>2. PICK lo2 \in {lo, p.ts} : lo2 <= lo /\ lo2 <= p.ts
      BY <1>3, <3>1
    <3>3. PICK hi2 \in {hi, p.ts} : hi <= hi2 /\ p.ts <= hi2
      BY <1>3, <3>1
    <3>4. lo2 \in Stamps(h) /\ hi2 \in Stamps(h)
      BY <1>2, <3>1
    <3>5. \A t \in Stamps(h) : lo2 <= t /\ t <= hi2
      BY <1>2, <1>3, <3>1, <3>2, <3>3
    <3> QED
      BY <3>4, <3>5 DEF Ends
  <2> QED
    BY <2>1, <2>2
<1> QED
  BY <1>1, <1>4 DEF GoodFile
-----------------------------------------------------------------------------
LEMMA StepCInv == CInv /\ [Next]_vars => CInv'
<1> SUFFICES ASSUME CInv, [Next]_vars PROVE CInv'
  OBVIOUS
<1> USE ConstantTypes DEF CInv, diskVars, memoryVars, boundVars
<1>1. ASSUME NEW ts \in TimeStamp, Store(ts) PROVE CInv'
  <2> USE <1>1 DEF Store
  <2>1. pending' \in Point /\ arrived' \in Nat
    BY DEF TypeOK, Point
  <2>2. BlocksInv'
    BY DEF BlocksInv, Blocks
  <2>3. TypeOK'
    BY <2>1 DEF TypeOK, Blocks
  <2>4. pc' = "catalog" => files[handle].rows # {}
    <3>1. GoodFile(files[handle])
      BY DEF ConfigInv, Steady, BlocksInv
    <3>2. files[handle].pages \in Nat
      BY <3>1 DEF GoodFile, File
    <3> QED
      BY <3>1, <3>2, FullIsLonger DEF CurrentBlockFull, GoodFile
  <2>5. ConfigInv'
    BY <2>4 DEF ConfigInv, Steady, Blocks
  <2> QED
    BY <2>1, <2>2, <2>3, <2>5 DEF PendingInv
<1>2. CASE UpdateCatalog
  <2> USE <1>2 DEF UpdateCatalog
  <2>1. Period(files[handle]) \in [begin : Nat, end : Nat]
    BY PeriodDescribes DEF ConfigInv, Steady, BlocksInv
  <2>2. BlocksInv'
    BY DEF BlocksInv, Blocks
  <2>3. TypeOK'
    BY <2>1 DEF TypeOK, Blocks, Put
  <2>4. ConfigInv'
    BY DEF ConfigInv, Steady, Blocks
  <2> QED
    BY <2>2, <2>3, <2>4 DEF PendingInv
<1>3. CASE CreateNewBlock
  <2> USE <1>3 DEF CreateNewBlock
  <2>1. current + 1 \in Nat \ {0}
    BY DEF TypeOK
  <2>2. /\ files' = IF current + 1 \in Blocks THEN files ELSE Put(files, current + 1, Fresh)
        /\ used' \in Int
    BY DEF CopyBtemp, TypeOK
  <2>3. Blocks' = Blocks \cup {current + 1} /\ BlocksInv'
    BY <2>1, <2>2, NewFile
  <2>4. TypeOK'
    BY <2>1, <2>2, <2>3 DEF TypeOK, BlocksInv, GoodFile
  <2>5. ConfigInv'
    BY DEF ConfigInv, Steady
  <2> QED
    BY <2>3, <2>4, <2>5 DEF PendingInv
<1>4. CASE RemoveOldest
  <2> USE <1>4 DEF RemoveOldest
  <2>1. Blocks' = Blocks \ {oldest} /\ \A b \in Blocks' : files'[b] = files[b]
    BY DEF Blocks, Drop
  <2>2. BlocksInv'
    BY <2>1 DEF BlocksInv
  <2>3. TypeOK'
    BY <2>1 DEF TypeOK
  <2>4. ConfigInv'
    BY DEF ConfigInv, Steady
  <2> QED
    BY <2>2, <2>3, <2>4 DEF PendingInv
<1>5. CASE RemoveFails
  <2> USE <1>5 DEF RemoveFails
  <2>1. BlocksInv' /\ TypeOK'
    BY DEF BlocksInv, TypeOK, Blocks
  <2>2. ConfigInv'
    BY DEF ConfigInv, Steady, Blocks
  <2> QED
    BY <2>1, <2>2 DEF PendingInv
<1>6. CASE RefillOldest
  <2> USE <1>6 DEF RefillOldest
  <2>1. oldest \in Nat \ {0} /\ oldest' \in Nat \ {0}
    BY DEF TypeOK, NextOldest
  <2>2. /\ files' = IF oldest \in Blocks THEN files ELSE Put(files, oldest, Fresh)
        /\ used' \in Int
    BY DEF CopyBtemp, TypeOK
  <2>3. Blocks' = Blocks \cup {oldest} /\ BlocksInv'
    BY <2>1, <2>2, NewFile
  <2>4. TypeOK'
    BY <2>1, <2>2, <2>3 DEF TypeOK, BlocksInv, GoodFile
  <2>5. ConfigInv'
    BY DEF ConfigInv, Steady
  <2> QED
    BY <2>3, <2>4, <2>5 DEF PendingInv
<1>7. CASE UpdateCurrentBlock
  <2> USE <1>7 DEF UpdateCurrentBlock
  <2>1. BlocksInv' /\ TypeOK'
    BY DEF BlocksInv, TypeOK, Blocks
  <2>2. ConfigInv'
    BY DEF ConfigInv, Steady, Blocks, TypeOK
  <2> QED
    BY <2>1, <2>2 DEF PendingInv
<1>8. CASE UpdateOldestBlock
  <2> USE <1>8 DEF UpdateOldestBlock
  <2>1. BlocksInv' /\ TypeOK'
    BY DEF BlocksInv, TypeOK, Blocks
  <2>2. ConfigInv'
    BY DEF ConfigInv, Steady, Blocks, TypeOK
  <2> QED
    BY <2>1, <2>2 DEF PendingInv
<1>9. CASE OpenCurrent
  <2> USE <1>9 DEF OpenCurrent
  <2>1. current \in Nat \ {0}
    BY DEF TypeOK
  <2>2. Blocks' = Blocks \cup {current} /\ BlocksInv'
    BY <2>1, NewFile DEF OpenFile
  <2>3. TypeOK'
    BY <2>2 DEF TypeOK, BlocksInv, GoodFile
  <2>4. ConfigInv'
    BY <2>2 DEF ConfigInv, Steady
  <2> QED
    BY <2>2, <2>3, <2>4 DEF PendingInv
<1>10. CASE InsertPoint
  <2> USE <1>10 DEF InsertPoint
  <2>1. PICK g \in Growth :
           /\ files' = [files EXCEPT ![handle].rows = @ \cup {pending},
                                     ![handle].pages = @ + g]
           /\ used' = used + g
    OBVIOUS
  <2>2. pending \in Point /\ handle \in Blocks
    BY DEF PendingInv, ConfigInv, Steady
  <2>3. /\ Blocks' = Blocks
        /\ \A b \in Blocks \ {handle} : files'[b] = files[b]
        /\ files'[handle] = [files[handle] EXCEPT !.rows = @ \cup {pending}, !.pages = @ + g]
    BY <2>1, <2>2 DEF Blocks
  <2>4. BlocksInv'
    <3>1. GoodFile(files[handle])
      BY <2>2 DEF BlocksInv
    <3>2. GoodFile(files'[handle])
      BY <2>2, <2>3, <3>1, InsertedFile
    <3> QED
      BY <2>3, <3>2 DEF BlocksInv
  <2>5. used' \in Int
    BY <2>1 DEF TypeOK
  <2>6. TypeOK'
    BY <2>3, <2>4, <2>5 DEF TypeOK, BlocksInv, GoodFile
  <2>7. ConfigInv'
    BY <2>2, <2>3 DEF ConfigInv, Steady
  <2> QED
    BY <2>4, <2>6, <2>7 DEF PendingInv
<1>11. CASE InsertFails
  <2> USE <1>11 DEF InsertFails
  <2>1. BlocksInv' /\ TypeOK'
    BY DEF BlocksInv, TypeOK, Blocks
  <2>2. ConfigInv'
    BY DEF ConfigInv, Steady, Blocks
  <2> QED
    BY <2>1, <2>2 DEF PendingInv
<1>12. CASE Crash
  <2> USE <1>12 DEF Crash
  <2>1. BlocksInv' /\ TypeOK'
    BY DEF BlocksInv, TypeOK, Blocks
  <2> QED
    BY <2>1 DEF ConfigInv, Steady, PendingInv
<1>13. CASE Connect
  <2> USE <1>13 DEF Connect
  <2>1. dbConfig.current \in Nat \ {0} /\ dbConfig.oldest \in Nat \ {0}
        /\ dbConfig = [current |-> dbConfig.current, oldest |-> dbConfig.oldest]
    BY DEF TypeOK
  <2>2. Blocks' = Blocks \cup {dbConfig.current} /\ BlocksInv'
    BY <2>1, NewFile DEF OpenFile
  <2>3. TypeOK'
    BY <2>1, <2>2 DEF TypeOK, BlocksInv, GoodFile
  <2>4. ConfigInv'
    BY <2>1, <2>2 DEF ConfigInv, Steady
  <2> QED
    BY <2>2, <2>3, <2>4 DEF PendingInv
<1>14. CASE RefuseToConnect
  <2> USE <1>14 DEF RefuseToConnect
  <2>1. BlocksInv' /\ TypeOK'
    BY DEF BlocksInv, TypeOK, Blocks
  <2> QED
    BY <2>1 DEF ConfigInv, Steady, PendingInv
<1>15. CASE UNCHANGED vars
  BY <1>15 DEF vars, BlocksInv, TypeOK, ConfigInv, PendingInv, Blocks
<1> QED
  BY <1>1, <1>2, <1>3, <1>4, <1>5, <1>6, <1>7, <1>8, <1>9, <1>10, <1>11, <1>12,
     <1>13, <1>14, <1>15 DEF Next, Run, Step, Rotate, Restart
-----------------------------------------------------------------------------
(* A step that leaves the Catalog alone and only adds empty files leaves   *)
(* every Catalog row as good as it was.                                    *)
LEMMA SameCatalog ==
    ASSUME CatalogInv, catalog' = catalog,
           \A b \in Blocks' : \/ b \in Blocks /\ files'[b] = files[b]
                              \/ files'[b].rows = {},
           \A b \in Blocks' :
               (pc' \in {"idle", "catalog", "insert", "down", "unconfigured"}
                     => b # dbConfig'.current)
            => (pc \in {"idle", "catalog", "insert", "down", "unconfigured"}
                     => b # dbConfig.current)
    PROVE  CatalogInv'
<1> SUFFICES ASSUME NEW b \in Blocks', files'[b].rows # {},
                    pc' \in {"idle", "catalog", "insert", "down", "unconfigured"}
                        => b # dbConfig'.current
             PROVE  Catalogued(b)'
  BY DEF CatalogInv
<1>1. b \in Blocks /\ files'[b] = files[b]
  OBVIOUS
<1>2. Catalogued(b)
  BY <1>1 DEF CatalogInv
<1> QED
  BY <1>1, <1>2 DEF Catalogued

LEMMA StepCatalogInv ==
    ASSUME CInv, CatalogInv, [Next]_vars
    PROVE  CatalogInv'
<1> USE DEF diskVars, memoryVars, boundVars
<1> DEFINE Idle == {"idle", "catalog", "insert", "down", "unconfigured"}
<1>1. BlocksInv /\ ConfigInv /\ TypeOK
  BY DEF CInv
<1>2. ASSUME NEW ts \in TimeStamp, Store(ts) PROVE CatalogInv'
  BY <1>2, SameCatalog DEF Store, Blocks
<1>3. CASE UpdateCatalog
  <2> USE <1>3 DEF UpdateCatalog
  <2>1. handle = current /\ current \in Blocks /\ files[current].rows # {}
        /\ dbConfig.current = current
    BY <1>1 DEF ConfigInv, Steady
  <2>2. Describes(Period(files[current]), files[current])
    BY <1>1, <2>1, PeriodDescribes DEF BlocksInv
  <2>3. catalog' = Put(catalog, current, Period(files[current]))
    BY <2>1
  <2>4. Catalogued(current)'
    BY <2>2, <2>3 DEF Catalogued, Put
  <2>5. ASSUME NEW b \in Blocks \ {current}, files[b].rows # {} PROVE Catalogued(b)'
    <3>1. Catalogued(b)
      BY <2>1, <2>5 DEF CatalogInv
    <3> QED
      BY <2>3, <3>1 DEF Catalogued, Put
  <2> QED
    BY <2>4, <2>5 DEF CatalogInv, Blocks
<1>4. CASE CreateNewBlock
  <2> USE <1>4 DEF CreateNewBlock
  <2>1. \A b \in Blocks' : (b \in Blocks /\ files'[b] = files[b]) \/ files'[b].rows = {}
    BY FreshFiles DEF CopyBtemp, Put, Blocks
  <2> QED
    BY <2>1, SameCatalog
<1>5. CASE RemoveOldest
  <2> USE <1>5 DEF RemoveOldest
  <2>1. \A b \in Blocks' : b \in Blocks /\ files'[b] = files[b]
    BY DEF Drop, Blocks
  <2> QED
    BY <2>1, SameCatalog
<1>6. CASE RemoveFails
  BY <1>6, SameCatalog DEF RemoveFails, Blocks
<1>7. CASE RefillOldest
  <2> USE <1>7 DEF RefillOldest
  <2>1. \A b \in Blocks' : (b \in Blocks /\ files'[b] = files[b]) \/ files'[b].rows = {}
    BY FreshFiles DEF CopyBtemp, Put, Blocks
  <2> QED
    BY <2>1, SameCatalog
<1>8. CASE UpdateCurrentBlock
  BY <1>8, SameCatalog DEF UpdateCurrentBlock, Blocks
<1>9. CASE UpdateOldestBlock
  BY <1>9, SameCatalog DEF UpdateOldestBlock, Blocks
<1>10. CASE OpenCurrent
  <2> USE <1>10 DEF OpenCurrent
  <2>1. \A b \in Blocks' : (b \in Blocks /\ files'[b] = files[b]) \/ files'[b].rows = {}
    BY FreshFiles DEF OpenFile, Put, Blocks
  <2> QED
    BY <2>1, SameCatalog
<1>11. CASE InsertPoint
  <2> USE <1>11 DEF InsertPoint
  <2>1. handle = dbConfig.current
    BY <1>1 DEF ConfigInv, Steady
  <2>2. Blocks' = Blocks /\ \A b \in Blocks \ {handle} : files'[b] = files[b]
    BY DEF Blocks
  <2>3. ASSUME NEW b \in Blocks \ {dbConfig.current}, files'[b].rows # {}
        PROVE  Catalogued(b)'
    BY <2>1, <2>2, <2>3 DEF CatalogInv, Catalogued
  <2> QED
    BY <2>2, <2>3 DEF CatalogInv
<1>12. CASE InsertFails
  BY <1>12, SameCatalog DEF InsertFails, Blocks
<1>13. CASE Crash
  BY <1>13, SameCatalog DEF Crash, Blocks
<1>14. CASE Connect
  <2> USE <1>14 DEF Connect
  <2>1. \A b \in Blocks' : (b \in Blocks /\ files'[b] = files[b]) \/ files'[b].rows = {}
    BY FreshFiles DEF OpenFile, Put, Blocks
  <2> QED
    BY <2>1, SameCatalog
<1>15. CASE RefuseToConnect
  BY <1>15, SameCatalog DEF RefuseToConnect, Blocks
<1>16. CASE UNCHANGED vars
  BY <1>16, SameCatalog DEF vars, Blocks
<1> QED
  BY <1>2, <1>3, <1>4, <1>5, <1>6, <1>7, <1>8, <1>9, <1>10, <1>11, <1>12, <1>13,
     <1>14, <1>15, <1>16 DEF Next, Run, Step, Rotate, Restart

-----------------------------------------------------------------------------
THEOREM InvariantC == Spec => []CInv
<1>1. Init => CInv
  BY InitCInv
<1>2. CInv /\ [Next]_vars => CInv'
  BY StepCInv
<1> QED
  BY <1>1, <1>2, PTL DEF Spec

(* Every variable keeps its type, crashes or not: no file name b0.db, no   *)
(* negative page count, no other value in the two columns of DB_Config.    *)
THEOREM TypeCorrect == Spec => []TypeOK
<1>1. CInv => TypeOK
  BY DEF CInv
<1> QED
  BY <1>1, InvariantC, PTL

(* Whenever storeVariablePoint has returned, or only the INSERT is left,   *)
(* DB_Config holds the two block numbers memory holds, whatever crashes    *)
(* and restarts came before.                                               *)
THEOREM ConfigurationIsSaved == Spec => []ConfigSaved
<1>1. CInv => ConfigSaved
  BY DEF CInv, ConfigInv, ConfigSaved, Steady
<1> QED
  BY <1>1, InvariantC, PTL

(* Every block with samples but the one being written has a Catalog row    *)
(* that begins with its first time stamp and ends with what toUInt leaves  *)
(* of its last one, crashes or not and for time stamps of any size:        *)
(* updateCatalog comes before every step that takes the block out of use.  *)
THEOREM SealedBlocksCatalogued == Spec => []SealedCatalogued
<1>1. Init => CatalogInv
  BY FreshFiles DEF Init, CatalogInv, Blocks
<1>2. CInv /\ CatalogInv /\ [Next]_vars => CatalogInv'
  BY StepCatalogInv
<1>3. CInv /\ CatalogInv => SealedCatalogued
  <2> SUFFICES ASSUME CInv, CatalogInv, NEW b \in Blocks \ {Written}, files[b].rows # {}
               PROVE  Catalogued(b)
    BY DEF SealedCatalogued
  <2>1. pc \in {"idle", "catalog", "insert", "down", "unconfigured"} => Written = dbConfig.current
    BY DEF CInv, ConfigInv, Steady, Written
  <2> QED
    BY <2>1 DEF CatalogInv
<1> QED
  BY <1>1, <1>2, <1>3, InvariantC, PTL DEF Spec
-----------------------------------------------------------------------------
(***************************************************************************)
(* How many pages the blocks of a ring have: e[i] says by how much the     *)
(* blocks 1..i exceed SealedPages, and e changes with one block at a time. *)
(***************************************************************************)
Sealed(b) == b \in Blocks /\ files[b].pages >= SealedPages
Pages(b)  == IF b \in Blocks THEN files[b].pages ELSE 0
Excess(b) == IF Pages(b) >= SealedPages THEN Pages(b) - SealedPages ELSE 0
Lack(b)   == IF Pages(b) >= SealedPages THEN 0 ELSE SealedPages - Pages(b)

(* e adds up what the blocks 1..n have grown beyond SealedPages. *)
Adds(e, n) ==
    /\ e \in [0 .. n -> Nat]
    /\ \A i \in 1 .. n : e[i] = e[i - 1] + Excess(i)
    /\ \A i, j \in 0 .. n : i <= j => e[i] <= e[j]

(* A file is found full if it has SealedPages pages or more. *)
LEMMA FullPages ==
    /\ SealedPages \in Nat \ {0} /\ BtempPages < SealedPages
    /\ \A p \in Nat : p * PageSize >= BlockSize <=> p >= SealedPages
<1>1. PageSize \in Nat \ {0} /\ BlockSize \in Nat \ {0} /\ BtempPages \in Nat \ {0}
      /\ BtempPages * PageSize < BlockSize
  BY ConstantTypes DEF BtempSize
<1>2. /\ SealedPages \in Int
      /\ SealedPages * PageSize <= BlockSize + PageSize - 1
      /\ BlockSize + PageSize - 1 < (SealedPages + 1) * PageSize
  BY <1>1 DEF SealedPages
<1> DEFINE S == SealedPages
           P == PageSize
           B == BlockSize
<1> HIDE DEF S, P, B
<1>3. S \in Int /\ P \in Nat \ {0} /\ B \in Nat \ {0} /\ S * P < B + P /\ B <= S * P
  BY <1>1, <1>2 DEF S, P, B
<1>4. ASSUME NEW p \in Nat, p >= S PROVE p * P >= B
  <2>1. p * P >= S * P
    BY <1>3, <1>4
  <2> QED
    BY <1>3, <2>1
<1>5. ASSUME NEW p \in Nat, p < S PROVE p * P < B
  <2>1. p * P + P <= S * P
    BY <1>3, <1>5
  <2> QED
    BY <1>3, <2>1
<1>6. S > 0
  BY <1>3
<1>7. BtempPages < S
  BY <1>1, <1>3, <1>4 DEF P, B
<1>8. \A p \in Nat : p * P >= B <=> p >= S
  BY <1>3, <1>4, <1>5
<1> QED
  BY <1>3, <1>6, <1>7, <1>8 DEF S, P, B

LEMMA Numbers ==
    /\ {DiskSize, MainSize, BtempSize} \subseteq Nat /\ DiskSize < Word /\ Word \in Nat
    /\ PageSize \in Nat \ {0} /\ BtempPages \in Nat \ {0} /\ SealedPages \in Nat \ {0}
    /\ BtempPages < SealedPages /\ BlockSize \in Int
    /\ \A p, q \in Int : p <= q => p * PageSize <= q * PageSize
    /\ \A p \in Int : p * PageSize \in Int
<1>1. /\ {DiskSize, MainSize, BtempSize} \subseteq Nat /\ DiskSize < Word /\ Word \in Nat
      /\ PageSize \in Nat \ {0} /\ BtempPages \in Nat \ {0} /\ SealedPages \in Nat \ {0}
      /\ BtempPages < SealedPages /\ BlockSize \in Int
  BY ConstantTypes, FullPages, BlockStoreAssumption
<1>2. \A p, q \in Int : p <= q => p * PageSize <= q * PageSize
  BY <1>1
<1>3. \A p \in Int : p * PageSize \in Int
  BY <1>1
<1> QED
  BY <1>1, <1>2, <1>3

(* What Pages, Excess and Lack of a block have to do with one another, in  *)
(* this state and in the next one.                                         *)
Counted(b) ==
    /\ Pages(b) \in Nat /\ Excess(b) \in Nat /\ Lack(b) \in 0 .. SealedPages
    /\ Pages(b) = SealedPages + Excess(b) - Lack(b)
    /\ Sealed(b) <=> Lack(b) = 0

LEMMA PageCounts ==
    ASSUME NEW b PROVE (TypeOK => Counted(b)) /\ (TypeOK' => Counted(b)')
<1>1. ASSUME TypeOK PROVE Counted(b)
  <2>1. Pages(b) \in Nat
    BY <1>1 DEF Pages, TypeOK, File
  <2>2. Sealed(b) <=> Pages(b) >= SealedPages
    BY Numbers DEF Sealed, Pages
  <2> QED
    BY <2>1, <2>2, Numbers DEF Counted, Excess, Lack
<1>2. ASSUME TypeOK' PROVE Counted(b)'
  <2>1. Pages(b)' \in Nat
    BY <1>2 DEF Pages, TypeOK, File
  <2>2. Sealed(b)' <=> Pages(b)' >= SealedPages
    BY Numbers DEF Sealed, Pages
  <2> QED
    BY <2>1, <2>2, Numbers DEF Counted, Excess, Lack
<1> QED
  BY <1>1, <1>2

(* When one block b of the ring gets more or fewer pages, e changes from b *)
(* on by as much as the excess of b.                                       *)
LEMMA ExcessOfOne ==
    ASSUME TypeOK, TypeOK', NEW n \in Nat \ {0}, NEW e, Adds(e, n), NEW b \in 1 .. n,
           \A y \in 1 .. n : y # b => Pages(y)' = Pages(y)
    PROVE  \E f : /\ Adds(f, n)' /\ f[n] = e[n] + Excess(b)' - Excess(b)
                  /\ \A i \in 0 .. n : f[i] = IF i < b THEN e[i] ELSE e[i] + Excess(b)' - Excess(b)
<1> DEFINE d == Excess(b)' - Excess(b)
           f == [i \in 0 .. n |-> IF i < b THEN e[i] ELSE e[i] + d]
<1>1. /\ \A i \in 0 .. n : e[i] \in Nat
      /\ \A i \in 1 .. n : e[i] = e[i - 1] + Excess(i)
      /\ \A i, j \in 0 .. n : i <= j => e[i] <= e[j]
  BY DEF Adds
<1>2. d \in Int /\ Excess(b)' \in Nat /\ Excess(b) \in Nat
  BY PageCounts DEF Counted
<1>3. \A y \in 1 .. n : y # b => Excess(y)' = Excess(y)
  BY DEF Excess
<1>4. /\ \A i \in 0 .. b - 1 : f[i] = e[i]
      /\ \A i \in b .. n : f[i] = e[i] + d
  OBVIOUS
<1>5. b - 1 \in 0 .. n /\ e[b] + d = e[b - 1] + Excess(b)' /\ e[b - 1] \in Nat
  BY <1>1, <1>2
<1>6. \A i \in b .. n : e[i] + d \in Nat /\ e[b - 1] <= e[i] + d
  <2> SUFFICES ASSUME NEW i \in b .. n PROVE e[i] + d \in Nat /\ e[b - 1] <= e[i] + d
    OBVIOUS
  <2>1. e[b] <= e[i] /\ e[i] \in Nat /\ e[b] \in Nat
    BY <1>1
  <2> HIDE DEF d
  <2> QED
    BY <1>2, <1>5, <2>1
<1> HIDE DEF d
<1>7. f \in [0 .. n -> Nat]
  BY <1>1, <1>6
<1>8. \A i, j \in 0 .. n : i <= j => f[i] <= f[j]
  <2> SUFFICES ASSUME NEW i \in 0 .. n, NEW j \in 0 .. n, i <= j PROVE f[i] <= f[j]
    OBVIOUS
  <2>1. e[i] \in Nat /\ e[j] \in Nat /\ e[i] <= e[j]
    BY <1>1
  <2>2. CASE j < b
    BY <1>4, <2>1, <2>2
  <2>3. CASE i < b /\ j >= b
    <3>1. e[i] <= e[b - 1] /\ e[b - 1] <= e[j] + d
      BY <1>1, <1>5, <1>6, <2>3
    <3>2. f[i] = e[i] /\ f[j] = e[j] + d
      BY <1>4, <2>3
    <3> QED
      BY <1>2, <1>5, <2>1, <3>1, <3>2
  <2>4. CASE i >= b
    BY <1>2, <1>4, <2>1, <2>4
  <2> QED
    BY <2>2, <2>3, <2>4
<1>9. \A i \in 1 .. n : f[i] = f[i - 1] + Excess(i)'
  <2> SUFFICES ASSUME NEW i \in 1 .. n PROVE f[i] = f[i - 1] + Excess(i)'
    OBVIOUS
  <2>1. /\ i - 1 \in 0 .. n /\ e[i] = e[i - 1] + Excess(i)
        /\ e[i] \in Nat /\ e[i - 1] \in Nat /\ Excess(i) \in Nat
    BY <1>1, PageCounts DEF Counted
  <2>2. CASE i < b
    BY <1>3, <1>4, <2>1, <2>2
  <2>3. CASE i = b
    BY <1>4, <1>5, <2>3
  <2>4. CASE i > b
    <3>1. Excess(i)' = Excess(i) /\ f[i] = e[i] + d /\ f[i - 1] = e[i - 1] + d
      BY <1>3, <1>4, <2>4
    <3> QED
      BY <1>2, <2>1, <3>1
  <2> QED
    BY <2>2, <2>3, <2>4
<1>10. f[n] = e[n] + Excess(b)' - Excess(b)
  BY <1>1, <1>2, <1>4 DEF d
<1>11. \A i \in 0 .. n : f[i] = IF i < b THEN e[i] ELSE e[i] + Excess(b)' - Excess(b)
  BY <1>1, <1>2, <1>4 DEF d
<1> HIDE DEF f
<1> QED
  BY <1>7, <1>8, <1>9, <1>10, <1>11 DEF Adds

-----------------------------------------------------------------------------
(***************************************************************************)
(* Part 2 is about RunSpec, without crashes, for sizes that are Sized and  *)
(* files that can be removed: the block files 1..n form a ring whose order *)
(* is the order of arrival, with the current block just before the oldest; *)
(* a block leaves it only as the oldest, and the ring never outgrows the   *)
(* disk.  n grows only while the current block is the last one.  A full    *)
(* block has between SealedPages and LargestPages pages, and the pages of  *)
(* all files are what those of n smallest blocks and their excess make,    *)
(* less what one block lacks: the one being written, or the missing one.   *)
(***************************************************************************)
After(b, n) == IF b = n THEN 1 ELSE b + 1
Position(b, n) == IF b >= oldest THEN b ELSE b + n

ShapeInv(n) ==
    /\ Blocks = IF pc = "refill" THEN (1 .. n) \ {oldest} ELSE 1 .. n
    /\ current \in 1 .. n /\ oldest = After(current, n)
    /\ \/ DOMAIN catalog = 1 .. n
       \/ /\ DOMAIN catalog = 1 .. n - 1 /\ current = n
          /\ pc \notin {"create", "remove", "refill"}
    /\ pc \notin {"down", "unconfigured"}

Filling == {"insert", "saveCurrent", "recycleSaveCurrent", "saveOldest", "open"}
Sealing == {"catalog", "create", "remove", "refill"}

AtMost(e, n) ==
    \A i, j \in 0 .. n : i <= j => e[j] - e[i] <= (j - i) * (MaxGrowth - 1)
RingRoom(n, w) ==
    \E e : /\ Adds(e, n) /\ AtMost(e, n) /\ e[0] = 0
           /\ used = BtempPages + n * SealedPages + e[n] - Lack(w)

SizeInv(n) ==
    /\ \A b \in Blocks :
          /\ files[b].table /\ files[b].pages <= LargestPages
          /\ b # current \/ pc \in Sealing => files[b].pages >= SealedPages
          /\ b = current /\ pc \in Filling => files[b].pages < SealedPages
    /\ \E w \in 1 .. n : w = (IF pc = "refill" THEN oldest ELSE current) /\ RingRoom(n, w)
    /\ AlwaysFits(n)
    /\ current # n \/ pc \in {"remove", "refill"} => NoMore(n)
    /\ pc = "create" => current = n /\ AlwaysFits(n + 1)

(* The number of the last sample the files can hold. *)
LastStored == IF pc = "idle" THEN arrived ELSE arrived - 1

OrderInv(n) ==
    /\ \A b \in Blocks : \A r \in files[b].rows : r.n <= LastStored
    /\ pc # "idle" => pending.n = arrived
    /\ \A b, c \in Blocks : Position(b, n) < Position(c, n) => Older(b, c)

RingInv == \E n \in Nat \ {0} : ShapeInv(n) /\ SizeInv(n) /\ OrderInv(n)

(* The pages of n largest blocks, and what it takes for them to fit.       *)
LEMMA LargestCounts ==
    /\ LargestPages \in Nat \ {0} /\ LargestPages >= SealedPages
    /\ \A n \in Nat : /\ n * SealedPages \in Nat /\ n * LargestPages \in Nat
                      /\ n * LargestPages = n * SealedPages + n * (MaxGrowth - 1)
                      /\ n * (MaxGrowth - 1) \in Nat
                      /\ (n + 1) * LargestPages = n * LargestPages + LargestPages
<1>1. SealedPages \in Nat \ {0} /\ MaxGrowth \in Nat \ {0}
  BY FullPages, ConstantTypes
<1>2. LargestPages = SealedPages + (MaxGrowth - 1) /\ MaxGrowth - 1 \in Nat
  BY <1>1 DEF LargestPages
<1>3. LargestPages \in Nat \ {0} /\ LargestPages >= SealedPages
  BY <1>1, <1>2
<1>4. ASSUME NEW n \in Nat, NEW S \in Nat, NEW H \in Nat, NEW L \in Nat, L = S + H
      PROVE  /\ n * S \in Nat /\ n * L \in Nat /\ n * L = n * S + n * H /\ n * H \in Nat
             /\ (n + 1) * L = n * L + L
  BY <1>4
<1> QED
  BY <1>1, <1>2, <1>3, <1>4

LEMMA AlwaysIsFits == \A n \in Nat : AlwaysFits(n) => Fits(n)
<1> SUFFICES ASSUME NEW n \in Nat, AlwaysFits(n) PROVE Fits(n)
  OBVIOUS
<1>1. /\ BtempPages + n * SealedPages \in Int /\ BtempPages + n * LargestPages \in Int
      /\ BtempPages + n * SealedPages <= BtempPages + n * LargestPages
  BY LargestCounts, Numbers
<1>2. (BtempPages + n * SealedPages) * PageSize <= (BtempPages + n * LargestPages) * PageSize
  BY <1>1, Numbers
<1>3. /\ (BtempPages + n * SealedPages) * PageSize \in Int
      /\ (BtempPages + n * LargestPages) * PageSize \in Int
  BY <1>1, Numbers
<1> QED
  BY <1>2, <1>3, Numbers DEF AlwaysFits, Fits, Taken

(* With n full blocks that always fit, remainingSize does not wrap around: *)
(* a new block is created only if it always fits, and not at all if the    *)
(* smallest n blocks leave no room.                                        *)
LEMMA RoomLeft ==
    ASSUME Sized, NEW n \in Nat \ {0}, AlwaysFits(n), used \in Int,
           BtempPages + n * SealedPages <= used, used <= BtempPages + n * LargestPages
    PROVE  /\ RemainingSize >= BlockSize => AlwaysFits(n + 1)
           /\ NoMore(n) <=> ~(RemainingSize >= BlockSize)
<1> DEFINE T == MainSize + used * PageSize
           L == MainSize + (BtempPages + n * LargestPages) * PageSize
<1>1. /\ n * SealedPages \in Nat /\ n * LargestPages \in Nat
      /\ LargestPages \in Nat \ {0} /\ LargestPages >= SealedPages
      /\ (n + 1) * LargestPages = n * LargestPages + LargestPages
  BY LargestCounts
<1>2. used \in Nat /\ n <= n * SealedPages
  <2>1. n <= n * SealedPages
    BY Numbers
  <2> QED
    BY <1>1, <2>1, Numbers
<1>3. used * PageSize \in Nat /\ used <= used * PageSize
  BY <1>2, Numbers
<1>4. (BtempPages + n * LargestPages) * PageSize \in Int
      /\ used * PageSize <= (BtempPages + n * LargestPages) * PageSize
  BY <1>1, <1>2, Numbers
<1>5. T \in Nat /\ T <= L /\ L \in Int /\ n <= T
  BY <1>1, <1>2, <1>3, <1>4, Numbers
<1>6. L <= DiskSize
  BY DEF AlwaysFits
<1>7. RemainingSize = (DiskSize - T) % Word
  BY DEF RemainingSize
<1>8. Taken(n) \in Int /\ Taken(n) <= T
  <2>1. (BtempPages + n * SealedPages) * PageSize \in Int
        /\ (BtempPages + n * SealedPages) * PageSize <= used * PageSize
    BY <1>1, <1>2, Numbers
  <2> QED
    BY <1>3, <2>1, Numbers DEF Taken
<1>9. MainSize + (BtempPages + (n + 1) * LargestPages) * PageSize = L + LargestPages * PageSize
      /\ LargestPages * PageSize \in Int /\ LargestPages * PageSize >= BlockSize
  <2>1. (BtempPages + n * LargestPages + LargestPages) * PageSize
           = (BtempPages + n * LargestPages) * PageSize + LargestPages * PageSize
    BY <1>1, Numbers
  <2>2. BtempPages + (n + 1) * LargestPages = BtempPages + n * LargestPages + LargestPages
    BY <1>1, Numbers
  <2>3. LargestPages * PageSize \in Int /\ LargestPages * PageSize >= BlockSize
    BY <1>1, FullPages, Numbers
  <2> QED
    BY <1>4, <2>1, <2>2, <2>3, Numbers
<1>10. AlwaysFits(n + 1) => L + LargestPages * PageSize <= DiskSize
  BY <1>9 DEF AlwaysFits
<1> HIDE DEF T, L
<1>11. RemainingSize = DiskSize - T
  BY <1>5, <1>6, <1>7, Numbers
<1>12. NoMore(n) \/ AlwaysFits(n + 1)
  <2>1. n \in 1 .. DiskSize
    BY <1>5, <1>6, Numbers
  <2> QED
    BY <2>1 DEF Sized
<1>13. RemainingSize >= BlockSize => ~NoMore(n)
  BY <1>5, <1>8, <1>11, Numbers DEF NoMore
<1>14. AlwaysFits(n + 1) => RemainingSize >= BlockSize
  BY <1>5, <1>9, <1>10, <1>11, Numbers
<1> QED
  BY <1>12, <1>13, <1>14

(* The room a ring takes: at most that of its largest blocks, and at least *)
(* that of its smallest when none lacks a page.                            *)
LEMMA RoomBounds ==
    ASSUME TypeOK, NEW n \in Nat \ {0}, NEW w, RingRoom(n, w)
    PROVE  /\ used \in Int /\ used <= BtempPages + n * LargestPages
           /\ Lack(w) = 0 => BtempPages + n * SealedPages <= used
<1>1. PICK e : /\ Adds(e, n) /\ AtMost(e, n) /\ e[0] = 0
               /\ used = BtempPages + n * SealedPages + e[n] - Lack(w)
  BY DEF RingRoom
<1>2. 0 \in 0 .. n /\ n \in 0 .. n /\ 0 <= n /\ n - 0 = n
  OBVIOUS
<1>3. e[n] \in Nat /\ e[n] - e[0] <= (n - 0) * (MaxGrowth - 1)
  BY <1>1, <1>2 DEF Adds, AtMost
<1>4. e[n] <= n * (MaxGrowth - 1)
  BY <1>1, <1>2, <1>3
<1>5. Lack(w) \in Nat /\ used \in Int
  BY PageCounts DEF Counted, TypeOK
<1> QED
  BY <1>1, <1>3, <1>4, <1>5, LargestCounts, Numbers

LEMMA SameRoom ==
    ASSUME NEW n, NEW w, RingRoom(n, w), files' = files, used' = used
    PROVE  RingRoom(n, w)'
<1>1. \A b : Pages(b)' = Pages(b)
  BY DEF Pages, Blocks
<1>2. \A b : Excess(b)' = Excess(b) /\ Lack(b)' = Lack(b)
  BY <1>1 DEF Excess, Lack
<1>3. PICK e : /\ Adds(e, n) /\ AtMost(e, n) /\ e[0] = 0
               /\ used = BtempPages + n * SealedPages + e[n] - Lack(w)
  BY DEF RingRoom
<1>4. Adds(e, n)'
  BY <1>2, <1>3 DEF Adds
<1> QED
  BY <1>2, <1>3, <1>4 DEF RingRoom, AtMost

(* The excess of a ring stays bounded when one block changes. *)
LEMMA AtMostOfOne ==
    ASSUME NEW n \in Nat \ {0}, NEW e \in [0 .. n -> Nat], AtMost(e, n), NEW b \in 1 .. n,
           NEW x \in 0 .. MaxGrowth - 1, NEW f,
           \A i \in 0 .. n : f[i] = IF i < b THEN e[i] ELSE e[i] + x - (e[b] - e[b - 1])
    PROVE  AtMost(f, n)
<1> DEFINE H == MaxGrowth - 1
<1>1. H \in Nat /\ x \in Nat /\ x <= H
  BY ConstantTypes
<1>2. \A i \in 0 .. n : e[i] \in Nat
  OBVIOUS
<1>3. \A i, j \in 0 .. n : i <= j => e[j] - e[i] <= (j - i) * H
  BY DEF AtMost
<1> HIDE DEF H
<1>4. ASSUME NEW i \in 0 .. n, NEW j \in 0 .. n, i <= j PROVE f[j] - f[i] <= (j - i) * H
  <2>1. e[i] \in Nat /\ e[j] \in Nat /\ e[b] \in Nat /\ e[b - 1] \in Nat
    BY <1>2
  <2>2. CASE j < b
    <3>1. f[i] = e[i] /\ f[j] = e[j]
      BY <1>4, <2>2
    <3> QED
      BY <1>3, <1>4, <3>1
  <2>3. CASE i >= b
    <3>1. f[j] - f[i] = e[j] - e[i]
      BY <1>1, <1>4, <2>1, <2>3
    <3> QED
      BY <1>3, <1>4, <3>1
  <2>4. CASE i < b /\ j >= b
    <3>1. f[j] - f[i] = (e[j] - e[b]) + x + (e[b - 1] - e[i])
      BY <1>1, <2>1, <2>4
    <3>2. b \in 0 .. n /\ b - 1 \in 0 .. n /\ b <= j /\ i <= b - 1
      BY <2>4
    <3>3. e[j] - e[b] <= (j - b) * H
      BY <1>3, <3>2
    <3>4. e[b - 1] - e[i] <= ((b - 1) - i) * H
      BY <1>3, <3>2
    <3>5. PICK u, v \in Int : u = (j - b) * H /\ v = ((b - 1) - i) * H
      BY <1>1
    <3>6. (j - i) * H = u + H + v
      BY <1>1, <3>5
    <3>7. e[j] - e[b] <= u /\ e[b - 1] - e[i] <= v
      BY <3>3, <3>4, <3>5
    <3>8. (e[j] - e[b]) + x + (e[b - 1] - e[i]) <= u + H + v
      <4>1. PICK p \in Int : p = e[j] - e[b]
        BY ONLY <2>1
      <4>2. PICK q \in Int : q = e[b - 1] - e[i]
        BY ONLY <2>1
      <4>3. p <= u /\ q <= v
        BY ONLY <3>7, <4>1, <4>2
      <4>4. p + x + q <= u + H + v
        BY ONLY <1>1, <4>3, p \in Int, q \in Int, u \in Int, v \in Int
      <4> QED
        BY ONLY <4>1, <4>2, <4>4
    <3> QED
      BY <3>1, <3>6, <3>8
  <2> QED
    BY <2>2, <2>3, <2>4
<1> QED
  BY <1>4 DEF AtMost, H

(* One block b of the ring gets more or fewer pages; it is the block that  *)
(* lacked pages, or none did.                                              *)
LEMMA RoomOfRing ==
    ASSUME TypeOK, TypeOK', NEW n \in Nat \ {0}, NEW w \in 1 .. n, RingRoom(n, w),
           NEW b \in 1 .. n, w = b \/ (Lack(w) = 0 /\ Lack(b) = 0),
           \A y \in 1 .. n : y # b => Pages(y)' = Pages(y),
           used' = used + Pages(b)' - Pages(b), Excess(b)' <= MaxGrowth - 1
    PROVE  RingRoom(n, b)'
<1>1. PICK e : /\ Adds(e, n) /\ AtMost(e, n) /\ e[0] = 0
               /\ used = BtempPages + n * SealedPages + e[n] - Lack(w)
  BY DEF RingRoom
<1>2. PICK f : /\ Adds(f, n)' /\ f[n] = e[n] + Excess(b)' - Excess(b)
               /\ \A i \in 0 .. n : f[i] = IF i < b THEN e[i] ELSE e[i] + Excess(b)' - Excess(b)
  BY <1>1, ExcessOfOne
<1>3. /\ Pages(b) = SealedPages + Excess(b) - Lack(b)
      /\ Pages(b)' = SealedPages + Excess(b)' - Lack(b)'
      /\ {Pages(b), Pages(b)', Excess(b), Excess(b)', Lack(b), Lack(b)'} \subseteq Nat
  BY PageCounts DEF Counted
<1>4. /\ e \in [0 .. n -> Nat] /\ e[n] \in Nat
      /\ e[b] = e[b - 1] + Excess(b)
      /\ f \in [0 .. n -> Nat] /\ f[n] \in Nat
  <2>1. e \in [0 .. n -> Nat] /\ e[b] = e[b - 1] + Excess(b)
    BY <1>1 DEF Adds
  <2>2. f \in [0 .. n -> Nat]
    BY <1>2 DEF Adds
  <2>3. n \in 0 .. n
    OBVIOUS
  <2> QED
    BY <2>1, <2>2, <2>3
<1>5. e[b - 1] \in Nat /\ Excess(b)' \in 0 .. MaxGrowth - 1
  BY <1>3, <1>4, ConstantTypes
<1>6. Excess(b) = e[b] - e[b - 1]
  <2>1. Excess(b) \in Nat /\ e[b - 1] \in Nat /\ e[b] = e[b - 1] + Excess(b)
    BY <1>3, <1>4, <1>5
  <2> QED
    BY ONLY <2>1
<1>7. AtMost(f, n)
  <2>1. \A i \in 0 .. n : f[i] = IF i < b THEN e[i] ELSE e[i] + Excess(b)' - (e[b] - e[b - 1])
    BY <1>2, <1>6
  <2> DEFINE x == Excess(b)'
  <2>2. x \in 0 .. MaxGrowth - 1
    BY <1>5
  <2>3. \A i \in 0 .. n : f[i] = IF i < b THEN e[i] ELSE e[i] + x - (e[b] - e[b - 1])
    BY <2>1
  <2> HIDE DEF x
  <2> QED
    BY ONLY <1>1, <1>4, <2>2, <2>3, AtMostOfOne, n \in Nat \ {0}, b \in 1 .. n
<1>8. f[0] = 0
  BY <1>1, <1>2
<1>9. used \in Int /\ n * SealedPages \in Int /\ Lack(w) = Lack(b)
  BY <1>3, Numbers DEF TypeOK
<1>10. used' = BtempPages + n * SealedPages + f[n] - Lack(b)'
  <2>1. used = BtempPages + n * SealedPages + e[n] - Lack(b)
    BY <1>1, <1>9
  <2>2. used' = used + Pages(b)' - Pages(b) /\ f[n] = e[n] + Excess(b)' - Excess(b)
    BY <1>2
  <2>3. BtempPages \in Int /\ SealedPages \in Int
    BY Numbers
  <2>4. /\ {Pages(b), Pages(b)', Excess(b), Excess(b)', Lack(b), Lack(b)', e[n], f[n]} \subseteq Int
        /\ used \in Int /\ n * SealedPages \in Int
    BY <1>3, <1>4, <1>9
  <2> QED
    BY ONLY <1>3, <2>1, <2>2, <2>3, <2>4
<1> QED
  BY <1>2, <1>7, <1>8, <1>10 DEF RingRoom, AtMost

(* The ring gets one block more, a copy of btemp.db, behind a full one. *)
LEMMA RoomOfEnd ==
    ASSUME TypeOK, TypeOK', NEW n \in Nat \ {0}, RingRoom(n, n), Lack(n) = 0,
           \A y \in 1 .. n : Pages(y)' = Pages(y), Pages(n + 1)' = BtempPages,
           used' = used + BtempPages
    PROVE  RingRoom(n + 1, n + 1)'
<1>1. PICK e : /\ Adds(e, n) /\ AtMost(e, n) /\ e[0] = 0
               /\ used = BtempPages + n * SealedPages + e[n] - Lack(n)
  BY DEF RingRoom
<1>2. /\ \A i \in 0 .. n : e[i] \in Nat
      /\ \A i \in 1 .. n : e[i] = e[i - 1] + Excess(i)
      /\ \A i, j \in 0 .. n : i <= j => e[i] <= e[j]
      /\ \A i, j \in 0 .. n : i <= j => e[j] - e[i] <= (j - i) * (MaxGrowth - 1)
  BY <1>1 DEF Adds, AtMost
<1>3. /\ \A i \in 1 .. n : Excess(i)' = Excess(i)
      /\ Excess(n + 1)' = 0 /\ Lack(n + 1)' = SealedPages - BtempPages
  BY Numbers DEF Excess, Lack
<1> DEFINE f == [i \in 0 .. n + 1 |-> IF i = n + 1 THEN e[n] ELSE e[i]]
<1>4. f[n + 1] = e[n] /\ \A i \in 0 .. n : f[i] = e[i]
  OBVIOUS
<1>5. f \in [0 .. n + 1 -> Nat]
  <2>1. \A i \in 0 .. n + 1 : i = n + 1 \/ i \in 0 .. n
    OBVIOUS
  <2> QED
    BY <1>2, <2>1
<1> HIDE DEF f
<1>6. ASSUME NEW i \in 1 .. n + 1 PROVE f[i] = f[i - 1] + Excess(i)'
  <2>1. CASE i = n + 1
    BY <1>2, <1>3, <1>4, <2>1
  <2>2. CASE i # n + 1
    <3>1. i \in 1 .. n /\ i \in 0 .. n /\ i - 1 \in 0 .. n
      BY <2>2
    <3>2. f[i] = e[i] /\ f[i - 1] = e[i - 1]
      BY <1>4, <3>1
    <3> QED
      BY <1>2, <1>3, <3>1, <3>2
  <2> QED
    BY <2>1, <2>2
<1>7. ASSUME NEW i \in 0 .. n + 1, NEW j \in 0 .. n + 1, i <= j
      PROVE  f[i] <= f[j] /\ f[j] - f[i] <= (j - i) * (MaxGrowth - 1)
  <2> DEFINE H == MaxGrowth - 1
  <2>1. H \in Nat
    BY ConstantTypes
  <2>2. \A k, l \in 0 .. n : k <= l => e[l] - e[k] <= (l - k) * H
    BY <1>2
  <2> HIDE DEF H
  <2>3. CASE i = n + 1
    BY <1>2, <1>4, <1>7, <2>1, <2>3
  <2>4. CASE i # n + 1 /\ j = n + 1
    <3>1. i \in 0 .. n /\ f[i] = e[i] /\ f[j] = e[n] /\ e[i] \in Nat /\ e[n] \in Nat
          /\ e[i] <= e[n] /\ e[n] - e[i] <= (n - i) * H
      BY <1>2, <1>4, <2>2, <2>4
    <3>2. (j - i) * H = (n - i) * H + H /\ (n - i) * H \in Int
      BY <2>1, <2>4
    <3> QED
      BY <2>1, <3>1, <3>2 DEF H
  <2>5. CASE i # n + 1 /\ j # n + 1
    BY <1>2, <1>4, <1>7, <2>2, <2>5 DEF H
  <2> QED
    BY <2>3, <2>4, <2>5 DEF H
<1>8. Adds(f, n + 1)'
  BY <1>5, <1>6, <1>7 DEF Adds
<1>9. AtMost(f, n + 1) /\ f[0] = 0
  BY <1>1, <1>4, <1>7 DEF AtMost
<1>10. /\ (n + 1) * SealedPages = n * SealedPages + SealedPages
       /\ n * SealedPages \in Int /\ e[n] \in Int /\ used \in Int
  BY <1>2, Numbers DEF TypeOK
<1>11. used' = BtempPages + (n + 1) * SealedPages + f[n + 1] - Lack(n + 1)'
  BY <1>1, <1>3, <1>4, <1>10, Numbers
<1> QED
  BY <1>8, <1>9, <1>11 DEF RingRoom, AtMost

LEMMA InitRing == ASSUME Sized, Init PROVE RingInv
<1> USE ConstantTypes, FullPages
<1>1. Blocks = {1} /\ files[1] = Fresh /\ 1 .. 1 = {1}
  BY DEF Init, Blocks
<1>2. ShapeInv(1)
  BY <1>1 DEF ShapeInv, Init, After
<1>3. RingRoom(1, 1)
  <2> DEFINE e == [i \in 0 .. 1 |-> 0]
  <2>1. Pages(1) = BtempPages
    BY <1>1 DEF Pages, Fresh
  <2>2. Excess(1) = 0 /\ Lack(1) = SealedPages - BtempPages
    BY <2>1 DEF Excess, Lack
  <2>3. Adds(e, 1)
    BY <2>2 DEF Adds
  <2>4. AtMost(e, 1)
    <3> SUFFICES ASSUME NEW i \in 0 .. 1, NEW j \in 0 .. 1, i <= j
                 PROVE  0 <= (j - i) * (MaxGrowth - 1)
      BY DEF AtMost
    <3> QED
      OBVIOUS
  <2>5. used = BtempPages + 1 * SealedPages + e[1] - Lack(1)
    BY <2>2 DEF Init
  <2> QED
    BY <2>3, <2>4, <2>5 DEF RingRoom
<1>4. SizeInv(1)
  BY <1>1, <1>3, LargestCounts DEF SizeInv, Init, Fresh, Filling, Sealing, Sized
<1>5. OrderInv(1)
  BY <1>1 DEF OrderInv, Init, Fresh, Older, Position
<1> QED
  BY <1>2, <1>4, <1>5 DEF RingInv

LEMMA StepRing == ASSUME Sized, ~RemoveMayFail, CInv, CInv', RingInv, [Run]_vars PROVE RingInv'
<1> PICK n \in Nat \ {0} : ShapeInv(n) /\ SizeInv(n) /\ OrderInv(n)
  BY DEF RingInv
<1> USE ConstantTypes, FullPages DEF diskVars, memoryVars, boundVars
<1>t. /\ \A b \in Blocks : files[b] \in File
      /\ arrived \in Nat /\ used \in Int
      /\ pc \in Steady => handle = current
  BY DEF CInv, TypeOK, ConfigInv
<1>w. PICK w \in 1 .. n : w = (IF pc = "refill" THEN oldest ELSE current) /\ RingRoom(n, w)
  BY DEF SizeInv
<1>l. /\ LargestPages \in Nat /\ LargestPages >= SealedPages
      /\ LargestPages = SealedPages + MaxGrowth - 1
  BY LargestCounts DEF LargestPages
<1>c. TypeOK /\ TypeOK' /\ \A b : Counted(b) /\ Counted(b)'
  BY PageCounts DEF CInv
<1>g. \A m \in Nat \ {0} : ShapeInv(m)' /\ SizeInv(m)' /\ OrderInv(m)' => RingInv'
  BY DEF RingInv
<1>p. \A b \in 1 .. n : Position(b, n) \in Int
  BY DEF Position, ShapeInv, After
<1>1. ASSUME NEW ts \in TimeStamp, Store(ts) PROVE RingInv'
  <2> USE <1>1 DEF Store
  <2>1. ShapeInv(n)'
    BY DEF ShapeInv, Blocks
  <2>2. current \in Blocks /\ handle = current
    BY <1>t DEF ShapeInv, Steady
  <2>3. files[current].pages \in Nat
    BY <1>t, <2>2 DEF File
  <2>4. CurrentBlockFull <=> files[current].pages >= SealedPages
    BY <2>2, <2>3 DEF CurrentBlockFull
  <2>5. SizeInv(n)'
    <3>1. RingRoom(n, w)' /\ w = current'
      BY <1>w, SameRoom
    <3> QED
      BY <2>2, <2>3, <2>4, <3>1 DEF SizeInv, Blocks, Filling, Sealing
  <2>6. OrderInv(n)'
    BY <1>t DEF OrderInv, Blocks, LastStored, Position, Older
  <2> QED
    BY <1>g, <2>1, <2>5, <2>6
<1>2. CASE UpdateCatalog
  <2> USE <1>2 DEF UpdateCatalog
  <2>1. current \in 1 .. n /\ current \in Blocks /\ Blocks = 1 .. n
    BY DEF ShapeInv
  <2>2. DOMAIN catalog' = 1 .. n
    BY <2>1 DEF ShapeInv, Put
  <2>3. ShapeInv(n)'
    BY <2>1, <2>2 DEF ShapeInv, Blocks
  <2>4. /\ used \in Int /\ BtempPages + n * SealedPages <= used
        /\ used <= BtempPages + n * LargestPages
    <3>1. files[current].pages >= SealedPages
      BY <2>1 DEF SizeInv, Sealing
    <3>2. Lack(w) = 0
      BY <1>c, <1>w, <2>1, <3>1 DEF Counted, Sealed
    <3> QED
      BY <1>c, <1>w, <3>2, RoomBounds
  <2>5. /\ RemainingSize >= BlockSize => AlwaysFits(n + 1)
        /\ NoMore(n) <=> ~(RemainingSize >= BlockSize)
    BY <2>4, RoomLeft DEF SizeInv
  <2>6. SizeInv(n)'
    <3>1. RingRoom(n, w)' /\ w = current'
      BY <1>w, SameRoom
    <3> QED
      BY <2>5, <3>1 DEF SizeInv, Blocks, Filling, Sealing
  <2>7. OrderInv(n)'
    BY DEF OrderInv, Blocks, LastStored, Position, Older
  <2> QED
    BY <1>g, <2>3, <2>6, <2>7
<1>3. CASE CreateNewBlock
  <2> USE <1>3 DEF CreateNewBlock
  <2>1. current = n /\ oldest = 1 /\ Blocks = 1 .. n /\ DOMAIN catalog = 1 .. n
    BY DEF ShapeInv, SizeInv, After
  <2>2. current + 1 \notin Blocks /\ 1 .. (n + 1) = (1 .. n) \cup {n + 1}
    BY <2>1
  <2>3. files' = Put(files, n + 1, Fresh) /\ used' = used + BtempPages
    BY <2>1, <2>2 DEF CopyBtemp
  <2>4. /\ Blocks' = 1 .. (n + 1)
        /\ \A b \in 1 .. n : files'[b] = files[b]
        /\ files'[n + 1] = Fresh
    BY <2>1, <2>2, <2>3 DEF Blocks, Put
  <2>5. ShapeInv(n + 1)'
    <3>1. /\ current' = n + 1 /\ oldest' = 1 /\ pc' = "saveCurrent"
          /\ DOMAIN catalog' = 1 .. n /\ (n + 1) - 1 = n
      BY <2>1
    <3>2. n + 1 \in 1 .. (n + 1) /\ After(n + 1, n + 1) = 1
      BY DEF After
    <3> QED
      BY ONLY <2>4, <3>1, <3>2, n \in Nat DEF ShapeInv, After
  <2>6. SizeInv(n + 1)'
    <3>1. \A b \in 1 .. n : /\ files[b].table /\ files[b].pages <= LargestPages
                            /\ files[b].pages >= SealedPages
      BY <2>1 DEF SizeInv, Sealing
    <3>2. RingRoom(n + 1, n + 1)'
      <4>1. w = n /\ Lack(n) = 0
        BY <1>c, <1>w, <2>1, <3>1 DEF Counted, Sealed
      <4>2. \A y \in 1 .. n : Pages(y)' = Pages(y)
        BY <2>1, <2>4 DEF Pages
      <4>3. Pages(n + 1)' = BtempPages
        BY <2>4 DEF Pages, Fresh
      <4> QED
        BY <1>c, <1>w, <2>3, <4>1, <4>2, <4>3, RoomOfEnd
    <3>3. Fresh.table /\ Fresh.pages = BtempPages
      BY DEF Fresh
    <3>4. AlwaysFits(n + 1) /\ current' = n + 1 /\ pc' = "saveCurrent"
      BY <2>1 DEF SizeInv
    <3>5. /\ \A b \in 1 .. n : /\ files'[b].table /\ files'[b].pages <= LargestPages
                               /\ files'[b].pages >= SealedPages
          /\ files'[n + 1].table /\ files'[n + 1].pages < SealedPages
          /\ files'[n + 1].pages <= LargestPages
      BY <1>l, <2>4, <3>1, <3>3
    <3>6. \A b \in Blocks' : b \in 1 .. n \/ b = n + 1
      BY <2>4
    <3> QED
      BY <3>2, <3>4, <3>5, <3>6 DEF SizeInv, Filling, Sealing
  <2>7. OrderInv(n + 1)'
    <3>1. UNCHANGED <<pending, arrived>> /\ LastStored' = LastStored
      BY DEF LastStored
    <3>2. \A b \in Blocks' : \A r \in files'[b].rows : b \in 1 .. n /\ r \in files[b].rows
      BY <2>4 DEF Fresh
    <3>3. \A b \in Blocks' : \A r \in files'[b].rows : r.n <= LastStored'
      BY <2>1, <3>1, <3>2 DEF OrderInv
    <3>4. pc' # "idle" => pending'.n = arrived'
      BY <3>1 DEF OrderInv
    <3>5. \A b, c \in Blocks' : (Position(b, n + 1) < Position(c, n + 1) => Older(b, c))'
      <4> SUFFICES ASSUME NEW b \in Blocks', NEW c \in Blocks',
                          (Position(b, n + 1) < Position(c, n + 1))'
                   PROVE  Older(b, c)'
        OBVIOUS
      <4>1. CASE b = n + 1 \/ c = n + 1
        BY <2>4, <4>1 DEF Older, Fresh
      <4>2. CASE b \in 1 .. n /\ c \in 1 .. n
        <5>1. Position(b, n) < Position(c, n)
          BY <2>1, <4>2 DEF Position
        <5>2. Older(b, c)
          BY <2>1, <4>2, <5>1 DEF OrderInv
        <5> QED
          BY <2>4, <4>2, <5>2 DEF Older
      <4> QED
        BY <2>4, <4>1, <4>2
    <3> QED
      BY <3>3, <3>4, <3>5 DEF OrderInv
  <2> QED
    BY <1>g, <2>5, <2>6, <2>7
<1>4. CASE RemoveOldest
  <2> USE <1>4 DEF RemoveOldest
  <2>1. Blocks = 1 .. n /\ oldest \in 1 .. n /\ current \in 1 .. n
    BY DEF ShapeInv, After
  <2>2. Blocks' = (1 .. n) \ {oldest} /\ \A b \in Blocks' : files'[b] = files[b]
    BY <2>1 DEF Blocks, Drop
  <2>3. ShapeInv(n)'
    BY <2>1, <2>2 DEF ShapeInv
  <2>4. \A b \in Blocks : /\ files[b].table /\ files[b].pages <= LargestPages
                          /\ files[b].pages >= SealedPages
    BY DEF SizeInv, Sealing
  <2>5. PICK o \in 1 .. n : o = oldest
    BY <2>1
  <2>6. SizeInv(n)'
    <3>1. RingRoom(n, o)'
      <4>1. Lack(w) = 0 /\ Lack(o) = 0
        BY <1>c, <1>w, <2>1, <2>4, <2>5 DEF Counted, Sealed
      <4>2. \A y \in 1 .. n : y # o => Pages(y)' = Pages(y)
        BY <2>1, <2>2, <2>5 DEF Pages
      <4>3. Pages(o)' = 0 /\ Pages(o) = files[oldest].pages
        BY <2>1, <2>2, <2>5 DEF Pages
      <4>4. used' = used + Pages(o)' - Pages(o)
        BY <1>c, <1>t, <4>3 DEF Counted
      <4>5. Excess(o)' <= MaxGrowth - 1
        BY <4>3 DEF Excess
      <4> QED
        BY <1>c, <1>w, <4>1, <4>2, <4>4, <4>5, RoomOfRing
    <3>2. \A b \in Blocks' : /\ files'[b].table /\ files'[b].pages <= LargestPages
                             /\ files'[b].pages >= SealedPages
      BY <2>1, <2>2, <2>4
    <3>3. AlwaysFits(n) /\ NoMore(n)
      BY DEF SizeInv
    <3> QED
      BY <2>5, <3>1, <3>2, <3>3 DEF SizeInv, Filling, Sealing
  <2>7. OrderInv(n)'
    BY <2>1, <2>2, SMTT(30) DEF OrderInv, LastStored, Position, Older
  <2> QED
    BY <1>g, <2>3, <2>6, <2>7
<1>5. CASE RemoveFails
  BY <1>5 DEF RemoveFails, ShapeInv, After
<1>6. CASE RefillOldest
  <2> USE <1>6 DEF RefillOldest
  <2>1. /\ Blocks = (1 .. n) \ {oldest} /\ oldest \in 1 .. n /\ current \in 1 .. n
        /\ oldest = After(current, n) /\ DOMAIN catalog = 1 .. n
    BY DEF ShapeInv, After
  <2>2. files' = Put(files, oldest, Fresh) /\ used' = used + BtempPages
    BY <2>1 DEF CopyBtemp
  <2>3. /\ Blocks' = 1 .. n
        /\ \A b \in Blocks : files'[b] = files[b]
        /\ files'[oldest] = Fresh
    BY <2>1, <2>2 DEF Blocks, Put
  <2>4. MaxBlockNumber = n
    <3>1. 1 .. n \in SUBSET Int /\ n \in 1 .. n /\ \A y \in 1 .. n : y <= n
      OBVIOUS
    <3> QED
      BY <2>1, <3>1, MaxIsUpperEnd DEF MaxBlockNumber
  <2>5. oldest' = After(oldest, n) /\ current' = oldest
    BY <2>4 DEF NextOldest, After
  <2>6. ShapeInv(n)'
    BY <2>1, <2>3, <2>5 DEF ShapeInv
  <2>7. SizeInv(n)'
    <3>1. Fresh.table /\ Fresh.pages = BtempPages
      BY DEF Fresh
    <3>2. RingRoom(n, w)' /\ w = current'
      <4>1. w = oldest
        BY <1>w
      <4>2. \A y \in 1 .. n : y # w => Pages(y)' = Pages(y)
        BY <2>1, <2>3, <4>1 DEF Pages
      <4>3. Pages(w)' = BtempPages /\ Pages(w) = 0
        BY <2>1, <2>3, <3>1, <4>1 DEF Pages
      <4>4. used' = used + Pages(w)' - Pages(w) /\ Excess(w)' <= MaxGrowth - 1
        BY <1>t, <2>2, <4>3 DEF Excess
      <4> QED
        BY <1>c, <1>w, <2>5, <4>1, <4>2, <4>4, RoomOfRing
    <3>3. \A b \in Blocks : /\ files[b].table /\ files[b].pages <= LargestPages
                            /\ files[b].pages >= SealedPages
      BY <2>1 DEF SizeInv, Sealing
    <3>4. \A b \in Blocks' :
             /\ files'[b].table /\ files'[b].pages <= LargestPages
             /\ b # current' => files'[b].pages >= SealedPages
             /\ b = current' => files'[b].pages < SealedPages
      <4> SUFFICES ASSUME NEW b \in 1 .. n
                   PROVE  /\ files'[b].table /\ files'[b].pages <= LargestPages
                          /\ b # oldest => files'[b].pages >= SealedPages
                          /\ b = oldest => files'[b].pages < SealedPages
        BY <2>3, <2>5
      <4>1. CASE b = oldest
        BY <2>3, <3>1, <4>1, LargestCounts
      <4>2. CASE b # oldest
        BY <2>1, <2>3, <3>3, <4>2
      <4> QED
        BY <4>1, <4>2
    <3>5. AlwaysFits(n) /\ NoMore(n)
      BY DEF SizeInv
    <3> QED
      BY <3>2, <3>4, <3>5 DEF SizeInv, Filling, Sealing
  <2>8. OrderInv(n)'
    <3>1. \A b \in Blocks' : files'[b].rows # {} => b \in Blocks /\ files'[b] = files[b]
      BY <2>1, <2>3 DEF Fresh
    <3>2. \A b, c \in Blocks : Position(b, n)' < Position(c, n)' => Position(b, n) < Position(c, n)
      BY <2>1, <2>5 DEF Position, After
    <3>3. \A b, c \in Blocks' : Position(b, n)' < Position(c, n)' => Older(b, c)'
      BY <3>1, <3>2 DEF OrderInv, Older
    <3>4. \A b \in Blocks' : \A r \in files'[b].rows : r.n <= LastStored'
      BY <3>1 DEF OrderInv, LastStored
    <3>5. pc' # "idle" => pending'.n = arrived'
      BY DEF OrderInv
    <3> QED
      BY <3>3, <3>4, <3>5 DEF OrderInv
  <2> QED
    BY <1>g, <2>6, <2>7, <2>8
<1>7. CASE UpdateCurrentBlock
  <2> USE <1>7 DEF UpdateCurrentBlock
  <2>1. ShapeInv(n)'
    BY DEF ShapeInv, Blocks
  <2>2. SizeInv(n)'
    <3>1. RingRoom(n, w)' /\ w = current'
      BY <1>w, SameRoom
    <3> QED
      BY <3>1 DEF SizeInv, Blocks, Filling, Sealing
  <2>3. OrderInv(n)'
    BY DEF OrderInv, Blocks, LastStored, Position, Older
  <2> QED
    BY <1>g, <2>1, <2>2, <2>3
<1>8. CASE UpdateOldestBlock
  <2> USE <1>8 DEF UpdateOldestBlock
  <2>1. ShapeInv(n)'
    BY DEF ShapeInv, Blocks
  <2>2. SizeInv(n)'
    <3>1. RingRoom(n, w)' /\ w = current'
      BY <1>w, SameRoom
    <3> QED
      BY <3>1 DEF SizeInv, Blocks, Filling, Sealing
  <2>3. OrderInv(n)'
    BY DEF OrderInv, Blocks, LastStored, Position, Older
  <2> QED
    BY <1>g, <2>1, <2>2, <2>3
<1>9. CASE OpenCurrent
  <2> USE <1>9 DEF OpenCurrent
  <2>1. files' = files
    BY DEF OpenFile, ShapeInv
  <2>2. ShapeInv(n)'
    BY <2>1 DEF ShapeInv, Blocks
  <2>3. SizeInv(n)'
    <3>1. RingRoom(n, w)' /\ w = current'
      BY <1>w, <2>1, SameRoom
    <3> QED
      BY <2>1, <3>1 DEF SizeInv, Blocks, Filling, Sealing
  <2>4. OrderInv(n)'
    BY <2>1 DEF OrderInv, Blocks, LastStored, Position, Older
  <2> QED
    BY <1>g, <2>2, <2>3, <2>4
<1>10. CASE InsertPoint
  <2> USE <1>10 DEF InsertPoint
  <2>1. PICK g \in Growth :
           /\ files' = [files EXCEPT ![handle].rows = @ \cup {pending},
                                     ![handle].pages = @ + g]
           /\ used' = used + g
    OBVIOUS
  <2>2. handle = current /\ current \in Blocks /\ Blocks = 1 .. n
    BY <1>t DEF ShapeInv, Steady
  <2>3. /\ Blocks' = Blocks
        /\ \A b \in Blocks \ {current} : files'[b] = files[b]
        /\ files'[current] = [files[current] EXCEPT !.rows = @ \cup {pending}, !.pages = @ + g]
    BY <2>1, <2>2 DEF Blocks
  <2>4. /\ files'[current].table = files[current].table
        /\ files'[current].rows = files[current].rows \cup {pending}
        /\ files'[current].pages = files[current].pages + g
    BY <1>t, <2>2, <2>3, ZenonT(40) DEF File
  <2>5. g \in Nat /\ g <= MaxGrowth /\ files[current].pages \in Nat
    <3>1. files[current].pages \in Nat
      BY <1>t, <2>2 DEF File
    <3>2. g \in 0 .. MaxGrowth
      BY DEF Growth
    <3> QED
      BY <3>1, <3>2
  <2>6. ShapeInv(n)'
    BY <2>2, <2>3 DEF ShapeInv
  <2>7. SizeInv(n)'
    <3>1. files[current].table /\ files[current].pages < SealedPages
      BY <2>2 DEF SizeInv, Filling
    <3>2. \A b \in Blocks \ {current} : /\ files[b].table /\ files[b].pages <= LargestPages
                                        /\ files[b].pages >= SealedPages
      BY DEF SizeInv
    <3>3. files'[current].table /\ files'[current].pages <= LargestPages
      <4>1. files[current].pages + g <= LargestPages
        BY <1>l, <2>5, <3>1
      <4> QED
        BY <2>4, <3>1, <4>1
    <3>4. RingRoom(n, w)' /\ w = current
      <4>1. w = current /\ current' = current
        BY <1>w
      <4>2. \A y \in 1 .. n : y # w => Pages(y)' = Pages(y)
        BY <2>2, <2>3, <4>1 DEF Pages
      <4>3. Pages(w)' = Pages(w) + g /\ Pages(w) < SealedPages /\ Pages(w) \in Nat
        BY <2>2, <2>3, <2>4, <2>5, <3>1, <4>1 DEF Pages
      <4>4. used' = used + Pages(w)' - Pages(w)
        BY <1>t, <2>1, <2>5, <4>3
      <4>5. Excess(w)' <= MaxGrowth - 1
        BY <2>5, <4>3 DEF Excess
      <4> QED
        BY <1>c, <1>w, <4>1, <4>2, <4>4, <4>5, RoomOfRing
    <3>5. AlwaysFits(n) /\ (current # n => NoMore(n))
      BY DEF SizeInv
    <3>6. current' = current /\ pc' = "idle"
      OBVIOUS
    <3>7. \A b \in Blocks' : /\ files'[b].table /\ files'[b].pages <= LargestPages
                             /\ b # current => files'[b].pages >= SealedPages
      BY <2>3, <3>2, <3>3, Zenon
    <3> QED
      BY <3>4, <3>5, <3>6, <3>7 DEF SizeInv, Filling, Sealing
  <2>8. OrderInv(n)'
    <3>1. \A b \in Blocks : \A r \in files[b].rows : r.n \in Nat /\ r.n < pending.n
      <4>1. \A b \in Blocks : \A r \in files[b].rows : r.n \in Nat
        BY <1>t DEF File, Point
      <4>2. \A b \in Blocks : \A r \in files[b].rows : r.n <= arrived - 1
        BY DEF OrderInv, LastStored
      <4>3. pending.n = arrived
        BY DEF OrderInv
      <4> QED
        BY <1>t, <4>1, <4>2, <4>3
    <3>2. \A b \in Blocks \ {current} : ~(Position(current, n) < Position(b, n))
      <4>1. current \in 1 .. n /\ oldest = IF current = n THEN 1 ELSE current + 1
        BY DEF ShapeInv, After
      <4>2. ASSUME NEW b \in 1 .. n PROVE ~(Position(current, n) < Position(b, n))
        <5>1. CASE current = n
          BY <4>1, <5>1 DEF Position
        <5>2. CASE current # n
          BY <4>1, <5>2 DEF Position
        <5> QED
          BY <5>1, <5>2
      <4> QED
        BY <2>2, <4>2
    <3>3. \A b \in Blocks : files'[b].rows \subseteq files[b].rows \cup
                                (IF b = current THEN {pending} ELSE {})
      BY <2>3, <2>4
    <3>4. \A b, c \in Blocks : Position(b, n)' < Position(c, n)' => Older(b, c)'
      <4> SUFFICES ASSUME NEW b \in Blocks, NEW c \in Blocks, Position(b, n) < Position(c, n),
                          NEW r \in files'[b].rows, NEW s \in files'[c].rows
                   PROVE  r.n < s.n
        BY DEF Older, Position
      <4>1. b # current
        <5>1. b # c
          BY <2>2, <1>p
        <5> QED
          BY <3>2, <5>1
      <4>2. r \in files[b].rows
        BY <3>3, <4>1
      <4>3. CASE s \in files[c].rows
        BY <4>2, <4>3 DEF OrderInv, Older
      <4>4. CASE s = pending
        BY <3>1, <4>2, <4>4
      <4> QED
        BY <3>3, <4>3, <4>4
    <3>5. \A b \in Blocks : \A r \in files'[b].rows : r.n <= arrived
      <4>1. pending.n = arrived
        BY DEF OrderInv
      <4>2. ASSUME NEW b \in Blocks, NEW r \in files'[b].rows PROVE r.n <= arrived
        <5>1. r \in files[b].rows \/ r = pending
          BY <3>3
        <5> QED
          BY <1>t, <3>1, <4>1, <5>1
      <4> QED
        BY <4>2
    <3> QED
      BY <2>3, <3>4, <3>5 DEF OrderInv, LastStored
  <2> QED
    BY <1>g, <2>6, <2>7, <2>8
<1>11. CASE InsertFails
  BY <1>11, <1>t DEF InsertFails, SizeInv, ShapeInv, Steady
<1>12. CASE UNCHANGED vars
  <2>1. RingRoom(n, w)'
    BY <1>w, <1>12, SameRoom DEF vars
  <2>2. SizeInv(n)'
    BY <1>w, <1>12, <2>1, ZenonT(40) DEF vars, SizeInv, Blocks
  <2> QED
    BY <1>12, <1>g, <2>2, ZenonT(40) DEF vars, ShapeInv, OrderInv, Blocks, LastStored, Position, Older
<1> QED
  BY <1>1, <1>2, <1>3, <1>4, <1>5, <1>6, <1>7, <1>8, <1>9, <1>10, <1>11, <1>12
     DEF Run, Step, Rotate
-----------------------------------------------------------------------------
THEOREM InvariantRing == ASSUME Sized, ~RemoveMayFail PROVE RunSpec => [](CInv /\ RingInv)
<1>1. Init => CInv /\ RingInv
  BY InitCInv, InitRing
<1>2. CInv /\ RingInv /\ [Run]_vars => CInv' /\ RingInv'
  <2> SUFFICES ASSUME CInv, RingInv, [Run]_vars PROVE CInv' /\ RingInv'
    OBVIOUS
  <2>1. [Next]_vars
    BY DEF Next
  <2> QED
    BY <2>1, StepCInv, StepRing
<1> QED
  BY <1>1, <1>2, PTL DEF RunSpec

LEMMA RangeEnds ==
    ASSUME NEW n \in Nat \ {0}
    PROVE  Max(1 .. n) = n
<1>1. 1 .. n \in SUBSET Int /\ n \in 1 .. n /\ \A y \in 1 .. n : y <= n
  OBVIOUS
<1> QED
  BY <1>1, MaxIsUpperEnd

(* Without crashes and for well-chosen sizes, the block deleteOldestBlock  *)
(* removes is there and holds the oldest samples of all.                   *)
THEOREM OldestIsEvicted == ASSUME Sized, ~RemoveMayFail PROVE RunSpec => []EvictsOldest
<1>1. ASSUME CInv, RingInv PROVE EvictsOldest
  <2> SUFFICES ASSUME pc = "remove"
               PROVE  /\ oldest \in Blocks
                      /\ \A b \in Blocks \ {oldest} : Older(oldest, b) /\ files[oldest].rows # {}
    BY DEF EvictsOldest
  <2>1. PICK n \in Nat \ {0} : ShapeInv(n) /\ SizeInv(n) /\ OrderInv(n)
    BY <1>1 DEF RingInv
  <2>2. Blocks = 1 .. n /\ oldest \in 1 .. n
    BY <2>1 DEF ShapeInv, After
  <2>3. files[oldest].pages > BtempPages /\ GoodFile(files[oldest])
    <3>1. files[oldest].pages >= SealedPages
      BY <1>1, <2>1, <2>2 DEF SizeInv, Sealing
    <3>2. GoodFile(files[oldest]) /\ files[oldest].pages \in Nat
      BY <1>1, <2>2 DEF CInv, BlocksInv, TypeOK, File
    <3> QED
      BY <3>1, <3>2, Numbers
  <2>4. files[oldest].rows # {}
    BY <2>3 DEF GoodFile
  <2>5. \A b \in Blocks \ {oldest} : Position(oldest, n) < Position(b, n)
    BY <2>2 DEF Position
  <2> QED
    BY <2>1, <2>2, <2>4, <2>5 DEF OrderInv
<1> QED
  BY <1>1, InvariantRing, PTL

(* Without crashes and for well-chosen sizes, the blocks are numbered      *)
(* without a gap and read in ring order from oldestBlock they are in order *)
(* of arrival.                                                             *)
THEOREM RingKeepsOrder == ASSUME Sized, ~RemoveMayFail PROVE RunSpec => []RingInOrder
<1>1. ASSUME CInv, RingInv PROVE RingInOrder
  <2>1. PICK n \in Nat \ {0} : ShapeInv(n) /\ SizeInv(n) /\ OrderInv(n)
    BY <1>1 DEF RingInv
  <2>2. oldest \in 1 .. n /\ Blocks \subseteq 1 .. n /\ Blocks \cup {oldest} = 1 .. n
    BY <2>1 DEF ShapeInv, After
  <2>3. Max(Blocks \cup {oldest}) = n
    BY <2>2, RangeEnds
  <2>4. ASSUME NEW b \in Blocks, NEW c \in Blocks, RingPosition(b) < RingPosition(c)
        PROVE  Older(b, c)
    <3>1. CASE Blocks = 1 .. n
      <4>1. RingPosition(b) = Position(b, n) /\ RingPosition(c) = Position(c, n)
        BY <3>1, RangeEnds DEF RingPosition, Position
      <4> QED
        BY <2>1, <2>4, <4>1 DEF OrderInv
    <3>2. CASE Blocks = (1 .. n) \ {oldest} /\ oldest # n
      <4>1. n \in Blocks /\ \A y \in Blocks : y <= n
        BY <2>2, <3>2
      <4>2. Blocks \in SUBSET Int
        BY <2>2
      <4>3. Max(Blocks) = n
        BY <4>1, <4>2, MaxIsUpperEnd
      <4>4. RingPosition(b) = Position(b, n) /\ RingPosition(c) = Position(c, n)
        BY <4>3 DEF RingPosition, Position
      <4> QED
        BY <2>1, <2>4, <4>4 DEF OrderInv
    <3>3. CASE Blocks = (1 .. n) \ {oldest} /\ oldest = n
      <4>1. b \in 1 .. n - 1 /\ c \in 1 .. n - 1 /\ n - 1 \in Nat \ {0}
        BY <3>3
      <4>2. Blocks = 1 .. n - 1
        BY <3>3
      <4>3. Max(Blocks) = n - 1
        BY <4>1, <4>2, RangeEnds
      <4>4. RingPosition(b) = b + (n - 1) /\ RingPosition(c) = c + (n - 1)
        BY <3>3, <4>1, <4>3 DEF RingPosition
      <4>5. Position(b, n) < Position(c, n)
        BY <2>4, <3>3, <4>1, <4>4 DEF Position
      <4> QED
        BY <2>1, <4>5 DEF OrderInv
    <3> QED
      BY <2>1, <3>1, <3>2, <3>3 DEF ShapeInv
  <2> QED
    BY <2>2, <2>3, <2>4 DEF RingInOrder
<1> QED
  BY <1>1, InvariantRing, PTL

(* The block files and the budget of main.db together do not exceed        *)
(* DB_Config.diskSize, as long as nothing crashes, files can be removed    *)
(* and the sizes are well chosen (Sized) for the MaxGrowth pages that an   *)
(* INSERT may add.                                                         *)
THEOREM BudgetKept == ASSUME Sized, ~RemoveMayFail PROVE RunSpec => []BudgetRespected
<1>1. ASSUME CInv, RingInv PROVE BudgetRespected
  <2>1. PICK n \in Nat \ {0} : ShapeInv(n) /\ SizeInv(n) /\ OrderInv(n)
    BY <1>1 DEF RingInv
  <2>2. PICK w \in 1 .. n : RingRoom(n, w)
    BY <2>1 DEF SizeInv
  <2>3. n * LargestPages \in Int /\ BtempPages \in Nat
    BY LargestCounts, ConstantTypes
  <2>4. used \in Int /\ used <= BtempPages + n * LargestPages
    BY <1>1, <2>2, RoomBounds DEF CInv
  <2>5. PageSize \in Nat \ {0} /\ MainSize \in Nat /\ DiskSize \in Nat
    BY ConstantTypes, BlockStoreAssumption
  <2>6. \A x, y \in Int : x <= y => x * PageSize <= y * PageSize
    BY <2>5
  <2>7. used * PageSize <= (BtempPages + n * LargestPages) * PageSize
    BY <2>3, <2>4, <2>6
  <2>8. used * PageSize \in Int /\ (BtempPages + n * LargestPages) * PageSize \in Int
    BY <2>3, <2>4, <2>5
  <2>9. MainSize + (BtempPages + n * LargestPages) * PageSize <= DiskSize
    BY <2>1 DEF SizeInv, AlwaysFits
  <2> QED
    BY <2>5, <2>7, <2>8, <2>9 DEF BudgetRespected
<1> QED
  BY <1>1, InvariantRing, PTL

(* Under the same conditions remainingSize does not wrap around: a block   *)
(* is only added when the disk has room for BlockSize more bytes.          *)
THEOREM SpaceBeforeCreate == ASSUME Sized, ~RemoveMayFail PROVE RunSpec => []CreatesWithSpace
<1>1. ASSUME CInv, RingInv, pc = "create"
      PROVE  MainSize + used * PageSize + BlockSize <= DiskSize
  <2>1. PICK n \in Nat \ {0} : ShapeInv(n) /\ SizeInv(n) /\ OrderInv(n)
    BY <1>1 DEF RingInv
  <2>2. PICK w \in 1 .. n : RingRoom(n, w)
    BY <2>1 DEF SizeInv
  <2>3. used \in Int /\ used <= BtempPages + n * LargestPages
    BY <1>1, <2>2, RoomBounds DEF CInv
  <2>4. /\ n * LargestPages \in Nat /\ LargestPages \in Nat
        /\ (n + 1) * LargestPages = n * LargestPages + LargestPages
    BY LargestCounts
  <2>5. BtempPages + (n + 1) * LargestPages \in Int
        /\ used + LargestPages <= BtempPages + (n + 1) * LargestPages
    BY <2>3, <2>4, Numbers
  <2>6. (used + LargestPages) * PageSize <= (BtempPages + (n + 1) * LargestPages) * PageSize
        /\ (BtempPages + (n + 1) * LargestPages) * PageSize \in Int
    BY <2>3, <2>4, <2>5, Numbers
  <2>7. MainSize + (BtempPages + (n + 1) * LargestPages) * PageSize <= DiskSize
    BY <1>1, <2>1 DEF SizeInv, AlwaysFits
  <2>8. (used + LargestPages) * PageSize = used * PageSize + LargestPages * PageSize
    BY <2>3, <2>4, Numbers
  <2>9. LargestPages * PageSize >= BlockSize
    BY LargestCounts, FullPages
  <2>10. used * PageSize \in Int /\ LargestPages * PageSize \in Int /\ BlockSize \in Int
    BY <2>3, <2>4, Numbers
  <2> QED
    BY <2>6, <2>7, <2>8, <2>9, <2>10, Numbers
<1>2. CInv /\ RingInv => CreatesWithSpace
  BY <1>1 DEF CreatesWithSpace
<1> QED
  BY <1>2, InvariantRing, PTL
-----------------------------------------------------------------------------
(***************************************************************************)
(* Part 3 is about Spec again, with crashes at any point and removals that *)
(* fail: the block removed holds the oldest samples, unless it is the one  *)
(* being written.  DiskInv describes what a crash may leave: with the c    *)
(* and o that DB_Config names, the blocks 1..n form a ring in the order of *)
(* arrival, from the one after c around to c, and o is c or the block      *)
(* after it.  Block o may be missing or not used yet (a hole), and there   *)
(* may be an unused file n + 1 (x = 1).  The ring is saturated, unless it  *)
(* is still being filled for the first time.                               *)
(***************************************************************************)
(* An INSERT adds at most one page, the disk is larger than main.db and    *)
(* btemp.db together, and the files never take 2^64 bytes.                 *)
Roomy  == MaxGrowth = 1 /\ Fits(0)
NoWrap == MainSize + used * PageSize <= Word

Overrun == MainSize + used * PageSize > DiskSize

Unused(b) == files[b].rows = {} /\ files[b].pages = BtempPages
(* The pages of a ring of n full blocks and x unused ones, with btemp.db.  *)
RingPages(n, x) == BtempPages + n * SealedPages + x * BtempPages
Saturated(n, x) == DiskSize - (MainSize + RingPages(n, x) * PageSize) < BlockSize

RingLack(n, c) == Lack(c) + IF After(c, n) = c THEN 0 ELSE Lack(After(c, n))
RoomInv(n, x, c) ==
    \E e : Adds(e, n) /\ used = RingPages(n, x) + e[n] - RingLack(n, c)

FirstRound(n, x, c, o) ==
    /\ c = n /\ o = 1
    /\ \A b \in 1 .. n : b \in Blocks /\ files[b].pages <= SealedPages
    /\ \A b \in 1 .. n : b = c \/ files[b].pages = SealedPages
    /\ used = RingPages(n, x) - Lack(c)

RingFrom(c, n, b) == IF b > c THEN b ELSE b + n
AgeInv(n, c) ==
    \A b1, b2 \in Blocks :
        b1 <= n /\ b2 <= n /\ RingFrom(c, n, b1) < RingFrom(c, n, b2) => Older(b1, b2)

WholeInv(n, x, c, o) ==
    /\ c \in 1 .. n /\ o \in {c, After(c, n)} /\ x \in {0, 1}
    /\ Blocks \subseteq 1 .. n + x /\ (x = 1 => n + 1 \in Blocks /\ Unused(n + 1))
    /\ \A b \in 1 .. n : b = c \/ Sealed(b) \/ (b = o /\ (b \in Blocks => Unused(b)))

DiskInv(n, x, c, o) ==
    /\ WholeInv(n, x, c, o)
    /\ AgeInv(n, c)
    /\ Saturated(n, x) \/ FirstRound(n, x, c, o)
    /\ RoomInv(n, x, c)
    /\ DOMAIN catalog = 1 .. n \/ (DOMAIN catalog = 1 .. n - 1 /\ c = n)

(* Where the storage thread stands in a rotation. *)
StageInv(n, x, c, o) ==
    /\ pc \in {"insert", "open"} => c \in Blocks /\ (Sealed(c) => Saturated(n, x))
    /\ pc \in {"catalog", "create", "remove", "saveCurrent"} => Sealed(c)
    /\ pc \in {"create", "saveCurrent", "remove", "refill", "recycleSaveCurrent"}
          => DOMAIN catalog = 1 .. n
    /\ pc = "create" => RemainingSize >= BlockSize
    /\ pc \in {"remove", "refill", "recycleSaveCurrent", "saveOldest"} => Saturated(n, x)
    /\ pc = "refill" => oldest = o /\ o \notin Blocks /\ (o = c \/ Sealed(c))
    /\ pc = "saveCurrent" =>
          /\ current = c + 1 /\ current \in Blocks /\ Unused(current)
          /\ current = o \/ (c = n /\ o = 1 /\ x = 1)
    /\ pc = "recycleSaveCurrent" =>
          /\ current = o /\ oldest = After(o, n) /\ current \in Blocks /\ Unused(current)
          /\ o = c \/ Sealed(c)
    /\ pc = "saveOldest" => o = c /\ oldest = After(c, n) /\ c \in Blocks /\ Unused(c)

(* The number of the last sample the files can hold, restarts included.    *)
LastIn == IF pc \in {"idle", "down", "unconfigured"} THEN arrived ELSE arrived - 1
ArrivalInv ==
    /\ \A b \in Blocks : \A r \in files[b].rows : r.n <= LastIn
    /\ pc \notin {"idle", "down", "unconfigured"} => pending.n = arrived

Regular ==
    /\ ArrivalInv
    /\ \E n \in Nat \ {0}, x \in {0, 1} : \E c, o \in 1 .. n :
          /\ c = dbConfig.current /\ o = dbConfig.oldest
          /\ DiskInv(n, x, c, o) /\ StageInv(n, x, c, o)

(* Once the files have outgrown the disk, which takes removals that fail   *)
(* or a crash between the copying of block 1 and the saving of its number, *)
(* remainingSize wraps around and no block is removed any more.            *)
TornInv == IF Overrun THEN pc # "remove" ELSE Regular
-----------------------------------------------------------------------------
(* The pages of a ring, and how they grow by an unused block and by the    *)
(* filling of that block.                                                  *)
LEMMA RingGrows ==
    ASSUME NEW n \in Nat \ {0}
    PROVE  /\ RingPages(n, 0) \in Nat /\ RingPages(n, 1) \in Nat
           /\ RingPages(n, 1) = RingPages(n, 0) + BtempPages
           /\ RingPages(n + 1, 0) = RingPages(n, 0) + SealedPages
           /\ RingPages(n, 0) >= SealedPages
           /\ n # 1 => RingPages(n, 0) >= 2 * SealedPages
<1> USE Numbers
<1>1. /\ n * SealedPages \in Nat
      /\ (n + 1) * SealedPages = n * SealedPages + SealedPages
      /\ n * SealedPages >= SealedPages
  OBVIOUS
<1>2. n # 1 => n * SealedPages >= 2 * SealedPages
  <2>1. SUFFICES ASSUME n >= 2 PROVE n * SealedPages >= 2 * SealedPages
    OBVIOUS
  <2> QED
    BY <2>1
<1> QED
  BY <1>1, <1>2 DEF RingPages

LEMMA StaysSaturated ==
    ASSUME NEW n \in Nat \ {0}
    PROVE  /\ Saturated(n, 0) => Saturated(n, 1)
           /\ Saturated(n, 1) => Saturated(n + 1, 0)
<1>1. /\ DiskSize \in Int /\ MainSize \in Int /\ BlockSize \in Int
      /\ \A p \in Int : p * PageSize \in Int
  BY Numbers
<1>2. ASSUME NEW p \in Int, NEW q \in Int, p <= q,
             DiskSize - (MainSize + p * PageSize) < BlockSize
      PROVE  DiskSize - (MainSize + q * PageSize) < BlockSize
  <2>1. p * PageSize <= q * PageSize
    BY <1>2, Numbers
  <2> QED
    BY <1>1, <1>2, <2>1
<1>3. /\ RingPages(n, 0) \in Int /\ RingPages(n, 1) \in Int /\ RingPages(n + 1, 0) \in Int
      /\ RingPages(n, 0) <= RingPages(n, 1) /\ RingPages(n, 1) <= RingPages(n + 1, 0)
  BY RingGrows, Numbers
<1> QED
  BY <1>2, <1>3 DEF Saturated

(* While the files fit on the disk remainingSize is what is left of it,    *)
(* and when they do not it is more than a block.                           *)
LEMMA WhatRemains ==
    ASSUME Roomy, used \in Int
    PROVE  /\ used \in Nat /\ ~Overrun => RemainingSize = DiskSize - (MainSize + used * PageSize)
           /\ Overrun /\ NoWrap => RemainingSize >= BlockSize
<1> DEFINE X == MainSize + used * PageSize
<1>1. X \in Int /\ (used \in Nat => X \in Nat)
  BY Numbers
<1>2. RemainingSize = (DiskSize - X) % Word
  BY DEF RemainingSize
<1>3. (Overrun <=> X > DiskSize) /\ (NoWrap <=> X <= Word)
  BY DEF Overrun, NoWrap
<1> HIDE DEF X
<1>4. ASSUME used \in Nat, ~Overrun PROVE RemainingSize = DiskSize - X
  BY <1>1, <1>2, <1>3, <1>4, Numbers
<1>5. ASSUME Overrun, NoWrap PROVE RemainingSize >= DiskSize
  <2>1. (DiskSize - X) % Word = DiskSize - X + Word
    BY <1>1, <1>3, <1>5, Numbers
  <2> QED
    BY <1>1, <1>2, <1>3, <1>5, <2>1, Numbers
<1>6. BlockSize <= DiskSize
  <2> DEFINE D == DiskSize - (MainSize + BtempSize)
  <2>1. BtempPages + 0 * SealedPages = BtempPages
    BY Numbers
  <2>2. D \in Nat /\ D <= DiskSize
    BY <2>1, Numbers DEF Roomy, Fits, Taken, BtempSize
  <2>3. D % Word = D
    BY <2>2, Numbers
  <2>4. BlockSize = D \div BlocksPerDisk
    BY <2>3 DEF BlockSize
  <2>5. BlocksPerDisk \in Nat \ {0}
    BY BlockStoreAssumption
  <2> HIDE DEF D
  <2>6. D \div BlocksPerDisk <= D
    BY <2>2, <2>5
  <2> QED
    BY <2>2, <2>4, <2>6, Numbers
<1>7. Overrun /\ NoWrap => RemainingSize >= BlockSize
  BY <1>1, <1>2, <1>5, <1>6, Numbers
<1> QED
  BY <1>4, <1>7 DEF X

LEMMA LackOfRing ==
    ASSUME TypeOK, NEW n \in Nat \ {0}, NEW c \in 1 .. n
    PROVE  /\ After(c, n) \in 1 .. n
           /\ RingLack(n, c) \in 0 .. RingPages(n, 0)
<1>1. After(c, n) \in 1 .. n /\ (n = 1 => After(c, n) = c)
  BY DEF After
<1>2. Lack(c) \in 0 .. SealedPages /\ Lack(After(c, n)) \in 0 .. SealedPages
  BY PageCounts DEF Counted
<1> QED
  BY <1>1, <1>2, Numbers, RingGrows DEF RingLack
-----------------------------------------------------------------------------
(* The pages of the files follow what the ring lacks and exceeds, for a    *)
(* change to the block being written or to the one after it.               *)
LEMMA RoomOfOne ==
    ASSUME TypeOK, TypeOK', NEW n \in Nat \ {0}, NEW x \in {0, 1}, NEW c \in 1 .. n,
           RoomInv(n, x, c), NEW b \in {c, After(c, n)},
           \A y \in 1 .. n : y # b => Pages(y)' = Pages(y),
           used' = used + Pages(b)' - Pages(b)
    PROVE  RoomInv(n, x, c)'
<1>1. PICK e : Adds(e, n) /\ used = RingPages(n, x) + e[n] - RingLack(n, c)
  BY DEF RoomInv
<1>2. b \in 1 .. n /\ After(c, n) \in 1 .. n
  BY LackOfRing
<1>3. PICK f : Adds(f, n)' /\ f[n] = e[n] + Excess(b)' - Excess(b)
  BY <1>1, <1>2, ExcessOfOne
<1>4. e[n] \in Nat /\ f[n] \in Nat
  BY <1>1, <1>3 DEF Adds
<1>5. \A y \in 1 .. n : y # b => Lack(y)' = Lack(y)
  BY DEF Lack
<1>6. /\ Pages(b) = SealedPages + Excess(b) - Lack(b)
      /\ Pages(b)' = SealedPages + Excess(b)' - Lack(b)'
      /\ {Pages(b), Pages(b)', Excess(b), Excess(b)', Lack(b), Lack(b)'} \subseteq Int
      /\ Lack(c) \in Int /\ Lack(c)' \in Int /\ Lack(After(c, n)) \in Int /\ Lack(After(c, n))' \in Int
  BY PageCounts DEF Counted
<1>7. RingLack(n, c)' - RingLack(n, c) = Lack(b)' - Lack(b)
      /\ RingLack(n, c) \in Int /\ RingLack(n, c)' \in Int
  <2>1. RingLack(n, c)' = Lack(c)' + IF After(c, n) = c THEN 0 ELSE Lack(After(c, n))'
    BY DEF RingLack, After
  <2>2. RingLack(n, c) = Lack(c) + IF After(c, n) = c THEN 0 ELSE Lack(After(c, n))
    BY DEF RingLack
  <2>3. CASE b = c
    BY <1>2, <1>5, <1>6, <2>1, <2>2, <2>3
  <2>4. CASE b # c
    BY <1>2, <1>5, <1>6, <2>1, <2>2, <2>4
  <2> QED
    BY <2>3, <2>4
<1>8. RingPages(n, x) \in Int /\ used \in Int
  BY RingGrows DEF TypeOK
<1>9. used' = RingPages(n, x) + f[n] - RingLack(n, c)'
  BY <1>1, <1>3, <1>4, <1>6, <1>7, <1>8, Numbers
<1> QED
  BY <1>3, <1>9 DEF RoomInv, RingPages
-----------------------------------------------------------------------------
LEMMA SameDisk ==
    ASSUME NEW n, NEW x, NEW c, NEW o, DiskInv(n, x, c, o),
           files' = files, used' = used, DOMAIN catalog' = DOMAIN catalog
    PROVE  DiskInv(n, x, c, o)'
<1>1. \A b : Pages(b)' = Pages(b) /\ (Sealed(b)' <=> Sealed(b)) /\ (Unused(b)' <=> Unused(b))
  BY DEF Pages, Sealed, Unused, Blocks
<1>2. \A b : Lack(b)' = Lack(b) /\ Excess(b)' = Excess(b)
  BY <1>1 DEF Lack, Excess
<1>3. WholeInv(n, x, c, o)'
  BY <1>1 DEF DiskInv, WholeInv, After, Blocks
<1>4. AgeInv(n, c)'
  BY DEF DiskInv, AgeInv, RingFrom, Older, Blocks
<1>5. Saturated(n, x)' \/ FirstRound(n, x, c, o)'
  BY <1>2 DEF DiskInv, Saturated, FirstRound, Blocks, RingPages
<1>6. RoomInv(n, x, c)'
  <2>1. PICK e : Adds(e, n) /\ used = RingPages(n, x) + e[n] - RingLack(n, c)
    BY DEF DiskInv, RoomInv
  <2>2. Adds(e, n)'
    BY <1>2, <2>1 DEF Adds
  <2>3. RingLack(n, c)' = RingLack(n, c)
    BY <1>2 DEF RingLack, After
  <2> QED
    BY <2>1, <2>2, <2>3 DEF RoomInv, RingPages
<1> QED
  BY <1>3, <1>4, <1>5, <1>6 DEF DiskInv

(* Of files that change in one block only, with the others as they were.   *)
OnlyChanges(b) ==
    /\ Blocks' \ {b} = Blocks \ {b}
    /\ \A y \in Blocks \ {b} : files'[y] = files[y]

LEMMA OthersSame ==
    ASSUME NEW b, OnlyChanges(b), NEW y, y # b
    PROVE  /\ y \in Blocks' <=> y \in Blocks
           /\ y \in Blocks => files'[y] = files[y]
           /\ Pages(y)' = Pages(y) /\ (Sealed(y)' <=> Sealed(y))
           /\ y \in Blocks => (Unused(y)' <=> Unused(y))
<1>1. y \in Blocks' <=> y \in Blocks
  BY DEF OnlyChanges
<1>2. y \in Blocks => files'[y] = files[y]
  BY DEF OnlyChanges
<1> QED
  BY <1>1, <1>2 DEF Pages, Sealed, Unused

(* A saturated ring stays one when its block o is removed, or copied anew  *)
(* where it was missing.                                                   *)
LEMMA HoleChanges ==
    ASSUME TypeOK, TypeOK', NEW n \in Nat \ {0}, NEW x \in {0, 1}, NEW c, NEW o,
           DiskInv(n, x, c, o), Saturated(n, x), OnlyChanges(o),
           o \in Blocks' => Unused(o)',
           used' = used + Pages(o)' - Pages(o), DOMAIN catalog' = DOMAIN catalog
    PROVE  DiskInv(n, x, c, o)'
<1>1. /\ c \in 1 .. n /\ o \in {c, After(c, n)} /\ Blocks \subseteq 1 .. n + x
      /\ x = 1 => n + 1 \in Blocks /\ Unused(n + 1)
      /\ \A b \in 1 .. n : b = c \/ Sealed(b) \/ (b = o /\ (b \in Blocks => Unused(b)))
  BY DEF DiskInv, WholeInv
<1>2. o \in 1 .. n
  BY <1>1 DEF After
<1>3. WholeInv(n, x, c, o)'
  <2>1. Blocks' \subseteq 1 .. n + x
    <3>1. o \in 1 .. n + x
      BY <1>2
    <3>2. \A y \in Blocks' : y = o \/ y \in Blocks
      BY DEF OnlyChanges
    <3> QED
      BY <1>1, <3>1, <3>2
  <2>2. x = 1 => n + 1 \in Blocks' /\ Unused(n + 1)'
    BY <1>1, <1>2, OthersSame
  <2>3. ASSUME NEW b \in 1 .. n, b # c, b # o PROVE Sealed(b)'
    BY <1>1, <2>3, OthersSame
  <2> QED
    BY <1>1, <2>1, <2>2, <2>3 DEF WholeInv, After
<1>4. AgeInv(n, c)'
  <2>1. \A b \in Blocks' : files'[b].rows # {} => b \in Blocks /\ files'[b] = files[b]
    BY OthersSame DEF Unused
  <2> SUFFICES ASSUME NEW b1 \in Blocks', NEW b2 \in Blocks', b1 <= n, b2 <= n,
                      RingFrom(c, n, b1) < RingFrom(c, n, b2),
                      NEW r \in files'[b1].rows, NEW s \in files'[b2].rows
               PROVE  r.n < s.n
    BY DEF AgeInv, RingFrom, Older
  <2> QED
    BY <2>1 DEF DiskInv, AgeInv, Older
<1>5. RoomInv(n, x, c)'
  <2>1. \A y \in 1 .. n : y # o => Pages(y)' = Pages(y)
    BY OthersSame
  <2>2. RoomInv(n, x, c)
    BY DEF DiskInv
  <2> QED
    BY <1>1, <2>1, <2>2, RoomOfOne
<1> QED
  BY <1>3, <1>4, <1>5 DEF DiskInv, Saturated, RingPages

(* A ring with a full last block gets an unused file after its end. *)
LEMMA FileAfterEnd ==
    ASSUME TypeOK, TypeOK', NEW n \in Nat \ {0}, NEW o, DiskInv(n, 0, n, o), Sealed(n),
           OnlyChanges(n + 1), n + 1 \in Blocks', Unused(n + 1)',
           used' = used + BtempPages, DOMAIN catalog' = DOMAIN catalog
    PROVE  DiskInv(n, 1, n, o)'
<1>1. \A b \in 1 .. n : b # n + 1
  OBVIOUS
<1>2. \A b \in 1 .. n :
          /\ b \in Blocks' <=> b \in Blocks
          /\ b \in Blocks => files'[b] = files[b]
          /\ Pages(b)' = Pages(b) /\ (Sealed(b)' <=> Sealed(b))
          /\ b \in Blocks => (Unused(b)' <=> Unused(b))
  BY <1>1, OthersSame
<1>3. o \in {n, After(n, n)} /\ Blocks \subseteq 1 .. n
  BY DEF DiskInv, WholeInv
<1>4. WholeInv(n, 1, n, o)'
  <2>1. Blocks' \subseteq 1 .. n + 1
    <3>1. \A y \in Blocks' : y = n + 1 \/ y \in Blocks
      BY DEF OnlyChanges
    <3>2. n + 1 \in 1 .. n + 1 /\ \A y \in 1 .. n : y \in 1 .. n + 1
      OBVIOUS
    <3> QED
      BY <1>3, <3>1, <3>2
  <2>2. \A b \in 1 .. n : b = n \/ Sealed(b)' \/ (b = o /\ (b \in Blocks' => Unused(b)'))
    BY <1>2 DEF DiskInv, WholeInv
  <2> QED
    BY <1>3, <2>1, <2>2 DEF WholeInv, After
<1>5. AgeInv(n, n)'
  <2> SUFFICES ASSUME NEW b1 \in Blocks', NEW b2 \in Blocks', b1 <= n, b2 <= n,
                      RingFrom(n, n, b1) < RingFrom(n, n, b2)
               PROVE  Older(b1, b2)'
    BY DEF AgeInv, RingFrom
  <2>1. b1 \in 1 .. n /\ b2 \in 1 .. n
    BY <1>4 DEF WholeInv
  <2> QED
    BY <1>2, <2>1 DEF DiskInv, AgeInv, Older
<1>6. /\ RingPages(n, 1) = RingPages(n, 0) + BtempPages
      /\ RingPages(n, 0) \in Int /\ used \in Int /\ BtempPages \in Int
  BY RingGrows, Numbers DEF TypeOK
<1>7. \A b \in 1 .. n : Lack(b)' = Lack(b) /\ Excess(b)' = Excess(b) /\ Lack(b) \in Int
  BY <1>2, PageCounts DEF Lack, Excess, Counted
<1>8. Saturated(n, 1)' \/ FirstRound(n, 1, n, o)'
  <2>1. CASE Saturated(n, 0)
    BY <2>1, StaysSaturated DEF Saturated, RingPages
  <2>2. CASE FirstRound(n, 0, n, o)
    <3>1. used' = RingPages(n, 1) - Lack(n)'
      BY <1>6, <1>7, <2>2 DEF FirstRound
    <3> QED
      BY <1>2, <2>2, <3>1 DEF FirstRound, RingPages
  <2> QED
    BY <2>1, <2>2 DEF DiskInv
<1>9. RoomInv(n, 1, n)'
  <2>1. PICK e : Adds(e, n) /\ used = RingPages(n, 0) + e[n] - RingLack(n, n)
    BY DEF DiskInv, RoomInv
  <2>2. Adds(e, n)'
    BY <1>7, <2>1 DEF Adds
  <2>3. RingLack(n, n)' = RingLack(n, n) /\ RingLack(n, n) \in Int
    BY <1>7 DEF RingLack, After
  <2>4. e[n] \in Int
    BY <2>1 DEF Adds
  <2>5. used' = RingPages(n, 1) + e[n] - RingLack(n, n)'
    BY <1>6, <2>1, <2>3, <2>4
  <2> QED
    BY <2>2, <2>5 DEF RoomInv, RingPages
<1> QED
  BY <1>4, <1>5, <1>8, <1>9 DEF DiskInv

(* A change to the block being written that keeps the order of arrival. *)
LEMMA CurrentChanges ==
    ASSUME TypeOK, TypeOK', NEW n \in Nat \ {0}, NEW x \in {0, 1}, NEW c, NEW o,
           DiskInv(n, x, c, o), OnlyChanges(c), AgeInv(n, c)',
           Saturated(n, x) \/ FirstRound(n, x, c, o)',
           used' = used + Pages(c)' - Pages(c), DOMAIN catalog' = DOMAIN catalog
    PROVE  DiskInv(n, x, c, o)'
<1>1. /\ c \in 1 .. n /\ o \in {c, After(c, n)} /\ Blocks \subseteq 1 .. n + x
      /\ x = 1 => n + 1 \in Blocks /\ Unused(n + 1)
      /\ \A b \in 1 .. n : b = c \/ Sealed(b) \/ (b = o /\ (b \in Blocks => Unused(b)))
  BY DEF DiskInv, WholeInv
<1>2. WholeInv(n, x, c, o)'
  <2>1. Blocks' \subseteq 1 .. n + x
    <3>1. c \in 1 .. n + x
      BY <1>1
    <3>2. \A y \in Blocks' : y = c \/ y \in Blocks
      BY DEF OnlyChanges
    <3> QED
      BY <1>1, <3>1, <3>2
  <2>2. x = 1 => n + 1 \in Blocks' /\ Unused(n + 1)'
    BY <1>1, OthersSame
  <2>3. ASSUME NEW b \in 1 .. n, b # c
        PROVE  Sealed(b)' \/ (b = o /\ (b \in Blocks' => Unused(b)'))
    BY <1>1, <2>3, OthersSame
  <2> QED
    BY <1>1, <2>1, <2>2, <2>3 DEF WholeInv, After
<1>3. RoomInv(n, x, c)'
  <2>1. \A y \in 1 .. n : y # c => Pages(y)' = Pages(y)
    BY OthersSame
  <2>2. RoomInv(n, x, c)
    BY DEF DiskInv
  <2> QED
    BY <1>1, <2>1, <2>2, RoomOfOne
<1> QED
  BY <1>2, <1>3 DEF DiskInv, Saturated, RingPages

-----------------------------------------------------------------------------
(* The block after a full one becomes the block being written. *)
LEMMA RingTurns ==
    ASSUME TypeOK, NEW n \in Nat \ {0}, NEW x \in {0, 1}, NEW c, NEW o, DiskInv(n, x, c, o),
           Saturated(n, x), o = c \/ Sealed(c), o \in Blocks, Unused(o), DOMAIN catalog = 1 .. n
    PROVE  DiskInv(n, x, o, o)
<1>1. CASE o = c
  BY <1>1
<1>2. CASE o # c
  <2>1. /\ c \in 1 .. n /\ o = After(c, n) /\ o \in 1 .. n /\ n # 1
        /\ Blocks \subseteq 1 .. n + x /\ (x = 1 => n + 1 \in Blocks /\ Unused(n + 1))
        /\ \A b \in 1 .. n : b = o \/ Sealed(b)
    BY <1>2 DEF DiskInv, WholeInv, After
  <2>2. WholeInv(n, x, o, o)
    BY <2>1 DEF WholeInv
  <2>3. AgeInv(n, o)
    <3> SUFFICES ASSUME NEW b1 \in Blocks, NEW b2 \in Blocks, b1 <= n, b2 <= n,
                        RingFrom(o, n, b1) < RingFrom(o, n, b2)
                 PROVE  Older(b1, b2)
      BY DEF AgeInv
    <3>1. b1 \in 1 .. n /\ b2 \in 1 .. n
      BY <2>1
    <3>2. CASE b1 = o \/ b2 = o
      BY <3>2 DEF Older, Unused
    <3>3. CASE b1 # o /\ b2 # o
      <4>1. RingFrom(c, n, b1) < RingFrom(c, n, b2)
        BY <2>1, <3>1, <3>3 DEF RingFrom, After
      <4> QED
        BY <3>1, <4>1 DEF DiskInv, AgeInv
    <3> QED
      BY <3>2, <3>3
  <2>4. RingLack(n, o) = RingLack(n, c)
    <3>1. After(o, n) \in 1 .. n /\ After(o, n) # o
      BY <2>1 DEF After
    <3>2. Lack(After(o, n)) = 0 /\ Lack(c) = 0 /\ Lack(o) \in Int
      BY <1>2, <2>1, <3>1, PageCounts DEF Counted
    <3> QED
      BY <1>2, <2>1, <3>1, <3>2 DEF RingLack
  <2>5. RoomInv(n, x, o)
    BY <2>4 DEF DiskInv, RoomInv
  <2> QED
    BY <2>2, <2>3, <2>5 DEF DiskInv
<1> QED
  BY <1>1, <1>2

(* The unused file after the last block becomes the block being written. *)
LEMMA RingGains ==
    ASSUME TypeOK, NEW n \in Nat \ {0}, DiskInv(n, 1, n, 1), Sealed(n), DOMAIN catalog = 1 .. n
    PROVE  DiskInv(n + 1, 0, n + 1, 1)
<1>1. /\ Blocks \subseteq 1 .. n + 1 /\ n + 1 \in Blocks /\ Unused(n + 1)
      /\ \A b \in 1 .. n : b = n \/ Sealed(b) \/ (b = 1 /\ (b \in Blocks => Unused(b)))
  BY DEF DiskInv, WholeInv
<1>2. /\ n + 1 \in Nat \ {0} /\ n + 1 \in 1 .. n + 1
      /\ \A b \in 1 .. n + 1 : b = n + 1 \/ b \in 1 .. n
      /\ After(n + 1, n + 1) = 1 /\ n + 1 # 1 /\ n + 1 - 1 = n
  BY DEF After
<1>3. WholeInv(n + 1, 0, n + 1, 1)
  <2>1. Blocks \subseteq 1 .. (n + 1) + 0
    BY <1>1
  <2> QED
    BY <1>1, <1>2, <2>1 DEF WholeInv
<1>4. AgeInv(n + 1, n + 1)
  <2> SUFFICES ASSUME NEW b1 \in Blocks, NEW b2 \in Blocks,
                      RingFrom(n + 1, n + 1, b1) < RingFrom(n + 1, n + 1, b2)
               PROVE  Older(b1, b2)
    BY DEF AgeInv
  <2>1. CASE b1 = n + 1 \/ b2 = n + 1
    BY <1>1, <2>1 DEF Older, Unused
  <2>2. CASE b1 # n + 1 /\ b2 # n + 1
    <3>1. b1 \in 1 .. n /\ b2 \in 1 .. n
      BY <1>1, <2>2
    <3>2. RingFrom(n, n, b1) < RingFrom(n, n, b2)
      BY <3>1 DEF RingFrom
    <3> QED
      BY <3>1, <3>2 DEF DiskInv, AgeInv
  <2> QED
    BY <2>1, <2>2
<1>5. /\ Pages(n + 1) = BtempPages /\ Lack(n + 1) = SealedPages - BtempPages /\ Excess(n + 1) = 0
      /\ Lack(n) = 0 /\ Lack(1) \in Int
      /\ RingPages(n + 1, 0) = RingPages(n, 1) - BtempPages + SealedPages
      /\ RingPages(n, 1) \in Int
  <2>1. Pages(n + 1) = BtempPages
    BY <1>1 DEF Pages, Unused
  <2>2. SealedPages \in Nat /\ BtempPages \in Nat /\ BtempPages < SealedPages
    BY Numbers
  <2>3. Lack(n + 1) = SealedPages - BtempPages /\ Excess(n + 1) = 0
    BY <2>1, <2>2 DEF Lack, Excess
  <2>4. Lack(n) = 0 /\ Lack(1) \in Int
    BY <2>2, PageCounts DEF Counted
  <2> QED
    BY <2>1, <2>2, <2>3, <2>4, RingGrows
<1>6. Saturated(n + 1, 0) \/ FirstRound(n + 1, 0, n + 1, 1)
  <2>1. CASE Saturated(n, 1)
    BY <2>1, StaysSaturated
  <2>2. CASE FirstRound(n, 1, n, 1)
    <3>1. /\ \A b \in 1 .. n : b \in Blocks /\ files[b].pages <= SealedPages
          /\ \A b \in 1 .. n : b = n \/ files[b].pages = SealedPages
          /\ used = RingPages(n, 1)
      BY <1>5, <2>2 DEF FirstRound
    <3>2. files[n].pages = SealedPages
      <4>1. n \in 1 .. n /\ n \in Blocks /\ files[n].pages >= SealedPages
        BY DEF Sealed
      <4>2. files[n].pages \in Int /\ SealedPages \in Int
        <5>1. files[n] \in File
          BY <4>1, Zenon DEF TypeOK
        <5>2. files[n].pages \in Nat
          BY <5>1, Zenon DEF File
        <5> QED
          BY <5>2, Numbers
      <4> QED
        BY <3>1, <4>1, <4>2
    <3>3. used = RingPages(n + 1, 0) - Lack(n + 1)
      BY <1>5, <3>1, Numbers
    <3>4. files[n + 1].pages <= SealedPages
      BY <1>1, Numbers DEF Unused
    <3> QED
      BY <1>1, <1>2, <3>1, <3>2, <3>3, <3>4, Numbers DEF FirstRound
  <2> QED
    BY <2>1, <2>2 DEF DiskInv
<1>7. RoomInv(n + 1, 0, n + 1)
  <2>1. PICK e : Adds(e, n) /\ used = RingPages(n, 1) + e[n] - RingLack(n, n)
    BY DEF DiskInv, RoomInv
  <2>2. /\ \A i \in 0 .. n : e[i] \in Nat
        /\ \A i \in 1 .. n : e[i] = e[i - 1] + Excess(i)
        /\ \A i, j \in 0 .. n : i <= j => e[i] <= e[j]
    BY <2>1 DEF Adds
  <2> DEFINE f == [i \in 0 .. n + 1 |-> IF i = n + 1 THEN e[n] ELSE e[i]]
  <2>3. f[n + 1] = e[n] /\ \A i \in 0 .. n : f[i] = e[i]
    OBVIOUS
  <2>4. f \in [0 .. n + 1 -> Nat]
    <3>1. \A i \in 0 .. n + 1 : i = n + 1 \/ i \in 0 .. n
      OBVIOUS
    <3> QED
      BY <2>2, <3>1
  <2> HIDE DEF f
  <2>5. \A i \in 1 .. n + 1 : f[i] = f[i - 1] + Excess(i)
    <3> SUFFICES ASSUME NEW i \in 1 .. n + 1 PROVE f[i] = f[i - 1] + Excess(i)
      OBVIOUS
    <3>1. CASE i = n + 1
      BY <1>2, <1>5, <2>2, <2>3, <3>1
    <3>2. CASE i # n + 1
      <4>1. i \in 1 .. n /\ i \in 0 .. n /\ i - 1 \in 0 .. n
        BY <3>2
      <4>2. f[i] = e[i] /\ f[i - 1] = e[i - 1]
        BY <2>3, <4>1
      <4> QED
        BY <2>2, <4>1, <4>2
    <3> QED
      BY <3>1, <3>2
  <2>6. \A i, j \in 0 .. n + 1 : i <= j => f[i] <= f[j]
    <3> SUFFICES ASSUME NEW i \in 0 .. n + 1, NEW j \in 0 .. n + 1, i <= j PROVE f[i] <= f[j]
      OBVIOUS
    <3>1. CASE i = n + 1
      BY <2>2, <2>3, <3>1
    <3>2. CASE i # n + 1 /\ j = n + 1
      BY <2>2, <2>3, <3>2
    <3>3. CASE i # n + 1 /\ j # n + 1
      BY <2>2, <2>3, <3>3
    <3> QED
      BY <3>1, <3>2, <3>3
  <2>7. RingLack(n + 1, n + 1) = RingLack(n, n) + Lack(n + 1) /\ RingLack(n, n) \in Int
    <3>1. After(n, n) = 1
      BY DEF After
    <3> QED
      BY <1>2, <1>5, <3>1, Numbers DEF RingLack
  <2>8. used = RingPages(n + 1, 0) + f[n + 1] - RingLack(n + 1, n + 1)
    <3>1. e[n] \in Int /\ used \in Int /\ SealedPages \in Int /\ BtempPages \in Int
      BY <2>2, Numbers DEF TypeOK
    <3>2. RingLack(n + 1, n + 1) = RingLack(n, n) + (SealedPages - BtempPages)
      BY <1>5, <2>7
    <3>3. RingPages(n + 1, 0) = RingPages(n, 1) - BtempPages + SealedPages
          /\ RingPages(n, 1) \in Int /\ RingLack(n, n) \in Int
      BY <1>5, <2>7
    <3> QED
      BY <2>1, <2>3, <3>1, <3>2, <3>3
  <2> QED
    BY <2>4, <2>5, <2>6, <2>8 DEF RoomInv, Adds
<1> QED
  BY <1>2, <1>3, <1>4, <1>6, <1>7 DEF DiskInv

(* DB_Config learns that the block after the current one is now oldest. *)
LEMMA OldestSaved ==
    ASSUME NEW n \in Nat \ {0}, NEW x \in {0, 1}, NEW c, DiskInv(n, x, c, c), Saturated(n, x)
    PROVE  DiskInv(n, x, c, After(c, n))
<1>1. WholeInv(n, x, c, After(c, n))
  BY DEF DiskInv, WholeInv
<1> QED
  BY <1>1 DEF DiskInv
-----------------------------------------------------------------------------
(* What InsertPoint does to the files and to used. *)
RowAdded(g) ==
    /\ OnlyChanges(handle) /\ handle \in Blocks /\ handle \in Blocks'
    /\ files'[handle].rows = files[handle].rows \cup {pending}
    /\ files'[handle].pages = files[handle].pages + g
    /\ used' = used + g

LEMMA RowStored == ASSUME CInv, InsertPoint PROVE \E g \in Growth : RowAdded(g)
<1>1. handle \in Blocks /\ files[handle] \in File
  BY DEF CInv, ConfigInv, TypeOK, InsertPoint
<1>2. PICK g \in Growth :
         /\ files' = [files EXCEPT ![handle].rows = @ \cup {pending},
                                   ![handle].pages = @ + g]
         /\ used' = used + g
  BY DEF InsertPoint
<1>3. /\ Blocks' = Blocks
      /\ \A b \in Blocks \ {handle} : files'[b] = files[b]
      /\ files'[handle] = [files[handle] EXCEPT !.rows = @ \cup {pending}, !.pages = @ + g]
  BY <1>1, <1>2 DEF Blocks
<1>4. /\ files'[handle].rows = files[handle].rows \cup {pending}
      /\ files'[handle].pages = files[handle].pages + g
  <2>1. PICK f \in File : f = files[handle]
    BY <1>1
  <2>2. PICK h : h = files'[handle]
    OBVIOUS
  <2>3. PICK p : p = pending
    OBVIOUS
  <2>4. h = [f EXCEPT !.rows = @ \cup {p}, !.pages = @ + g]
    BY <1>3, <2>1, <2>2, <2>3
  <2>5. h.rows = f.rows \cup {p} /\ h.pages = f.pages + g
    BY <2>4 DEF File
  <2> QED
    BY <2>1, <2>2, <2>3, <2>5
<1> QED
  BY <1>1, <1>2, <1>3, <1>4 DEF RowAdded, OnlyChanges

LEMMA StepArrival == ASSUME CInv, ArrivalInv, [Next]_vars PROVE ArrivalInv'
<1> USE DEF diskVars, memoryVars, boundVars
<1>1. /\ \A b \in Blocks : \A r \in files[b].rows : r.n \in Nat /\ r.n <= LastIn
      /\ arrived \in Nat
  BY DEF CInv, TypeOK, File, Point, ArrivalInv
<1>2. ASSUME arrived' = arrived, pending' = pending \/ pc' \in {"idle", "down", "unconfigured"},
             pc' \notin {"idle", "down", "unconfigured"}
                => pc \notin {"idle", "down", "unconfigured"},
             \A b \in Blocks' : \A r \in files'[b].rows : b \in Blocks /\ r \in files[b].rows
      PROVE  ArrivalInv'
  <2>1. LastIn <= LastIn' /\ LastIn \in Int /\ LastIn' \in Int
    BY <1>1, <1>2 DEF LastIn
  <2>2. ASSUME NEW b \in Blocks', NEW r \in files'[b].rows PROVE r.n <= LastIn'
    <3>1. b \in Blocks /\ r \in files[b].rows
      BY <1>2
    <3>2. r.n \in Nat /\ r.n <= LastIn
      BY <1>1, <3>1
    <3> QED
      BY <2>1, <3>2
  <2>3. pc' \notin {"idle", "down", "unconfigured"} => pending'.n = arrived'
    BY <1>2 DEF ArrivalInv
  <2> QED
    BY <2>2, <2>3 DEF ArrivalInv
<1>3. ASSUME NEW b \in Nat \ {0}, NEW f \in {Fresh, Empty},
             files' = files \/ files' = Put(files, b, f)
      PROVE  \A y \in Blocks' : \A r \in files'[y].rows : y \in Blocks /\ r \in files[y].rows
  BY <1>3, FreshFiles DEF Put, Blocks
<1>4. ASSUME NEW ts \in TimeStamp, Store(ts) PROVE ArrivalInv'
  <2>1. LastIn' = arrived /\ LastIn = arrived /\ pending'.n = arrived'
    <3>1. pc = "idle" /\ pc' \in {"catalog", "insert"} /\ arrived' = arrived + 1
      BY <1>4 DEF Store
    <3>2. arrived \in Nat /\ pending' = [n |-> arrived + 1, ts |-> ts]
      BY <1>1, <1>4 DEF Store
    <3>3. LastIn' = arrived' - 1 /\ LastIn = arrived
      BY <3>1 DEF LastIn
    <3> QED
      BY <3>1, <3>2, <3>3
  <2>2. files' = files /\ Blocks' = Blocks
    BY <1>4 DEF Store, Blocks
  <2> QED
    BY <1>1, <2>1, <2>2 DEF ArrivalInv
<1>5. CASE UpdateCatalog
  BY <1>2, <1>5 DEF UpdateCatalog, Blocks
<1>6. CASE CreateNewBlock
  <2>1. current + 1 \in Nat \ {0}
    BY DEF CInv, TypeOK
  <2>2. files' = files \/ files' = Put(files, current + 1, Fresh)
    BY <1>6 DEF CreateNewBlock, CopyBtemp
  <2>3. \A b \in Blocks' : \A r \in files'[b].rows : b \in Blocks /\ r \in files[b].rows
    BY <1>3, <2>1, <2>2
  <2> QED
    BY <1>2, <1>6, <2>3 DEF CreateNewBlock
<1>7. CASE RemoveOldest
  <2>1. \A b \in Blocks' : b \in Blocks /\ files'[b] = files[b]
    BY <1>7 DEF RemoveOldest, Blocks, Drop
  <2> QED
    BY <1>2, <1>7, <2>1 DEF RemoveOldest
<1>8. CASE RemoveFails
  BY <1>2, <1>8 DEF RemoveFails, Blocks
<1>9. CASE RefillOldest
  <2>1. oldest \in Nat \ {0}
    BY DEF CInv, TypeOK
  <2>2. files' = files \/ files' = Put(files, oldest, Fresh)
    BY <1>9 DEF RefillOldest, CopyBtemp
  <2>3. \A b \in Blocks' : \A r \in files'[b].rows : b \in Blocks /\ r \in files[b].rows
    BY <1>3, <2>1, <2>2
  <2> QED
    BY <1>2, <1>9, <2>3 DEF RefillOldest
<1>10. CASE UpdateCurrentBlock
  BY <1>2, <1>10 DEF UpdateCurrentBlock, Blocks
<1>11. CASE UpdateOldestBlock
  BY <1>2, <1>11 DEF UpdateOldestBlock, Blocks
<1>12. CASE OpenCurrent
  <2>1. current \in Nat \ {0}
    BY DEF CInv, TypeOK
  <2>2. files' = files \/ files' = Put(files, current, Empty)
    BY <1>12 DEF OpenCurrent, OpenFile
  <2>3. \A b \in Blocks' : \A r \in files'[b].rows : b \in Blocks /\ r \in files[b].rows
    BY <1>3, <2>1, <2>2
  <2> QED
    BY <1>2, <1>12, <2>3 DEF OpenCurrent
<1>13. CASE InsertPoint
  <2>1. PICK g \in Growth : RowAdded(g)
    BY <1>13, RowStored
  <2>2. ASSUME NEW b \in Blocks', NEW r \in files'[b].rows
        PROVE  b \in Blocks /\ (r \in files[b].rows \/ r = pending)
    <3>1. CASE b = handle
      BY <2>1, <2>2, <3>1 DEF RowAdded
    <3>2. CASE b # handle
      BY <2>1, <2>2, <3>2 DEF RowAdded, OnlyChanges
    <3> QED
      BY <3>1, <3>2
  <2>3. LastIn' = arrived /\ LastIn = arrived - 1 /\ pending.n = arrived
    BY <1>13 DEF InsertPoint, LastIn, ArrivalInv
  <2>4. ASSUME NEW b \in Blocks', NEW r \in files'[b].rows PROVE r.n <= LastIn'
    <3>1. CASE r = pending
      BY <1>1, <2>3, <3>1
    <3>2. CASE r \in files[b].rows
      BY <1>1, <2>2, <2>3, <2>4, <3>2
    <3> QED
      BY <2>2, <2>4, <3>1, <3>2
  <2> QED
    BY <1>13, <2>4 DEF InsertPoint, ArrivalInv
<1>14. CASE InsertFails
  BY <1>2, <1>14 DEF InsertFails, Blocks
<1>15. CASE Crash
  BY <1>2, <1>15 DEF Crash, Blocks
<1>16. CASE Connect
  <2>1. dbConfig.current \in Nat \ {0}
    BY DEF CInv, TypeOK
  <2>2. files' = files \/ files' = Put(files, dbConfig.current, Empty)
    BY <1>16 DEF Connect, OpenFile
  <2>3. \A b \in Blocks' : \A r \in files'[b].rows : b \in Blocks /\ r \in files[b].rows
    BY <1>3, <2>1, <2>2
  <2> QED
    BY <1>2, <1>16, <2>3 DEF Connect
<1>17. CASE RefuseToConnect
  BY <1>2, <1>17 DEF RefuseToConnect, Blocks
<1>18. CASE UNCHANGED vars
  BY <1>2, <1>18 DEF vars, Blocks
<1> QED
  BY <1>4, <1>5, <1>6, <1>7, <1>8, <1>9, <1>10, <1>11, <1>12, <1>13, <1>14, <1>15,
     <1>16, <1>17, <1>18 DEF Next, Run, Step, Rotate, Restart
-----------------------------------------------------------------------------
(* In a saturated ring whose current block is full, a block is created     *)
(* only where the block after the current one is a hole.                   *)
LEMMA CreatesInHole ==
    ASSUME Roomy, TypeOK, ~Overrun, NEW n \in Nat \ {0}, NEW x \in {0, 1}, NEW c, NEW o,
           DiskInv(n, x, c, o), Saturated(n, x), Sealed(c), RemainingSize >= BlockSize
    PROVE  o = After(c, n) /\ o # c /\ (o \in Blocks => Unused(o))
<1>1. PICK e : Adds(e, n) /\ used = RingPages(n, x) + e[n] - RingLack(n, c)
  BY DEF DiskInv, RoomInv
<1>2. /\ c \in 1 .. n /\ After(c, n) \in 1 .. n /\ o \in {c, After(c, n)}
      /\ \A b \in 1 .. n : b = c \/ Sealed(b) \/ (b = o /\ (b \in Blocks => Unused(b)))
  BY DEF DiskInv, WholeInv, After
<1>3. e[n] \in Nat /\ used \in Int /\ RingPages(n, x) \in Nat /\ RingLack(n, c) \in Nat
      /\ RingLack(n, c) <= RingPages(n, x)
  <2>1. RingPages(n, 0) \in Nat /\ RingPages(n, 1) \in Nat /\ RingPages(n, 0) <= RingPages(n, 1)
    BY RingGrows, Numbers
  <2>2. RingLack(n, c) \in 0 .. RingPages(n, 0)
    BY <1>2, LackOfRing
  <2>3. e[n] \in Nat /\ used \in Int
    BY <1>1 DEF Adds, TypeOK
  <2> QED
    BY <2>1, <2>2, <2>3
<1>4. used \in Nat
  BY <1>1, <1>3
<1>5. RemainingSize = DiskSize - (MainSize + used * PageSize)
  BY <1>4, WhatRemains DEF TypeOK
<1>6. used < RingPages(n, x)
  <2> SUFFICES ASSUME RingPages(n, x) <= used PROVE FALSE
    BY <1>3, <1>4
  <2>1. RingPages(n, x) * PageSize <= used * PageSize
    BY <1>3, <1>4, Numbers
  <2>2. {DiskSize, MainSize, BlockSize, used * PageSize, RingPages(n, x) * PageSize} \subseteq Int
    BY <1>3, <1>4, Numbers
  <2> QED
    BY <1>5, <2>1, <2>2 DEF Saturated
<1>7. RingLack(n, c) > 0
  BY <1>1, <1>3, <1>6
<1>8. Lack(c) = 0
  BY PageCounts DEF Counted
<1>9. After(c, n) # c /\ Lack(After(c, n)) # 0
  BY <1>7, <1>8 DEF RingLack
<1>10. ~Sealed(After(c, n))
  BY <1>9, PageCounts DEF Counted
<1> QED
  BY <1>2, <1>9, <1>10

(* A full block that finds no room for another is in a saturated ring. *)
LEMMA SaturatedWhenFull ==
    ASSUME Roomy, TypeOK, ~Overrun, NEW n \in Nat \ {0}, NEW x \in {0, 1}, NEW c, NEW o,
           DiskInv(n, x, c, o), Sealed(c), ~(RemainingSize >= BlockSize)
    PROVE  Saturated(n, x)
<1>1. SUFFICES ASSUME FirstRound(n, x, c, o) PROVE Saturated(n, x)
  BY DEF DiskInv
<1>2. Lack(c) = 0
  BY PageCounts DEF Counted
<1>3. RingPages(n, x) \in Nat
  BY RingGrows
<1>4. used = RingPages(n, x)
  BY <1>1, <1>2, <1>3 DEF FirstRound
<1>5. RemainingSize = DiskSize - (MainSize + used * PageSize)
  BY <1>3, <1>4, WhatRemains
<1>6. {DiskSize, MainSize, BlockSize, RingPages(n, x) * PageSize} \subseteq Int
  BY <1>3, Numbers
<1> QED
  BY <1>4, <1>5, <1>6 DEF Saturated

(* What a copy of btemp.db does when no unused file is left. *)
LEMMA Copied ==
    ASSUME NEW b \in Nat \ {0}, b \notin Blocks, CopyBtemp(b)
    PROVE  /\ OnlyChanges(b) /\ b \in Blocks' /\ Unused(b)'
           /\ used' = used + BtempPages
           /\ Pages(b) = 0 /\ Pages(b)' = BtempPages
<1>1. files' = Put(files, b, Fresh) /\ used' = used + BtempPages
  BY DEF CopyBtemp
<1>2. Blocks' = Blocks \cup {b} /\ files'[b] = Fresh /\ \A y \in Blocks : files'[y] = files[y]
  BY <1>1 DEF Put, Blocks
<1>3. Fresh.rows = {} /\ Fresh.pages = BtempPages
  BY DEF Fresh
<1> QED
  BY <1>1, <1>2, <1>3 DEF OnlyChanges, Unused, Pages

Placed(n, x, c, o) ==
    /\ c = dbConfig.current /\ o = dbConfig.oldest
    /\ DiskInv(n, x, c, o) /\ StageInv(n, x, c, o)
PlacedNext ==
    \E n \in Nat \ {0}, x \in {0, 1} : \E c, o \in 1 .. n : Placed(n, x, c, o)'

LEMMA CreateRegular ==
    ASSUME Roomy, CInv, CInv', ~Overrun, NEW n \in Nat \ {0}, NEW x \in {0, 1},
           NEW c \in 1 .. n, NEW o \in 1 .. n, Placed(n, x, c, o), CreateNewBlock
    PROVE  PlacedNext
<1>1. TypeOK /\ TypeOK' /\ c = current /\ o = oldest /\ c + 1 \in Nat \ {0}
  BY DEF CInv, ConfigInv, CreateNewBlock, Placed, Steady
<1>2. /\ pc' = "saveCurrent" /\ current' = c + 1 /\ CopyBtemp(c + 1)
      /\ dbConfig' = dbConfig /\ DOMAIN catalog' = DOMAIN catalog
  BY <1>1 DEF CreateNewBlock
<1>3. /\ DiskInv(n, x, c, o) /\ Sealed(c) /\ DOMAIN catalog = 1 .. n
      /\ RemainingSize >= BlockSize
  BY DEF Placed, StageInv, CreateNewBlock
<1>4. /\ Blocks \subseteq 1 .. n + x /\ o \in {c, After(c, n)}
      /\ x = 1 => n + 1 \in Blocks /\ Unused(n + 1)
  BY <1>3 DEF DiskInv, WholeInv
<1>5. CASE c = n /\ o = 1
  <2>1. Sealed(c)'
    <3>1. c \in Blocks /\ c # c + 1
      BY <1>3 DEF Sealed
    <3>2. CASE c + 1 \in Blocks
      BY <1>2, <1>3, <3>2 DEF CopyBtemp, diskVars, Sealed, Blocks
    <3>3. CASE c + 1 \notin Blocks
      <4>1. OnlyChanges(c + 1)
        BY <1>1, <1>2, <3>3, Copied
      <4> QED
        BY <1>3, <3>1, <4>1, OthersSame
    <3> QED
      BY <3>2, <3>3
  <2>2. DiskInv(n, 1, n, o)' /\ n + 1 \in Blocks' /\ Unused(n + 1)'
    <3>1. CASE x = 1
      <4>1. files' = files /\ used' = used
        BY <1>2, <1>4, <1>5, <3>1 DEF CopyBtemp, diskVars
      <4>2. DiskInv(n, 1, n, o)'
        BY <1>2, <1>3, <1>5, <3>1, <4>1, SameDisk
      <4> QED
        BY <1>4, <3>1, <4>1, <4>2 DEF Blocks, Unused
    <3>2. CASE x = 0
      <4>1. n + 1 \notin Blocks
        BY <1>4, <3>2
      <4>2. OnlyChanges(n + 1) /\ n + 1 \in Blocks' /\ Unused(n + 1)' /\ used' = used + BtempPages
        BY <1>1, <1>2, <1>5, <4>1, Copied
      <4>3. DiskInv(n, 0, n, o) /\ Sealed(n)
        BY <1>3, <1>5, <3>2
      <4> QED
        BY <1>1, <1>2, <4>2, <4>3, FileAfterEnd
    <3> QED
      BY <3>1, <3>2
  <2>3. StageInv(n, 1, c, o)'
    BY <1>2, <1>3, <1>5, <2>1, <2>2 DEF StageInv
  <2>4. Placed(n, 1, c, o)'
    BY <1>2, <1>5, <2>2, <2>3 DEF Placed
  <2> QED
    BY <2>4 DEF PlacedNext
<1>6. CASE ~(c = n /\ o = 1)
  <2>1. Saturated(n, x)
    BY <1>3, <1>6 DEF DiskInv, FirstRound
  <2>2. o = After(c, n) /\ o # c /\ (o \in Blocks => Unused(o))
    BY <1>1, <1>3, <2>1, CreatesInHole
  <2>3. c # n /\ o = c + 1
    BY <1>6, <2>2 DEF After
  <2>4. /\ OnlyChanges(o) /\ o \in Blocks' /\ Unused(o)'
        /\ used' = used + Pages(o)' - Pages(o)
    <3>1. CASE o \in Blocks
      <4>1. files' = files /\ used' = used
        BY <1>2, <2>3, <3>1 DEF CopyBtemp, diskVars
      <4>2. Pages(o) \in Int /\ Pages(o)' = Pages(o) /\ used \in Int
        BY <1>1, <4>1, PageCounts DEF Counted, Pages, Blocks, TypeOK
      <4> QED
        BY <2>2, <3>1, <4>1, <4>2 DEF OnlyChanges, Blocks, Unused
    <3>2. CASE o \notin Blocks
      <4>1. used \in Int
        BY <1>1 DEF TypeOK
      <4> QED
        BY <1>1, <1>2, <2>3, <3>2, <4>1, Copied, Numbers
    <3> QED
      BY <3>1, <3>2
  <2>5. DiskInv(n, x, c, o)'
    BY <1>1, <1>2, <1>3, <2>1, <2>4, HoleChanges
  <2>6. Sealed(c)'
    BY <1>3, <2>2, <2>4, OthersSame
  <2>7. StageInv(n, x, c, o)'
    BY <1>2, <1>3, <2>3, <2>4, <2>6 DEF StageInv
  <2>8. Placed(n, x, c, o)'
    BY <1>2, <2>5, <2>7 DEF Placed
  <2> QED
    BY <2>8 DEF PlacedNext
<1> QED
  BY <1>5, <1>6

LEMMA RemoveRegular ==
    ASSUME CInv, CInv', NEW n \in Nat \ {0}, NEW x \in {0, 1},
           NEW c \in 1 .. n, NEW o \in 1 .. n, Placed(n, x, c, o), RemoveOldest
    PROVE  PlacedNext
<1>1. TypeOK /\ TypeOK' /\ c = current /\ o = oldest
  BY DEF CInv, ConfigInv, RemoveOldest, Placed, Steady
<1>2. /\ pc' = "refill" /\ oldest' = oldest /\ dbConfig' = dbConfig
      /\ DOMAIN catalog' = DOMAIN catalog
      /\ o \in Blocks /\ files' = Drop(files, o) /\ used' = used - files[o].pages
  BY <1>1 DEF RemoveOldest, memoryVars
<1>3. Saturated(n, x) /\ DOMAIN catalog = 1 .. n /\ DiskInv(n, x, c, o) /\ Sealed(c)
  BY DEF Placed, StageInv, RemoveOldest
<1>4. OnlyChanges(o) /\ o \notin Blocks'
  BY <1>2 DEF Drop, Blocks, OnlyChanges
<1>5. used' = used + Pages(o)' - Pages(o)
  <2>1. Pages(o) = files[o].pages /\ Pages(o)' = 0
    BY <1>2, <1>4 DEF Pages
  <2>2. Pages(o) \in Int /\ used \in Int
    BY <1>1, <1>2 DEF Pages, TypeOK, File
  <2> QED
    BY <1>2, <2>1, <2>2
<1>6. DiskInv(n, x, c, o)'
  BY <1>1, <1>2, <1>3, <1>4, <1>5, HoleChanges
<1>7. o = c \/ Sealed(c)'
  BY <1>3, <1>4, OthersSame
<1>8. StageInv(n, x, c, o)'
  BY <1>1, <1>2, <1>3, <1>4, <1>7 DEF StageInv, Saturated, RingPages
<1>9. Placed(n, x, c, o)'
  BY <1>2, <1>6, <1>8 DEF Placed
<1> QED
  BY <1>9 DEF PlacedNext

LEMMA RefillRegular ==
    ASSUME CInv, CInv', NEW n \in Nat \ {0}, NEW x \in {0, 1},
           NEW c \in 1 .. n, NEW o \in 1 .. n, Placed(n, x, c, o), RefillOldest
    PROVE  PlacedNext
<1>1. TypeOK /\ TypeOK' /\ c = current /\ o = oldest /\ o \in Nat \ {0}
  BY DEF CInv, ConfigInv, RefillOldest, Placed, Steady
<1>2. /\ o \notin Blocks /\ (o = c \/ Sealed(c))
      /\ Saturated(n, x) /\ DOMAIN catalog = 1 .. n /\ DiskInv(n, x, c, o)
  BY DEF Placed, StageInv, RefillOldest
<1>3. /\ pc' = "recycleSaveCurrent" /\ current' = o /\ dbConfig' = dbConfig
      /\ DOMAIN catalog' = DOMAIN catalog /\ CopyBtemp(o) /\ oldest' = NextOldest
  BY <1>1 DEF RefillOldest
<1>4. oldest' = After(o, n)
  <2>1. 1 .. n \in SUBSET Int /\ n \in 1 .. n /\ \A y \in 1 .. n : y <= n
    OBVIOUS
  <2>2. MaxBlockNumber = n
    BY <1>2, <2>1, MaxIsUpperEnd DEF MaxBlockNumber
  <2> QED
    BY <1>1, <1>3, <2>2 DEF NextOldest, After
<1>5. /\ OnlyChanges(o) /\ o \in Blocks' /\ Unused(o)'
      /\ used' = used + Pages(o)' - Pages(o)
  <2>1. used \in Int
    BY <1>1 DEF TypeOK
  <2> QED
    BY <1>1, <1>2, <1>3, <2>1, Copied, Numbers
<1>6. DiskInv(n, x, c, o)'
  BY <1>1, <1>2, <1>3, <1>5, HoleChanges
<1>7. o = c \/ Sealed(c)'
  BY <1>2, <1>5, OthersSame
<1>8. StageInv(n, x, c, o)'
  BY <1>2, <1>3, <1>4, <1>5, <1>7 DEF StageInv, Saturated, RingPages, After
<1>9. Placed(n, x, c, o)'
  BY <1>3, <1>6, <1>8 DEF Placed
<1> QED
  BY <1>9 DEF PlacedNext

LEMMA SaveRegular ==
    ASSUME CInv, CInv', NEW n \in Nat \ {0}, NEW x \in {0, 1},
           NEW c \in 1 .. n, NEW o \in 1 .. n, Placed(n, x, c, o), UpdateCurrentBlock
    PROVE  PlacedNext
<1>1. /\ TypeOK /\ TypeOK' /\ DiskInv(n, x, c, o) /\ o = dbConfig.oldest
      /\ \A y : Unused(y)' <=> Unused(y)
      /\ \A y : Sealed(y)' <=> Sealed(y)
      /\ Blocks' = Blocks /\ DOMAIN catalog' = DOMAIN catalog
      /\ files' = files /\ used' = used /\ oldest' = oldest /\ current' = current
  BY DEF CInv, UpdateCurrentBlock, diskVars, memoryVars, Placed, Unused, Sealed, Blocks
<1>2. dbConfig' = [dbConfig EXCEPT !.current = current]
  BY DEF UpdateCurrentBlock
<1>3. dbConfig'.current = current /\ dbConfig'.oldest = o
  BY <1>1, <1>2 DEF TypeOK
<1>4. CASE pc = "saveCurrent"
  <2>1. /\ Sealed(c) /\ DOMAIN catalog = 1 .. n
        /\ current = c + 1 /\ current \in Blocks /\ Unused(current)
        /\ current = o \/ (c = n /\ o = 1 /\ x = 1)
    BY <1>4 DEF Placed, StageInv
  <2>2. pc' = "open"
    BY <1>4 DEF UpdateCurrentBlock
  <2>3. CASE current = o
    <3>1. Saturated(n, x)
      BY <2>1, <2>3 DEF Placed, DiskInv, FirstRound
    <3>2. DiskInv(n, x, o, o)
      BY <1>1, <2>1, <2>3, <3>1, RingTurns
    <3>3. DiskInv(n, x, o, o)'
      BY <1>1, <3>2, SameDisk
    <3>4. StageInv(n, x, o, o)'
      BY <1>1, <2>1, <2>2, <2>3, <3>1 DEF StageInv, Saturated, RingPages
    <3>5. Placed(n, x, o, o)'
      BY <1>3, <2>3, <3>3, <3>4 DEF Placed
    <3> QED
      BY <3>5 DEF PlacedNext
  <2>4. CASE c = n /\ o = 1 /\ x = 1
    <3>1. DiskInv(n + 1, 0, n + 1, 1)
      BY <1>1, <2>1, <2>4, RingGains
    <3>2. DiskInv(n + 1, 0, n + 1, 1)'
      BY <1>1, <3>1, SameDisk
    <3>3. n + 1 \in Blocks /\ ~Sealed(n + 1)
      BY <2>1, <2>4, Numbers DEF Sealed, Unused
    <3>4. StageInv(n + 1, 0, n + 1, 1)'
      BY <1>1, <2>2, <3>3 DEF StageInv
    <3>5. Placed(n + 1, 0, n + 1, 1)'
      BY <1>3, <2>1, <2>4, <3>2, <3>4 DEF Placed
    <3>6. n + 1 \in Nat \ {0} /\ 0 \in {0, 1} /\ n + 1 \in 1 .. n + 1 /\ 1 \in 1 .. n + 1
      OBVIOUS
    <3> QED
      BY <3>5, <3>6 DEF PlacedNext
  <2> QED
    BY <2>1, <2>3, <2>4
<1>5. CASE pc = "recycleSaveCurrent"
  <2>1. /\ DOMAIN catalog = 1 .. n /\ Saturated(n, x)
        /\ current = o /\ oldest = After(o, n) /\ current \in Blocks /\ Unused(current)
        /\ o = c \/ Sealed(c)
    BY <1>5 DEF Placed, StageInv
  <2>2. pc' = "saveOldest"
    BY <1>5 DEF UpdateCurrentBlock
  <2>3. DiskInv(n, x, o, o)
    BY <1>1, <2>1, RingTurns
  <2>4. DiskInv(n, x, o, o)'
    BY <1>1, <2>3, SameDisk
  <2>5. StageInv(n, x, o, o)'
    BY <1>1, <2>1, <2>2 DEF StageInv, Saturated, RingPages, After
  <2>6. Placed(n, x, o, o)'
    BY <1>3, <2>1, <2>4, <2>5 DEF Placed
  <2> QED
    BY <2>6 DEF PlacedNext
<1> QED
  BY <1>4, <1>5 DEF UpdateCurrentBlock

LEMMA InsertRegular ==
    ASSUME Roomy, CInv, CInv', ArrivalInv, NEW n \in Nat \ {0}, NEW x \in {0, 1},
           NEW c \in 1 .. n, NEW o \in 1 .. n, Placed(n, x, c, o), InsertPoint
    PROVE  PlacedNext
<1>1. PICK g \in Growth : RowAdded(g)
  BY RowStored
<1>2. /\ TypeOK /\ TypeOK' /\ c = handle /\ c \in Blocks /\ (Sealed(c) => Saturated(n, x))
      /\ DiskInv(n, x, c, o) /\ pc' = "idle" /\ dbConfig' = dbConfig
      /\ DOMAIN catalog' = DOMAIN catalog
  BY DEF CInv, ConfigInv, Steady, InsertPoint, Placed, StageInv
<1>3. OnlyChanges(c) /\ c \in Blocks' /\ g \in {0, 1}
      /\ files'[c].pages = files[c].pages + g /\ used' = used + g
      /\ files'[c].rows = files[c].rows \cup {pending}
  <2>1. g \in {0, 1}
    BY DEF Growth, Roomy
  <2> QED
    BY <1>1, <1>2, <2>1 DEF RowAdded
<1>4. /\ Pages(c) \in Nat /\ Pages(c) = files[c].pages /\ Pages(c)' = Pages(c) + g
      /\ Pages(c)' \in Nat /\ used \in Int
  BY <1>2, <1>3 DEF Pages, TypeOK, File
<1>5. AgeInv(n, c)'
  <2>1. \A b \in Blocks : \A r \in files[b].rows : r.n \in Nat /\ r.n < pending.n
    <3>1. \A b \in Blocks : \A r \in files[b].rows : r.n \in Nat /\ r.n <= arrived - 1
      BY <1>2 DEF InsertPoint, ArrivalInv, LastIn, TypeOK, File, Point
    <3>2. pending.n = arrived /\ arrived \in Nat
      BY <1>2 DEF InsertPoint, ArrivalInv, TypeOK
    <3> QED
      BY <3>1, <3>2
  <2> SUFFICES ASSUME NEW b1 \in Blocks', NEW b2 \in Blocks', b1 <= n, b2 <= n,
                      RingFrom(c, n, b1) < RingFrom(c, n, b2),
                      NEW r \in files'[b1].rows, NEW s \in files'[b2].rows
               PROVE  r.n < s.n
    BY DEF AgeInv, RingFrom, Older
  <2>2. b1 \in Blocks /\ b2 \in Blocks /\ b1 \in 1 .. n /\ b2 \in 1 .. n
    <3>1. b1 \in Blocks /\ b2 \in Blocks
      BY <1>2, <1>3 DEF OnlyChanges
    <3> QED
      BY <1>2, <3>1 DEF TypeOK
  <2>3. b1 # c /\ r \in files[b1].rows
    <3>1. b1 # c
      BY <2>2 DEF RingFrom
    <3> QED
      BY <1>3, <2>2, <3>1 DEF OnlyChanges
  <2>4. s = pending \/ s \in files[b2].rows
    BY <1>3, <2>2 DEF OnlyChanges
  <2>5. CASE s = pending
    BY <2>1, <2>2, <2>3, <2>5
  <2>6. CASE s \in files[b2].rows
    BY <1>2, <2>2, <2>3, <2>6 DEF DiskInv, AgeInv, Older
  <2> QED
    BY <2>4, <2>5, <2>6
<1>6. Saturated(n, x) \/ FirstRound(n, x, c, o)'
  <2> SUFFICES ASSUME ~Saturated(n, x) PROVE FirstRound(n, x, c, o)'
    OBVIOUS
  <2>1. FirstRound(n, x, c, o) /\ ~Sealed(c)
    BY <1>2 DEF DiskInv
  <2>2. Pages(c) < SealedPages /\ Pages(c)' <= SealedPages
    <3>1. Pages(c) < SealedPages
      BY <1>2, <1>4, <2>1, Numbers DEF Sealed
    <3> QED
      BY <1>3, <1>4, <3>1, Numbers
  <2>3. Lack(c)' = Lack(c) - g /\ Lack(c) \in Int
    BY <1>3, <1>4, <2>2, Numbers DEF Lack
  <2>4. used' = RingPages(n, x) - Lack(c)'
    <3>1. RingPages(n, x) \in Int
      BY RingGrows
    <3> QED
      BY <1>3, <2>1, <2>3, <3>1 DEF FirstRound
  <2>5. \A b \in 1 .. n : b # c => b \in Blocks' /\ files'[b] = files[b]
    BY <1>3, <2>1, OthersSame DEF FirstRound
  <2>6. files'[c].pages <= SealedPages
    BY <1>3, <1>4, <2>2
  <2> QED
    BY <1>3, <2>1, <2>4, <2>5, <2>6 DEF FirstRound, RingPages
<1>7. used' = used + Pages(c)' - Pages(c)
  BY <1>3, <1>4
<1>8. DiskInv(n, x, c, o)'
  BY <1>2, <1>3, <1>5, <1>6, <1>7, CurrentChanges
<1>9. StageInv(n, x, c, o)'
  BY <1>2 DEF StageInv
<1>10. Placed(n, x, c, o)'
  BY <1>2, <1>8, <1>9 DEF Placed, InsertPoint
<1> QED
  BY <1>10 DEF PlacedNext

LEMMA ConnectRegular ==
    ASSUME CInv, CInv', NEW n \in Nat \ {0}, NEW x \in {0, 1},
           NEW c \in 1 .. n, NEW o \in 1 .. n, Placed(n, x, c, o), Connect
    PROVE  PlacedNext
<1>1. /\ TypeOK /\ TypeOK' /\ DiskInv(n, x, c, o) /\ pc' = "idle" /\ dbConfig' = dbConfig
      /\ DOMAIN catalog' = DOMAIN catalog /\ used' = used /\ OpenFile(c)
  BY DEF CInv, Connect, Placed
<1>2. DiskInv(n, x, c, o)'
  <2>1. CASE c \in Blocks
    BY <1>1, <2>1, SameDisk DEF OpenFile
  <2>2. CASE c \notin Blocks
    <3>1. files' = Put(files, c, Empty)
      BY <1>1, <2>2 DEF OpenFile
    <3>2. /\ OnlyChanges(c) /\ Blocks' = Blocks \cup {c} /\ files'[c] = Empty
          /\ \A y \in Blocks : files'[y] = files[y]
      BY <2>2, <3>1 DEF Put, Blocks, OnlyChanges
    <3>3. Pages(c) = 0 /\ Pages(c)' = 0 /\ files'[c].rows = {}
      BY <2>2, <3>2, FreshFiles DEF Pages, Empty
    <3>4. AgeInv(n, c)'
      <4> SUFFICES ASSUME NEW b1 \in Blocks', NEW b2 \in Blocks', b1 <= n, b2 <= n,
                          RingFrom(c, n, b1) < RingFrom(c, n, b2)
                   PROVE  Older(b1, b2)'
        BY DEF AgeInv, RingFrom
      <4>1. CASE b1 = c \/ b2 = c
        BY <3>3, <4>1 DEF Older
      <4>2. CASE b1 # c /\ b2 # c
        BY <1>1, <3>2, <4>2 DEF DiskInv, AgeInv, Older
      <4> QED
        BY <4>1, <4>2
    <3>5. Saturated(n, x)
      BY <1>1, <2>2 DEF DiskInv, FirstRound
    <3>6. used' = used + Pages(c)' - Pages(c)
      BY <1>1, <3>3 DEF TypeOK
    <3> QED
      BY <1>1, <3>2, <3>4, <3>5, <3>6, CurrentChanges
  <2> QED
    BY <2>1, <2>2
<1>3. StageInv(n, x, c, o)'
  BY <1>1 DEF StageInv
<1>4. Placed(n, x, c, o)'
  BY <1>1, <1>2, <1>3 DEF Placed
<1> QED
  BY <1>4 DEF PlacedNext

LEMMA StepPlaced ==
    ASSUME Roomy, CInv, CInv', ArrivalInv, ~Overrun, NEW n \in Nat \ {0}, NEW x \in {0, 1},
           NEW c \in 1 .. n, NEW o \in 1 .. n, Placed(n, x, c, o), [Next]_vars
    PROVE  PlacedNext
<1> USE DEF diskVars, memoryVars, boundVars
<1>1. /\ DiskInv(n, x, c, o) /\ StageInv(n, x, c, o)
      /\ c = dbConfig.current /\ o = dbConfig.oldest
      /\ pc \in Steady => handle = c /\ current = c /\ oldest = o
      /\ TypeOK
  BY DEF CInv, ConfigInv, Placed
<1>2. \A m \in Nat \ {0}, y \in {0, 1} : \A d, p \in 1 .. m : Placed(m, y, d, p)' => PlacedNext
  BY DEF PlacedNext
<1>3. ASSUME files' = files, used' = used, DOMAIN catalog' = DOMAIN catalog,
             dbConfig' = dbConfig, StageInv(n, x, c, o)'
      PROVE  PlacedNext
  <2>1. DiskInv(n, x, c, o)'
    BY <1>1, <1>3, SameDisk
  <2>2. Placed(n, x, c, o)'
    BY <1>1, <1>3, <2>1 DEF Placed
  <2> QED
    BY <1>2, <2>2
<1>4. ASSUME pc' \in {"idle", "down", "unconfigured"} PROVE StageInv(n, x, c, o)'
  BY <1>4 DEF StageInv
<1>5. ASSUME files' = files
      PROVE  (Sealed(c)' <=> Sealed(c)) /\ Blocks' = Blocks /\ (Unused(c)' <=> Unused(c))
  BY <1>5 DEF Sealed, Blocks, Unused
<1>6. Saturated(n, x)' <=> Saturated(n, x)
  BY DEF Saturated, RingPages
<1>7. ASSUME NEW ts \in TimeStamp, Store(ts) PROVE PlacedNext
  <2>1. handle = c /\ c \in Blocks /\ files[c].pages \in Nat
    BY <1>1, <1>7 DEF Store, CInv, ConfigInv, Steady, TypeOK, File
  <2>2. CurrentBlockFull <=> Sealed(c)
    BY <2>1, FullPages DEF CurrentBlockFull, Sealed
  <2>3. pc' = IF Sealed(c) THEN "catalog" ELSE "insert"
    BY <1>7, <2>2 DEF Store
  <2>4. files' = files
    BY <1>7 DEF Store
  <2>5. StageInv(n, x, c, o)'
    BY <1>5, <2>1, <2>3, <2>4 DEF StageInv
  <2> QED
    BY <1>3, <1>7, <2>5 DEF Store
<1>8. CASE UpdateCatalog
  <2>1. /\ Sealed(c) /\ current = c /\ files' = files /\ used' = used /\ dbConfig' = dbConfig
        /\ catalog' = Put(catalog, c, Period(files[handle]))
        /\ pc' = IF RemainingSize >= BlockSize THEN "create" ELSE "remove"
    BY <1>1, <1>8 DEF UpdateCatalog, StageInv, Steady
  <2>2. DOMAIN catalog' = 1 .. n
    <3>1. DOMAIN catalog' = DOMAIN catalog \cup {c}
      BY <2>1 DEF Put
    <3>2. DOMAIN catalog = 1 .. n \/ (DOMAIN catalog = 1 .. n - 1 /\ c = n)
      BY <1>1 DEF DiskInv
    <3>3. (1 .. n - 1) \cup {n} = 1 .. n
      OBVIOUS
    <3> QED
      BY <3>1, <3>2, <3>3
  <2>3. DiskInv(n, x, c, o)'
    <3>1. /\ \A b : Sealed(b)' <=> Sealed(b)
          /\ \A b : Unused(b)' <=> Unused(b)
          /\ \A b : Pages(b)' = Pages(b)
          /\ Blocks' = Blocks
      BY <2>1 DEF Sealed, Unused, Pages, Blocks
    <3>2. \A b : Lack(b)' = Lack(b) /\ Excess(b)' = Excess(b)
      BY <3>1 DEF Lack, Excess
    <3>3. WholeInv(n, x, c, o)' /\ AgeInv(n, c)'
      BY <1>1, <2>1, <3>1 DEF DiskInv, WholeInv, AgeInv, RingFrom, After, Older
    <3>4. Saturated(n, x)' \/ FirstRound(n, x, c, o)'
      BY <1>1, <1>6, <2>1, <3>1, <3>2 DEF DiskInv, FirstRound, RingPages
    <3>5. RoomInv(n, x, c)'
      <4>1. PICK e : Adds(e, n) /\ used = RingPages(n, x) + e[n] - RingLack(n, c)
        BY <1>1 DEF DiskInv, RoomInv
      <4>2. Adds(e, n)' /\ RingLack(n, c)' = RingLack(n, c)
        BY <3>2, <4>1 DEF Adds, RingLack, After
      <4> QED
        BY <2>1, <4>1, <4>2 DEF RoomInv, RingPages
    <3> QED
      BY <2>2, <3>3, <3>4, <3>5 DEF DiskInv
  <2>4. Sealed(c)'
    BY <1>5, <2>1
  <2>5. pc' = "create" => RemainingSize' >= BlockSize
    BY <2>1 DEF RemainingSize
  <2>6. pc' = "remove" => Saturated(n, x)'
    BY <1>1, <1>6, <2>1, SaturatedWhenFull
  <2>7. pc' \in {"create", "remove"}
    BY <2>1
  <2>8. StageInv(n, x, c, o)'
    BY <2>2, <2>4, <2>5, <2>6, <2>7 DEF StageInv
  <2>9. Placed(n, x, c, o)'
    BY <1>1, <2>1, <2>3, <2>8 DEF Placed
  <2> QED
    BY <1>2, <2>9
<1>9. CASE CreateNewBlock
  BY <1>9, CreateRegular
<1>10. CASE RemoveOldest
  BY <1>10, RemoveRegular
<1>11. CASE RemoveFails
  <2>1. /\ pc' = "insert" /\ Sealed(c) /\ Saturated(n, x)
        /\ files' = files /\ used' = used /\ catalog' = catalog /\ dbConfig' = dbConfig
    BY <1>1, <1>11 DEF RemoveFails, StageInv
  <2>2. StageInv(n, x, c, o)'
    BY <1>5, <1>6, <2>1 DEF StageInv, Sealed
  <2> QED
    BY <1>3, <2>1, <2>2
<1>12. CASE RefillOldest
  BY <1>12, RefillRegular
<1>13. CASE UpdateCurrentBlock
  BY <1>13, SaveRegular
<1>14. CASE UpdateOldestBlock
  <2>1. /\ o = c /\ oldest = After(c, n) /\ c \in Blocks /\ Unused(c) /\ Saturated(n, x)
        /\ pc' = "open" /\ files' = files /\ used' = used /\ catalog' = catalog
        /\ dbConfig' = [dbConfig EXCEPT !.oldest = oldest]
    BY <1>1, <1>14 DEF UpdateOldestBlock, StageInv
  <2>2. After(c, n) \in 1 .. n
    BY DEF After
  <2>3. dbConfig'.current = c /\ dbConfig'.oldest = After(c, n)
    BY <1>1, <2>1 DEF TypeOK
  <2>4. PICK p \in 1 .. n : p = After(c, n)
    BY <2>2
  <2>5. DiskInv(n, x, c, p)
    BY <1>1, <2>1, <2>4, OldestSaved
  <2>6. DiskInv(n, x, c, p)'
    BY <2>1, <2>5, SameDisk
  <2>7. StageInv(n, x, c, p)'
    BY <1>5, <1>6, <2>1 DEF StageInv
  <2>8. Placed(n, x, c, p)'
    BY <2>3, <2>4, <2>6, <2>7 DEF Placed
  <2> QED
    BY <1>2, <2>8
<1>15. CASE OpenCurrent
  <2>1. current = c /\ c \in Blocks /\ (Sealed(c) => Saturated(n, x))
    BY <1>1, <1>15 DEF OpenCurrent, StageInv, CInv, ConfigInv
  <2>2. files' = files /\ pc' = "insert"
    BY <1>15, <2>1 DEF OpenCurrent, OpenFile
  <2>3. StageInv(n, x, c, o)'
    BY <1>5, <1>6, <2>1, <2>2 DEF StageInv
  <2> QED
    BY <1>3, <1>15, <2>2, <2>3 DEF OpenCurrent
<1>16. CASE InsertPoint
  BY <1>16, InsertRegular
<1>17. CASE InsertFails
  BY <1>3, <1>4, <1>17 DEF InsertFails
<1>18. CASE Crash
  BY <1>3, <1>4, <1>18 DEF Crash
<1>19. CASE Connect
  BY <1>19, ConnectRegular
<1>20. CASE RefuseToConnect
  BY <1>3, <1>4, <1>20 DEF RefuseToConnect
<1>21. CASE UNCHANGED vars
  <2>1. StageInv(n, x, c, o)'
    BY <1>1, <1>21 DEF vars, StageInv, Sealed, Unused, Blocks, Saturated, RingPages, RemainingSize, After
  <2> QED
    BY <1>3, <1>21, <2>1 DEF vars
<1> QED
  BY <1>7, <1>8, <1>9, <1>10, <1>11, <1>12, <1>13, <1>14, <1>15, <1>16, <1>17, <1>18,
     <1>19, <1>20, <1>21 DEF Next, Run, Step, Rotate, Restart

(* Files that have outgrown the disk: nothing is removed any more.         *)
LEMMA OverrunStays ==
    ASSUME Roomy, NoWrap, CInv, CInv', TornInv, [Next]_vars, Overrun
    PROVE  Overrun' /\ pc' # "remove"
<1> USE DEF diskVars, memoryVars, boundVars
<1>1. pc # "remove" /\ RemainingSize >= BlockSize
  BY WhatRemains DEF TornInv, CInv, TypeOK
<1>2. pc' # "remove"
  BY <1>1 DEF Next, Run, Step, Rotate, Restart, Store, UpdateCatalog, CreateNewBlock,
        RemoveOldest, RemoveFails, RefillOldest, UpdateCurrentBlock, UpdateOldestBlock,
        OpenCurrent, InsertPoint, InsertFails, Crash, Connect, RefuseToConnect, vars
<1>3. used \in Int /\ used' \in Int /\ used <= used'
  <2>1. used \in Int /\ used' \in Int
    BY DEF CInv, TypeOK
  <2>2. used' = used \/ used' = used + BtempPages \/ \E g \in Growth : used' = used + g
    BY <1>1 DEF Next, Run, Step, Rotate, Restart, Store, UpdateCatalog, CreateNewBlock,
          RemoveOldest, RemoveFails, RefillOldest, UpdateCurrentBlock, UpdateOldestBlock,
          OpenCurrent, InsertPoint, InsertFails, Crash, Connect, RefuseToConnect, vars,
          CopyBtemp
  <2>3. BtempPages \in Nat /\ Growth \subseteq Nat
    BY ConstantTypes
  <2> QED
    BY <2>1, <2>2, <2>3
<1>4. used * PageSize <= used' * PageSize
  BY <1>3, Numbers
<1>5. {used * PageSize, used' * PageSize, MainSize, DiskSize} \subseteq Int
  BY <1>3, Numbers
<1> QED
  BY <1>2, <1>4, <1>5 DEF Overrun

LEMMA StepTorn ==
    ASSUME Roomy, NoWrap, CInv, CInv', TornInv, [Next]_vars PROVE TornInv'
<1> USE DEF diskVars, memoryVars, boundVars
<1>1. CASE Overrun
  BY <1>1, OverrunStays DEF TornInv
<1>2. CASE ~Overrun
  <2>1. ArrivalInv /\ \E n \in Nat \ {0}, x \in {0, 1} : \E c, o \in 1 .. n : Placed(n, x, c, o)
    BY <1>2 DEF TornInv, Regular, Placed
  <2>2. PICK n \in Nat \ {0}, x \in {0, 1} : \E c, o \in 1 .. n : Placed(n, x, c, o)
    BY <2>1
  <2>3. PICK c \in 1 .. n, o \in 1 .. n : Placed(n, x, c, o)
    BY <2>2
  <2>4. PlacedNext
    BY <1>2, <2>1, <2>3, StepPlaced
  <2>5. ArrivalInv'
    BY <2>1, StepArrival
  <2>6. Regular'
    BY <2>4, <2>5 DEF Regular, PlacedNext, Placed
  <2>7. Overrun' => pc' # "remove"
    <3> SUFFICES ASSUME pc' = "remove" PROVE Overrun' <=> Overrun
      BY <1>2
    <3>1. used' = used
      BY DEF Next, Run, Step, Rotate, Restart, Store, UpdateCatalog, CreateNewBlock,
            RemoveOldest, RemoveFails, RefillOldest, UpdateCurrentBlock, UpdateOldestBlock,
            OpenCurrent, InsertPoint, InsertFails, Crash, Connect, RefuseToConnect, vars
    <3> QED
      BY <3>1 DEF Overrun
  <2> QED
    BY <2>6, <2>7 DEF TornInv
<1> QED
  BY <1>1, <1>2

LEMMA InitTorn == ASSUME Init PROVE TornInv
<1>1. /\ Blocks = {1} /\ files[1] = Fresh /\ 1 .. 1 = {1} /\ used = 2 * BtempPages
      /\ pc = "idle" /\ dbConfig = [current |-> 1, oldest |-> 1] /\ DOMAIN catalog = {1}
  BY DEF Init, Blocks
<1>2. Fresh.rows = {} /\ Fresh.pages = BtempPages
  BY DEF Fresh
<1>3. /\ SealedPages \in Nat /\ BtempPages \in Nat /\ BtempPages < SealedPages
  BY Numbers
<1>4. /\ Pages(1) = BtempPages /\ Excess(1) = 0 /\ Lack(1) = SealedPages - BtempPages
      /\ RingPages(1, 0) = BtempPages + SealedPages
  BY <1>1, <1>2, <1>3 DEF Pages, Excess, Lack, RingPages
<1>5. WholeInv(1, 0, 1, 1)
  BY <1>1 DEF WholeInv
<1>6. AgeInv(1, 1)
  BY <1>1, <1>2 DEF AgeInv, Older
<1>7. FirstRound(1, 0, 1, 1)
  BY <1>1, <1>2, <1>3, <1>4 DEF FirstRound
<1>8. RoomInv(1, 0, 1)
  <2> DEFINE e == [i \in 0 .. 1 |-> 0]
  <2>1. Adds(e, 1)
    BY <1>1, <1>4 DEF Adds
  <2>2. RingLack(1, 1) = SealedPages - BtempPages
    BY <1>3, <1>4 DEF RingLack, After
  <2>3. used = RingPages(1, 0) + e[1] - RingLack(1, 1)
    BY <1>1, <1>3, <1>4, <2>2
  <2> QED
    BY <2>1, <2>3 DEF RoomInv
<1>9. DiskInv(1, 0, 1, 1) /\ StageInv(1, 0, 1, 1)
  BY <1>1, <1>5, <1>6, <1>7, <1>8 DEF DiskInv, StageInv
<1>10. ArrivalInv
  BY <1>1, <1>2 DEF ArrivalInv
<1>11. Regular
  BY <1>1, <1>9, <1>10 DEF Regular
<1> QED
  BY <1>1, <1>11 DEF TornInv

(* While no crash has fallen inside a recycling, DB_Config names a full    *)
(* block as the oldest, or the one being written if no other has samples.  *)
IntactInv ==
    ~Overrun /\ ~torn /\ pc \notin Recycling =>
        IF dbConfig.oldest = dbConfig.current
        THEN \A b \in Blocks \ {dbConfig.current} : files[b].rows = {}
        ELSE Sealed(dbConfig.oldest)

(* Steps that keep what DB_Config says and remove no block.                *)
LEMMA KeepsIntact ==
    ASSUME CInv, CInv', IntactInv, ~Overrun, ~torn, pc \notin Recycling,
           dbConfig' = dbConfig,
           \A b \in Blocks : b \in Blocks' /\ files'[b].pages >= files[b].pages,
           \A b \in Blocks' \ {dbConfig.current} :
               (b \in Blocks /\ files'[b] = files[b]) \/ files'[b].rows = {}
    PROVE  IntactInv'
<1>1. CASE dbConfig.oldest = dbConfig.current
  BY <1>1 DEF IntactInv
<1>2. CASE dbConfig.oldest # dbConfig.current
  <2> DEFINE o == dbConfig.oldest
  <2>1. o \in Blocks /\ files[o].pages >= SealedPages
    BY <1>2 DEF IntactInv, Sealed
  <2>2. o \in Blocks' /\ files'[o].pages >= files[o].pages
    BY <2>1
  <2>3. files[o].pages \in Nat /\ files'[o].pages \in Nat /\ SealedPages \in Nat
    BY <2>1, <2>2, Numbers DEF CInv, TypeOK, File
  <2> QED
    BY <1>2, <2>1, <2>2, <2>3 DEF IntactInv, Sealed
<1> QED
  BY <1>1, <1>2

LEMMA StepIntact ==
    ASSUME Roomy, NoWrap, CInv, CInv', TornInv, IntactInv, [Next]_vars PROVE IntactInv'
<1> USE DEF diskVars, memoryVars, boundVars
<1>1. SUFFICES ASSUME ~Overrun', ~torn', pc' \notin Recycling PROVE IntactInv'
  BY DEF IntactInv
<1>2. ~Overrun
  BY <1>1, OverrunStays
<1>3. ~torn /\ (pc \in Recycling => ~Crash)
  <2>1. CASE Crash
    BY <1>1, <2>1, Zenon DEF Crash
  <2>2. CASE ~Crash
    <3>1. torn' = torn
      BY <2>2 DEF Next, Run, Step, Rotate, Restart, Store, UpdateCatalog, CreateNewBlock,
            RemoveOldest, RemoveFails, RefillOldest, UpdateCurrentBlock, UpdateOldestBlock,
            OpenCurrent, InsertPoint, InsertFails, Connect, RefuseToConnect, vars
    <3> QED
      BY <1>1, <2>2, <3>1
  <2> QED
    BY <2>1, <2>2
<1>4. PICK n \in Nat \ {0}, x \in {0, 1} : \E c, o \in 1 .. n : Placed(n, x, c, o)
  BY <1>2 DEF TornInv, Regular, Placed
<1>5. PICK c \in 1 .. n, o \in 1 .. n : Placed(n, x, c, o)
  BY <1>4
<1>6. /\ c = dbConfig.current /\ o = dbConfig.oldest
      /\ WholeInv(n, x, c, o) /\ StageInv(n, x, c, o)
  BY <1>5 DEF Placed, DiskInv
<1>7. /\ dbConfig \in [current : Nat \ {0}, oldest : Nat \ {0}]
      /\ \A b \in Blocks : files[b].pages \in Nat
  BY DEF CInv, TypeOK, File
<1>8. CASE pc = "saveCurrent" /\ UpdateCurrentBlock
  <2> USE <1>8 DEF UpdateCurrentBlock
  <2>1. current = c + 1 /\ Unused(current) /\ Sealed(c)
        /\ (current = o \/ (c = n /\ o = 1 /\ x = 1))
    BY <1>6 DEF StageInv
  <2>2. o # c => Sealed(o)
    BY <1>2, <1>3, <1>6 DEF IntactInv, Recycling
  <2>3. ~Sealed(current)
    BY <2>1, <1>7, Numbers DEF Sealed, Unused
  <2>4. Sealed(o) /\ o # current
    BY <2>1, <2>2, <2>3
  <2>5. dbConfig'.current = current /\ dbConfig'.oldest = o
    BY <1>6, <1>7
  <2> QED
    BY <2>4, <2>5 DEF IntactInv, Sealed, Blocks
<1>9. CASE UpdateOldestBlock
  <2> USE <1>9 DEF UpdateOldestBlock
  <2>1. o = c /\ oldest = After(c, n)
    BY <1>6 DEF StageInv
  <2>2. dbConfig'.current = c /\ dbConfig'.oldest = oldest
    BY <1>6, <1>7
  <2>3. CASE oldest = c
    <3>1. n = 1
      BY <2>1, <2>3 DEF After
    <3>2. \A b \in Blocks \ {c} : files[b].rows = {}
      BY <1>6, <3>1 DEF WholeInv, Unused
    <3> QED
      BY <2>2, <2>3, <3>2 DEF IntactInv, Blocks
  <2>4. CASE oldest # c
    <3>1. oldest \in 1 .. n
      BY <2>1 DEF After
    <3>2. Sealed(oldest)
      BY <1>6, <2>1, <2>4, <3>1 DEF WholeInv
    <3> QED
      BY <2>2, <2>4, <3>2 DEF IntactInv, Sealed, Blocks
  <2> QED
    BY <2>3, <2>4
<1>10. CASE InsertPoint
  <2> USE <1>10
  <2>1. PICK g \in Growth : RowAdded(g)
    BY RowStored
  <2>2. handle = dbConfig.current /\ pc \notin Recycling /\ dbConfig' = dbConfig
    BY DEF CInv, ConfigInv, Steady, InsertPoint, Recycling
  <2>3. g \in Nat
    BY ConstantTypes
  <2>4. \A b \in Blocks : b \in Blocks' /\ files'[b].pages >= files[b].pages
    BY <1>7, <2>1, <2>3 DEF RowAdded, OnlyChanges
  <2>5. \A b \in Blocks' \ {handle} : b \in Blocks /\ files'[b] = files[b]
    BY <2>1 DEF RowAdded, OnlyChanges
  <2> QED
    BY <1>2, <1>3, <2>2, <2>4, <2>5, KeepsIntact
<1>11. CASE CreateNewBlock \/ OpenCurrent \/ Connect
  <2>1. /\ \A b \in Blocks : b \in Blocks' /\ files'[b] = files[b]
        /\ \A b \in Blocks' : (b \in Blocks /\ files'[b] = files[b]) \/ files'[b].rows = {}
    BY <1>11, FreshFiles DEF CreateNewBlock, OpenCurrent, Connect, CopyBtemp, OpenFile, Put, Blocks
  <2>2. dbConfig' = dbConfig /\ pc \notin Recycling
    BY <1>11 DEF CreateNewBlock, OpenCurrent, Connect, Recycling
  <2> QED
    BY <1>2, <1>3, <1>7, <2>1, <2>2, KeepsIntact
<1>12. CASE (\E ts \in TimeStamp : Store(ts)) \/ UpdateCatalog \/ RemoveFails \/ InsertFails
            \/ Crash \/ RefuseToConnect \/ UNCHANGED vars
  <2>1. files' = files /\ dbConfig' = dbConfig /\ pc \notin Recycling
    BY <1>1, <1>3, <1>12 DEF Store, UpdateCatalog, RemoveFails, InsertFails, Crash,
          RefuseToConnect, Recycling, vars
  <2> QED
    BY <1>2, <1>3, <1>7, <2>1, KeepsIntact DEF Blocks
<1>13. ~RemoveOldest /\ ~RefillOldest
       /\ (UpdateCurrentBlock => pc = "saveCurrent")
  BY <1>1 DEF RemoveOldest, RefillOldest, UpdateCurrentBlock, Recycling
<1> QED
  BY <1>8, <1>9, <1>10, <1>11, <1>12, <1>13 DEF Next, Run, Step, Rotate, Restart

(* For every size of disk that holds main.db and btemp.db, where an INSERT *)
(* adds at most one page, whatever removals fail and wherever the process  *)
(* dies, unless inside the recycling of a block: the block                 *)
(* deleteOldestBlock removes is there, and holds the oldest samples of all.*)
THEOREM OldestIsEvictedUnlessTorn ==
    ASSUME Roomy PROVE Spec /\ []NoWrap => []EvictsOldestUnlessTorn
<1>1. Init => TornInv /\ IntactInv
  <2>1. Init => IntactInv
    BY FreshFiles DEF Init, IntactInv, Blocks
  <2> QED
    BY <2>1, InitTorn
<1>2. NoWrap /\ CInv /\ CInv' /\ TornInv /\ IntactInv /\ [Next]_vars => TornInv' /\ IntactInv'
  BY StepTorn, StepIntact
<1>3. CInv /\ TornInv /\ IntactInv => EvictsOldestUnlessTorn
  <2> SUFFICES ASSUME CInv, TornInv, IntactInv, pc = "remove", ~torn
               PROVE  oldest \in Blocks /\ \A b \in Blocks \ {oldest} : Older(oldest, b)
    BY DEF EvictsOldestUnlessTorn
  <2>1. ~Overrun /\ pc \notin Recycling
    BY DEF TornInv, Recycling
  <2>2. PICK n \in Nat \ {0}, x \in {0, 1} : \E c, o \in 1 .. n :
           c = dbConfig.current /\ o = dbConfig.oldest /\ DiskInv(n, x, c, o)
    BY <2>1 DEF TornInv, Regular
  <2>3. PICK c \in 1 .. n, o \in 1 .. n :
           c = dbConfig.current /\ o = dbConfig.oldest /\ DiskInv(n, x, c, o)
    BY <2>2
  <2>4. c = current /\ o = oldest /\ current \in Blocks
    BY <2>3 DEF CInv, ConfigInv, Steady
  <2>5. CASE o = c
    BY <2>1, <2>3, <2>4, <2>5 DEF IntactInv, Older
  <2>6. CASE o # c
    <3>1. /\ o = After(c, n) /\ Blocks \subseteq 1 .. n + x
          /\ x = 1 => Unused(n + 1)
      BY <2>3, <2>6 DEF DiskInv, WholeInv
    <3>2. oldest \in Blocks
      BY <2>1, <2>3, <2>4, <2>6 DEF IntactInv, Sealed
    <3>3. ASSUME NEW b \in Blocks \ {oldest} PROVE Older(oldest, b)
      <4>1. CASE b \in 1 .. n
        <5>1. RingFrom(c, n, o) < RingFrom(c, n, b)
          BY <2>4, <2>6, <3>1, <4>1 DEF RingFrom, After
        <5> QED
          BY <2>3, <2>4, <3>2, <4>1, <5>1 DEF DiskInv, AgeInv
      <4>2. CASE b \notin 1 .. n
        <5>1. x = 1 /\ b = n + 1
          BY <3>1, <4>2
        <5> QED
          BY <3>1, <5>1 DEF Unused, Older
      <4> QED
        BY <4>1, <4>2
    <3> QED
      BY <3>2, <3>3
  <2> QED
    BY <2>5, <2>6
<1> QED
  BY <1>1, <1>2, <1>3, InvariantC, PTL DEF Spec
=============================================================================
