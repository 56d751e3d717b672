------------------------- MODULE HistorianQueryProofs -------------------------
(***************************************************************************)
(* Proofs about HistorianQuery for every value of its constants: an answer *)
(* has every sample it should have, and has it once, as long as no two     *)
(* queries overlap.  (With two of them at work on the one connection       *)
(* m_consultBlockDB both statements are false.)  Nothing is assumed about  *)
(* the storage thread, which may recycle blocks in the middle of a query.  *)
(***************************************************************************)
EXTENDS HistorianQuery, BlockStoreProofs, FiniteSetTheorems

(* No query begins before the one before it has been answered. *)
OneAtATime ==
    \A r, s \in Readers : query[r].at # "idle" /\ query[s].at # "idle" => r = s

-----------------------------------------------------------------------------
(* BlocksInTimeRange: a finite set of blocks can be put in the order of    *)
(* ORDER BY, and the result has every one of them, once.                   *)
LEMMA ByBeginIsTotal ==
    ASSUME TypeOK, NEW b \in DOMAIN catalog, NEW c \in DOMAIN catalog
    PROVE  /\ ~ByBegin(b, b)
           /\ b = c \/ ByBegin(b, c) \/ ByBegin(c, b)
           /\ ~(ByBegin(b, c) /\ ByBegin(c, b))
           /\ \A d \in DOMAIN catalog : ByBegin(b, c) /\ ByBegin(c, d) => ByBegin(b, d)
<1>1. \A x \in DOMAIN catalog : x \in Nat /\ catalog[x].begin \in Nat
  BY DEF TypeOK
<1> QED
  BY <1>1 DEF ByBegin

LEMMA OrderExists ==
    ASSUME TypeOK, NEW S \in SUBSET DOMAIN catalog, IsFiniteSet(S)
    PROVE  \E s \in [1 .. Cardinality(S) -> S] :
              \A i, j \in DOMAIN s : i < j => ByBegin(s[i], s[j])
<1> DEFINE n         == Cardinality(S)
           before(b) == {c \in S : ByBegin(c, b)}
           count(b)  == Cardinality(before(b))
           place     == [b \in S |-> count(b) + 1]
<1>1. n \in Nat /\ IsFiniteSet(1 .. n) /\ Cardinality(1 .. n) = n
  <2>1. n \in Nat
    BY FS_CardinalityType
  <2>2. 0 \in Int /\ 1 \in Int /\ n \in Int /\ (IF 1 > n THEN 0 ELSE n - 1 + 1) = n
    BY <2>1
  <2> QED
    BY <2>1, <2>2, FS_Interval
<1>2. ASSUME NEW b \in S
      PROVE  /\ IsFiniteSet(before(b)) /\ b \notin before(b)
             /\ count(b) \in Nat /\ count(b) + 1 <= n
  <2>1. before(b) \in SUBSET S /\ b \notin before(b)
    BY ByBeginIsTotal
  <2>2. IsFiniteSet(before(b)) /\ Cardinality(before(b)) \in Nat
    BY <2>1, FS_Subset, FS_CardinalityType
  <2>3. before(b) \cup {b} \in SUBSET S
    BY <2>1
  <2>4. Cardinality(before(b) \cup {b}) = Cardinality(before(b)) + 1
    BY <2>1, <2>2, FS_AddElement
  <2>5. Cardinality(before(b) \cup {b}) <= n
    BY <2>3, FS_Subset
  <2> QED
    BY <2>1, <2>2, <2>4, <2>5
<1>3. ASSUME NEW b \in S, NEW c \in S, ByBegin(c, b)
      PROVE  count(c) < count(b)
  <2>1. before(c) \cup {c} \in SUBSET before(b)
    BY <1>3, ByBeginIsTotal
  <2>2. Cardinality(before(c) \cup {c}) = Cardinality(before(c)) + 1
    BY <1>2, FS_AddElement
  <2>3. Cardinality(before(c) \cup {c}) <= Cardinality(before(b))
    BY <1>2, <2>1, FS_Subset
  <2>4. count(c) \in Nat /\ count(b) \in Nat
    BY <1>2
  <2> QED
    BY <2>2, <2>3, <2>4
<1>4. \A b \in S : count(b) \in Nat /\ count(b) + 1 <= n
  BY <1>2
<1>5. \A b, c \in S : ByBegin(c, b) => count(c) < count(b)
  BY <1>3
<1> HIDE DEF count
<1>6. place \in [S -> 1 .. n]
  BY <1>1, <1>4
<1>7. \A b, c \in S : ByBegin(c, b) => place[c] < place[b]
  BY <1>4, <1>5
<1>8. \A b, c \in S : place[b] = place[c] => b = c
  BY <1>6, <1>7, ByBeginIsTotal
<1>9. place \in Surjection(S, 1 .. n)
  <2>1. place \in Injection(S, 1 .. n)
    BY <1>6, <1>8 DEF Injection, IsInjective
  <2> QED
    BY <1>1, <2>1, FS_Injection
<1>10. \A i \in 1 .. n : \E b \in S : place[b] = i
  BY <1>9 DEF Surjection
<1> DEFINE s == [i \in 1 .. n |-> CHOOSE b \in S : place[b] = i]
<1>11. s \in [1 .. n -> S] /\ \A i \in 1 .. n : place[s[i]] = i
  BY <1>10
<1>12. ASSUME NEW i \in 1 .. n, NEW j \in 1 .. n, i < j
       PROVE  ByBegin(s[i], s[j])
  <2>1. s[i] \in S /\ s[j] \in S /\ place[s[i]] < place[s[j]]
    BY <1>11, <1>12
  <2> HIDE DEF s, place
  <2>2. s[i] # s[j] /\ ~ByBegin(s[j], s[i])
    BY <1>1, <1>6, <1>7, <2>1
  <2> QED
    BY <2>1, <2>2, ByBeginIsTotal
<1> HIDE DEF s
<1> QED
  BY <1>11, <1>12

LEMMA OrderedBlocks ==
    ASSUME TypeOK, NEW S \in SUBSET DOMAIN catalog, IsFiniteSet(S)
    PROVE  /\ InOrderOfBegin(S) \in Seq(S)
           /\ \A i, j \in DOMAIN InOrderOfBegin(S) :
                 i # j => InOrderOfBegin(S)[i] # InOrderOfBegin(S)[j]
           /\ \A b \in S : \E i \in DOMAIN InOrderOfBegin(S) : InOrderOfBegin(S)[i] = b
<1> DEFINE n == Cardinality(S)
           s == InOrderOfBegin(S)
<1>1. s \in [1 .. n -> S] /\ \A i, j \in DOMAIN s : i < j => ByBegin(s[i], s[j])
  BY OrderExists DEF InOrderOfBegin
<1>2. n \in Nat /\ IsFiniteSet(1 .. n) /\ Cardinality(1 .. n) = n
  <2>1. n \in Nat
    BY FS_CardinalityType
  <2>2. 1 \in Int /\ n \in Int /\ (IF 1 > n THEN 0 ELSE n - 1 + 1) = n
    BY <2>1
  <2> QED
    BY <2>1, <2>2, FS_Interval
<1> HIDE DEF s, n
<1>3. ASSUME NEW i \in 1 .. n, NEW j \in 1 .. n, i # j PROVE s[i] # s[j]
  <2>1. i < j \/ j < i
    BY <1>2, <1>3
  <2>2. ByBegin(s[i], s[j]) \/ ByBegin(s[j], s[i])
    BY <1>1, <2>1
  <2>3. s[i] \in DOMAIN catalog /\ s[j] \in DOMAIN catalog
    BY <1>1
  <2> QED
    BY <2>2, <2>3, ByBeginIsTotal
<1>4. s \in Injection(1 .. n, S)
  BY <1>1, <1>3 DEF Injection, IsInjective
<1>5. s \in Surjection(1 .. n, S)
  BY <1>2, <1>4, FS_Injection DEF n
<1>6. \A b \in S : \E i \in DOMAIN s : s[i] = b
  BY <1>1, <1>5 DEF Surjection
<1>7. s \in Seq(S)
  BY <1>1, <1>2
<1> QED
  BY <1>1, <1>3, <1>6, <1>7 DEF s

-----------------------------------------------------------------------------
(* The inductive invariant.  Samples are numbered in order of arrival, and *)
(* no number above the last one stored is in a file, on the shared         *)
(* connection, due, or found.                                              *)
NoneAhead(rows) == \A x \in rows : x.n <= LastStored
NumberInv ==
    /\ pc # "idle" => pending.n = arrived
    /\ \A b \in Blocks : NoneAhead(files[b].rows)
    /\ NoneAhead(consult.file.rows)
    /\ \A r \in Readers : NoneAhead(due[r])
    /\ \A r \in Readers : \A i \in DOMAIN query[r].found : NoneAhead(query[r].found[i])

(* A sample is in one file only, the unlinked one included. *)
ApartInv ==
    /\ \A b, c \in Blocks : b # c => files[b].rows \cap files[c].rows = {}
    /\ consult.gone =>
          \A b \in Blocks \ {consult.block} : consult.file.rows \cap files[b].rows = {}

(* The Catalog is finite, has a highest block and has the block that is    *)
(* full; and block 1 is both the current and the oldest one only while     *)
(* there is no other.                                                      *)
CatalogShape ==
    /\ IsFiniteSet(DOMAIN catalog) /\ 1 \in DOMAIN catalog
    /\ \E m \in DOMAIN catalog : \A d \in DOMAIN catalog : d <= m
    /\ pc \in {"create", "remove", "refill"} => current \in DOMAIN catalog
    /\ current = 1 /\ oldest = 1 => Blocks \subseteq {1} /\ DOMAIN catalog = {1}

QueryTypes ==
    /\ consult \in [block : Nat, gone : BOOLEAN, file : File]
    /\ query \in [Readers -> [at : {"idle", "mount", "fetch", "done"},
                              range : [begin : Nat, end : Nat],
                              todo : Seq(Nat), found : Seq(SUBSET Point)]]
    /\ due \in [Readers -> SUBSET Point]
    /\ pc \notin {"down", "unconfigured"}

(* The blocks still to read, and the connection between mount and fetch. *)
TodoInv(q) ==
    /\ \A i, j \in DOMAIN q.todo : i # j => q.todo[i] # q.todo[j]
    /\ \A i \in DOMAIN q.todo : q.todo[i] \in DOMAIN catalog
    /\ q.at = "fetch" =>
          /\ consult.block = q.todo[1]
          /\ consult.gone \/ consult.block \in Blocks
    /\ q.at \in {"mount", "fetch"} <=> q.todo # << >>

(* No sample was found twice, or is in a block that is still to be read. *)
FoundInv(q) ==
    /\ \A i, j \in DOMAIN q.found : i # j => q.found[i] \cap q.found[j] = {}
    /\ \A i \in DOMAIN q.found, k \in DOMAIN q.todo :
          q.todo[k] \in Blocks => q.found[i] \cap files[q.todo[k]].rows = {}
    /\ q.at = "fetch" /\ consult.gone =>
          \A i \in DOMAIN q.found : q.found[i] \cap consult.file.rows = {}

(* Every sample that is due and still stored was found or is in a block    *)
(* still to be read: not in one refilled since the connection was opened   *)
(* on it.                                                                  *)
StillRead(q, b) ==
    \E k \in DOMAIN q.todo : /\ q.todo[k] = b
                             /\ ~(q.at = "fetch" /\ consult.gone /\ k = 1)
DueInv(q, d) ==
    /\ \A x \in d : q.range.begin <= x.ts /\ x.ts <= q.range.end
    /\ \A b \in Blocks : \A x \in d \cap files[b].rows :
          StillRead(q, b) \/ \E i \in DOMAIN q.found : x \in q.found[i]
    /\ q.at = "idle" => d = {}

AskInv == \A r \in Readers : /\ TodoInv(query[r])
                             /\ FoundInv(query[r])
                             /\ DueInv(query[r], due[r])

QueryInv == CInv /\ QueryTypes /\ NumberInv /\ ApartInv /\ CatalogShape /\ AskInv

-----------------------------------------------------------------------------
LEMMA InitQueryInv == QueryInit => QueryInv
<1> SUFFICES ASSUME QueryInit PROVE QueryInv
  OBVIOUS
<1> USE DEF QueryInit
<1>1. CInv
  BY InitCInv
<1>2. Blocks = {1} /\ files[1] = Fresh /\ Fresh.rows = {} /\ Empty.rows = {}
  BY FreshFiles DEF Blocks, Init
<1>3. DOMAIN catalog = {1} /\ pc = "idle" /\ arrived = 0
  BY DEF Init
<1>4. QueryTypes
  BY <1>3, FreshFiles DEF QueryTypes, NoQuery, NoRange, GoodFile, Closed
<1>5. NumberInv
  BY <1>2, <1>3 DEF NumberInv, NoneAhead, NoQuery, Closed
<1>6. ApartInv
  BY <1>2 DEF ApartInv, Closed
<1>7. CatalogShape
  <2>1. IsFiniteSet({1})
    BY FS_Singleton
  <2> QED
    BY <1>2, <1>3, <2>1 DEF CatalogShape
<1>8. AskInv
  BY <1>2, <1>3 DEF AskInv, TodoInv, FoundInv, DueInv, NoQuery
<1> QED
  BY <1>1, <1>4, <1>5, <1>6, <1>7, <1>8 DEF QueryInv

(* How a step changes the files: each keeps its rows, may get the sample   *)
(* that is being stored, and is empty when it is new.                      *)
Evolves ==
    /\ LastStored \in Int /\ LastStored' \in Int /\ LastStored <= LastStored'
    /\ \A b \in Blocks' :
          \/ b \in Blocks /\ files'[b].rows = files[b].rows
          \/ b \notin Blocks /\ files'[b].rows = {}
          \/ /\ b \in Blocks /\ b = handle
             /\ files'[b].rows = files[b].rows \cup {pending}
             /\ pending.n = LastStored' /\ LastStored < LastStored'

LEMMA RunEvolves ==
    ASSUME CInv, NumberInv, QueryTypes, Run
    PROVE  /\ Evolves
           /\ pc' \notin {"down", "unconfigured"}
           /\ pc' # "idle" => pending'.n = arrived'
           /\ Blocks \subseteq Blocks' \/ RemoveOldest
           /\ DOMAIN catalog \subseteq DOMAIN catalog'
<1>0. /\ arrived \in Nat
      /\ pc # "idle" => pending.n = arrived
      /\ pc \notin {"down", "unconfigured"}
  BY DEF CInv, TypeOK, NumberInv, QueryTypes
<1> DEFINE SameRows ==
              \A b \in Blocks' : IF b \in Blocks THEN files'[b].rows = files[b].rows
                                 ELSE files'[b].rows = {}
<1>1. ASSUME SameRows, arrived' = arrived, pending' = pending, pc # "idle", pc' # "idle"
      PROVE  /\ Evolves
             /\ pc' # "idle" => pending'.n = arrived'
  <2>1. LastStored = arrived - 1 /\ LastStored' = arrived - 1
    BY <1>1 DEF LastStored
  <2>2. arrived - 1 \in Int /\ arrived - 1 <= arrived - 1
    BY <1>0
  <2>3. Evolves
    BY <1>1, <2>1, <2>2 DEF Evolves
  <2> QED
    BY <1>0, <1>1, <2>3
<1>2. ASSUME NEW b \in Nat \ {0}, NEW c \in {Fresh, Empty},
             files' = IF b \in Blocks THEN files ELSE Put(files, b, c)
      PROVE  Blocks \subseteq Blocks' /\ SameRows
  BY <1>2, FreshFiles DEF Blocks, Put
<1>3. ASSUME files' = files PROVE Blocks' = Blocks /\ SameRows
  BY <1>3 DEF Blocks
<1>4. current \in Nat \ {0} /\ current + 1 \in Nat \ {0} /\ oldest \in Nat \ {0}
  BY DEF CInv, TypeOK
<1> HIDE DEF SameRows
<1> USE DEF diskVars, memoryVars, boundVars
<1>5. ASSUME NEW ts \in TimeStamp, Store(ts)
      PROVE  /\ Evolves
             /\ pc' \notin {"down", "unconfigured"}
             /\ pc' # "idle" => pending'.n = arrived'
             /\ Blocks \subseteq Blocks'
             /\ DOMAIN catalog \subseteq DOMAIN catalog'
  <2> USE <1>5 DEF Store
  <2>1. SameRows /\ Blocks' = Blocks
    BY <1>3
  <2>2. pending'.n = arrived' /\ pc' \in {"catalog", "insert"} /\ arrived' = arrived + 1
    OBVIOUS
  <2>3. LastStored = arrived /\ LastStored' = arrived' - 1
    BY <2>2 DEF LastStored
  <2>4. arrived \in Int /\ arrived' - 1 = arrived /\ arrived <= arrived
    BY <1>0, <2>2
  <2>5. Evolves
    BY <2>1, <2>3, <2>4 DEF SameRows, Evolves
  <2> QED
    BY <2>1, <2>2, <2>5
<1>6. CASE UpdateCatalog
  <2>1. DOMAIN catalog \subseteq DOMAIN catalog' /\ files' = files /\ pc' \in {"create", "remove"}
    BY <1>6 DEF UpdateCatalog, Put
  <2> QED
    BY <1>1, <1>3, <1>6, <2>1 DEF UpdateCatalog
<1>7. CASE CreateNewBlock
  <2>1. files' = IF current + 1 \in Blocks THEN files ELSE Put(files, current + 1, Fresh)
    BY <1>7 DEF CreateNewBlock, CopyBtemp
  <2> QED
    BY <1>1, <1>2, <1>4, <1>7, <2>1 DEF CreateNewBlock
<1>8. CASE RemoveOldest
  <2>1. SameRows
    BY <1>8 DEF RemoveOldest, Blocks, Drop, SameRows
  <2> QED
    BY <1>1, <1>8, <2>1 DEF RemoveOldest
<1>9. CASE RemoveFails
  BY <1>1, <1>3, <1>9 DEF RemoveFails
<1>10. CASE RefillOldest
  <2>1. files' = IF oldest \in Blocks THEN files ELSE Put(files, oldest, Fresh)
    BY <1>10 DEF RefillOldest, CopyBtemp
  <2> QED
    BY <1>1, <1>2, <1>4, <1>10, <2>1 DEF RefillOldest
<1>11. CASE UpdateCurrentBlock
  BY <1>1, <1>3, <1>11 DEF UpdateCurrentBlock
<1>12. CASE UpdateOldestBlock
  BY <1>1, <1>3, <1>12 DEF UpdateOldestBlock
<1>13. CASE OpenCurrent
  <2>1. files' = IF current \in Blocks THEN files ELSE Put(files, current, Empty)
    BY <1>13 DEF OpenCurrent, OpenFile
  <2> QED
    BY <1>1, <1>2, <1>4, <1>13, <2>1 DEF OpenCurrent
<1>14. CASE InsertPoint
  <2> USE <1>14 DEF InsertPoint
  <2>1. /\ Blocks' = Blocks
        /\ \A b \in Blocks : b # handle => files'[b] = files[b]
    BY DEF Blocks
  <2>2. files'[handle].rows = files[handle].rows \cup {pending} /\ handle \in Blocks
    <3>1. handle \in Blocks /\ files[handle] \in File
      BY DEF CInv, ConfigInv, BlocksInv, GoodFile
    <3>2. PICK g \in Growth : files' = [files EXCEPT ![handle].rows = @ \cup {pending},
                                                     ![handle].pages = @ + g]
      OBVIOUS
    <3>3. files'[handle] = [files[handle] EXCEPT !.rows = @ \cup {pending}, !.pages = @ + g]
      BY <3>1, <3>2 DEF Blocks
    <3> QED
      BY <3>1, <3>3 DEF File
  <2>3. LastStored = arrived - 1 /\ LastStored' = arrived /\ pending.n = arrived
    BY <1>0 DEF LastStored
  <2>4. arrived \in Int /\ arrived - 1 \in Int /\ arrived - 1 < arrived /\ arrived - 1 <= arrived
    BY <1>0
  <2>5. Evolves
    BY <2>1, <2>2, <2>3, <2>4 DEF Evolves
  <2> QED
    BY <2>1, <2>5
<1>15. CASE InsertFails
  <2> USE <1>15 DEF InsertFails
  <2>1. SameRows /\ Blocks' = Blocks
    BY <1>3
  <2>2. LastStored = arrived - 1 /\ LastStored' = arrived
    BY DEF LastStored
  <2>3. arrived \in Int /\ arrived - 1 \in Int /\ arrived - 1 <= arrived
    BY <1>0
  <2>4. Evolves
    BY <2>1, <2>2, <2>3 DEF SameRows, Evolves
  <2> QED
    BY <2>1, <2>4
<1> QED
  BY <1>5, <1>6, <1>7, <1>8, <1>9, <1>10, <1>11, <1>12, <1>13, <1>14, <1>15
     DEF Run, Step, Rotate

-----------------------------------------------------------------------------
(* The Catalog and the first block, step by step of the storage thread. *)
LEMMA RunCatalogShape ==
    ASSUME CInv, QueryTypes, CatalogShape, Run
    PROVE  CatalogShape'
<1> USE DEF diskVars, memoryVars, boundVars
<1>0. current \in Nat \ {0} /\ oldest \in Nat \ {0} /\ DOMAIN catalog \subseteq Nat \ {0}
  BY DEF CInv, TypeOK
<1>1. PICK m \in DOMAIN catalog : \A d \in DOMAIN catalog : d <= m
  BY DEF CatalogShape
<1>2. ASSUME Blocks' = Blocks, catalog' = catalog, current' = current, oldest' = oldest,
             pc' \in {"create", "remove", "refill"} => pc \in {"create", "remove", "refill"}
      PROVE  CatalogShape'
  BY <1>2 DEF CatalogShape
<1>3. ASSUME files' = files PROVE Blocks' = Blocks
  BY <1>3 DEF Blocks
<1>4. ASSUME NEW b, NEW c, files' = IF b \in Blocks THEN files ELSE Put(files, b, c)
      PROVE  Blocks' = Blocks \cup {b}
  BY <1>4 DEF Blocks, Put
<1>5. ASSUME NEW ts \in TimeStamp, Store(ts) PROVE CatalogShape'
  BY <1>2, <1>3, <1>5 DEF Store
<1>6. CASE UpdateCatalog
  <2> USE <1>6 DEF UpdateCatalog
  <2>1. DOMAIN catalog' = DOMAIN catalog \cup {current} /\ Blocks' = Blocks
    BY <1>3 DEF Put
  <2>2. IsFiniteSet(DOMAIN catalog')
    BY <2>1, FS_AddElement DEF CatalogShape
  <2>3. \E n \in DOMAIN catalog' : \A d \in DOMAIN catalog' : d <= n
    <3>1. CASE current <= m
      BY <1>0, <1>1, <2>1, <3>1
    <3>2. CASE m < current
      <4>1. current \in DOMAIN catalog' /\ \A d \in DOMAIN catalog' : d <= current
        BY <1>0, <1>1, <2>1, <3>2
      <4> QED
        BY <4>1
    <3> QED
      BY <1>0, <1>1, <3>1, <3>2
  <2> QED
    BY <2>1, <2>2, <2>3 DEF CatalogShape
<1>7. CASE CreateNewBlock
  <2>1. current' # 1 /\ catalog' = catalog /\ pc' = "saveCurrent"
    BY <1>0, <1>7 DEF CreateNewBlock
  <2> QED
    BY <2>1 DEF CatalogShape
<1>8. CASE RemoveOldest
  <2>1. Blocks' \subseteq Blocks /\ pc = "remove" /\ pc' = "refill"
    BY <1>8 DEF RemoveOldest, Blocks, Drop
  <2> QED
    BY <1>8, <2>1 DEF RemoveOldest, CatalogShape
<1>9. CASE RemoveFails
  BY <1>2, <1>3, <1>9 DEF RemoveFails
<1>10. CASE RefillOldest
  <2> USE <1>10 DEF RefillOldest
  <2>1. files' = IF oldest \in Blocks THEN files ELSE Put(files, oldest, Fresh)
    BY DEF CopyBtemp
  <2>2. Blocks' = Blocks \cup {oldest}
    BY <1>4, <2>1
  <2>3. MaxBlockNumber = m
    <3>1. DOMAIN catalog \in SUBSET Int
      BY <1>0
    <3> QED
      BY <1>1, <3>1, MaxIsUpperEnd DEF MaxBlockNumber
  <2>4. ASSUME current' = 1, oldest' = 1
        PROVE  Blocks' \subseteq {1} /\ DOMAIN catalog' = {1}
    <3>1. oldest = 1 /\ m = 1
      BY <1>0, <2>3, <2>4 DEF NextOldest
    <3>2. DOMAIN catalog = {1}
      BY <1>0, <1>1, <3>1
    <3>3. current = 1
      BY <3>2 DEF CatalogShape
    <3> QED
      BY <2>2, <3>1, <3>2, <3>3 DEF CatalogShape
  <2> QED
    BY <2>4 DEF CatalogShape
<1>11. CASE UpdateCurrentBlock
  BY <1>2, <1>3, <1>11 DEF UpdateCurrentBlock
<1>12. CASE UpdateOldestBlock
  BY <1>2, <1>3, <1>12 DEF UpdateOldestBlock
<1>13. CASE OpenCurrent
  <2>1. files' = IF current \in Blocks THEN files ELSE Put(files, current, Empty)
    BY <1>13 DEF OpenCurrent, OpenFile
  <2>2. Blocks' = Blocks \cup {current}
    BY <1>4, <2>1
  <2> QED
    BY <1>13, <2>2 DEF OpenCurrent, CatalogShape
<1>14. CASE InsertPoint
  <2>1. Blocks' = Blocks
    BY <1>14 DEF InsertPoint, Blocks
  <2> QED
    BY <1>2, <1>14, <2>1 DEF InsertPoint
<1>15. CASE InsertFails
  BY <1>2, <1>3, <1>15 DEF InsertFails
<1> QED
  BY <1>5, <1>6, <1>7, <1>8, <1>9, <1>10, <1>11, <1>12, <1>13, <1>14, <1>15
     DEF Run, Step, Rotate

(* What the readers know outlasts a step of the storage thread. *)
LEMMA StorageStep ==
    ASSUME QueryInv, Storage
    PROVE  QueryInv'
<1> USE DEF QueryInv, readVars
<1>1. Run /\ UNCHANGED <<query, due, queries>>
  BY DEF Storage, Unlink, Run, Step, Rotate
<1>2. CInv'
  BY <1>1, StepCInv DEF Next
<1>3. CatalogShape'
  BY <1>1, RunCatalogShape
<1>4. /\ Evolves
      /\ pc' \notin {"down", "unconfigured"}
      /\ pc' # "idle" => pending'.n = arrived'
      /\ DOMAIN catalog \subseteq DOMAIN catalog'
  BY <1>1, RunEvolves
<1>5. \/ /\ UNCHANGED consult
         /\ Blocks \subseteq Blocks'
      \/ /\ UNCHANGED consult
         /\ Blocks' = Blocks \ {oldest}
         /\ consult.gone \/ consult.block # oldest
      \/ /\ consult.block \in Blocks
         /\ consult' = [block |-> consult.block, gone |-> TRUE, file |-> files[consult.block]]
         /\ ~consult.gone /\ Blocks' = Blocks \ {consult.block}
  <2>1. CASE Unlink
    <3> USE <2>1 DEF Unlink, RemoveOldest
    <3>1. Blocks' = Blocks \ {oldest}
      BY DEF Blocks, Drop
    <3>2. CASE consult.block = oldest /\ ~consult.gone
      <4>1. consult \in [block : Nat, gone : BOOLEAN, file : File]
        BY DEF QueryTypes
      <4> QED
        BY <3>1, <3>2, <4>1
    <3>3. CASE ~(consult.block = oldest /\ ~consult.gone)
      BY <3>1, <3>3
    <3> QED
      BY <3>2, <3>3
  <2>2. CASE ~RemoveOldest /\ UNCHANGED readVars
    BY <1>1, <2>2, RunEvolves
  <2> QED
    BY <2>1, <2>2 DEF Storage
<1>6. /\ consult \in [block : Nat, gone : BOOLEAN, file : File]
      /\ \A b \in Blocks : files[b] \in File
  BY DEF QueryTypes, CInv, BlocksInv, GoodFile
<1>7. QueryTypes'
  <2>1. ASSUME UNCHANGED consult
        PROVE  consult' \in [block : Nat, gone : BOOLEAN, file : File]
    BY <1>6, <2>1
  <2>2. ASSUME ~UNCHANGED consult
        PROVE  consult' \in [block : Nat, gone : BOOLEAN, file : File]
    <3>1. consult.block \in Nat /\ files[consult.block] \in File
      BY <1>5, <1>6, <2>2
    <3>2. consult' = [block |-> consult.block, gone |-> TRUE, file |-> files[consult.block]]
      BY <1>5, <2>2
    <3> QED
      BY <3>1, <3>2
  <2>3. consult' \in [block : Nat, gone : BOOLEAN, file : File]
    BY <2>1, <2>2
  <2> QED
    BY <1>1, <1>4, <2>3 DEF QueryTypes
<1> DEFINE Same(b)   == b \in Blocks /\ files'[b].rows = files[b].rows
           New(b)    == b \notin Blocks /\ files'[b].rows = {}
           Stored(b) == /\ b \in Blocks /\ b = handle
                        /\ files'[b].rows = files[b].rows \cup {pending}
                        /\ pending.n = LastStored' /\ LastStored < LastStored'
<1>8. /\ \A b \in Blocks' : Same(b) \/ New(b) \/ Stored(b)
      /\ LastStored \in Int /\ LastStored' \in Int /\ LastStored <= LastStored'
  BY <1>4 DEF Evolves
<1>9. \A rows \in SUBSET Point :
         NoneAhead(rows) =>
            /\ NoneAhead(rows)'
            /\ pending.n = LastStored' /\ LastStored < LastStored' => pending \notin rows
  <2>1. \A x \in Point : x.n \in Int
    BY DEF Point
  <2> QED
    BY <1>8, <2>1 DEF NoneAhead
<1>10. /\ \A b \in Blocks : files[b].rows \in SUBSET Point /\ NoneAhead(files[b].rows)
       /\ consult.file.rows \in SUBSET Point /\ NoneAhead(consult.file.rows)
       /\ \A r \in Readers : due[r] \in SUBSET Point /\ NoneAhead(due[r])
       /\ \A r \in Readers : \A i \in DOMAIN query[r].found :
             query[r].found[i] \in SUBSET Point /\ NoneAhead(query[r].found[i])
  <2>1. \A b \in Blocks : files[b].rows \in SUBSET Point
    BY <1>6 DEF File
  <2>2. consult.file.rows \in SUBSET Point
    BY <1>6 DEF File
  <2>3. ASSUME NEW r \in Readers, NEW i \in DOMAIN query[r].found
        PROVE  query[r].found[i] \in SUBSET Point
    <3>1. query[r].found \in Seq(SUBSET Point)
      BY DEF QueryTypes
    <3> QED
      BY <3>1
  <2> QED
    BY <2>1, <2>2, <2>3 DEF QueryTypes, NumberInv
<1>11. /\ LastStored' \in Int
       /\ \A b \in Blocks' : Stored(b) => \A x \in files'[b].rows : x \in files[b].rows \/ x = pending
       /\ \A b \in Blocks' : Stored(b) =>
             /\ \A c \in Blocks : pending \notin files[c].rows
             /\ pending \notin consult.file.rows
             /\ \A r \in Readers : pending \notin due[r]
             /\ \A r \in Readers : \A i \in DOMAIN query[r].found : pending \notin query[r].found[i]
  BY <1>8, <1>9, <1>10
<1>12. NumberInv'
  <2>1. ASSUME NEW b \in Blocks' PROVE NoneAhead(files[b].rows)'
    <3>1. CASE Same(b) \/ New(b)
      BY <1>9, <1>10, <3>1 DEF NoneAhead
    <3>2. CASE Stored(b)
      <4>1. \A x \in files[b].rows : x.n <= LastStored'
        BY <1>9, <1>10, <3>2 DEF NoneAhead
      <4>2. pending.n <= LastStored'
        BY <1>8, <3>2
      <4> QED
        BY <1>11, <3>2, <4>1, <4>2 DEF NoneAhead
    <3> QED
      BY <1>8, <3>1, <3>2
  <2>2. NoneAhead(consult.file.rows)'
    <3>1. \/ consult'.file.rows = consult.file.rows
          \/ consult.block \in Blocks /\ consult'.file.rows = files[consult.block].rows
      BY <1>5
    <3> QED
      BY <1>9, <1>10, <3>1 DEF NoneAhead
  <2>3. ASSUME NEW r \in Readers
        PROVE  (NoneAhead(due[r]) /\ \A i \in DOMAIN query[r].found : NoneAhead(query[r].found[i]))'
    BY <1>1, <1>9, <1>10 DEF NoneAhead
  <2> QED
    BY <1>4, <2>1, <2>2, <2>3 DEF NumberInv
<1>13. ApartInv'
  <2>1. ASSUME NEW b \in Blocks', NEW c \in Blocks', b # c
        PROVE  files'[b].rows \cap files'[c].rows = {}
    BY <1>8, <1>11, <2>1 DEF ApartInv
  <2>2. ASSUME consult'.gone, NEW b \in Blocks' \ {consult'.block}
        PROVE  consult'.file.rows \cap files'[b].rows = {}
    <3>1. CASE UNCHANGED consult
      BY <1>8, <1>11, <2>2, <3>1 DEF ApartInv
    <3>2. CASE ~UNCHANGED consult
      <4>1. /\ consult.block \in Blocks /\ b # consult.block /\ b \in Blocks
            /\ consult'.file.rows = files[consult.block].rows
        BY <1>5, <2>2, <3>2
      <4> QED
        BY <1>8, <1>11, <4>1 DEF ApartInv
    <3> QED
      BY <3>1, <3>2
  <2> QED
    BY <2>1, <2>2 DEF ApartInv
<1>14. ASSUME NEW r \in Readers
       PROVE  (TodoInv(query[r]) /\ FoundInv(query[r]) /\ DueInv(query[r], due[r]))'
  <2>0. PICK q, d : q = query[r] /\ d = due[r]
    OBVIOUS
  <2>1. query'[r] = q /\ due'[r] = d
    BY <1>1, <2>0
  <2>2. TodoInv(q) /\ FoundInv(q) /\ DueInv(q, d) /\ q.todo \in Seq(Nat)
    BY <2>0 DEF AskInv, QueryTypes
  <2>3. /\ \A b \in Blocks' : Stored(b) => pending \notin d
        /\ \A b \in Blocks' : Stored(b) => \A i \in DOMAIN q.found : pending \notin q.found[i]
    BY <1>11, <2>0
  <2>4. TodoInv(q)'
    <3>1. q.at = "fetch" => consult'.block = consult.block /\ (consult'.gone \/ consult.block \in Blocks')
      BY <1>5, <2>2 DEF TodoInv
    <3> QED
      BY <1>4, <2>2, <3>1 DEF TodoInv
  <2>5. FoundInv(q)'
    <3>1. ASSUME NEW i \in DOMAIN q.found, NEW k \in DOMAIN q.todo, q.todo[k] \in Blocks'
          PROVE  q.found[i] \cap files'[q.todo[k]].rows = {}
      BY <1>8, <2>2, <2>3, <3>1 DEF FoundInv
    <3>2. ASSUME q.at = "fetch", consult'.gone, NEW i \in DOMAIN q.found
          PROVE  q.found[i] \cap consult'.file.rows = {}
      <4>1. CASE UNCHANGED consult
        BY <2>2, <3>2, <4>1 DEF FoundInv
      <4>2. CASE ~UNCHANGED consult
        <5>1. consult.block \in Blocks /\ consult'.file.rows = files[consult.block].rows
          BY <1>5, <4>2
        <5>2. 1 \in DOMAIN q.todo /\ q.todo[1] = consult.block
          BY <2>2, <3>2 DEF TodoInv
        <5> QED
          BY <2>2, <5>1, <5>2 DEF FoundInv
      <4> QED
        BY <4>1, <4>2
    <3> QED
      BY <2>2, <3>1, <3>2 DEF FoundInv
  <2>6. DueInv(q, d)'
    <3>1. ASSUME NEW b \in Blocks', NEW x \in d \cap files'[b].rows
          PROVE  StillRead(q, b)' \/ \E i \in DOMAIN q.found : x \in q.found[i]
      <4>1. b \in Blocks /\ x \in files[b].rows
        BY <1>8, <1>11, <2>3, <3>1
      <4>2. ASSUME StillRead(q, b) PROVE StillRead(q, b)'
        <5>1. PICK k \in DOMAIN q.todo :
                 q.todo[k] = b /\ ~(q.at = "fetch" /\ consult.gone /\ k = 1)
          BY <4>2 DEF StillRead
        <5>2. ASSUME q.at = "fetch", consult'.gone, k = 1 PROVE FALSE
          <6>1. consult.block = b
            BY <2>2, <5>1, <5>2 DEF TodoInv
          <6>2. ~UNCHANGED consult
            BY <5>1, <5>2
          <6>3. b \notin Blocks'
            BY <1>5, <6>1, <6>2
          <6> QED
            BY <6>3
        <5> QED
          BY <5>1, <5>2 DEF StillRead
      <4> QED
        BY <2>2, <4>1, <4>2 DEF DueInv
    <3> QED
      BY <2>2, <3>1 DEF DueInv
  <2> QED
    BY <2>1, <2>4, <2>5, <2>6 DEF TodoInv, FoundInv, DueInv, StillRead
<1> QED
  BY <1>2, <1>3, <1>7, <1>12, <1>13, <1>14 DEF AskInv

-----------------------------------------------------------------------------
(* The blocks a query is going to read: all it was selected for, once each. *)
LEMMA ToRead ==
    ASSUME QueryInv, NEW q \in Ranges
    PROVE  /\ BlocksToRead(q) \in Seq(Nat)
           /\ \A i, j \in DOMAIN BlocksToRead(q) :
                 i # j => BlocksToRead(q)[i] # BlocksToRead(q)[j]
           /\ \A i \in DOMAIN BlocksToRead(q) : BlocksToRead(q)[i] \in DOMAIN catalog
           /\ \A b \in Blocks \cap Selected(q) :
                 \E i \in DOMAIN BlocksToRead(q) : BlocksToRead(q)[i] = b
<1>1. DOMAIN catalog \subseteq Nat /\ IsFiniteSet(DOMAIN catalog) /\ 1 \in DOMAIN catalog
  BY DEF QueryInv, CInv, TypeOK, CatalogShape
<1>2. CASE current = 1 /\ oldest = 1
  <2>1. BlocksToRead(q) = <<1>> /\ Blocks \subseteq {1}
    BY <1>2 DEF BlocksToRead, QueryInv, CatalogShape
  <2> QED
    BY <1>1, <2>1
<1>3. CASE ~(current = 1 /\ oldest = 1)
  <2>1. Selected(q) \in SUBSET DOMAIN catalog
    BY DEF Selected
  <2>2. IsFiniteSet(Selected(q)) /\ TypeOK
    BY <1>1, <2>1, FS_Subset DEF QueryInv, CInv
  <2>3. /\ InOrderOfBegin(Selected(q)) \in Seq(Selected(q))
        /\ \A i, j \in DOMAIN InOrderOfBegin(Selected(q)) :
              i # j => InOrderOfBegin(Selected(q))[i] # InOrderOfBegin(Selected(q))[j]
        /\ \A b \in Selected(q) : \E i \in DOMAIN InOrderOfBegin(Selected(q)) :
              InOrderOfBegin(Selected(q))[i] = b
    BY <2>1, <2>2, OrderedBlocks
  <2>4. BlocksToRead(q) = InOrderOfBegin(Selected(q))
    BY <1>3 DEF BlocksToRead, BlocksInTimeRange
  <2>5. BlocksToRead(q) \in Seq(Nat)
    BY <1>1, <2>1, <2>3, <2>4
  <2>6. \A i \in DOMAIN BlocksToRead(q) : BlocksToRead(q)[i] \in DOMAIN catalog
    BY <2>1, <2>3, <2>4
  <2> QED
    BY <2>3, <2>4, <2>5, <2>6
<1> QED
  BY <1>2, <1>3

(* A reader without a query has nothing to lose. *)
LEMMA IdleReader ==
    ASSUME NEW q, NEW d, q.at = "idle", TodoInv(q), FoundInv(q), DueInv(q, d)
    PROVE  (TodoInv(q) /\ FoundInv(q) /\ DueInv(q, d))'
<1>1. q.todo = << >> /\ DOMAIN q.todo = {} /\ d = {}
  BY DEF TodoInv, DueInv
<1> QED
  BY <1>1 DEF TodoInv, FoundInv, DueInv

LEMMA BeginStep ==
    ASSUME QueryInv, NEW r \in Readers, Begin(r), OneAtATime'
    PROVE  QueryInv'
<1> USE DEF QueryInv
<1>1. PICK q \in Ranges :
         /\ query' = [query EXCEPT ![r] =
                [at |-> IF BlocksToRead(q) = << >> THEN "done" ELSE "mount",
                 range |-> q, todo |-> BlocksToRead(q), found |-> << >>]]
         /\ due' = [due EXCEPT ![r] =
                UNION {InRange(files[b].rows, q) : b \in Blocks \cap Selected(q)}]
  BY DEF Begin
<1>2. PICK todo, d, at :
         /\ todo = BlocksToRead(q) /\ at = IF todo = << >> THEN "done" ELSE "mount"
         /\ d = UNION {InRange(files[b].rows, q) : b \in Blocks \cap Selected(q)}
  OBVIOUS
<1>3. /\ todo \in Seq(Nat) /\ \A i, j \in DOMAIN todo : i # j => todo[i] # todo[j]
      /\ \A i \in DOMAIN todo : todo[i] \in DOMAIN catalog
      /\ \A b \in Blocks \cap Selected(q) : \E i \in DOMAIN todo : todo[i] = b
  BY <1>2, ToRead
<1>4. q \in [begin : Nat, end : Nat]
  BY HistorianQueryAssumption
<1>5. \A x \in d : /\ q.begin <= x.ts /\ x.ts <= q.end
                   /\ \E b \in Blocks \cap Selected(q) : x \in files[b].rows
  BY <1>2 DEF InRange
<1>6. d \in SUBSET Point /\ NoneAhead(d)
  <2>1. \A b \in Blocks : files[b].rows \in SUBSET Point
    BY DEF CInv, BlocksInv, GoodFile, File
  <2> QED
    BY <1>5, <2>1 DEF NumberInv, NoneAhead
<1>7. PICK new : new = [at |-> at, range |-> q, todo |-> todo, found |-> << >>]
  OBVIOUS
<1>8. /\ query' = [query EXCEPT ![r] = new] /\ due' = [due EXCEPT ![r] = d]
      /\ UNCHANGED <<vars, consult>>
  BY <1>1, <1>2, <1>7 DEF Begin
<1>9. /\ new \in [at : {"idle", "mount", "fetch", "done"}, range : [begin : Nat, end : Nat],
                  todo : Seq(Nat), found : Seq(SUBSET Point)]
      /\ new.at = at /\ new.todo = todo /\ new.range = q /\ new.found = << >>
  BY <1>2, <1>3, <1>4, <1>7
<1>10. /\ query \in [Readers -> [at : {"idle", "mount", "fetch", "done"},
                                range : [begin : Nat, end : Nat],
                                todo : Seq(Nat), found : Seq(SUBSET Point)]]
      /\ due \in [Readers -> SUBSET Point]
  BY DEF QueryTypes
<1>11. /\ query'[r] = new /\ due'[r] = d
       /\ \A s \in Readers \ {r} : query'[s] = query[s] /\ due'[s] = due[s]
  BY <1>8, <1>10
<1>12. Blocks' = Blocks /\ LastStored' = LastStored /\ files' = files /\ consult' = consult
  BY <1>8 DEF vars, Blocks, LastStored
<1>13. CInv'
  BY <1>8, StepCInv
<1>14. QueryTypes'
  BY <1>6, <1>8, <1>9, <1>10 DEF QueryTypes, vars
<1>15. NumberInv'
  <2>1. ASSUME NEW s \in Readers
        PROVE  (NoneAhead(due[s]) /\ \A i \in DOMAIN query[s].found : NoneAhead(query[s].found[i]))'
    <3>1. CASE s = r
      BY <1>6, <1>9, <1>11, <1>12, <3>1 DEF NoneAhead
    <3>2. CASE s # r
      BY <1>11, <1>12, <3>2 DEF NumberInv, NoneAhead
    <3> QED
      BY <3>1, <3>2
  <2> QED
    BY <1>8, <1>12, <2>1 DEF NumberInv, NoneAhead, vars
<1>16. ApartInv' /\ CatalogShape'
  BY <1>8, <1>12 DEF ApartInv, CatalogShape, vars
<1>17. (TodoInv(new) /\ FoundInv(new) /\ DueInv(new, d))'
  <2>1. at # "fetch" /\ at # "idle" /\ (at = "mount" <=> todo # << >>)
    BY <1>2
  <2>2. TodoInv(new)'
    BY <1>3, <1>8, <1>9, <2>1 DEF TodoInv, vars
  <2>3. FoundInv(new)'
    BY <1>9, <2>1 DEF FoundInv
  <2>4. ASSUME NEW b \in Blocks, NEW x \in d \cap files[b].rows
        PROVE  \E k \in DOMAIN todo : todo[k] = b
    <3>1. PICK c \in Blocks \cap Selected(q) : x \in files[c].rows
      BY <1>5
    <3>2. b = c
      BY <3>1, <2>4 DEF ApartInv
    <3> QED
      BY <1>3, <3>1, <3>2
  <2>5. DueInv(new, d)'
    BY <1>5, <1>9, <1>12, <2>1, <2>4 DEF DueInv, StillRead
  <2> QED
    BY <2>2, <2>3, <2>5
<1>18. ASSUME NEW s \in Readers
       PROVE  (TodoInv(query[s]) /\ FoundInv(query[s]) /\ DueInv(query[s], due[s]))'
  <2>1. CASE s = r
    BY <1>11, <1>17, <2>1 DEF TodoInv, FoundInv, DueInv, StillRead
  <2>2. CASE s # r
    <3>1. query[s].at = "idle"
      <4>1. query'[r].at # "idle" /\ query'[s].at = query[s].at
        BY <1>2, <1>9, <1>11, <2>2
      <4> QED
        BY <2>2, <4>1 DEF OneAtATime
    <3>2. PICK o, e : o = query[s] /\ e = due[s]
      OBVIOUS
    <3>3. (TodoInv(o) /\ FoundInv(o) /\ DueInv(o, e))'
      BY <3>1, <3>2, IdleReader DEF AskInv
    <3>4. query'[s] = o /\ due'[s] = e
      BY <1>11, <2>2, <3>2
    <3> QED
      BY <3>3, <3>4 DEF TodoInv, FoundInv, DueInv, StillRead
  <2> QED
    BY <2>1, <2>2
<1> QED
  BY <1>13, <1>14, <1>15, <1>16, <1>18 DEF AskInv

LEMMA MountStep ==
    ASSUME QueryInv, OneAtATime, NEW r \in Readers, Mount(r)
    PROVE  QueryInv'
<1> USE DEF QueryInv
<1>1. /\ query \in [Readers -> [at : {"idle", "mount", "fetch", "done"},
                                range : [begin : Nat, end : Nat],
                                todo : Seq(Nat), found : Seq(SUBSET Point)]]
      /\ due \in [Readers -> SUBSET Point]
  BY DEF QueryTypes
<1>2. PICK q, d, b : q = query[r] /\ d = due[r] /\ b = q.todo[1]
  OBVIOUS
<1>3. /\ q.at = "mount" /\ TodoInv(q) /\ FoundInv(q) /\ DueInv(q, d)
      /\ q.todo \in Seq(Nat) /\ q.todo # << >> /\ b = Head(q.todo) /\ 1 \in DOMAIN q.todo
  BY <1>1, <1>2 DEF Mount, AskInv, TodoInv
<1>4. PICK new : new = [q EXCEPT !.at = "fetch"]
  OBVIOUS
<1>5. /\ query' = [query EXCEPT ![r] = new] /\ due' = due
      /\ files' = IF b \in Blocks THEN files ELSE Put(files, b, Empty)
      /\ consult' = [block |-> b, gone |-> FALSE, file |-> Empty]
      /\ UNCHANGED <<used, catalog, dbConfig, memoryVars, pc, pending, boundVars, queries>>
  BY <1>2, <1>3, <1>4 DEF Mount, OpenFile
<1>6. /\ new \in [at : {"idle", "mount", "fetch", "done"}, range : [begin : Nat, end : Nat],
                  todo : Seq(Nat), found : Seq(SUBSET Point)]
      /\ new.at = "fetch" /\ new.todo = q.todo /\ new.range = q.range /\ new.found = q.found
  BY <1>1, <1>2, <1>4
<1>7. /\ query'[r] = new /\ due'[r] = d
      /\ \A s \in Readers \ {r} : query'[s] = query[s] /\ due'[s] = due[s]
  BY <1>1, <1>2, <1>5
<1>8. b \in DOMAIN catalog /\ b \in Nat \ {0}
  BY <1>2, <1>3 DEF TodoInv, CInv, TypeOK
<1>9. /\ Blocks' = Blocks \cup {b} /\ BlocksInv'
      /\ \A x \in Blocks : files'[x] = files[x]
      /\ b \notin Blocks => files'[b].rows = {}
      /\ Empty \in File /\ Empty.rows = {}
  BY <1>5, <1>8, NewFile, FreshFiles DEF CInv, GoodFile
<1>10. LastStored' = LastStored
  BY <1>5 DEF LastStored, boundVars
<1>11. CInv'
  <2>1. TypeOK'
    BY <1>5, <1>8, <1>9 DEF CInv, TypeOK, BlocksInv, GoodFile, memoryVars, boundVars
  <2>2. ConfigInv'
    BY <1>5, <1>9 DEF CInv, ConfigInv, Steady, memoryVars
  <2> QED
    BY <1>5, <1>9, <2>1, <2>2 DEF CInv, PendingInv
<1>12. QueryTypes'
  BY <1>1, <1>5, <1>6, <1>8, <1>9 DEF QueryTypes
<1>13. NumberInv'
  <2>1. \A x \in Blocks' : NoneAhead(files[x].rows)'
    BY <1>9, <1>10 DEF NumberInv, NoneAhead
  <2>2. ASSUME NEW s \in Readers
        PROVE  (NoneAhead(due[s]) /\ \A i \in DOMAIN query[s].found : NoneAhead(query[s].found[i]))'
    <3>1. due'[s] = due[s] /\ query'[s].found = query[s].found
      BY <1>2, <1>5, <1>6, <1>7
    <3> QED
      BY <1>10, <3>1 DEF NumberInv, NoneAhead
  <2>3. NoneAhead(consult.file.rows)'
    BY <1>5, <1>9 DEF NoneAhead
  <2> QED
    BY <1>5, <2>1, <2>2, <2>3 DEF NumberInv, boundVars
<1>14. ApartInv'
  BY <1>5, <1>9 DEF ApartInv
<1>15. CatalogShape'
  BY <1>5, <1>8, <1>9 DEF CatalogShape, memoryVars
<1>16. (TodoInv(new) /\ FoundInv(new) /\ DueInv(new, d))'
  <2>1. TodoInv(new)'
    BY <1>2, <1>3, <1>5, <1>6, <1>9 DEF TodoInv
  <2>2. FoundInv(new)'
    BY <1>3, <1>5, <1>6, <1>9 DEF FoundInv
  <2>3. ASSUME NEW c \in Blocks', NEW x \in d \cap files'[c].rows
        PROVE  StillRead(new, c)' \/ \E i \in DOMAIN new.found : x \in new.found[i]
    <3>1. c \in Blocks /\ x \in files[c].rows
      BY <1>9
    <3>2. StillRead(q, c) \/ \E i \in DOMAIN q.found : x \in q.found[i]
      BY <1>3, <3>1 DEF DueInv
    <3> QED
      BY <1>5, <1>6, <3>2 DEF StillRead
  <2>4. DueInv(new, d)'
    BY <1>3, <1>6, <2>3 DEF DueInv
  <2> QED
    BY <2>1, <2>2, <2>4
<1>17. ASSUME NEW s \in Readers
       PROVE  (TodoInv(query[s]) /\ FoundInv(query[s]) /\ DueInv(query[s], due[s]))'
  <2>1. CASE s = r
    BY <1>7, <1>16, <2>1 DEF TodoInv, FoundInv, DueInv, StillRead
  <2>2. CASE s # r
    <3>1. query[s].at = "idle"
      BY <1>2, <1>3, <2>2 DEF OneAtATime
    <3>2. PICK o, e : o = query[s] /\ e = due[s]
      OBVIOUS
    <3>3. (TodoInv(o) /\ FoundInv(o) /\ DueInv(o, e))'
      BY <3>1, <3>2, IdleReader DEF AskInv
    <3>4. query'[s] = o /\ due'[s] = e
      BY <1>7, <2>2, <3>2
    <3> QED
      BY <3>3, <3>4 DEF TodoInv, FoundInv, DueInv, StillRead
  <2> QED
    BY <2>1, <2>2
<1> QED
  BY <1>11, <1>12, <1>13, <1>14, <1>15, <1>17 DEF AskInv

LEMMA MountFailsStep ==
    ASSUME QueryInv, OneAtATime, NEW r \in Readers, MountFails(r)
    PROVE  QueryInv'
<1> USE DEF QueryInv
<1>1. /\ query \in [Readers -> [at : {"idle", "mount", "fetch", "done"},
                                range : [begin : Nat, end : Nat],
                                todo : Seq(Nat), found : Seq(SUBSET Point)]]
      /\ due \in [Readers -> SUBSET Point]
  BY DEF QueryTypes
<1>2. PICK q, d, b : q = query[r] /\ d = due[r] /\ b = query[r].todo[1]
  OBVIOUS
<1>3. /\ q.at = "mount" /\ TodoInv(q) /\ FoundInv(q) /\ DueInv(q, d)
      /\ q.todo \in Seq(Nat) /\ q.todo # << >> /\ b = Head(q.todo) /\ 1 \in DOMAIN q.todo
      /\ q \in [at : {"idle", "mount", "fetch", "done"}, range : [begin : Nat, end : Nat],
                todo : Seq(Nat), found : Seq(SUBSET Point)]
  BY <1>1, <1>2 DEF MountFails, AskInv, TodoInv
<1>4. PICK rest, at, less :
         /\ rest = Tail(q.todo) /\ at = IF rest = << >> THEN "done" ELSE "mount"
         /\ less = IF b \in Blocks THEN d \ files[b].rows ELSE d
  OBVIOUS
<1>5. PICK new : new = [q EXCEPT !.todo = rest, !.at = at]
  OBVIOUS
<1>6. /\ query' = [query EXCEPT ![r] = new] /\ due' = [due EXCEPT ![r] = less]
      /\ consult' = Closed /\ UNCHANGED <<vars, queries>>
  <2>1. /\ query' = [query EXCEPT ![r].todo = rest, ![r].at = at]
        /\ due' = [due EXCEPT ![r] = IF b \in Blocks THEN @ \ files[b].rows ELSE @]
        /\ consult' = Closed /\ UNCHANGED <<vars, queries>>
    BY <1>2, <1>3, <1>4 DEF MountFails
  <2>2. query' = [query EXCEPT ![r] = new]
    BY <1>1, <1>2, <1>5, <2>1
  <2>3. due' = [due EXCEPT ![r] = less]
    BY <1>1, <1>2, <1>4, <2>1
  <2> QED
    BY <2>1, <2>2, <2>3
<1>7. /\ rest \in Seq(Nat) /\ Len(rest) = Len(q.todo) - 1
      /\ \A k \in DOMAIN rest : k + 1 \in DOMAIN q.todo /\ rest[k] = q.todo[k + 1]
      /\ \A k \in DOMAIN q.todo : k = 1 \/ k - 1 \in DOMAIN rest
  BY <1>3, <1>4, SMTT(30)
<1>8. /\ new \in [at : {"idle", "mount", "fetch", "done"}, range : [begin : Nat, end : Nat],
                  todo : Seq(Nat), found : Seq(SUBSET Point)]
      /\ new.at = at /\ new.todo = rest /\ new.range = q.range /\ new.found = q.found
  BY <1>3, <1>4, <1>5, <1>7
<1>9. less \in SUBSET d /\ d \in SUBSET Point
  BY <1>1, <1>2, <1>4
<1>10. /\ query'[r] = new /\ due'[r] = less
       /\ \A s \in Readers \ {r} : query'[s] = query[s] /\ due'[s] = due[s]
  BY <1>1, <1>6
<1>11. Blocks' = Blocks /\ LastStored' = LastStored /\ files' = files
  BY <1>6 DEF vars, Blocks, LastStored
<1>12. /\ Closed \in [block : Nat, gone : BOOLEAN, file : File]
       /\ ~Closed.gone /\ Closed.file.rows = {}
  BY FreshFiles DEF Closed, GoodFile
<1>13. CInv'
  BY <1>6, StepCInv
<1>14. QueryTypes'
  BY <1>1, <1>6, <1>8, <1>9, <1>12 DEF QueryTypes, vars
<1>15. NumberInv'
  <2>1. ASSUME NEW s \in Readers
        PROVE  (NoneAhead(due[s]) /\ \A i \in DOMAIN query[s].found : NoneAhead(query[s].found[i]))'
    <3>1. due'[s] \subseteq due[s] /\ query'[s].found = query[s].found
      BY <1>2, <1>8, <1>9, <1>10
    <3>2. NoneAhead(due[s]) /\ \A i \in DOMAIN query[s].found : NoneAhead(query[s].found[i])
      BY DEF NumberInv
    <3> QED
      BY <1>11, <3>1, <3>2 DEF NoneAhead
  <2>2. NoneAhead(consult.file.rows)'
    BY <1>6, <1>12 DEF NoneAhead
  <2> QED
    BY <1>6, <1>11, <2>1, <2>2 DEF NumberInv, NoneAhead, vars
<1>16. ApartInv' /\ CatalogShape'
  BY <1>6, <1>11, <1>12 DEF ApartInv, CatalogShape, vars
<1>17. TodoInv(new)'
  <2>1. \A i, j \in DOMAIN rest : i # j => rest[i] # rest[j]
    <3> SUFFICES ASSUME NEW i \in DOMAIN rest, NEW j \in DOMAIN rest, i # j
                 PROVE  rest[i] # rest[j]
      OBVIOUS
    <3>1. i \in Nat /\ j \in Nat /\ i + 1 # j + 1
      BY <1>7
    <3> QED
      BY <1>3, <1>7, <3>1 DEF TodoInv
  <2>2. at # "fetch" /\ (at = "mount" <=> rest # << >>)
    BY <1>4
  <2>3. \A k \in DOMAIN rest : rest[k] \in DOMAIN catalog
    BY <1>3, <1>7 DEF TodoInv
  <2> QED
    BY <1>6, <1>8, <2>1, <2>2, <2>3 DEF TodoInv, vars
<1>18. FoundInv(new)'
  <2>1. at # "fetch"
    BY <1>4
  <2>2. \A i \in DOMAIN q.found, k \in DOMAIN rest :
           rest[k] \in Blocks => q.found[i] \cap files[rest[k]].rows = {}
    BY <1>3, <1>7 DEF FoundInv
  <2> QED
    BY <1>3, <1>8, <1>11, <2>1, <2>2 DEF FoundInv
<1>19. DueInv(new, less)'
  <2>1. at # "fetch" /\ at # "idle"
    BY <1>4
  <2>2. ASSUME NEW c \in Blocks, NEW x \in less \cap files[c].rows
        PROVE  (\E k \in DOMAIN rest : rest[k] = c) \/ \E i \in DOMAIN q.found : x \in q.found[i]
    <3>1. c # b
      BY <1>4, <2>2
    <3>2. CASE StillRead(q, c)
      <4>1. PICK k \in DOMAIN q.todo : q.todo[k] = c
        BY <3>2 DEF StillRead
      <4>2. k # 1
        BY <1>2, <3>1, <4>1
      <4>3. k - 1 \in DOMAIN rest /\ k - 1 + 1 = k
        BY <1>3, <1>7, <4>2
      <4> QED
        BY <1>7, <4>1, <4>3
    <3> QED
      BY <1>3, <1>9, <3>2 DEF DueInv
  <2>3. \A c \in Blocks : \A x \in less \cap files[c].rows :
           StillRead(new, c)' \/ \E i \in DOMAIN new.found : x \in new.found[i]
    <3> TAKE c \in Blocks
    <3> TAKE x \in less \cap files[c].rows
    <3>1. CASE \E k \in DOMAIN rest : rest[k] = c
      BY <1>8, <2>1, <3>1 DEF StillRead
    <3> QED
      BY <1>8, <2>2, <3>1
  <2> QED
    BY <1>3, <1>8, <1>9, <1>11, <2>1, <2>3 DEF DueInv
<1>20. ASSUME NEW s \in Readers
       PROVE  (TodoInv(query[s]) /\ FoundInv(query[s]) /\ DueInv(query[s], due[s]))'
  <2>1. CASE s = r
    BY <1>10, <1>17, <1>18, <1>19, <2>1 DEF TodoInv, FoundInv, DueInv, StillRead
  <2>2. CASE s # r
    <3>1. query[s].at = "idle"
      BY <1>2, <1>3, <2>2 DEF OneAtATime
    <3>2. PICK o, e : o = query[s] /\ e = due[s]
      OBVIOUS
    <3>3. (TodoInv(o) /\ FoundInv(o) /\ DueInv(o, e))'
      BY <3>1, <3>2, IdleReader DEF AskInv
    <3>4. query'[s] = o /\ due'[s] = e
      BY <1>10, <2>2, <3>2
    <3> QED
      BY <3>3, <3>4 DEF TodoInv, FoundInv, DueInv, StillRead
  <2> QED
    BY <2>1, <2>2
<1> QED
  BY <1>13, <1>14, <1>15, <1>16, <1>20 DEF AskInv

LEMMA FetchStep ==
    ASSUME QueryInv, OneAtATime, NEW r \in Readers, Fetch(r)
    PROVE  QueryInv'
<1> USE DEF QueryInv
<1>1. /\ query \in [Readers -> [at : {"idle", "mount", "fetch", "done"},
                                range : [begin : Nat, end : Nat],
                                todo : Seq(Nat), found : Seq(SUBSET Point)]]
      /\ due \in [Readers -> SUBSET Point]
  BY DEF QueryTypes
<1>2. PICK q, d, b, got :
         q = query[r] /\ d = due[r] /\ b = consult.block /\ got = InRange(Consulted.rows, q.range)
  OBVIOUS
<1>3. /\ q.at = "fetch" /\ TodoInv(q) /\ FoundInv(q) /\ DueInv(q, d)
      /\ q.todo \in Seq(Nat) /\ q.todo # << >> /\ b = q.todo[1] /\ 1 \in DOMAIN q.todo
      /\ q.found \in Seq(SUBSET Point) /\ q \in [at : {"idle", "mount", "fetch", "done"},
                                range : [begin : Nat, end : Nat],
                                todo : Seq(Nat), found : Seq(SUBSET Point)]
  BY <1>1, <1>2 DEF Fetch, AskInv, TodoInv
<1>4. PICK rest, at : rest = Tail(q.todo) /\ at = IF rest = << >> THEN "done" ELSE "mount"
  OBVIOUS
<1>5. PICK new : new = [q EXCEPT !.found = Append(@, got), !.todo = rest, !.at = at]
  OBVIOUS
<1>6. /\ query' = [query EXCEPT ![r] = new] /\ due' = due
      /\ UNCHANGED <<vars, consult, queries>>
  <2>1. query' = [query EXCEPT ![r].found = Append(@, got), ![r].todo = rest, ![r].at = at]
    BY <1>2, <1>4 DEF Fetch, FetchInto
  <2>2. query' = [query EXCEPT ![r] = new]
    BY <1>1, <1>2, <1>5, <2>1
  <2> QED
    BY <2>2 DEF Fetch
<1>7. /\ rest \in Seq(Nat) /\ Len(rest) = Len(q.todo) - 1
      /\ \A k \in DOMAIN rest : k + 1 \in DOMAIN q.todo /\ rest[k] = q.todo[k + 1]
      /\ \A k \in DOMAIN q.todo : k = 1 \/ k - 1 \in DOMAIN rest
  BY <1>3, <1>4, SMTT(30)
<1>8. /\ consult \in [block : Nat, gone : BOOLEAN, file : File]
      /\ \A c \in Blocks : files[c] \in File
      /\ consult.gone \/ b \in Blocks
      /\ b # 0
  BY <1>2, <1>3 DEF QueryTypes, CInv, TypeOK, BlocksInv, GoodFile, TodoInv
<1>9. /\ got \in SUBSET Point /\ NoneAhead(got)
      /\ consult.gone => got \subseteq consult.file.rows
      /\ ~consult.gone => got = InRange(files[b].rows, q.range)
      /\ ~consult.gone => got \subseteq files[b].rows
  <2>1. CASE consult.gone
    BY <1>2, <1>8, <2>1 DEF Consulted, InRange, File, NumberInv, NoneAhead
  <2>2. CASE ~consult.gone
    BY <1>2, <1>8, <2>2 DEF Consulted, InRange, File, NumberInv, NoneAhead
  <2> QED
    BY <2>1, <2>2
<1>10. /\ Append(q.found, got) \in Seq(SUBSET Point)
       /\ DOMAIN Append(q.found, got) = 1 .. Len(q.found) + 1
       /\ DOMAIN q.found = 1 .. Len(q.found) /\ Len(q.found) \in Nat
       /\ \A i \in DOMAIN q.found : Append(q.found, got)[i] = q.found[i]
       /\ Append(q.found, got)[Len(q.found) + 1] = got
  BY <1>3, <1>9
<1>11. /\ new \in [at : {"idle", "mount", "fetch", "done"}, range : [begin : Nat, end : Nat],
                   todo : Seq(Nat), found : Seq(SUBSET Point)]
       /\ new.at = at /\ new.todo = rest /\ new.range = q.range
       /\ new.found = Append(q.found, got)
  BY <1>3, <1>4, <1>5, <1>7, <1>10
<1>12. /\ query'[r] = new /\ due'[r] = d
       /\ \A s \in Readers \ {r} : query'[s] = query[s] /\ due'[s] = due[s]
  BY <1>1, <1>2, <1>6
<1>13. Blocks' = Blocks /\ LastStored' = LastStored /\ files' = files /\ consult' = consult
  BY <1>6 DEF vars, Blocks, LastStored
<1>14. CInv'
  BY <1>6, StepCInv
<1>15. QueryTypes'
  BY <1>1, <1>6, <1>11 DEF QueryTypes, vars
<1>16. \A i \in DOMAIN new.found :
          \/ i \in DOMAIN q.found /\ new.found[i] = q.found[i]
          \/ i = Len(q.found) + 1 /\ new.found[i] = got
  <2>1. DOMAIN new.found = 1 .. Len(q.found) + 1
    BY <1>10, <1>11
  <2>2. \A i \in 1 .. Len(q.found) + 1 : i \in 1 .. Len(q.found) \/ i = Len(q.found) + 1
    BY <1>10
  <2>3. \A i \in 1 .. Len(q.found) : new.found[i] = q.found[i]
    BY <1>10, <1>11
  <2>4. new.found[Len(q.found) + 1] = got
    BY <1>10, <1>11
  <2> HIDE DEF QueryInv
  <2> QED
    BY <1>10, <2>1, <2>2, <2>3, <2>4
<1>17. NumberInv'
  <2>1. ASSUME NEW s \in Readers
        PROVE  (NoneAhead(due[s]) /\ \A i \in DOMAIN query[s].found : NoneAhead(query[s].found[i]))'
    <3>1. CASE s = r
      BY <1>2, <1>9, <1>12, <1>13, <1>16, <3>1 DEF NumberInv, NoneAhead
    <3>2. CASE s # r
      BY <1>12, <1>13, <3>2 DEF NumberInv, NoneAhead
    <3> QED
      BY <3>1, <3>2
  <2> QED
    BY <1>6, <1>13, <2>1 DEF NumberInv, NoneAhead, vars
<1>18. ApartInv' /\ CatalogShape'
  BY <1>6, <1>13 DEF ApartInv, CatalogShape, vars
<1>19. TodoInv(new)'
  <2>1. \A i, j \in DOMAIN rest : i # j => rest[i] # rest[j]
    <3> SUFFICES ASSUME NEW i \in DOMAIN rest, NEW j \in DOMAIN rest, i # j
                 PROVE  rest[i] # rest[j]
      OBVIOUS
    <3>1. i \in Nat /\ j \in Nat /\ i + 1 # j + 1
      BY <1>7
    <3> QED
      BY <1>3, <1>7, <3>1 DEF TodoInv
  <2>2. at # "fetch" /\ (at = "mount" <=> rest # << >>)
    BY <1>4
  <2>3. \A k \in DOMAIN rest : rest[k] \in DOMAIN catalog
    BY <1>3, <1>7 DEF TodoInv
  <2> QED
    BY <1>6, <1>11, <2>1, <2>2, <2>3 DEF TodoInv, vars
(* What is read now was not found before and is in no other block. *)
<1>20. /\ \A i \in DOMAIN q.found : q.found[i] \cap got = {}
       /\ \A k \in DOMAIN rest : rest[k] \in Blocks => got \cap files[rest[k]].rows = {}
  <2>1. ASSUME NEW i \in DOMAIN q.found PROVE q.found[i] \cap got = {}
    BY <1>3, <1>8, <1>9 DEF FoundInv
  <2>2. ASSUME NEW k \in DOMAIN rest, rest[k] \in Blocks
        PROVE  got \cap files[rest[k]].rows = {}
    <3>1. rest[k] # b
      <4>1. k \in Nat /\ k >= 1 /\ k + 1 # 1
        BY <1>7
      <4> QED
        BY <1>3, <1>7, <4>1 DEF TodoInv
    <3> QED
      BY <1>2, <1>8, <1>9, <2>2, <3>1 DEF ApartInv
  <2> QED
    BY <2>1, <2>2
<1>21. FoundInv(new)'
  <2>1. at # "fetch"
    BY <1>4
  <2>2. \A i, j \in DOMAIN new.found : i # j => new.found[i] \cap new.found[j] = {}
    BY <1>3, <1>16, <1>20 DEF FoundInv
  <2>3. ASSUME NEW i \in DOMAIN new.found, NEW k \in DOMAIN rest, rest[k] \in Blocks
        PROVE  new.found[i] \cap files[rest[k]].rows = {}
    <3>1. k + 1 \in DOMAIN q.todo /\ rest[k] = q.todo[k + 1]
      BY <1>7
    <3> QED
      BY <1>3, <1>16, <1>20, <2>3, <3>1 DEF FoundInv
  <2> QED
    BY <1>11, <1>13, <2>1, <2>2, <2>3 DEF FoundInv
<1>22. DueInv(new, d)'
  <2>1. at # "fetch" /\ at # "idle"
    BY <1>4
  <2>2. ASSUME NEW c \in Blocks, NEW x \in d \cap files[c].rows
        PROVE  (\E k \in DOMAIN rest : rest[k] = c) \/ \E i \in DOMAIN new.found : x \in new.found[i]
    <3>1. CASE \E i \in DOMAIN q.found : x \in q.found[i]
      BY <1>10, <1>11, <3>1
    <3>2. CASE StillRead(q, c)
      <4>1. PICK k \in DOMAIN q.todo : q.todo[k] = c /\ ~(q.at = "fetch" /\ consult.gone /\ k = 1)
        BY <3>2 DEF StillRead
      <4>2. CASE k = 1
        <5>1. ~consult.gone /\ c = b
          BY <1>3, <4>1, <4>2
        <5>2. q.range.begin <= x.ts /\ x.ts <= q.range.end
          BY <1>3 DEF DueInv
        <5>3. x \in got
          BY <1>9, <5>1, <5>2 DEF InRange
        <5>4. Len(q.found) + 1 \in DOMAIN new.found /\ new.found[Len(q.found) + 1] = got
          BY <1>10, <1>11
        <5> QED
          BY <5>3, <5>4
      <4>3. CASE k # 1
        <5>1. k - 1 \in DOMAIN rest /\ k - 1 + 1 = k
          BY <1>3, <1>7, <4>3
        <5> QED
          BY <1>7, <4>1, <5>1
      <4> QED
        BY <4>2, <4>3
    <3> QED
      BY <1>3, <3>1, <3>2 DEF DueInv
  <2>3. \A c \in Blocks : \A x \in d \cap files[c].rows :
           StillRead(new, c)' \/ \E i \in DOMAIN new.found : x \in new.found[i]
    <3> TAKE c \in Blocks
    <3> TAKE x \in d \cap files[c].rows
    <3>1. CASE \E k \in DOMAIN rest : rest[k] = c
      BY <1>11, <2>1, <3>1 DEF StillRead
    <3> QED
      BY <2>2, <3>1
  <2> QED
    BY <1>3, <1>11, <1>13, <2>1, <2>3 DEF DueInv
<1>23. ASSUME NEW s \in Readers
       PROVE  (TodoInv(query[s]) /\ FoundInv(query[s]) /\ DueInv(query[s], due[s]))'
  <2>1. CASE s = r
    BY <1>12, <1>19, <1>21, <1>22, <2>1 DEF TodoInv, FoundInv, DueInv, StillRead
  <2>2. CASE s # r
    <3>1. query[s].at = "idle"
      BY <1>2, <1>3, <2>2 DEF OneAtATime
    <3>2. PICK o, e : o = query[s] /\ e = due[s]
      OBVIOUS
    <3>3. (TodoInv(o) /\ FoundInv(o) /\ DueInv(o, e))'
      BY <3>1, <3>2, IdleReader DEF AskInv
    <3>4. query'[s] = o /\ due'[s] = e
      BY <1>12, <2>2, <3>2
    <3> QED
      BY <3>3, <3>4 DEF TodoInv, FoundInv, DueInv, StillRead
  <2> QED
    BY <2>1, <2>2
<1> QED
  BY <1>14, <1>15, <1>17, <1>18, <1>23 DEF AskInv

LEMMA AnswerStep ==
    ASSUME QueryInv, OneAtATime, NEW r \in Readers, Answer(r)
    PROVE  QueryInv'
<1> USE DEF QueryInv
<1>1. /\ query \in [Readers -> [at : {"idle", "mount", "fetch", "done"},
                                range : [begin : Nat, end : Nat],
                                todo : Seq(Nat), found : Seq(SUBSET Point)]]
      /\ due \in [Readers -> SUBSET Point]
  BY DEF QueryTypes
<1>2. /\ query[r].at = "done" /\ query'[r] = NoQuery /\ due'[r] = {}
      /\ \A s \in Readers \ {r} : query'[s] = query[s] /\ due'[s] = due[s]
      /\ UNCHANGED <<vars, consult>>
  BY <1>1 DEF Answer
<1>3. Blocks' = Blocks /\ LastStored' = LastStored /\ files' = files /\ consult' = consult
  BY <1>2 DEF vars, Blocks, LastStored
<1>4. CInv' /\ CatalogShape' /\ ApartInv'
  <2>1. CInv'
    BY <1>2, StepCInv
  <2> QED
    BY <1>2, <1>3, <2>1 DEF ApartInv, CatalogShape, vars
<1>5. QueryTypes'
  <2>1. NoQuery \in [at : {"idle", "mount", "fetch", "done"}, range : [begin : Nat, end : Nat],
                     todo : Seq(Nat), found : Seq(SUBSET Point)]
    BY DEF NoQuery, NoRange
  <2>2. {} \in SUBSET Point
    OBVIOUS
  <2>3. query' = [query EXCEPT ![r] = NoQuery] /\ due' = [due EXCEPT ![r] = {}]
    BY DEF Answer
  <2> HIDE DEF QueryInv
  <2> QED
    BY <1>1, <1>2, <1>3, <2>1, <2>2, <2>3 DEF QueryTypes, QueryInv, vars
<1>6. NumberInv'
  <2>1. ASSUME NEW s \in Readers
        PROVE  (NoneAhead(due[s]) /\ \A i \in DOMAIN query[s].found : NoneAhead(query[s].found[i]))'
    <3>1. CASE s = r
      BY <1>2, <3>1 DEF NoneAhead, NoQuery
    <3>2. CASE s # r
      BY <1>2, <1>3, <3>2 DEF NumberInv, NoneAhead
    <3> QED
      BY <3>1, <3>2
  <2> QED
    BY <1>2, <1>3, <2>1 DEF NumberInv, NoneAhead, vars
<1>7. ASSUME NEW s \in Readers
      PROVE  (TodoInv(query[s]) /\ FoundInv(query[s]) /\ DueInv(query[s], due[s]))'
  <2>1. CASE s = r
    BY <1>2, <2>1 DEF TodoInv, FoundInv, DueInv, NoQuery
  <2>2. CASE s # r
    <3>1. query[s].at = "idle"
      BY <1>2, <2>2 DEF OneAtATime
    <3>2. PICK o, e : o = query[s] /\ e = due[s]
      OBVIOUS
    <3>3. (TodoInv(o) /\ FoundInv(o) /\ DueInv(o, e))'
      BY <3>1, <3>2, IdleReader DEF AskInv
    <3>4. query'[s] = o /\ due'[s] = e
      BY <1>2, <2>2, <3>2
    <3> QED
      BY <3>3, <3>4 DEF TodoInv, FoundInv, DueInv, StillRead
  <2> QED
    BY <2>1, <2>2
<1> QED
  BY <1>4, <1>5, <1>6, <1>7 DEF AskInv

-----------------------------------------------------------------------------
(* The invariant, in behaviours in which no two queries overlap. *)
THEOREM InvariantQuery == QuerySpec /\ []OneAtATime => []QueryInv
<1>1. QueryInit => QueryInv
  BY InitQueryInv
<1>2. QueryInv /\ OneAtATime /\ OneAtATime' /\ [QueryNext]_allVars => QueryInv'
  <2> SUFFICES ASSUME QueryInv, OneAtATime, OneAtATime', [QueryNext]_allVars PROVE QueryInv'
    OBVIOUS
  <2>1. CASE Storage
    BY <2>1, StorageStep
  <2>2. ASSUME NEW r \in Readers, Reading(r) PROVE QueryInv'
    BY <2>2, BeginStep, MountStep, MountFailsStep, FetchStep, AnswerStep DEF Reading
  <2>3. CASE UNCHANGED allVars
    <3>1. CInv'
      BY <2>3, StepCInv DEF allVars, QueryInv
    <3>2. QueryTypes' /\ NumberInv' /\ ApartInv' /\ CatalogShape'
      BY <2>3 DEF allVars, readVars, vars, QueryInv, QueryTypes, NumberInv, NoneAhead,
                  LastStored, ApartInv, CatalogShape, Blocks
    <3>3. AskInv'
      BY <2>3 DEF allVars, readVars, vars, QueryInv, AskInv, TodoInv, FoundInv, DueInv,
                  StillRead, Blocks
    <3> QED
      BY <3>1, <3>2, <3>3 DEF QueryInv
  <2> QED
    BY <2>1, <2>2, <2>3 DEF QueryNext
<1> QED
  BY <1>1, <1>2, PTL DEF QuerySpec

(* No sample is in an answer twice, although getVariableInRange just       *)
(* appends the batches of the blocks (sqlitedatabase.cpp:291-300) while    *)
(* the storage thread may unlink the file that is being read and use its   *)
(* number again: a sample has its place in one file only, and a block is   *)
(* read once.  For every size, range and number of readers, as long as     *)
(* their queries do not overlap.                                           *)
THEOREM SamplesFoundOnce == QuerySpec /\ []OneAtATime => []NoSampleTwice
<1>1. QueryInv => NoSampleTwice
  BY DEF QueryInv, AskInv, FoundInv, NoSampleTwice
<1> QED
  BY <1>1, InvariantQuery, PTL

(* An answer has every sample that lay in the range in one of the selected *)
(* blocks when the query began, unless it has been recycled meanwhile      *)
(* (getVariableInRange, sqlitedatabase.cpp:275-300).                       *)
THEOREM AnswersComplete == QuerySpec /\ []OneAtATime => []ServesSelected
<1>1. QueryInv => ServesSelected
  <2> SUFFICES ASSUME QueryInv, NEW r \in Readers, query[r].at = "done",
                      NEW x \in due[r] \cap StillStored
               PROVE  x \in Found(r)
    BY DEF ServesSelected
  <2>1. PICK b \in Blocks : x \in files[b].rows
    BY DEF StillStored
  <2>2. /\ query[r].todo = << >>
        /\ StillRead(query[r], b) \/ \E i \in DOMAIN query[r].found : x \in query[r].found[i]
    BY <2>1 DEF QueryInv, AskInv, TodoInv, DueInv
  <2>3. \E i \in DOMAIN query[r].found : x \in query[r].found[i]
    BY <2>2 DEF StillRead
  <2> QED
    BY <2>3 DEF Found, Range
<1> QED
  BY <1>1, InvariantQuery, PTL

(* The setting of the run: with one reader queries cannot overlap. *)
COROLLARY OneReaderServed ==
    ASSUME \A r, s \in Readers : r = s
    PROVE  QuerySpec => [](ServesSelected /\ NoSampleTwice)
<1>1. OneAtATime
  BY DEF OneAtATime
<1>2. []OneAtATime
  BY <1>1, PTL
<1> QED
  BY <1>2, SamplesFoundOnce, AnswersComplete, PTL
=============================================================================
