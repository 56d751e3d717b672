------------------------- MODULE BlockStoreLogProofs -------------------------
(***************************************************************************)
(* BlockStore without crashes implements BlockLog, for every value of the  *)
(* constants that is Sized: initial states map to initial states and every *)
(* step maps to a step or a stutter.  On the ring invariant of             *)
(* BlockStoreProofs, which says where the segments are, rests GapInv,      *)
(* which says that the last sample handed over is the last one stored.     *)
(***************************************************************************)
EXTENDS BlockStoreLog, BlockStoreProofs, SequenceTheorems

NothingStored == \A b \in Blocks : files[b].rows = {}
GapInv ==
    /\ arrived <= MaxPoints /\ (pc # "idle" => arrived >= 1 /\ pending.ts \in TimeStamp)
    /\ \/ NothingStored
       \/ \E b \in Blocks : \E r \in files[b].rows : r.n = LastStored

Rows == SUBSET Point
Place(d, n) == IF oldest + d > n THEN oldest + d - n ELSE oldest + d

-----------------------------------------------------------------------------
(* n blocks fit if and only if n is at most the capacity of the log. *)
LEMMA CapacityIsFits ==
    /\ DiskBlocks \in Int
    /\ \A n \in Nat : Fits(n) <=> n <= DiskBlocks
<1> DEFINE W == SealedPages * PageSize
           D == DiskSize - (MainSize + BtempSize)
<1>1. /\ PageSize \in Nat \ {0} /\ SealedPages \in Nat \ {0}
      /\ BtempPages \in Nat /\ DiskSize \in Nat /\ MainSize \in Nat
  BY ConstantTypes, FullPages, BlockStoreAssumption
<1>2. W \in Nat \ {0} /\ D \in Int
  BY <1>1 DEF BtempSize
<1>3. ASSUME NEW n \in Nat PROVE Fits(n) <=> n * W <= D
  <2>1. (BtempPages + n * SealedPages) * PageSize = BtempPages * PageSize + n * W
    BY <1>1
  <2>2. BtempPages * PageSize \in Nat /\ n * W \in Nat
    BY <1>1, <1>2
  <2> HIDE DEF W
  <2> QED
    BY <1>1, <2>1, <2>2 DEF Fits, Taken, BtempSize
<1>4. DiskBlocks = D \div W
  BY DEF DiskBlocks
<1> HIDE DEF W, D
<1>5. DiskBlocks \in Int /\ DiskBlocks * W <= D /\ D < DiskBlocks * W + W
  BY <1>2, <1>4
<1>6. ASSUME NEW n \in Nat, n <= DiskBlocks PROVE n * W <= D
  <2>1. n * W <= DiskBlocks * W
    BY <1>2, <1>5, <1>6
  <2> QED
    BY <1>2, <1>5, <2>1
<1>7. ASSUME NEW n \in Nat, n > DiskBlocks PROVE n * W > D
  <2>1. n * W >= (DiskBlocks + 1) * W
    BY <1>2, <1>5, <1>7
  <2>2. (DiskBlocks + 1) * W = DiskBlocks * W + W
    BY <1>2, <1>5
  <2> QED
    BY <1>2, <1>5, <2>1, <2>2
<1>8. ASSUME NEW n \in Nat PROVE Fits(n) <=> n <= DiskBlocks
  <2>1. n * W \in Int
    BY <1>2
  <2>2. CASE n <= DiskBlocks
    BY <1>3, <1>6, <2>2
  <2>3. CASE n > DiskBlocks
    <3>1. n * W > D
      BY <1>7, <2>3
    <3> QED
      BY <1>2, <1>3, <1>5, <2>1, <2>3, <3>1
  <2> QED
    BY <1>5, <2>2, <2>3
<1> QED
  BY <1>5, <1>8

(* Where no block fits any more, there are as many as the log can have. *)
LEMMA FullRingIsFullLog ==
    ASSUME NEW n \in Nat \ {0}, Fits(n), NoMore(n)
    PROVE  n = DiskBlocks
<1>1. /\ PageSize \in Nat \ {0} /\ SealedPages \in Nat \ {0}
      /\ BtempPages \in Nat /\ DiskSize \in Nat /\ MainSize \in Nat /\ BlockSize \in Int
  BY ConstantTypes, FullPages, BlockStoreAssumption
<1>2. SealedPages * PageSize >= BlockSize
  BY <1>1, FullPages
<1>3. Taken(n + 1) = Taken(n) + SealedPages * PageSize
  <2>1. (BtempPages + (n + 1) * SealedPages) * PageSize
          = (BtempPages + n * SealedPages) * PageSize + SealedPages * PageSize
    BY <1>1
  <2>2. (BtempPages + n * SealedPages) * PageSize \in Int /\ SealedPages * PageSize \in Int
    BY <1>1
  <2> QED
    BY <1>1, <2>1, <2>2 DEF Taken
<1>4. Taken(n) \in Int /\ SealedPages * PageSize \in Int
  BY <1>1 DEF Taken
<1>5. ~Fits(n + 1)
  BY <1>1, <1>2, <1>3, <1>4 DEF Fits, NoMore
<1> QED
  BY <1>5, CapacityIsFits

(* The segments of a ring of n blocks, one by one. *)
SegmentsAre(n) ==
    /\ Segments \in Seq(Rows)
    /\ oldest \in Blocks =>
          /\ Len(Segments) = n
          /\ \A i \in 1 .. n : Segments[i] = files[Place(i - 1, n)].rows
    /\ oldest \notin Blocks =>
          /\ Len(Segments) = n - 1
          /\ \A i \in 1 .. n - 1 : Segments[i] = files[Place(i, n)].rows

LEMMA SegmentsOfRing == \A n \in Nat \ {0} : CInv /\ ShapeInv(n) => SegmentsAre(n)
<1> SUFFICES ASSUME NEW n \in Nat \ {0}, CInv, ShapeInv(n) PROVE SegmentsAre(n)
  OBVIOUS
<1>1. /\ oldest \in 1 .. n /\ Blocks \cup {oldest} = 1 .. n
      /\ (oldest \in Blocks => Blocks = 1 .. n)
      /\ (oldest \notin Blocks => Blocks = (1 .. n) \ {oldest})
  BY DEF ShapeInv, After
<1>2. RingSize = n
  <2>1. 1 .. n \in SUBSET Int /\ n \in 1 .. n /\ \A y \in 1 .. n : y <= n
    OBVIOUS
  <2> QED
    BY <1>1, <2>1, MaxIsUpperEnd DEF RingSize
<1>3. \A b \in Blocks : files[b].rows \in Rows
  BY DEF CInv, TypeOK, File, Rows
<1>4. \A d : Around(d) = Place(d, n)
  BY <1>2 DEF Around, Place
<1>5. CASE oldest \in Blocks
  <2>1. Segments = [i \in 1 .. n |-> files[Place(i - 1, n)].rows]
    BY <1>2, <1>4, <1>5 DEF Segments
  <2>2. \A i \in 1 .. n : Place(i - 1, n) \in 1 .. n
    BY <1>1 DEF Place
  <2>3. Segments \in [1 .. n -> Rows]
    BY <1>1, <1>3, <1>5, <2>1, <2>2
  <2>4. Segments \in Seq(Rows) /\ Len(Segments) = n
    BY <2>3
  <2> QED
    BY <1>5, <2>1, <2>4 DEF SegmentsAre
<1>6. CASE oldest \notin Blocks
  <2>1. Segments = [i \in 1 .. n - 1 |-> files[Place(i, n)].rows]
    BY <1>2, <1>4, <1>6 DEF Segments
  <2>2. \A i \in 1 .. n - 1 : Place(i, n) \in (1 .. n) \ {oldest}
    BY <1>1 DEF Place
  <2>3. Segments \in [1 .. n - 1 -> Rows]
    BY <1>1, <1>3, <1>6, <2>1, <2>2
  <2>4. Segments \in Seq(Rows) /\ Len(Segments) = n - 1
    BY <2>3
  <2> QED
    BY <1>6, <2>1, <2>4 DEF SegmentsAre
<1> QED
  BY <1>5, <1>6

(* Initially the log is one empty segment. *)
LEMMA InitLog == ASSUME Sized, Init PROVE Log!Init /\ GapInv
<1>1. CInv /\ Blocks = {1} /\ files[1] = Fresh /\ oldest = 1
  BY InitCInv DEF Init, Blocks
<1>2. RingSize = 1
  <2>1. {1} \in SUBSET Int /\ 1 \in {1} /\ \A y \in {1} : y <= 1
    OBVIOUS
  <2>2. Blocks \cup {oldest} = {1}
    BY <1>1
  <2> QED
    BY <2>1, <2>2, MaxIsUpperEnd DEF RingSize
<1>3. Around(0) = 1
  BY <1>1, <1>2 DEF Around
<1>4. Segments = [i \in 1 .. 1 |-> {}]
  <2>1. Segments = [i \in 1 .. 1 |-> files[Around(i - 1)].rows]
    BY <1>1, <1>2 DEF Segments
  <2>2. \A i \in 1 .. 1 : files[Around(i - 1)].rows = {}
    BY <1>1, <1>3 DEF Fresh
  <2> QED
    BY <2>1, <2>2
<1>5. Segments = << {} >>
  BY <1>4
<1>6. GapInv
  BY <1>1, BlockStoreAssumption DEF GapInv, NothingStored, Init, Fresh
<1> QED
  BY <1>5, <1>6 DEF Log!Init

(* Steps that leave the files and oldestBlock alone are invisible. *)
LEMMA SameSegments == ASSUME files' = files, oldest' = oldest PROVE Segments' = Segments
BY DEF Segments, Around, RingSize, Blocks

(* What the log stores is what the blocks store. *)
LEMMA StoredInBlocks ==
    ASSUME CInv, NEW n \in Nat \ {0}, ShapeInv(n)
    PROVE  Log!Stored = UNION {files[b].rows : b \in Blocks}
<1>1. /\ oldest \in 1 .. n /\ (oldest \in Blocks => Blocks = 1 .. n)
      /\ (oldest \notin Blocks => Blocks = (1 .. n) \ {oldest})
  BY DEF ShapeInv, After
<1>2. CASE oldest \in Blocks
  <2>1. \A i \in 1 .. n : Place(i - 1, n) \in 1 .. n
    BY <1>1 DEF Place
  <2>2. \A b \in 1 .. n : \E i \in 1 .. n : Place(i - 1, n) = b
    <3> TAKE b \in 1 .. n
    <3>1. CASE b >= oldest
      <4>1. b - oldest + 1 \in 1 .. n /\ Place((b - oldest + 1) - 1, n) = b
        BY <1>1, <3>1 DEF Place
      <4> USE <4>1
      <4> WITNESS b - oldest + 1 \in 1 .. n
      <4> QED
        OBVIOUS
    <3>2. CASE b < oldest
      <4>1. b - oldest + n + 1 \in 1 .. n /\ Place((b - oldest + n + 1) - 1, n) = b
        BY <1>1, <3>2 DEF Place
      <4> USE <4>1
      <4> WITNESS b - oldest + n + 1 \in 1 .. n
      <4> QED
        OBVIOUS
    <3> QED
      BY <1>1, <3>1, <3>2
  <2>3. Log!Stored = UNION {Segments[i] : i \in 1 .. n}
    BY <1>2, SegmentsOfRing DEF SegmentsAre, Log!Stored
  <2>4. \A i \in 1 .. n : Segments[i] = files[Place(i - 1, n)].rows
    BY <1>2, SegmentsOfRing DEF SegmentsAre
  <2>5. {Segments[i] : i \in 1 .. n} = {files[b].rows : b \in Blocks}
    <3>1. ASSUME NEW i \in 1 .. n PROVE Segments[i] \in {files[b].rows : b \in Blocks}
      BY <1>1, <1>2, <2>1, <2>4
    <3>2. ASSUME NEW b \in Blocks PROVE files[b].rows \in {Segments[i] : i \in 1 .. n}
      BY <1>1, <1>2, <2>2, <2>4
    <3> QED
      BY <3>1, <3>2
  <2> QED
    BY <2>3, <2>5
<1>3. CASE oldest \notin Blocks
  <2>1. \A i \in 1 .. n - 1 : Place(i, n) \in (1 .. n) \ {oldest}
    BY <1>1 DEF Place
  <2>2. \A b \in (1 .. n) \ {oldest} : \E i \in 1 .. n - 1 : Place(i, n) = b
    <3> TAKE b \in (1 .. n) \ {oldest}
    <3>1. CASE b > oldest
      <4>1. b - oldest \in 1 .. n - 1 /\ Place(b - oldest, n) = b
        BY <1>1, <3>1 DEF Place
      <4> QED
        BY <4>1
    <3>2. CASE b < oldest
      <4>1. b - oldest + n \in 1 .. n - 1 /\ Place(b - oldest + n, n) = b
        BY <1>1, <3>2 DEF Place
      <4> QED
        BY <4>1
    <3> QED
      BY <1>1, <3>1, <3>2
  <2>3. Log!Stored = UNION {Segments[i] : i \in 1 .. n - 1}
    BY <1>3, SegmentsOfRing DEF SegmentsAre, Log!Stored
  <2>4. \A i \in 1 .. n - 1 : Segments[i] = files[Place(i, n)].rows
    BY <1>3, SegmentsOfRing DEF SegmentsAre
  <2>5. {Segments[i] : i \in 1 .. n - 1} = {files[b].rows : b \in Blocks}
    <3>1. ASSUME NEW i \in 1 .. n - 1 PROVE Segments[i] \in {files[b].rows : b \in Blocks}
      BY <1>1, <1>3, <2>1, <2>4
    <3>2. ASSUME NEW b \in Blocks PROVE files[b].rows \in {Segments[i] : i \in 1 .. n - 1}
      BY <1>1, <1>3, <2>2, <2>4
    <3> QED
      BY <3>1, <3>2
  <2> QED
    BY <2>3, <2>5
<1> QED
  BY <1>2, <1>3

-----------------------------------------------------------------------------
(* Where the blocks are, and both lemmas of the next state. *)
LEMMA BlocksOfRing ==
    \A n \in Nat \ {0} : ShapeInv(n) =>
        /\ oldest \in 1 .. n /\ current \in 1 .. n
        /\ Blocks \cup {oldest} = 1 .. n
BY DEF ShapeInv, After

LEMMA NextRing ==
    /\ \A n \in Nat \ {0} : CInv' /\ ShapeInv(n)' => SegmentsAre(n)'
    /\ \A n \in Nat \ {0} : ShapeInv(n)' => oldest' \in 1 .. n /\ Blocks' \cup {oldest'} = 1 .. n
<1>1. (\A n \in Nat \ {0} : CInv /\ ShapeInv(n) => SegmentsAre(n))'
  BY SegmentsOfRing, PTL
<1>2. (\A n \in Nat \ {0} : ShapeInv(n) =>
        /\ oldest \in 1 .. n /\ current \in 1 .. n
        /\ Blocks \cup {oldest} = 1 .. n)'
  BY BlocksOfRing, PTL
<1> QED
  BY <1>1, <1>2

(* Every step is one of the log or invisible to it. *)
LEMMA StepLog ==
    ASSUME Sized, ~RemoveMayFail, CInv, CInv', RingInv, RingInv', GapInv, [Run]_vars
    PROVE  [Log!Next]_Segments /\ GapInv'
<1> PICK n \in Nat \ {0} : ShapeInv(n) /\ SizeInv(n) /\ OrderInv(n)
  BY DEF RingInv
<1> PICK m \in Nat \ {0} : ShapeInv(m)'
  BY DEF RingInv
<1>t. /\ arrived \in Nat /\ (pc # "idle" => pending \in Point)
      /\ pc \in Steady => handle = current
  BY DEF CInv, TypeOK, PendingInv, ConfigInv, ShapeInv
<1>s. SegmentsAre(n)
  BY SegmentsOfRing
<1>s2. SegmentsAre(m)'
  BY NextRing
<1>m. oldest' \in 1 .. m /\ Blocks' \cup {oldest'} = 1 .. m
  BY NextRing
<1>n. oldest \in 1 .. n /\ current \in 1 .. n /\ Blocks \cup {oldest} = 1 .. n
  BY BlocksOfRing
<1>e. \A j, k \in Nat \ {0} : 1 .. j = 1 .. k => j = k
  <2> SUFFICES ASSUME NEW j \in Nat \ {0}, NEW k \in Nat \ {0}, 1 .. j = 1 .. k PROVE j = k
    OBVIOUS
  <2> QED
    BY RangeEnds
(* Nothing but time passes for the files. *)
<1>1. ASSUME files' = files, oldest' = oldest, pc # "idle" => pc' # "idle" /\ arrived' = arrived
                                                        /\ pending' = pending,
             pc = "idle" => \/ pc' = "idle" /\ arrived' = arrived
                            \/ /\ pc' # "idle" /\ arrived' = arrived + 1 /\ arrived' <= MaxPoints
                               /\ pending'.ts \in TimeStamp
      PROVE  [Log!Next]_Segments /\ GapInv'
  <2>1. Segments' = Segments
    BY <1>1, SameSegments
  <2>2. LastStored' = LastStored
    BY <1>1, <1>t DEF LastStored
  <2>3. GapInv'
    BY <1>1, <1>t, <2>2 DEF GapInv, NothingStored, Blocks
  <2> QED
    BY <2>1, <2>3
<1>2. CASE CreateNewBlock
  <2> USE <1>2 DEF CreateNewBlock
  <2>1. current = n /\ oldest = 1 /\ Blocks = 1 .. n /\ Fits(n + 1)
    BY AlwaysIsFits DEF ShapeInv, SizeInv, After
  <2>2. files' = Put(files, n + 1, Fresh)
    BY <2>1 DEF CopyBtemp, diskVars
  <2>3. /\ Blocks' = 1 .. n + 1 /\ oldest' = 1
        /\ \A b \in 1 .. n : files'[b] = files[b]
        /\ files'[n + 1] = Fresh
    BY <2>1, <2>2 DEF Blocks, Put
  <2>4. m = n + 1
    <3>1. n + 1 \in Nat \ {0} /\ 1 .. m = 1 .. n + 1
      BY <1>m, <2>3, SMTT(30)
    <3> QED
      BY <1>e, <3>1
  <2>5. Segments \in Seq(Rows) /\ Len(Segments) = n /\ {} \in Rows
    BY <1>s, <2>1 DEF SegmentsAre, Rows
  <2>6. Segments' \in Seq(Rows) /\ Len(Segments') = n + 1
    BY <1>s2, <2>3, <2>4 DEF SegmentsAre
  <2>7. \A i \in 1 .. n : Segments'[i] = Segments[i]
    <3> TAKE i \in 1 .. n
    <3>1. Segments[i] = files[Place(i - 1, n)].rows
      BY <1>s, <2>1 DEF SegmentsAre
    <3>2. Segments'[i] = files'[Place(i - 1, n + 1)'].rows
      BY <1>s2, <2>3, <2>4 DEF SegmentsAre, Place
    <3>3. Place(i - 1, n) = i /\ Place(i - 1, n + 1)' = i
      BY <2>1, <2>3 DEF Place
    <3> QED
      BY <2>3, <3>1, <3>2, <3>3
  <2>8. Segments'[n + 1] = {}
    <3>1. Segments'[n + 1] = files'[Place((n + 1) - 1, n + 1)'].rows
      BY <1>s2, <2>3, <2>4 DEF SegmentsAre
    <3>2. Place((n + 1) - 1, n + 1)' = n + 1
      BY <2>3 DEF Place
    <3> QED
      BY <2>3, <3>1, <3>2 DEF Fresh
  <2>9. Segments' = Append(Segments, {})
    BY <2>5, <2>6, <2>7, <2>8, AppendProperties, SeqEqual
  <2>10. Len(Segments) < DiskBlocks
    BY <2>1, <2>5, CapacityIsFits
  <2>11. GapInv'
    BY <1>t, <2>1, <2>3 DEF GapInv, NothingStored, LastStored, boundVars, Fresh
  <2> QED
    BY <2>9, <2>10, <2>11 DEF Log!Next, Log!Roll
<1>3. CASE RemoveOldest
  <2> USE <1>3 DEF RemoveOldest
  <2>1. Blocks = 1 .. n /\ oldest \in Blocks /\ Fits(n) /\ NoMore(n)
    BY <1>n, AlwaysIsFits DEF ShapeInv, SizeInv
  <2>2. /\ Blocks' = (1 .. n) \ {oldest} /\ oldest' = oldest
        /\ \A b \in Blocks' : files'[b] = files[b]
    BY <2>1 DEF Blocks, Drop, memoryVars
  <2>3. m = n
    <3>1. 1 .. m = 1 .. n
      BY <1>m, <1>n, <2>1, <2>2
    <3> QED
      BY <1>e, <3>1
  <2>4. Segments \in Seq(Rows) /\ Len(Segments) = n /\ Segments # << >>
    BY <1>s, <2>1, EmptySeq DEF SegmentsAre
  <2>5. Segments' \in Seq(Rows) /\ Len(Segments') = n - 1
    BY <1>s2, <2>2, <2>3 DEF SegmentsAre
  <2>6. \A i \in 1 .. n - 1 : Segments'[i] = Segments[i + 1]
    <3> TAKE i \in 1 .. n - 1
    <3>1. Segments[i + 1] = files[Place((i + 1) - 1, n)].rows
      BY <1>s, <2>1 DEF SegmentsAre
    <3>2. Segments'[i] = files'[Place(i, n)'].rows
      BY <1>s2, <2>2, <2>3 DEF SegmentsAre
    <3>3. Place((i + 1) - 1, n) = Place(i, n)' /\ Place(i, n)' \in Blocks'
      BY <1>n, <2>2 DEF Place
    <3> QED
      BY <2>2, <3>1, <3>2, <3>3
  <2>7. Segments' = Tail(Segments)
    BY <2>4, <2>5, <2>6, HeadTailProperties, SeqEqual
  <2>8. Len(Segments) = DiskBlocks
    BY <2>1, <2>4, FullRingIsFullLog
  <2>9. GapInv'
    <3>1. /\ arrived' <= MaxPoints
          /\ pc' # "idle" => arrived' >= 1 /\ pending'.ts \in TimeStamp
          /\ LastStored' = LastStored
      BY DEF GapInv, LastStored, boundVars
    <3>2. CASE \E b \in Blocks' : \E r \in files[b].rows : r.n = LastStored
      BY <2>2, <3>1, <3>2 DEF GapInv
    <3>3. CASE ~\E b \in Blocks' : \E r \in files[b].rows : r.n = LastStored
      <4>0. CASE \A b \in Blocks' : files[b].rows = {}
        <5>1. NothingStored'
          BY <2>2, <4>0 DEF NothingStored
        <5> QED
          BY <3>1, <5>1 DEF GapInv
      <4>1. SUFFICES ASSUME NEW b \in Blocks', files[b].rows # {} PROVE FALSE
        BY <4>0
      <4>2. PICK r \in files[oldest].rows : r.n = LastStored
        <5>1. ~NothingStored
          BY <2>1, <2>2, <4>1 DEF NothingStored
        <5> QED
          BY <2>1, <2>2, <3>3, <5>1 DEF GapInv
      <4>3. PICK s \in files[b].rows : TRUE
        BY <4>1
      <4>4. Position(oldest, n) < Position(b, n)
        BY <1>n, <2>2, <4>1 DEF Position
      <4>5. r.n < s.n /\ s.n <= LastStored
        BY <2>1, <2>2, <4>1, <4>2, <4>3, <4>4 DEF OrderInv, Older
      <4>6. LastStored \in Int /\ s.n \in Int
        BY <1>t, <2>1, <2>2, <4>3, SMTT(30) DEF LastStored, CInv, TypeOK, File, Point
      <4> QED
        BY <4>2, <4>5, <4>6
    <3> QED
      BY <3>2, <3>3
  <2> QED
    BY <2>7, <2>8, <2>9 DEF Log!Next, Log!DropOldest
<1>4. CASE RefillOldest
  <2> USE <1>4 DEF RefillOldest
  <2>1. /\ Blocks = (1 .. n) \ {oldest} /\ oldest \notin Blocks /\ DOMAIN catalog = 1 .. n
        /\ Fits(n)
    BY <1>n, AlwaysIsFits DEF ShapeInv, SizeInv
  <2>2. files' = Put(files, oldest, Fresh)
    BY <2>1 DEF CopyBtemp, diskVars
  <2>3. /\ Blocks' = 1 .. n /\ files'[oldest] = Fresh
        /\ \A b \in Blocks : files'[b] = files[b]
    BY <1>n, <2>1, <2>2 DEF Blocks, Put
  <2>4. oldest' = After(oldest, n) /\ oldest' \in Blocks'
    BY <1>n, <2>1, <2>3, RangeEnds DEF NextOldest, MaxBlockNumber, After
  <2>5. m = n
    <3>1. 1 .. m = 1 .. n
      BY <1>m, <2>3, <2>4
    <3> QED
      BY <1>e, <3>1
  <2>6. Segments \in Seq(Rows) /\ Len(Segments) = n - 1 /\ {} \in Rows
    BY <1>s, <2>1 DEF SegmentsAre, Rows
  <2>7. Segments' \in Seq(Rows) /\ Len(Segments') = n
    BY <1>s2, <2>4, <2>5 DEF SegmentsAre
  <2>8. \A i \in 1 .. n - 1 : Segments'[i] = Segments[i]
    <3> TAKE i \in 1 .. n - 1
    <3>1. Segments[i] = files[Place(i, n)].rows
      BY <1>s, <2>1 DEF SegmentsAre
    <3>2. Segments'[i] = files'[Place(i - 1, n)'].rows
      BY <1>s2, <2>4, <2>5 DEF SegmentsAre
    <3>3. Place(i, n) = Place(i - 1, n)' /\ Place(i, n) \in Blocks
      BY <1>n, <2>1, <2>4 DEF Place, After
    <3> QED
      BY <2>3, <3>1, <3>2, <3>3
  <2>9. Segments'[n] = {}
    <3>1. Segments'[n] = files'[Place(n - 1, n)'].rows
      BY <1>s2, <2>4, <2>5 DEF SegmentsAre
    <3>2. Place(n - 1, n)' = oldest
      BY <1>n, <2>4 DEF Place, After
    <3> QED
      BY <2>3, <3>1, <3>2 DEF Fresh
  <2>10. Segments' = Append(Segments, {})
    BY <2>6, <2>7, <2>8, <2>9, AppendProperties, SeqEqual
  <2>11. Len(Segments) < DiskBlocks
    BY <2>1, <2>6, CapacityIsFits
  <2>12. GapInv'
    <3>1. \A b \in Blocks' : files'[b].rows # {} => b \in Blocks /\ files'[b] = files[b]
      BY <1>n, <2>1, <2>3 DEF Fresh
    <3> QED
      BY <2>1, <2>3, <3>1 DEF GapInv, NothingStored, LastStored, boundVars
  <2> QED
    BY <2>10, <2>11, <2>12 DEF Log!Next, Log!Roll
<1>5. CASE InsertPoint
  <2> USE <1>5 DEF InsertPoint
  <2>1. handle = current /\ Blocks = 1 .. n /\ oldest = After(current, n) /\ oldest \in Blocks
    BY <1>t, <1>n DEF ShapeInv, Steady
  <2>2. PICK g \in Growth :
           files' = [files EXCEPT ![handle].rows = @ \cup {pending}, ![handle].pages = @ + g]
    OBVIOUS
  <2>3. /\ Blocks' = 1 .. n /\ oldest' = oldest
        /\ \A b \in Blocks \ {current} : files'[b] = files[b]
        /\ files'[current].rows = files[current].rows \cup {pending}
    <3>1. files[current] \in File
      BY <1>n, <2>1 DEF CInv, TypeOK
    <3> QED
      BY <1>n, <2>1, <2>2, <3>1 DEF Blocks, memoryVars, File
  <2>4. m = n
    <3>1. 1 .. m = 1 .. n
      BY <1>m, <2>1, <2>3
    <3> QED
      BY <1>e, <3>1
  <2>5. /\ Segments \in Seq(Rows) /\ Len(Segments) = n /\ n \in 1 .. n
        /\ Segments' \in Seq(Rows) /\ Len(Segments') = n
    BY <1>s, <1>s2, <2>1, <2>3, <2>4 DEF SegmentsAre
  <2>6. \A i \in 1 .. n : Segments'[i] = IF i = n THEN Segments[n] \cup {pending} ELSE Segments[i]
    <3> TAKE i \in 1 .. n
    <3>1. Segments[i] = files[Place(i - 1, n)].rows
      BY <1>s, <2>1 DEF SegmentsAre
    <3>2. Segments'[i] = files'[Place(i - 1, n)].rows
      BY <1>s2, <2>1, <2>3, <2>4 DEF SegmentsAre, Place
    <3>3. Place(i - 1, n) \in 1 .. n /\ (Place(i - 1, n) = current <=> i = n)
      BY <1>n, <2>1 DEF Place, After
    <3>4. CASE i = n
      BY <2>3, <3>1, <3>2, <3>3, <3>4
    <3>5. CASE i # n
      BY <2>1, <2>3, <3>1, <3>2, <3>3, <3>5
    <3> QED
      BY <3>4, <3>5
  <2>7. Segments' = [Segments EXCEPT ![n] = @ \cup {pending}]
    <3>1. Segments[n] \cup {pending} \in Rows
      <4>1. Segments[n] \in Rows
        BY <2>5, ElementOfSeq
      <4> QED
        BY <1>t, <4>1 DEF Rows
    <3> DEFINE t == [Segments EXCEPT ![n] = Segments[n] \cup {pending}]
    <3>2. /\ t \in Seq(Rows) /\ Len(t) = n
          /\ \A i \in 1 .. n : t[i] = IF i = n THEN Segments[n] \cup {pending} ELSE Segments[i]
      BY <2>5, <3>1, ExceptSeq
    <3> HIDE DEF t
    <3>3. Segments' = t
      <4>1. Len(Segments') = Len(t) /\ \A i \in 1 .. Len(Segments') : Segments'[i] = t[i]
        BY <2>5, <2>6, <3>2
      <4> QED
        BY <2>5, <3>2, <4>1, SeqEqual
    <3> QED
      BY <3>3 DEF t
  <2>8. Log!Stored = UNION {files[b].rows : b \in Blocks}
    BY StoredInBlocks
  <2>9. pending \in [n : 1 .. MaxPoints, ts : TimeStamp] /\ pending.n = arrived
    <3>1. pending.n = arrived
      BY DEF OrderInv
    <3> QED
      BY <1>t, <3>1, BlockStoreAssumption DEF GapInv, Point
  <2>10. LastStored = arrived - 1
    BY DEF LastStored
  <2>11. \A q \in Log!Stored : q.n < pending.n
    <3> SUFFICES ASSUME NEW b \in Blocks, NEW q \in files[b].rows PROVE q.n < pending.n
      BY <2>8
    <3>1. q.n <= arrived - 1 /\ q.n \in Int
      BY <2>10 DEF OrderInv, CInv, TypeOK, File, Point
    <3> QED
      BY <1>t, <2>9, <3>1
  <2>12. Log!Stored # {} => \E q \in Log!Stored : q.n + 1 = pending.n
    <3> SUFFICES ASSUME Log!Stored # {} PROVE \E q \in Log!Stored : q.n + 1 = pending.n
      OBVIOUS
    <3>1. PICK b \in Blocks : \E r \in files[b].rows : r.n = LastStored
      BY <2>8 DEF GapInv, NothingStored
    <3>2. PICK r \in files[b].rows : r.n = LastStored
      BY <3>1
    <3>3. r \in Log!Stored /\ r.n + 1 = pending.n
      BY <1>t, <2>8, <2>9, <2>10, <3>2
    <3> QED
      BY <3>3
  <2>13. Log!Add(pending)
    BY <2>5, <2>7, <2>11, <2>12 DEF Log!Add, Log!Newest
  <2>14. GapInv'
    <3>1. pending \in files'[current].rows /\ current \in Blocks'
      BY <1>n, <2>3
    <3> QED
      BY <2>9, <3>1 DEF GapInv, LastStored, boundVars
  <2> QED
    BY <2>9, <2>13, <2>14 DEF Log!Next
<1>6. CASE InsertFails
  <2>1. handle = current /\ current \in Blocks /\ files[current].table
    BY <1>6, <1>t, <1>n DEF InsertFails, ShapeInv, SizeInv, Steady
  <2> QED
    BY <1>6, <2>1 DEF InsertFails
<1>7. CASE RemoveFails
  BY <1>7, <1>n DEF RemoveFails, ShapeInv
<1>8. ASSUME NEW ts \in TimeStamp, Store(ts) PROVE [Log!Next]_Segments /\ GapInv'
  BY <1>1, <1>8, <1>t, BlockStoreAssumption DEF Store, diskVars, memoryVars
<1>9. CASE UpdateCatalog
  BY <1>1, <1>9 DEF UpdateCatalog, diskVars, memoryVars, boundVars
<1>10. CASE UpdateCurrentBlock
  BY <1>1, <1>10 DEF UpdateCurrentBlock, diskVars, memoryVars, boundVars
<1>11. CASE UpdateOldestBlock
  BY <1>1, <1>11 DEF UpdateOldestBlock, diskVars, memoryVars, boundVars
<1>12. CASE OpenCurrent
  <2>1. current \in Blocks
    BY <1>12, <1>n DEF OpenCurrent, ShapeInv
  <2> QED
    BY <1>1, <1>12, <2>1 DEF OpenCurrent, OpenFile, boundVars
<1>13. CASE UNCHANGED vars
  BY <1>1, <1>13 DEF vars
<1> QED
  BY <1>2, <1>3, <1>4, <1>5, <1>6, <1>7, <1>8, <1>9, <1>10, <1>11, <1>12, <1>13
     DEF Run, Step, Rotate

-----------------------------------------------------------------------------
(* Without crashes, for well-chosen sizes and files that can be removed,   *)
(* the block files are a bounded log: samples are added to the newest      *)
(* segment with no gap, and only the oldest segment is ever dropped, whole *)
(* and only when no further block fits on the disk.                        *)
THEOREM BlockFilesImplementLog == ASSUME Sized, ~RemoveMayFail PROVE RunSpec => ImplementsLog
<1>1. Init => Log!Init /\ GapInv
  BY InitLog
<1>2. CInv /\ RingInv /\ CInv' /\ RingInv' /\ GapInv /\ [Run]_vars => [Log!Next]_Segments /\ GapInv'
  BY StepLog
<1>3. RunSpec => [](CInv /\ RingInv)
  BY InvariantRing
<1> QED
  BY <1>1, <1>2, <1>3, PTL DEF RunSpec, ImplementsLog, Log!Spec
=============================================================================
