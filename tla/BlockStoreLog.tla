---------------------------- MODULE BlockStoreLog ----------------------------
(***************************************************************************)
(* BlockStore as a BlockLog: the block files read around the ring from     *)
(* their old end, as the segments of a log.                                *)
(***************************************************************************)
EXTENDS BlockStore, Sequences

(* The block d places after oldestBlock, and the rows of the blocks in the *)
(* order in which they were begun; oldestBlock itself is missing between   *)
(* its removal and its being copied anew.                                  *)
RingSize == Max(Blocks \cup {oldest})
Around(d) == IF oldest + d > RingSize THEN oldest + d - RingSize ELSE oldest + d
Segments ==
    IF oldest \in Blocks
    THEN [i \in 1 .. RingSize     |-> files[Around(i - 1)].rows]
    ELSE [i \in 1 .. RingSize - 1 |-> files[Around(i)].rows]

(* How many blocks fit on the disk. *)
DiskBlocks == (DiskSize - (MainSize + BtempSize)) \div (SealedPages * PageSize)

Log == INSTANCE BlockLog WITH Sample <- [n : 1 .. MaxPoints, ts : TimeStamp],
                              Capacity <- DiskBlocks, log <- Segments

(* Without crashes the block files are a bounded log without gaps that     *)
(* drops oldest segments only: every step of storeVariablePoint is a step  *)
(* of BlockLog or invisible to it.                                         *)
ImplementsLog == Log!Spec
=============================================================================
