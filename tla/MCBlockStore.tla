---------------------------- MODULE MCBlockStore ----------------------------
(* Model-checking instance of BlockStore: the storage thread alone, with   *)
(* and without crashes, and its refinement of BlockLog.                    *)
EXTENDS BlockStoreLog

(* The row of block 1 that configure() writes: "now" to a century later.   *)
MCFirstPeriod == [begin |-> 0, end |-> 1000]

(* The sizes of this instance are well chosen, as the proofs assume. *)
ASSUME Sized
=============================================================================
