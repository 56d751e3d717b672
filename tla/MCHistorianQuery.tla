-------------------------- MODULE MCHistorianQuery --------------------------
(* Model-checking instance of HistorianQuery. *)
EXTENDS HistorianQuery

MCFirstPeriod == [begin |-> 0, end |-> 1000]

(* Everything, a range that ends early, one that begins late, one inside.  *)
WideRanges  == {[begin |-> 16, end |-> 25], [begin |-> 16, end |-> 18],
                [begin |-> 18, end |-> 25]}
InnerRanges == {[begin |-> 2, end |-> 2]}
=============================================================================
