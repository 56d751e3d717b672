------------------------------ MODULE FrameQueue ------------------------------
(***************************************************************************)
(* What an AHPChannel promises in one direction: objects come out whole,   *)
(* in the order they went in, none twice and none made up; if the          *)
(* connection ends, the last ones may not come out at all.                 *)
(***************************************************************************)
EXTENDS Sequences

CONSTANT Item
VARIABLES queue, out

Init == queue = << >> /\ out = << >>
Put  == \E x \in Item : queue' = Append(queue, x) /\ UNCHANGED out
Get  == queue # << >> /\ out' = Append(out, Head(queue)) /\ queue' = Tail(queue)
Next == Put \/ Get
Spec == Init /\ [][Next]_<<queue, out>>
=============================================================================
