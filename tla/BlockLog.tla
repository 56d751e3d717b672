------------------------------ MODULE BlockLog ------------------------------
(***************************************************************************)
(* What the block files promise the rest of the server when nothing        *)
(* crashes: a bounded log of segments.  Samples are added in order of      *)
(* arrival to the newest segment; a new segment is opened at the end; only *)
(* the oldest segment is ever dropped, whole, and only when the log has    *)
(* all the segments the disk has room for.                                 *)
(***************************************************************************)
EXTENDS Naturals, Sequences

CONSTANTS Sample,    \* what is stored; a sample has a number n
          Capacity   \* how many segments fit on the disk

VARIABLE log         \* the segments (sets of samples), oldest first

Newest == Len(log)

Init == log = << {} >>

Stored == UNION {log[i] : i \in 1 .. Len(log)}

(* The next sample: there is no gap between what is stored and p. *)
Add(p) ==
    /\ \A q \in Stored : q.n < p.n
    /\ Stored # {} => \E q \in Stored : q.n + 1 = p.n
    /\ log' = [log EXCEPT ![Newest] = @ \cup {p}]

Roll == Len(log) < Capacity /\ log' = Append(log, {})

DropOldest == Len(log) = Capacity /\ log' = Tail(log)

Next == (\E p \in Sample : Add(p)) \/ Roll \/ DropOldest

Spec == Init /\ [][Next]_log
=============================================================================
