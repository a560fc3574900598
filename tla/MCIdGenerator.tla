------------------------- MODULE MCIdGenerator --------------------------
(* Small instances of IdGenerator. *)
EXTENDS IdGenerator, TLC

CONSTANTS p1, p2, t1, t2, t3

\* Two goroutines of one process, one of another.
Homes == [t \in Threads |-> IF t = t3 THEN p2 ELSE p1]
=============================================================================
