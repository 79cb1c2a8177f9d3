----------------------------- MODULE MCPthread ------------------------------
(* Pthread with small model values for TLC. *)
EXTENDS Pthread, TLC
CONSTANTS b1, b2, p1, p2, t1, t2

\* One process; or two, with t1 and t2 in the first.
OneSpace == [t \in Thread |-> p1]
TwoSpaces == [t \in Thread |-> IF t \in {t1, t2} THEN p1 ELSE p2]

\* The mutex and the condition variable are in different buckets.
MCAddr == Thread \cup {Lock, CondSeq}
MCHash == [a \in MCAddr |-> IF a = Lock THEN b1 ELSE b2]
Symmetry == Permutations(Thread)
=============================================================================
