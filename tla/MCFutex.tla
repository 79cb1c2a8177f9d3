------------------------------ MODULE MCFutex -------------------------------
(* Futex with small model values for TLC. *)
EXTENDS Futex, TLC
CONSTANTS a1, a2, a3, b1, b2, p1

\* One address space; two addresses share a bucket, the third has its own.
MCSpace == [t \in Thread |-> p1]
MCHash == (a1 :> b1) @@ (a2 :> b1) @@ (a3 :> b2)
Symmetry == Permutations(Thread)
=============================================================================
