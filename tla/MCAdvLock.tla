------------------------------ MODULE MCAdvLock -----------------------------
EXTENDS AdvLock, TLC

CONSTANTS p1, p2, s1, s2

\* A process changes places with another together with its slot.
Symmetry == {[x \in {p1, p2, s1, s2} |-> x],
             (p1 :> p2) @@ (p2 :> p1) @@ (s1 :> s2) @@ (s2 :> s1)}

MCRanges == {<<0, 3>>, <<1, 2>>}

MCFileOf == [s \in Slot |-> CHOOSE f \in File : TRUE]
MCSlotOf == [s \in Slot |-> IF s = s1 THEN p1 ELSE p2]
=============================================================================
