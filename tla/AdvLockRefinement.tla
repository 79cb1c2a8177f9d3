------------------------- MODULE AdvLockRefinement --------------------------
(***************************************************************************)
(* Proofs that the record table of AdvLock stays canonical and that it     *)
(* implements ByteLocks twice, for every set of processes, slots, files    *)
(* and ranges and every size of the table:                                 *)
(*                                                                         *)
(*   TableCanonical   a holder's records are apart and fit into the table  *)
(*   FcntlIsByteLocks the POSIX records are byte locks held by processes   *)
(*   FlockIsByteLocks the BSD records are file locks held by slots         *)
(*                                                                         *)
(* A byte has at most one record of a holder because the records are       *)
(* apart; so clearing a range cuts at most one record on each side, and a  *)
(* new lock has at most one neighbour on each side to merge with.          *)
(***************************************************************************)
EXTENDS AdvLockProofs, FiniteSetTheorems

\* Two records of one holder on one file that are neither overlapping nor
\* mergeable.
Apart(l, m) ==
  \/ l.end < m.start \/ m.end < l.start
  \/ l.type # m.type /\ (l.end = m.start \/ m.end = l.start)

AllApart(L) ==
  \A l, m \in L : l # m /\ SameHolder(l, m) /\ l.file = m.file => Apart(l, m)

Fits(L) == IsFiniteSet(L) /\ Cardinality(L) <= MaxLocks

\* A BSD record is what flock() asked for.
Whole(L) ==
  \A l \in L : l.flock => /\ l.slot \in Slot /\ l.file = fileOf[l.slot]
                          /\ l.owner = slotOf[l.slot] /\ l.start = 0 /\ l.end = Eof

Canonical(L) == AllApart(L) /\ Fits(L) /\ Whole(L)

\* A request for r meets the record l of its own holder.
Hit(l, r) == ~l.flock /\ l.file = r.file /\ l.owner = r.owner /\ ranges_overlap(r, l)

\* What clearing the range of r makes of the record l
PartOf(m, l, r) ==
  IF Hit(l, r) THEN \/ m = [l EXCEPT !.end = r.start] /\ l.start < r.start
                    \/ m = [l EXCEPT !.start = r.end] /\ l.end > r.end
  ELSE m = l
-----------------------------------------------------------------------------
(* Clearing a range *)

Hits(L, r)  == {l \in L : Hit(l, r)}
LeftOf(L, r)  == {[l EXCEPT !.end = r.start] : l \in {h \in Hits(L, r) : h.start < r.start}}
RightOf(L, r) == {[l EXCEPT !.start = r.end] : l \in {h \in Hits(L, r) : h.end > r.end}}
Kept(L, r) == (L \ Hits(L, r)) \cup LeftOf(L, r)

\* posix_clear_owner_range in these terms
LEMMA ClearParts ==
  ASSUME NEW L, NEW r
  PROVE  posix_clear_owner_range(L, r) =
           IF Cardinality(Kept(L, r) \cup RightOf(L, r)) <= MaxLocks
           THEN Kept(L, r) \cup RightOf(L, r) ELSE Kept(L, r)
BY DEF posix_clear_owner_range, Kept, LeftOf, RightOf, Hits, Hit

\* Every record of the cleared table is a part of one of the old table.
LEMMA ClearPartOf ==
  ASSUME NEW L, Good(L), NEW r \in Record, r.start < r.end,
         NEW m \in Kept(L, r) \cup RightOf(L, r)
  PROVE  m \in Record /\ \E l \in L : Within(m, l) /\ PartOf(m, l, r)
<1>1. CASE m \in L \ Hits(L, r)
  <2>1. m \in Record /\ m.start < m.end
    BY <1>1 DEF Good
  <2>2. Within(m, m) /\ PartOf(m, m, r)
    BY <1>1, <2>1 DEF Within, PartOf, Hits, Record
  <2> QED
    BY <1>1, <2>1, <2>2
<1>2. CASE m \in LeftOf(L, r)
  <2>1. PICK l \in L : Hit(l, r) /\ l.start < r.start /\ m = [l EXCEPT !.end = r.start]
    BY <1>2 DEF LeftOf, Hits
  <2>2. l \in Record
    BY DEF Good
  <2>3. m \in Record /\ Within(m, l)
    BY <2>1, <2>2 DEF Within, Hit, ranges_overlap, Record
  <2> QED
    BY <2>1, <2>3 DEF PartOf
<1>3. CASE m \in RightOf(L, r)
  <2>1. PICK l \in L : Hit(l, r) /\ l.end > r.end /\ m = [l EXCEPT !.start = r.end]
    BY <1>3 DEF RightOf, Hits
  <2>2. l \in Record
    BY DEF Good
  <2>3. m \in Record /\ Within(m, l)
    BY <2>1, <2>2 DEF Within, Hit, ranges_overlap, Record
  <2> QED
    BY <2>1, <2>3 DEF PartOf
<1> QED
  BY <1>1, <1>2, <1>3 DEF Kept

\* Parts of records that are apart are apart, and so are the two remainders of
\* one record.
LEMMA PartsApart ==
  ASSUME NEW L, Good(L), AllApart(L), NEW r \in Record, r.start < r.end
  PROVE  AllApart(Kept(L, r) \cup RightOf(L, r))
<1> SUFFICES ASSUME NEW a \in Kept(L, r) \cup RightOf(L, r),
                    NEW b \in Kept(L, r) \cup RightOf(L, r),
                    a # b, SameHolder(a, b), a.file = b.file
             PROVE  Apart(a, b)
  BY DEF AllApart
<1>1. PICK k \in L : Within(a, k) /\ PartOf(a, k, r)
  BY ClearPartOf
<1>2. PICK l \in L : Within(b, l) /\ PartOf(b, l, r)
  BY ClearPartOf
<1>3. k \in Record /\ l \in Record /\ a \in Record /\ b \in Record
  BY ClearPartOf DEF Good
<1>4. CASE k = l
  <2>1. Hit(k, r)
    BY <1>1, <1>2, <1>4 DEF PartOf
  <2>2. \/ a.end = r.start /\ b.start = r.end
        \/ b.end = r.start /\ a.start = r.end
    BY <1>1, <1>2, <1>3, <1>4, <2>1 DEF PartOf, Record
  <2> QED
    BY <1>3, <2>2 DEF Apart, Record
<1>5. CASE k # l
  <2>1. SameHolder(k, l) /\ k.file = l.file
    BY <1>1, <1>2 DEF Within, SameHolder
  <2>2. Apart(k, l)
    BY <1>5, <2>1 DEF AllApart
  <2> QED
    BY <1>1, <1>2, <1>3, <2>2 DEF Apart, Within, Record
<1> QED
  BY <1>4, <1>5

\* The holder of r has nothing left in its range.
LEMMA ClearEmpties ==
  ASSUME NEW L, Good(L), NEW r \in Record, r.start < r.end,
         NEW m \in Kept(L, r) \cup RightOf(L, r), ~m.flock, m.file = r.file, m.owner = r.owner
  PROVE  m.end <= r.start \/ r.end <= m.start
<1>1. PICK l \in L : Within(m, l) /\ PartOf(m, l, r)
  BY ClearPartOf
<1>2. l \in Record /\ m \in Record
  BY ClearPartOf DEF Good
<1> QED
  BY <1>1, <1>2 DEF PartOf, Hit, ranges_overlap, Record

\* One record at most sticks out of the range on the left ...
LEMMA OneLeft ==
  ASSUME NEW L, Good(L), AllApart(L), NEW r \in Record, r.start < r.end,
         NEW a \in L, NEW b \in L, Hit(a, r), Hit(b, r), a.start < r.start, b.start < r.start
  PROVE  a = b
<1>1. a \in Record /\ b \in Record
  BY DEF Good
<1>2. a.flock = b.flock
  BY <1>1 DEF Hit, Record
<1>3. SameHolder(a, b) /\ a.file = b.file
  BY <1>2 DEF Hit, SameHolder
<1>4. a # b => Apart(a, b)
  BY <1>3 DEF AllApart
<1> QED
  BY <1>1, <1>4 DEF Apart, Hit, ranges_overlap, Record

\* ... and one on the right.
LEMMA OneRight ==
  ASSUME NEW L, Good(L), AllApart(L), NEW r \in Record, r.start < r.end,
         NEW a \in L, NEW b \in L, Hit(a, r), Hit(b, r), a.end > r.end, b.end > r.end
  PROVE  a = b
<1>1. a \in Record /\ b \in Record
  BY DEF Good
<1>2. a.flock = b.flock
  BY <1>1 DEF Hit, Record
<1>3. SameHolder(a, b) /\ a.file = b.file
  BY <1>2 DEF Hit, SameHolder
<1>4. a # b => Apart(a, b)
  BY <1>3 DEF AllApart
<1> QED
  BY <1>1, <1>4 DEF Apart, Hit, ranges_overlap, Record

\* Without the right remainder the cleared table is no larger than the old one.
LEMMA KeptFits ==
  ASSUME NEW L, Good(L), AllApart(L), Fits(L), NEW r \in Record, r.start < r.end
  PROVE  Fits(Kept(L, r)) /\ Cardinality(Kept(L, r)) \in Nat
<1>0. IsFiniteSet(L) /\ Cardinality(L) \in Nat /\ Cardinality(L) <= MaxLocks
  BY FS_CardinalityType DEF Fits
<1>1. CASE LeftOf(L, r) = {}
  <2>1. Kept(L, r) \in SUBSET L
    BY <1>1 DEF Kept
  <2>2. IsFiniteSet(Kept(L, r)) /\ Cardinality(Kept(L, r)) <= Cardinality(L)
    BY <1>0, <2>1, FS_Subset
  <2>3. Cardinality(Kept(L, r)) \in Nat
    BY <2>2, FS_CardinalityType
  <2> QED
    BY <1>0, <2>2, <2>3, AdvLockAssumption DEF Fits
<1>2. CASE LeftOf(L, r) # {}
  <2>1. PICK l \in L : Hit(l, r) /\ l.start < r.start
    BY <1>2 DEF LeftOf, Hits
  <2> DEFINE x == [l EXCEPT !.end = r.start]
             M == L \ {l}
  <2>2. \A h \in Hits(L, r) : h.start < r.start => h = l
    BY <2>1, OneLeft DEF Hits
  <2>3. LeftOf(L, r) \subseteq {x}
    BY <2>2 DEF LeftOf
  <2>4. l \in Hits(L, r)
    BY <2>1 DEF Hits
  <2>5. Kept(L, r) \in SUBSET (M \cup {x})
    BY <2>3, <2>4 DEF Kept
  <2>6. IsFiniteSet(M) /\ Cardinality(M) = Cardinality(L) - 1
    BY <1>0, FS_RemoveElement
  <2> HIDE DEF x, M
  <2>7. IsFiniteSet(M \cup {x}) /\ Cardinality(M \cup {x}) <= Cardinality(L)
    <3>1. /\ IsFiniteSet(M \cup {x})
          /\ Cardinality(M \cup {x}) = IF x \in M THEN Cardinality(M) ELSE Cardinality(M) + 1
      BY <2>6, FS_AddElement
    <3> QED
      BY <1>0, <2>6, <3>1
  <2>8. IsFiniteSet(Kept(L, r)) /\ Cardinality(Kept(L, r)) <= Cardinality(M \cup {x})
    BY <2>5, <2>7, FS_Subset
  <2>9. Cardinality(Kept(L, r)) \in Nat /\ Cardinality(M \cup {x}) \in Nat
    BY <2>7, <2>8, FS_CardinalityType
  <2> QED
    BY <1>0, <2>7, <2>8, <2>9, AdvLockAssumption DEF Fits
<1> QED
  BY <1>1, <1>2

\* When the right remainder does not fit, the table is full without it.
LEMMA RightFits ==
  ASSUME NEW L, Good(L), AllApart(L), Fits(L), NEW r \in Record, r.start < r.end
  PROVE  /\ IsFiniteSet(Kept(L, r) \cup RightOf(L, r))
         /\ Cardinality(Kept(L, r) \cup RightOf(L, r)) > MaxLocks =>
              Cardinality(Kept(L, r)) = MaxLocks
<1>0. /\ IsFiniteSet(Kept(L, r)) /\ Cardinality(Kept(L, r)) \in Nat
      /\ Cardinality(Kept(L, r)) <= MaxLocks
  BY KeptFits DEF Fits
<1>1. CASE RightOf(L, r) = {}
  <2> DEFINE K == Kept(L, r)
             A == Kept(L, r) \cup RightOf(L, r)
  <2>1. A = K
    BY <1>1
  <2>2. MaxLocks \in Nat
    BY AdvLockAssumption
  <2> HIDE DEF K, A
  <2>3. IsFiniteSet(A) /\ ~(Cardinality(A) > MaxLocks)
    BY <1>0, <2>1, <2>2 DEF K
  <2> QED
    BY <2>3 DEF A
<1>2. CASE RightOf(L, r) # {}
  <2>1. PICK l \in L : Hit(l, r) /\ l.end > r.end
    BY <1>2 DEF RightOf, Hits
  <2> DEFINE x == [l EXCEPT !.start = r.end]
  <2>2. \A h \in Hits(L, r) : h.end > r.end => h = l
    BY <2>1, OneRight DEF Hits
  <2>3. RightOf(L, r) = {x}
    <3>1. RightOf(L, r) \subseteq {x}
      BY <2>2 DEF RightOf
    <3> QED
      BY <1>2, <3>1
  <2> HIDE DEF x
  <2>4. /\ IsFiniteSet(Kept(L, r) \cup {x})
        /\ Cardinality(Kept(L, r) \cup {x}) =
             IF x \in Kept(L, r) THEN Cardinality(Kept(L, r)) ELSE Cardinality(Kept(L, r)) + 1
    BY <1>0, FS_AddElement
  <2> QED
    BY <1>0, <2>3, <2>4, AdvLockAssumption
<1> QED
  BY <1>1, <1>2

\* Clearing keeps the table canonical.
LEMMA ClearCanonical ==
  ASSUME NEW L, Good(L), Canonical(L), NEW r \in Record, r.start < r.end
  PROVE  Canonical(posix_clear_owner_range(L, r))
<1> DEFINE C == posix_clear_owner_range(L, r)
           A == Kept(L, r) \cup RightOf(L, r)
<1>0. AllApart(L) /\ Fits(L) /\ Whole(L)
  BY DEF Canonical
<1>1. C = IF Cardinality(A) <= MaxLocks THEN A ELSE Kept(L, r)
  BY ClearParts
<1>2. AllApart(A)
  BY <1>0, PartsApart
<1>3. Fits(Kept(L, r)) /\ IsFiniteSet(A)
  BY <1>0, KeptFits, RightFits
<1>4. C \subseteq A
  BY <1>1
<1>5. Fits(C)
  BY <1>1, <1>3 DEF Fits
<1>6. ASSUME NEW m \in A, m.flock
      PROVE  m \in L
  <2>1. PICK l \in L : Within(m, l) /\ PartOf(m, l, r)
    BY ClearPartOf
  <2>2. l.flock
    BY <1>6, <2>1 DEF Within
  <2> QED
    BY <2>1, <2>2 DEF PartOf, Hit
<1> HIDE DEF A, C
<1>7. AllApart(C)
  BY <1>2, <1>4 DEF AllApart
<1>8. Whole(C)
  BY <1>0, <1>4, <1>6 DEF Whole
<1> QED
  BY <1>5, <1>7, <1>8 DEF Canonical, C
-----------------------------------------------------------------------------
(* Merging *)

\* The records that coalesce_posix replaces by one
Touching(L, r) ==
  {l \in L : /\ ~l.flock /\ l.file = r.file /\ l.owner = r.owner /\ l.type = r.type
             /\ l.start <= r.end /\ r.start <= l.end} \cup {r}

\* r is granted in L: its holder has nothing in its range.
Free(L, r) ==
  \A l \in L : ~l.flock /\ l.file = r.file /\ l.owner = r.owner =>
    l.end <= r.start \/ r.end <= l.start

\* The merged record reaches from its left neighbour to its right one, if there
\* are any: there is one of each at most.
LEMMA Neighbours ==
  ASSUME NEW L, Good(L), AllApart(L), NEW r \in Record, r.start < r.end, ~r.flock, Free(L, r)
  PROVE  \E a, b \in Touching(L, r) :
           /\ \A l \in Touching(L, r) : a.start <= l.start /\ l.end <= b.end
           /\ a = r \/ a.end = r.start
           /\ b = r \/ b.start = r.end
<1> DEFINE T == Touching(L, r)
<1>1. ASSUME NEW l \in T
      PROVE  /\ l \in Record /\ l.start < l.end
             /\ l = r \/ (l \in L /\ (l.end = r.start \/ l.start = r.end))
             /\ l.flock = r.flock /\ l.file = r.file /\ l.owner = r.owner /\ l.type = r.type
  <2>1. CASE l = r
    BY <2>1
  <2>2. CASE l # r
    <3>1. /\ l \in L /\ ~l.flock /\ l.file = r.file /\ l.owner = r.owner /\ l.type = r.type
          /\ l.start <= r.end /\ r.start <= l.end
      BY <2>2 DEF Touching
    <3>2. l \in Record /\ l.start < l.end /\ (l.end <= r.start \/ r.end <= l.start)
      BY <3>1 DEF Good, Free
    <3>3. l.flock = r.flock
      BY <3>1, <3>2 DEF Record
    <3> QED
      BY <3>1, <3>2, <3>3 DEF Record
  <2> QED
    BY <2>1, <2>2
<1>2. ASSUME NEW k \in T, NEW l \in T, k # r, l # r, k # l
      PROVE  k.end < l.start \/ l.end < k.start
  <2>1. SameHolder(k, l) /\ k.file = l.file /\ k.type = l.type /\ k \in L /\ l \in L
    BY <1>1, <1>2 DEF SameHolder
  <2> QED
    BY <1>2, <2>1 DEF AllApart, Apart
<1>3. r \in T
  BY DEF Touching
<1>4. PICK a \in T : (\A l \in T : a.start <= l.start) /\ (a = r \/ a.end = r.start)
  <2>1. CASE \E l \in T : l # r /\ l.end = r.start
    <3>1. PICK a \in T : a # r /\ a.end = r.start
      BY <2>1
    <3>2. ASSUME NEW l \in T
          PROVE  a.start <= l.start
      <4>1. /\ a.start \in Nat /\ a.end \in Nat /\ l.start \in Nat /\ l.end \in Nat
            /\ r.start \in Nat /\ r.end \in Nat /\ a.start < a.end /\ l.start < l.end
            /\ l = r \/ l.end = r.start \/ l.start = r.end
        BY <1>1 DEF Record
      <4>2. CASE l = r \/ l = a \/ l.start = r.end
        BY <3>1, <4>1, <4>2
      <4>3. CASE l # r /\ l # a /\ l.end = r.start
        BY <1>2, <3>1, <4>1, <4>3
      <4> QED
        BY <4>1, <4>2, <4>3
    <3> QED
      BY <3>1, <3>2
  <2>2. CASE ~\E l \in T : l # r /\ l.end = r.start
    <3>1. ASSUME NEW l \in T
          PROVE  r.start <= l.start
      BY <1>1, <2>2 DEF Record
    <3> QED
      BY <1>3, <3>1
  <2> QED
    BY <2>1, <2>2
<1>5. PICK b \in T : (\A l \in T : l.end <= b.end) /\ (b = r \/ b.start = r.end)
  <2>1. CASE \E l \in T : l # r /\ l.start = r.end
    <3>1. PICK b \in T : b # r /\ b.start = r.end
      BY <2>1
    <3>2. ASSUME NEW l \in T
          PROVE  l.end <= b.end
      <4>1. /\ b.start \in Nat /\ b.end \in Nat /\ l.start \in Nat /\ l.end \in Nat
            /\ r.start \in Nat /\ r.end \in Nat /\ b.start < b.end /\ l.start < l.end
            /\ l = r \/ l.end = r.start \/ l.start = r.end
        BY <1>1 DEF Record
      <4>2. CASE l = r \/ l = b \/ l.end = r.start
        BY <3>1, <4>1, <4>2
      <4>3. CASE l # r /\ l # b /\ l.start = r.end
        BY <1>2, <3>1, <4>1, <4>3
      <4> QED
        BY <4>1, <4>2, <4>3
    <3> QED
      BY <3>1, <3>2
  <2>2. CASE ~\E l \in T : l # r /\ l.start = r.end
    <3>1. ASSUME NEW l \in T
          PROVE  l.end <= r.end
      BY <1>1, <2>2 DEF Record
    <3> QED
      BY <1>3, <3>1
  <2> QED
    BY <2>1, <2>2
<1> HIDE DEF T
<1> QED
  BY <1>4, <1>5 DEF T

\* So coalesce_posix adds exactly one record.
LEMMA CoalesceParts ==
  ASSUME NEW L, Good(L), AllApart(L), NEW r \in Record, r.start < r.end, ~r.flock, Free(L, r)
  PROVE  \E a, b \in Touching(L, r) :
           /\ coalesce_posix(L, r) =
                (L \ Touching(L, r)) \cup {[r EXCEPT !.start = a.start, !.end = b.end]}
           /\ \A l \in Touching(L, r) : a.start <= l.start /\ l.end <= b.end
           /\ a = r \/ a.end = r.start
           /\ b = r \/ b.start = r.end
<1> DEFINE T == Touching(L, r)
           span == {q \in T \X T : \A l \in T : q[1].start <= l.start /\ l.end <= q[2].end}
           merged == {[r EXCEPT !.start = q[1].start, !.end = q[2].end] : q \in span}
<1>1. coalesce_posix(L, r) = (L \ T) \cup merged
  BY DEF coalesce_posix, Touching
<1>2. PICK a, b \in T : /\ \A l \in T : a.start <= l.start /\ l.end <= b.end
                        /\ a = r \/ a.end = r.start
                        /\ b = r \/ b.start = r.end
  BY Neighbours
<1>3. \A l \in T : l.start \in Nat /\ l.end \in Nat
  BY DEF Touching, Good, Record
<1> HIDE DEF T
<1>4. <<a, b>> \in span
  BY <1>2
<1>5. \A q \in span : q[1].start = a.start /\ q[2].end = b.end
  BY <1>2, <1>3
<1>6. merged = {[r EXCEPT !.start = a.start, !.end = b.end]}
  BY <1>4, <1>5
<1> QED
  BY <1>1, <1>2, <1>6 DEF T

\* Merging keeps the table canonical, if there was room for one record.
LEMMA CoalesceCanonical ==
  ASSUME NEW L, Good(L), Canonical(L), Cardinality(L) < MaxLocks,
         NEW r \in Record, r.start < r.end, ~r.flock, Free(L, r)
  PROVE  Canonical(coalesce_posix(L, r))
<1> DEFINE T == Touching(L, r)
<1>0. AllApart(L) /\ IsFiniteSet(L) /\ Whole(L)
  BY DEF Canonical, Fits
<1>1. PICK a, b \in T :
        /\ coalesce_posix(L, r) = (L \ T) \cup {[r EXCEPT !.start = a.start, !.end = b.end]}
        /\ \A l \in T : a.start <= l.start /\ l.end <= b.end
        /\ a = r \/ a.end = r.start
        /\ b = r \/ b.start = r.end
  BY <1>0, CoalesceParts
<1> DEFINE x == [r EXCEPT !.start = a.start, !.end = b.end]
<1>2. /\ x.flock = r.flock /\ x.file = r.file /\ x.owner = r.owner /\ x.type = r.type
      /\ x.start = a.start /\ x.end = b.end
  BY DEF Record
<1>3. ASSUME NEW l \in T
      PROVE  /\ l \in Record /\ l.start < l.end /\ l.flock = r.flock /\ l.file = r.file
             /\ l.owner = r.owner /\ l.type = r.type
             /\ l = r \/ l \in L
  <2>1. CASE l = r
    BY <2>1
  <2>2. CASE l # r
    <3>1. l \in L /\ ~l.flock /\ l.file = r.file /\ l.owner = r.owner /\ l.type = r.type
      BY <2>2 DEF Touching
    <3>2. l \in Record /\ l.start < l.end
      BY <3>1 DEF Good
    <3>3. l.flock = r.flock
      BY <3>1, <3>2 DEF Record
    <3> QED
      BY <3>1, <3>2, <3>3
  <2> QED
    BY <2>1, <2>2
<1>4. ASSUME NEW m \in L \ T, SameHolder(m, x), m.file = x.file
      PROVE  Apart(m, x) /\ Apart(x, m)
  <2>1. m \in Record /\ m.start < m.end
    BY DEF Good
  <2>2. ~m.flock /\ m.owner = r.owner /\ m.file = r.file /\ m.flock = r.flock
    BY <1>2, <1>4, <2>1 DEF SameHolder, Record
  <2>3. m.end <= r.start \/ r.end <= m.start
    BY <2>2 DEF Free
  <2>4. m.type = r.type => m.end < r.start \/ r.end < m.start
    BY <2>1, <2>2 DEF Touching, Record
  <2>5. ASSUME NEW l \in T, l # r
        PROVE  Apart(m, l)
    <3>1. SameHolder(m, l) /\ m.file = l.file /\ l \in L /\ m # l
      BY <1>3, <2>2, <2>5 DEF SameHolder
    <3> QED
      BY <3>1, <1>0 DEF AllApart
  <2>6. /\ a \in Record /\ b \in Record /\ a.start < a.end /\ b.start < b.end
        /\ a.type = r.type /\ b.type = r.type
    BY <1>3
  <2>7. /\ m.start \in Nat /\ m.end \in Nat /\ r.start \in Nat /\ r.end \in Nat
        /\ a.start \in Nat /\ a.end \in Nat /\ b.start \in Nat /\ b.end \in Nat
    BY <2>1, <2>6 DEF Record
  <2>8. m.end <= r.start => IF m.type = r.type THEN m.end < a.start ELSE m.end <= a.start
    <3>1. CASE a = r
      BY <3>1, <2>1, <2>4, <2>7
    <3>2. CASE a # r
      BY <3>2, <1>1, <2>1, <2>4, <2>5, <2>6, <2>7 DEF Apart
    <3> QED
      BY <3>1, <3>2
  <2>9. r.end <= m.start => IF m.type = r.type THEN b.end < m.start ELSE b.end <= m.start
    <3>1. CASE b = r
      BY <3>1, <2>1, <2>4, <2>7
    <3>2. CASE b # r
      BY <3>2, <1>1, <2>1, <2>4, <2>5, <2>6, <2>7 DEF Apart
    <3> QED
      BY <3>1, <3>2
  <2> HIDE DEF x
  <2> QED
    BY <1>2, <2>3, <2>7, <2>8, <2>9 DEF Apart
<1>5. SameHolder(x, x)
  BY DEF SameHolder
<1> DEFINE M == L \ T
<1>6. IsFiniteSet(M) /\ Cardinality(M) <= Cardinality(L)
  BY <1>0, FS_Subset
<1>7. Cardinality(M) \in Nat /\ Cardinality(L) \in Nat
  BY <1>0, <1>6, FS_CardinalityType
<1> HIDE DEF x, T
<1>8. \A m \in M : m \in L /\ m \notin T
  OBVIOUS
<1>9. coalesce_posix(L, r) = M \cup {x}
  BY <1>1 DEF x
<1> HIDE DEF M
<1>10. Fits(M \cup {x})
  <2>1. /\ IsFiniteSet(M \cup {x})
        /\ Cardinality(M \cup {x}) = IF x \in M THEN Cardinality(M) ELSE Cardinality(M) + 1
    BY <1>6, FS_AddElement
  <2> QED
    BY <1>6, <1>7, <2>1, AdvLockAssumption DEF Fits
<1>11. AllApart(M \cup {x})
  <2> SUFFICES ASSUME NEW l \in M \cup {x}, NEW m \in M \cup {x},
                      l # m, SameHolder(l, m), l.file = m.file
               PROVE  Apart(l, m)
    BY DEF AllApart
  <2>1. CASE l = x
    <3>1. m \in L \ T /\ SameHolder(m, x) /\ m.file = x.file
      BY <2>1, <1>8 DEF SameHolder
    <3> QED
      BY <2>1, <3>1, <1>4
  <2>2. CASE m = x
    <3>1. l \in L \ T
      BY <2>2, <1>8
    <3> QED
      BY <2>2, <3>1, <1>4
  <2>3. CASE l # x /\ m # x
    BY <2>3, <1>0, <1>8 DEF AllApart
  <2> QED
    BY <2>1, <2>2, <2>3
<1>12. Whole(M \cup {x})
  BY <1>0, <1>2, <1>8 DEF Whole
<1> QED
  BY <1>9, <1>10, <1>11, <1>12 DEF Canonical
-----------------------------------------------------------------------------
(* The table stays canonical *)

\* After a clear, r's holder has nothing in r's range.
LEMMA ClearFree ==
  ASSUME NEW L, Good(L), NEW r \in Record, r.start < r.end
  PROVE  Free(posix_clear_owner_range(L, r), r)
<1>1. posix_clear_owner_range(L, r) \subseteq Kept(L, r) \cup RightOf(L, r)
  BY ClearParts
<1> QED
  BY <1>1, ClearEmpties DEF Free

\* What is left when records are removed is canonical.
LEMMA SubsetCanonical ==
  ASSUME NEW L, Canonical(L), NEW M \in SUBSET L
  PROVE  Canonical(M)
<1>1. IsFiniteSet(L) /\ Cardinality(L) \in Nat /\ Cardinality(L) <= MaxLocks
  BY FS_CardinalityType DEF Canonical, Fits
<1>2. IsFiniteSet(M) /\ Cardinality(M) <= Cardinality(L)
  BY <1>1, FS_Subset
<1>3. Cardinality(M) \in Nat
  BY <1>2, FS_CardinalityType
<1>4. Fits(M)
  BY <1>1, <1>2, <1>3, AdvLockAssumption DEF Fits
<1> QED
  BY <1>4 DEF Canonical, AllApart, Whole

\* A granted request leaves the table canonical.
LEMMA ApplyCanonical ==
  ASSUME Good(locks), Canonical(locks), NEW p \in Proc, NEW r \in Requests(p), Grantable(r)
  PROVE  Canonical(Apply(r))
<1>1. r \in Record /\ r.start < r.end
  BY RequestFacts
<1>2. CASE ~r.flock
  <2> DEFINE C == posix_clear_owner_range(locks, r)
  <2>1. Canonical(C) /\ Free(C, r)
    BY <1>1, ClearCanonical, ClearFree
  <2>2. Good(C)
    BY <1>1, ClearWithin, WithinGood
  <2> HIDE DEF C
  <2>3. Cardinality(C) < MaxLocks => Canonical(coalesce_posix(C, r))
    BY <1>1, <1>2, <2>1, <2>2, CoalesceCanonical
  <2> QED
    BY <1>2, <2>1, <2>3 DEF Apply, posix_apply, C
<1>3. CASE r.flock
  <2> DEFINE C == locks \ OfSlot(r.slot)
  <2>1. Canonical(C)
    BY SubsetCanonical
  <2>2. IsFiniteSet(C) /\ Cardinality(C) \in Nat
    BY <2>1, FS_CardinalityType DEF Canonical, Fits
  <2>3. PICK x \in Slot, m \in Types : slotOf[x] = p /\ r = Flock(x, m)
    <3>1. r \in FlockRequests(p)
      BY <1>3 DEF Requests, PosixRequests, Posix
    <3> QED
      BY <3>1 DEF FlockRequests
  <2>4. \A l \in C : ~(l.flock /\ l.slot = r.slot)
    BY DEF OfSlot
  <2> HIDE DEF C
  <2>5. Whole(C \cup {r})
    BY <2>1, <2>3 DEF Whole, Canonical, Flock
  <2>6. AllApart(C \cup {r})
    <3>1. \A l \in C : ~SameHolder(l, r) /\ ~SameHolder(r, l)
      BY <1>3, <2>4 DEF SameHolder
    <3> QED
      BY <2>1, <3>1 DEF AllApart, Canonical
  <2>7. Cardinality(C) < MaxLocks => Fits(C \cup {r})
    <3>1. /\ IsFiniteSet(C \cup {r})
          /\ Cardinality(C \cup {r}) = IF r \in C THEN Cardinality(C) ELSE Cardinality(C) + 1
      BY <2>2, FS_AddElement
    <3> QED
      BY <2>2, <3>1, AdvLockAssumption DEF Fits
  <2> QED
    BY <1>3, <2>1, <2>5, <2>6, <2>7 DEF Apply, flock_apply, C, Canonical
<1> QED
  BY <1>2, <1>3

\* So does every step.
LEMMA CanonicalKeeps ==
  ASSUME Inv, Canonical(locks), NEW p \in Proc,
         \/ SetLk(p) \/ SetLkw(p) \/ TryGrant(p) \/ TryDeadlock(p) \/ TryBlock(p) \/ WaitEnd(p)
         \/ WaitTest(p) \/ WaitRecheck(p) \/ WaitDone(p) \/ Signal(p) \/ wake_up_all(p)
         \/ SetUnlck(p) \/ FlockUn(p) \/ Close(p) \/ Exit(p)
  PROVE  Canonical(locks')
<1>0. Good(locks) /\ ProcType
  BY TypeParts DEF Inv
<1>1. CASE SetLk(p)
  <2>1. PICK r \in Requests(p) : Grantable(r) /\ locks' = Apply(r)
    BY <1>1 DEF SetLk, Replace, Requests
  <2> QED
    BY <1>0, <2>1, ApplyCanonical
<1>2. CASE TryGrant(p)
  <2>1. req[p] \in Requests(p)
    BY <1>0, <1>2 DEF TryGrant, ProcType
  <2>2. Grantable(req[p]) /\ locks' = Apply(req[p])
    BY <1>2 DEF TryGrant, Replace
  <2> QED
    BY <1>0, <2>1, <2>2, ApplyCanonical
<1>3. CASE SetUnlck(p)
  <2>1. PICK r \in Requests(p) : locks' = posix_clear_owner_range(locks, r)
    BY <1>3 DEF SetUnlck, Release, Requests
  <2>2. r \in Record /\ r.start < r.end
    BY RequestFacts
  <2> QED
    BY <1>0, <2>1, <2>2, ClearCanonical
<1>4. CASE locks' \in SUBSET locks
  BY <1>4, SubsetCanonical
<1>5. CASE \/ SetLkw(p) \/ TryDeadlock(p) \/ TryBlock(p) \/ WaitEnd(p) \/ WaitTest(p)
           \/ WaitRecheck(p) \/ WaitDone(p) \/ Signal(p) \/ wake_up_all(p)
           \/ FlockUn(p) \/ Close(p) \/ Exit(p)
  <2>1. locks' \in SUBSET locks
    BY <1>5 DEF SetLkw, TryDeadlock, TryBlock, WaitEnd, WaitTest, WaitRecheck, WaitDone, Signal,
       wake_up_all, table, FlockUn, Close, Exit, Release
  <2> QED
    BY <2>1, <1>4
<1> QED
  BY <1>1, <1>2, <1>3, <1>5

\* The table is canonical throughout.
LEMMA CanonicalHolds == Spec => []Canonical(locks)
<1>1. Init => Canonical(locks)
  BY FS_EmptySet, AdvLockAssumption DEF Init, Canonical, AllApart, Fits, Whole
<1>2. LockInv /\ Canonical(locks) /\ [Next]_vars => Canonical(locks)'
  <2> SUFFICES ASSUME LockInv, Canonical(locks), [Next]_vars
               PROVE  Canonical(locks')
    BY DEF Canonical, AllApart, Apart, Fits, Whole, SameHolder
  <2>1. CASE Next
    BY <2>1, CanonicalKeeps DEF Next, LockInv
  <2>2. CASE UNCHANGED vars
    BY <2>2 DEF vars, table
  <2> QED
    BY <2>1, <2>2
<1> QED
  BY <1>1, <1>2, LockInvHolds, PTL DEF Spec

\* posix_clear_owner_range and coalesce_posix keep the table canonical: no empty
\* record, a holder's records apart, and never more than MAX_LOCKS.
THEOREM TableCanonical == Spec => []Coalesced
<1>1. LockInv /\ Canonical(locks) => Coalesced
  BY DEF LockInv, Inv, Good, Canonical, AllApart, Apart, Fits, Coalesced
<1> QED
  BY <1>1, LockInvHolds, CanonicalHolds, PTL
-----------------------------------------------------------------------------
(* How a byte is held *)

\* ModeOf, of a table L
ModeIn(L, fl, h, f, k) ==
  LET mine == {l \in L : /\ l.flock = fl /\ l.file = f /\ l.start <= k /\ k < l.end
                         /\ IF fl THEN l.slot = h ELSE l.owner = h}
  IN  IF mine = {} THEN "none" ELSE (CHOOSE l \in mine : TRUE).type

\* A record of h's covers the byte.
Covers(l, fl, h, f, k) ==
  /\ l.flock = fl /\ l.file = f /\ l.start <= k /\ k < l.end
  /\ IF fl THEN l.slot = h ELSE l.owner = h

Holds(L, fl, h, f, k, t) == \E l \in L : Covers(l, fl, h, f, k) /\ l.type = t

\* h holds the byte in M at least as it does in L.
Includes(M, L, fl, h, f, k) ==
  \A t \in Types : Holds(L, fl, h, f, k, t) => Holds(M, fl, h, f, k, t)

\* In a canonical table one record at most covers a byte for a holder, so the
\* mode is the type of any.
LEMMA ModeIsType ==
  ASSUME NEW L, Good(L), AllApart(L), NEW fl \in BOOLEAN, NEW h, NEW f, NEW k \in Nat
  PROVE  /\ ModeIn(L, fl, h, f, k) \in {"none", "R", "W"}
         /\ \A t \in Types : ModeIn(L, fl, h, f, k) = t <=> Holds(L, fl, h, f, k, t)
<1> DEFINE mine == {l \in L : Covers(l, fl, h, f, k)}
<1>1. ModeIn(L, fl, h, f, k) = IF mine = {} THEN "none" ELSE (CHOOSE l \in mine : TRUE).type
  BY DEF ModeIn, Covers
<1>2. ASSUME NEW l \in mine, NEW m \in mine
      PROVE  l.type = m.type
  <2>1. l \in Record /\ m \in Record /\ SameHolder(l, m) /\ l.file = m.file
    BY DEF Good, Covers, SameHolder
  <2>2. l # m => Apart(l, m)
    BY <2>1 DEF AllApart
  <2> QED
    BY <2>1, <2>2 DEF Apart, Covers, Record
<1>3. \A l \in mine : l.type \in Types
  BY DEF Good, Record
<1>4. \A t : Holds(L, fl, h, f, k, t) <=> \E l \in mine : l.type = t
  BY DEF Holds
<1> HIDE DEF mine
<1>5. CASE mine = {}
  BY <1>1, <1>4, <1>5 DEF Types
<1>6. CASE mine # {}
  <2>1. (CHOOSE l \in mine : TRUE) \in mine
    BY <1>6
  <2> DEFINE c == CHOOSE l \in mine : TRUE
  <2>2. c \in mine /\ ModeIn(L, fl, h, f, k) = c.type
    BY <1>1, <1>6, <2>1
  <2> HIDE DEF c
  <2> QED
    BY <1>2, <1>3, <1>4, <2>2 DEF Types
<1> QED
  BY <1>5, <1>6

\* A holder that keeps only parts of its locks gives bytes up, and no more.
LEMMA ModeShrinks ==
  ASSUME NEW L, Good(L), AllApart(L), NEW M, Good(M), AllApart(M),
         NEW fl \in BOOLEAN, NEW h, NEW f, NEW k \in Nat,
         Includes(L, M, fl, h, f, k),
         ModeIn(M, fl, h, f, k) # ModeIn(L, fl, h, f, k)
  PROVE  ModeIn(M, fl, h, f, k) = "none"
BY ModeIsType DEF Types, Includes

\* Who holds a byte alike in two tables has the same mode in both.
LEMMA ModeSame ==
  ASSUME NEW L, Good(L), AllApart(L), NEW M, Good(M), AllApart(M),
         NEW fl \in BOOLEAN, NEW h, NEW f, NEW k \in Nat,
         Includes(L, M, fl, h, f, k),
         Includes(M, L, fl, h, f, k)
  PROVE  ModeIn(M, fl, h, f, k) = ModeIn(L, fl, h, f, k)
BY ModeIsType DEF Types, Includes
-----------------------------------------------------------------------------
(* flock() *)

\* The two kinds of records, by the value of their field flock
BSD   == TRUE
POSIX == FALSE

\* They are Boolean.
LEMMA Kinds == BSD \in BOOLEAN /\ POSIX \in BOOLEAN
BY DEF BSD, POSIX

FlockMode == [f \in File |-> [x \in Slot |-> ModeOf(TRUE, x, f, 0)]]

\* The mapped variable in terms of ModeIn
LEMMA FlockModes ==
  /\ FlockMode = [f \in File |-> [x \in Slot |-> ModeIn(locks, BSD, x, f, 0)]]
  /\ FlockMode' = [f \in File |-> [x \in Slot |-> ModeIn(locks', BSD, x, f, 0)]]
BY DEF FlockMode, ModeOf, ModeIn, BSD

\* The BSD records stay as they are.
SameFlocks(L, M) ==
  /\ \A l \in L : l.flock = TRUE => l \in M
  /\ \A l \in M : l.flock = TRUE => l \in L

\* A step that leaves the BSD records alone is a stuttering step.
LEMMA FlockStutter ==
  ASSUME Good(locks), AllApart(locks), Good(locks'), AllApart(locks'), SameFlocks(locks, locks')
  PROVE  FlockMode' = FlockMode
<1>1. ASSUME NEW f \in File, NEW x \in Slot
      PROVE  ModeIn(locks', BSD, x, f, 0) = ModeIn(locks, BSD, x, f, 0)
  <2>1. Includes(locks, locks', BSD, x, f, 0)
    BY DEF Includes, Holds, Covers, BSD, SameFlocks
  <2>2. ASSUME NEW t \in Types, Holds(locks, BSD, x, f, 0, t)
        PROVE  Holds(locks', BSD, x, f, 0, t)
    <3>1. PICK l \in locks : Covers(l, BSD, x, f, 0) /\ l.type = t
      BY <2>2 DEF Holds
    <3>2. l \in locks'
      BY <3>1 DEF Covers, BSD, SameFlocks
    <3> QED
      BY <3>1, <3>2 DEF Holds
  <2>3. Includes(locks', locks, BSD, x, f, 0)
    BY <2>2 DEF Includes
  <2> QED
    BY <2>1, <2>3, Kinds, ModeSame
<1> QED
  BY <1>1, FlockModes

\* A step that removes the records of some slots gives those slots' locks up.
LEMMA FlockGiveUp ==
  ASSUME Good(locks), AllApart(locks), Good(locks'), AllApart(locks'),
         NEW H \in SUBSET Slot, \A l \in locks' : l.flock = TRUE => l \in locks,
         \A l \in locks : l.flock = TRUE => l \in locks' \/ l.slot \in H
  PROVE  FlockLocks!GiveUp(H)
<1>1. ASSUME NEW f \in File, NEW x \in Slot,
             ModeIn(locks', BSD, x, f, 0) # ModeIn(locks, BSD, x, f, 0)
      PROVE  x \in H /\ ModeIn(locks', BSD, x, f, 0) = "none"
  <2>1. Includes(locks, locks', BSD, x, f, 0)
    BY DEF Includes, Holds, Covers, BSD
  <2>2. ModeIn(locks', BSD, x, f, 0) = "none"
    BY <1>1, <2>1, Kinds, ModeShrinks
  <2>3. CASE x \notin H
    <3>1. ASSUME NEW t \in Types, Holds(locks, BSD, x, f, 0, t)
          PROVE  Holds(locks', BSD, x, f, 0, t)
      <4>1. PICK l \in locks : Covers(l, BSD, x, f, 0) /\ l.type = t
        BY <3>1 DEF Holds
      <4>2. l \in locks'
        BY <2>3, <4>1 DEF Covers, BSD
      <4> QED
        BY <4>1, <4>2 DEF Holds
    <3>2. Includes(locks', locks, BSD, x, f, 0)
      BY <3>1 DEF Includes
    <3> QED
      BY <1>1, <2>1, <3>2, Kinds, ModeSame
  <2> QED
    BY <2>2, <2>3
<1>2. \A f \in File, x \in Slot :
        FlockMode'[f][x] # FlockMode[f][x] => x \in H /\ FlockMode'[f][x] = "none"
  BY <1>1, FlockModes
<1> QED
  BY <1>2 DEF FlockLocks!GiveUp, FlockMode

\* A granted flock() that finds room sets the slot's mode on its file.
LEMMA FlockLock ==
  ASSUME Good(locks), Canonical(locks), Good(locks'), AllApart(locks'),
         NEW x \in Slot, NEW m \in Types, Grantable(Flock(x, m)),
         locks' = (locks \ OfSlot(x)) \cup {Flock(x, m)}
  PROVE  FlockLocks!Lock(x, {fileOf[x]}, m)
<1> DEFINE r == Flock(x, m)
<1>0. AllApart(locks) /\ Whole(locks)
  BY DEF Canonical
<1>1. /\ r.flock = TRUE /\ r.file = fileOf[x] /\ r.slot = x /\ r.start = 0 /\ r.end = Eof
      /\ r.type = m /\ Eof \in Nat /\ 0 < Eof /\ fileOf[x] \in File
  BY AdvLockAssumption DEF Flock
<1>2. \A l \in locks : ~Conflict(r, l)
  BY DEF Grantable, Conflicts
<1>3. \A l : l \in locks' <=> (l \in locks /\ ~(l.flock /\ l.slot = x)) \/ l = r
  BY DEF OfSlot
<1> HIDE DEF r
<1>4. ASSUME NEW g \in Slot, g # x
      PROVE  FlockLocks!Compatible(m, ModeIn(locks, BSD, g, fileOf[x], 0))
  <2>1. ASSUME NEW t \in Types, Holds(locks, BSD, g, fileOf[x], 0, t)
        PROVE  m = "R" /\ t = "R"
    <3>1. PICK l \in locks : Covers(l, BSD, g, fileOf[x], 0) /\ l.type = t
      BY <2>1 DEF Holds
    <3>2. l \in Record /\ l.flock = TRUE /\ l.file = fileOf[x] /\ l.slot = g
          /\ l.start <= 0 /\ 0 < l.end
      BY <3>1 DEF Covers, BSD, Good
    <3>3. ranges_overlap(r, l) /\ ~SameHolder(l, r)
      BY <1>1, <1>4, <3>2 DEF ranges_overlap, SameHolder, Record
    <3>4. ~(r.type = "W" \/ l.type = "W")
      BY <1>1, <1>2, <3>2, <3>3 DEF Conflict
    <3> QED
      BY <1>1, <3>1, <3>4 DEF Types
  <2>2. /\ ModeIn(locks, BSD, g, fileOf[x], 0) \in {"none", "R", "W"}
        /\ \A t \in Types : ModeIn(locks, BSD, g, fileOf[x], 0) = t
                              <=> Holds(locks, BSD, g, fileOf[x], 0, t)
    BY <1>0, Kinds, ModeIsType
  <2> QED
    BY <2>1, <2>2 DEF FlockLocks!Compatible, Types
<1>5. ModeIn(locks', BSD, x, fileOf[x], 0) = m
  <2>1. Holds(locks', BSD, x, fileOf[x], 0, m)
    <3>1. r \in locks' /\ Covers(r, BSD, x, fileOf[x], 0)
      BY <1>1, <1>3 DEF Covers, BSD
    <3> QED
      BY <1>1, <3>1 DEF Holds
  <2> QED
    BY <2>1, Kinds, ModeIsType
<1>6. ASSUME NEW f \in File, NEW g \in Slot, f # fileOf[x] \/ g # x
      PROVE  ModeIn(locks', BSD, g, f, 0) = ModeIn(locks, BSD, g, f, 0)
  <2>1. ASSUME NEW l \in locks, Covers(l, BSD, g, f, 0)
        PROVE  l \in locks'
    <3>1. l.flock = TRUE /\ l.slot = g /\ l.file = f
      BY <2>1 DEF Covers, BSD
    <3>2. l.file = fileOf[l.slot]
      BY <1>0, <3>1 DEF Whole
    <3> QED
      BY <1>3, <1>6, <3>1, <3>2
  <2>2. ASSUME NEW l \in locks', Covers(l, BSD, g, f, 0)
        PROVE  l \in locks
    <3>1. l.slot = g /\ l.file = f
      BY <2>2 DEF Covers, BSD
    <3> QED
      BY <1>1, <1>3, <1>6, <3>1
  <2>3. Includes(locks', locks, BSD, g, f, 0) /\ Includes(locks, locks', BSD, g, f, 0)
    BY <2>1, <2>2 DEF Includes, Holds
  <2> QED
    BY <1>0, <2>3, Kinds, ModeSame
<1>7. \A g \in Slot \ {x} : FlockLocks!Compatible(m, FlockMode[fileOf[x]][g])
  BY <1>1, <1>4, FlockModes
<1>8. FlockMode' = [f \in File |-> IF f \in {fileOf[x]} THEN [FlockMode[f] EXCEPT ![x] = m]
                                   ELSE FlockMode[f]]
  <2> DEFINE Row(L, f) == [g \in Slot |-> ModeIn(L, BSD, g, f, 0)]
  <2>1. \A g \in Slot : g # x =>
          ModeIn(locks', BSD, g, fileOf[x], 0) = ModeIn(locks, BSD, g, fileOf[x], 0)
    BY <1>1, <1>6
  <2>2. Row(locks', fileOf[x]) = [Row(locks, fileOf[x]) EXCEPT ![x] = m]
    BY <1>5, <2>1
  <2>3. \A f \in File : f # fileOf[x] => Row(locks', f) = Row(locks, f)
    BY <1>6
  <2>4. /\ FlockMode = [f \in File |-> Row(locks, f)]
        /\ FlockMode' = [f \in File |-> Row(locks', f)]
    BY FlockModes
  <2> HIDE DEF Row
  <2>5. \A f \in File : FlockMode[f] = Row(locks, f)
    BY <2>4
  <2> QED
    BY <2>2, <2>3, <2>4, <2>5
<1> QED
  BY <1>7, <1>8 DEF FlockLocks!Lock, FlockMode

\* posix_apply and posix_clear_owner_range leave the BSD records alone.
LEMMA PosixSameFlocks ==
  ASSUME Good(locks), NEW r \in Record, r.start < r.end, ~r.flock
  PROVE  /\ SameFlocks(locks, posix_clear_owner_range(locks, r))
         /\ SameFlocks(locks, posix_apply(r))
<1> DEFINE C == posix_clear_owner_range(locks, r)
<1>1. SameFlocks(locks, C)
  <2>1. ASSUME NEW l \in locks, l.flock = TRUE
        PROVE  l \in C
    <3>1. l \in Kept(locks, r)
      BY <2>1 DEF Kept, Hits, Hit
    <3> QED
      BY <3>1, ClearParts
  <2>2. ASSUME NEW m \in C, m.flock = TRUE
        PROVE  m \in locks
    <3>1. m \in Kept(locks, r) \cup RightOf(locks, r)
      BY ClearParts
    <3>2. PICK l \in locks : Within(m, l) /\ PartOf(m, l, r)
      BY <3>1, ClearPartOf
    <3>3. ~Hit(l, r)
      BY <2>2, <3>2 DEF Within, Hit
    <3> QED
      BY <3>2, <3>3 DEF PartOf
  <2> QED
    BY <2>1, <2>2 DEF SameFlocks
<1> HIDE DEF C
<1>2. \A l \in C : l.flock = TRUE => l \in coalesce_posix(C, r)
  BY DEF coalesce_posix
<1>3. ASSUME NEW m \in coalesce_posix(C, r), m.flock = TRUE
      PROVE  m \in C
  <2>1. m \in C \/ \E a, b : m = [r EXCEPT !.start = a, !.end = b]
    BY DEF coalesce_posix
  <2>2. \A a, b : [r EXCEPT !.start = a, !.end = b].flock = r.flock
    BY DEF Record
  <2> QED
    BY <1>3, <2>1, <2>2
<1>4. SameFlocks(locks, coalesce_posix(C, r))
  BY <1>1, <1>2, <1>3 DEF SameFlocks
<1> QED
  BY <1>1, <1>4 DEF posix_apply, C

\* A granted request, as a step of the slots' file locks
LEMMA FlockApply ==
  ASSUME Good(locks), Canonical(locks), Good(locks'), Canonical(locks'),
         NEW p \in Proc, NEW r \in Requests(p), Grantable(r), locks' = Apply(r)
  PROVE  FlockLocks!Next \/ FlockMode' = FlockMode
<1>0. AllApart(locks) /\ AllApart(locks')
  BY DEF Canonical
<1>1. CASE ~r.flock
  <2>1. r \in Record /\ r.start < r.end
    BY RequestFacts
  <2>2. SameFlocks(locks, locks')
    BY <1>1, <2>1, PosixSameFlocks DEF Apply
  <2> QED
    BY <1>0, <2>2, FlockStutter
<1>2. CASE r.flock
  <2>1. PICK x \in Slot, m \in Types : slotOf[x] = p /\ r = Flock(x, m)
    <3>1. r \in FlockRequests(p)
      BY <1>2 DEF Requests, PosixRequests, Posix
    <3> QED
      BY <3>1 DEF FlockRequests
  <2>2. r.slot = x
    BY <2>1 DEF Flock
  <2>3. CASE locks' = (locks \ OfSlot(x)) \cup {r}
    <3>1. FlockLocks!Lock(x, {fileOf[x]}, m)
      BY <1>0, <2>1, <2>3, FlockLock
    <3>2. fileOf[x] \in File /\ m \in {"R", "W"}
      BY AdvLockAssumption DEF Types
    <3> QED
      BY <3>1, <3>2 DEF FlockLocks!Next
  <2>4. CASE locks' = locks \ OfSlot(x)
    <3>1. FlockLocks!GiveUp({x})
      BY <1>0, <2>4, FlockGiveUp DEF OfSlot
    <3> QED
      BY <3>1 DEF FlockLocks!Next
  <2> QED
    BY <1>2, <2>2, <2>3, <2>4 DEF Apply, flock_apply
<1> QED
  BY <1>1, <1>2

\* Every step is a step of the slots' file locks, or changes nothing of them.
LEMMA FlockStep ==
  ASSUME Inv, Canonical(locks), Inv', Canonical(locks'), NEW p \in Proc,
         \/ SetLk(p) \/ SetLkw(p) \/ TryGrant(p) \/ TryDeadlock(p) \/ TryBlock(p) \/ WaitEnd(p)
         \/ WaitTest(p) \/ WaitRecheck(p) \/ WaitDone(p) \/ Signal(p) \/ wake_up_all(p)
         \/ SetUnlck(p) \/ FlockUn(p) \/ Close(p) \/ Exit(p)
  PROVE  FlockLocks!Next \/ FlockMode' = FlockMode
<1>0. /\ Good(locks) /\ Good(locks') /\ AllApart(locks) /\ AllApart(locks') /\ ProcType
      /\ Whole(locks)
  BY TypeParts DEF Inv, Canonical, Good
<1>1. CASE SetLk(p)
  <2>1. PICK r \in Requests(p) : Grantable(r) /\ locks' = Apply(r)
    BY <1>1 DEF SetLk, Replace, Requests
  <2> QED
    BY <1>0, <2>1, FlockApply
<1>2. CASE TryGrant(p)
  <2>1. req[p] \in Requests(p)
    BY <1>0, <1>2 DEF TryGrant, ProcType
  <2>2. Grantable(req[p]) /\ locks' = Apply(req[p])
    BY <1>2 DEF TryGrant, Replace
  <2> QED
    BY <1>0, <2>1, <2>2, FlockApply
<1>3. CASE SetUnlck(p)
  <2>1. PICK r \in PosixRequests(p) : locks' = posix_clear_owner_range(locks, r)
    BY <1>3 DEF SetUnlck, Release
  <2>2. r \in Record /\ r.start < r.end /\ ~r.flock
    BY RequestFacts DEF Requests, PosixRequests, Posix
  <2> QED
    BY <1>0, <2>1, <2>2, PosixSameFlocks, FlockStutter
<1>4. CASE FlockUn(p) \/ Close(p)
  <2>1. PICK x \in Slot : /\ locks' \subseteq locks
                          /\ \A l \in locks : l.flock = TRUE => l \in locks' \/ l.slot = x
    BY <1>4 DEF FlockUn, Close, Release, OfSlot
  <2>2. FlockLocks!GiveUp({x})
    BY <1>0, <2>1, FlockGiveUp
  <2> QED
    BY <2>2 DEF FlockLocks!Next
<1>5. CASE Exit(p)
  <2> DEFINE H == {x \in Slot : slotOf[x] = p}
  <2>1. locks' = {l \in locks : l.owner # p}
    BY <1>5 DEF Exit, Release
  <2>2. \A l \in locks : l.flock = TRUE => l \in locks' \/ l.slot \in H
    BY <1>0, <2>1 DEF Whole
  <2>3. FlockLocks!GiveUp(H)
    BY <1>0, <2>1, <2>2, FlockGiveUp
  <2>4. ASSUME NEW f \in File, NEW x \in H
        PROVE  ModeIn(locks', BSD, x, f, 0) = "none"
    <3>1. ASSUME NEW t, Holds(locks', BSD, x, f, 0, t)
          PROVE  FALSE
      <4>1. PICK l \in locks' : l.flock = TRUE /\ l.slot = x
        BY <3>1 DEF Holds, Covers, BSD
      <4>2. l.owner = slotOf[x]
        BY <1>0, <2>1, <4>1 DEF Whole
      <4> QED
        BY <2>1, <4>2
    <3>2. /\ ModeIn(locks', BSD, x, f, 0) \in {"none", "R", "W"}
          /\ \A t \in Types : ModeIn(locks', BSD, x, f, 0) = t <=> Holds(locks', BSD, x, f, 0, t)
      BY <1>0, Kinds, ModeIsType
    <3> QED
      BY <3>1, <3>2 DEF Types
  <2>5. \A f \in File, x \in H : FlockMode'[f][x] = "none"
    BY <2>4, FlockModes
  <2>6. H \in SUBSET Slot
    OBVIOUS
  <2> HIDE DEF H
  <2> QED
    BY <2>3, <2>5, <2>6 DEF FlockLocks!Next, FlockMode
<1>6. CASE \/ SetLkw(p) \/ TryDeadlock(p) \/ TryBlock(p) \/ WaitEnd(p) \/ WaitTest(p)
           \/ WaitRecheck(p) \/ WaitDone(p) \/ Signal(p) \/ wake_up_all(p)
  <2>1. locks' = locks
    BY <1>6 DEF SetLkw, TryDeadlock, TryBlock, WaitEnd, WaitTest, WaitRecheck, WaitDone, Signal,
       wake_up_all, table
  <2> QED
    BY <2>1, FlockModes
<1> QED
  BY <1>1, <1>2, <1>3, <1>4, <1>5, <1>6

\* The BSD records implement whole-file locks held by descriptor slots: shared
\* or exclusive, converted in place, given up at close and exit, and lost only
\* when a conversion finds the table full.
THEOREM FlockIsByteLocks == Spec => ImplementsFlock
<1>1. Init => FlockLocks!Init
  <2> SUFFICES ASSUME Init
               PROVE  FlockMode = [b \in File |-> [h \in Slot |-> "none"]]
    BY DEF FlockLocks!Init, FlockMode
  <2> QED
    BY DEF Init, FlockMode, ModeOf
<1>2. /\ LockInv /\ Canonical(locks) /\ LockInv' /\ Canonical(locks)' /\ [Next]_vars
      => [FlockLocks!Next]_FlockMode
  <2> SUFFICES ASSUME LockInv, Canonical(locks), LockInv', Canonical(locks'), [Next]_vars
               PROVE  FlockLocks!Next \/ FlockMode' = FlockMode
    BY DEF Canonical, AllApart, Apart, Fits, Whole, SameHolder
  <2>1. CASE Next
    BY <2>1, FlockStep DEF Next, LockInv
  <2>2. CASE UNCHANGED vars
    BY <2>2, FlockModes DEF vars, table
  <2> QED
    BY <2>1, <2>2
<1> QED
  BY <1>1, <1>2, LockInvHolds, CanonicalHolds, PTL
     DEF Spec, ImplementsFlock, FlockLocks!Spec, FlockMode
-----------------------------------------------------------------------------
(* fcntl() *)

PosixMode == [b \in PosixBytes |-> [p \in Proc |-> ModeOf(FALSE, p, b[1], b[2])]]

\* The mapped variable in terms of ModeIn
LEMMA PosixModes ==
  /\ PosixMode = [b \in PosixBytes |-> [p \in Proc |-> ModeIn(locks, POSIX, p, b[1], b[2])]]
  /\ PosixMode' = [b \in PosixBytes |-> [p \in Proc |-> ModeIn(locks', POSIX, p, b[1], b[2])]]
BY DEF PosixMode, ModeOf, ModeIn, POSIX

\* A byte of a file
LEMMA Bytes == \A b \in PosixBytes : b[1] \in File /\ b[2] \in Nat /\ b[2] < Eof /\ b = <<b[1], b[2]>>
BY AdvLockAssumption DEF PosixBytes

\* A step after which p holds no byte that it did not hold before, as before,
\* and everybody else the same bytes, gives bytes of p up.
LEMMA PosixGiveUp ==
  ASSUME Good(locks), AllApart(locks), Good(locks'), AllApart(locks'), NEW p \in Proc,
         \A q \in Proc, f \in File, k \in Nat : Includes(locks, locks', POSIX, q, f, k),
         \A q \in Proc, f \in File, k \in Nat : q # p => Includes(locks', locks, POSIX, q, f, k)
  PROVE  PosixLocks!GiveUp({p})
<1>1. ASSUME NEW b \in PosixBytes, NEW q \in Proc,
             ModeIn(locks', POSIX, q, b[1], b[2]) # ModeIn(locks, POSIX, q, b[1], b[2])
      PROVE  q \in {p} /\ ModeIn(locks', POSIX, q, b[1], b[2]) = "none"
  <2>1. b[1] \in File /\ b[2] \in Nat
    BY Bytes
  <2>2. Includes(locks, locks', POSIX, q, b[1], b[2])
    BY <2>1
  <2>3. ModeIn(locks', POSIX, q, b[1], b[2]) = "none"
    BY <1>1, <2>1, <2>2, Kinds, ModeShrinks
  <2>4. CASE q # p
    <3>1. Includes(locks', locks, POSIX, q, b[1], b[2])
      BY <2>1, <2>4
    <3> QED
      BY <1>1, <2>1, <2>2, <3>1, Kinds, ModeSame
  <2> QED
    BY <2>3, <2>4
<1>2. \A b \in PosixBytes, q \in Proc :
        PosixMode'[b][q] # PosixMode[b][q] => q \in {p} /\ PosixMode'[b][q] = "none"
  BY <1>1, PosixModes
<1> QED
  BY <1>2 DEF PosixLocks!GiveUp, PosixMode

\* A step that leaves the POSIX records alone is a stuttering step.
LEMMA PosixStutter ==
  ASSUME Good(locks), AllApart(locks), Good(locks'), AllApart(locks'),
         \A l \in locks : l.flock = FALSE => l \in locks',
         \A l \in locks' : l.flock = FALSE => l \in locks
  PROVE  PosixMode' = PosixMode
<1>1. ASSUME NEW b \in PosixBytes, NEW q \in Proc
      PROVE  ModeIn(locks', POSIX, q, b[1], b[2]) = ModeIn(locks, POSIX, q, b[1], b[2])
  <2>1. b[1] \in File /\ b[2] \in Nat
    BY Bytes
  <2>2. \A l : Covers(l, POSIX, q, b[1], b[2]) => (l \in locks <=> l \in locks')
    BY DEF Covers, POSIX
  <2>3. /\ Includes(locks, locks', POSIX, q, b[1], b[2])
        /\ Includes(locks', locks, POSIX, q, b[1], b[2])
    BY <2>2 DEF Includes, Holds
  <2> QED
    BY <2>1, <2>3, Kinds, ModeSame
<1> QED
  BY <1>1, PosixModes

\* The byte is one that a request asks for, on behalf of its owner.
Asked(r, q, f, k) == q = r.owner /\ f = r.file /\ r.start <= k /\ k < r.end

\* Clearing takes nothing from others, and adds nothing.
LEMMA ClearIncludes ==
  ASSUME NEW L, Good(L), NEW r \in Record, r.start < r.end,
         NEW q \in Proc, NEW f \in File, NEW k \in Nat
  PROVE  /\ Includes(L, posix_clear_owner_range(L, r), POSIX, q, f, k)
         /\ q # r.owner => Includes(posix_clear_owner_range(L, r), L, POSIX, q, f, k)
<1> DEFINE C == posix_clear_owner_range(L, r)
<1>1. ASSUME NEW t \in Types, Holds(C, POSIX, q, f, k, t)
      PROVE  Holds(L, POSIX, q, f, k, t)
  <2>1. PICK m \in C : Covers(m, POSIX, q, f, k) /\ m.type = t
    BY <1>1 DEF Holds
  <2>2. m \in Kept(L, r) \cup RightOf(L, r)
    BY ClearParts
  <2>3. PICK l \in L : Within(m, l)
    BY <2>2, ClearPartOf
  <2>4. l \in Record /\ m \in Record
    BY <2>2, ClearPartOf DEF Good
  <2>5. Covers(l, POSIX, q, f, k) /\ l.type = t
    BY <2>1, <2>3, <2>4 DEF Within, Covers, POSIX, Record
  <2> QED
    BY <2>5 DEF Holds
<1>2. ASSUME q # r.owner, NEW t \in Types, Holds(L, POSIX, q, f, k, t)
      PROVE  Holds(C, POSIX, q, f, k, t)
  <2>1. PICK l \in L : Covers(l, POSIX, q, f, k) /\ l.type = t
    BY <1>2 DEF Holds
  <2>2. l \in Kept(L, r)
    BY <1>2, <2>1 DEF Kept, Hits, Hit, Covers, POSIX
  <2>3. l \in C
    BY <2>2, ClearParts
  <2> QED
    BY <2>1, <2>3 DEF Holds
<1> HIDE DEF C
<1>3. Includes(L, C, POSIX, q, f, k) /\ (q # r.owner => Includes(C, L, POSIX, q, f, k))
  BY <1>1, <1>2 DEF Includes
<1> QED
  BY <1>3 DEF C

\* With room for one more record, clearing takes only what is asked for.
LEMMA ClearExact ==
  ASSUME NEW L, Good(L), Canonical(L), NEW r \in Record, r.start < r.end,
         Cardinality(posix_clear_owner_range(L, r)) < MaxLocks,
         NEW q \in Proc, NEW f \in File, NEW k \in Nat, ~Asked(r, q, f, k)
  PROVE  Includes(posix_clear_owner_range(L, r), L, POSIX, q, f, k)
<1> DEFINE A == Kept(L, r) \cup RightOf(L, r)
<1>1. posix_clear_owner_range(L, r) = A
  <2>1. /\ IsFiniteSet(A)
        /\ Cardinality(A) > MaxLocks => Cardinality(Kept(L, r)) = MaxLocks
    BY RightFits DEF Canonical
  <2>2. Cardinality(A) \in Nat /\ MaxLocks \in Nat
    BY <2>1, FS_CardinalityType, AdvLockAssumption
  <2>3. posix_clear_owner_range(L, r) = IF Cardinality(A) <= MaxLocks THEN A ELSE Kept(L, r)
    BY ClearParts
  <2> HIDE DEF A
  <2> QED
    BY <2>1, <2>2, <2>3
<1>2. ASSUME NEW t \in Types, Holds(L, POSIX, q, f, k, t)
      PROVE  Holds(A, POSIX, q, f, k, t)
  <2>1. PICK l \in L : Covers(l, POSIX, q, f, k) /\ l.type = t
    BY <1>2 DEF Holds
  <2>2. /\ l \in Record /\ l.file = f /\ l.owner = q /\ l.start <= k /\ k < l.end
        /\ l.flock = FALSE
    BY <2>1 DEF Good, Covers, POSIX
  <2>3. CASE ~Hit(l, r)
    <3>1. l \in A
      BY <2>3 DEF Kept, Hits
    <3> QED
      BY <2>1, <3>1 DEF Holds
  <2>4. CASE Hit(l, r) /\ k < r.start
    <3> DEFINE m == [l EXCEPT !.end = r.start]
    <3>1. l.start < r.start
      BY <2>2, <2>4 DEF Record
    <3>2. m \in A
      BY <2>4, <3>1 DEF Kept, LeftOf, Hits
    <3>3. Covers(m, POSIX, q, f, k) /\ m.type = t
      BY <2>1, <2>2, <2>4 DEF Covers, POSIX, Record
    <3> QED
      BY <3>2, <3>3 DEF Holds
  <2>5. CASE Hit(l, r) /\ r.end <= k
    <3> DEFINE m == [l EXCEPT !.start = r.end]
    <3>1. l.end > r.end
      BY <2>2, <2>5 DEF Record
    <3>2. m \in A
      BY <2>5, <3>1 DEF RightOf, Hits
    <3>3. Covers(m, POSIX, q, f, k) /\ m.type = t
      BY <2>1, <2>2, <2>5 DEF Covers, POSIX, Record
    <3> QED
      BY <3>2, <3>3 DEF Holds
  <2>6. k < r.start \/ r.end <= k \/ ~Hit(l, r)
    BY <2>2 DEF Asked, Hit, Record
  <2> QED
    BY <2>3, <2>4, <2>5, <2>6
<1> HIDE DEF A
<1> QED
  BY <1>1, <1>2 DEF Includes

\* Merging covers the bytes asked for and otherwise what was covered before.
LEMMA CoalesceHolds ==
  ASSUME NEW L, Good(L), AllApart(L), NEW r \in Record, r.start < r.end, ~r.flock, Free(L, r),
         NEW q \in Proc, NEW f \in File, NEW k \in Nat
  PROVE  /\ Includes(coalesce_posix(L, r), L, POSIX, q, f, k)
         /\ Asked(r, q, f, k) => Holds(coalesce_posix(L, r), POSIX, q, f, k, r.type)
         /\ ~Asked(r, q, f, k) => Includes(L, coalesce_posix(L, r), POSIX, q, f, k)
<1> DEFINE T == Touching(L, r)
           D == coalesce_posix(L, r)
<1>1. PICK a, b \in T :
        /\ D = (L \ T) \cup {[r EXCEPT !.start = a.start, !.end = b.end]}
        /\ \A l \in T : a.start <= l.start /\ l.end <= b.end
        /\ a = r \/ a.end = r.start
        /\ b = r \/ b.start = r.end
  BY CoalesceParts
<1> DEFINE x == [r EXCEPT !.start = a.start, !.end = b.end]
<1>2. /\ x.flock = r.flock /\ x.file = r.file /\ x.owner = r.owner /\ x.type = r.type
      /\ x.start = a.start /\ x.end = b.end
  BY DEF Record
<1>3. ASSUME NEW l \in T
      PROVE  /\ l \in Record /\ l.flock = FALSE /\ l.file = r.file /\ l.owner = r.owner
             /\ l.type = r.type /\ (l = r \/ l \in L)
             /\ l.start \in Nat /\ l.end \in Nat
  <2>1. CASE l = r
    BY <2>1 DEF Record
  <2>2. CASE l # r
    <3>1. l \in L /\ ~l.flock /\ l.file = r.file /\ l.owner = r.owner /\ l.type = r.type
      BY <2>2 DEF Touching
    <3>2. l \in Record
      BY <3>1 DEF Good
    <3> QED
      BY <3>1, <3>2 DEF Record
  <2> QED
    BY <2>1, <2>2
<1>4. /\ r \in T /\ r.start \in Nat /\ r.end \in Nat
      /\ a.start \in Nat /\ a.end \in Nat /\ b.start \in Nat /\ b.end \in Nat
      /\ a = r \/ a \in L
      /\ b = r \/ b \in L
  <2>1. r \in T /\ r.start \in Nat /\ r.end \in Nat
    BY DEF Touching, Record
  <2> HIDE DEF T, D, x
  <2> QED
    BY <1>3, <2>1
<1>5. \A l : l \in D <=> (l \in L /\ l \notin T) \/ l = x
  BY <1>1
<1> HIDE DEF T, D, x
<1>6. x.flock = FALSE
  BY <1>2, <1>3, <1>4
<1>7. ASSUME NEW t \in Types, Holds(L, POSIX, q, f, k, t)
      PROVE  Holds(D, POSIX, q, f, k, t)
  <2>1. PICK l \in L : Covers(l, POSIX, q, f, k) /\ l.type = t
    BY <1>7 DEF Holds
  <2>2. CASE l \notin T
    BY <1>5, <2>1, <2>2 DEF Holds
  <2>3. CASE l \in T
    <3>1. /\ l.file = f /\ l.owner = q /\ l.start <= k /\ k < l.end
      BY <2>1 DEF Covers, POSIX
    <3>2. /\ a.start <= l.start /\ l.end <= b.end /\ l.file = r.file /\ l.owner = r.owner
          /\ l.type = r.type /\ l.start \in Nat /\ l.end \in Nat
      BY <1>1, <1>3, <2>3
    <3>3. x.start <= k /\ k < x.end
      BY <1>2, <1>4, <3>1, <3>2
    <3>4. Covers(x, POSIX, q, f, k) /\ x.type = t
      BY <1>2, <1>6, <2>1, <3>1, <3>2, <3>3 DEF Covers, POSIX
    <3> QED
      BY <1>5, <3>4 DEF Holds
  <2> QED
    BY <2>2, <2>3
<1>8. ASSUME Asked(r, q, f, k)
      PROVE  Holds(D, POSIX, q, f, k, r.type)
  <2>1. a.start <= r.start /\ r.end <= b.end
    BY <1>1, <1>4
  <2>2. x.start <= k /\ k < x.end
    BY <1>2, <1>4, <1>8, <2>1 DEF Asked
  <2>3. Covers(x, POSIX, q, f, k) /\ x.type = r.type
    BY <1>2, <1>6, <1>8, <2>2 DEF Covers, POSIX, Asked
  <2> QED
    BY <1>5, <2>3 DEF Holds
<1>9. ASSUME ~Asked(r, q, f, k), NEW t \in Types, Holds(D, POSIX, q, f, k, t)
      PROVE  Holds(L, POSIX, q, f, k, t)
  <2>1. PICK m \in D : Covers(m, POSIX, q, f, k) /\ m.type = t
    BY <1>9 DEF Holds
  <2>2. CASE m \in L
    BY <2>1, <2>2 DEF Holds
  <2>3. CASE m = x
    <3>1. /\ q = r.owner /\ f = r.file /\ t = r.type /\ a.start <= k /\ k < b.end
      BY <1>2, <2>1, <2>3 DEF Covers, POSIX
    <3>2. k < r.start \/ r.end <= k
      BY <1>4, <1>9, <3>1 DEF Asked
    <3>3. CASE k < r.start
      <4>1. a # r /\ a.end = r.start /\ a \in L
        BY <1>1, <1>4, <3>1, <3>3
      <4>2. Covers(a, POSIX, q, f, k) /\ a.type = t
        BY <1>3, <3>1, <3>3, <4>1 DEF Covers, POSIX
      <4> QED
        BY <4>1, <4>2 DEF Holds
    <3>4. CASE r.end <= k
      <4>1. b # r /\ b.start = r.end /\ b \in L
        BY <1>1, <1>4, <3>1, <3>4
      <4>2. Covers(b, POSIX, q, f, k) /\ b.type = t
        BY <1>3, <3>1, <3>4, <4>1 DEF Covers, POSIX
      <4> QED
        BY <4>1, <4>2 DEF Holds
    <3> QED
      BY <3>2, <3>3, <3>4
  <2> QED
    BY <1>5, <2>1, <2>2, <2>3
<1>10. /\ Includes(D, L, POSIX, q, f, k)
       /\ Asked(r, q, f, k) => Holds(D, POSIX, q, f, k, r.type)
       /\ ~Asked(r, q, f, k) => Includes(L, D, POSIX, q, f, k)
  BY <1>7, <1>8, <1>9 DEF Includes
<1> QED
  BY <1>10 DEF D

\* A request for a POSIX lock: what it asks for is a span of the abstract locks.
LEMMA PosixRequestFacts ==
  ASSUME NEW p \in Proc, NEW r \in Requests(p), ~r.flock
  PROVE  /\ r \in Record /\ r.start < r.end /\ r.owner = p /\ r.flock = FALSE
         /\ r.file \in File /\ r.type \in Types /\ r.start \in Nat /\ r.end \in Nat
         /\ \E q \in Ranges : q[1] = r.start /\ q[2] = r.end
<1>1. r \in PosixRequests(p)
  BY DEF Requests, FlockRequests, Flock
<1>2. PICK f \in File, m \in Types, q \in Ranges : r = Posix(p, f, m, q[1], q[2])
  BY <1>1 DEF PosixRequests
<1>3. q[1] \in 0..Eof /\ q[2] \in 0..Eof /\ q[1] < q[2]
  BY AdvLockAssumption
<1>4. r \in Record
  BY RequestFacts
<1>5. q[1] \in Nat /\ q[2] \in Nat
  BY <1>3, AdvLockAssumption
<1> QED
  BY <1>2, <1>3, <1>4, <1>5 DEF Posix

\* A granted F_SETLK that finds room sets the mode of exactly the bytes it asks
\* for.
LEMMA PosixLock ==
  ASSUME Good(locks), Canonical(locks), Good(locks'), Canonical(locks'),
         NEW p \in Proc, NEW r \in Requests(p), ~r.flock, Grantable(r),
         Cardinality(posix_clear_owner_range(locks, r)) < MaxLocks,
         locks' = coalesce_posix(posix_clear_owner_range(locks, r), r)
  PROVE  PosixLocks!Lock(p, {r.file} \X (r.start..r.end-1), r.type)
<1> DEFINE C == posix_clear_owner_range(locks, r)
           S == {r.file} \X (r.start..r.end-1)
<1>0. AllApart(locks) /\ AllApart(locks')
  BY DEF Canonical
<1>1. /\ r \in Record /\ r.start < r.end /\ r.owner = p /\ r.flock = FALSE
      /\ r.file \in File /\ r.type \in Types /\ r.start \in Nat /\ r.end \in Nat
  BY PosixRequestFacts
<1>2. Good(C) /\ AllApart(C) /\ Free(C, r)
  BY <1>1, ClearWithin, WithinGood, ClearCanonical, ClearFree DEF Canonical
<1>3. ASSUME NEW q \in Proc, NEW f \in File, NEW k \in Nat
      PROVE  /\ Asked(r, q, f, k) => Holds(locks', POSIX, q, f, k, r.type)
             /\ ~Asked(r, q, f, k) => /\ Includes(locks, locks', POSIX, q, f, k)
                                      /\ Includes(locks', locks, POSIX, q, f, k)
  <2>1. Includes(locks, C, POSIX, q, f, k)
    BY <1>1, ClearIncludes
  <2>2. ~Asked(r, q, f, k) => Includes(C, locks, POSIX, q, f, k)
    BY <1>1, ClearExact
  <2> HIDE DEF C
  <2>3. /\ Includes(locks', C, POSIX, q, f, k)
        /\ Asked(r, q, f, k) => Holds(locks', POSIX, q, f, k, r.type)
        /\ ~Asked(r, q, f, k) => Includes(C, locks', POSIX, q, f, k)
    BY <1>1, <1>2, CoalesceHolds DEF C
  <2> QED
    BY <2>1, <2>2, <2>3 DEF Includes
<1> HIDE DEF C
<1>4. ASSUME NEW b \in PosixBytes, NEW q \in Proc
      PROVE  /\ b[1] \in File /\ b[2] \in Nat
             /\ b \in S /\ q = p <=> Asked(r, q, b[1], b[2])
  <2>1. b[1] \in File /\ b[2] \in Nat /\ b = <<b[1], b[2]>>
    BY Bytes
  <2> QED
    BY <1>1, <2>1 DEF Asked
<1>5. ASSUME NEW b \in S, NEW q \in Proc \ {p}
      PROVE  PosixLocks!Compatible(r.type, ModeIn(locks, POSIX, q, b[1], b[2]))
  <2>0. b[1] = r.file /\ b[2] \in Nat /\ r.start <= b[2] /\ b[2] < r.end
    BY <1>1
  <2>1. ASSUME NEW t \in Types, Holds(locks, POSIX, q, b[1], b[2], t)
        PROVE  r.type = "R" /\ t = "R"
    <3>1. PICK l \in locks : Covers(l, POSIX, q, b[1], b[2]) /\ l.type = t
      BY <2>1 DEF Holds
    <3>2. /\ l \in Record /\ l.flock = FALSE /\ l.file = r.file /\ l.owner = q
          /\ l.start <= b[2] /\ b[2] < l.end
      BY <2>0, <3>1 DEF Covers, POSIX, Good
    <3>3. ranges_overlap(r, l) /\ ~SameHolder(l, r)
      BY <1>1, <1>5, <2>0, <3>2 DEF ranges_overlap, SameHolder, Record
    <3>4. ~Conflict(r, l)
      BY DEF Grantable, Conflicts
    <3>5. ~(r.type = "W" \/ l.type = "W")
      BY <1>1, <3>2, <3>3, <3>4 DEF Conflict
    <3> QED
      BY <1>1, <3>1, <3>5 DEF Types
  <2>2. /\ ModeIn(locks, POSIX, q, b[1], b[2]) \in {"none", "R", "W"}
        /\ \A t \in Types : ModeIn(locks, POSIX, q, b[1], b[2]) = t
                              <=> Holds(locks, POSIX, q, b[1], b[2], t)
    BY <1>0, <2>0, Kinds, ModeIsType
  <2> QED
    BY <2>1, <2>2 DEF PosixLocks!Compatible, Types
<1>6. ASSUME NEW b \in PosixBytes, b \in S
      PROVE  ModeIn(locks', POSIX, p, b[1], b[2]) = r.type
  <2>1. b[1] \in File /\ b[2] \in Nat /\ Asked(r, p, b[1], b[2])
    BY <1>4, <1>6
  <2>2. Holds(locks', POSIX, p, b[1], b[2], r.type)
    BY <1>3, <2>1
  <2> QED
    BY <1>0, <1>1, <2>1, <2>2, Kinds, ModeIsType
<1>7. ASSUME NEW b \in PosixBytes, NEW q \in Proc, b \notin S \/ q # p
      PROVE  ModeIn(locks', POSIX, q, b[1], b[2]) = ModeIn(locks, POSIX, q, b[1], b[2])
  <2>1. b[1] \in File /\ b[2] \in Nat /\ ~Asked(r, q, b[1], b[2])
    BY <1>4, <1>7
  <2>2. /\ Includes(locks, locks', POSIX, q, b[1], b[2])
        /\ Includes(locks', locks, POSIX, q, b[1], b[2])
    BY <1>3, <2>1
  <2> QED
    BY <1>0, <2>1, <2>2, Kinds, ModeSame
<1>8. S \subseteq PosixBytes
  <2>1. r.end <= Eof
    BY <1>1, AdvLockAssumption DEF Record
  <2> QED
    BY <1>1, <2>1, AdvLockAssumption DEF PosixBytes
<1> HIDE DEF S
<1>9. \A b \in S, q \in Proc \ {p} : PosixLocks!Compatible(r.type, PosixMode[b][q])
  BY <1>5, <1>8, PosixModes
<1>10. PosixMode' = [b \in PosixBytes |-> IF b \in S THEN [PosixMode[b] EXCEPT ![p] = r.type]
                                          ELSE PosixMode[b]]
  <2> DEFINE Row(L, b) == [q \in Proc |-> ModeIn(L, POSIX, q, b[1], b[2])]
  <2>1. \A b \in S : Row(locks', b) = [Row(locks, b) EXCEPT ![p] = r.type]
    BY <1>6, <1>7, <1>8
  <2>2. \A b \in PosixBytes : b \notin S => Row(locks', b) = Row(locks, b)
    BY <1>7
  <2>3. /\ PosixMode = [b \in PosixBytes |-> Row(locks, b)]
        /\ PosixMode' = [b \in PosixBytes |-> Row(locks', b)]
    BY PosixModes
  <2> HIDE DEF Row
  <2>4. \A b \in PosixBytes : PosixMode[b] = Row(locks, b)
    BY <2>3
  <2> QED
    BY <2>1, <2>2, <2>3, <2>4
<1> QED
  BY <1>9, <1>10 DEF PosixLocks!Lock, PosixMode, S

\* A granted request, as a step of the processes' byte locks
LEMMA PosixApply ==
  ASSUME Good(locks), Canonical(locks), Good(locks'), Canonical(locks'),
         NEW p \in Proc, NEW r \in Requests(p), Grantable(r), locks' = Apply(r)
  PROVE  PosixLocks!Next \/ PosixMode' = PosixMode
<1>0. AllApart(locks) /\ AllApart(locks')
  BY DEF Canonical
<1>1. CASE r.flock
  <2>1. r \in Record
    BY RequestFacts
  <2>2. r.flock = TRUE
    BY <1>1, <2>1 DEF Record
  <2>3. /\ \A l \in locks : l.flock = FALSE => l \in locks'
        /\ \A l \in locks' : l.flock = FALSE => l \in locks
    BY <1>1, <2>2 DEF Apply, flock_apply, OfSlot
  <2> QED
    BY <1>0, <2>3, PosixStutter
<1>2. CASE ~r.flock
  <2> DEFINE C == posix_clear_owner_range(locks, r)
  <2>1. locks' = IF Cardinality(C) < MaxLocks THEN coalesce_posix(C, r) ELSE C
    BY <1>2 DEF Apply, posix_apply
  <2>2. /\ r \in Record /\ r.start < r.end /\ r.owner = p /\ r.file \in File /\ r.type \in Types
    BY <1>2, PosixRequestFacts
  <2>3. CASE Cardinality(C) < MaxLocks
    <3>1. PosixLocks!Lock(p, {r.file} \X (r.start..r.end-1), r.type)
      BY <1>2, <2>1, <2>3, PosixLock
    <3>2. PICK q \in Ranges : q[1] = r.start /\ q[2] = r.end
      BY <1>2, PosixRequestFacts
    <3>3. {r.file} \X (r.start..r.end-1) \in PosixSpans
      BY <2>2, <3>2 DEF PosixSpans
    <3>4. r.type \in {"R", "W"}
      BY <2>2 DEF Types
    <3> QED
      BY <3>1, <3>3, <3>4 DEF PosixLocks!Next
  <2>4. CASE ~(Cardinality(C) < MaxLocks)
    <3>1. locks' = C
      BY <2>1, <2>4
    <3>2. /\ \A q \in Proc, f \in File, k \in Nat : Includes(locks, locks', POSIX, q, f, k)
          /\ \A q \in Proc, f \in File, k \in Nat :
               q # p => Includes(locks', locks, POSIX, q, f, k)
      BY <2>2, <3>1, ClearIncludes
    <3>3. PosixLocks!GiveUp({p})
      BY <1>0, <3>2, PosixGiveUp
    <3> QED
      BY <3>3 DEF PosixLocks!Next
  <2> QED
    BY <2>3, <2>4
<1> QED
  BY <1>1, <1>2

\* Every step is a step of the processes' byte locks, or changes nothing of them.
LEMMA PosixStep ==
  ASSUME Inv, Canonical(locks), Inv', Canonical(locks'), NEW p \in Proc,
         \/ SetLk(p) \/ SetLkw(p) \/ TryGrant(p) \/ TryDeadlock(p) \/ TryBlock(p) \/ WaitEnd(p)
         \/ WaitTest(p) \/ WaitRecheck(p) \/ WaitDone(p) \/ Signal(p) \/ wake_up_all(p)
         \/ SetUnlck(p) \/ FlockUn(p) \/ Close(p) \/ Exit(p)
  PROVE  PosixLocks!Next \/ PosixMode' = PosixMode
<1>0. Good(locks) /\ Good(locks') /\ AllApart(locks) /\ AllApart(locks') /\ ProcType
  BY TypeParts DEF Inv, Canonical, Good
<1>1. CASE SetLk(p)
  <2>1. PICK r \in Requests(p) : Grantable(r) /\ locks' = Apply(r)
    BY <1>1 DEF SetLk, Replace, Requests
  <2> QED
    BY <1>0, <2>1, PosixApply
<1>2. CASE TryGrant(p)
  <2>1. req[p] \in Requests(p)
    BY <1>0, <1>2 DEF TryGrant, ProcType
  <2>2. Grantable(req[p]) /\ locks' = Apply(req[p])
    BY <1>2 DEF TryGrant, Replace
  <2> QED
    BY <1>0, <2>1, <2>2, PosixApply
<1>3. CASE SetUnlck(p)
  <2>1. PICK r \in PosixRequests(p) : locks' = posix_clear_owner_range(locks, r)
    BY <1>3 DEF SetUnlck, Release
  <2>2. r \in Record /\ r.start < r.end /\ r.owner = p
    BY RequestFacts DEF Requests
  <2>3. /\ \A q \in Proc, f \in File, k \in Nat : Includes(locks, locks', POSIX, q, f, k)
        /\ \A q \in Proc, f \in File, k \in Nat : q # p => Includes(locks', locks, POSIX, q, f, k)
    BY <1>0, <2>1, <2>2, ClearIncludes
  <2>4. PosixLocks!GiveUp({p})
    BY <1>0, <2>3, PosixGiveUp
  <2> QED
    BY <2>4 DEF PosixLocks!Next
<1>4. CASE FlockUn(p) \/ Close(p) \/ Exit(p)
  <2>1. /\ locks' \subseteq locks
        /\ \A l \in locks : l.flock = FALSE => l \in locks' \/ l.owner = p
    BY <1>4 DEF FlockUn, Close, Exit, Release, OfSlot
  <2>2. ASSUME NEW q \in Proc, NEW f \in File, NEW k \in Nat
        PROVE  /\ Includes(locks, locks', POSIX, q, f, k)
               /\ q # p => Includes(locks', locks, POSIX, q, f, k)
    <3>1. Includes(locks, locks', POSIX, q, f, k)
      BY <2>1 DEF Includes, Holds
    <3>2. ASSUME q # p, NEW l \in locks, Covers(l, POSIX, q, f, k)
          PROVE  l \in locks'
      BY <2>1, <3>2 DEF Covers, POSIX
    <3>3. q # p => Includes(locks', locks, POSIX, q, f, k)
      BY <3>2 DEF Includes, Holds
    <3> QED
      BY <3>1, <3>3
  <2>3. /\ \A q \in Proc, f \in File, k \in Nat : Includes(locks, locks', POSIX, q, f, k)
        /\ \A q \in Proc, f \in File, k \in Nat : q # p => Includes(locks', locks, POSIX, q, f, k)
    BY <2>2
  <2>4. PosixLocks!GiveUp({p})
    BY <1>0, <2>3, PosixGiveUp
  <2> QED
    BY <2>4 DEF PosixLocks!Next
<1>5. CASE \/ SetLkw(p) \/ TryDeadlock(p) \/ TryBlock(p) \/ WaitEnd(p) \/ WaitTest(p)
           \/ WaitRecheck(p) \/ WaitDone(p) \/ Signal(p) \/ wake_up_all(p)
  <2>1. locks' = locks
    BY <1>5 DEF SetLkw, TryDeadlock, TryBlock, WaitEnd, WaitTest, WaitRecheck, WaitDone, Signal,
       wake_up_all, table
  <2> QED
    BY <2>1, PosixModes
<1> QED
  BY <1>1, <1>2, <1>3, <1>4, <1>5

\* The POSIX records implement byte locks held by processes: splitting, merging
\* and converting records changes exactly the bytes asked for, a full table
\* costs the caller bytes of its own, and nobody else's locks change.
THEOREM FcntlIsByteLocks == Spec => ImplementsPosix
<1>1. Init => PosixLocks!Init
  <2> SUFFICES ASSUME Init
               PROVE  PosixMode = [b \in PosixBytes |-> [h \in Proc |-> "none"]]
    BY DEF PosixLocks!Init, PosixMode
  <2> QED
    BY DEF Init, PosixMode, ModeOf
<1>2. /\ LockInv /\ Canonical(locks) /\ LockInv' /\ Canonical(locks)' /\ [Next]_vars
      => [PosixLocks!Next]_PosixMode
  <2> SUFFICES ASSUME LockInv, Canonical(locks), LockInv', Canonical(locks'), [Next]_vars
               PROVE  PosixLocks!Next \/ PosixMode' = PosixMode
    BY DEF Canonical, AllApart, Apart, Fits, Whole, SameHolder
  <2>1. CASE Next
    BY <2>1, PosixStep DEF Next, LockInv
  <2>2. CASE UNCHANGED vars
    BY <2>2, PosixModes DEF vars, table
  <2> QED
    BY <2>1, <2>2
<1> QED
  BY <1>1, <1>2, LockInvHolds, CanonicalHolds, PTL
     DEF Spec, ImplementsPosix, PosixLocks!Spec, PosixMode
=============================================================================
