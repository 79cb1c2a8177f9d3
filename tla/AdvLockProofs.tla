---------------------------- MODULE AdvLockProofs ---------------------------
(***************************************************************************)
(* Proofs about AdvLock for every set of processes, slots, files and       *)
(* ranges and every size of the two tables:                                *)
(*                                                                         *)
(*   LocksExclusive    no two holders have conflicting locks on a byte     *)
(*   WaitsForAcyclic   the waits-for graph never has a cycle               *)
(*   LockWakeups       a sleeper whose lock is free has a waker coming     *)
(*                                                                         *)
(* The first rests on what the operations do to a set of records: clearing *)
(* leaves parts of records (WithinGood), and coalescing covers no byte     *)
(* that one of the merged records does not (CoalesceGood).  The second     *)
(* rests on AddAcyclic: edges out of p whose targets do not reach p close  *)
(* no cycle.  The third rests on GrantableWeakens: what makes a request    *)
(* grantable weakens the lock that stood in its way.                       *)
(***************************************************************************)
EXTENDS AdvLock, TLAPS

\* A set of records of which none is empty and no two conflict.
Good(L) ==
  /\ L \subseteq Record
  /\ \A l \in L : l.start < l.end
  /\ \A l, m \in L : ~Conflict(l, m)

\* m is l, or what is left of it.
Within(m, l) ==
  /\ m.flock = l.flock /\ m.type = l.type /\ m.file = l.file
  /\ m.owner = l.owner /\ m.slot = l.slot
  /\ l.start <= m.start /\ m.start < m.end /\ m.end <= l.end

\* No edge closes a cycle of E.
Acyclic(E) == \A e \in E : ~reachable(E, e[2], e[1])

Requests(p) == PosixRequests(p) \cup FlockRequests(p)

Inv == TypeOK /\ Good(locks)
-----------------------------------------------------------------------------
(* Records and requests *)

\* Requests are non-empty records; the ones for a POSIX lock have no slot.
LEMMA RequestFacts ==
  ASSUME NEW p \in Proc, NEW r \in Requests(p)
  PROVE  r \in Record /\ r.start < r.end /\ r.owner = p
<1>1. CASE r \in PosixRequests(p)
  <2>1. PICK f \in File, m \in Types, q \in Ranges : r = Posix(p, f, m, q[1], q[2])
    BY <1>1 DEF PosixRequests
  <2>2. q[1] \in 0..Eof /\ q[2] \in 0..Eof /\ q[1] < q[2]
    BY AdvLockAssumption
  <2> QED
    BY <2>1, <2>2 DEF Posix, Record
<1>2. CASE r \in FlockRequests(p)
  <2>1. PICK x \in Slot, m \in Types : slotOf[x] = p /\ r = Flock(x, m)
    BY <1>2 DEF FlockRequests
  <2>2. fileOf[x] \in File /\ 0 \in 0..Eof /\ Eof \in 0..Eof /\ 0 < Eof
    BY AdvLockAssumption
  <2> QED
    BY <2>1, <2>2 DEF Flock, Record
<1> QED
  BY <1>1, <1>2 DEF Requests

\* posix_conflict does not depend on which of the two records asks.
LEMMA ConflictSym ==
  ASSUME NEW a \in Record, NEW b \in Record
  PROVE  Conflict(a, b) <=> Conflict(b, a)
BY DEF Conflict, SameHolder, ranges_overlap, Record

\* A part of a record conflicts with nothing the record does not conflict with.
LEMMA WithinConflict ==
  ASSUME NEW a \in Record, NEW l \in Record, NEW m \in Record,
         Within(m, l), ~Conflict(a, l)
  PROVE  ~Conflict(a, m)
BY DEF Within, Conflict, SameHolder, ranges_overlap, Record

\* Parts of the records of a good set are a good set.
LEMMA WithinGood ==
  ASSUME NEW L, NEW M, Good(L), M \subseteq Record,
         \A m \in M : \E l \in L : Within(m, l)
  PROVE  Good(M)
<1>1. \A m \in M : m.start < m.end
  BY DEF Within
<1>2. ASSUME NEW a \in M, NEW b \in M
      PROVE  ~Conflict(a, b)
  <2>1. PICK k \in L : Within(a, k)
    OBVIOUS
  <2>2. PICK l \in L : Within(b, l)
    OBVIOUS
  <2>3. ~Conflict(l, k) /\ a \in Record /\ b \in Record /\ k \in Record /\ l \in Record
    BY DEF Good
  <2>4. ~Conflict(l, a)
    BY <2>1, <2>3, WithinConflict
  <2>5. ~Conflict(a, l)
    BY <2>3, <2>4, ConflictSym
  <2> QED
    BY <2>2, <2>3, <2>5, WithinConflict
<1> QED
  BY <1>1, <1>2 DEF Good

\* Records removed leave a good set.
LEMMA SubsetGood ==
  ASSUME NEW L, NEW M, Good(L), M \subseteq L
  PROVE  Good(M)
BY DEF Good
-----------------------------------------------------------------------------
(* The operations on the table *)

\* Clearing a range leaves parts of records.
LEMMA ClearWithin ==
  ASSUME NEW L, Good(L), NEW r \in Record, r.start < r.end
  PROVE  /\ posix_clear_owner_range(L, r) \subseteq Record
         /\ \A m \in posix_clear_owner_range(L, r) : \E l \in L : Within(m, l)
<1> DEFINE hit == {l \in L : ~l.flock /\ l.file = r.file /\ l.owner = r.owner /\ ranges_overlap(r, l)}
           left == {[l EXCEPT !.end = r.start] : l \in {h \in hit : h.start < r.start}}
           right == {[l EXCEPT !.start = r.end] : l \in {h \in hit : h.end > r.end}}
           kept == (L \ hit) \cup left
<1>1. posix_clear_owner_range(L, r) \subseteq (L \ hit) \cup left \cup right
  BY DEF posix_clear_owner_range
<1>2. ASSUME NEW m \in L
      PROVE  m \in Record /\ Within(m, m)
  BY <1>2 DEF Good, Within, Record
<1>3. ASSUME NEW m \in left
      PROVE  m \in Record /\ \E l \in L : Within(m, l)
  <2>1. PICK l \in L : /\ l.start < r.start /\ ranges_overlap(r, l)
                       /\ m = [l EXCEPT !.end = r.start]
    OBVIOUS
  <2>2. l \in Record
    BY DEF Good
  <2> HIDE DEF left, hit
  <2>3. m \in Record /\ Within(m, l)
    BY <2>1, <2>2 DEF Within, ranges_overlap, Record
  <2> QED
    BY <2>3
<1>4. ASSUME NEW m \in right
      PROVE  m \in Record /\ \E l \in L : Within(m, l)
  <2>1. PICK l \in L : /\ l.end > r.end /\ ranges_overlap(r, l)
                       /\ m = [l EXCEPT !.start = r.end]
    OBVIOUS
  <2>2. l \in Record
    BY DEF Good
  <2> HIDE DEF right, hit
  <2>3. m \in Record /\ Within(m, l)
    BY <2>1, <2>2 DEF Within, ranges_overlap, Record
  <2> QED
    BY <2>3
<1> HIDE DEF left, right, hit
<1> QED
  BY <1>1, <1>2, <1>3, <1>4

\* Merging r with the records that touch it keeps the set good: a foreign lock
\* that overlaps the merged range overlaps r or one of the two ends.
LEMMA CoalesceGood ==
  ASSUME NEW L, Good(L), NEW r \in Record, r.start < r.end, ~r.flock,
         \A l \in L : ~Conflict(r, l)
  PROVE  Good(coalesce_posix(L, r))
<1> DEFINE same == {l \in L : /\ ~l.flock /\ l.file = r.file /\ l.owner = r.owner /\ l.type = r.type
                              /\ l.start <= r.end /\ r.start <= l.end} \cup {r}
           span == {q \in same \X same : \A l \in same : q[1].start <= l.start /\ l.end <= q[2].end}
           merged == {[r EXCEPT !.start = q[1].start, !.end = q[2].end] : q \in span}
<1>1. coalesce_posix(L, r) = (L \ same) \cup merged
  BY DEF coalesce_posix
<1>2. ASSUME NEW x \in merged
      PROVE  \E a, b \in same :
               /\ a.start <= r.start /\ r.end <= b.end
               /\ x = [r EXCEPT !.start = a.start, !.end = b.end]
  <2>1. PICK q \in span : x = [r EXCEPT !.start = q[1].start, !.end = q[2].end]
    OBVIOUS
  <2>2. q[1] \in same /\ q[2] \in same /\ r \in same
    OBVIOUS
  <2>3. q[1].start <= r.start /\ r.end <= q[2].end
    BY <2>2
  <2> HIDE DEF same, span, merged
  <2> QED
    BY <2>1, <2>2, <2>3
<1>3. ASSUME NEW a \in same
      PROVE  /\ a \in Record /\ a.start < a.end /\ a.start <= r.end /\ r.start <= a.end
             /\ a.flock = r.flock /\ a.file = r.file /\ a.owner = r.owner /\ a.type = r.type
             /\ \A l \in L : ~Conflict(a, l)
  <2>1. CASE a = r
    BY <2>1 DEF Record
  <2>2. CASE a # r
    <3>1. /\ a \in L /\ a.start <= r.end /\ r.start <= a.end
          /\ ~a.flock /\ a.file = r.file /\ a.owner = r.owner /\ a.type = r.type
      BY <2>2
    <3> HIDE DEF same, span, merged
    <3>2. a \in Record /\ a.start < a.end /\ \A l \in L : ~Conflict(a, l)
      BY <3>1 DEF Good
    <3>3. a.flock = r.flock
      BY <3>1, <3>2 DEF Record
    <3> QED
      BY <3>1, <3>2, <3>3
  <2> QED
    BY <2>1, <2>2
<1> HIDE DEF same, span, merged
<1>4. ASSUME NEW x \in merged
      PROVE  x \in Record /\ x.start < x.end
  <2>1. PICK a, b \in same : /\ a.start <= r.start /\ r.end <= b.end
                             /\ x = [r EXCEPT !.start = a.start, !.end = b.end]
    BY <1>2
  <2>2. a \in Record /\ b \in Record
    BY <1>3
  <2>3. x \in Record /\ x.start = a.start /\ x.end = b.end
    BY <2>1, <2>2 DEF Record
  <2>4. /\ a.start \in 0..Eof /\ b.end \in 0..Eof /\ r.start \in 0..Eof
        /\ r.end \in 0..Eof
    BY <2>2 DEF Record
  <2> QED
    BY <2>1, <2>3, <2>4, AdvLockAssumption
<1>5. ASSUME NEW x \in merged, NEW l \in L
      PROVE  ~Conflict(x, l)
  <2>1. PICK a, b \in same : /\ a.start <= r.start /\ r.end <= b.end
                             /\ x = [r EXCEPT !.start = a.start, !.end = b.end]
    BY <1>2
  <2>2. l \in Record /\ l.start < l.end
    BY DEF Good
  <2>3. ~Conflict(a, l) /\ ~Conflict(b, l) /\ ~Conflict(r, l)
    BY <1>3
  <2>4. /\ a \in Record /\ a.start <= r.end /\ r.start <= a.end /\ a.flock = r.flock
        /\ a.file = r.file /\ a.owner = r.owner /\ a.type = r.type
    BY <1>3
  <2>5. /\ b \in Record /\ b.start <= r.end /\ r.start <= b.end /\ b.flock = r.flock
        /\ b.file = r.file /\ b.owner = r.owner /\ b.type = r.type
    BY <1>3
  <2>6. /\ x.flock = r.flock /\ x.file = r.file /\ x.owner = r.owner /\ x.type = r.type
        /\ x.start = a.start /\ x.end = b.end
    BY <2>1 DEF Record
  <2>7. ranges_overlap(x, l) =>
          ranges_overlap(a, l) \/ ranges_overlap(b, l) \/ ranges_overlap(r, l)
    BY <2>2, <2>4, <2>5, <2>6 DEF ranges_overlap, Record
  <2> QED
    BY <2>3, <2>4, <2>5, <2>6, <2>7 DEF Conflict, SameHolder
<1>6. ASSUME NEW x \in merged, NEW y \in merged
      PROVE  ~Conflict(x, y)
  <2>1. x.flock = r.flock /\ x.owner = r.owner /\ y.flock = r.flock /\ y.owner = r.owner
    BY <1>2 DEF Record
  <2> QED
    BY <2>1 DEF Conflict, SameHolder
<1>7. ASSUME NEW x \in (L \ same) \cup merged, NEW y \in (L \ same) \cup merged
      PROVE  ~Conflict(x, y)
  <2>1. CASE x \in L /\ y \in L
    BY <2>1 DEF Good
  <2>2. CASE x \in merged /\ y \in L
    BY <2>2, <1>5
  <2>3. CASE x \in L /\ y \in merged
    <3>1. ~Conflict(y, x) /\ x \in Record /\ y \in Record
      BY <2>3, <1>4, <1>5 DEF Good
    <3> QED
      BY <3>1, ConflictSym
  <2> QED
    BY <2>1, <2>2, <2>3, <1>6
<1> QED
  BY <1>1, <1>4, <1>7 DEF Good

\* A granted POSIX request leaves the table good, also when it finds no room.
LEMMA PosixApplyGood ==
  ASSUME Good(locks), NEW p \in Proc, NEW r \in Requests(p), ~r.flock, Grantable(r)
  PROVE  Good(posix_apply(r))
<1>1. r \in Record /\ r.start < r.end
  BY RequestFacts
<1> DEFINE C == posix_clear_owner_range(locks, r)
<1>2. C \subseteq Record /\ \A m \in C : \E l \in locks : Within(m, l)
  BY <1>1, ClearWithin
<1>3. Good(C)
  BY <1>2, WithinGood
<1>4. ASSUME NEW m \in C
      PROVE  ~Conflict(r, m)
  <2>1. PICK l \in locks : Within(m, l)
    BY <1>2
  <2>2. ~Conflict(r, l) /\ l \in Record /\ m \in Record
    BY <1>2 DEF Grantable, Conflicts, Good
  <2> QED
    BY <1>1, <2>1, <2>2, WithinConflict
<1>5. Good(coalesce_posix(C, r))
  BY <1>1, <1>3, <1>4, CoalesceGood
<1> QED
  BY <1>3, <1>5 DEF posix_apply

\* So does a granted BSD request.
LEMMA FlockApplyGood ==
  ASSUME Good(locks), NEW p \in Proc, NEW r \in Requests(p), Grantable(r)
  PROVE  Good(flock_apply(r))
<1>1. r \in Record /\ r.start < r.end
  BY RequestFacts
<1> DEFINE C == locks \ OfSlot(r.slot)
<1>2. Good(C)
  BY SubsetGood
<1>3. ASSUME NEW m \in C
      PROVE  ~Conflict(r, m) /\ ~Conflict(m, r)
  <2>1. ~Conflict(r, m) /\ m \in Record
    BY DEF Grantable, Conflicts, Good
  <2> QED
    BY <1>1, <2>1, ConflictSym
<1>4. ~Conflict(r, r)
  BY DEF Conflict, SameHolder
<1>5. Good(C \cup {r})
  BY <1>1, <1>2, <1>3, <1>4 DEF Good
<1> QED
  BY <1>2, <1>5 DEF flock_apply

\* Whatever is granted leaves the table good.
LEMMA ApplyGood ==
  ASSUME Good(locks), NEW p \in Proc, NEW r \in Requests(p), Grantable(r)
  PROVE  Good(Apply(r))
BY PosixApplyGood, FlockApplyGood DEF Apply

-----------------------------------------------------------------------------
(* Steps keep Inv *)

\* The part of TypeOK about processes: where they are and what they ask for
ProcType ==
  /\ wq \subseteq Proc /\ eintr \subseteq Proc
  /\ pc \in [Proc -> {"user", "try", "wait", "linked", "asleep", "end", "wake"}]
  /\ req \in [Proc -> Record \cup {NoReq}]
  /\ \A p \in Proc :
       IF pc[p] \in {"user", "wake"} THEN req[p] = NoReq ELSE req[p] \in Requests(p)

\* TypeOK by its parts.
LEMMA TypeParts ==
  TypeOK <=> /\ locks \subseteq Record /\ edges \subseteq Proc \X Proc
             /\ ProcType /\ quiet \in BOOLEAN
BY DEF TypeOK, ProcType, Requests

\* The same of the next state.
LEMMA TypePartsNext ==
  TypeOK' <=> /\ locks' \subseteq Record /\ edges' \subseteq Proc \X Proc
              /\ ProcType' /\ quiet' \in BOOLEAN
BY DEF TypeOK, ProcType, Requests, PosixRequests, FlockRequests

\* Where a process is and what it asks for stay well typed.
LEMMA ProcTypeKeeps ==
  ASSUME ProcType, NEW p \in Proc,
         \/ SetLk(p) \/ SetLkw(p) \/ TryGrant(p) \/ TryDeadlock(p) \/ TryBlock(p) \/ WaitEnd(p)
         \/ WaitTest(p) \/ WaitRecheck(p) \/ WaitDone(p) \/ Signal(p) \/ wake_up_all(p)
         \/ SetUnlck(p) \/ FlockUn(p) \/ Close(p) \/ Exit(p)
  PROVE  ProcType'
<1> DEFINE Stays == UNCHANGED <<wait, pc, req>>
           Wakes == UNCHANGED <<wait, req>> /\ Goto(p, "user", "wake")
<1>1. CASE Stays
  BY <1>1 DEF ProcType, wait, Requests, PosixRequests, FlockRequests
<1>2. CASE Wakes
  BY <1>2 DEF ProcType, wait, Goto, Requests, PosixRequests, FlockRequests
<1>3. CASE SetLk(p)
  BY <1>3, <1>1 DEF SetLk, Replace
<1>4. CASE SetLkw(p)
  <2>1. PICK r \in Requests(p) : req' = [req EXCEPT ![p] = r]
    BY <1>4 DEF SetLkw, Requests
  <2>2. r \in Record
    BY RequestFacts
  <2> QED
    BY <1>4, <2>1, <2>2 DEF SetLkw, ProcType, Goto, wait, Requests, PosixRequests, FlockRequests
<1>5. CASE TryGrant(p)
  BY <1>5 DEF TryGrant, Leave, Goto, ProcType, wait, Requests, PosixRequests, FlockRequests
<1>6. CASE TryDeadlock(p)
  BY <1>6 DEF TryDeadlock, Goto, ProcType, wait, Requests, PosixRequests, FlockRequests
<1>7. CASE TryBlock(p)
  BY <1>7 DEF TryBlock, Goto, ProcType, wait, Requests, PosixRequests, FlockRequests
<1>8. CASE WaitEnd(p)
  BY <1>8 DEF WaitEnd, Goto, ProcType, wait, Requests, PosixRequests, FlockRequests
<1>9. CASE WaitTest(p)
  BY <1>9 DEF WaitTest, Goto, ProcType, wait, Requests, PosixRequests, FlockRequests
<1>10. CASE WaitRecheck(p)
  BY <1>10 DEF WaitRecheck, Goto, ProcType, wait, Requests, PosixRequests, FlockRequests
<1>11. CASE WaitDone(p)
  BY <1>11 DEF WaitDone, Leave, Goto, ProcType, wait, Requests, PosixRequests, FlockRequests
<1>12. CASE Signal(p)
  BY <1>12 DEF Signal, ProcType, wait, Requests, PosixRequests, FlockRequests
<1>13. CASE wake_up_all(p)
  BY <1>13 DEF wake_up_all, Goto, ProcType, wait, Requests, PosixRequests, FlockRequests
<1>14. CASE SetUnlck(p) \/ FlockUn(p) \/ Close(p) \/ Exit(p)
  <2>1. Stays \/ Wakes
    BY <1>14 DEF SetUnlck, FlockUn, Close, Exit, Release
  <2> QED
    BY <2>1, <1>1, <1>2
<1> QED
  BY <1>3, <1>4, <1>5, <1>6, <1>7, <1>8, <1>9, <1>10, <1>11, <1>12, <1>13, <1>14

\* The table only ever becomes part of itself, cleared of a request's range, or
\* the result of a granted request.
LEMMA TableKeeps ==
  ASSUME Inv, NEW p \in Proc,
         \/ SetLk(p) \/ SetLkw(p) \/ TryGrant(p) \/ TryDeadlock(p) \/ TryBlock(p) \/ WaitEnd(p)
         \/ WaitTest(p) \/ WaitRecheck(p) \/ WaitDone(p) \/ Signal(p) \/ wake_up_all(p)
         \/ SetUnlck(p) \/ FlockUn(p) \/ Close(p) \/ Exit(p)
  PROVE  Good(locks')
<1>0. Good(locks) /\ ProcType
  BY TypeParts DEF Inv
<1>1. CASE SetLk(p)
  <2>1. PICK r \in Requests(p) : Grantable(r) /\ locks' = Apply(r)
    BY <1>1 DEF SetLk, Replace, Requests
  <2> QED
    BY <1>0, <2>1, ApplyGood
<1>2. CASE TryGrant(p)
  <2>1. req[p] \in Requests(p)
    BY <1>0, <1>2 DEF TryGrant, ProcType
  <2>2. Grantable(req[p]) /\ locks' = Apply(req[p])
    BY <1>2 DEF TryGrant, Replace
  <2> QED
    BY <1>0, <2>1, <2>2, ApplyGood
<1>3. CASE SetUnlck(p)
  <2>1. PICK r \in Requests(p) : locks' = posix_clear_owner_range(locks, r)
    BY <1>3 DEF SetUnlck, Release, Requests
  <2>2. r \in Record /\ r.start < r.end
    BY RequestFacts
  <2> QED
    BY <1>0, <2>1, <2>2, ClearWithin, WithinGood
<1>4. CASE FlockUn(p) \/ Close(p) \/ Exit(p)
  <2>1. locks' \subseteq locks
    BY <1>4 DEF FlockUn, Close, Exit, Release
  <2> QED
    BY <1>0, <2>1, SubsetGood
<1>5. CASE \/ SetLkw(p) \/ TryDeadlock(p) \/ TryBlock(p) \/ WaitEnd(p) \/ WaitTest(p)
           \/ WaitRecheck(p) \/ WaitDone(p) \/ Signal(p) \/ wake_up_all(p)
  <2>1. locks' = locks
    BY <1>5 DEF SetLkw, TryDeadlock, TryBlock, WaitEnd, WaitTest, WaitRecheck, WaitDone, Signal,
       wake_up_all, table
  <2> QED
    BY <1>0, <2>1
<1> QED
  BY <1>1, <1>2, <1>3, <1>4, <1>5

-----------------------------------------------------------------------------
(* The waits-for graph *)

\* Closed under the edges of E
Closed(E, S) == \A e \in E : e[1] \in S => e[2] \in S

\* What cannot be reached is shut out by a closed set.
LEMMA Unreachable ==
  ASSUME NEW E, NEW p, NEW q
  PROVE  ~reachable(E, p, q) <=> \E S \in SUBSET Proc : p \in S /\ Closed(E, S) /\ q \notin S
BY DEF reachable, Closed

\* Removing edges makes no cycle.
LEMMA SubsetAcyclic ==
  ASSUME NEW E, NEW D, D \subseteq E, Acyclic(E)
  PROVE  Acyclic(D)
<1> SUFFICES ASSUME NEW e \in D
             PROVE  ~reachable(D, e[2], e[1])
  BY DEF Acyclic
<1>1. PICK S \in SUBSET Proc : e[2] \in S /\ Closed(E, S) /\ e[1] \notin S
  BY Unreachable DEF Acyclic
<1>2. Closed(D, S)
  BY <1>1 DEF Closed
<1> QED
  BY <1>1, <1>2, Unreachable

\* Edges out of p to blockers that do not reach p close no cycle.
LEMMA AddAcyclic ==
  ASSUME NEW E \in SUBSET (Proc \X Proc), NEW N \in SUBSET (Proc \X Proc), NEW p \in Proc,
         Acyclic(E), \A e \in E : e[1] # p,
         \A n \in N : n[1] = p /\ ~reachable(E, n[2], p)
  PROVE  Acyclic(E \cup N)
<1> SUFFICES ASSUME NEW e \in E \cup N
             PROVE  ~reachable(E \cup N, e[2], e[1])
  BY DEF Acyclic
<1>1. CASE e \in N
  <2>1. PICK S \in SUBSET Proc : e[2] \in S /\ Closed(E, S) /\ p \notin S
    BY <1>1, Unreachable
  <2>2. Closed(E \cup N, S)
    BY <2>1 DEF Closed
  <2> QED
    BY <1>1, <2>1, <2>2, Unreachable
<1>2. CASE e \in E
  <2> DEFINE U == {x \in Proc : \E n \in N : reachable(E, n[2], x)}
  <2>1. Closed(E, U)
    <3> SUFFICES ASSUME NEW d \in E, d[1] \in U
                 PROVE  d[2] \in U
      BY DEF Closed
    <3>1. PICK n \in N : reachable(E, n[2], d[1])
      OBVIOUS
    <3>2. reachable(E, n[2], d[2])
      BY <3>1 DEF reachable
    <3> QED
      BY <3>2
  <2>2. \A n \in N : n[2] \in U
    <3> SUFFICES ASSUME NEW n \in N
                 PROVE  n[2] \in U
      OBVIOUS
    <3>1. reachable(E, n[2], n[2])
      BY DEF reachable
    <3> QED
      BY <3>1
  <2>3. p \notin U
    OBVIOUS
  <2> HIDE DEF U
  <2>4. PICK S \in SUBSET Proc : e[2] \in S /\ Closed(E, S) /\ e[1] \notin S
    BY <1>2, Unreachable DEF Acyclic
  <2>5. CASE e[1] \notin U
    \* What e[2] reaches, with all that the new edges lead to
    <3>1. Closed(E \cup N, S \cup U)
      BY <2>1, <2>2 , <2>4 DEF Closed
    <3>2. S \cup U \in SUBSET Proc
      BY <2>4 DEF U
    <3> QED
      BY <2>4, <2>5, <3>1, <3>2, Unreachable
  <2>6. CASE e[1] \in U
    \* e[2] is in U, which the new edges do not leave: they start at p
    <3>1. e[2] \in U
      BY <1>2, <2>1, <2>6 DEF Closed
    <3> DEFINE V == S \cap U
    <3>2. e[2] \in V /\ e[1] \notin V /\ p \notin V /\ V \in SUBSET Proc
      BY <2>3, <2>4, <3>1
    <3>3. Closed(E \cup N, V)
      BY <2>1, <2>4, <3>2 DEF Closed
    <3> QED
      BY <3>2, <3>3, Unreachable
  <2> QED
    BY <2>5, <2>6
<1> QED
  BY <1>1, <1>2

\* A step removes edges, or a process that blocks replaces its own by edges to
\* the blockers of its request, none of which reaches it.
LEMMA EdgesKeep ==
  ASSUME Inv, Acyclic(edges), NEW p \in Proc,
         \/ SetLk(p) \/ SetLkw(p) \/ TryGrant(p) \/ TryDeadlock(p) \/ TryBlock(p) \/ WaitEnd(p)
         \/ WaitTest(p) \/ WaitRecheck(p) \/ WaitDone(p) \/ Signal(p) \/ wake_up_all(p)
         \/ SetUnlck(p) \/ FlockUn(p) \/ Close(p) \/ Exit(p)
  PROVE  edges' \subseteq Proc \X Proc /\ Acyclic(edges')
<1>0. edges \subseteq Proc \X Proc /\ locks \subseteq Record
  BY DEF Inv, TypeOK
<1>1. CASE edges' \subseteq edges
  BY <1>0, <1>1, SubsetAcyclic
<1>2. CASE TryBlock(p) /\ ~(edges' \subseteq edges)
  <2> DEFINE E == clear_edges_waiter(edges, p)
             N == {<<p, l.owner>> : l \in Conflicts(req[p])}
  <2>1. ~Closes(p) /\ AddEdges(E, N)
    BY <1>2 DEF TryBlock
  <2>2. \A l \in Conflicts(req[p]) : l.owner \in Proc
    BY <1>0 DEF Conflicts, Record
  <2>3. /\ E \in SUBSET (Proc \X Proc) /\ E \subseteq edges /\ \A e \in E : e[1] # p
        /\ N \in SUBSET (Proc \X Proc)
    BY <1>0, <2>2 DEF clear_edges_waiter
  <2>4. ASSUME NEW n \in N
        PROVE  n[1] = p /\ ~reachable(E, n[2], p)
    BY <2>1 DEF Closes
  <2>5. edges' \subseteq E \cup N
    BY <2>1 DEF AddEdges
  <2> HIDE DEF E, N
  <2>6. Acyclic(E)
    BY <2>3, SubsetAcyclic
  <2>7. Acyclic(E \cup N)
    BY <2>3, <2>4, <2>6, AddAcyclic
  <2> QED
    BY <2>3, <2>5, <2>7, SubsetAcyclic
<1>3. CASE \/ SetLk(p) \/ SetLkw(p) \/ TryGrant(p) \/ TryDeadlock(p) \/ WaitEnd(p)
           \/ WaitTest(p) \/ WaitRecheck(p) \/ WaitDone(p) \/ Signal(p) \/ wake_up_all(p)
           \/ SetUnlck(p) \/ FlockUn(p) \/ Close(p) \/ Exit(p)
  <2>1. edges' \subseteq edges
    BY <1>3 DEF SetLk, SetLkw, TryGrant, TryDeadlock, WaitEnd, WaitTest, WaitRecheck, WaitDone,
       Signal, wake_up_all, SetUnlck, FlockUn, Close, Exit, table, clear_edges_waiter
  <2> QED
    BY <2>1, <1>1
<1> QED
  BY <1>1, <1>2, <1>3
-----------------------------------------------------------------------------
(* The theorems *)

\* The inductive invariant.  Exclusive needs the types of the requests and that
\* no record is empty; the graph needs the types of records and edges.
LockInv == Inv /\ Acyclic(edges)

\* Nobody holds or waits for a lock at first.
LEMMA InitLockInv == Init => LockInv
BY DEF Init, LockInv, Inv, TypeOK, Good, Acyclic

\* Every step keeps the invariant.
LEMMA NextLockInv == LockInv /\ [Next]_vars => LockInv'
<1> SUFFICES ASSUME LockInv, [Next]_vars
             PROVE  LockInv'
  OBVIOUS
<1>1. CASE UNCHANGED vars
  BY <1>1 DEF LockInv, Inv, TypeOK, Good, Acyclic, vars, table, wait, PosixRequests, FlockRequests
<1>2. CASE Next
  <2>1. PICK p \in Proc :
          \/ SetLk(p) \/ SetLkw(p) \/ TryGrant(p) \/ TryDeadlock(p) \/ TryBlock(p) \/ WaitEnd(p)
          \/ WaitTest(p) \/ WaitRecheck(p) \/ WaitDone(p) \/ Signal(p) \/ wake_up_all(p)
          \/ SetUnlck(p) \/ FlockUn(p) \/ Close(p) \/ Exit(p)
    BY <1>2 DEF Next
  <2>2. Inv /\ Acyclic(edges) /\ ProcType /\ quiet \in BOOLEAN
    BY TypeParts DEF LockInv, Inv
  <2>3. ProcType'
    BY <2>1, <2>2, ProcTypeKeeps
  <2>4. Good(locks')
    BY <2>1, <2>2, TableKeeps
  <2>5. edges' \subseteq Proc \X Proc /\ Acyclic(edges')
    BY <2>1, <2>2, EdgesKeep
  <2>6. quiet' \in BOOLEAN
    BY <2>1, <2>2 DEF SetLk, SetLkw, TryGrant, TryDeadlock, TryBlock, WaitEnd, WaitTest,
       WaitRecheck, WaitDone, Signal, wake_up_all, SetUnlck, FlockUn, Close, Exit, Release, Replace
  <2>7. TypeOK'
    BY <2>3, <2>4, <2>5, <2>6, TypePartsNext DEF Good
  <2> QED
    BY <2>4, <2>5, <2>7 DEF LockInv, Inv, Good, Acyclic
<1> QED
  BY <1>1, <1>2

\* So it always holds.
LEMMA LockInvHolds == Spec => []LockInv
BY InitLockInv, NextLockInv, PTL DEF Spec

\* The tables, the queue and the requests of advlock.c keep their types.
THEOREM AdvLockTypes == Spec => []TypeOK
<1>1. LockInv => TypeOK
  BY DEF LockInv, Inv
<1> QED
  BY <1>1, LockInvHolds, PTL

\* However processes lock, convert, unlock, close and exit, and even when the
\* table is full, no two holders have conflicting locks on a byte of a file.
THEOREM LocksExclusive == Spec => []Exclusive
<1>1. LockInv => Exclusive
  BY DEF LockInv, Inv, Good, Exclusive
<1> QED
  BY <1>1, LockInvHolds, PTL

\* advlock_setw_step_rs never closes a cycle of waits-for edges, whatever the
\* number of processes, also when add_edge drops edges for lack of room.
THEOREM WaitsForAcyclic == Spec => []EdgesAcyclic
<1>1. LockInv => EdgesAcyclic
  BY DEF LockInv, Acyclic, EdgesAcyclic
<1> QED
  BY <1>1, LockInvHolds, PTL
-----------------------------------------------------------------------------
(* No lost wakeup *)

\* A request that becomes grantable shows that the table was weakened: the
\* byte on which a lock stood in its way is not held as strongly any more.
LEMMA GrantableWeakens ==
  ASSUME NEW L, L \subseteq Record, NEW old, old \subseteq Record,
         NEW r \in Record, r.start < r.end, NEW l \in old, l.start < l.end,
         Conflict(r, l), \A m \in L : ~Conflict(r, m)
  PROVE  Weaker(L, old)
<1> DEFINE k == IF r.start < l.start THEN l.start ELSE r.start
<1>1. /\ r.start \in 0..Eof /\ r.end \in 0..Eof /\ l.start \in 0..Eof /\ l.end \in 0..Eof
      /\ r.start < l.end /\ l.start < r.end /\ Eof \in Nat
  BY AdvLockAssumption DEF Record, Conflict, ranges_overlap
<1>2. /\ k \in 0..Eof-1 /\ l.start <= k /\ k < l.end /\ r.start <= k /\ k < r.end
  BY <1>1
<1> HIDE DEF k
<1>3. ASSUME NEW m \in L, SameHolder(l, m), l.file = m.file, m.start <= k, k < m.end,
             l.type = "W" => m.type = "W"
      PROVE  FALSE
  <2>1. m \in Record /\ m.start \in Nat /\ m.end \in Nat
    BY DEF Record
  <2>2. ranges_overlap(r, m)
    BY <1>1, <1>2, <1>3, <2>1 DEF ranges_overlap
  <2>3. m.flock = r.flock /\ m.file = r.file /\ ~SameHolder(m, r)
    BY <1>3 DEF Conflict, SameHolder
  <2>4. r.type = "W" \/ m.type = "W"
    BY <1>3 DEF Conflict
  <2> QED
    BY <2>2, <2>3, <2>4 DEF Conflict
<1> QED
  BY <1>2, <1>3 DEF Weaker

\* A call that changes the table and wakes nobody leaves a trace in quiet if
\* that makes anybody's request grantable.
LEMMA ReplaceWakeup ==
  ASSUME Inv, NEW L, L \subseteq Record, Replace(L), NoLostWakeup, UNCHANGED wq,
         \A p \in Proc : pc'[p] = "asleep" => pc[p] = "asleep" /\ req'[p] = req[p],
         \A p \in Proc : pc[p] = "wake" => pc'[p] = "wake"
  PROVE  NoLostWakeup'
<1> SUFFICES ASSUME NEW p \in Proc, p \in wq, pc'[p] = "asleep", Grantable(req[p])', ~quiet'
             PROVE  \E q \in Proc : pc'[q] = "wake"
  BY DEF NoLostWakeup
<1>1. pc[p] = "asleep" /\ req'[p] = req[p] /\ ~quiet /\ locks' = L /\ ~Weaker(L, locks)
  BY DEF Replace
<1>2. CASE Grantable(req[p])
  BY <1>1, <1>2 DEF NoLostWakeup
<1>3. CASE ~Grantable(req[p])
  <2>1. PICK l \in locks : Conflict(req[p], l)
    BY <1>3 DEF Grantable, Conflicts
  <2>2. \A m \in L : ~Conflict(req[p], m)
    BY <1>1 DEF Grantable, Conflicts
  <2>3. req[p] \in Requests(p)
    BY <1>1, TypeParts DEF Inv, ProcType
  <2>4. req[p] \in Record /\ req[p].start < req[p].end
    BY <2>3, RequestFacts
  <2>5. locks \subseteq Record /\ l.start < l.end
    BY DEF Inv, Good
  <2> QED
    BY <1>1, <2>1, <2>2, <2>4, <2>5, GrantableWeakens
<1> QED
  BY <1>2, <1>3

\* A step that leaves the table alone, puts nobody to sleep whose request is
\* grantable, and keeps what is owed to sleepers.
LEMMA IdleWakeup ==
  ASSUME NoLostWakeup, UNCHANGED <<locks, quiet>>, wq' \subseteq wq,
         \A p \in Proc : pc'[p] = "asleep" =>
           req'[p] = req[p] /\ (pc[p] = "asleep" \/ ~Grantable(req[p])),
         \A p \in Proc : pc[p] = "wake" => pc'[p] = "wake"
  PROVE  NoLostWakeup'
BY DEF NoLostWakeup, Grantable, Conflicts

\* Every step keeps NoLostWakeup.
LEMMA WakeupKeeps ==
  ASSUME Inv, NoLostWakeup, NEW p \in Proc,
         \/ SetLk(p) \/ SetLkw(p) \/ TryGrant(p) \/ TryDeadlock(p) \/ TryBlock(p) \/ WaitEnd(p)
         \/ WaitTest(p) \/ WaitRecheck(p) \/ WaitDone(p) \/ Signal(p) \/ wake_up_all(p)
         \/ SetUnlck(p) \/ FlockUn(p) \/ Close(p) \/ Exit(p)
  PROVE  NoLostWakeup'
<1>0. /\ pc \in [Proc -> {"user", "try", "wait", "linked", "asleep", "end", "wake"}]
      /\ req \in [Proc -> Record \cup {NoReq}]
  BY DEF Inv, TypeOK
<1> DEFINE Quiet == /\ \A q \in Proc : pc'[q] = "asleep" => pc[q] = "asleep" /\ req'[q] = req[q]
                    /\ \A q \in Proc : pc[q] = "wake" => pc'[q] = "wake"
<1>1. CASE SetLk(p)
  <2>1. PICK r \in Requests(p) : Replace(Apply(r)) /\ Grantable(r)
    BY <1>1 DEF SetLk, Requests
  <2>2. Apply(r) \subseteq Record
    BY <2>1, ApplyGood DEF Inv, Good
  <2>3. Quiet /\ UNCHANGED wq
    BY <1>1 DEF SetLk, wait
  <2> QED
    BY <2>1, <2>2, <2>3, ReplaceWakeup
<1>2. CASE TryGrant(p)
  <2>1. req[p] \in Requests(p)
    BY <1>2, TypeParts DEF Inv, TryGrant, ProcType
  <2>2. Replace(Apply(req[p])) /\ Apply(req[p]) \subseteq Record
    BY <1>2, <2>1, ApplyGood DEF Inv, Good, TryGrant
  <2>3. Quiet /\ UNCHANGED wq
    BY <1>0, <1>2 DEF TryGrant, wait, Leave, Goto
  <2> QED
    BY <2>2, <2>3, ReplaceWakeup
<1>3. CASE wake_up_all(p)
  BY <1>3 DEF wake_up_all, NoLostWakeup
<1>4. CASE pc[p] = "user" /\ pc' = [pc EXCEPT ![p] = "wake"]
  BY <1>0, <1>4 DEF NoLostWakeup
<1>5. CASE SetLkw(p) \/ TryDeadlock(p) \/ TryBlock(p) \/ WaitEnd(p)
  <2>1. Quiet /\ UNCHANGED <<wq, locks, quiet>>
    BY <1>0, <1>5 DEF SetLkw, TryDeadlock, TryBlock, WaitEnd, wait, table, Goto
  <2> QED
    BY <2>1, IdleWakeup
<1>6. CASE WaitTest(p)
  <2>1. /\ UNCHANGED <<locks, quiet, req>> /\ wq' \subseteq wq \cup {p}
        /\ \E a \in {"try", "linked"} : pc' = [pc EXCEPT ![p] = a]
        /\ pc[p] = "wait"
    BY <1>6 DEF WaitTest, table, Goto, wait
  <2> QED
    BY <1>0, <2>1 DEF NoLostWakeup, Grantable, Conflicts
<1>7. CASE WaitRecheck(p)
  <2>1. /\ UNCHANGED <<locks, quiet, req>> /\ wq' \subseteq wq /\ pc[p] = "linked"
        /\ \/ pc' = [pc EXCEPT ![p] = "try"]
           \/ pc' = [pc EXCEPT ![p] = "asleep"] /\ ~Grantable(req[p])
    BY <1>7 DEF WaitRecheck, table, Goto, wait
  <2>2. \A q \in Proc : pc'[q] = "asleep" => pc[q] = "asleep" \/ ~Grantable(req[q])
    BY <1>0, <2>1
  <2>3. \A q \in Proc : pc[q] = "wake" => pc'[q] = "wake"
    BY <1>0, <2>1
  <2> QED
    BY <2>1, <2>2, <2>3, IdleWakeup
<1>8. CASE WaitDone(p) \/ Signal(p)
  <2>1. Quiet /\ UNCHANGED <<locks, quiet>> /\ wq' \subseteq wq
    BY <1>0, <1>8 DEF WaitDone, Signal, table, Leave, Goto
  <2> QED
    BY <2>1, IdleWakeup
<1>9. CASE SetUnlck(p) \/ FlockUn(p) \/ Close(p) \/ Exit(p)
  <2>1. \/ pc[p] = "user" /\ pc' = [pc EXCEPT ![p] = "wake"]
        \/ UNCHANGED <<locks, wq, pc, req, quiet>>
    BY <1>9 DEF SetUnlck, FlockUn, Close, Exit, Release, Goto, wait
  <2>2. CASE UNCHANGED <<locks, wq, pc, req, quiet>>
    BY <2>2, IdleWakeup
  <2> QED
    BY <2>1, <2>2, <1>4
<1> QED
  BY <1>1, <1>2, <1>3, <1>5, <1>6, <1>7, <1>8, <1>9

\* A process sleeps on a lock that it could have only while the waker is on its
\* way, or after a call that weakens a lock without waking anybody.
THEOREM LockWakeups == Spec => []NoLostWakeup
<1>1. Init => NoLostWakeup
  BY DEF Init, NoLostWakeup
<1>2. LockInv /\ NoLostWakeup /\ [Next]_vars => NoLostWakeup'
  <2> SUFFICES ASSUME LockInv, NoLostWakeup, [Next]_vars
               PROVE  NoLostWakeup'
    OBVIOUS
  <2>1. CASE Next
    BY <2>1, WakeupKeeps DEF Next, LockInv
  <2>2. CASE UNCHANGED vars
    BY <2>2 DEF vars, table, wait, NoLostWakeup, Grantable, Conflicts
  <2> QED
    BY <2>1, <2>2
<1> QED
  BY <1>1, <1>2, LockInvHolds, PTL DEF Spec
=============================================================================
