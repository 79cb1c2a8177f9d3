------------------------------- MODULE AdvLock ------------------------------
(***************************************************************************)
(* Advisory file locks: the table of kernel/rustkern/advlock.rs and the    *)
(* system calls of kernel/proc/advlock.c over it, fcntl(F_SETLK, F_SETLKW, *)
(* F_UNLCK), flock(), the release at close and at exit.                    *)
(*                                                                         *)
(* Every call into the table runs under g_advlock_lock and is one step.    *)
(* The lock is dropped before a sleeper sleeps and before a waker calls    *)
(* wake_up_all, so those are steps of their own.                           *)
(*                                                                         *)
(* Abstractions.  The table is the set of its used records: no decision    *)
(* depends on their order.  A path's hash is a file.  The owner of a lock  *)
(* is a process with one thread.  U64MAX, "to the end of the file", is     *)
(* Eof, and no range is empty (advlock_range makes none).  A refused call  *)
(* (EAGAIN) and F_GETLK change nothing and are left out, as are the        *)
(* counters.  The first test of wait_event_interruptible's condition and   *)
(* __wait_prepare are one step: the tick that parks a process between the  *)
(* two is a matter of the wait queue and is in module Pipe.                *)
(***************************************************************************)
EXTENDS Naturals, FiniteSets

CONSTANTS
  Proc,      \* processes, the owners of POSIX locks
  Slot,      \* descriptor slots, the holders of BSD locks
  slotOf,    \* the process each slot belongs to
  fileOf,    \* the file each slot has open (opened again, it is another slot)
  File,      \* files
  Eof,       \* end of a lock that reaches to the end of the file
  Ranges,    \* the [start, end) ranges that programs ask for
  MaxLocks,  \* MAX_LOCKS, records in the table
  MaxEdges,  \* MAX_EDGES, edges in the waits-for table
  NoSlot,    \* fd_slot of a POSIX record
  NoReq      \* the request of a process outside of the blocking calls

ASSUME AdvLockAssumption ==
  /\ IsFiniteSet(Proc) /\ IsFiniteSet(Slot) /\ NoSlot \notin Slot
  /\ slotOf \in [Slot -> Proc] /\ fileOf \in [Slot -> File]
  /\ Eof \in Nat \ {0}
  /\ Ranges \subseteq {r \in (0..Eof) \X (0..Eof) : r[1] < r[2]}
  /\ MaxLocks \in Nat \ {0} /\ MaxEdges \in Nat \ {0}

VARIABLES
  locks,  \* the used records of TBL.locks
  edges,  \* the used records of TBL.edges: <<waiter, blocker>>
  wq,     \* processes linked in g_advlock_wq
  eintr,  \* waiters whose wake_reason is WAIT_EINTR
  pc,     \* where a process is
  req,    \* what it asks for
  quiet   \* history: a lock was weakened since the last wake_up_all, by a
          \* call that wakes nobody

table == <<locks, edges>>
wait  == <<wq, eintr>>
vars  == <<table, wait, pc, req, quiet>>

Types == {"R", "W"}
Record == [flock : BOOLEAN, type : Types, file : File, owner : Proc,
           slot : Slot \cup {NoSlot}, start : 0..Eof, end : 0..Eof]

\* A request for a POSIX lock, and one for a BSD lock of the whole file.
Posix(p, f, m, s, e) == [flock |-> FALSE, type |-> m, file |-> f, owner |-> p,
                         slot |-> NoSlot, start |-> s, end |-> e]
Flock(x, m) == [flock |-> TRUE, type |-> m, file |-> fileOf[x], owner |-> slotOf[x],
                slot |-> x, start |-> 0, end |-> Eof]
PosixRequests(p) ==
  {Posix(p, f, m, r[1], r[2]) : f \in File, m \in Types, r \in Ranges}
FlockRequests(p) ==
  {Flock(x, m) : x \in {y \in Slot : slotOf[y] = p}, m \in Types}
-----------------------------------------------------------------------------
(* The table *)

ranges_overlap(a, b) == a.start < b.end /\ b.start < a.end

\* Records of one holder: a process's POSIX locks on a file, a slot's BSD lock
SameHolder(a, b) ==
  /\ a.flock = b.flock
  /\ IF a.flock THEN a.slot = b.slot ELSE a.owner = b.owner

\* Mutant: a read request does not look at the type of the lock it meets.
ConflictReadBlind(r, l) ==
  /\ l.flock = r.flock /\ l.file = r.file /\ ~SameHolder(l, r)
  /\ ranges_overlap(r, l)
  /\ r.type = "W"

\* posix_conflict and the same test in advlock_flock_try_rs
Conflict(r, l) ==
  /\ l.flock = r.flock /\ l.file = r.file /\ ~SameHolder(l, r)
  /\ ranges_overlap(r, l)
  /\ r.type = "W" \/ l.type = "W"

Conflicts(r) == {l \in locks : Conflict(r, l)}

\* advlock_grantable_locked_rs, advlock_flock_grantable_locked_rs
Grantable(r) == Conflicts(r) = {}

\* Mutant: the left remainder takes the new type.
posix_clear_new_type(L, r) ==
  LET hit   == {l \in L : ~l.flock /\ l.file = r.file /\ l.owner = r.owner /\ ranges_overlap(r, l)}
      left  == {[l EXCEPT !.end = r.start, !.type = r.type] : l \in {h \in hit : h.start < r.start}}
      right == {[l EXCEPT !.start = r.end] : l \in {h \in hit : h.end > r.end}}
  IN  (L \ hit) \cup left \cup right

\* posix_clear_owner_range: the owner's coverage of the range goes, remainders
\* on both sides stay.  The left one takes the slot just freed; when one record
\* leaves two remainders and the table is full, the right one is dropped.
posix_clear_owner_range(L, r) ==
  LET hit   == {l \in L : ~l.flock /\ l.file = r.file /\ l.owner = r.owner /\ ranges_overlap(r, l)}
      left  == {[l EXCEPT !.end = r.start] : l \in {h \in hit : h.start < r.start}}
      right == {[l EXCEPT !.start = r.end] : l \in {h \in hit : h.end > r.end}}
      kept  == (L \ hit) \cup left
  IN  IF Cardinality(kept \cup right) <= MaxLocks THEN kept \cup right ELSE kept

\* Mutant: only overlapping records are merged, not adjacent ones.
coalesce_overlapping(L, r) == L \cup {r}

\* coalesce_posix after r was added to L: r is merged with the records of its
\* owner and type that touch it.  No other two touch (Coalesced), so the loop
\* ends there.
coalesce_posix(L, r) ==
  LET same == {l \in L : /\ ~l.flock /\ l.file = r.file /\ l.owner = r.owner /\ l.type = r.type
                         /\ l.start <= r.end /\ r.start <= l.end} \cup {r}
      span == {q \in same \X same : \A l \in same : q[1].start <= l.start /\ l.end <= q[2].end}
  IN  (L \ same) \cup {[r EXCEPT !.start = q[1].start, !.end = q[2].end] : q \in span}

\* posix_apply: the old coverage is gone even if the table has no room
posix_apply(r) ==
  LET cleared == posix_clear_owner_range(locks, r)
  IN  IF Cardinality(cleared) < MaxLocks THEN coalesce_posix(cleared, r) ELSE cleared

OfSlot(x) == {l \in locks : l.flock /\ l.slot = x}

\* Mutant: the locks that go are found by the file, not by the slot.
flock_apply_by_file(r) ==
  LET cleared == {l \in locks : ~l.flock \/ l.file # r.file}
  IN  IF Cardinality(cleared) < MaxLocks THEN cleared \cup {r} ELSE cleared

\* advlock_flock_try_rs, granted: the slot's lock is replaced, or lost
flock_apply(r) ==
  LET cleared == locks \ OfSlot(r.slot)
  IN  IF Cardinality(cleared) < MaxLocks THEN cleared \cup {r} ELSE cleared

Apply(r) == IF r.flock THEN flock_apply(r) ELSE posix_apply(r)

\* Someone who conflicted with old may not conflict with new any more.
Weaker(new, old) ==
  \E l \in old, k \in 0..Eof-1 :
    /\ l.start <= k /\ k < l.end
    /\ ~\E m \in new : /\ SameHolder(l, m) /\ l.file = m.file
                       /\ m.start <= k /\ k < m.end
                       /\ l.type = "W" => m.type = "W"
-----------------------------------------------------------------------------
(* The waits-for graph *)

clear_edges_waiter(E, p) == {e \in E : e[1] # p}

\* reachable: q is in every set that holds p and is closed under E
reachable(E, p, q) ==
  \A S \in SUBSET Proc :
    p \in S /\ (\A e \in E : e[1] \in S => e[2] \in S) => q \in S

\* add_edge for each blocker: those that find no room are silently dropped
AddEdges(E, new) ==
  IF Cardinality(E \cup new) <= MaxEdges THEN edges' = E \cup new
  ELSE \E S \in SUBSET (new \ E) : /\ Cardinality(E \cup S) = MaxEdges
                                   /\ edges' = E \cup S
-----------------------------------------------------------------------------
Init ==
  /\ locks = {} /\ edges = {}
  /\ wq = {} /\ eintr = {}
  /\ pc = [p \in Proc |-> "user"]
  /\ req = [p \in Proc |-> NoReq]
  /\ quiet = FALSE

Goto(p, a, b) == pc[p] = a /\ pc' = [pc EXCEPT ![p] = b]

\* The table becomes L and nobody is woken.
Replace(L) ==
  /\ locks' = L
  /\ quiet' = (quiet \/ Weaker(L, locks))

\* F_SETLK, or flock with LOCK_NB: advlock_try_rs
SetLk(p) ==
  /\ pc[p] = "user"
  /\ \E r \in PosixRequests(p) \cup FlockRequests(p) : Grantable(r) /\ Replace(Apply(r))
  /\ UNCHANGED <<edges, wait, pc, req>>

\* F_SETLKW, or flock without LOCK_NB
SetLkw(p) ==
  /\ Goto(p, "user", "try")
  /\ \E r \in PosixRequests(p) \cup FlockRequests(p) : req' = [req EXCEPT ![p] = r]
  /\ UNCHANGED <<table, wait, quiet>>

\* Mutant: a call that ends without a lock skips advlock_wait_end_rs.
LeaveAtOnce(p, a) == Goto(p, a, "user") /\ UNCHANGED req

\* The call returns; F_SETLKW goes through advlock_wait_end_rs first.
Leave(p, a) ==
  IF req[p].flock
  THEN Goto(p, a, "user") /\ req' = [req EXCEPT ![p] = NoReq]
  ELSE Goto(p, a, "end") /\ UNCHANGED req

\* advlock_setw_step_rs, advlock_flock_try_rs: granted
TryGrant(p) ==
  /\ pc[p] = "try" /\ Grantable(req[p]) /\ Leave(p, "try")
  /\ Replace(Apply(req[p]))
  /\ edges' = IF req[p].flock THEN edges ELSE clear_edges_waiter(edges, p)
  /\ UNCHANGED wait

\* Mutant: the test asks whether p waits for the blocker.
ClosesSwapped(p) ==
  \E l \in Conflicts(req[p]) : reachable(clear_edges_waiter(edges, p), p, l.owner)

\* advlock_setw_step_rs: a blocker waits for p already, EDEADLK
Closes(p) ==
  \E l \in Conflicts(req[p]) : reachable(clear_edges_waiter(edges, p), l.owner, p)

TryDeadlock(p) ==
  /\ Goto(p, "try", "end") /\ ~req[p].flock /\ Closes(p)
  /\ edges' = clear_edges_waiter(edges, p)
  /\ UNCHANGED <<locks, wait, req, quiet>>

\* ADV_WOULDBLOCK, with fresh edges for a POSIX lock
TryBlock(p) ==
  /\ Goto(p, "try", "wait") /\ ~Grantable(req[p])
  /\ IF req[p].flock THEN UNCHANGED edges
     ELSE /\ ~Closes(p)
          /\ AddEdges(clear_edges_waiter(edges, p), {<<p, l.owner>> : l \in Conflicts(req[p])})
  /\ UNCHANGED <<locks, wait, req, quiet>>

\* advlock_wait_end_rs
WaitEnd(p) ==
  /\ Goto(p, "end", "user")
  /\ edges' = clear_edges_waiter(edges, p)
  /\ req' = [req EXCEPT ![p] = NoReq]
  /\ UNCHANGED <<locks, wait, quiet>>
-----------------------------------------------------------------------------
(* wait_event_interruptible(&g_advlock_wq, advlock_cond_...) *)

WaitTest(p) ==
  /\ pc[p] = "wait"
  /\ IF Grantable(req[p]) THEN Goto(p, "wait", "try") /\ UNCHANGED wait
     ELSE Goto(p, "wait", "linked") /\ wq' = wq \cup {p} /\ UNCHANGED eintr
  /\ UNCHANGED <<table, req, quiet>>

WaitRecheck(p) ==
  /\ pc[p] = "linked"
  /\ IF Grantable(req[p]) THEN /\ Goto(p, "linked", "try")
                               /\ wq' = wq \ {p} /\ eintr' = eintr \ {p}
     ELSE Goto(p, "linked", "asleep") /\ UNCHANGED wait
  /\ UNCHANGED <<table, req, quiet>>

\* Unlinked by a signal: EINTR.  By a waker: the macro tests the condition again.
WaitDone(p) ==
  /\ p \notin wq /\ pc[p] = "asleep"
  /\ IF p \in eintr THEN Leave(p, "asleep") ELSE Goto(p, "asleep", "wait") /\ UNCHANGED req
  /\ eintr' = eintr \ {p}
  /\ UNCHANGED <<table, wq, quiet>>

Signal(p) ==
  /\ p \in wq
  /\ wq' = wq \ {p} /\ eintr' = eintr \cup {p}
  /\ UNCHANGED <<table, pc, req, quiet>>

wake_up_all(p) ==
  /\ Goto(p, "wake", "user")
  /\ wq' = {} /\ quiet' = FALSE
  /\ UNCHANGED <<table, eintr, req>>
-----------------------------------------------------------------------------
(* Giving locks up *)

\* Mutant: nobody is woken.
ReleaseQuietly(p, L) ==
  /\ locks' = L /\ pc[p] = "user"
  /\ UNCHANGED <<wait, pc, req, quiet>>

\* The table becomes L; waiters are woken next, if that changed anything.
Release(p, L) ==
  /\ locks' = L
  /\ IF L = locks THEN pc[p] = "user" /\ UNCHANGED pc ELSE Goto(p, "user", "wake")
  /\ UNCHANGED <<wait, req, quiet>>

\* advlock_unlock_rs
SetUnlck(p) ==
  /\ \E r \in PosixRequests(p) : Release(p, posix_clear_owner_range(locks, r))
  /\ UNCHANGED edges

\* flock(LOCK_UN) wakes in any case
FlockUn(p) ==
  /\ Goto(p, "user", "wake")
  /\ \E x \in Slot : slotOf[x] = p /\ locks' = locks \ OfSlot(x)
  /\ UNCHANGED <<edges, wait, req, quiet>>

\* advlock_on_close: the process's POSIX locks on the file of the slot, however
\* obtained, and the slot's BSD lock
Close(p) ==
  /\ \E x \in Slot :
       /\ slotOf[x] = p
       /\ Release(p, {l \in locks \ OfSlot(x) : l.flock \/ l.file # fileOf[x] \/ l.owner # p})
  /\ UNCHANGED edges

\* advlock_proc_exit; a new process takes the exited one's place
Exit(p) ==
  /\ Release(p, {l \in locks : l.owner # p})
  /\ edges' = {e \in edges : e[1] # p /\ e[2] # p}
-----------------------------------------------------------------------------
Next ==
  \E p \in Proc :
    \/ SetLk(p) \/ SetLkw(p) \/ TryGrant(p) \/ TryDeadlock(p) \/ TryBlock(p) \/ WaitEnd(p)
    \/ WaitTest(p) \/ WaitRecheck(p) \/ WaitDone(p) \/ Signal(p) \/ wake_up_all(p)
    \/ SetUnlck(p) \/ FlockUn(p) \/ Close(p) \/ Exit(p)

Spec == Init /\ [][Next]_vars
-----------------------------------------------------------------------------
\* Types of the two tables, the wait queue and the requests.
TypeOK ==
  /\ locks \subseteq Record
  /\ edges \subseteq Proc \X Proc
  /\ wq \subseteq Proc /\ eintr \subseteq Proc
  /\ pc \in [Proc -> {"user", "try", "wait", "linked", "asleep", "end", "wake"}]
  /\ req \in [Proc -> Record \cup {NoReq}]
  /\ \A p \in Proc :
       IF pc[p] \in {"user", "wake"} THEN req[p] = NoReq
       ELSE req[p] \in PosixRequests(p) \cup FlockRequests(p)
  /\ quiet \in BOOLEAN

\* No two holders have conflicting locks on a byte.
Exclusive == \A l, m \in locks : ~Conflict(l, m)

\* The table stays canonical: no record is empty, a holder's records neither
\* overlap nor, if of one type, touch, and there are no more than MAX_LOCKS.
\* coalesce_posix and posix_conflict rely on the first two.
Coalesced ==
  /\ Cardinality(locks) <= MaxLocks
  /\ \A l \in locks : l.start < l.end
  /\ \A l, m \in locks : l # m /\ SameHolder(l, m) /\ l.file = m.file =>
       \/ l.end < m.start \/ m.end < l.start
       \/ l.type # m.type /\ (l.end = m.start \/ m.end = l.start)

\* The waits-for graph has no cycle: a cycle would refuse every later request
\* of its members with EDEADLK.
EdgesAcyclic == \A e \in edges : ~reachable(edges, e[2], e[1])

\* A process is linked and asleep although its lock could be granted only if a
\* waker has yet to run, or if the lock that stood in the way was weakened by a
\* call that wakes nobody: a conversion to a read lock, or one that found the
\* table full after it had given the old lock up.
NoLostWakeup ==
  \A p \in Proc :
    p \in wq /\ pc[p] = "asleep" /\ Grantable(req[p]) =>
      quiet \/ \E q \in Proc : pc[q] = "wake"

\* How h holds byte k of file f, by records of the given kind.
ModeOf(fl, h, f, k) ==
  LET mine == {l \in locks : /\ l.flock = fl /\ l.file = f /\ l.start <= k /\ k < l.end
                             /\ IF fl THEN l.slot = h ELSE l.owner = h}
  IN  IF mine = {} THEN "none" ELSE (CHOOSE l \in mine : TRUE).type

PosixBytes == File \X (0..Eof-1)
PosixSpans == {{f} \X (r[1]..r[2]-1) : f \in File, r \in Ranges}

PosixLocks == INSTANCE ByteLocks WITH
  Holder <- Proc, Byte <- PosixBytes, Spans <- PosixSpans,
  mode <- [b \in PosixBytes |-> [p \in Proc |-> ModeOf(FALSE, p, b[1], b[2])]]

FlockLocks == INSTANCE ByteLocks WITH
  Holder <- Slot, Byte <- File, Spans <- {{f} : f \in File},
  mode <- [f \in File |-> [x \in Slot |-> ModeOf(TRUE, x, f, 0)]]

\* fcntl locks are byte locks held by processes.
ImplementsPosix == PosixLocks!Spec

\* flock locks are whole-file locks held by descriptor slots.
ImplementsFlock == FlockLocks!Spec
=============================================================================
