----------------------------- MODULE FutexProofs ----------------------------
(***************************************************************************)
(* Proofs about Futex, for every set of threads, addresses and buckets,    *)
(* every hash function and every pool size.                                *)
(***************************************************************************)
EXTENDS Futex, TLAPS

\* A thread that is about to test done is linked, or a waker has set done.
LoopSound ==
  \A t \in Thread : stage[t] = "loop" => waiter[t].done \/ linked[t] # NoBucket

\* The inductive invariant.  The parts need each other: LinkedSound tells a
\* waker that what it unlinks is not asleep for good, LoopSound that a thread
\* which finds done clear is still linked when it goes to sleep.
FInv == FutexTypeOK /\ LinkedSound /\ NoLostWakeup /\ LoopSound

\* Nobody waits at first.
LEMMA FInitInv == FutexInit => FInv
  BY FutexAssumption DEF FutexInit, KernelInit, FInv, FutexTypeOK, LinkedSound, NoLostWakeup,
     LoopSound, Cleared, Waiters, Stages

\* Linking a record for an address keeps the invariant.
LEMMA AddWaiterKeeps ==
  ASSUME FInv, NEW t \in Thread, NEW a \in Addr, NEW b \in SUBSET Bits,
         NEW timeout \in BOOLEAN, stage[t] = "out", AddWaiter(t, a, b, timeout)
  PROVE  FInv'
<1>1. FutexTypeOK'
  BY FutexAssumption DEF FInv, FutexTypeOK, AddWaiter, Waiters, Stages
<1>2. LinkedSound' /\ NoLostWakeup' /\ LoopSound'
  BY FutexAssumption DEF FInv, FutexTypeOK, AddWaiter, Waiters, LinkedSound,
     NoLostWakeup, LoopSound
<1> QED BY <1>1, <1>2 DEF FInv

\* Releasing linked waiters keeps the invariant: each is made runnable with
\* done set, so that it is neither linked nor asleep.
LEMMA ReleaseKeeps ==
  ASSUME FInv, NEW S \in SUBSET Thread, NEW late \in BOOLEAN,
         \A t \in S : linked[t] # NoBucket, Release(S, late)
  PROVE  FInv'
<1>1. FutexTypeOK'
  BY DEF FInv, FutexTypeOK, Release, Waiters, Stages
<1>2. LinkedSound'
  BY DEF FInv, FutexTypeOK, Release, Waiters, LinkedSound
<1>3. NoLostWakeup' /\ LoopSound'
  BY DEF FInv, FutexTypeOK, Release, Waiters, LinkedSound, NoLostWakeup, LoopSound
<1> QED BY <1>1, <1>2, <1>3 DEF FInv

\* futex_wake releases some of the waiters it finds.
LEMMA WakeKeeps ==
  ASSUME FInv, NEW a \in Addr, NEW n, NEW b, futex_wake(a, n, b)
  PROVE  FInv'
<1>1. PICK S \in SUBSET At(a) : Release(S, FALSE)
  BY DEF futex_wake
<1>2. S \in SUBSET Thread /\ \A t \in S : linked[t] # NoBucket
  BY FutexAssumption DEF At
<1> QED BY <1>1, <1>2, ReleaseKeeps

\* futex_requeue releases some waiters and moves others to the right bucket.
LEMMA RequeueKeeps ==
  ASSUME FInv, NEW a \in Addr, NEW a2 \in Addr, NEW w, NEW r,
         futex_requeue(a, a2, w, r)
  PROVE  FInv'
<1>0. PICK W \in SUBSET At(a) : \E R \in SUBSET (At(a) \ W) : Move(W, R, a2)
  BY DEF futex_requeue
<1>1. PICK R \in SUBSET (At(a) \ W) : Move(W, R, a2)
  BY <1>0
<1>2. hash[a2] \in Bucket /\ hash[a2] # NoBucket /\ hash[a] # NoBucket
  BY FutexAssumption
<1>3. FutexTypeOK'
  BY <1>1, <1>2 DEF Move, FInv, FutexTypeOK, Waiters, Stages
<1>4. \A t \in W \cup R : t \in Thread /\ linked[t] # NoBucket
  BY <1>2 DEF At
<1>5. LinkedSound'
  BY <1>1, <1>2, <1>4 DEF Move, FInv, FutexTypeOK, Waiters, LinkedSound
<1>6. NoLostWakeup' /\ LoopSound'
  BY <1>1, <1>2, <1>4 DEF Move, FInv, FutexTypeOK, Waiters, LinkedSound, NoLostWakeup, LoopSound
<1> QED BY <1>3, <1>5, <1>6 DEF FInv

\* futex_tick releases the linked waiters that are late.
LEMMA TickKeeps == ASSUME FInv, futex_tick PROVE FInv'
<1> DEFINE late == {t \in Thread : linked[t] # NoBucket /\ t \in due /\ ~waiter[t].done}
<1>1. Release(late, TRUE)
  BY DEF futex_tick
<1> QED BY <1>1, ReleaseKeeps

\* The sleep loop, the return, a signal and the clock keep the invariant.
LEMMA LoopKeeps ==
  ASSUME FInv, NEW t \in Thread, FutexKernel(t) \/ Nudge(t) \/ Expire(t)
  PROVE  FInv'
<1>1. CASE Park(t)
  <2>1. FutexTypeOK'
    BY <1>1 DEF FInv, FutexTypeOK, Park, Stages
  <2>2. LinkedSound' /\ NoLostWakeup' /\ LoopSound'
    BY <1>1 DEF FInv, FutexTypeOK, Park, Stages, LinkedSound, NoLostWakeup, LoopSound
  <2> QED BY <2>1, <2>2 DEF FInv
<1>2. CASE Return(t)
  <2>1. FutexTypeOK'
    BY <1>2 DEF FInv, FutexTypeOK, Return, Stages, Waiters, Cleared
  <2>2. LinkedSound' /\ NoLostWakeup' /\ LoopSound'
    BY <1>2 DEF FInv, FutexTypeOK, Return, Stages, Waiters, LinkedSound, NoLostWakeup, LoopSound
  <2> QED BY <2>1, <2>2 DEF FInv
<1>3. CASE Nudge(t)
  <2>1. FutexTypeOK'
    BY <1>3 DEF FInv, FutexTypeOK, Nudge, Stages
  <2>2. linked[t] # NoBucket
    BY <1>3, FutexAssumption DEF FInv, NoLostWakeup, Nudge, LinkedSound
  <2>3. LinkedSound' /\ NoLostWakeup' /\ LoopSound'
    BY <1>3, <2>2 DEF FInv, FutexTypeOK, Nudge, Stages, LinkedSound, NoLostWakeup, LoopSound
  <2> QED BY <2>1, <2>3 DEF FInv
<1>4. CASE Expire(t)
  BY <1>4 DEF FInv, FutexTypeOK, Expire, LinkedSound, NoLostWakeup, LoopSound
<1> QED BY <1>1, <1>2, <1>3, <1>4 DEF FutexKernel

\* Every step keeps the invariant.
LEMMA FNextInv == FInv /\ [FutexNext]_futexVars => FInv'
<1> SUFFICES ASSUME FInv, [FutexNext]_futexVars PROVE FInv'
  OBVIOUS
<1>1. CASE futex_tick
  BY <1>1, TickKeeps
<1>2. ASSUME NEW t \in Thread, FutexKernel(t) \/ Nudge(t) \/ Expire(t) PROVE FInv'
  BY <1>2, LoopKeeps
<1>3. ASSUME NEW t \in Thread, CallWait(t) PROVE FInv'
  <2>1. PICK a \in Addr, b \in SUBSET Bits \ {{}}, timeout \in BOOLEAN :
          AddWaiter(t, a, b, timeout)
    BY <1>3 DEF CallWait
  <2> QED BY <1>3, <2>1, AddWaiterKeeps DEF CallWait
<1>4. ASSUME NEW t \in Thread, CallWake(t) PROVE FInv'
  BY <1>4, WakeKeeps DEF CallWake
<1>5. ASSUME NEW t \in Thread, CallRequeue(t) PROVE FInv'
  BY <1>5, RequeueKeeps DEF CallRequeue
<1>6. ASSUME NEW t \in Thread, Store(t) PROVE FInv'
  <2>1. FutexTypeOK'
    BY <1>6, FutexAssumption DEF FInv, FutexTypeOK, Store, kernelVars
  <2> QED BY <1>6, <2>1 DEF FInv, Store, kernelVars, LinkedSound, NoLostWakeup, LoopSound
<1>7. CASE UNCHANGED futexVars
  BY <1>7 DEF futexVars, kernelVars, FInv, FutexTypeOK, LinkedSound, NoLostWakeup, LoopSound
<1> QED BY <1>1, <1>2, <1>3, <1>4, <1>5, <1>6, <1>7 DEF FutexNext

\* The words and the waiter records of futex.c keep their types.
THEOREM FutexTypeCorrect == FutexSpec => []FutexTypeOK
<1>1. FInv => FutexTypeOK
  BY DEF FInv
<1> QED BY <1>1, FInitInv, FNextInv, PTL DEF FutexSpec

\* A record that a wake can reach is in its address's bucket and its owner is
\* still in the loop of futex_wait, whatever is requeued where.
THEOREM FutexLinkedSound == FutexSpec => []LinkedSound
<1>1. FInv => LinkedSound
  BY DEF FInv
<1> QED BY <1>1, FInitInv, FNextInv, PTL DEF FutexSpec

\* A thread asleep in futex_wait has not been released and can be found.
THEOREM FutexNoLostWakeup == FutexSpec => []NoLostWakeup
<1>1. FInv => NoLostWakeup
  BY DEF FInv
<1> QED BY <1>1, FInitInv, FNextInv, PTL DEF FutexSpec
=============================================================================
