------------------------------- MODULE Futex --------------------------------
(***************************************************************************)
(* The futex layer of kernel/sync/futex.c: threads that sleep until the    *)
(* word at a user address changes, keyed by that address in hash buckets.  *)
(*                                                                         *)
(* A bucket is only touched under its irqsave spinlock, and the timer's    *)
(* futex_tick() runs in an interrupt that holds the Big Kernel Lock, so    *)
(* each operation on the buckets is one step.  The word itself is user     *)
(* memory: other cores store to it at any time, without any lock.  The     *)
(* sleep loop of futex_wait() is preemptible between its steps; from its   *)
(* test of done to the switch it runs with interrupts off and with the     *)
(* Big Kernel Lock, which every waker holds too.                           *)
(*                                                                         *)
(* Abstractions.  A bucket's list is the set of threads linked into it:    *)
(* futex_wake() walks it newest first, here it takes any of the matching   *)
(* waiters.  The pool record of a waiter belongs to its thread, from       *)
(* alloc_waiter() to free_waiter().  An address the kernel refuses         *)
(* (EFAULT), a zero bitset and a wake count of zero return at once and     *)
(* change nothing; they are left out.                                      *)
(***************************************************************************)
EXTENDS Naturals, FiniteSets

CONSTANTS
  Thread,    \* tasks that call futex()
  Space,     \* address spaces
  space,     \* the address space each thread runs in
  Addr,      \* virtual addresses of futex words
  Bucket,    \* the hash table
  hash,      \* futex_hash
  NoBucket,  \* on_bucket = 0
  NULL,      \* the address in a record that is free
  Bits,      \* bits of a bitset
  PoolSize,  \* FUTEX_WAITER_POOL_SIZE
  MaxVal     \* bound: values of a word

ASSUME FutexAssumption ==
  /\ space \in [Thread -> Space]
  /\ hash \in [Addr -> Bucket]
  /\ NoBucket \notin Bucket
  /\ NULL \notin Addr
  /\ IsFiniteSet(Thread)
  /\ PoolSize \in Nat
  /\ MaxVal \in Nat

VARIABLES
  word,    \* the futex words in user memory, per address space
  stage,   \* where a thread is in futex_wait: "out" of it, "loop" (before the
           \* test of done), "off" (switched out), "unlink"
  linked,  \* the bucket its waiter record is linked into
  waiter,  \* the record: addr, bitset, done, timed_out
  timed,   \* threads whose wait has a deadline
  due      \* threads whose deadline has passed

kernelVars == <<stage, linked, waiter, timed, due>>
futexVars  == <<word, kernelVars>>

Stages == {"out", "loop", "off", "unlink"}
Waiters == [addr : Addr \cup {NULL}, bits : SUBSET Bits, done : BOOLEAN, timed_out : BOOLEAN]

\* What alloc_waiter's memset leaves: nobody reads a record while it is free.
Cleared == [addr |-> NULL, bits |-> {}, done |-> FALSE, timed_out |-> FALSE]

\* Threads that own a record of the pool.
Allocated == {t \in Thread : stage[t] # "out"}

\* futex_init
KernelInit ==
  /\ stage = [t \in Thread |-> "out"]
  /\ linked = [t \in Thread |-> NoBucket]
  /\ waiter = [t \in Thread |-> Cleared]
  /\ timed = {} /\ due = {}

FutexInit == KernelInit /\ word \in [Space -> [Addr -> {0}]]
-----------------------------------------------------------------------------
(* futex_wait *)

\* The word still has the expected value and a record is free: go to sleep.
\* Otherwise futex_wait returns EAGAIN or EINVAL.
MayWait(t, a, v) == word[space[t]][a] = v /\ Cardinality(Allocated) < PoolSize

\* under the bucket lock: fill in the record and link it
AddWaiter(t, a, b, timeout) ==
  /\ stage' = [stage EXCEPT ![t] = "loop"]
  /\ linked' = [linked EXCEPT ![t] = hash[a]]
  /\ waiter' = [waiter EXCEPT ![t] =
       [addr |-> a, bits |-> b, done |-> FALSE, timed_out |-> FALSE]]
  /\ timed' = IF timeout THEN timed \cup {t} ELSE timed \ {t}
  /\ due' = due \ {t}
  /\ UNCHANGED word

\* Mutant: goes to sleep without looking at done.
ParkUnchecked(t) ==
  /\ stage[t] = "loop"
  /\ stage' = [stage EXCEPT ![t] = "off"]
  /\ UNCHANGED <<word, linked, waiter, timed, due>>

\* the loop: leave it once done is set, otherwise BLOCKED and sched_schedule()
Park(t) ==
  /\ stage[t] = "loop"
  /\ stage' = [stage EXCEPT ![t] = IF waiter[t].done THEN "unlink" ELSE "off"]
  /\ UNCHANGED <<word, linked, waiter, timed, due>>

\* Mutant: the deadline outlives the wait.
ReturnKeepsDue(t) ==
  /\ stage[t] = "unlink"
  /\ stage' = [stage EXCEPT ![t] = "out"]
  /\ linked' = [linked EXCEPT ![t] = NoBucket]
  /\ waiter' = [waiter EXCEPT ![t] = Cleared]
  /\ timed' = timed \ {t}
  /\ UNCHANGED <<word, due>>

\* remove_waiter, free_waiter, return
Return(t) ==
  /\ stage[t] = "unlink"
  /\ stage' = [stage EXCEPT ![t] = "out"]
  /\ linked' = [linked EXCEPT ![t] = NoBucket]
  /\ waiter' = [waiter EXCEPT ![t] = Cleared]
  /\ timed' = timed \ {t} /\ due' = due \ {t}
  /\ UNCHANGED word

\* a signal (or any other proc_wake) makes the task runnable, nothing more
Nudge(t) ==
  /\ stage[t] = "off"
  /\ stage' = [stage EXCEPT ![t] = "loop"]
  /\ UNCHANGED <<word, linked, waiter, timed, due>>
-----------------------------------------------------------------------------
(* Waking *)

\* remove_waiter, done = 1 and proc_wake for every thread of S
Release(S, late) ==
  /\ linked' = [t \in Thread |-> IF t \in S THEN NoBucket ELSE linked[t]]
  /\ waiter' = [t \in Thread |->
       IF t \in S THEN [waiter[t] EXCEPT !.done = TRUE, !.timed_out = late]
       ELSE waiter[t]]
  /\ stage' = [t \in Thread |-> IF t \in S /\ stage[t] = "off" THEN "loop" ELSE stage[t]]
  /\ UNCHANGED <<word, timed, due>>

\* Waiters in a's bucket with this address: a virtual address, of any process.
At(a) == {t \in Thread : linked[t] = hash[a] /\ waiter[t].addr = a}

\* S is what a walk that stops after count of the threads in M returns.
Takes(S, count, M) ==
  /\ S \subseteq M
  /\ Cardinality(S) <= count
  /\ Cardinality(S) < count => S = M

futex_wake(a, count, b) ==
  \E S \in SUBSET At(a) :
    /\ Takes(S, count, {t \in At(a) : waiter[t].bits \cap b # {}})
    /\ Release(S, FALSE)

\* Mutant: the waiters of R keep their old bucket.
MoveInPlace(W, R, a2) ==
  /\ linked' = [t \in Thread |-> IF t \in W THEN NoBucket ELSE linked[t]]
  /\ waiter' = [t \in Thread |->
       IF t \in W THEN [waiter[t] EXCEPT !.done = TRUE]
       ELSE IF t \in R THEN [waiter[t] EXCEPT !.addr = a2]
       ELSE waiter[t]]
  /\ stage' = [t \in Thread |-> IF t \in W /\ stage[t] = "off" THEN "loop" ELSE stage[t]]
  /\ UNCHANGED <<word, timed, due>>

\* release the threads of W, move those of R to the bucket of a2
Move(W, R, a2) ==
  /\ linked' = [t \in Thread |->
       IF t \in W THEN NoBucket ELSE IF t \in R THEN hash[a2] ELSE linked[t]]
  /\ waiter' = [t \in Thread |->
       IF t \in W THEN [waiter[t] EXCEPT !.done = TRUE]
       ELSE IF t \in R THEN [waiter[t] EXCEPT !.addr = a2]
       ELSE waiter[t]]
  /\ stage' = [t \in Thread |-> IF t \in W /\ stage[t] = "off" THEN "loop" ELSE stage[t]]
  /\ UNCHANGED <<word, timed, due>>

\* wake some waiters of a and requeue others on a2, holding both bucket locks
futex_requeue(a, a2, wake_count, requeue_count) ==
  \E W \in SUBSET At(a) : \E R \in SUBSET (At(a) \ W) :
    /\ Takes(W, wake_count, At(a))
    /\ Takes(R, requeue_count, At(a) \ W)
    /\ Move(W, R, a2)

\* Mutant: only waiters that are still before their first sleep are looked at.
TickSkipsSleepers ==
  LET late == {t \in Thread : linked[t] # NoBucket /\ t \in due /\ stage[t] = "loop"}
  IN  late # {} /\ Release(late, TRUE)

\* futex_tick: the waiters of every bucket whose deadline has passed
futex_tick ==
  LET late == {t \in Thread : linked[t] # NoBucket /\ t \in due /\ ~waiter[t].done}
  IN  late # {} /\ Release(late, TRUE)

\* the clock passes the deadline of t
Expire(t) ==
  /\ t \in timed \ due
  /\ due' = due \cup {t}
  /\ UNCHANGED <<word, stage, linked, waiter, timed>>
-----------------------------------------------------------------------------
(* Threads that use futexes in any way *)

CallWait(t) ==
  /\ stage[t] = "out"
  /\ \E a \in Addr, v \in 0..MaxVal, b \in SUBSET Bits \ {{}}, timeout \in BOOLEAN :
       MayWait(t, a, v) /\ AddWaiter(t, a, b, timeout)

CallWake(t) ==
  /\ stage[t] = "out"
  /\ \E a \in Addr, n \in 1..Cardinality(Thread), b \in SUBSET Bits \ {{}} :
       futex_wake(a, n, b)

\* FUTEX_REQUEUE and FUTEX_CMP_REQUEUE: futex_cmp_requeue loads the word before
\* it takes a bucket lock, so the word may have changed when it requeues.
CallRequeue(t) ==
  /\ stage[t] = "out"
  /\ \E a, a2 \in Addr, w, r \in 0..1 : futex_requeue(a, a2, w, r)

Store(t) ==
  /\ stage[t] = "out"
  /\ \E a \in Addr, v \in 0..MaxVal : word' = [word EXCEPT ![space[t]][a] = v]
  /\ UNCHANGED kernelVars

FutexKernel(t) == Park(t) \/ Return(t)

FutexNext ==
  \/ futex_tick
  \/ \E t \in Thread :
       \/ FutexKernel(t) \/ Nudge(t) \/ Expire(t)
       \/ CallWait(t) \/ CallWake(t) \/ CallRequeue(t) \/ Store(t)

\* A runnable thread inside futex_wait goes on, time passes, the timer ticks.
FutexFairness ==
  /\ WF_futexVars(futex_tick)
  /\ \A t \in Thread : WF_futexVars(FutexKernel(t)) /\ WF_futexVars(Expire(t))

FutexSpec == FutexInit /\ [][FutexNext]_futexVars /\ FutexFairness
-----------------------------------------------------------------------------
\* Types of the words and of the waiter records.
FutexTypeOK ==
  /\ word \in [Space -> [Addr -> Nat]]
  /\ stage \in [Thread -> Stages]
  /\ linked \in [Thread -> Bucket \cup {NoBucket}]
  /\ waiter \in [Thread -> Waiters]
  /\ timed \subseteq Thread /\ due \subseteq timed

\* A linked record is in the bucket its address hashes to, was not released,
\* and its owner has not left the loop: futex_wait's own remove_waiter, which
\* unlinks from the bucket of the address it was called with, never meets a
\* record that futex_requeue moved to another bucket, and free_waiter never
\* frees one that a wake can still reach.
LinkedSound ==
  \A t \in Thread : linked[t] # NoBucket =>
    /\ waiter[t].addr \in Addr /\ linked[t] = hash[waiter[t].addr]
    /\ ~waiter[t].done
    /\ stage[t] \in {"loop", "off"}

\* A thread that is switched out in futex_wait has not been released and is
\* linked where a wake of its address or the tick finds it: "->done persists
\* across any race, so no wakeup is lost".
NoLostWakeup ==
  \A t \in Thread : stage[t] = "off" =>
    ~waiter[t].done /\ waiter[t].addr \in Addr /\ linked[t] = hash[waiter[t].addr]

\* A wait with a timeout ends, whoever wakes, requeues or signals it meanwhile.
TimedWaitEnds ==
  \A t \in Thread : (stage[t] \in {"loop", "off"} /\ t \in timed) ~> stage[t] = "unlink"
=============================================================================
