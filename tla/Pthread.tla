------------------------------ MODULE Pthread -------------------------------
(***************************************************************************)
(* The mutex, the condition variable and the join of                       *)
(* userland/libc/pthread.c on the futexes of kernel/sync/futex.c: in each  *)
(* process one pthread_mutex_t, one pthread_cond_t used with it, and one   *)
(* join word per thread, which proc_exit() clears, in the record that      *)
(* pthread_create makes and join, detach and the reaper free.              *)
(*                                                                         *)
(* User code is preempted and runs in parallel anywhere, so each atomic    *)
(* instruction and each futex call is a step of its own.                   *)
(*                                                                         *)
(* The program follows the rules of these calls: a mutex is locked again   *)
(* by its holder only if it is RECURSIVE, unlocked and waited with only by *)
(* its holder (and then not while it is held recursively), a thread exits  *)
(* without holding it, one thread at most joins or detaches it, and not    *)
(* while it joins one itself (so that joins make no cycle).                *)
(*                                                                         *)
(* Each name in Thread is created once.  What g_detached_lock protects is  *)
(* one step.  Left out: the exit of a first thread, which ends its         *)
(* process, the EPERM return of an ERRORCHECK unlock, which changes        *)
(* nothing, and init and destroy.                                          *)
(***************************************************************************)
EXTENDS Futex

CONSTANTS
  Lock,     \* &mutex->lock
  CondSeq,      \* &cond->seq
  Nobody,   \* mutex->owner = 0
  Kind,     \* mutex->type
  Born,     \* threads that run at the start and have no record
  Ops,      \* the calls the program makes
  MaxSeq,   \* bound: signals and broadcasts per process
  MaxDepth  \* bound: recursive_count

\* The join word of a thread is at an address named by the thread.
ASSUME PthreadAssumption ==
  /\ Thread \cup {Lock, CondSeq} \subseteq Addr
  /\ Lock # CondSeq /\ Lock \notin Thread /\ CondSeq \notin Thread
  /\ Nobody \notin Thread
  /\ Kind \in {"NORMAL", "RECURSIVE", "ERRORCHECK"}
  /\ Born \subseteq Thread
  /\ Ops \subseteq {"lock", "trylock", "cond", "signal", "broadcast", "create", "join", "detach"}
  /\ MaxSeq \in Nat /\ MaxDepth \in Nat
  /\ Bits # {}

VARIABLES
  pc,       \* the next step of each thread
  has,      \* threads that have acquired their mutex and not released it
  owner,    \* mutex->owner, per process
  depth,    \* mutex->recursive_count
  waiters,  \* cond->waiters
  saved,    \* the word a thread has read: seq in a cond wait, tid in a join
  target,   \* whom a thread joins or creates; itself if none
  inwait,   \* threads inside pthread_cond_wait
  rec,      \* the record of each thread: "listed" is on g_detached_list
  owed      \* history: threads that were blocked in it when a broadcast began
            \* and have not come back from futex_wait since

userVars == <<pc, has, owner, depth, waiters, saved, target, inwait, rec, owed>>
pthreadVars == <<futexVars, userVars>>

PCs == {"user", "lock", "mark", "wait", "own", "uadd", "ustore", "uwake", "cinc", "cwait",
        "cdec", "sadd", "badd", "swake", "bwake", "unborn", "create", "join", "jwait", "reap", "ewake", "gone"}
Records == {"none", "joinable", "detached", "listed", "freed"}

mutex_tracks_owner == Kind \in {"RECURSIVE", "ERRORCHECK"}

Get(t, a) == word[space[t]][a]
Put(t, a, v) == word' = [word EXCEPT ![space[t]][a] = v]
Goto(t, p) == pc' = [pc EXCEPT ![t] = p]

\* t executes user code (it is not inside futex_wait) and is at p.
Here(t, p) == stage[t] = "out" /\ pc[t] = p

PthreadInit ==
  /\ KernelInit
  /\ word = [s \in Space |-> [a \in Addr |-> 0]]
  /\ pc = [t \in Thread |-> IF t \in Born THEN "user" ELSE "unborn"]
  /\ has = {}
  /\ owner = [s \in Space |-> Nobody]
  /\ depth = [s \in Space |-> 0]
  /\ waiters = [s \in Space |-> 0]
  /\ saved = [t \in Thread |-> 0]
  /\ target = [t \in Thread |-> t]
  /\ inwait = {}
  /\ rec = [t \in Thread |-> "none"]
  /\ owed = {}
-----------------------------------------------------------------------------
(* pthread_mutex_lock and pthread_mutex_trylock *)

\* the branch of a RECURSIVE mutex that is already owned
Relock(t) ==
  /\ Here(t, "user") /\ Ops \cap {"lock", "trylock"} # {}
  /\ Kind = "RECURSIVE" /\ owner[space[t]] = t
  /\ depth[space[t]] < MaxDepth
  /\ depth' = [depth EXCEPT ![space[t]] = @ + 1]
  /\ UNCHANGED <<futexVars, pc, has, owner, waiters, saved, target, inwait, rec, owed>>

LockCall(t) ==
  /\ Here(t, "user") /\ "lock" \in Ops /\ t \notin has
  /\ Goto(t, "lock")
  /\ UNCHANGED <<futexVars, has, owner, depth, waiters, saved, target, inwait, rec, owed>>

\* the lock is t's: what the caller does next
Acquire(t, v) ==
  /\ Put(t, Lock, v)
  /\ has' = has \cup {t}
  /\ Goto(t, "own")

\* cmpxchg(0, 1): a contended lock is marked unless it is marked already
LockCas(t) ==
  /\ Here(t, "lock")
  /\ \/ Get(t, Lock) = 0 /\ Acquire(t, 1)
     \/ Get(t, Lock) # 0 /\ Goto(t, IF Get(t, Lock) = 2 THEN "wait" ELSE "mark")
                         /\ UNCHANGED <<word, has>>
  /\ UNCHANGED <<kernelVars, owner, depth, waiters, saved, target, inwait, rec, owed>>

\* Mutant: only a marked lock counts as taken.
LockMarkBlind(t) ==
  /\ Here(t, "mark")
  /\ \/ Get(t, Lock) # 2 /\ Acquire(t, 2)
     \/ Get(t, Lock) = 2 /\ Goto(t, "wait") /\ UNCHANGED <<word, has>>
  /\ UNCHANGED <<kernelVars, owner, depth, waiters, saved, target, inwait, rec, owed>>

\* Mutant: the retry takes the lock without the waiters flag.
LockMarkPlain(t) ==
  /\ Here(t, "mark")
  /\ \/ Get(t, Lock) = 0 /\ Acquire(t, 1)
     \/ Get(t, Lock) # 0 /\ Put(t, Lock, 2) /\ Goto(t, "wait") /\ UNCHANGED has
  /\ UNCHANGED <<kernelVars, owner, depth, waiters, saved, target, inwait, rec, owed>>

\* xchg(2), before the first wait and after each one
LockMark(t) ==
  /\ Here(t, "mark")
  /\ \/ Get(t, Lock) = 0 /\ Acquire(t, 2)
     \/ Get(t, Lock) # 0 /\ Put(t, Lock, 2) /\ Goto(t, "wait") /\ UNCHANGED has
  /\ UNCHANGED <<kernelVars, owner, depth, waiters, saved, target, inwait, rec, owed>>

\* futex_wait(&lock, 2, 0), whatever it returns
LockWait(t) ==
  /\ Here(t, "wait")
  /\ Goto(t, "mark")
  /\ \/ MayWait(t, Lock, 2) /\ AddWaiter(t, Lock, Bits, FALSE)
     \/ ~MayWait(t, Lock, 2) /\ UNCHANGED futexVars
  /\ UNCHANGED <<has, owner, depth, waiters, saved, target, inwait, rec, owed>>

\* mutex->owner = self; the end of pthread_cond_wait if it was called from there
LockOwn(t) ==
  /\ Here(t, "own")
  /\ owner' = IF mutex_tracks_owner THEN [owner EXCEPT ![space[t]] = t] ELSE owner
  /\ inwait' = inwait \ {t}
  /\ Goto(t, "user")
  /\ UNCHANGED <<futexVars, has, depth, waiters, saved, target, rec, owed>>

pthread_mutex_trylock(t) ==
  /\ Here(t, "user") /\ "trylock" \in Ops /\ t \notin has
  /\ Get(t, Lock) = 0
  /\ Acquire(t, 1)
  /\ UNCHANGED <<kernelVars, owner, depth, waiters, saved, target, inwait, rec, owed>>
-----------------------------------------------------------------------------
(* pthread_mutex_unlock *)

\* Mutant: recursive_count is not tested for zero.
UnlockUncounted(t) ==
  /\ Here(t, "user") /\ t \in has
  /\ \/ Kind = "RECURSIVE"
        /\ depth' = [depth EXCEPT ![space[t]] = @ - 1] /\ UNCHANGED <<pc, owner>>
     \/ Kind # "RECURSIVE" /\ Goto(t, "uadd") /\ UNCHANGED <<depth, owner>>
  /\ UNCHANGED <<futexVars, has, waiters, saved, target, inwait, rec, owed>>

\* Mutant: the owner is left in place.
UnlockKeepsOwner(t) ==
  /\ Here(t, "user") /\ t \in has
  /\ \/ Kind = "RECURSIVE" /\ depth[space[t]] > 0
        /\ depth' = [depth EXCEPT ![space[t]] = @ - 1] /\ UNCHANGED <<pc, owner>>
     \/ ~(Kind = "RECURSIVE" /\ depth[space[t]] > 0)
        /\ Goto(t, "uadd") /\ UNCHANGED <<depth, owner>>
  /\ UNCHANGED <<futexVars, has, waiters, saved, target, inwait, rec, owed>>

UnlockCall(t) ==
  /\ Here(t, "user") /\ t \in has
  /\ \/ Kind = "RECURSIVE" /\ depth[space[t]] > 0
        /\ depth' = [depth EXCEPT ![space[t]] = @ - 1] /\ UNCHANGED <<pc, owner>>
     \/ ~(Kind = "RECURSIVE" /\ depth[space[t]] > 0)
        /\ owner' = [owner EXCEPT ![space[t]] = Nobody]
        /\ Goto(t, "uadd") /\ UNCHANGED depth
  /\ UNCHANGED <<futexVars, has, waiters, saved, target, inwait, rec, owed>>

\* where an unlock returns to
Unlocked(t) == IF t \in inwait THEN "cwait" ELSE "user"

\* fetch_add(-1): the lock is free if nobody had marked it
UnlockAdd(t) ==
  /\ Here(t, "uadd")
  /\ Put(t, Lock, Get(t, Lock) - 1)
  /\ \/ Get(t, Lock) = 1 /\ has' = has \ {t} /\ Goto(t, Unlocked(t))
     \/ Get(t, Lock) # 1 /\ Goto(t, "ustore") /\ UNCHANGED has
  /\ UNCHANGED <<kernelVars, owner, depth, waiters, saved, target, inwait, rec, owed>>

UnlockStore(t) ==
  /\ Here(t, "ustore")
  /\ Put(t, Lock, 0)
  /\ has' = has \ {t}
  /\ Goto(t, "uwake")
  /\ UNCHANGED <<kernelVars, owner, depth, waiters, saved, target, inwait, rec, owed>>

UnlockWake(t) ==
  /\ Here(t, "uwake")
  /\ Goto(t, Unlocked(t))
  /\ futex_wake(Lock, 1, Bits)
  /\ UNCHANGED <<has, owner, depth, waiters, saved, target, inwait, rec, owed>>
-----------------------------------------------------------------------------
(* pthread_cond_wait and pthread_cond_timedwait *)

CondCall(t) ==
  /\ Here(t, "user") /\ "cond" \in Ops /\ t \in has /\ depth[space[t]] = 0
  /\ saved' = [saved EXCEPT ![t] = Get(t, CondSeq)]
  /\ inwait' = inwait \cup {t}
  /\ Goto(t, "cinc")
  /\ UNCHANGED <<futexVars, has, owner, depth, waiters, target, rec, owed>>

\* count the waiter, then unlock
CondInc(t) ==
  /\ Here(t, "cinc")
  /\ waiters' = [waiters EXCEPT ![space[t]] = @ + 1]
  /\ owner' = [owner EXCEPT ![space[t]] = Nobody]
  /\ Goto(t, "uadd")
  /\ UNCHANGED <<futexVars, has, depth, saved, target, inwait, rec, owed>>

\* Mutant: the sequence number is read again after the unlock.
CondSleepLate(t) ==
  /\ Here(t, "cwait")
  /\ Goto(t, "cdec")
  /\ saved' = [saved EXCEPT ![t] = Get(t, CondSeq)]
  /\ \/ \E timeout \in BOOLEAN :
          MayWait(t, CondSeq, Get(t, CondSeq)) /\ AddWaiter(t, CondSeq, Bits, timeout)
     \/ UNCHANGED futexVars
  /\ UNCHANGED <<has, owner, depth, waiters, target, inwait, rec, owed>>

\* futex_wait(&seq, saved, timeout); a timedwait whose deadline has passed
\* already does not call it
CondSleep(t) ==
  /\ Here(t, "cwait")
  /\ Goto(t, "cdec")
  /\ \/ \E timeout \in BOOLEAN :
          MayWait(t, CondSeq, saved[t]) /\ AddWaiter(t, CondSeq, Bits, timeout)
     \/ UNCHANGED futexVars
  /\ UNCHANGED <<has, owner, depth, waiters, saved, target, inwait, rec, owed>>

\* uncount the waiter, then pthread_mutex_lock
CondDec(t) ==
  /\ Here(t, "cdec")
  /\ waiters' = [waiters EXCEPT ![space[t]] = @ - 1]
  /\ saved' = [saved EXCEPT ![t] = 0]
  /\ owed' = owed \ {t}
  /\ Goto(t, "lock")
  /\ UNCHANGED <<futexVars, has, owner, depth, target, inwait, rec>>

\* pthread_cond_signal and pthread_cond_broadcast do nothing without waiters
SignalCall(t) ==
  /\ Here(t, "user") /\ waiters[space[t]] > 0
  /\ \/ "signal" \in Ops /\ Goto(t, "sadd")
     \/ "broadcast" \in Ops /\ Goto(t, "badd")
  /\ UNCHANGED <<futexVars, has, owner, depth, waiters, saved, target, inwait, rec, owed>>

\* Threads of process s that released the mutex in pthread_cond_wait and still wait.
Blocked(s) == {t \in inwait \ has : space[t] = s /\ pc[t] \in {"uwake", "cwait", "cdec"}}

SignalAdd(t) ==
  /\ Here(t, "sadd") \/ Here(t, "badd")
  /\ Get(t, CondSeq) < MaxSeq
  /\ Put(t, CondSeq, Get(t, CondSeq) + 1)
  /\ Goto(t, IF pc[t] = "sadd" THEN "swake" ELSE "bwake")
  /\ owed' = IF pc[t] = "sadd" THEN owed ELSE owed \cup Blocked(space[t])
  /\ UNCHANGED <<kernelVars, has, owner, depth, waiters, saved, target, inwait, rec>>

SignalWake(t) ==
  /\ \/ Here(t, "swake") /\ futex_wake(CondSeq, 1, Bits)
     \/ Here(t, "bwake") /\ futex_wake(CondSeq, Cardinality(Thread), Bits)
  /\ Goto(t, "user")
  /\ UNCHANGED <<has, owner, depth, waiters, saved, target, inwait, rec, owed>>
-----------------------------------------------------------------------------
(* pthread_create, pthread_detach and the records of detached threads *)

\* Mutant: the reaper does not look at the tid word.
ReapedAll(s) ==
  [u \in Thread |-> IF space[u] = s /\ rec[u] = "listed" THEN "freed" ELSE rec[u]]

\* pthread_reap_detached: the listed records whose thread has cleared its word
\* are freed, and with them the stacks.
Reaped(s) ==
  [u \in Thread |-> IF space[u] = s /\ rec[u] = "listed" /\ word[s][u] = 0
                    THEN "freed" ELSE rec[u]]

\* pthread_create reaps first ...
CreateCall(t) ==
  /\ Here(t, "user") /\ "create" \in Ops
  /\ rec' = Reaped(space[t])
  /\ Goto(t, "create")
  /\ UNCHANGED <<futexVars, has, owner, depth, waiters, saved, target, inwait, owed>>

\* ... makes the record, with the join word set, and clones: the thread runs ...
Clone(t) ==
  /\ Here(t, "create") /\ target[t] = t
  /\ \E u \in Thread :
       /\ Here(u, "unborn") /\ space[u] = space[t]
       /\ Put(t, u, 1)
       /\ \E r \in {"joinable", "detached"} : rec' = [rec EXCEPT ![u] = r]
       /\ target' = [target EXCEPT ![t] = u]
       /\ Goto(u, "user")
  /\ UNCHANGED <<kernelVars, has, owner, depth, waiters, saved, inwait, owed>>

\* ... and lists the record of a detached thread.  ENOMEM and EAGAIN leave
\* nothing behind.
CreateReturn(t) ==
  /\ Here(t, "create")
  /\ rec' = IF target[t] # t /\ rec[target[t]] = "detached"
            THEN [rec EXCEPT ![target[t]] = "listed"] ELSE rec
  /\ target' = [target EXCEPT ![t] = t]
  /\ Goto(t, "user")
  /\ UNCHANGED <<futexVars, has, owner, depth, waiters, saved, inwait, owed>>

\* u's handle is out, and nobody else uses it.
Joinable(u, s) ==
  rec[u] = "joinable" /\ space[u] = s /\ \A v \in Thread : target[v] = u => v = u

\* pthread_detach: a thread that is gone already is freed, another is listed
pthread_detach(t) ==
  /\ Here(t, "user") /\ "detach" \in Ops
  /\ \E u \in Thread :
       /\ Joinable(u, space[t])
       /\ \/ /\ Get(t, u) = 0
             /\ rec' = [rec EXCEPT ![u] = "freed"]
             /\ UNCHANGED pc
          \/ /\ Get(t, u) # 0
             /\ rec' = [rec EXCEPT ![u] = "listed"]
             /\ Goto(t, "reap")
  /\ UNCHANGED <<futexVars, has, owner, depth, waiters, saved, target, inwait, owed>>

DetachReap(t) ==
  /\ Here(t, "reap")
  /\ rec' = Reaped(space[t])
  /\ Goto(t, "user")
  /\ UNCHANGED <<futexVars, has, owner, depth, waiters, saved, target, inwait, owed>>
-----------------------------------------------------------------------------
(* pthread_join, and the exit that ends it *)

JoinCall(t) ==
  /\ Here(t, "user") /\ "join" \in Ops
  /\ \E u \in Thread \ {t} :
       /\ Joinable(u, space[t]) /\ pc[u] \notin {"join", "jwait"}
       /\ target' = [target EXCEPT ![t] = u]
  /\ Goto(t, "join")
  /\ UNCHANGED <<futexVars, has, owner, depth, waiters, saved, inwait, rec, owed>>

\* while ((v = *tid_addr) != 0), then the record and the stack are freed
JoinTest(t) ==
  /\ Here(t, "join")
  /\ saved' = [saved EXCEPT ![t] = Get(t, target[t])]
  /\ \/ /\ Get(t, target[t]) = 0
        /\ rec' = [rec EXCEPT ![target[t]] = "freed"]
        /\ target' = [target EXCEPT ![t] = t]
        /\ Goto(t, "user")
     \/ /\ Get(t, target[t]) # 0
        /\ Goto(t, "jwait")
        /\ UNCHANGED <<rec, target>>
  /\ UNCHANGED <<futexVars, has, owner, depth, waiters, inwait, owed>>

JoinWait(t) ==
  /\ Here(t, "jwait")
  /\ Goto(t, "join")
  /\ \/ MayWait(t, target[t], saved[t]) /\ AddWaiter(t, target[t], Bits, FALSE)
     \/ ~MayWait(t, target[t], saved[t]) /\ UNCHANGED futexVars
  /\ UNCHANGED <<has, owner, depth, waiters, saved, target, inwait, rec, owed>>

\* Mutant: the word is cleared after the wakeup.
ExitClearLate(t) ==
  /\ \/ Here(t, "user") /\ t \notin Born \cup has
        /\ futex_wake(t, 1, Bits) /\ Goto(t, "ewake")
     \/ Here(t, "ewake") /\ Put(t, t, 0) /\ Goto(t, "gone") /\ UNCHANGED kernelVars
  /\ UNCHANGED <<has, owner, depth, waiters, saved, target, inwait, rec, owed>>

\* proc_exit with CLONE_CHILD_CLEARTID: clear the word, then futex_wake_addr
ExitClear(t) ==
  /\ \/ Here(t, "user") /\ t \notin Born \cup has
        /\ Put(t, t, 0) /\ Goto(t, "ewake") /\ UNCHANGED kernelVars
     \/ Here(t, "ewake") /\ futex_wake(t, 1, Bits) /\ Goto(t, "gone")
  /\ UNCHANGED <<has, owner, depth, waiters, saved, target, inwait, rec, owed>>
-----------------------------------------------------------------------------
\* What the calls do once made, and what the program chooses to do.
Run(t) ==
  \/ LockCas(t) \/ LockMark(t) \/ LockWait(t) \/ LockOwn(t)
  \/ UnlockAdd(t) \/ UnlockStore(t) \/ UnlockWake(t)
  \/ CondInc(t) \/ CondSleep(t) \/ CondDec(t) \/ SignalAdd(t) \/ SignalWake(t)
  \/ Clone(t) \/ CreateReturn(t) \/ DetachReap(t)
  \/ JoinTest(t) \/ JoinWait(t) \/ (pc[t] = "ewake" /\ ExitClear(t))
Call(t) ==
  \/ LockCall(t) \/ Relock(t) \/ pthread_mutex_trylock(t) \/ UnlockCall(t)
  \/ CondCall(t) \/ SignalCall(t) \/ CreateCall(t) \/ pthread_detach(t) \/ JoinCall(t)
  \/ (pc[t] = "user" /\ ExitClear(t))

Kernel == UNCHANGED userVars /\
  (futex_tick \/ \E t \in Thread : FutexKernel(t) \/ Nudge(t) \/ Expire(t))

PthreadNext == Kernel \/ \E t \in Thread : Run(t) \/ Call(t)

\* Runnable threads run; a program may stop making calls.
PthreadFairness == \A t \in Thread :
  /\ WF_pthreadVars(Run(t))
  /\ WF_pthreadVars(UNCHANGED userVars /\ FutexKernel(t))

PthreadSpec == PthreadInit /\ [][PthreadNext]_pthreadVars /\ PthreadFairness
-----------------------------------------------------------------------------
\* t is linked on the word at address a of its process and will stay there
\* until somebody releases it.
AsleepOn(t, a) == linked[t] # NoBucket /\ waiter[t].addr = a

Peers(t) == {u \in Thread : space[u] = space[t]}

\* Types of the mutex, the condition variable and each thread's locals.
PthreadTypeOK ==
  /\ FutexTypeOK
  /\ pc \in [Thread -> PCs]
  /\ has \subseteq Thread /\ inwait \subseteq Thread /\ owed \subseteq inwait
  /\ owner \in [Space -> Thread \cup {Nobody}]
  /\ depth \in [Space -> Nat] /\ waiters \in [Space -> Nat]
  /\ saved \in [Thread -> Nat]
  /\ target \in [Thread -> Thread]
  /\ rec \in [Thread -> Records]

\* No two threads of a process hold the mutex, also while one of them is in the
\* middle of unlocking a contended one (fetch_add, then the store of 0).
MutexExclusion ==
  \A t, u \in has : space[t] = space[u] => t = u

\* The owner that a RECURSIVE lock and an ERRORCHECK unlock rely on is a thread
\* that holds the mutex, and only a held mutex has a recursion count.
OwnerHolds ==
  \A s \in Space :
    /\ owner[s] # Nobody => owner[s] \in has /\ space[owner[s]] = s
    /\ depth[s] > 0 => owner[s] # Nobody

\* A thread that sleeps on the mutex is not forgotten: the lock word says that
\* there are waiters, or a thread of the process is about to free it and wake
\* one, or about to set the flag again.
NoStuckLock ==
  \A t \in Thread : AsleepOn(t, Lock) =>
    \/ Get(t, Lock) = 2
    \/ \E u \in Peers(t) : pc[u] \in {"ustore", "uwake"}
    \/ \E u \in Peers(t) : pc[u] = "mark" /\ ~AsleepOn(u, Lock)

\* A broadcast reaches every thread that had released the mutex to wait when it
\* began, asleep already or on its way to futex_wait.
BroadcastReachesAll ==
  \A t \in owed : AsleepOn(t, CondSeq) => \E u \in Peers(t) : pc[u] = "bwake"

\* A joined thread's exit is seen: once proc_exit has cleared the word nobody
\* sleeps on it, apart from the moment before its futex_wake_addr.
NoLostJoin ==
  \A t, u \in Thread : AsleepOn(t, u) /\ Get(t, u) = 0 => pc[u] = "ewake"

\* A stack and a record are freed, by whichever of join, detach and the reaper,
\* only when their thread has left user mode for good.
NoFreeWhileRunning ==
  \A u \in Thread : rec[u] = "freed" => pc[u] \in {"ewake", "gone"}

\* pthread_join returns once the thread it waits for has begun to exit.
JoinReturns ==
  \A t \in Thread : (pc[t] \in {"join", "jwait"} /\ pc[target[t]] \in {"ewake", "gone"})
    ~> pc[t] \notin {"join", "jwait"}
=============================================================================
