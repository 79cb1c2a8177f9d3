---------------------------- MODULE PthreadProofs ---------------------------
(***************************************************************************)
(* Proofs about Pthread, for every set of threads and processes, every     *)
(* kind of mutex and every pool size: mutual exclusion and what the owner  *)
(* field says; that a stack is freed after its thread; and, with the       *)
(* invariant of the futexes underneath, that no wakeup of the mutex, of a  *)
(* broadcast or of a join is lost.                                         *)
(***************************************************************************)
EXTENDS Pthread, FutexProofs, FiniteSetTheorems, TLAPS

\* The types the argument needs.
Types ==
  /\ word \in [Space -> [Addr -> Nat]]
  /\ pc \in [Thread -> PCs]
  /\ has \subseteq Thread
  /\ owner \in [Space -> Thread \cup {Nobody}]
  /\ depth \in [Space -> Nat]

\* A free lock word means that nobody holds the mutex.
WordTells == \A t \in has : word[space[t]][Lock] # 0

\* Program points between the acquisition and the release.
Inside == \A t \in Thread : pc[t] \in {"own", "cinc", "uadd", "ustore"} => t \in has

\* An unlock has reset the owner, and a cond wait starts with no recursion.
Reset == \A t \in Thread :
  /\ pc[t] \in {"uadd", "ustore"} => owner[space[t]] # t
  /\ pc[t] \in {"uadd", "ustore", "cinc"} => depth[space[t]] = 0

\* Only a recursive mutex counts.
Counts == Kind # "RECURSIVE" => \A s \in Space : depth[s] = 0

MInv == Types /\ WordTells /\ MutexExclusion /\ Inside /\ OwnerHolds /\ Reset /\ Counts

\* Nobody holds the mutex at first.
LEMMA MInitInv == PthreadInit => MInv
  BY PthreadAssumption, FutexAssumption DEF PthreadInit, MInv, Types, WordTells,
     MutexExclusion, Inside, OwnerHolds, Reset, Counts, PCs

\* A step that changes neither the lock word, nor who holds the mutex, nor its
\* fields, and that does not go into the critical section, keeps the invariant.
LEMMA OutsideKeeps ==
  ASSUME MInv, NEW t \in Thread, NEW p \in PCs \ {"own", "cinc", "uadd", "ustore"},
         Goto(t, p), word' \in [Space -> [Addr -> Nat]],
         \A s \in Space : word'[s][Lock] = word[s][Lock],
         UNCHANGED <<has, owner, depth>>
  PROVE  MInv'
<1> USE FutexAssumption DEF MInv, Types, Goto
<1>1. Types' /\ Inside'
  BY DEF Inside
<1>2. WordTells' /\ MutexExclusion' /\ OwnerHolds' /\ Counts'
  BY DEF WordTells, MutexExclusion, OwnerHolds, Counts
<1>3. Reset'
  BY DEF Reset
<1> QED BY <1>1, <1>2, <1>3

\* The same for a step that leaves every thread where it is.
LEMMA StillKeeps ==
  ASSUME MInv, UNCHANGED <<word, pc, has, owner, depth>>
  PROVE  MInv'
  BY DEF MInv, Types, WordTells, MutexExclusion, Inside, OwnerHolds, Reset, Counts

\* Writing a word that is not the lock word.
LEMMA OtherWord ==
  ASSUME Types, NEW t \in Thread, NEW a \in Addr \ {Lock}, NEW v \in Nat, Put(t, a, v)
  PROVE  /\ word' \in [Space -> [Addr -> Nat]]
         /\ \A s \in Space : word'[s][Lock] = word[s][Lock]
  BY FutexAssumption, PthreadAssumption DEF Types, Put

\* Acquiring a free lock keeps the invariant.
LEMMA AcquireKeeps ==
  ASSUME MInv, NEW t \in Thread, NEW v \in {1, 2}, Get(t, Lock) = 0, Acquire(t, v),
         pc[t] \notin {"own", "cinc", "uadd", "ustore"}, UNCHANGED <<owner, depth>>
  PROVE  MInv'
<1>a. v \in Nat /\ v # 0
  OBVIOUS
<1> USE FutexAssumption, PthreadAssumption DEF MInv, Types, Acquire, Goto, Put, Get
<1>1. \A u \in has : space[u] # space[t]
  BY DEF WordTells
<1>2. Types'
  BY <1>a DEF PCs
<1>3. WordTells'
  BY <1>a DEF WordTells
<1>4. MutexExclusion'
  BY <1>1 DEF MutexExclusion
<1>5. Inside' /\ OwnerHolds' /\ Counts'
  BY DEF Inside, OwnerHolds, Counts
<1>6. Reset'
  BY DEF Reset
<1> QED BY <1>2, <1>3, <1>4, <1>5, <1>6

\* Releasing the lock keeps the invariant.
LEMMA ReleaseLockKeeps ==
  ASSUME MInv, NEW t \in Thread, NEW p \in {"user", "cwait", "uwake"},
         pc[t] \in {"uadd", "ustore"}, Put(t, Lock, 0), has' = has \ {t}, Goto(t, p),
         UNCHANGED <<owner, depth>>
  PROVE  MInv'
<1> USE FutexAssumption, PthreadAssumption DEF MInv, Types, Goto, Put
<1>1. t \in has /\ owner[space[t]] # t
  BY DEF Inside, Reset
<1>2. Types'
  BY DEF PCs
<1>3. WordTells' /\ MutexExclusion'
  BY <1>1 DEF WordTells, MutexExclusion
<1>4. \A s \in Space : owner[s] # t
  BY <1>1 DEF OwnerHolds, MutexExclusion
<1>5. Inside' /\ Counts'
  BY DEF Inside, Counts
<1>6. OwnerHolds' /\ Reset'
  BY <1>4 DEF OwnerHolds, Reset
<1> QED BY <1>2, <1>3, <1>5, <1>6

\* Every call keeps the invariant.
LEMMA CallKeeps ==
  ASSUME MInv, NEW t \in Thread, Call(t)
  PROVE  MInv'
<1> USE FutexAssumption, PthreadAssumption
<1>1. CASE LockCall(t)
  BY <1>1, OutsideKeeps DEF LockCall, futexVars, PCs, MInv, Types
<1>2. CASE Relock(t)
  <2> USE <1>2 DEF Relock, Here, MInv, Types
  <2>1. t \in has /\ space[t] \in Space
    BY DEF OwnerHolds
  <2>2. Types' /\ Counts' /\ WordTells' /\ MutexExclusion' /\ Inside'
    BY DEF Counts, futexVars, WordTells, MutexExclusion, Inside
  <2>3. OwnerHolds'
    BY <2>1 DEF OwnerHolds
  <2>4. \A u \in Thread : pc[u] \in {"uadd", "ustore", "cinc"} => space[u] # space[t]
    BY <2>1 DEF Inside, MutexExclusion
  <2>5. Reset'
    BY <2>4 DEF Reset
  <2> QED BY <2>2, <2>3, <2>5
<1>3. CASE pthread_mutex_trylock(t)
  BY <1>3, AcquireKeeps DEF pthread_mutex_trylock, Here
<1>4. CASE UnlockCall(t)
  <2>1. CASE Kind = "RECURSIVE" /\ depth[space[t]] > 0
    <3> USE <1>4, <2>1 DEF UnlockCall, Here, MInv, Types
    <3>1. depth' = [depth EXCEPT ![space[t]] = depth[space[t]] - 1]
          /\ depth[space[t]] - 1 \in Nat /\ UNCHANGED <<word, pc, has, owner>>
      BY DEF futexVars
    <3>2. Types' /\ Counts' /\ WordTells' /\ MutexExclusion' /\ Inside'
      BY <3>1 DEF Counts, WordTells, MutexExclusion, Inside
    <3>3. OwnerHolds'
      BY <3>1 DEF OwnerHolds
    <3>4. \A u \in Thread : pc[u] \in {"uadd", "ustore", "cinc"} => space[u] # space[t]
      BY DEF Reset
    <3>5. Reset'
      BY <3>1, <3>4 DEF Reset
    <3> QED BY <3>2, <3>3, <3>5
  <2>2. CASE ~(Kind = "RECURSIVE" /\ depth[space[t]] > 0)
    <3> USE <1>4, <2>2 DEF UnlockCall, Here, MInv, Types
    <3>1. owner' = [owner EXCEPT ![space[t]] = Nobody] /\ Goto(t, "uadd")
          /\ t \in has /\ UNCHANGED <<word, has, depth>>
      BY DEF futexVars
    <3>2. space[t] \in Space /\ depth[space[t]] = 0
      BY DEF Counts
    <3>3. Types' /\ Counts' /\ WordTells' /\ MutexExclusion' /\ Inside'
      BY <3>1 DEF Goto, PCs, Counts, WordTells, MutexExclusion, Inside
    <3>4. OwnerHolds'
      BY <3>1, <3>2 DEF OwnerHolds
    <3>5. Reset'
      BY <3>1, <3>2 DEF Reset, Goto
    <3> QED BY <3>3, <3>4, <3>5
  <2> QED BY <2>1, <2>2
<1>5. CASE CondCall(t)
  <2> USE <1>5 DEF CondCall, Here, MInv, Types
  <2>1. Goto(t, "cinc") /\ t \in has /\ depth[space[t]] = 0 /\ UNCHANGED <<word, has, owner, depth>>
    BY DEF futexVars
  <2>2. Types' /\ Counts' /\ WordTells' /\ MutexExclusion' /\ Inside' /\ OwnerHolds'
    BY <2>1 DEF Goto, PCs, Counts, WordTells, MutexExclusion, Inside, OwnerHolds
  <2>3. Reset'
    BY <2>1 DEF Reset, Goto
  <2> QED BY <2>2, <2>3
<1>6. CASE SignalCall(t)
  BY <1>6, OutsideKeeps DEF SignalCall, futexVars, PCs, MInv, Types
<1>7. CASE JoinCall(t)
  BY <1>7, OutsideKeeps DEF JoinCall, futexVars, PCs, MInv, Types
<1>8. CASE pc[t] = "user" /\ ExitClear(t)
  <2>1. Put(t, t, 0) /\ Goto(t, "ewake") /\ UNCHANGED <<has, owner, depth>>
    BY <1>8 DEF ExitClear, Here
  <2>2. t \in Addr \ {Lock}
    OBVIOUS
  <2>3. Types
    BY DEF MInv
  <2> QED BY <2>1, <2>2, <2>3, OtherWord, OutsideKeeps DEF PCs
<1>9. CASE CreateCall(t)
  BY <1>9, OutsideKeeps DEF CreateCall, futexVars, PCs, MInv, Types
<1>10. CASE pthread_detach(t)
  <2>1. CASE Goto(t, "reap")
    BY <1>10, <2>1, OutsideKeeps DEF pthread_detach, futexVars, PCs, MInv, Types
  <2>2. CASE UNCHANGED pc
    BY <1>10, <2>2, StillKeeps DEF pthread_detach, futexVars
  <2> QED BY <1>10, <2>1, <2>2 DEF pthread_detach
<1> QED BY <1>1, <1>2, <1>3, <1>4, <1>5, <1>6, <1>7, <1>8, <1>9, <1>10 DEF Call

\* Waiting and waking in the kernel leave the words alone.
LEMMA KernelSteps ==
  /\ \A t, a, b, x : AddWaiter(t, a, b, x) => UNCHANGED word
  /\ \A a, n, b : futex_wake(a, n, b) => UNCHANGED word
  BY DEF AddWaiter, futex_wake, Release

\* Every step inside a call keeps the invariant.
LEMMA RunKeeps ==
  ASSUME MInv, NEW t \in Thread, Run(t)
  PROVE  MInv'
<1> USE FutexAssumption, PthreadAssumption
<1>0. Types
  BY DEF MInv
<1>1. CASE LockCas(t)
  <2>1. CASE Get(t, Lock) = 0 /\ Acquire(t, 1)
    BY <1>1, <2>1, AcquireKeeps DEF LockCas, Here
  <2>2. CASE Goto(t, IF Get(t, Lock) = 2 THEN "wait" ELSE "mark") /\ UNCHANGED <<word, has>>
    BY <1>0, <1>1, <2>2, OutsideKeeps DEF LockCas, PCs, Types
  <2> QED BY <1>1, <2>1, <2>2 DEF LockCas
<1>2. CASE LockMark(t)
  <2>1. CASE Get(t, Lock) = 0 /\ Acquire(t, 2)
    BY <1>2, <2>1, AcquireKeeps DEF LockMark, Here
  <2>2. CASE Get(t, Lock) # 0 /\ Put(t, Lock, 2) /\ Goto(t, "wait") /\ UNCHANGED has
    <3> USE <1>2, <2>2 DEF LockMark, MInv, Types, Put, Goto
    <3>1. Types' /\ Inside'
      BY DEF PCs, Inside
    <3>2. WordTells' /\ MutexExclusion'
      BY DEF WordTells, MutexExclusion
    <3>3. OwnerHolds' /\ Counts'
      BY DEF OwnerHolds, Counts
    <3>4. Reset'
      BY DEF Reset
    <3> QED BY <3>1, <3>2, <3>3, <3>4
  <2> QED BY <1>2, <2>1, <2>2 DEF LockMark
<1>3. CASE LockWait(t)
  <2>1. Goto(t, "mark") /\ UNCHANGED <<word, has, owner, depth>>
    BY <1>3, KernelSteps DEF LockWait, futexVars
  <2> QED BY <1>0, <2>1, OutsideKeeps DEF PCs, Types
<1>4. CASE LockOwn(t)
  <2> USE <1>4 DEF LockOwn, Here, MInv, Types
  <2>1. t \in has /\ space[t] \in Space /\ pc[t] = "own" /\ Goto(t, "user") /\ UNCHANGED <<word, has, depth>>
    BY DEF Inside, futexVars
  <2>2. \A u \in Thread : pc[u] \in {"uadd", "ustore"} => space[u] # space[t]
    BY <2>1 DEF Inside, MutexExclusion
  <2>3. Types' /\ Inside' /\ WordTells' /\ MutexExclusion' /\ Counts'
    BY <2>1 DEF Goto, PCs, Inside, WordTells, MutexExclusion, Counts
  <2>4. OwnerHolds'
    BY <2>1 DEF OwnerHolds
  <2>5. Reset'
    BY <2>1, <2>2 DEF Reset, Goto
  <2> QED BY <2>3, <2>4, <2>5
<1>5. CASE UnlockAdd(t)
  <2>1. CASE Get(t, Lock) = 1
    <3>1. Put(t, Lock, 0) /\ has' = has \ {t} /\ pc[t] = "uadd" /\ UNCHANGED <<owner, depth>>
      BY <1>5, <2>1 DEF UnlockAdd, Here
    <3>2. \E p \in {"user", "cwait", "uwake"} : Goto(t, p)
      BY <1>5, <2>1 DEF UnlockAdd, Unlocked
    <3> QED BY <3>1, <3>2, ReleaseLockKeeps
  <2>0. \A n \in Nat : n # 0 /\ n # 1 => n - 1 \in Nat \ {0}
    OBVIOUS
  <2>2. CASE Get(t, Lock) # 1
    <3> USE <1>5, <2>2 DEF UnlockAdd, Here, MInv, Types
    <3>1. Put(t, Lock, Get(t, Lock) - 1) /\ Goto(t, "ustore") /\ pc[t] = "uadd"
          /\ t \in has /\ UNCHANGED <<has, owner, depth>>
      BY DEF Inside
    <3>2. Get(t, Lock) \in Nat /\ Get(t, Lock) # 0
      BY <3>1 DEF WordTells, Get
    <3>3. Get(t, Lock) - 1 \in Nat \ {0}
      BY <2>0, <3>2
    <3>4. Types' /\ WordTells' /\ MutexExclusion'
      BY <3>1, <3>3 DEF Put, Goto, PCs, WordTells, MutexExclusion
    <3>5. Inside' /\ OwnerHolds' /\ Counts'
      BY <3>1 DEF Goto, Inside, OwnerHolds, Counts
    <3>6. Reset'
      BY <3>1 DEF Goto, Reset
    <3> QED BY <3>4, <3>5, <3>6
  <2> QED BY <2>1, <2>2
<1>6. CASE UnlockStore(t)
  BY <1>6, ReleaseLockKeeps DEF UnlockStore, Here
<1>7. CASE UnlockWake(t)
  <2>1. UNCHANGED <<word, has, owner, depth>> /\ \E p \in {"user", "cwait"} : Goto(t, p)
    BY <1>7, KernelSteps DEF UnlockWake, Unlocked
  <2> QED BY <1>0, <2>1, OutsideKeeps DEF PCs, Types
<1>8. CASE CondInc(t)
  <2> USE <1>8 DEF CondInc, Here, MInv, Types
  <2>1. t \in has /\ space[t] \in Space /\ depth[space[t]] = 0 /\ pc[t] = "cinc"
        /\ Goto(t, "uadd") /\ UNCHANGED <<word, has, depth>>
    BY DEF Inside, Reset, futexVars
  <2>2. Types' /\ Inside' /\ WordTells' /\ MutexExclusion' /\ Counts'
    BY <2>1 DEF Goto, PCs, Inside, WordTells, MutexExclusion, Counts
  <2>3. OwnerHolds'
    BY <2>1 DEF OwnerHolds
  <2>4. Reset'
    BY <2>1 DEF Reset, Goto
  <2> QED BY <2>2, <2>3, <2>4
<1>9. CASE CondSleep(t)
  <2>1. Goto(t, "cdec") /\ UNCHANGED <<word, has, owner, depth>>
    BY <1>9, KernelSteps DEF CondSleep, futexVars
  <2> QED BY <1>0, <2>1, OutsideKeeps DEF PCs, Types
<1>10. CASE CondDec(t)
  BY <1>0, <1>10, OutsideKeeps DEF CondDec, futexVars, PCs, Types
<1>11. CASE SignalAdd(t)
  <2>1. CondSeq \in Addr \ {Lock} /\ Get(t, CondSeq) + 1 \in Nat
    BY <1>0 DEF Types, Get
  <2>2. Put(t, CondSeq, Get(t, CondSeq) + 1) /\ UNCHANGED <<has, owner, depth>>
        /\ \E p \in {"swake", "bwake"} : Goto(t, p)
    BY <1>11 DEF SignalAdd
  <2> QED BY <1>0, <2>1, <2>2, OtherWord, OutsideKeeps DEF PCs
<1>12. CASE SignalWake(t)
  <2>1. Goto(t, "user") /\ UNCHANGED <<word, has, owner, depth>>
    BY <1>12, KernelSteps DEF SignalWake
  <2> QED BY <1>0, <2>1, OutsideKeeps DEF PCs, Types
<1>13. CASE JoinTest(t)
  <2>1. UNCHANGED <<word, has, owner, depth>> /\ \E p \in {"user", "jwait"} : Goto(t, p)
    BY <1>13 DEF JoinTest, futexVars
  <2> QED BY <1>0, <2>1, OutsideKeeps DEF PCs, Types
<1>14. CASE JoinWait(t)
  <2>1. Goto(t, "join") /\ UNCHANGED <<word, has, owner, depth>>
    BY <1>14, KernelSteps DEF JoinWait, futexVars
  <2> QED BY <1>0, <2>1, OutsideKeeps DEF PCs, Types
<1>15. CASE pc[t] = "ewake" /\ ExitClear(t)
  <2>1. Goto(t, "gone") /\ UNCHANGED <<word, has, owner, depth>>
    BY <1>15, KernelSteps DEF ExitClear, Here
  <2> QED BY <1>0, <2>1, OutsideKeeps DEF PCs, Types
<1>16. CASE Clone(t)
  <2>1. PICK u \in Thread : Put(t, u, 1) /\ Goto(u, "user")
    BY <1>16 DEF Clone
  <2>2. u \in Addr \ {Lock} /\ UNCHANGED <<has, owner, depth>>
    BY <1>16 DEF Clone
  <2>3. /\ word' \in [Space -> [Addr -> Nat]]
        /\ \A s \in Space : word'[s][Lock] = word[s][Lock]
    BY <1>0, <2>1, <2>2, OtherWord
  <2> QED BY <2>1, <2>2, <2>3, OutsideKeeps DEF PCs
<1>17. CASE CreateReturn(t) \/ DetachReap(t)
  BY <1>0, <1>17, OutsideKeeps DEF CreateReturn, DetachReap, futexVars, PCs, Types
<1> QED BY <1>1, <1>2, <1>3, <1>4, <1>5, <1>6, <1>7, <1>8, <1>9, <1>10, <1>11, <1>12,
           <1>13, <1>14, <1>15, <1>16, <1>17 DEF Run

\* The invariant is inductive.
LEMMA MNextInv == MInv /\ [PthreadNext]_pthreadVars => MInv'
<1> SUFFICES ASSUME MInv, [PthreadNext]_pthreadVars PROVE MInv'
  OBVIOUS
<1>1. CASE Kernel
  <2>1. UNCHANGED userVars /\ UNCHANGED word
    BY <1>1 DEF Kernel, futex_tick, Release, FutexKernel, Park, Return, Nudge, Expire
  <2> QED BY <2>1, StillKeeps DEF userVars
<1>2. ASSUME NEW t \in Thread, Run(t) PROVE MInv'
  BY <1>2, RunKeeps
<1>3. ASSUME NEW t \in Thread, Call(t) PROVE MInv'
  BY <1>3, CallKeeps
<1>4. CASE UNCHANGED pthreadVars
  BY <1>4, StillKeeps DEF pthreadVars, futexVars, userVars
<1> QED BY <1>1, <1>2, <1>3, <1>4 DEF PthreadNext

\* At most one thread of a process holds the mutex, whatever the interleaving
\* of the atomic instructions of pthread_mutex_lock and pthread_mutex_unlock.
THEOREM PthreadMutualExclusion == PthreadSpec => []MutexExclusion
<1>1. MInv => MutexExclusion
  BY DEF MInv
<1> QED BY <1>1, MInitInv, MNextInv, PTL DEF PthreadSpec

\* mutex->owner names a thread that holds the mutex, and a recursion count
\* belongs to an owner.
THEOREM PthreadOwnerHolds == PthreadSpec => []OwnerHolds
<1>1. MInv => OwnerHolds
  BY DEF MInv
<1> QED BY <1>1, MInitInv, MNextInv, PTL DEF PthreadSpec
-----------------------------------------------------------------------------
(* Records and stacks *)

\* A created thread's word is 0 only after the kernel cleared it, a thread that
\* does not exist yet has no record, and a joiner's handle is a record of its
\* process.
ClearedExits == \A u \in Thread :
  rec[u] # "none" /\ word[space[u]][u] = 0 => pc[u] \in {"ewake", "gone"}
Made == \A u \in Thread : pc[u] = "unborn" => rec[u] = "none"
Handles == \A t \in Thread : pc[t] \in {"join", "jwait"} =>
  rec[target[t]] # "none" /\ space[target[t]] = space[t]

RInv ==
  /\ rec \in [Thread -> Records] /\ target \in [Thread -> Thread]
  /\ ClearedExits /\ Made /\ Handles /\ NoFreeWhileRunning

\* No record at first.
LEMMA RInitInv == PthreadInit => RInv
  BY PthreadAssumption, FutexAssumption
     DEF PthreadInit, RInv, Records, ClearedExits, Made, Handles, NoFreeWhileRunning

\* Steps that touch neither a record, nor a handle, nor a join word.
LEMMA QuietKeeps ==
  ASSUME MInv, RInv, NEW t \in Thread, NEW p \in PCs \ {"unborn"}, Goto(t, p),
         pc[t] \notin {"ewake", "gone"},
         p \in {"join", "jwait"} => pc[t] \in {"join", "jwait"},
         \A u \in Thread : word'[space[u]][u] = word[space[u]][u],
         UNCHANGED <<rec, target>>
  PROVE  RInv'
<1> USE DEF MInv, Types, RInv, Goto
<1>1. ClearedExits' /\ NoFreeWhileRunning'
  BY DEF ClearedExits, NoFreeWhileRunning
<1>2. Made'
  BY DEF Made
<1>3. Handles'
  BY DEF Handles
<1> QED BY <1>1, <1>2, <1>3

\* pthread_reap_detached frees only what is no longer used.
LEMMA ReapKeeps ==
  ASSUME MInv, RInv, NEW t \in Thread, NEW p \in {"user", "create"}, Goto(t, p),
         pc[t] \in {"user", "reap"}, rec' = Reaped(space[t]), UNCHANGED <<word, target>>
  PROVE  RInv'
<1> USE DEF MInv, Types, RInv, Goto
<1>1. /\ rec' \in [Thread -> Records]
      /\ \A u \in Thread : rec'[u] = "none" <=> rec[u] = "none"
      /\ \A u \in Thread : rec'[u] = "freed" =>
           rec[u] = "freed" \/ (rec[u] = "listed" /\ word[space[u]][u] = 0)
  BY DEF Reaped, Records
<1>2. ClearedExits' /\ Made' /\ Handles'
  BY <1>1 DEF ClearedExits, Made, Handles
<1>3. NoFreeWhileRunning'
  BY <1>1 DEF NoFreeWhileRunning, ClearedExits
<1> QED BY <1>1, <1>2, <1>3

\* Steps that leave everybody where they are.
LEMMA RStillKeeps ==
  ASSUME RInv, UNCHANGED <<word, pc, rec, target>>
  PROVE  RInv'
  BY DEF RInv, ClearedExits, Made, Handles, NoFreeWhileRunning

\* The mutex and the condition variable are not join words.
LEMMA JoinWordsKept ==
  ASSUME MInv, NEW t \in Thread, NEW a \in {Lock, CondSeq}, NEW v, Put(t, a, v)
  PROVE  \A u \in Thread : word'[space[u]][u] = word[space[u]][u]
  BY PthreadAssumption, FutexAssumption DEF MInv, Types, Put

\* Every call keeps the invariant.
LEMMA RCallKeeps ==
  ASSUME MInv, RInv, NEW t \in Thread, Call(t)
  PROVE  RInv'
<1> USE FutexAssumption, PthreadAssumption
<1>1. CASE LockCall(t) \/ CondCall(t) \/ SignalCall(t)
  <2>1. /\ \E p \in {"lock", "cinc", "sadd", "badd"} : Goto(t, p)
        /\ pc[t] = "user" /\ UNCHANGED <<word, rec, target>>
    BY <1>1 DEF LockCall, CondCall, SignalCall, Here, futexVars
  <2> QED BY <2>1, QuietKeeps DEF PCs
<1>2. CASE Relock(t)
  BY <1>2, RStillKeeps DEF Relock, futexVars
<1>3. CASE pthread_mutex_trylock(t)
  BY <1>3, JoinWordsKept, QuietKeeps DEF pthread_mutex_trylock, Acquire, Here, PCs
<1>4. CASE UnlockCall(t)
  <2>1. CASE UNCHANGED pc
    BY <1>4, <2>1, RStillKeeps DEF UnlockCall, futexVars
  <2>2. CASE Goto(t, "uadd")
    BY <1>4, <2>2, QuietKeeps DEF UnlockCall, Here, futexVars, PCs
  <2> QED BY <1>4, <2>1, <2>2 DEF UnlockCall
<1>5. CASE CreateCall(t)
  BY <1>5, ReapKeeps DEF CreateCall, Here, futexVars
<1>6. CASE pthread_detach(t)
  <2> USE DEF MInv, Types, RInv
  <2>1. PICK u \in Thread :
          /\ rec[u] = "joinable" /\ space[u] = space[t]
          /\ \/ Get(t, u) = 0 /\ rec' = [rec EXCEPT ![u] = "freed"] /\ UNCHANGED pc
             \/ rec' = [rec EXCEPT ![u] = "listed"] /\ Goto(t, "reap")
    BY <1>6 DEF pthread_detach, Joinable
  <2>2. pc[t] = "user" /\ UNCHANGED <<word, target>>
    BY <1>6 DEF pthread_detach, Here, futexVars
  <2>3. CASE Get(t, u) = 0 /\ rec' = [rec EXCEPT ![u] = "freed"] /\ UNCHANGED pc
    BY <2>1, <2>2, <2>3 DEF Get, Records, ClearedExits, Made, Handles, NoFreeWhileRunning
  <2>4. CASE rec' = [rec EXCEPT ![u] = "listed"] /\ Goto(t, "reap")
    <3>1. ClearedExits' /\ NoFreeWhileRunning' /\ rec' \in [Thread -> Records]
      BY <2>1, <2>2, <2>4 DEF Goto, Records, ClearedExits, NoFreeWhileRunning
    <3>2. Made' /\ Handles'
      BY <2>1, <2>2, <2>4 DEF Goto, Made, Handles
    <3> QED BY <2>2, <3>1, <3>2
  <2> QED BY <2>1, <2>3, <2>4
<1>7. CASE JoinCall(t)
  <2> USE DEF MInv, Types, RInv
  <2>1. PICK u \in Thread : rec[u] = "joinable" /\ space[u] = space[t]
                            /\ target' = [target EXCEPT ![t] = u]
    BY <1>7 DEF JoinCall, Joinable
  <2>2. pc[t] = "user" /\ Goto(t, "join") /\ UNCHANGED <<word, rec>>
    BY <1>7 DEF JoinCall, Here, futexVars
  <2>3. ClearedExits' /\ Made' /\ NoFreeWhileRunning'
    BY <2>2 DEF Goto, ClearedExits, Made, NoFreeWhileRunning
  <2>4. Handles'
    BY <2>1, <2>2 DEF Goto, Handles
  <2> QED BY <2>1, <2>2, <2>3, <2>4
<1>8. CASE pc[t] = "user" /\ ExitClear(t)
  <2> USE DEF MInv, Types, RInv
  <2>1. Put(t, t, 0) /\ Goto(t, "ewake") /\ UNCHANGED <<rec, target>>
    BY <1>8 DEF ExitClear, Here
  <2>2. Made' /\ Handles' /\ NoFreeWhileRunning'
    BY <2>1 DEF Goto, Made, Handles, NoFreeWhileRunning
  <2>3. ClearedExits'
    BY <2>1 DEF Put, Goto, ClearedExits
  <2> QED BY <2>1, <2>2, <2>3
<1> QED BY <1>1, <1>2, <1>3, <1>4, <1>5, <1>6, <1>7, <1>8 DEF Call

\* Every step inside a call keeps the invariant.
LEMMA RRunKeeps ==
  ASSUME MInv, RInv, NEW t \in Thread, Run(t)
  PROVE  RInv'
<1> USE FutexAssumption, PthreadAssumption
<1>1. CASE LockCas(t) \/ LockMark(t) \/ UnlockAdd(t) \/ UnlockStore(t) \/ SignalAdd(t)
  <2>1. /\ UNCHANGED word \/ \E a \in {Lock, CondSeq} : \E v : Put(t, a, v)
        /\ pc[t] \notin {"ewake", "gone"} /\ UNCHANGED <<rec, target>>
    BY <1>1 DEF LockCas, LockMark, UnlockAdd, UnlockStore, SignalAdd, Acquire, Here
  <2>2. \E p \in PCs \ {"unborn", "join", "jwait"} : Goto(t, p)
    BY <1>1 DEF LockCas, LockMark, UnlockAdd, UnlockStore, SignalAdd, Acquire, Unlocked, PCs
  <2> QED BY <2>1, <2>2, JoinWordsKept, QuietKeeps
<1>2. CASE LockWait(t) \/ LockOwn(t) \/ UnlockWake(t)
  <2>1. UNCHANGED <<word, rec, target>> /\ pc[t] \notin {"ewake", "gone"}
    BY <1>2, KernelSteps DEF LockWait, LockOwn, UnlockWake, Here, futexVars
  <2>2. \E p \in PCs \ {"unborn", "join", "jwait"} : Goto(t, p)
    BY <1>2 DEF LockWait, LockOwn, UnlockWake, Unlocked, PCs
  <2> QED BY <2>1, <2>2, QuietKeeps
<1>3. CASE CondInc(t) \/ CondSleep(t) \/ CondDec(t) \/ SignalWake(t)
  <2>1. UNCHANGED <<word, rec, target>> /\ pc[t] \notin {"ewake", "gone"}
    BY <1>3, KernelSteps DEF CondInc, CondSleep, CondDec, SignalWake, Here, futexVars
  <2>2. \E p \in PCs \ {"unborn", "join", "jwait"} : Goto(t, p)
    BY <1>3 DEF CondInc, CondSleep, CondDec, SignalWake, PCs
  <2> QED BY <2>1, <2>2, QuietKeeps
<1>4. CASE Clone(t)
  <2> USE DEF MInv, Types, RInv
  <2>1. PICK u \in Thread, r \in {"joinable", "detached"} :
          /\ pc[u] = "unborn" /\ space[u] = space[t]
          /\ Put(t, u, 1) /\ rec' = [rec EXCEPT ![u] = r]
          /\ target' = [target EXCEPT ![t] = u] /\ Goto(u, "user")
    BY <1>4 DEF Clone, Here
  <2>2. pc[t] = "create"
    BY <1>4 DEF Clone, Here
  <2>3. rec' \in [Thread -> Records] /\ target' \in [Thread -> Thread]
    BY <2>1 DEF Records
  <2>4. \A v \in Thread : v # u => word'[space[v]][v] = word[space[v]][v]
    BY <2>1 DEF Put
  <2>5. word'[space[u]][u] = 1
    BY <2>1 DEF Put
  <2>6. ClearedExits'
    BY <2>1, <2>4, <2>5 DEF ClearedExits, Goto
  <2>7. Made' /\ NoFreeWhileRunning'
    BY <2>1 DEF Made, NoFreeWhileRunning, Goto
  <2>8. Handles'
    BY <2>1, <2>2 DEF Handles, Goto
  <2> QED BY <2>3, <2>6, <2>7, <2>8
<1>5. CASE CreateReturn(t)
  <2> USE DEF MInv, Types, RInv
  <2>1. /\ rec' \in [Thread -> Records]
        /\ \A u \in Thread : (rec'[u] = "none" <=> rec[u] = "none")
                             /\ (rec'[u] = "freed" => rec[u] = "freed")
    BY <1>5 DEF CreateReturn, Records
  <2>2. /\ pc[t] = "create" /\ Goto(t, "user") /\ UNCHANGED word
        /\ target' = [target EXCEPT ![t] = t]
    BY <1>5 DEF CreateReturn, Here, futexVars
  <2>3. ClearedExits' /\ Made' /\ NoFreeWhileRunning'
    BY <2>1, <2>2 DEF Goto, ClearedExits, Made, NoFreeWhileRunning
  <2>4. Handles'
    BY <2>1, <2>2 DEF Goto, Handles
  <2> QED BY <2>1, <2>2, <2>3, <2>4
<1>6. CASE DetachReap(t)
  BY <1>6, ReapKeeps DEF DetachReap, Here, futexVars
<1>7. CASE JoinTest(t)
  <2> USE DEF MInv, Types, RInv
  <2>1. pc[t] = "join" /\ UNCHANGED word
    BY <1>7 DEF JoinTest, Here, futexVars
  <2>2. CASE Get(t, target[t]) = 0
    <3>1. /\ rec' = [rec EXCEPT ![target[t]] = "freed"] /\ Goto(t, "user")
          /\ target' = [target EXCEPT ![t] = t]
      BY <1>7, <2>2 DEF JoinTest
    <3>2. pc[target[t]] \in {"ewake", "gone"}
      BY <2>1, <2>2 DEF Get, Handles, ClearedExits
    <3>3. ClearedExits' /\ Made' /\ NoFreeWhileRunning'
      BY <2>1, <3>1, <3>2 DEF Goto, ClearedExits, Made, NoFreeWhileRunning
    <3>4. Handles'
      BY <2>1, <3>1 DEF Goto, Handles
    <3> QED BY <3>1, <3>3, <3>4 DEF Records
  <2>3. CASE Get(t, target[t]) # 0
    BY <1>7, <2>1, <2>3, QuietKeeps DEF JoinTest, PCs
  <2> QED BY <2>2, <2>3
<1>8. CASE JoinWait(t)
  <2>1. UNCHANGED <<word, rec, target>> /\ pc[t] = "jwait" /\ Goto(t, "join")
    BY <1>8, KernelSteps DEF JoinWait, Here, futexVars
  <2> QED BY <2>1, QuietKeeps DEF PCs
<1>9. CASE pc[t] = "ewake" /\ ExitClear(t)
  <2> USE DEF MInv, Types, RInv
  <2>1. Goto(t, "gone") /\ UNCHANGED <<word, rec, target>>
    BY <1>9, KernelSteps DEF ExitClear, Here
  <2> QED BY <1>9, <2>1 DEF Goto, ClearedExits, Made, Handles, NoFreeWhileRunning
<1> QED BY <1>1, <1>2, <1>3, <1>4, <1>5, <1>6, <1>7, <1>8, <1>9 DEF Run

\* The invariant of the records is inductive, given that of the mutex.
LEMMA RNextInv == MInv /\ RInv /\ [PthreadNext]_pthreadVars => RInv'
<1> SUFFICES ASSUME MInv, RInv, [PthreadNext]_pthreadVars PROVE RInv'
  OBVIOUS
<1>1. CASE Kernel
  <2>1. UNCHANGED userVars /\ UNCHANGED word
    BY <1>1 DEF Kernel, futex_tick, Release, FutexKernel, Park, Return, Nudge, Expire
  <2> QED BY <2>1, RStillKeeps DEF userVars
<1>2. CASE UNCHANGED pthreadVars
  BY <1>2, RStillKeeps DEF pthreadVars, futexVars, userVars
<1> QED BY <1>1, <1>2, RCallKeeps, RRunKeeps DEF PthreadNext

\* The stack and the record of a thread are freed, by pthread_join,
\* pthread_detach or pthread_reap_detached, only once the kernel has cleared its
\* tid word, after which it never returns to user mode.
THEOREM PthreadNoFreeWhileRunning == PthreadSpec => []NoFreeWhileRunning
<1>1. RInv => NoFreeWhileRunning
  BY DEF RInv
<1> QED BY <1>1, MInitInv, MNextInv, RInitInv, RNextInv, PTL DEF PthreadSpec
-----------------------------------------------------------------------------
(* Who sleeps where *)

\* A thread at p that joins or creates u sleeps on the word at a.
SleepsAt(a, p, u) == <<a, p>> \in {<<Lock, "mark">>, <<CondSeq, "cdec">>, <<u, "join">>}

\* A linked thread sleeps on the word its program point says, for any wake.
Sleepers == \A t \in Thread : linked[t] # NoBucket =>
  waiter[t].bits = Bits /\ SleepsAt(waiter[t].addr, pc[t], target[t])

KInv == FInv /\ Sleepers

\* Where a thread is while it is inside pthread_cond_wait; what is owed to it.
Places == \A t \in Thread :
  /\ t \in inwait => pc[t] \in {"cinc", "uadd", "ustore", "uwake", "cwait", "cdec",
                                "lock", "mark", "wait", "own"}
  /\ pc[t] \in {"cinc", "cwait", "cdec"} => t \in inwait
  /\ t \in owed => t \in inwait /\ pc[t] \in {"uwake", "cwait", "cdec"}

\* The number a thread will wait for is at most cond->seq, and less than it once
\* a broadcast owes it a wakeup: it does not go to sleep then.
Seqs == \A t \in Thread :
  /\ t \in inwait /\ pc[t] \in {"cinc", "uadd", "ustore", "uwake", "cwait"}
       => saved[t] <= Get(t, CondSeq)
  /\ t \in owed /\ pc[t] \in {"uwake", "cwait"} => saved[t] < Get(t, CondSeq)

\* cond->waiters counts the threads between their increment and decrement.
Waiting(s) == {t \in inwait : space[t] = s
                 /\ pc[t] \in {"uadd", "ustore", "uwake", "cwait", "cdec"}}
Counted == \A s \in Space : waiters[s] = Cardinality(Waiting(s))

CTypes ==
  /\ inwait \subseteq Thread /\ owed \subseteq Thread
  /\ waiters \in [Space -> Int] /\ saved \in [Thread -> Nat]

CInv == CTypes /\ Places /\ Seqs /\ Counted /\ BroadcastReachesAll

\* A thread is joined by one thread at most, that has seen it running before it
\* waits; a handle in use belongs to a thread that was created.
Joins == \A t \in Thread :
  /\ pc[t] = "jwait" => saved[t] # 0
  /\ pc[t] \in {"join", "jwait"} => target[t] # t
  /\ target[t] # t => pc[target[t]] # "unborn"
  /\ \A v \in Thread : target[v] = target[t] /\ target[v] # v /\ target[t] # t => v = t

JInv == Joins /\ NoLostJoin
-----------------------------------------------------------------------------
\* A thread in user code is not linked.
LEMMA OutUnlinked == ASSUME FInv, NEW t \in Thread, stage[t] = "out" PROVE linked[t] = NoBucket
BY DEF FInv, LinkedSound

\* The user code of a thread touches the kernel's records by futex_wait and
\* futex_wake only, and nothing of a thread that is inside futex_wait.
UserStep(t) ==
  /\ \A v \in Thread : stage[v] # "out" =>
       pc'[v] = pc[v] /\ target'[v] = target[v] /\ saved'[v] = saved[v]
  /\ \/ UNCHANGED kernelVars
     \/ \E a \in Addr : \E n \in Nat : futex_wake(a, n, Bits)
     \/ \E a \in Addr : \E timeout \in BOOLEAN :
          stage[t] = "out" /\ AddWaiter(t, a, Bits, timeout) /\ SleepsAt(a, pc'[t], target'[t])

\* What a program chooses to do is such a step.
LEMMA CallIsUserStep ==
  ASSUME MInv, RInv, CTypes, NEW t \in Thread, Call(t) PROVE UserStep(t)
<1> USE PthreadAssumption, FutexAssumption
<1>1. /\ pc \in [Thread -> PCs] /\ target \in [Thread -> Thread] /\ saved \in [Thread -> Nat]
  BY DEF MInv, Types, RInv, CTypes
<1>2. CASE LockCall(t) \/ Relock(t) \/ pthread_mutex_trylock(t) \/ UnlockCall(t)
  BY <1>1, <1>2 DEF LockCall, Relock, pthread_mutex_trylock, UnlockCall, UserStep, Here, Goto,
     Acquire, futexVars, kernelVars
<1>3. CASE CondCall(t) \/ SignalCall(t) \/ CreateCall(t)
  BY <1>1, <1>3 DEF CondCall, SignalCall, CreateCall, UserStep, Here, Goto, futexVars, kernelVars
<1>4. CASE pthread_detach(t) \/ JoinCall(t)
  BY <1>1, <1>4 DEF pthread_detach, JoinCall, UserStep, Here, Goto, futexVars, kernelVars
<1>5. CASE pc[t] = "user" /\ ExitClear(t)
  BY <1>1, <1>5 DEF ExitClear, UserStep, Here, Goto, kernelVars
<1> QED BY <1>2, <1>3, <1>4, <1>5 DEF Call

\* So is what follows from it.
LEMMA RunIsUserStep ==
  ASSUME MInv, RInv, CTypes, NEW t \in Thread, Run(t) PROVE UserStep(t)
<1> USE PthreadAssumption, FutexAssumption
<1>1. /\ pc \in [Thread -> PCs] /\ target \in [Thread -> Thread] /\ saved \in [Thread -> Nat]
  BY DEF MInv, Types, RInv, CTypes
<1>2. Lock \in Addr /\ CondSeq \in Addr /\ \A u \in Thread : u \in Addr OBVIOUS
<1>3. 1 \in Nat /\ Cardinality(Thread) \in Nat BY FS_CardinalityType
<1>4. CASE LockCas(t) \/ LockMark(t) \/ LockOwn(t) \/ UnlockAdd(t) \/ UnlockStore(t)
  BY <1>1, <1>4 DEF LockCas, LockMark, LockOwn, UnlockAdd, UnlockStore, UserStep, Here, Goto,
     Acquire, futexVars, kernelVars
<1>5. CASE CondInc(t) \/ CondDec(t) \/ SignalAdd(t)
  BY <1>1, <1>5 DEF CondInc, CondDec, SignalAdd, UserStep, Here, Goto, futexVars, kernelVars
<1>6. CASE Clone(t)
  <2>1. PICK u \in Thread : stage[u] = "out" /\ target' = [target EXCEPT ![t] = u]
                            /\ pc' = [pc EXCEPT ![u] = "user"]
    BY <1>6 DEF Clone, Here, Goto
  <2> QED BY <1>1, <1>6, <2>1 DEF Clone, UserStep, Here, kernelVars
<1>7. CASE CreateReturn(t) \/ DetachReap(t) \/ JoinTest(t)
  BY <1>1, <1>7 DEF CreateReturn, DetachReap, JoinTest, UserStep, Here, Goto, futexVars, kernelVars
<1>8. CASE UnlockWake(t)
  BY <1>1, <1>2, <1>3, <1>8 DEF UnlockWake, UserStep, Here, Goto
<1>9. CASE SignalWake(t)
  BY <1>1, <1>2, <1>3, <1>9 DEF SignalWake, UserStep, Here, Goto
<1>10. CASE pc[t] = "ewake" /\ ExitClear(t)
  BY <1>1, <1>2, <1>3, <1>10 DEF ExitClear, UserStep, Here, Goto
<1>11. CASE LockWait(t)
  <2>1. pc'[t] = "mark" /\ stage[t] = "out" /\ target' = target /\ saved' = saved
        /\ \A v \in Thread : v # t => pc'[v] = pc[v]
    BY <1>1, <1>11 DEF LockWait, Here, Goto
  <2>2. CASE AddWaiter(t, Lock, Bits, FALSE)
    BY <1>2, <2>1, <2>2 DEF UserStep, SleepsAt
  <2>3. CASE UNCHANGED futexVars BY <2>1, <2>3 DEF UserStep, futexVars, kernelVars
  <2> QED BY <1>11, <2>2, <2>3 DEF LockWait
<1>12. CASE CondSleep(t)
  <2>1. pc'[t] = "cdec" /\ stage[t] = "out" /\ target' = target /\ saved' = saved
        /\ \A v \in Thread : v # t => pc'[v] = pc[v]
    BY <1>1, <1>12 DEF CondSleep, Here, Goto
  <2>2. ASSUME NEW timeout \in BOOLEAN, AddWaiter(t, CondSeq, Bits, timeout) PROVE UserStep(t)
    BY <1>2, <2>1, <2>2 DEF UserStep, SleepsAt
  <2>3. CASE UNCHANGED futexVars BY <2>1, <2>3 DEF UserStep, futexVars, kernelVars
  <2> QED BY <1>12, <2>2, <2>3 DEF CondSleep
<1>13. CASE JoinWait(t)
  <2>1. pc'[t] = "join" /\ stage[t] = "out" /\ target' = target /\ saved' = saved
        /\ \A v \in Thread : v # t => pc'[v] = pc[v]
    BY <1>1, <1>13 DEF JoinWait, Here, Goto
  <2>2. CASE AddWaiter(t, target[t], Bits, FALSE)
    <3>1. target[t] \in Addr BY <1>1, <1>2
    <3> QED BY <2>1, <2>2, <3>1 DEF UserStep, SleepsAt
  <2>3. CASE UNCHANGED futexVars BY <2>1, <2>3 DEF UserStep, futexVars, kernelVars
  <2> QED BY <1>13, <2>2, <2>3 DEF JoinWait
<1> QED BY <1>4, <1>5, <1>6, <1>7, <1>8, <1>9, <1>10, <1>11, <1>12, <1>13 DEF Run

\* A step that links no new sleeper keeps the ones there are, unless it
\* releases them.
LEMMA FewerSleepers ==
  ASSUME Sleepers,
         \A v \in Thread : linked'[v] # NoBucket =>
           /\ linked[v] # NoBucket /\ waiter'[v] = waiter[v]
           /\ pc'[v] = pc[v] /\ target'[v] = target[v]
  PROVE  Sleepers'
BY DEF Sleepers, SleepsAt

\* Releasing waiters links none.
LEMMA ReleaseLinks ==
  ASSUME NEW S, NEW late, Release(S, late)
  PROVE  \A v \in Thread : linked'[v] # NoBucket =>
           v \notin S /\ linked'[v] = linked[v] /\ waiter'[v] = waiter[v]
BY DEF Release

\* The kernel's own steps keep KInv.
LEMMA KKernelKeeps == ASSUME KInv, Kernel PROVE KInv'
<1>1. UNCHANGED <<pc, target>> BY DEF Kernel, userVars
<1>2. CASE futex_tick
  <2>1. FInv' BY <1>2, TickKeeps DEF KInv
  <2>2. PICK S : Release(S, TRUE) BY <1>2 DEF futex_tick
  <2>3. \A v \in Thread : linked'[v] # NoBucket =>
           v \notin S /\ linked'[v] = linked[v] /\ waiter'[v] = waiter[v]
    BY <2>2, ReleaseLinks
  <2>4. Sleepers' BY <1>1, <2>3, FewerSleepers DEF KInv
  <2> QED BY <2>1, <2>4 DEF KInv
<1>3. ASSUME NEW t \in Thread, FutexKernel(t) \/ Nudge(t) \/ Expire(t) PROVE KInv'
  <2>1. FInv' BY <1>3, LoopKeeps DEF KInv
  <2>2. \A v \in Thread : linked'[v] # NoBucket => linked[v] # NoBucket /\ waiter'[v] = waiter[v]
    BY <1>3 DEF KInv, FInv, FutexTypeOK, FutexKernel, Park, Return, Nudge, Expire
  <2>3. Sleepers' BY <1>1, <2>2, FewerSleepers DEF KInv
  <2> QED BY <2>1, <2>3 DEF KInv
<1> QED BY <1>2, <1>3 DEF Kernel

\* So do the steps of user code.
LEMMA KUserKeeps ==
  ASSUME KInv, NEW t \in Thread, UserStep(t), word' \in [Space -> [Addr -> Nat]] PROVE KInv'
<1>1. \A v \in Thread : linked[v] # NoBucket => pc'[v] = pc[v] /\ target'[v] = target[v]
  <2>1. \A v \in Thread : linked[v] # NoBucket => stage[v] # "out" BY OutUnlinked DEF KInv
  <2> QED BY <2>1 DEF UserStep
<1>2. CASE UNCHANGED kernelVars
  <2>1. FInv'
    BY <1>2 DEF KInv, FInv, kernelVars, FutexTypeOK, LinkedSound, NoLostWakeup, LoopSound
  <2>2. Sleepers' BY <1>1, <1>2, FewerSleepers DEF KInv, kernelVars
  <2> QED BY <2>1, <2>2 DEF KInv
<1>3. ASSUME NEW a \in Addr, NEW n, futex_wake(a, n, Bits) PROVE KInv'
  <2>1. FInv' BY <1>3, WakeKeeps DEF KInv
  <2>2. PICK S : Release(S, FALSE) BY <1>3 DEF futex_wake
  <2>3. \A v \in Thread : linked'[v] # NoBucket =>
           v \notin S /\ linked'[v] = linked[v] /\ waiter'[v] = waiter[v]
    BY <2>2, ReleaseLinks
  <2>4. Sleepers' BY <1>1, <2>3, FewerSleepers DEF KInv
  <2> QED BY <2>1, <2>4 DEF KInv
<1>4. ASSUME NEW a \in Addr, NEW timeout \in BOOLEAN, stage[t] = "out",
             AddWaiter(t, a, Bits, timeout), SleepsAt(a, pc'[t], target'[t])
      PROVE  KInv'
  <2>1. FInv' BY <1>4, AddWaiterKeeps DEF KInv
  <2>2. waiter'[t].bits = Bits /\ waiter'[t].addr = a
    BY <1>4 DEF AddWaiter, KInv, FInv, FutexTypeOK
  <2>3. \A v \in Thread : v # t => linked'[v] = linked[v] /\ waiter'[v] = waiter[v]
    BY <1>4 DEF AddWaiter, KInv, FInv, FutexTypeOK
  <2>4. ASSUME NEW v \in Thread, linked'[v] # NoBucket
        PROVE  waiter'[v].bits = Bits /\ SleepsAt(waiter'[v].addr, pc'[v], target'[v])
    <3>1. CASE v = t BY <1>4, <2>2, <3>1
    <3>2. CASE v # t BY <1>1, <2>3, <2>4, <3>2 DEF KInv, Sleepers
    <3> QED BY <3>1, <3>2
  <2>5. Sleepers' BY <2>4 DEF Sleepers, SleepsAt
  <2> QED BY <2>1, <2>5 DEF KInv
<1> QED BY <1>2, <1>3, <1>4 DEF UserStep
-----------------------------------------------------------------------------
(* Sleeping and waking *)

\* The threads a wake of an address finds are those that sleep on it.
LEMMA AsleepIsAt ==
  ASSUME KInv, NEW t \in Thread, NEW a \in Addr PROVE AsleepOn(t, a) <=> t \in At(a)
<1>1. hash[a] # NoBucket BY FutexAssumption
<1> QED BY <1>1 DEF KInv, FInv, LinkedSound, AsleepOn, At

\* Where a sleeper is in the program.
LEMMA SleeperAt ==
  ASSUME KInv, RInv, NEW t \in Thread
  PROVE  /\ AsleepOn(t, Lock) => pc[t] = "mark"
         /\ AsleepOn(t, CondSeq) => pc[t] = "cdec"
         /\ \A u \in Thread : AsleepOn(t, u) => pc[t] = "join" /\ target[t] = u
<1>1. target[t] \in Thread BY DEF RInv
<1> QED BY <1>1, PthreadAssumption DEF KInv, Sleepers, SleepsAt, AsleepOn

\* A thread in user code does not sleep.
LEMMA OutAwake ==
  ASSUME KInv, NEW t \in Thread, stage[t] = "out", NEW a PROVE ~AsleepOn(t, a)
BY OutUnlinked DEF KInv, AsleepOn

\* futex_wake releases a thread if one sleeps on the address, and all of them
\* if its count is the number of threads.
LEMMA WakeTakes ==
  ASSUME KInv, NEW a \in Addr, NEW n \in Nat \ {0}, futex_wake(a, n, Bits)
  PROVE  \E S \in SUBSET At(a) : /\ Release(S, FALSE)
                                 /\ At(a) # {} => S # {}
                                 /\ n = Cardinality(Thread) => S = At(a)
<1> DEFINE M == {t \in At(a) : waiter[t].bits \cap Bits # {}}
<1>1. hash[a] # NoBucket /\ Bits # {} /\ IsFiniteSet(Thread) BY FutexAssumption, PthreadAssumption
<1>2. M = At(a)
  <2>1. \A t \in At(a) : waiter[t].bits = Bits BY <1>1 DEF At, KInv, Sleepers
  <2> QED BY <1>1, <2>1
<1>3. PICK S \in SUBSET At(a) : Takes(S, n, M) /\ Release(S, FALSE) BY DEF futex_wake
<1>4. S \subseteq Thread /\ At(a) \subseteq Thread BY DEF At
<1>5. Cardinality({}) = 0 BY FS_EmptySet
<1>6. S = {} => M = {} BY <1>3, <1>5 DEF Takes
<1>7. /\ Cardinality(S) \in Nat /\ Cardinality(Thread) \in Nat
      /\ Cardinality(S) = Cardinality(Thread) => S = Thread
  BY <1>1, <1>4, FS_Subset, FS_CardinalityType
<1>8. n = Cardinality(Thread) => S = At(a)
  <2> SUFFICES ASSUME n = Cardinality(Thread) PROVE S = At(a) OBVIOUS
  <2>1. CASE Cardinality(S) < n BY <1>2, <1>3, <2>1 DEF Takes
  <2>2. CASE ~(Cardinality(S) < n)
    <3>1. Cardinality(S) = Cardinality(Thread) BY <1>3, <1>7, <2>2 DEF Takes
    <3> QED BY <1>4, <1>7, <3>1
  <2> QED BY <2>1, <2>2
<1> QED BY <1>2, <1>3, <1>6, <1>8

\* A released thread sleeps nowhere; the others stay.
LEMMA ReleaseAsleep ==
  ASSUME NEW S, NEW late, Release(S, late), NEW v \in Thread, NEW a
  PROVE  (linked'[v] # NoBucket /\ waiter'[v].addr = a) <=> (AsleepOn(v, a) /\ v \notin S)
BY DEF Release, AsleepOn

\* In this step a thread starts to sleep on a.
Drowsy(a) == \E v \in Thread : AsleepOn(v, a)' /\ ~AsleepOn(v, a)

\* Without futex_wait nobody starts to sleep.
LEMMA NobodyDrowsy ==
  ASSUME \/ UNCHANGED kernelVars
         \/ \E a \in Addr : \E n : futex_wake(a, n, Bits)
         \/ KInv /\ Kernel,
         NEW x
  PROVE  ~Drowsy(x)
<1>1. CASE UNCHANGED kernelVars BY <1>1 DEF Drowsy, AsleepOn, kernelVars
<1>2. ASSUME NEW S, NEW late, Release(S, late) PROVE ~Drowsy(x)
  BY <1>2, ReleaseAsleep DEF Drowsy, AsleepOn
<1>3. CASE \E a \in Addr : \E n : futex_wake(a, n, Bits) BY <1>2, <1>3 DEF futex_wake
<1>4. CASE KInv /\ Kernel
  <2>1. CASE futex_tick BY <1>2, <2>1 DEF futex_tick
  <2>2. ASSUME NEW t \in Thread, FutexKernel(t) \/ Nudge(t) \/ Expire(t) PROVE ~Drowsy(x)
    BY <1>4, <2>2 DEF KInv, FInv, FutexTypeOK, FutexKernel, Park, Return, Nudge, Expire,
       Drowsy, AsleepOn
  <2> QED BY <1>4, <2>1, <2>2 DEF Kernel
<1> QED BY <1>1, <1>3, <1>4

\* With it the caller may, on the address it waits for, and nobody else.
LEMMA OnlyCaller ==
  ASSUME KInv, NEW t \in Thread, NEW a \in Addr, NEW timeout, AddWaiter(t, a, Bits, timeout),
         NEW v \in Thread, NEW x, AsleepOn(v, x)', ~AsleepOn(v, x)
  PROVE  v = t /\ x = a
<1>1. \A w \in Thread : w # t => linked'[w] = linked[w] /\ waiter'[w] = waiter[w]
  BY DEF AddWaiter, KInv, FInv, FutexTypeOK
<1>2. waiter'[t].addr = a BY DEF AddWaiter, KInv, FInv, FutexTypeOK
<1> QED BY <1>1, <1>2 DEF AsleepOn
-----------------------------------------------------------------------------
(* The mutex's sleepers *)

\* A step that neither clears the waiters flag nor takes away a thread that
\* will see to the sleepers.
LEMMA LockKept ==
  ASSUME NoStuckLock, ~Drowsy(Lock),
         \A v \in Thread : Get(v, Lock) = 2 => word'[space[v]][Lock] = 2,
         \A u \in Thread : pc[u] \in {"ustore", "uwake"} => pc'[u] \in {"ustore", "uwake"},
         \A u \in Thread : pc[u] = "mark" /\ ~AsleepOn(u, Lock) => pc'[u] = "mark"
  PROVE  NoStuckLock'
<1> SUFFICES ASSUME NEW t \in Thread, AsleepOn(t, Lock)'
             PROVE  \/ word'[space[t]][Lock] = 2
                    \/ \E u \in Peers(t) : pc'[u] \in {"ustore", "uwake"}
                    \/ \E u \in Peers(t) : pc'[u] = "mark" /\ ~AsleepOn(u, Lock)'
  BY DEF NoStuckLock, Get, Peers
<1>1. AsleepOn(t, Lock) BY DEF Drowsy
<1>2. \A u \in Thread : ~AsleepOn(u, Lock) => ~AsleepOn(u, Lock)' BY DEF Drowsy
<1>3. CASE Get(t, Lock) = 2 BY <1>3
<1>4. CASE \E u \in Peers(t) : pc[u] \in {"ustore", "uwake"} BY <1>4 DEF Peers
<1>5. CASE \E u \in Peers(t) : pc[u] = "mark" /\ ~AsleepOn(u, Lock)
  BY <1>2, <1>5 DEF Peers
<1> QED BY <1>1, <1>3, <1>4, <1>5 DEF NoStuckLock

\* The same, for a thread that goes on from a point where nothing is expected
\* of it and does not change the lock word.
LEMMA LockPassed ==
  ASSUME MInv, NoStuckLock, ~Drowsy(Lock), NEW t \in Thread, NEW p, Goto(t, p),
         pc[t] \notin {"ustore", "uwake", "mark"},
         \A v \in Thread : Get(v, Lock) = 2 => word'[space[v]][Lock] = 2
  PROVE  NoStuckLock'
<1>1. \A u \in Thread : u # t => pc'[u] = pc[u] BY DEF Goto, MInv, Types
<1> QED BY <1>1, LockKept

\* A step after which somebody is bound to see to every sleeper.
LEMMA LockSeenTo ==
  ASSUME NEW u \in Thread, \A t \in Thread : space[t] = space[u],
         \/ word'[space[u]][Lock] = 2
         \/ pc'[u] \in {"ustore", "uwake"}
         \/ pc'[u] = "mark" /\ ~AsleepOn(u, Lock)'
  PROVE  NoStuckLock'
BY DEF NoStuckLock, Get, Peers

\* A word that is not the lock word.
LEMMA OtherPut ==
  ASSUME MInv, NEW t \in Thread, NEW a \in Addr \ {Lock}, NEW v, Put(t, a, v)
  PROVE  \A u \in Thread : word'[space[u]][Lock] = Get(u, Lock)
BY FutexAssumption, PthreadAssumption DEF MInv, Types, Put, Get

\* The lock word itself.
LEMMA LockPut ==
  ASSUME MInv, NEW t \in Thread, NEW v, Put(t, Lock, v)
  PROVE  /\ word'[space[t]][Lock] = v
         /\ \A u \in Thread : space[u] # space[t] => word'[space[u]][Lock] = Get(u, Lock)
BY FutexAssumption, PthreadAssumption DEF MInv, Types, Put, Get

\* In one process, the steps of the mutex's own code keep its sleepers safe.
LEMMA MutexStep ==
  ASSUME MInv, RInv, KInv, NoStuckLock, NEW t \in Thread, \A u \in Thread : space[u] = space[t],
         \/ LockCas(t) \/ LockMark(t) \/ LockWait(t) \/ LockOwn(t) \/ pthread_mutex_trylock(t)
         \/ UnlockAdd(t) \/ UnlockStore(t) \/ UnlockWake(t)
  PROVE  NoStuckLock'
<1> USE PthreadAssumption, FutexAssumption
<1>0. pc \in [Thread -> PCs] BY DEF MInv, Types
<1>1. ASSUME NEW p, Goto(t, p), Put(t, Lock, 1), Get(t, Lock) = 0, UNCHANGED kernelVars,
             pc[t] \in {"lock", "user"}
      PROVE  NoStuckLock'
  <2>1. ~Drowsy(Lock) BY <1>1, NobodyDrowsy
  <2>2. \A v \in Thread : Get(v, Lock) # 2 BY <1>1 DEF Get
  <2> QED BY <1>1, <2>1, <2>2, LockPassed
<1>2. CASE LockCas(t)
  <2>1. CASE Get(t, Lock) = 0
    BY <1>1, <1>2, <2>1 DEF LockCas, Acquire, Here
  <2>2. CASE Get(t, Lock) # 0
    <3>1. UNCHANGED <<word, kernelVars>> /\ pc[t] = "lock" /\ \E p : Goto(t, p)
      BY <1>2, <2>2 DEF LockCas, Here
    <3>2. ~Drowsy(Lock) BY <3>1, NobodyDrowsy
    <3> QED BY <3>1, <3>2, LockPassed DEF Get
  <2> QED BY <2>1, <2>2
<1>3. CASE pthread_mutex_trylock(t)
  BY <1>1, <1>3 DEF pthread_mutex_trylock, Acquire, Here
<1>4. CASE LockMark(t)
  <2>1. Put(t, Lock, 2) BY <1>4 DEF LockMark, Acquire
  <2>2. word'[space[t]][Lock] = 2 BY <2>1, LockPut
  <2> QED BY <2>2, LockSeenTo
<1>5. CASE LockWait(t)
  <2>1. pc'[t] = "mark" /\ Goto(t, "mark") /\ stage[t] = "out" /\ pc[t] = "wait"
    BY <1>0, <1>5 DEF LockWait, Here, Goto
  <2>2. CASE MayWait(t, Lock, 2) /\ AddWaiter(t, Lock, Bits, FALSE)
    <3>1. word'[space[t]][Lock] = 2 BY <2>2 DEF MayWait, AddWaiter
    <3> QED BY <3>1, LockSeenTo
  <2>3. CASE UNCHANGED futexVars
    <3>1. ~AsleepOn(t, Lock)
      BY <2>1, OutAwake
    <3>2. ~AsleepOn(t, Lock)' BY <2>3, <3>1 DEF futexVars, kernelVars, AsleepOn
    <3> QED BY <2>1, <3>2, LockSeenTo
  <2> QED BY <1>5, <2>2, <2>3 DEF LockWait
<1>6. CASE LockOwn(t)
  <2>1. UNCHANGED <<word, kernelVars>> /\ pc[t] = "own" /\ Goto(t, "user")
    BY <1>6 DEF LockOwn, Here, futexVars
  <2>2. ~Drowsy(Lock) BY <2>1, NobodyDrowsy
  <2> QED BY <2>1, <2>2, LockPassed DEF Get
<1>7. CASE UnlockAdd(t)
  <2>1. CASE Get(t, Lock) = 1
    <3>1. UNCHANGED kernelVars /\ pc[t] = "uadd" /\ \E p : Goto(t, p)
      BY <1>7, <2>1 DEF UnlockAdd, Here
    <3>2. ~Drowsy(Lock) BY <3>1, NobodyDrowsy
    <3>3. \A v \in Thread : Get(v, Lock) # 2 BY <2>1 DEF Get
    <3> QED BY <3>1, <3>2, <3>3, LockPassed
  <2>2. CASE Get(t, Lock) # 1
    <3>1. pc'[t] = "ustore" BY <1>0, <1>7, <2>2 DEF UnlockAdd, Goto
    <3> QED BY <3>1, LockSeenTo
  <2> QED BY <2>1, <2>2
<1>8. CASE UnlockStore(t)
  <2>1. pc'[t] = "uwake" BY <1>0, <1>8 DEF UnlockStore, Goto
  <2> QED BY <2>1, LockSeenTo
<1>9. CASE UnlockWake(t)
  <2>1. futex_wake(Lock, 1, Bits) /\ pc[t] = "uwake" /\ \A u \in Thread : u # t => pc'[u] = pc[u]
    BY <1>0, <1>9 DEF UnlockWake, Here, Goto
  <2>2. PICK S \in SUBSET At(Lock) : Release(S, FALSE) /\ (At(Lock) # {} => S # {})
    <3>1. Lock \in Addr /\ 1 \in Nat \ {0} OBVIOUS
    <3> QED BY <2>1, <3>1, WakeTakes
  <2>3. ~Drowsy(Lock) BY <2>1, NobodyDrowsy
  <2>4. CASE At(Lock) = {}
    <3>1. \A u \in Thread : ~AsleepOn(u, Lock) BY <2>4, AsleepIsAt
    <3>2. \A u \in Thread : ~AsleepOn(u, Lock)' BY <2>3, <3>1 DEF Drowsy
    <3> QED BY <3>2 DEF NoStuckLock
  <2>5. CASE At(Lock) # {}
    <3>1. PICK u \in S : u \in Thread /\ AsleepOn(u, Lock) BY <2>2, <2>5, AsleepIsAt DEF At
    <3>2. pc[u] = "mark" /\ u # t BY <2>1, <3>1, SleeperAt
    <3>3. ~AsleepOn(u, Lock)'
      <4>1. linked'[u] = NoBucket BY <2>2, <3>1 DEF Release
      <4> QED BY <4>1 DEF AsleepOn
    <3>4. \A v \in Thread : space[v] = space[u] BY <3>1
    <3> QED BY <2>1, <3>1, <3>2, <3>3, <3>4, LockSeenTo
  <2> QED BY <2>4, <2>5
<1> QED BY <1>2, <1>3, <1>4, <1>5, <1>6, <1>7, <1>8, <1>9

\* Every other step leaves the mutex alone.
LEMMA MutexAlone ==
  ASSUME MInv, RInv, KInv, NoStuckLock, NEW t \in Thread,
         \/ Relock(t) \/ LockCall(t) \/ UnlockCall(t) \/ CondCall(t) \/ SignalCall(t)
         \/ CreateCall(t) \/ pthread_detach(t) \/ JoinCall(t) \/ ExitClear(t)
         \/ CondInc(t) \/ CondSleep(t) \/ CondDec(t) \/ SignalAdd(t) \/ SignalWake(t)
         \/ Clone(t) \/ CreateReturn(t) \/ DetachReap(t) \/ JoinTest(t) \/ JoinWait(t)
  PROVE  NoStuckLock'
<1> USE PthreadAssumption, FutexAssumption
<1>0. target[t] \in Addr \ {Lock} /\ t \in Addr \ {Lock} /\ CondSeq \in Addr \ {Lock}
  BY DEF RInv
<1>1. ASSUME UNCHANGED word, ~Drowsy(Lock), UNCHANGED pc PROVE NoStuckLock'
  BY <1>1, LockKept DEF Get
<1>2. ASSUME UNCHANGED word, ~Drowsy(Lock), NEW p, Goto(t, p),
             pc[t] \notin {"ustore", "uwake", "mark"}
      PROVE  NoStuckLock'
  BY <1>2, LockPassed DEF Get
<1>3. ASSUME NEW a \in Addr, NEW n, futex_wake(a, n, Bits) PROVE UNCHANGED word /\ ~Drowsy(Lock)
  BY <1>3, NobodyDrowsy DEF futex_wake, Release
<1>4. ASSUME NEW a \in Addr \ {Lock}, NEW timeout, AddWaiter(t, a, Bits, timeout)
      PROVE  UNCHANGED word /\ ~Drowsy(Lock)
  BY <1>4, OnlyCaller DEF AddWaiter, Drowsy
<1>5. UNCHANGED futexVars => UNCHANGED word /\ ~Drowsy(Lock)
  BY NobodyDrowsy DEF futexVars
<1>6. CASE Relock(t) BY <1>1, <1>5, <1>6 DEF Relock
<1>7. CASE LockCall(t) \/ CondCall(t) \/ SignalCall(t) \/ CreateCall(t) \/ JoinCall(t)
  BY <1>2, <1>5, <1>7 DEF LockCall, CondCall, SignalCall, CreateCall, JoinCall, Here
<1>8. CASE UnlockCall(t) BY <1>1, <1>2, <1>5, <1>8 DEF UnlockCall, Here
<1>9. CASE pthread_detach(t) BY <1>1, <1>2, <1>5, <1>9 DEF pthread_detach, Here
<1>10. CASE CondInc(t) \/ CondDec(t) \/ CreateReturn(t) \/ DetachReap(t) \/ JoinTest(t)
  BY <1>2, <1>5, <1>10 DEF CondInc, CondDec, CreateReturn, DetachReap, JoinTest, Here
<1>11. ASSUME NEW u \in Thread, NEW a \in Addr \ {Lock}, NEW v, Put(t, a, v), UNCHANGED kernelVars,
              NEW p, Goto(u, p), pc[u] \notin {"ustore", "uwake", "mark"}
       PROVE  NoStuckLock'
  <2>1. ~Drowsy(Lock) BY <1>11, NobodyDrowsy
  <2> QED BY <1>11, <2>1, OtherPut, LockPassed
<1>12. CASE ExitClear(t)
  <2>1. CASE Here(t, "user") /\ Put(t, t, 0) /\ Goto(t, "ewake") /\ UNCHANGED kernelVars
    BY <1>0, <1>11, <2>1 DEF Here
  <2>2. CASE Here(t, "ewake") /\ futex_wake(t, 1, Bits) /\ Goto(t, "gone")
    BY <1>0, <1>2, <1>3, <2>2 DEF Here
  <2> QED BY <1>12, <2>1, <2>2 DEF ExitClear
<1>13. CASE SignalAdd(t) BY <1>0, <1>11, <1>13 DEF SignalAdd, Here
<1>14. CASE Clone(t)
  <2>1. PICK u \in Thread : pc[u] = "unborn" /\ Put(t, u, 1) /\ Goto(u, "user")
    BY <1>14 DEF Clone, Here
  <2>2. UNCHANGED kernelVars /\ u \in Addr \ {Lock} BY <1>14 DEF Clone
  <2> QED BY <1>11, <2>1, <2>2
<1>15. CASE SignalWake(t)
  <2>1. pc[t] \in {"swake", "bwake"} /\ Goto(t, "user") /\ \E n : futex_wake(CondSeq, n, Bits)
    BY <1>15 DEF SignalWake, Here
  <2> QED BY <1>0, <1>2, <1>3, <2>1
<1>16. CASE CondSleep(t)
  <2>1. pc[t] = "cwait" /\ Goto(t, "cdec") BY <1>16 DEF CondSleep, Here
  <2>2. CASE \E timeout : AddWaiter(t, CondSeq, Bits, timeout) BY <1>0, <1>2, <1>4, <2>1, <2>2
  <2>3. CASE UNCHANGED futexVars BY <1>2, <1>5, <2>1, <2>3
  <2> QED BY <1>16, <2>2, <2>3 DEF CondSleep
<1>17. CASE JoinWait(t)
  <2>1. pc[t] = "jwait" /\ Goto(t, "join") BY <1>17 DEF JoinWait, Here
  <2>2. CASE AddWaiter(t, target[t], Bits, FALSE) BY <1>0, <1>2, <1>4, <2>1, <2>2
  <2>3. CASE UNCHANGED futexVars BY <1>2, <1>5, <2>1, <2>3
  <2> QED BY <1>17, <2>2, <2>3 DEF JoinWait
<1> QED BY <1>6, <1>7, <1>8, <1>9, <1>10, <1>12, <1>13, <1>14, <1>15, <1>16, <1>17
-----------------------------------------------------------------------------
(* Joins *)

\* A step that leaves the handles and starts no join.
LEMMA JoinsKept ==
  ASSUME RInv, Joins, UNCHANGED target,
         \A v \in Thread :
           /\ pc'[v] = "jwait" => pc[v] = "jwait" /\ saved'[v] = saved[v]
           /\ pc'[v] \in {"join", "jwait"} => pc[v] \in {"join", "jwait"}
           /\ pc'[v] = "unborn" => pc[v] = "unborn"
  PROVE  Joins'
<1>1. \A v \in Thread : target[v] \in Thread BY DEF RInv
<1> QED BY <1>1 DEF Joins

\* A step that neither clears a join word, nor begins a wait, nor ends an exit.
LEMMA JoinersKept ==
  ASSUME NoLostJoin, \A u \in Thread : ~Drowsy(u),
         \A t, u \in Thread : word'[space[t]][u] = 0 => Get(t, u) = 0,
         \A u \in Thread : pc[u] = "ewake" => pc'[u] = "ewake"
  PROVE  NoLostJoin'
<1> SUFFICES ASSUME NEW t \in Thread, NEW u \in Thread, AsleepOn(t, u)', word'[space[t]][u] = 0
             PROVE  pc'[u] = "ewake"
  BY DEF NoLostJoin, Get
<1>1. AsleepOn(t, u) BY DEF Drowsy
<1> QED BY <1>1 DEF NoLostJoin

\* Both, for a thread that goes on outside of joins and exits.
LEMMA JPassed ==
  ASSUME MInv, RInv, JInv, NEW t \in Thread, NEW p, Goto(t, p),
         p \notin {"join", "jwait", "unborn"}, pc[t] # "ewake", UNCHANGED target,
         \A v \in Thread : v # t => saved'[v] = saved[v],
         \A u \in Thread : ~Drowsy(u),
         \A v, u \in Thread : word'[space[v]][u] = 0 => Get(v, u) = 0
  PROVE  JInv'
<1>1. pc'[t] = p /\ \A u \in Thread : u # t => pc'[u] = pc[u] BY DEF Goto, MInv, Types
<1>2. Joins' BY <1>1, JoinsKept DEF JInv
<1>3. NoLostJoin' BY <1>1, JoinersKept DEF JInv
<1> QED BY <1>2, <1>3 DEF JInv

\* Or that stays where it is.
LEMMA JStill ==
  ASSUME RInv, JInv, UNCHANGED <<word, pc, saved, target>>, \A u \in Thread : ~Drowsy(u)
  PROVE  JInv'
<1>1. Joins' BY JoinsKept DEF JInv
<1>2. NoLostJoin' BY JoinersKept DEF JInv, Get
<1> QED BY <1>1, <1>2 DEF JInv

\* The mutex and the condition variable are not join words of any process.
LEMMA JoinWordsStay ==
  ASSUME MInv, NEW t \in Thread, NEW a \in {Lock, CondSeq}, NEW x, Put(t, a, x)
  PROVE  \A v, u \in Thread : word'[space[v]][u] = 0 => Get(v, u) = 0
BY FutexAssumption, PthreadAssumption DEF MInv, Types, Put, Get

\* The steps of the mutex and of the condition variable.
LEMMA JAlone ==
  ASSUME MInv, RInv, KInv, CTypes, JInv, NEW t \in Thread,
         \/ LockCas(t) \/ LockMark(t) \/ LockWait(t) \/ LockOwn(t) \/ pthread_mutex_trylock(t)
         \/ UnlockAdd(t) \/ UnlockStore(t) \/ UnlockWake(t)
         \/ Relock(t) \/ LockCall(t) \/ UnlockCall(t) \/ CondCall(t) \/ SignalCall(t)
         \/ CondInc(t) \/ CondSleep(t) \/ CondDec(t) \/ SignalAdd(t) \/ SignalWake(t)
         \/ CreateCall(t) \/ pthread_detach(t) \/ DetachReap(t)
  PROVE  JInv'
<1> USE PthreadAssumption, FutexAssumption
<1> DEFINE Plain == {"own", "wait", "mark", "user", "cwait", "ustore", "uwake", "lock", "uadd",
                     "cinc", "sadd", "badd", "swake", "bwake", "cdec", "create", "reap"}
<1>0. saved \in [Thread -> Nat] BY DEF CTypes
<1>1. ASSUME NEW p \in Plain, Goto(t, p), pc[t] # "ewake", UNCHANGED <<target, word>>,
             \A v \in Thread : v # t => saved'[v] = saved[v], \A u \in Thread : ~Drowsy(u)
      PROVE  JInv'
  BY <1>1, JPassed DEF Get
<1>2. ASSUME NEW p \in Plain, Goto(t, p), pc[t] # "ewake", UNCHANGED <<target, saved, kernelVars>>,
             NEW a \in {Lock, CondSeq}, NEW x, Put(t, a, x)
      PROVE  JInv'
  <2>1. \A v, u \in Thread : word'[space[v]][u] = 0 => Get(v, u) = 0 BY <1>2, JoinWordsStay
  <2>2. \A u \in Thread : ~Drowsy(u) BY <1>2, NobodyDrowsy
  <2> QED BY <1>2, <2>1, <2>2, JPassed
<1>3. ASSUME NEW a \in Addr, NEW n, futex_wake(a, n, Bits)
      PROVE  UNCHANGED word /\ \A u \in Thread : ~Drowsy(u)
  BY <1>3, NobodyDrowsy DEF futex_wake, Release
<1>4. ASSUME NEW a \in {Lock, CondSeq}, NEW timeout, AddWaiter(t, a, Bits, timeout)
      PROVE  UNCHANGED word /\ \A u \in Thread : ~Drowsy(u)
  BY <1>4, OnlyCaller DEF AddWaiter, Drowsy
<1>5. UNCHANGED kernelVars => \A u \in Thread : ~Drowsy(u) BY NobodyDrowsy
<1>6. CASE LockCas(t)
  <2>1. UNCHANGED <<target, saved, kernelVars>> /\ pc[t] = "lock" BY <1>6 DEF LockCas, Here
  <2>2. CASE Get(t, Lock) = 0 BY <1>2, <1>6, <2>1, <2>2 DEF LockCas, Acquire
  <2>3. CASE Get(t, Lock) # 0 BY <1>1, <1>5, <1>6, <2>1, <2>3 DEF LockCas
  <2> QED BY <2>2, <2>3
<1>7. CASE LockMark(t) \/ pthread_mutex_trylock(t) \/ UnlockAdd(t) \/ UnlockStore(t)
  BY <1>2, <1>7 DEF LockMark, pthread_mutex_trylock, UnlockAdd, UnlockStore, Acquire, Unlocked, Here
<1>8. CASE SignalAdd(t) BY <1>2, <1>8 DEF SignalAdd, Here
<1>9. CASE LockWait(t)
  <2>1. UNCHANGED <<target, saved>> /\ pc[t] = "wait" /\ Goto(t, "mark") BY <1>9 DEF LockWait, Here
  <2>2. CASE AddWaiter(t, Lock, Bits, FALSE)
    <3>1. UNCHANGED word /\ \A u \in Thread : ~Drowsy(u) BY <1>4, <2>2
    <3> QED BY <1>1, <2>1, <3>1
  <2>3. CASE UNCHANGED futexVars BY <1>1, <1>5, <2>1, <2>3 DEF futexVars
  <2> QED BY <1>9, <2>2, <2>3 DEF LockWait
<1>10. CASE CondSleep(t)
  <2>1. UNCHANGED <<target, saved>> /\ pc[t] = "cwait" /\ Goto(t, "cdec")
    BY <1>10 DEF CondSleep, Here
  <2>2. ASSUME NEW timeout, AddWaiter(t, CondSeq, Bits, timeout) PROVE JInv'
    <3>1. UNCHANGED word /\ \A u \in Thread : ~Drowsy(u) BY <1>4, <2>2
    <3> QED BY <1>1, <2>1, <3>1
  <2>3. CASE UNCHANGED futexVars BY <1>1, <1>5, <2>1, <2>3 DEF futexVars
  <2> QED BY <1>10, <2>2, <2>3 DEF CondSleep
<1>11. CASE UnlockWake(t) \/ SignalWake(t)
  <2>1. UNCHANGED <<target, saved>> /\ pc[t] # "ewake" /\ \E p \in Plain : Goto(t, p)
    BY <1>11 DEF UnlockWake, SignalWake, Unlocked, Here
  <2>2. \E a \in Addr : \E n : futex_wake(a, n, Bits) BY <1>11 DEF UnlockWake, SignalWake
  <2> QED BY <1>1, <1>3, <2>1, <2>2
<1>12. CASE LockOwn(t) \/ LockCall(t) \/ CondInc(t) \/ SignalCall(t) \/ CreateCall(t) \/ DetachReap(t)
  BY <1>1, <1>5, <1>12 DEF LockOwn, LockCall, CondInc, SignalCall, CreateCall, DetachReap, Here,
     futexVars
<1>13. CASE CondCall(t) \/ CondDec(t)
  BY <1>0, <1>1, <1>5, <1>13 DEF CondCall, CondDec, Here, futexVars
<1>14. CASE Relock(t) BY <1>5, <1>14, JStill DEF Relock, futexVars
<1>15. CASE UnlockCall(t)
  <2>1. UNCHANGED <<word, saved, target, kernelVars>> /\ pc[t] = "user"
    BY <1>15 DEF UnlockCall, Here, futexVars
  <2>2. CASE UNCHANGED pc BY <1>5, <2>1, <2>2, JStill
  <2>3. CASE Goto(t, "uadd") BY <1>1, <1>5, <2>1, <2>3
  <2> QED BY <1>15, <2>2, <2>3 DEF UnlockCall
<1>16. CASE pthread_detach(t)
  <2>1. UNCHANGED <<word, saved, target, kernelVars>> /\ pc[t] = "user"
    BY <1>16 DEF pthread_detach, Here, futexVars
  <2>2. CASE UNCHANGED pc BY <1>5, <2>1, <2>2, JStill
  <2>3. CASE Goto(t, "reap") BY <1>1, <1>5, <2>1, <2>3
  <2> QED BY <1>16, <2>2, <2>3 DEF pthread_detach
<1> QED BY <1>6, <1>7, <1>8, <1>9, <1>10, <1>11, <1>12, <1>13, <1>14, <1>15, <1>16

\* The steps of create, join and exit.
LEMMA JSteps ==
  ASSUME MInv, RInv, KInv, CTypes, JInv, NEW t \in Thread,
         Clone(t) \/ CreateReturn(t) \/ JoinCall(t) \/ JoinTest(t) \/ JoinWait(t) \/ ExitClear(t)
  PROVE  JInv'
<1> USE PthreadAssumption, FutexAssumption
<1>0. /\ saved \in [Thread -> Nat] /\ target \in [Thread -> Thread] /\ pc \in [Thread -> PCs]
      /\ word \in [Space -> [Addr -> Nat]] /\ \A v \in Thread : target[v] \in Thread
  BY DEF CTypes, RInv, MInv, Types
<1>1. UNCHANGED kernelVars => \A u \in Thread : ~Drowsy(u) BY NobodyDrowsy
<1>2. CASE Clone(t)
  <2>1. PICK u \in Thread : pc[u] = "unborn" /\ Put(t, u, 1) /\ pc' = [pc EXCEPT ![u] = "user"]
                            /\ target' = [target EXCEPT ![t] = u]
    BY <1>2 DEF Clone, Here, Goto
  <2>2. pc[t] = "create" /\ UNCHANGED <<saved, kernelVars>> BY <1>2 DEF Clone, Here
  <2>3. Joins'
    <3>1. \A v \in Thread : target[v] = u => v = u BY <2>1 DEF JInv, Joins
    <3>2. \A v \in Thread : target'[v] = (IF v = t THEN u ELSE target[v])
                            /\ pc'[v] = (IF v = u THEN "user" ELSE pc[v])
      BY <1>0, <2>1
    <3> QED BY <1>0, <2>1, <2>2, <3>1, <3>2 DEF JInv, Joins
  <2>4. \A v, w \in Thread : word'[space[v]][w] = 0 => Get(v, w) = 0
    BY <1>0, <2>1 DEF Put, Get
  <2>5. \A v \in Thread : pc[v] = "ewake" => pc'[v] = "ewake" BY <1>0, <2>1
  <2>6. NoLostJoin' BY <1>1, <2>2, <2>4, <2>5, JoinersKept DEF JInv
  <2> QED BY <2>3, <2>6 DEF JInv
<1>3. CASE CreateReturn(t)
  <2>1. pc[t] = "create" /\ pc' = [pc EXCEPT ![t] = "user"] /\ target' = [target EXCEPT ![t] = t]
        /\ UNCHANGED <<word, saved, kernelVars>>
    BY <1>3 DEF CreateReturn, Here, Goto, futexVars
  <2>2. Joins'
    <3>1. \A v \in Thread : target'[v] = (IF v = t THEN t ELSE target[v])
                            /\ pc'[v] = (IF v = t THEN "user" ELSE pc[v])
      BY <1>0, <2>1
    <3> QED BY <1>0, <2>1, <3>1 DEF JInv, Joins
  <2>3. NoLostJoin' BY <1>0, <1>1, <2>1, JoinersKept DEF JInv, Get
  <2> QED BY <2>2, <2>3 DEF JInv
<1>4. CASE JoinCall(t)
  <2>1. PICK u \in Thread \ {t} : Joinable(u, space[t]) /\ target' = [target EXCEPT ![t] = u]
    BY <1>4 DEF JoinCall
  <2>2. pc[t] = "user" /\ pc' = [pc EXCEPT ![t] = "join"] /\ UNCHANGED <<word, saved, kernelVars>>
    BY <1>4 DEF JoinCall, Here, Goto, futexVars
  <2>3. pc[u] # "unborn" /\ \A v \in Thread : target[v] = u => v = u
    BY <2>1 DEF Joinable, RInv, Made
  <2>4. Joins'
    <3>1. \A v \in Thread : target'[v] = (IF v = t THEN u ELSE target[v])
                            /\ pc'[v] = (IF v = t THEN "join" ELSE pc[v])
      BY <1>0, <2>1, <2>2
    <3> QED BY <1>0, <2>1, <2>2, <2>3, <3>1 DEF JInv, Joins
  <2>5. NoLostJoin' BY <1>0, <1>1, <2>2, JoinersKept DEF JInv, Get
  <2> QED BY <2>4, <2>5 DEF JInv
<1>5. CASE JoinTest(t)
  <2>1. pc[t] = "join" /\ UNCHANGED <<word, kernelVars>>
        /\ saved' = [saved EXCEPT ![t] = Get(t, target[t])]
    BY <1>5 DEF JoinTest, Here, futexVars
  <2>2. NoLostJoin'
    <3>1. \E p : pc' = [pc EXCEPT ![t] = p] BY <1>5 DEF JoinTest, Goto
    <3> QED BY <1>0, <1>1, <2>1, <3>1, JoinersKept DEF JInv, Get
  <2>3. CASE Get(t, target[t]) = 0
    <3>1. target' = [target EXCEPT ![t] = t] /\ pc' = [pc EXCEPT ![t] = "user"]
      BY <1>5, <2>3 DEF JoinTest, Goto
    <3>2. \A v \in Thread : target'[v] = (IF v = t THEN t ELSE target[v])
                            /\ pc'[v] = (IF v = t THEN "user" ELSE pc[v])
                            /\ (v # t => saved'[v] = saved[v])
      BY <1>0, <2>1, <3>1
    <3>3. Joins' BY <1>0, <2>1, <3>2 DEF JInv, Joins
    <3> QED BY <2>2, <3>3 DEF JInv
  <2>4. CASE Get(t, target[t]) # 0
    <3>1. target' = target /\ pc' = [pc EXCEPT ![t] = "jwait"]
      BY <1>5, <2>4 DEF JoinTest, Goto
    <3>2. \A v \in Thread : target'[v] = target[v]
                            /\ pc'[v] = (IF v = t THEN "jwait" ELSE pc[v])
                            /\ saved'[v] = (IF v = t THEN Get(t, target[t]) ELSE saved[v])
      BY <1>0, <2>1, <3>1
    <3>3. Joins' BY <1>0, <2>1, <2>4, <3>2 DEF JInv, Joins
    <3> QED BY <2>2, <3>3 DEF JInv
  <2> QED BY <2>3, <2>4
<1>6. CASE JoinWait(t)
  <2>1. pc[t] = "jwait" /\ pc' = [pc EXCEPT ![t] = "join"] /\ UNCHANGED <<saved, target>>
    BY <1>6 DEF JoinWait, Here, Goto
  <2>2. Joins' BY <1>0, <2>1, JoinsKept DEF JInv
  <2>3. CASE UNCHANGED futexVars
    <3>1. NoLostJoin' BY <1>0, <1>1, <2>1, <2>3, JoinersKept DEF JInv, Get, futexVars
    <3> QED BY <2>2, <3>1 DEF JInv
  <2>4. CASE MayWait(t, target[t], saved[t]) /\ AddWaiter(t, target[t], Bits, FALSE)
    <3>1. word[space[t]][target[t]] = saved[t] /\ saved[t] # 0 /\ UNCHANGED word
      BY <2>1, <2>4 DEF MayWait, AddWaiter, JInv, Joins
    <3>2. target[t] \in Addr BY <1>0
    <3>3. ASSUME NEW v \in Thread, NEW u \in Thread, AsleepOn(v, u)', word'[space[v]][u] = 0
          PROVE  pc'[u] = "ewake"
      <4>1. v = t => u # target[t] BY <3>1, <3>3
      <4>2. AsleepOn(v, u)
        <5>1. PICK timeout : AddWaiter(t, target[t], Bits, timeout) BY <2>4
        <5> QED BY <3>2, <3>3, <4>1, <5>1, OnlyCaller
      <4>3. pc[u] = "ewake" BY <3>1, <3>3, <4>2 DEF JInv, NoLostJoin, Get
      <4> QED BY <1>0, <2>1, <4>3
    <3>4. NoLostJoin' BY <3>3 DEF NoLostJoin, Get
    <3> QED BY <2>2, <3>4 DEF JInv
  <2> QED BY <1>6, <2>3, <2>4 DEF JoinWait
<1>7. CASE ExitClear(t)
  <2>1. UNCHANGED <<saved, target>> BY <1>7 DEF ExitClear
  <2>2. CASE Here(t, "user") /\ Put(t, t, 0) /\ Goto(t, "ewake") /\ UNCHANGED kernelVars
    <3>1. \A v \in Thread : pc'[v] = IF v = t THEN "ewake" ELSE pc[v]
      BY <1>0, <2>2 DEF Goto
    <3>2. Joins' BY <2>1, <3>1, JoinsKept DEF JInv
    <3>3. ASSUME NEW v \in Thread, NEW u \in Thread, AsleepOn(v, u)', word'[space[v]][u] = 0
          PROVE  pc'[u] = "ewake"
      <4>1. AsleepOn(v, u) BY <2>2, <3>3 DEF AsleepOn, kernelVars
      <4>2. u # t => word'[space[v]][u] = word[space[v]][u] BY <1>0, <2>2 DEF Put
      <4>3. u # t => pc[u] = "ewake" BY <3>3, <4>1, <4>2 DEF JInv, NoLostJoin, Get
      <4> QED BY <3>1, <4>3
    <3>4. NoLostJoin' BY <3>3 DEF NoLostJoin, Get
    <3> QED BY <3>2, <3>4 DEF JInv
  <2>3. CASE Here(t, "ewake") /\ futex_wake(t, 1, Bits) /\ Goto(t, "gone")
    <3>1. \A v \in Thread : pc'[v] = IF v = t THEN "gone" ELSE pc[v]
      BY <1>0, <2>3 DEF Goto
    <3>2. Joins' BY <2>1, <3>1, JoinsKept DEF JInv
    <3>3. t \in Addr /\ 1 \in Nat \ {0} OBVIOUS
    <3>4. PICK S \in SUBSET At(t) : Release(S, FALSE) /\ (At(t) # {} => S # {})
      BY <2>3, <3>3, WakeTakes
    <3>5. UNCHANGED word BY <3>4 DEF Release
    <3>6. \A v \in Thread : AsleepOn(v, t) => pc[v] = "join" /\ target[v] = t /\ target[v] # v
      BY SleeperAt DEF JInv, Joins
    <3>7. \A v, w \in Thread : AsleepOn(v, t) /\ AsleepOn(w, t) => v = w
      BY <3>6 DEF JInv, Joins
    <3>8. ASSUME NEW v \in Thread, NEW u \in Thread, AsleepOn(v, u)', word'[space[v]][u] = 0
          PROVE  pc'[u] = "ewake"
      <4>1. AsleepOn(v, u) /\ v \notin S BY <3>4, <3>8 DEF Release, AsleepOn
      <4>2. u # t
        <5> SUFFICES ASSUME u = t PROVE FALSE OBVIOUS
        <5>1. v \in At(t) BY <3>3, <4>1, AsleepIsAt
        <5>2. PICK w \in S : w \in Thread BY <3>4, <5>1 DEF At
        <5>3. AsleepOn(w, t) BY <3>3, <3>4, <5>2, AsleepIsAt
        <5> QED BY <3>7, <4>1, <5>2, <5>3
      <4>3. pc[u] = "ewake" BY <3>5, <3>8, <4>1 DEF JInv, NoLostJoin, Get
      <4> QED BY <3>1, <4>2, <4>3
    <3>9. NoLostJoin' BY <3>8 DEF NoLostJoin, Get
    <3> QED BY <3>2, <3>9 DEF JInv
  <2> QED BY <1>7, <2>2, <2>3 DEF ExitClear
<1> QED BY <1>2, <1>3, <1>4, <1>5, <1>6, <1>7
-----------------------------------------------------------------------------
(* The condition variable *)

Unlocking == {"uadd", "ustore", "uwake", "cwait", "cdec"}

\* cond->waiters is right as long as the same threads are between its
\* increment and decrement.
LEMMA CountKept ==
  ASSUME CTypes, Counted, UNCHANGED waiters, inwait' \subseteq Thread,
         \A v \in Thread : (v \in inwait /\ pc[v] \in Unlocking)
                             <=> (v \in inwait' /\ pc'[v] \in Unlocking)
  PROVE  Counted'
<1>1. \A s \in Space : Waiting(s)' = Waiting(s) BY DEF Waiting, Unlocking, CTypes
<1> QED BY <1>1 DEF Counted

\* A broadcast still reaches those it owes a wakeup.
LEMMA BroadcastKept ==
  ASSUME BroadcastReachesAll, CTypes, owed' \subseteq owed,
         \A v \in owed' : AsleepOn(v, CondSeq)' => AsleepOn(v, CondSeq),
         \A u \in Thread : pc[u] = "bwake" => pc'[u] = "bwake"
  PROVE  BroadcastReachesAll'
<1> SUFFICES ASSUME NEW t \in owed', AsleepOn(t, CondSeq)'
             PROVE  \E u \in Peers(t) : pc'[u] = "bwake"
  BY DEF BroadcastReachesAll, Peers
<1> QED BY DEF BroadcastReachesAll, Peers

\* A thread that goes on without touching the condition variable.
LEMMA CMove ==
  ASSUME MInv, CInv, NEW t \in Thread, NEW p, Goto(t, p), pc[t] # "bwake",
         UNCHANGED <<inwait, owed, waiters>>, saved' \in [Thread -> Nat],
         \A v \in inwait : saved'[v] = saved[v],
         \A v \in Thread : word'[space[v]][CondSeq] = Get(v, CondSeq),
         \A v \in owed : AsleepOn(v, CondSeq)' => AsleepOn(v, CondSeq),
         t \notin inwait => p \notin {"cinc", "cwait", "cdec"},
         t \in inwait =>
           \/ pc[t] \in {"uadd", "ustore"} /\ p \in {"ustore", "uwake", "cwait"}
           \/ pc[t] = "uwake" /\ p = "cwait"
           \/ pc[t] = "cwait" /\ p = "cdec"
           \/ pc[t] \in {"lock", "mark", "wait"} /\ p \in {"mark", "wait", "own"}
  PROVE  CInv'
<1>1. pc'[t] = p /\ \A v \in Thread : v # t => pc'[v] = pc[v] BY DEF Goto, MInv, Types
<1>2. CTypes /\ Places /\ Seqs /\ Counted /\ BroadcastReachesAll BY DEF CInv
<1>3. CTypes' BY <1>2 DEF CTypes
<1>4. Places' BY <1>1, <1>2 DEF Places
<1>5. Seqs'
  <2>1. \A v \in Thread : Get(v, CondSeq)' = Get(v, CondSeq) BY DEF Get
  <2> QED BY <1>1, <1>2, <2>1 DEF Seqs, Places
<1>6. Counted' BY <1>1, <1>2, <1>3, CountKept DEF CTypes, Unlocking, Places
<1>7. BroadcastReachesAll' BY <1>1, <1>2, BroadcastKept
<1> QED BY <1>3, <1>4, <1>5, <1>6, <1>7 DEF CInv

\* Nobody moves.
LEMMA CStill ==
  ASSUME CInv, UNCHANGED <<pc, inwait, owed, waiters, saved>>,
         \A v \in Thread : word'[space[v]][CondSeq] = Get(v, CondSeq), ~Drowsy(CondSeq)
  PROVE  CInv'
<1>1. CTypes /\ Places /\ Seqs /\ Counted /\ BroadcastReachesAll BY DEF CInv
<1>2. CTypes' /\ Places' BY <1>1 DEF CTypes, Places
<1>3. Seqs'
  <2>1. \A v \in Thread : Get(v, CondSeq)' = Get(v, CondSeq) BY DEF Get
  <2> QED BY <1>1, <2>1 DEF Seqs
<1>4. Counted' BY <1>1, CountKept DEF CTypes
<1>5. BroadcastReachesAll'
  <2>1. \A v \in owed : AsleepOn(v, CondSeq)' => AsleepOn(v, CondSeq)
    BY <1>1 DEF Drowsy, CTypes
  <2> QED BY <1>1, <2>1, BroadcastKept
<1> QED BY <1>2, <1>3, <1>4, <1>5 DEF CInv

\* A word that is not cond->seq.
LEMMA SeqStays ==
  ASSUME MInv, NEW t \in Thread, NEW a \in Addr \ {CondSeq}, NEW x, Put(t, a, x)
  PROVE  \A v \in Thread : word'[space[v]][CondSeq] = Get(v, CondSeq)
BY FutexAssumption, PthreadAssumption DEF MInv, Types, Put, Get

\* The steps that leave the condition variable alone.
LEMMA CAlone ==
  ASSUME MInv, RInv, KInv, CInv, NEW t \in Thread,
         \/ LockCas(t) \/ LockMark(t) \/ LockWait(t) \/ pthread_mutex_trylock(t)
         \/ UnlockAdd(t) \/ UnlockStore(t) \/ UnlockWake(t)
         \/ Relock(t) \/ LockCall(t) \/ UnlockCall(t) \/ SignalCall(t)
         \/ CreateCall(t) \/ pthread_detach(t) \/ DetachReap(t) \/ CondSleep(t)
         \/ Clone(t) \/ CreateReturn(t) \/ JoinCall(t) \/ JoinTest(t) \/ JoinWait(t) \/ ExitClear(t)
  PROVE  CInv'
<1> USE PthreadAssumption, FutexAssumption
<1>0. /\ saved \in [Thread -> Nat] /\ target[t] \in Thread /\ Places /\ CTypes
      /\ inwait \subseteq Thread /\ owed \subseteq Thread /\ word \in [Space -> [Addr -> Nat]]
  BY DEF CInv, CTypes, RInv, MInv, Types
<1> DEFINE Moves(p) ==
             \/ t \notin inwait /\ p \notin {"cinc", "cwait", "cdec"}
             \/ t \in inwait /\ \/ pc[t] \in {"uadd", "ustore"} /\ p \in {"ustore", "uwake", "cwait"}
                                \/ pc[t] = "uwake" /\ p = "cwait"
                                \/ pc[t] \in {"lock", "mark", "wait"} /\ p \in {"mark", "wait", "own"}
<1>1. ASSUME NEW p, Goto(t, p), pc[t] # "bwake", Moves(p),
             UNCHANGED <<inwait, owed, waiters, saved, word>>, ~Drowsy(CondSeq)
      PROVE  CInv'
  <2>1. \A v \in owed : AsleepOn(v, CondSeq)' => AsleepOn(v, CondSeq) BY <1>0, <1>1 DEF Drowsy
  <2>2. \A v \in Thread : word'[space[v]][CondSeq] = Get(v, CondSeq) BY <1>1 DEF Get
  <2> QED BY <1>0, <1>1, <2>1, <2>2, CMove
<1>2. ASSUME NEW p, Goto(t, p), pc[t] # "bwake", Moves(p), NEW a \in Addr \ {CondSeq}, NEW x,
             Put(t, a, x), UNCHANGED <<inwait, owed, waiters, saved, kernelVars>>
      PROVE  CInv'
  <2>1. \A v \in owed : AsleepOn(v, CondSeq)' => AsleepOn(v, CondSeq)
    BY <1>2 DEF AsleepOn, kernelVars
  <2>2. \A v \in Thread : word'[space[v]][CondSeq] = Get(v, CondSeq) BY <1>2, SeqStays
  <2> QED BY <1>0, <1>2, <2>1, <2>2, CMove
<1>3. ASSUME NEW a \in Addr, NEW n, futex_wake(a, n, Bits) PROVE UNCHANGED word /\ ~Drowsy(CondSeq)
  BY <1>3, NobodyDrowsy DEF futex_wake, Release
<1>4. ASSUME NEW a \in Addr \ {CondSeq}, NEW timeout, AddWaiter(t, a, Bits, timeout)
      PROVE  UNCHANGED word /\ ~Drowsy(CondSeq)
  BY <1>4, OnlyCaller DEF AddWaiter, Drowsy
<1>5. UNCHANGED kernelVars => ~Drowsy(CondSeq) BY NobodyDrowsy
<1>6. Lock \in Addr \ {CondSeq} /\ t \in Addr \ {CondSeq} /\ target[t] \in Addr \ {CondSeq}
  BY <1>0
<1>7. pc[t] \in {"user", "create", "join", "jwait", "reap", "ewake"} => t \notin inwait
  BY <1>0 DEF Places
<1>8. CASE LockCas(t)
  <2>1. pc[t] = "lock" /\ UNCHANGED <<inwait, owed, waiters, saved, kernelVars>>
    BY <1>8 DEF LockCas, Here
  <2>2. CASE Get(t, Lock) = 0 BY <1>2, <1>6, <1>8, <2>1, <2>2 DEF LockCas, Acquire
  <2>3. CASE Get(t, Lock) # 0 BY <1>1, <1>5, <1>8, <2>1, <2>3 DEF LockCas
  <2> QED BY <2>2, <2>3
<1>9. CASE LockMark(t) BY <1>2, <1>6, <1>9 DEF LockMark, Acquire, Here
<1>10. CASE pthread_mutex_trylock(t)
  BY <1>2, <1>6, <1>7, <1>10 DEF pthread_mutex_trylock, Acquire, Here
<1>11. CASE UnlockAdd(t) \/ UnlockStore(t)
  BY <1>2, <1>6, <1>11 DEF UnlockAdd, UnlockStore, Unlocked, Here
<1>12. CASE UnlockWake(t)
  <2>1. pc[t] = "uwake" /\ UNCHANGED <<inwait, owed, waiters, saved>> /\ Goto(t, Unlocked(t))
        /\ futex_wake(Lock, 1, Bits)
    BY <1>12 DEF UnlockWake, Here
  <2>2. UNCHANGED word /\ ~Drowsy(CondSeq) BY <1>3, <1>6, <2>1
  <2> QED BY <1>1, <2>1, <2>2 DEF Unlocked
<1>13. CASE LockWait(t)
  <2>1. pc[t] = "wait" /\ UNCHANGED <<inwait, owed, waiters, saved>> /\ Goto(t, "mark")
    BY <1>13 DEF LockWait, Here
  <2>2. CASE \E timeout : AddWaiter(t, Lock, Bits, timeout) BY <1>1, <1>4, <1>6, <2>1, <2>2
  <2>3. CASE UNCHANGED futexVars BY <1>1, <1>5, <2>1, <2>3 DEF futexVars
  <2> QED BY <1>13, <2>2, <2>3 DEF LockWait
<1>14. CASE CondSleep(t)
  <2>1. pc[t] = "cwait" /\ UNCHANGED <<inwait, owed, waiters, saved>> /\ Goto(t, "cdec")
        /\ t \in inwait
    BY <1>0, <1>14 DEF CondSleep, Here, Places
  <2>2. UNCHANGED word /\ \A v \in owed : AsleepOn(v, CondSeq)' => AsleepOn(v, CondSeq)
    <3>1. CASE UNCHANGED futexVars BY <3>1 DEF futexVars, kernelVars, AsleepOn
    <3>2. ASSUME NEW timeout, MayWait(t, CondSeq, saved[t]), AddWaiter(t, CondSeq, Bits, timeout)
          PROVE  UNCHANGED word /\ \A v \in owed : AsleepOn(v, CondSeq)' => AsleepOn(v, CondSeq)
      <4>1. saved[t] \in Nat /\ Get(t, CondSeq) = saved[t] BY <1>0, <3>2 DEF MayWait, Get
      <4>2. t \notin owed BY <2>1, <4>1 DEF CInv, Seqs
      <4>3. ASSUME NEW v \in owed, AsleepOn(v, CondSeq)' PROVE AsleepOn(v, CondSeq)
        <5>1. v \in Thread /\ v # t /\ CondSeq \in Addr BY <1>0, <4>2
        <5> QED BY <3>2, <4>3, <5>1, OnlyCaller
      <4> QED BY <3>2, <4>3 DEF AddWaiter
    <3> QED BY <1>14, <3>1, <3>2 DEF CondSleep
  <2>3. \A v \in Thread : word'[space[v]][CondSeq] = Get(v, CondSeq) BY <2>2 DEF Get
  <2> QED BY <1>0, <2>1, <2>2, <2>3, CMove
<1>15. CASE Relock(t)
  BY <1>5, <1>15, CStill DEF Relock, futexVars, Get
<1>16. CASE UnlockCall(t) \/ pthread_detach(t)
  <2>1. pc[t] = "user" /\ UNCHANGED <<inwait, owed, waiters, saved, word, kernelVars>>
    BY <1>16 DEF UnlockCall, pthread_detach, Here, futexVars
  <2>2. CASE UNCHANGED pc BY <1>5, <2>1, <2>2, CStill DEF Get
  <2>3. CASE \E p \in {"uadd", "reap"} : Goto(t, p) BY <1>1, <1>5, <1>7, <2>1, <2>3
  <2> QED BY <1>16, <2>2, <2>3 DEF UnlockCall, pthread_detach
<1>17. CASE LockCall(t) \/ SignalCall(t) \/ CreateCall(t) \/ DetachReap(t) \/ CreateReturn(t)
              \/ JoinCall(t)
  <2>1. /\ UNCHANGED <<inwait, owed, waiters, saved, word, kernelVars>>
        /\ pc[t] \in {"user", "create", "reap"}
        /\ \E p \in {"lock", "sadd", "badd", "create", "user", "join"} : Goto(t, p)
    BY <1>17 DEF LockCall, SignalCall, CreateCall, DetachReap, CreateReturn, JoinCall, Here, futexVars
  <2> QED BY <1>1, <1>5, <1>7, <2>1
<1>18. CASE JoinTest(t)
  <2>1. /\ UNCHANGED <<inwait, owed, waiters, word, kernelVars>> /\ pc[t] = "join"
        /\ saved' = [saved EXCEPT ![t] = Get(t, target[t])]
        /\ \E p \in {"user", "jwait"} : Goto(t, p)
    BY <1>18 DEF JoinTest, Here, futexVars
  <2>2. t \notin inwait /\ Get(t, target[t]) \in Nat BY <1>0, <1>7, <2>1 DEF Get
  <2>3. saved' \in [Thread -> Nat] /\ \A v \in inwait : saved'[v] = saved[v]
    BY <1>0, <2>1, <2>2
  <2>4. \A v \in Thread : word'[space[v]][CondSeq] = Get(v, CondSeq) BY <2>1 DEF Get
  <2>5. \A v \in owed : AsleepOn(v, CondSeq)' => AsleepOn(v, CondSeq)
    BY <2>1 DEF AsleepOn, kernelVars
  <2> QED BY <2>1, <2>2, <2>3, <2>4, <2>5, CMove
<1>19. CASE JoinWait(t)
  <2>1. pc[t] = "jwait" /\ UNCHANGED <<inwait, owed, waiters, saved>> /\ Goto(t, "join")
    BY <1>19 DEF JoinWait, Here
  <2>2. CASE \E timeout : AddWaiter(t, target[t], Bits, timeout)
    BY <1>1, <1>4, <1>6, <1>7, <2>1, <2>2
  <2>3. CASE UNCHANGED futexVars BY <1>1, <1>5, <1>7, <2>1, <2>3 DEF futexVars
  <2> QED BY <1>19, <2>2, <2>3 DEF JoinWait
<1>20. CASE ExitClear(t)
  <2>1. UNCHANGED <<inwait, owed, waiters, saved>> BY <1>20 DEF ExitClear
  <2>2. CASE Here(t, "user") /\ Put(t, t, 0) /\ Goto(t, "ewake") /\ UNCHANGED kernelVars
    BY <1>2, <1>6, <1>7, <2>1, <2>2 DEF Here
  <2>3. CASE Here(t, "ewake") /\ futex_wake(t, 1, Bits) /\ Goto(t, "gone")
    <3>1. UNCHANGED word /\ ~Drowsy(CondSeq) BY <1>3, <1>6, <2>3
    <3> QED BY <1>1, <1>7, <2>1, <2>3, <3>1 DEF Here
  <2> QED BY <1>20, <2>2, <2>3 DEF ExitClear
<1>21. CASE Clone(t)
  <2>1. PICK u \in Thread : pc[u] = "unborn" /\ Put(t, u, 1) /\ Goto(u, "user")
    BY <1>21 DEF Clone, Here
  <2>2. UNCHANGED <<inwait, owed, waiters, saved, kernelVars>> /\ u \notin inwait
    BY <1>0, <1>21, <2>1 DEF Clone, Places
  <2>3. \A v \in owed : AsleepOn(v, CondSeq)' => AsleepOn(v, CondSeq)
    BY <2>2 DEF AsleepOn, kernelVars
  <2>4. \A v \in Thread : word'[space[v]][CondSeq] = Get(v, CondSeq)
    <3>1. u \in Addr \ {CondSeq} OBVIOUS
    <3> QED BY <2>1, <3>1, SeqStays
  <2> QED BY <1>0, <2>1, <2>2, <2>3, <2>4, CMove
<1> QED BY <1>8, <1>9, <1>10, <1>11, <1>12, <1>13, <1>14, <1>15, <1>16, <1>17, <1>18, <1>19,
           <1>20, <1>21

\* Threads that wait are finitely many.
LEMMA WaitingFinite ==
  ASSUME CTypes, NEW s PROVE IsFiniteSet(Waiting(s)) /\ Cardinality(Waiting(s)) \in Nat
<1>1. Waiting(s) \in SUBSET Thread BY DEF Waiting, CTypes
<1>2. IsFiniteSet(Thread) BY FutexAssumption
<1>3. IsFiniteSet(Waiting(s)) BY <1>1, <1>2, FS_Subset
<1> QED BY <1>3, FS_CardinalityType

\* The steps of pthread_cond_wait, signal and broadcast.
LEMMA CondStep ==
  ASSUME MInv, RInv, KInv, CInv, NEW t \in Thread,
         LockOwn(t) \/ CondCall(t) \/ CondInc(t) \/ CondDec(t) \/ SignalAdd(t) \/ SignalWake(t)
  PROVE  CInv'
<1> USE PthreadAssumption, FutexAssumption
<1>0. /\ saved \in [Thread -> Nat] /\ pc \in [Thread -> PCs] /\ waiters \in [Space -> Int]
      /\ inwait \subseteq Thread /\ owed \subseteq Thread /\ word \in [Space -> [Addr -> Nat]]
      /\ space[t] \in Space /\ Get(t, CondSeq) \in Nat
  BY DEF CInv, CTypes, MInv, Types, Get
<1>1. CTypes /\ Places /\ Seqs /\ Counted /\ BroadcastReachesAll BY DEF CInv
<1>2. ASSUME UNCHANGED kernelVars
      PROVE  \A v \in Thread : AsleepOn(v, CondSeq)' => AsleepOn(v, CondSeq)
  BY <1>2 DEF AsleepOn, kernelVars
<1>3. ASSUME UNCHANGED word PROVE \A v \in Thread : Get(v, CondSeq)' = Get(v, CondSeq)
  BY <1>3 DEF Get
<1>4. CASE LockOwn(t)
  <2>1. /\ pc[t] = "own" /\ pc' = [pc EXCEPT ![t] = "user"] /\ inwait' = inwait \ {t}
        /\ UNCHANGED <<word, kernelVars, owed, waiters, saved>>
    BY <1>4 DEF LockOwn, Here, Goto, futexVars
  <2>2. pc'[t] = "user" /\ \A v \in Thread : v # t => pc'[v] = pc[v] BY <1>0, <2>1
  <2>3. CTypes' BY <1>1, <2>1 DEF CTypes
  <2>4. Places' BY <1>1, <2>1, <2>2 DEF Places
  <2>5. Seqs' BY <1>1, <1>3, <2>1, <2>2 DEF Seqs
  <2>6. Counted' BY <1>1, <2>1, <2>2, <2>3, CountKept DEF CTypes, Unlocking
  <2>7. BroadcastReachesAll' BY <1>0, <1>1, <1>2, <2>1, <2>2, BroadcastKept
  <2> QED BY <2>3, <2>4, <2>5, <2>6, <2>7 DEF CInv
<1>5. CASE CondCall(t)
  <2>1. /\ pc[t] = "user" /\ pc' = [pc EXCEPT ![t] = "cinc"] /\ inwait' = inwait \cup {t}
        /\ saved' = [saved EXCEPT ![t] = Get(t, CondSeq)]
        /\ UNCHANGED <<word, kernelVars, owed, waiters>>
    BY <1>5 DEF CondCall, Here, Goto, futexVars
  <2>2. pc'[t] = "cinc" /\ \A v \in Thread : v # t => pc'[v] = pc[v] BY <1>0, <2>1
  <2>3. saved'[t] = Get(t, CondSeq) /\ \A v \in Thread : v # t => saved'[v] = saved[v]
    BY <1>0, <2>1
  <2>4. CTypes' BY <1>0, <1>1, <2>1 DEF CTypes
  <2>5. Places' BY <1>1, <2>1, <2>2 DEF Places
  <2>6. Seqs' BY <1>0, <1>1, <1>3, <2>1, <2>2, <2>3 DEF Seqs
  <2>7. Counted' BY <1>1, <2>1, <2>2, <2>4, CountKept DEF CTypes, Unlocking, Places
  <2>8. BroadcastReachesAll' BY <1>0, <1>1, <1>2, <2>1, <2>2, BroadcastKept
  <2> QED BY <2>4, <2>5, <2>6, <2>7, <2>8 DEF CInv
<1>6. CASE CondInc(t)
  <2>1. /\ pc[t] = "cinc" /\ pc' = [pc EXCEPT ![t] = "uadd"]
        /\ waiters' = [waiters EXCEPT ![space[t]] = @ + 1]
        /\ UNCHANGED <<word, kernelVars, owed, inwait, saved>>
    BY <1>6 DEF CondInc, Here, Goto, futexVars
  <2>2. pc'[t] = "uadd" /\ \A v \in Thread : v # t => pc'[v] = pc[v] BY <1>0, <2>1
  <2>3. CTypes' BY <1>0, <1>1, <2>1 DEF CTypes
  <2>4. Places' BY <1>1, <2>1, <2>2 DEF Places
  <2>5. Seqs' BY <1>1, <1>3, <2>1, <2>2 DEF Seqs
  <2>6. ASSUME NEW s \in Space PROVE waiters'[s] = Cardinality(Waiting(s)')
    <3>1. waiters[s] = Cardinality(Waiting(s)) BY <1>1 DEF Counted
    <3>2. CASE s = space[t]
      <4>1. t \in inwait /\ t \notin Waiting(s) BY <1>1, <2>1 DEF Places, Waiting
      <4>2. Waiting(s)' = Waiting(s) \cup {t} BY <1>0, <2>1, <2>2, <3>2, <4>1 DEF Waiting
      <4>3. Cardinality(Waiting(s) \cup {t}) = Cardinality(Waiting(s)) + 1
        BY <1>1, <4>1, WaitingFinite, FS_AddElement
      <4> QED BY <1>0, <2>1, <3>1, <3>2, <4>2, <4>3
    <3>3. CASE s # space[t]
      <4>1. Waiting(s)' = Waiting(s) BY <1>0, <2>1, <2>2, <3>3 DEF Waiting
      <4> QED BY <1>0, <2>1, <3>1, <3>3, <4>1
    <3> QED BY <3>2, <3>3
  <2>7. Counted' BY <2>6 DEF Counted
  <2>8. BroadcastReachesAll' BY <1>0, <1>1, <1>2, <2>1, <2>2, BroadcastKept
  <2> QED BY <2>3, <2>4, <2>5, <2>7, <2>8 DEF CInv
<1>7. CASE CondDec(t)
  <2>1. /\ pc[t] = "cdec" /\ pc' = [pc EXCEPT ![t] = "lock"]
        /\ waiters' = [waiters EXCEPT ![space[t]] = @ - 1]
        /\ saved' = [saved EXCEPT ![t] = 0] /\ owed' = owed \ {t}
        /\ UNCHANGED <<word, kernelVars, inwait>>
    BY <1>7 DEF CondDec, Here, Goto, futexVars
  <2>2. pc'[t] = "lock" /\ \A v \in Thread : v # t => pc'[v] = pc[v] BY <1>0, <2>1
  <2>3. \A v \in Thread : v # t => saved'[v] = saved[v] BY <1>0, <2>1
  <2>4. CTypes' BY <1>0, <1>1, <2>1 DEF CTypes
  <2>5. Places' BY <1>1, <2>1, <2>2 DEF Places
  <2>6. Seqs' BY <1>1, <1>3, <2>1, <2>2, <2>3 DEF Seqs
  <2>7. ASSUME NEW s \in Space PROVE waiters'[s] = Cardinality(Waiting(s)')
    <3>1. waiters[s] = Cardinality(Waiting(s)) BY <1>1 DEF Counted
    <3>2. CASE s = space[t]
      <4>1. t \in Waiting(s) BY <1>1, <2>1, <3>2 DEF Places, Waiting
      <4>2. Waiting(s)' = Waiting(s) \ {t} BY <1>0, <2>1, <2>2 DEF Waiting
      <4>3. Cardinality(Waiting(s) \ {t}) = Cardinality(Waiting(s)) - 1
        BY <1>1, <4>1, WaitingFinite, FS_RemoveElement
      <4> QED BY <1>0, <2>1, <3>1, <3>2, <4>2, <4>3
    <3>3. CASE s # space[t]
      <4>1. Waiting(s)' = Waiting(s) BY <1>0, <2>1, <2>2, <3>3 DEF Waiting
      <4> QED BY <1>0, <2>1, <3>1, <3>3, <4>1
    <3> QED BY <3>2, <3>3
  <2>8. Counted' BY <2>7 DEF Counted
  <2>9. BroadcastReachesAll' BY <1>0, <1>1, <1>2, <2>1, <2>2, BroadcastKept
  <2> QED BY <2>4, <2>5, <2>6, <2>8, <2>9 DEF CInv
<1>8. CASE SignalAdd(t)
  <2> DEFINE next == IF pc[t] = "sadd" THEN "swake" ELSE "bwake"
  <2>1. /\ pc[t] \in {"sadd", "badd"} /\ pc' = [pc EXCEPT ![t] = next]
        /\ Put(t, CondSeq, Get(t, CondSeq) + 1)
        /\ owed' = (IF pc[t] = "sadd" THEN owed ELSE owed \cup Blocked(space[t]))
        /\ UNCHANGED <<kernelVars, inwait, waiters, saved>>
    BY <1>8 DEF SignalAdd, Here, Goto
  <2>2. pc'[t] = next /\ \A v \in Thread : v # t => pc'[v] = pc[v] BY <1>0, <2>1
  <2>3. \A v \in Thread : Get(v, CondSeq)' = IF space[v] = space[t] THEN Get(v, CondSeq) + 1
                                             ELSE Get(v, CondSeq)
    BY <1>0, <2>1 DEF Put, Get
  <2>4. \A v \in Thread : Get(v, CondSeq) \in Nat /\ saved[v] \in Nat BY <1>0 DEF Get
  <2>5. \A v \in owed' : v \in owed \/ (v \in Blocked(space[t]) /\ pc[t] = "badd") BY <2>1
  <2>6. \A v \in Blocked(space[t]) : /\ v \in inwait /\ space[v] = space[t]
                                     /\ pc[v] \in {"uwake", "cwait", "cdec"}
    BY DEF Blocked
  <2>7. CTypes' BY <1>0, <1>1, <2>1, <2>5, <2>6 DEF CTypes
  <2>8. Places' BY <1>1, <2>1, <2>2, <2>5, <2>6 DEF Places
  <2>9. Seqs'
    <3>1. \A v \in Thread : v \in inwait /\ pc[v] \in {"cinc", "uadd", "ustore", "uwake", "cwait"}
            => saved[v] <= Get(v, CondSeq)'
      BY <1>1, <2>3, <2>4 DEF Seqs
    <3>2. ASSUME NEW v \in Thread, v \in owed', pc[v] \in {"uwake", "cwait"}
          PROVE  saved[v] < Get(v, CondSeq)'
      <4>1. CASE v \in owed
        <5>1. saved[v] < Get(v, CondSeq) BY <1>1, <3>2, <4>1 DEF Seqs
        <5> QED BY <2>3, <2>4, <5>1
      <4>2. CASE v \in Blocked(space[t])
        <5>1. saved[v] <= Get(v, CondSeq) BY <1>1, <2>6, <3>2, <4>2 DEF Seqs
        <5> QED BY <2>3, <2>4, <2>6, <4>2, <5>1
      <4> QED BY <2>5, <3>2, <4>1, <4>2
    <3> QED BY <2>1, <2>2, <3>1, <3>2 DEF Seqs
  <2>10. Counted' BY <1>1, <2>1, <2>2, <2>7, CountKept DEF CTypes, Unlocking, Places
  <2>11. ASSUME NEW v \in owed', AsleepOn(v, CondSeq)' PROVE \E u \in Peers(v) : pc'[u] = "bwake"
    <3>1. AsleepOn(v, CondSeq) BY <2>1, <2>11 DEF AsleepOn, kernelVars
    <3>2. CASE v \in owed
      <4>1. PICK u \in Peers(v) : pc[u] = "bwake" BY <1>1, <3>1, <3>2 DEF BroadcastReachesAll
      <4> QED BY <2>1, <2>2, <4>1 DEF Peers
    <3>3. CASE v \in Blocked(space[t]) /\ pc[t] = "badd"
      BY <2>2, <2>6, <3>3 DEF Peers
    <3> QED BY <2>5, <3>2, <3>3
  <2>12. BroadcastReachesAll' BY <2>11 DEF BroadcastReachesAll, Peers
  <2> QED BY <2>7, <2>8, <2>9, <2>10, <2>12 DEF CInv
<1>9. CASE SignalWake(t)
  <2>1. /\ pc[t] \in {"swake", "bwake"} /\ Goto(t, "user")
        /\ UNCHANGED <<inwait, owed, waiters, saved>>
    BY <1>9 DEF SignalWake, Here
  <2>2. CASE pc[t] = "swake"
    <3>1. futex_wake(CondSeq, 1, Bits) /\ CondSeq \in Addr BY <1>9, <2>2 DEF SignalWake, Here
    <3>2. UNCHANGED word BY <3>1 DEF futex_wake, Release
    <3>3. ~Drowsy(CondSeq) BY <3>1, NobodyDrowsy
    <3>4. \A v \in owed : AsleepOn(v, CondSeq)' => AsleepOn(v, CondSeq) BY <1>0, <3>3 DEF Drowsy
    <3>5. \A v \in Thread : word'[space[v]][CondSeq] = Get(v, CondSeq) BY <3>2 DEF Get
    <3>6. t \notin inwait BY <1>1, <2>2 DEF Places
    <3> QED BY <1>0, <2>1, <2>2, <3>4, <3>5, <3>6, CMove
  <2>3. CASE pc[t] = "bwake"
    <3>1. futex_wake(CondSeq, Cardinality(Thread), Bits) /\ CondSeq \in Addr
      BY <1>9, <2>3 DEF SignalWake, Here
    <3>2. Cardinality(Thread) \in Nat \ {0} BY FS_CardinalityType, FS_EmptySet
    <3>3. PICK S \in SUBSET At(CondSeq) : Release(S, FALSE) /\ S = At(CondSeq)
      BY <3>1, <3>2, WakeTakes
    <3>4. \A v \in Thread : ~AsleepOn(v, CondSeq)'
      <4> SUFFICES ASSUME NEW v \in Thread, AsleepOn(v, CondSeq)' PROVE FALSE OBVIOUS
      <4>1. AsleepOn(v, CondSeq) /\ v \notin S BY <3>3 DEF Release, AsleepOn
      <4> QED BY <3>1, <3>3, <4>1, AsleepIsAt
    <3>5. UNCHANGED word BY <3>3 DEF Release
    <3>6. pc'[t] = "user" /\ \A v \in Thread : v # t => pc'[v] = pc[v] BY <1>0, <2>1 DEF Goto
    <3>7. t \notin inwait /\ t \notin owed BY <1>1, <2>3 DEF Places
    <3>8. CTypes' BY <1>1, <2>1 DEF CTypes
    <3>9. Places' BY <1>1, <2>1, <3>6, <3>7 DEF Places
    <3>10. Seqs' BY <1>1, <1>3, <2>1, <3>5, <3>6, <3>7 DEF Seqs
    <3>11. Counted' BY <1>1, <2>1, <3>6, <3>7, <3>8, CountKept DEF CTypes, Unlocking
    <3>12. BroadcastReachesAll' BY <1>0, <2>1, <3>4 DEF BroadcastReachesAll
    <3> QED BY <3>8, <3>9, <3>10, <3>11, <3>12 DEF CInv
  <2> QED BY <2>1, <2>2, <2>3
<1> QED BY <1>4, <1>5, <1>6, <1>7, <1>8, <1>9

-----------------------------------------------------------------------------
(* The theorems *)

\* The whole inductive invariant, apart from NoStuckLock.
PInv == MInv /\ RInv /\ KInv /\ CInv /\ JInv

\* Nobody waits, joins or sleeps at first.
LEMMA PInitInv == PthreadInit => PInv /\ NoStuckLock
<1> SUFFICES ASSUME PthreadInit PROVE PInv /\ NoStuckLock OBVIOUS
<1> USE PthreadAssumption, FutexAssumption
<1>1. MInv /\ RInv BY MInitInv, RInitInv
<1>2. \A t \in Thread : linked[t] = NoBucket BY DEF PthreadInit, KernelInit
<1>3. FInv
  BY DEF PthreadInit, KernelInit, FInv, FutexTypeOK, LinkedSound, NoLostWakeup,
     LoopSound, Cleared, Waiters, Stages
<1>4. Sleepers BY <1>2 DEF Sleepers
<1>5. CTypes /\ inwait = {} /\ owed = {} BY DEF PthreadInit, CTypes
<1>6. \A t \in Thread : pc[t] \in {"user", "unborn"} /\ target[t] = t BY DEF PthreadInit
<1>7. Places /\ Seqs /\ BroadcastReachesAll
  BY <1>5, <1>6 DEF Places, Seqs, BroadcastReachesAll
<1>8. Counted
  <2>1. \A s \in Space : Waiting(s) = {} BY <1>5 DEF Waiting
  <2> QED BY <2>1, FS_EmptySet DEF Counted, PthreadInit
<1>9. JInv /\ NoStuckLock BY <1>2, <1>6 DEF JInv, Joins, NoLostJoin, NoStuckLock, AsleepOn
<1> QED BY <1>1, <1>3, <1>4, <1>5, <1>7, <1>8, <1>9 DEF PInv, KInv, CInv

\* A step of the kernel or none, after which user code is where it was.
LEMMA PStill ==
  ASSUME PInv, MInv', RInv', Kernel \/ UNCHANGED pthreadVars
  PROVE  PInv' /\ (NoStuckLock => NoStuckLock')
<1>1. UNCHANGED <<userVars, word>>
  BY DEF Kernel, futex_tick, Release, FutexKernel, Park, Return, Nudge, Expire, pthreadVars, futexVars
<1>2. UNCHANGED <<pc, saved, target, inwait, owed, waiters>> BY <1>1 DEF userVars
<1>3. \A a : ~Drowsy(a)
  BY NobodyDrowsy DEF PInv, pthreadVars, futexVars
<1>4. KInv'
  <2>1. CASE Kernel BY <2>1, KKernelKeeps DEF PInv
  <2>2. CASE UNCHANGED pthreadVars
    <3>1. UNCHANGED kernelVars BY <2>2 DEF pthreadVars, futexVars
    <3>2. FInv' BY <1>1, <3>1 DEF PInv, KInv, FInv, kernelVars, FutexTypeOK, LinkedSound,
                  NoLostWakeup, LoopSound
    <3>3. Sleepers' BY <1>2, <3>1, FewerSleepers DEF PInv, KInv, kernelVars
    <3> QED BY <3>2, <3>3 DEF KInv
  <2> QED BY <2>1, <2>2
<1>5. CInv' BY <1>1, <1>2, <1>3, CStill DEF PInv, Get
<1>6. JInv' BY <1>1, <1>2, <1>3, JStill DEF PInv
<1>7. NoStuckLock => NoStuckLock' BY <1>1, <1>2, <1>3, LockKept DEF Get
<1> QED BY <1>4, <1>5, <1>6, <1>7 DEF PInv

\* Every step keeps the invariant.
LEMMA PNextInv == PInv /\ [PthreadNext]_pthreadVars => PInv'
<1> SUFFICES ASSUME PInv, [PthreadNext]_pthreadVars PROVE PInv' OBVIOUS
<1>0. MInv /\ RInv /\ KInv /\ CInv /\ JInv /\ CTypes BY DEF PInv, CInv
<1>1. MInv' BY <1>0, MNextInv
<1>2. RInv' BY <1>0, RNextInv
<1>3. word' \in [Space -> [Addr -> Nat]] BY <1>1 DEF MInv, Types
<1>4. CASE Kernel \/ UNCHANGED pthreadVars BY <1>1, <1>2, <1>4, PStill
<1>5. ASSUME NEW t \in Thread, Run(t) PROVE PInv'
  <2>1. KInv' BY <1>0, <1>3, <1>5, RunIsUserStep, KUserKeeps
  <2>2. CInv' BY <1>0, <1>5, CAlone, CondStep DEF Run
  <2>3. JInv' BY <1>0, <1>5, JAlone, JSteps DEF Run
  <2> QED BY <1>1, <1>2, <2>1, <2>2, <2>3 DEF PInv
<1>6. ASSUME NEW t \in Thread, Call(t) PROVE PInv'
  <2>1. KInv' BY <1>0, <1>3, <1>6, CallIsUserStep, KUserKeeps
  <2>2. CInv' BY <1>0, <1>6, CAlone, CondStep DEF Call
  <2>3. JInv' BY <1>0, <1>6, JAlone, JSteps DEF Call
  <2> QED BY <1>1, <1>2, <2>1, <2>2, <2>3 DEF PInv
<1> QED BY <1>4, <1>5, <1>6 DEF PthreadNext

\* The invariant holds in every reachable state.
LEMMA PInvHolds == PthreadSpec => []PInv
<1>1. PthreadInit => PInv BY PInitInv
<1> QED BY <1>1, PNextInv, PTL DEF PthreadSpec

\* The mutex, the condition variable, the records and the kernel's waiters keep
\* their types: cond->waiters is decremented only by a thread it counts, so it
\* never drops below 0, and a broadcast owes nothing to a thread that has left.
THEOREM PthreadTypes == PthreadSpec => []PthreadTypeOK
<1>1. PInv => PthreadTypeOK
  <2> SUFFICES ASSUME PInv PROVE PthreadTypeOK OBVIOUS
  <2>1. MInv /\ RInv /\ KInv /\ CTypes /\ Places /\ Counted BY DEF PInv, CInv
  <2>2. FutexTypeOK BY <2>1 DEF KInv, FInv
  <2>3. waiters \in [Space -> Nat] BY <2>1, WaitingFinite DEF CTypes, Counted
  <2>4. owed \subseteq inwait BY <2>1 DEF CTypes, Places
  <2> QED BY <2>1, <2>2, <2>3, <2>4 DEF PthreadTypeOK, MInv, Types, RInv, CTypes
<1> QED BY <1>1, PInvHolds, PTL

\* A broadcast of pthread_cond_broadcast leaves no thread asleep that had
\* released the mutex when it began, in any number of processes: one that was
\* asleep is woken, one on its way to futex_wait finds that seq has moved.
THEOREM PthreadBroadcasts == PthreadSpec => []BroadcastReachesAll
<1>1. PInv => BroadcastReachesAll BY DEF PInv, CInv
<1> QED BY <1>1, PInvHolds, PTL

\* The exit of a thread is not missed by the one that joins it: nobody sleeps on
\* a cleared tid word, apart from the moment before futex_wake_addr, whose single
\* wakeup is enough because at most one thread joins.
THEOREM PthreadJoins == PthreadSpec => []NoLostJoin
<1>1. PInv => NoLostJoin BY DEF PInv, JInv
<1> QED BY <1>1, PInvHolds, PTL

\* In one process, a thread that sleeps on the mutex is not forgotten.  With
\* several processes it can be: futex_wake looks at the virtual address alone.
THEOREM PthreadLockNotStuck ==
  ASSUME \A t, u \in Thread : space[t] = space[u] PROVE PthreadSpec => []NoStuckLock
<1>1. PInv /\ NoStuckLock /\ [PthreadNext]_pthreadVars => NoStuckLock'
  <2> SUFFICES ASSUME PInv, NoStuckLock, [PthreadNext]_pthreadVars PROVE NoStuckLock' OBVIOUS
  <2>0. MInv /\ RInv /\ KInv BY DEF PInv
  <2>1. MInv' /\ RInv' BY <2>0, MNextInv, RNextInv
  <2>2. CASE Kernel \/ UNCHANGED pthreadVars BY <2>1, <2>2, PStill
  <2>3. ASSUME NEW t \in Thread, Run(t) PROVE NoStuckLock'
    <3>1. \A u \in Thread : space[u] = space[t] OBVIOUS
    <3> QED BY <2>0, <2>3, <3>1, MutexStep, MutexAlone DEF Run
  <2>4. ASSUME NEW t \in Thread, Call(t) PROVE NoStuckLock'
    <3>1. \A u \in Thread : space[u] = space[t] OBVIOUS
    <3> QED BY <2>0, <2>4, <3>1, MutexStep, MutexAlone DEF Call
  <2> QED BY <2>2, <2>3, <2>4 DEF PthreadNext
<1>2. PthreadInit => NoStuckLock BY PInitInv
<1> QED BY <1>1, <1>2, PInvHolds, PTL DEF PthreadSpec
=============================================================================
