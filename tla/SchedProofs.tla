---------------------------- MODULE SchedProofs -----------------------------
(***************************************************************************)
(* Proofs about Sched for every set of tasks and cores and every size of   *)
(* the deferral table.  Type correctness and that no task is lost hold as  *)
(* the code is.  The other theorems assume ~IrqWakes: no interrupt handler *)
(* wakes a waiter that is still executing between __wait_prepare() and its *)
(* own sched_schedule().                                                   *)
(***************************************************************************)
EXTENDS Sched, TLAPS

\* Phases in which a core holds the lock, and in which its current task is
\* still the outgoing one, or already the incoming one.
Locked   == {"notify", "drain", "sweep", "pick", "publish"}
Outgoing == {"drain", "sweep", "pick"}
Incoming == {"publish", "switch", "release", "unpin"}

\* Core c has chosen another task but t's stack and context are still in use.
Leaving(c, t) == prev[c] = t /\ phase[c] \in {"publish", "switch", "release"}

Queued(t) == t \in rq \/ \E c \in Cpu : t \in defer[c]

LockHeld == \A c \in Cpu : phase[c] \in Locked => bkl = c

\* A task is current, or leaving, on one core at most.
Exclusive ==
  \A c, d \in Cpu, t \in Task :
    /\ cur[c] = t /\ cur[d] = t => c = d
    /\ ~(cur[c] = t /\ Leaving(d, t))
    /\ Leaving(c, t) /\ Leaving(d, t) => c = d

LeavingMarked ==
  \A c \in Cpu, t \in Task : Leaving(c, t) => on_cpu[t] = c /\ state[t] # "UNUSED"

\* What is known of the task t that core c runs, by phase.
CurMarked(c, t) ==
  /\ phase[c] = "run" =>
       /\ ~Queued(t)
       /\ \/ state[t] = "RUNNING"
          \/ state[t] = "BLOCKED" /\ bkl = c /\ pc[t] \in {"recheck", "sleep"}
  /\ phase[c] = "notify" => ~Queued(t) /\ state[t] = "ZOMBIE"
  /\ phase[c] \in Outgoing => on_cpu[t] = c /\ state[t] # "UNUSED"
  /\ phase[c] \in Incoming => ~Queued(t) /\ state[t] = "RUNNING"

AllCurMarked == \A c \in Cpu, t \in Task : cur[c] = t => CurMarked(c, t)

\* A queued or owed task is READY, and is queued or owed once.
QueuedReady == \A t \in Task : Queued(t) => state[t] = "READY"

QueuedOnce ==
  \A c \in Cpu, t \in Task :
    t \in defer[c] => t \notin rq /\ \A d \in Cpu : t \in defer[d] => d = c

DrainTodo == \A c \in Cpu : phase[c] = "drain" => todo \subseteq defer[c]

Inv ==
  /\ LockHeld /\ Exclusive /\ LeavingMarked /\ AllCurMarked
  /\ QueuedReady /\ QueuedOnce /\ DrainTodo
-----------------------------------------------------------------------------
(* Type correctness *)

\* The part of TypeOK that enqueueing touches.
QueueTypes ==
  /\ state \in [Task -> States] /\ at_enq \in [Task -> States]
  /\ rq \subseteq Task /\ defer \in [Cpu -> SUBSET Task]

\* add_to_ready_queue keeps the types of what it writes.
LEMMA EnqueueType ==
  ASSUME TypeOK, NEW t \in Task, NEW s \in States, Enqueue(t, s)
  PROVE  QueueTypes'
<1>1. state' \in [Task -> States] /\ at_enq' \in [Task -> States]
  BY DEF Enqueue, TypeOK, States
<1>2. ASSUME NEW d \in Cpu, Owe(d, t) PROVE rq' \subseteq Task /\ defer' \in [Cpu -> SUBSET Task]
  BY <1>2 DEF Owe, TypeOK
<1>3. CASE on_cpu[t] # NoCpu /\ HasRoom(on_cpu[t], t)
  BY <1>1, <1>2, <1>3 DEF Enqueue, QueueTypes, TypeOK
<1>4. CASE ~(on_cpu[t] # NoCpu /\ HasRoom(on_cpu[t], t))
  <2>1. sched_rq_push(t)
    BY <1>4 DEF Enqueue
  <2>2. CASE t \notin rq /\ pinned[t] # NoCpu /\ HasRoom(pinned[t], t)
    BY <1>1, <1>2, <2>1, <2>2 DEF sched_rq_push, sched_rq_insert, QueueTypes, TypeOK
  <2>3. CASE ~(t \notin rq /\ pinned[t] # NoCpu /\ HasRoom(pinned[t], t))
    BY <1>1, <2>1, <2>3 DEF sched_rq_push, sched_rq_insert, QueueTypes, TypeOK
  <2> QED
    BY <2>2, <2>3
<1> QED
  BY <1>3, <1>4

\* proc_wake keeps the types of what it writes.
LEMMA WakeType ==
  ASSUME TypeOK, NEW t \in Task, proc_wake(t)
  PROVE  QueueTypes'
<1>1. state[t] \in States
  BY DEF TypeOK
<1>2. CASE state[t] \in Asleep
  BY <1>1, <1>2, EnqueueType DEF proc_wake
<1>3. CASE state[t] \notin Asleep
  BY <1>3 DEF proc_wake, QueueTypes, TypeOK
<1> QED
  BY <1>2, <1>3

\* wake_up keeps the types of what it writes.
LEMMA WakeOneType ==
  ASSUME TypeOK, WakeOne
  PROVE  QueueTypes' /\ wq' \subseteq Task
<1>1. CASE wq = {}
  BY <1>1 DEF WakeOne, QueueTypes, TypeOK
<1>2. CASE wq # {}
  <2>1. PICK t \in wq : wq' = wq \ {t} /\ proc_wake(t)
    BY <1>2 DEF WakeOne
  <2>2. t \in Task
    BY DEF TypeOK
  <2> QED
    BY <2>1, <2>2, WakeType DEF TypeOK
<1> QED
  BY <1>1, <1>2

\* Entering sched_schedule keeps the types of the per-core state.
LEMMA EntryType ==
  ASSUME TypeOK, NEW c \in Cpu, ScheduleEntry(c), defer' \in [Cpu -> SUBSET Task]
  PROVE  /\ on_cpu' \in [Task -> Cpu \cup {NoCpu}]
         /\ phase' \in [Cpu -> Phases] /\ todo' \subseteq Task
         /\ bkl' \in Cpu \cup {NoCpu}
         /\ pinned' = pinned /\ cur' = cur /\ prev' = prev
<1>1. CASE cur[c] = Idle
  BY <1>1 DEF ScheduleEntry, TypeOK, Phases
<1>2. CASE cur[c] # Idle
  BY <1>2 DEF ScheduleEntry, TypeOK, Phases
<1> QED
  BY <1>1, <1>2

\* Every step of the scheduler proper keeps the types.
LEMMA ScheduleType ==
  ASSUME TypeOK, NEW c \in Cpu, Schedule(c)
  PROVE  TypeOK'
<1> USE DEF TypeOK, Phases, taskVars, waitVars
<1>1. CASE DrainOne(c)
  BY <1>1 DEF DrainOne, sched_rq_insert, States
<1>2. CASE DrainDone(c)
  BY <1>2 DEF DrainDone
<1>3. CASE SweepOne(c)
  <2>1. PICK t \in todo : \/ Enqueue(t, "READY")
                         \/ UNCHANGED <<state, at_enq, rq, defer>>
    BY <1>3 DEF SweepOne
  <2>2. QueueTypes'
    BY <2>1, EnqueueType DEF QueueTypes, States
  <2> QED
    BY <1>3, <2>2 DEF SweepOne, QueueTypes
<1>4. CASE SweepAlarm(c)
  <2>1. PICK t \in Task : proc_wake(t) /\ wq' = wq \ {t}
    BY SchedAssumption, <1>4 DEF SweepAlarm
  <2>2. QueueTypes'
    BY <2>1, WakeType
  <2> QED
    BY <1>4, <2>1, <2>2 DEF SweepAlarm, QueueTypes, coreVars
<1>5. CASE SweepDone(c)
  BY <1>5 DEF SweepDone
<1>6. CASE PickTask(c)
  BY <1>6 DEF PickTask, sched_rq_unlink, StartSwitch, States
<1>7. CASE PickIdle(c)
  BY <1>7 DEF PickIdle, StartSwitch, NothingToPop
<1>8. CASE StayIdle(c)
  BY <1>8 DEF StayIdle, NothingToPop
<1>9. CASE Publish(c)
  <2>1. QueueTypes'
    <3>1. CASE prev[c] # Idle /\ state[prev[c]] = "RUNNING"
      BY <1>9, <3>1, EnqueueType DEF Publish, States
    <3>2. CASE ~(prev[c] # Idle /\ state[prev[c]] = "RUNNING")
      BY <1>9, <3>2 DEF Publish, QueueTypes
    <3> QED
      BY <3>1, <3>2
  <2> QED
    BY <1>9, <2>1 DEF Publish, QueueTypes
<1>10. CASE SwitchStack(c)
  BY <1>10 DEF SwitchStack
<1>11. CASE ReleasePrev(c)
  BY <1>11 DEF ReleasePrev
<1>12. CASE Unpin(c)
  BY <1>12 DEF Unpin
<1> QED
  BY <1>1, <1>2, <1>3, <1>4, <1>5, <1>6, <1>7, <1>8, <1>9, <1>10, <1>11, <1>12 DEF Schedule

\* Every step of a task in the kernel keeps the types.
LEMMA KernelType ==
  ASSUME TypeOK, NEW c \in Cpu, Kernel(c)
  PROVE  TypeOK'
<1> USE DEF TypeOK, PCs, Goto
<1>1. CASE Enter(c)
  BY <1>1 DEF Enter, taskVars, waitVars
<1>2. CASE Reacquire(c)
  BY <1>2 DEF Reacquire, taskVars, waitVars
<1>3. CASE Leave(c)
  BY <1>3 DEF Leave, taskVars, waitVars
<1>4. CASE Wake(c)
  BY <1>4, WakeOneType DEF Wake, QueueTypes, coreVars
<1>5. CASE Signal(c)
  <2>1. PICK u \in Task : proc_wake(u) /\ wq' = wq \ {u}
    BY SchedAssumption, <1>5 DEF Signal
  <2>2. QueueTypes'
    BY <2>1, WakeType
  <2> QED
    BY <1>5, <2>1, <2>2 DEF Signal, QueueTypes, coreVars
<1>6. CASE proc_yield(c)
  <2>1. PICK t \in Task : Enqueue(t, "READY")
    BY <1>6 DEF proc_yield
  <2>2. QueueTypes'
    BY <2>1, EnqueueType DEF States
  <2> QED
    BY <1>6, <2>2, EntryType DEF proc_yield, QueueTypes, waitVars
<1>7. CASE proc_sleep(c)
  <2>1. QueueTypes' /\ due' \subseteq Task /\ pc' \in [Task -> PCs]
    BY <1>7 DEF proc_sleep, QueueTypes, States
  <2> QED
    BY <1>7, <2>1, EntryType DEF proc_sleep, QueueTypes
<1>8. CASE SleepReturn(c)
  BY <1>8 DEF SleepReturn, taskVars, coreVars
<1>9. CASE proc_exit(c)
  BY <1>9 DEF proc_exit, sched_rq_unlink, States, Phases
<1>10. CASE ExitNotify(c)
  BY <1>10, WakeOneType DEF ExitNotify, QueueTypes, coreVars
<1>11. CASE ExitSchedule(c)
  BY <1>11, EntryType DEF ExitSchedule, waitVars
<1>12. CASE proc_reap(c)
  BY <1>12 DEF proc_reap, States, coreVars, waitVars
<1>13. CASE proc_create(c)
  BY <1>13 DEF proc_create, alloc_proc_slot, init_proc, sched_rq_insert, States, coreVars, waitVars
<1>14. CASE WaitStart(c)
  BY <1>14 DEF WaitStart, taskVars, coreVars
<1>15. CASE WaitCheck(c)
  BY <1>15 DEF WaitCheck, taskVars, coreVars
<1>16. CASE WaitPrepare(c)
  BY <1>16 DEF WaitPrepare, sched_self_block, States, coreVars
<1>17. CASE WaitRecheck(c)
  BY <1>17 DEF WaitRecheck, Finish, sched_self_running, States, coreVars
<1>18. CASE WaitSleep(c)
  <2>1. QueueTypes'
    BY <1>18 DEF WaitSleep, QueueTypes, States
  <2> QED
    BY <1>18, <2>1, EntryType DEF WaitSleep, QueueTypes, waitVars
<1>19. CASE WaitDone(c)
  BY <1>19 DEF WaitDone, Finish, sched_self_running, States, coreVars
<1> QED
  BY <1>1, <1>2, <1>3, <1>4, <1>5, <1>6, <1>7, <1>8, <1>9, <1>10, <1>11, <1>12, <1>13,
     <1>14, <1>15, <1>16, <1>17, <1>18, <1>19 DEF Kernel

\* The process table, run queues, deferral tables and per-core state of the
\* scheduler always hold values of their types, interrupts and signals included.
THEOREM TypeCorrect == Spec => []TypeOK
<1>1. Init => TypeOK
  <2> SUFFICES ASSUME Init PROVE TypeOK
    OBVIOUS
  <2>1. state \in [Task -> States] /\ at_enq \in [Task -> States] /\ pc \in [Task -> PCs]
    BY DEF Init, States, PCs
  <2>2. on_cpu \in [Task -> Cpu \cup {NoCpu}] /\ pinned \in [Task -> Cpu \cup {NoCpu}]
    BY DEF Init
  <2>3. /\ defer \in [Cpu -> SUBSET Task] /\ phase \in [Cpu -> Phases]
        /\ cur \in [Cpu -> Task \cup {Idle}] /\ prev \in [Cpu -> Task \cup {Idle}]
    BY DEF Init, Phases
  <2>4. /\ rq \subseteq Task /\ todo \subseteq Task /\ bkl \in Cpu \cup {NoCpu}
        /\ wq \subseteq Task /\ timed \subseteq Task /\ due \subseteq Task
    BY DEF Init
  <2>5. cond \in BOOLEAN
    BY Zenon DEF Init
  <2> QED
    BY <2>1, <2>2, <2>3, <2>4, <2>5 DEF TypeOK
<1>2. TypeOK /\ [Next]_vars => TypeOK'
  <2> SUFFICES ASSUME TypeOK, [Next]_vars PROVE TypeOK'
    OBVIOUS
  <2>1. ASSUME NEW c \in Cpu, Tick(c) \/ ApTick(c) \/ ApIdle(c) PROVE TypeOK'
    <3>1. defer' \in [Cpu -> SUBSET Task]
      BY <2>1 DEF Tick, ApTick, ApIdle, TypeOK
    <3> QED
      BY <2>1, <3>1, EntryType DEF Tick, ApTick, ApIdle, TypeOK, waitVars
  <2>2. ASSUME NEW c \in Cpu, IrqWake(c) PROVE TypeOK'
    BY <2>2, WakeOneType DEF IrqWake, TypeOK, QueueTypes, coreVars
  <2>3. ASSUME NEW t \in Task, Deadline(t) PROVE TypeOK'
    BY <2>3 DEF Deadline, TypeOK, taskVars, coreVars
  <2>4. CASE UNCHANGED vars
    BY <2>4 DEF vars, taskVars, coreVars, waitVars, TypeOK
  <2> QED
    BY <2>1, <2>2, <2>3, <2>4, ScheduleType, KernelType DEF Next
<1> QED
  BY <1>1, <1>2, PTL DEF Spec
-----------------------------------------------------------------------------
(* The inductive invariant *)

\* The effect of enqueueing t when it was neither queued nor owed.
Added(t) ==
  /\ state' = [state EXCEPT ![t] = "READY"]
  /\ \A u \in Task : u # t => /\ u \in rq' <=> u \in rq
                              /\ \A d \in Cpu : u \in defer'[d] <=> u \in defer[d]
  /\ \A d \in Cpu : t \in defer'[d] => t \notin rq' /\ \A e \in Cpu : t \in defer'[e] => e = d

\* add_to_ready_queue makes a task that was not queued READY and queues it once.
LEMMA EnqueueAdds ==
  ASSUME TypeOK, NEW t \in Task, NEW s, s \in Asleep \cup {"READY"}, ~Queued(t), Enqueue(t, s)
  PROVE  Added(t)
<1>1. state' = [state EXCEPT ![t] = "READY"]
  BY DEF Enqueue, Asleep
<1>2. ASSUME NEW d \in Cpu, Owe(d, t) PROVE Added(t)
  BY <1>1, <1>2 DEF Owe, Added, Queued, TypeOK
<1>3. ASSUME rq' = rq \cup {t}, defer' = defer PROVE Added(t)
  BY <1>1, <1>3 DEF Added, Queued, TypeOK
<1>4. CASE on_cpu[t] # NoCpu /\ HasRoom(on_cpu[t], t)
  BY <1>2, <1>4 DEF Enqueue, TypeOK
<1>5. CASE ~(on_cpu[t] # NoCpu /\ HasRoom(on_cpu[t], t))
  <2>1. sched_rq_push(t) /\ t \notin rq
    BY <1>5 DEF Enqueue, Queued
  <2>2. CASE pinned[t] # NoCpu /\ HasRoom(pinned[t], t)
    BY <1>2, <2>1, <2>2 DEF sched_rq_push, sched_rq_insert, TypeOK
  <2>3. CASE ~(pinned[t] # NoCpu /\ HasRoom(pinned[t], t))
    BY <1>3, <2>1, <2>3 DEF sched_rq_push, sched_rq_insert
  <2> QED
    BY <2>2, <2>3
<1> QED
  BY <1>4, <1>5

\* What an enqueue means for the queue part of the invariant.
LEMMA AddedQueues ==
  ASSUME TypeOK, QueuedReady, QueuedOnce, NEW t \in Task, Added(t)
  PROVE  /\ QueuedReady' /\ QueuedOnce'
         /\ \A u \in Task : u # t => (Queued(u)' <=> Queued(u)) /\ state'[u] = state[u]
<1>1. \A u \in Task : u # t => (Queued(u)' <=> Queued(u)) /\ state'[u] = state[u]
  BY DEF Added, Queued, TypeOK
<1>2. QueuedReady'
  BY <1>1 DEF QueuedReady, Added, TypeOK
<1>3. QueuedOnce'
  BY DEF QueuedOnce, Added, TypeOK
<1> QED
  BY <1>1, <1>2, <1>3

\* proc_wake enqueues a sleeper, which is not queued yet, or does nothing.
LEMMA WakeEffect ==
  ASSUME TypeOK, QueuedReady, NEW t \in Task, proc_wake(t)
  PROVE  \/ state[t] \in Asleep /\ Added(t)
         \/ UNCHANGED <<state, rq, defer>>
<1>1. CASE state[t] \in Asleep
  <2>1. ~Queued(t)
    BY <1>1 DEF QueuedReady, Asleep
  <2> QED
    BY <1>1, <2>1, EnqueueAdds DEF proc_wake
<1>2. CASE state[t] \notin Asleep
  BY <1>2 DEF proc_wake
<1> QED
  BY <1>1, <1>2

\* Waking t while holding the lock keeps the invariant, unless t is the very
\* task this core runs and it is inside its wait.
LEMMA WakeKeeps ==
  ASSUME TypeOK, Inv, NEW c \in Cpu, NEW t \in Task, bkl = c, proc_wake(t),
         phase[c] = "run" => cur[c] # t \/ pc[t] \notin {"recheck", "sleep"},
         UNCHANGED <<on_cpu, cur, prev, phase, bkl, pc>>, todo' = todo
  PROVE  Inv'
<1> USE DEF Inv
<1>1. CASE UNCHANGED <<state, rq, defer>>
  BY <1>1 DEF LockHeld, Exclusive, Leaving, LeavingMarked, AllCurMarked, CurMarked, Queued,
              QueuedReady, QueuedOnce, DrainTodo
<1>2. CASE state[t] \in Asleep /\ Added(t)
  <2>1. /\ QueuedReady' /\ QueuedOnce'
        /\ \A u \in Task : u # t => (Queued(u)' <=> Queued(u)) /\ state'[u] = state[u]
    BY <1>2, AddedQueues
  <2>2. state'[t] = "READY"
    BY <1>2 DEF Added, TypeOK
  <2>3. \A d \in Cpu : cur[d] = t => phase[d] \in Outgoing
    BY <1>2 DEF AllCurMarked, CurMarked, TypeOK, Phases, Outgoing, Incoming, Asleep
  <2>4. AllCurMarked'
    BY <2>1, <2>2, <2>3 DEF AllCurMarked, CurMarked, Outgoing, Incoming, Queued
  <2>5. LeavingMarked'
    BY <2>1, <2>2 DEF LeavingMarked, Leaving
  <2>6. LockHeld' /\ Exclusive'
    BY DEF LockHeld, Exclusive, Leaving
  <2>7. DrainTodo'
    BY <1>2 DEF DrainTodo, Added, TypeOK, QueuedReady, Queued, Asleep
  <2> QED
    BY <2>1, <2>4, <2>5, <2>6, <2>7
<1> QED
  BY <1>1, <1>2, WakeEffect

\* Entering sched_schedule() keeps the invariant: the current task may have
\* changed its own state and queued itself, every other task is untouched.
LEMMA EntryKeeps ==
  ASSUME TypeOK, Inv, NEW c \in Cpu, ScheduleEntry(c),
         phase[c] \in {"run", "notify"}, bkl \in {c, NoCpu},
         QueuedReady', QueuedOnce',
         \A u \in Task : cur[c] # u =>
            (Queued(u)' <=> Queued(u)) /\ state'[u] = state[u] /\ pc'[u] = pc[u],
         \A u \in Task : cur[c] = u => state'[u] # "UNUSED"
  PROVE  Inv'
<1> USE DEF Inv
<1>0. /\ phase' = [phase EXCEPT ![c] = "drain"] /\ todo' = defer'[c] /\ bkl' = c
      /\ cur' = cur /\ prev' = prev
      /\ on_cpu' = IF cur[c] = Idle THEN on_cpu ELSE [on_cpu EXCEPT ![cur[c]] = c]
  BY DEF ScheduleEntry
<1>1. \A d \in Cpu : d # c => phase'[d] = phase[d] /\ phase[d] \notin Locked
  BY <1>0, SchedAssumption DEF LockHeld, TypeOK
<1>2. phase'[c] = "drain"
  BY <1>0 DEF TypeOK
<1>3. LockHeld'
  BY <1>0, <1>1, <1>2 DEF LockHeld
<1>4. \A d \in Cpu, t \in Task : Leaving(d, t)' => d # c /\ Leaving(d, t) /\ cur[c] # t
  BY <1>0, <1>1, <1>2 DEF Leaving, Exclusive
<1>5. Exclusive'
  BY <1>0, <1>4 DEF Exclusive
<1>6. LeavingMarked'
  BY <1>0, <1>4 DEF LeavingMarked, TypeOK
<1>7. AllCurMarked'
  <2> SUFFICES ASSUME NEW d \in Cpu, NEW t \in Task, cur[d] = t PROVE CurMarked(d, t)'
    BY <1>0 DEF AllCurMarked
  <2>1. CASE d = c
    BY <2>1, <1>0, <1>2, SchedAssumption DEF CurMarked, Outgoing, Incoming, TypeOK
  <2>2. CASE d # c
    <3>1. cur[c] # t /\ phase'[d] = phase[d] /\ CurMarked(d, t) /\ phase[d] \notin Locked
      BY <2>2, <1>1 DEF Exclusive, AllCurMarked
    <3>2. phase[d] = "run" => state[t] = "RUNNING"
      BY <2>2, <3>1, SchedAssumption DEF CurMarked
    <3> QED
      BY <3>1, <3>2 DEF CurMarked, Locked, Outgoing
  <2> QED
    BY <2>1, <2>2
<1>8. DrainTodo'
  BY <1>0, <1>1 DEF DrainTodo, Locked
<1> QED
  BY <1>3, <1>5, <1>6, <1>7, <1>8

\* Paying or dropping one owed enqueue keeps the invariant.
LEMMA DrainKeeps ==
  ASSUME TypeOK, Inv, NEW c \in Cpu, DrainOne(c)
  PROVE  Inv'
<1> USE DEF Inv
<1>1. PICK t \in todo :
        /\ todo' = todo \ {t}
        /\ IF ~Payable(t) THEN UNCHANGED <<state, rq, defer>>
           ELSE /\ defer' = [defer EXCEPT ![c] = @ \ {t}]
                /\ IF state[t] = "READY" \/ at_enq[t] \in Asleep
                   THEN state' = [state EXCEPT ![t] = "READY"] /\ rq' = rq \cup {t}
                   ELSE UNCHANGED <<state, rq>>
  BY DEF DrainOne, sched_rq_insert
<1>2. /\ phase[c] = "drain" /\ t \in Task /\ t \in defer[c] /\ state[t] = "READY"
      /\ UNCHANGED <<on_cpu, cur, prev, phase, bkl, pc>>
  BY DEF DrainOne, sched_rq_insert, DrainTodo, TypeOK, QueuedReady, Queued
<1>3. /\ state' = state
      /\ \A u \in Task : Queued(u)' <=> Queued(u)
      /\ QueuedOnce'
  <2>1. CASE ~Payable(t)
    BY <1>1, <2>1 DEF Queued, QueuedOnce
  <2>2. CASE Payable(t)
    <3>1. defer' = [defer EXCEPT ![c] = @ \ {t}] /\ rq' = rq \cup {t} /\ state' = state
      BY <1>1, <1>2, <2>2 DEF TypeOK
    <3> QED
      BY <1>2, <3>1 DEF Queued, QueuedOnce, TypeOK
  <2> QED
    BY <2>1, <2>2
<1>4. DrainTodo'
  BY <1>1, <1>2 DEF DrainTodo, LockHeld, Locked, TypeOK
<1> QED
  BY <1>2, <1>3, <1>4 DEF LockHeld, Exclusive, Leaving, LeavingMarked, AllCurMarked, CurMarked,
                          QueuedReady

\* Waking a sleeper that is due keeps the invariant.
LEMMA SweepKeeps ==
  ASSUME TypeOK, Inv, NEW c \in Cpu, SweepOne(c)
  PROVE  Inv'
<1> USE DEF Inv
<1>1. PICK t \in todo : IF state[t] = "SLEEPING" THEN Enqueue(t, "READY")
                        ELSE UNCHANGED <<state, at_enq, rq, defer>>
  BY DEF SweepOne
<1>2. /\ phase[c] = "sweep" /\ bkl = c /\ t \in Task /\ todo' \subseteq todo
      /\ UNCHANGED <<on_cpu, cur, prev, phase, bkl, pc>>
  BY DEF SweepOne, LockHeld, Locked, TypeOK
<1>3. CASE state[t] # "SLEEPING"
  BY <1>1, <1>2, <1>3 DEF LockHeld, Exclusive, Leaving, LeavingMarked, AllCurMarked, CurMarked,
              Queued, QueuedReady, QueuedOnce, DrainTodo
<1>4. CASE state[t] = "SLEEPING"
  <2>1. Added(t) /\ ~Queued(t)
    BY <1>1, <1>2, <1>4, EnqueueAdds DEF QueuedReady
  <2>2. /\ QueuedReady' /\ QueuedOnce'
        /\ \A u \in Task : u # t => (Queued(u)' <=> Queued(u)) /\ state'[u] = state[u]
    BY <1>2, <2>1, AddedQueues
  <2>3. state'[t] = "READY"
    BY <1>2, <2>1 DEF Added, TypeOK
  <2>4. \A d \in Cpu : cur[d] = t => phase[d] \in Outgoing
    BY <1>2, <1>4 DEF AllCurMarked, CurMarked, TypeOK, Phases, Outgoing, Incoming
  <2>5. AllCurMarked'
    BY <1>2, <2>2, <2>3, <2>4 DEF AllCurMarked, CurMarked, Outgoing, Incoming
  <2>6. LeavingMarked' /\ LockHeld' /\ Exclusive'
    BY <1>2, <2>2, <2>3 DEF LeavingMarked, Leaving, LockHeld, Exclusive
  <2>7. DrainTodo'
    BY <1>2, <2>1 DEF DrainTodo, Added, TypeOK, Queued
  <2> QED
    BY <2>2, <2>5, <2>6, <2>7
<1> QED
  BY <1>3, <1>4

\* Choosing the next task and making it current keeps the invariant: it was
\* eligible, so no core executes it.
LEMMA PickKeeps ==
  ASSUME TypeOK, Inv, NEW c \in Cpu, PickTask(c)
  PROVE  Inv'
<1> USE DEF Inv
<1>1. PICK t \in Task : /\ Eligible(t) /\ rq' = rq \ {t}
                        /\ state' = [state EXCEPT ![t] = "RUNNING"] /\ StartSwitch(c, t)
  BY DEF PickTask, sched_rq_unlink
<1>2. /\ phase[c] = "pick" /\ bkl = c /\ bkl' = c /\ defer' = defer /\ todo' = todo /\ pc' = pc
      /\ on_cpu' = IF cur[c] = Idle THEN on_cpu ELSE [on_cpu EXCEPT ![cur[c]] = c]
      /\ prev' = [prev EXCEPT ![c] = cur[c]] /\ cur' = [cur EXCEPT ![c] = t]
      /\ phase' = [phase EXCEPT ![c] = "publish"]
  BY <1>1 DEF PickTask, sched_rq_unlink, StartSwitch, LockHeld, Locked
<1>3. t \in rq /\ on_cpu[t] = NoCpu /\ \A d \in Cpu : t \notin defer[d]
  BY <1>1 DEF Eligible, QueuedOnce, Queued
<1>4. \A d \in Cpu : cur[d] # t /\ ~Leaving(d, t)
  <2>1. \A d \in Cpu : ~Leaving(d, t)
    BY <1>3, SchedAssumption DEF LeavingMarked
  <2>2. \A d \in Cpu : cur[d] # t
    BY <1>3, SchedAssumption DEF AllCurMarked, CurMarked, TypeOK, Phases, Outgoing, Incoming,
                                 QueuedReady, Queued
  <2> QED
    BY <2>1, <2>2
<1>5. \A d \in Cpu : d # c => phase'[d] = phase[d] /\ phase[d] \notin Locked
                             /\ cur'[d] = cur[d] /\ prev'[d] = prev[d]
  BY <1>2 DEF LockHeld, TypeOK
<1>6. phase'[c] = "publish" /\ cur'[c] = t /\ prev'[c] = cur[c]
  BY <1>2 DEF TypeOK
<1>7. \A u \in Task : u # t => (Queued(u)' <=> Queued(u)) /\ state'[u] = state[u]
  BY <1>1, <1>2 DEF Queued, TypeOK
<1>8. ~Queued(t)' /\ state'[t] = "RUNNING"
  BY <1>1, <1>2, <1>3 DEF Queued, TypeOK
<1>9. \A u \in Task : u # cur[c] => on_cpu'[u] = on_cpu[u]
  BY <1>2 DEF TypeOK
<1>10. \A d \in Cpu, u \in Task : Leaving(d, u)' =>
        (d = c /\ cur[c] = u) \/ (d # c /\ Leaving(d, u))
  BY <1>5, <1>6 DEF Leaving
<1>11. Exclusive'
  BY <1>4, <1>5, <1>6, <1>10 DEF Exclusive
<1>12. LeavingMarked'
  <2> SUFFICES ASSUME NEW d \in Cpu, NEW u \in Task, Leaving(d, u)'
               PROVE  on_cpu'[u] = d /\ state'[u] # "UNUSED"
    BY DEF LeavingMarked
  <2>1. CASE d = c /\ cur[c] = u
    BY <1>2, <1>4, <1>7, <2>1, SchedAssumption DEF AllCurMarked, CurMarked, Outgoing, TypeOK
  <2>2. CASE d # c /\ Leaving(d, u)
    BY <1>4, <1>7, <1>9, <2>2 DEF LeavingMarked, Exclusive
  <2> QED
    BY <1>10, <2>1, <2>2
<1>13. AllCurMarked'
  <2> SUFFICES ASSUME NEW d \in Cpu, NEW u \in Task, cur'[d] = u PROVE CurMarked(d, u)'
    BY DEF AllCurMarked
  <2>1. CASE d = c
    BY <1>6, <1>8, <2>1 DEF CurMarked, Outgoing
  <2>2. CASE d # c
    BY <1>2, <1>4, <1>5, <1>7, <1>9, <2>2
       DEF AllCurMarked, CurMarked, Locked, Outgoing, Exclusive
  <2> QED
    BY <2>1, <2>2
<1>14. LockHeld' /\ DrainTodo'
  BY <1>2, <1>5, <1>6 DEF LockHeld, DrainTodo, Locked
<1>15. QueuedReady' /\ QueuedOnce'
  BY <1>1, <1>2, <1>7, <1>8 DEF QueuedReady, QueuedOnce
<1> QED
  BY <1>11, <1>12, <1>13, <1>14, <1>15

\* Leaving for the idle task keeps the invariant.
LEMMA PickIdleKeeps ==
  ASSUME TypeOK, Inv, NEW c \in Cpu, PickIdle(c)
  PROVE  Inv'
<1> USE DEF Inv
<1>1. /\ phase[c] = "pick" /\ bkl = c /\ bkl' = c /\ UNCHANGED <<rq, state, defer, todo, pc>>
      /\ cur[c] # Idle /\ on_cpu' = [on_cpu EXCEPT ![cur[c]] = c]
      /\ prev' = [prev EXCEPT ![c] = cur[c]] /\ cur' = [cur EXCEPT ![c] = Idle]
      /\ phase' = [phase EXCEPT ![c] = "publish"]
  BY DEF PickIdle, NothingToPop, StartSwitch, LockHeld, Locked
<1>2. \A d \in Cpu : d # c => phase'[d] = phase[d] /\ phase[d] \notin Locked
                             /\ cur'[d] = cur[d] /\ prev'[d] = prev[d]
  BY <1>1 DEF LockHeld, TypeOK
<1>3. phase'[c] = "publish" /\ cur'[c] \notin Task /\ prev'[c] = cur[c]
  BY <1>1, SchedAssumption DEF TypeOK
<1>4. /\ \A u \in Task : u # cur[c] => on_cpu'[u] = on_cpu[u]
      /\ \A u \in Task : u = cur[c] => on_cpu'[u] = c /\ state[u] # "UNUSED"
  BY <1>1 DEF TypeOK, AllCurMarked, CurMarked, Outgoing
<1>5. \A d \in Cpu, u \in Task : Leaving(d, u)' =>
        (d = c /\ cur[c] = u) \/ (d # c /\ Leaving(d, u))
  BY <1>2, <1>3 DEF Leaving
<1>6. Exclusive'
  BY <1>2, <1>3, <1>5 DEF Exclusive
<1>7. LeavingMarked'
  BY <1>1, <1>4, <1>5 DEF LeavingMarked, Exclusive
<1>8. AllCurMarked'
  BY <1>1, <1>2, <1>3, <1>4 DEF AllCurMarked, CurMarked, Locked, Outgoing, Exclusive, Queued
<1>9. LockHeld' /\ DrainTodo' /\ QueuedReady' /\ QueuedOnce'
  BY <1>1, <1>2, <1>3 DEF LockHeld, DrainTodo, Locked, QueuedReady, QueuedOnce, Queued
<1> QED
  BY <1>6, <1>7, <1>8, <1>9

\* Putting the outgoing task back and dropping the lock keeps the invariant.
LEMMA PublishKeeps ==
  ASSUME TypeOK, Inv, NEW c \in Cpu, Publish(c)
  PROVE  Inv'
<1> USE DEF Inv
<1>1. /\ phase[c] = "publish" /\ bkl = c /\ bkl' = NoCpu
      /\ phase' = [phase EXCEPT ![c] = "switch"] /\ UNCHANGED <<on_cpu, cur, prev, todo, pc>>
  BY DEF Publish, LockHeld, Locked
<1>2. /\ phase'[c] = "switch"
      /\ \A d \in Cpu : d # c => phase'[d] = phase[d] /\ phase[d] \notin Locked
  BY <1>1 DEF LockHeld, TypeOK
<1>3. LockHeld' /\ Exclusive' /\ DrainTodo'
  BY <1>1, <1>2 DEF LockHeld, Exclusive, Leaving, DrainTodo, Locked
<1>4. \A d \in Cpu, t \in Task : cur[d] = t /\ phase[d] = "run" => state[t] = "RUNNING"
  BY <1>1 DEF AllCurMarked, CurMarked
<1>5. CASE UNCHANGED <<state, rq, defer>>
  <2>1. AllCurMarked'
    BY <1>1, <1>2, <1>4, <1>5 DEF AllCurMarked, CurMarked, Queued, Outgoing, Incoming, Locked
  <2> QED
    BY <1>1, <1>2, <1>3, <1>5, <2>1 DEF LeavingMarked, Leaving, QueuedReady, QueuedOnce, Queued
<1>6. ASSUME NEW p \in Task, p = prev[c], state[p] = "RUNNING", Enqueue(p, "READY") PROVE Inv'
  <2>1. Added(p)
    BY <1>6, EnqueueAdds DEF QueuedReady
  <2>2. /\ QueuedReady' /\ QueuedOnce'
        /\ \A u \in Task : u # p => (Queued(u)' <=> Queued(u)) /\ state'[u] = state[u]
    BY <2>1, AddedQueues
  <2>3. state'[p] = "READY"
    BY <2>1 DEF Added, TypeOK
  <2>4. \A d \in Cpu : cur[d] # p
    BY <1>1, <1>6 DEF Exclusive, Leaving
  <2>5. AllCurMarked'
    BY <1>1, <1>2, <1>4, <2>2, <2>4 DEF AllCurMarked, CurMarked, Outgoing, Incoming, Locked
  <2>6. LeavingMarked'
    BY <1>1, <1>2, <2>2, <2>3 DEF LeavingMarked, Leaving
  <2> QED
    BY <1>3, <2>2, <2>5, <2>6
<1>7. prev[c] # Idle => prev[c] \in Task
  BY DEF TypeOK
<1> QED
  BY <1>5, <1>6, <1>7 DEF Publish

\* The instructions of the context switch keep the invariant.
LEMMA SwitchKeeps ==
  ASSUME TypeOK, Inv, NEW c \in Cpu, SwitchStack(c) \/ ReleasePrev(c) \/ Unpin(c)
  PROVE  Inv'
<1> USE DEF Inv
<1>1. /\ UNCHANGED <<state, rq, defer, cur, todo, bkl, pc>>
      /\ \A d \in Cpu : d # c => phase'[d] = phase[d] /\ prev'[d] = prev[d]
      /\ phase[c] \in Incoming \ {"publish"} /\ phase'[c] \in {"release", "unpin", "run"}
      /\ phase'[c] = "release" => phase[c] = "switch" /\ prev'[c] = prev[c]
  BY DEF SwitchStack, ReleasePrev, Unpin, taskVars, TypeOK, Incoming
<1>2. \A d \in Cpu, t \in Task : Leaving(d, t)' => Leaving(d, t)
  BY <1>1 DEF Leaving
<1>3. \A d \in Cpu, t \in Task : Leaving(d, t)' => on_cpu'[t] = on_cpu[t]
  <2>1. CASE SwitchStack(c) \/ Unpin(c)
    BY <2>1 DEF SwitchStack, Unpin, taskVars
  <2>2. CASE ReleasePrev(c)
    BY <1>1, <1>2, <2>2 DEF ReleasePrev, Exclusive, Leaving, TypeOK
  <2> QED
    BY <2>1, <2>2
<1>4. \A d \in Cpu, t \in Task : cur[d] = t => on_cpu'[t] = on_cpu[t]
  <2>1. CASE SwitchStack(c) \/ Unpin(c)
    BY <2>1 DEF SwitchStack, Unpin, taskVars
  <2>2. CASE ReleasePrev(c)
    BY <1>1, <2>2 DEF ReleasePrev, Exclusive, Leaving, TypeOK
  <2> QED
    BY <2>1, <2>2
<1>5. Exclusive' /\ LeavingMarked'
  BY <1>1, <1>2, <1>3 DEF Exclusive, LeavingMarked
<1>6. AllCurMarked'
  BY <1>1, <1>4 DEF AllCurMarked, CurMarked, Queued, Outgoing, Incoming
<1>7. LockHeld' /\ DrainTodo' /\ QueuedReady' /\ QueuedOnce'
  BY <1>1 DEF LockHeld, DrainTodo, Locked, QueuedReady, QueuedOnce, Queued
<1> QED
  BY <1>5, <1>6, <1>7

\* Every step of the scheduler proper keeps the invariant.
LEMMA ScheduleKeeps ==
  ASSUME TypeOK, Inv, NEW c \in Cpu, Schedule(c)
  PROVE  Inv'
<1>1. CASE DrainDone(c) \/ SweepDone(c)
  <2>1. /\ UNCHANGED <<state, on_cpu, rq, defer, cur, prev, bkl, pc>>
        /\ phase[c] \in {"drain", "sweep"} /\ phase'[c] \in {"sweep", "pick"}
        /\ \A d \in Cpu : d # c => phase'[d] = phase[d]
    BY <1>1 DEF DrainDone, SweepDone, taskVars, TypeOK
  <2>2. bkl = c /\ \A d \in Cpu : d # c => phase[d] # "drain"
    BY <2>1 DEF Inv, LockHeld, Locked
  <2> QED
    BY <2>1, <2>2 DEF Inv, LockHeld, Locked, Exclusive, Leaving, LeavingMarked, AllCurMarked,
         CurMarked, Queued, Outgoing, Incoming, QueuedReady, QueuedOnce, DrainTodo
<1>2. CASE SweepAlarm(c)
  <2>1. bkl = c /\ phase[c] # "run"
    BY <1>2 DEF SweepAlarm, Inv, LockHeld, Locked
  <2> QED
    BY <1>2, <2>1, WakeKeeps, SchedAssumption DEF SweepAlarm, coreVars
<1>3. CASE StayIdle(c)
  <2>1. /\ UNCHANGED <<state, on_cpu, rq, defer, cur, prev, todo, pc>>
        /\ phase[c] = "pick" /\ phase'[c] = "run" /\ cur[c] \notin Task
        /\ \A d \in Cpu : d # c => phase'[d] = phase[d]
    BY <1>3, SchedAssumption DEF StayIdle, NothingToPop, taskVars, TypeOK
  <2>2. bkl = c /\ \A d \in Cpu : d # c => phase[d] \notin Locked
    BY <2>1 DEF Inv, LockHeld, Locked
  <2> QED
    BY <2>1, <2>2 DEF Inv, LockHeld, Locked, Exclusive, Leaving, LeavingMarked, AllCurMarked,
         CurMarked, Queued, Outgoing, Incoming, QueuedReady, QueuedOnce, DrainTodo
<1> QED
  BY <1>1, <1>2, <1>3, DrainKeeps, SweepKeeps, PickKeeps, PickIdleKeeps, PublishKeeps,
     SwitchKeeps DEF Schedule

\* A task that holds the lock outside its wait is RUNNING and not queued, and
\* no other core is inside the scheduler with the lock or inside a wait.
LEMMA Alone ==
  ASSUME TypeOK, Inv, NEW c \in Cpu, NEW t \in Task, phase[c] = "run", cur[c] = t,
         bkl \in {c, NoCpu}
  PROVE  /\ ~Queued(t) /\ state[t] \in {"RUNNING", "BLOCKED"}
         /\ state[t] = "BLOCKED" => pc[t] \in {"recheck", "sleep"}
         /\ \A d \in Cpu : ~Leaving(d, t) /\ phase[d] \notin Locked
         /\ \A d \in Cpu : d # c => cur[d] # t
         /\ \A d \in Cpu, u \in Task : cur[d] = u /\ phase[d] = "run" /\ u # t => state[u] = "RUNNING"
BY SchedAssumption DEF Inv, AllCurMarked, CurMarked, Exclusive, LockHeld, Locked

\* A step of the task t that core c runs, outside the scheduler: it may take or
\* drop the lock, change its program point, and change its own state as long
\* as it stays RUNNING, or BLOCKED inside its wait.
LEMMA OwnStepKeeps ==
  ASSUME TypeOK, Inv, NEW c \in Cpu, NEW t \in Task, phase[c] = "run", cur[c] = t,
         bkl \in {c, NoCpu}, bkl' \in {c, NoCpu},
         UNCHANGED <<rq, defer, cur, prev, phase, todo>>,
         \A u \in Task : u # t => state'[u] = state[u] /\ on_cpu'[u] = on_cpu[u] /\ pc'[u] = pc[u],
         \/ state'[t] = "RUNNING"
         \/ state'[t] = "BLOCKED" /\ bkl' = c /\ pc'[t] \in {"recheck", "sleep"}
  PROVE  Inv'
<1> USE DEF Inv
<1>1. /\ ~Queued(t) /\ \A d \in Cpu : ~Leaving(d, t) /\ phase[d] \notin Locked
      /\ \A d \in Cpu : d # c => cur[d] # t
      /\ \A d \in Cpu, u \in Task : cur[d] = u /\ phase[d] = "run" /\ u # t => state[u] = "RUNNING"
  BY Alone
<1>2. LockHeld' /\ Exclusive' /\ DrainTodo'
  BY <1>1 DEF LockHeld, Exclusive, Leaving, DrainTodo, Locked
<1>3. LeavingMarked' /\ QueuedReady' /\ QueuedOnce'
  BY <1>1 DEF LeavingMarked, Leaving, QueuedReady, QueuedOnce, Queued
<1>4. AllCurMarked'
  BY <1>1 DEF AllCurMarked, CurMarked, Queued, Outgoing, Incoming, Locked
<1> QED
  BY <1>2, <1>3, <1>4

\* A step that enters the scheduler after changing only the current task's
\* own state.
LEMMA SelfEntryKeeps ==
  ASSUME TypeOK, Inv, NEW c \in Cpu, ScheduleEntry(c), phase[c] \in {"run", "notify"},
         bkl \in {c, NoCpu}, UNCHANGED <<rq, defer>>,
         \A u \in Task : cur[c] # u => state'[u] = state[u] /\ pc'[u] = pc[u],
         \A u \in Task : cur[c] = u => state'[u] # "UNUSED"
  PROVE  Inv'
<1>1. \A u \in Task : Queued(u)' <=> Queued(u)
  BY DEF Queued
<1>2. \A u \in Task : cur[c] = u => ~Queued(u)
  BY DEF Inv, AllCurMarked, CurMarked
<1>3. QueuedReady' /\ QueuedOnce'
  BY <1>1, <1>2 DEF Inv, QueuedReady, QueuedOnce
<1> QED
  BY <1>1, <1>3, EntryKeeps

\* Every step of a task in the kernel keeps the invariant.
LEMMA KernelKeeps ==
  ASSUME TypeOK, Inv, NEW c \in Cpu, Kernel(c)
  PROVE  Inv'
<1> USE DEF At, In, Goto
<1>1. CASE Enter(c) \/ Leave(c) \/ Reacquire(c)
  <2>1. PICK t \in Task : /\ cur[c] = t /\ phase[c] = "run"
                          /\ pc[t] \in {"user", "kern"} \/ (bkl' = c /\ pc' = pc)
                          /\ \A u \in Task : u # t => pc'[u] = pc[u]
    <3>1. CASE Enter(c) \/ Leave(c)
      BY <3>1 DEF Enter, Leave, TypeOK
    <3>2. CASE Reacquire(c)
      BY <3>2 DEF Reacquire
    <3> QED
      BY <1>1, <3>1, <3>2
  <2>2. /\ bkl \in {c, NoCpu} /\ bkl' \in {c, NoCpu}
        /\ UNCHANGED <<state, on_cpu, rq, defer, cur, prev, phase, todo>>
    BY <1>1 DEF Enter, Leave, Reacquire, taskVars
  <2>3. \/ state'[t] = "RUNNING"
        \/ state'[t] = "BLOCKED" /\ bkl' = c /\ pc'[t] \in {"recheck", "sleep"}
    BY <2>1, <2>2, Alone
  <2> QED
    BY <2>1, <2>2, <2>3, OwnStepKeeps
<1>2. CASE Wake(c) \/ ExitNotify(c)
  <2>1. CASE wq = {}
    BY <1>2, <2>1 DEF Wake, ExitNotify, WakeOne, coreVars, Inv, LockHeld, Exclusive, Leaving,
         LeavingMarked, AllCurMarked, CurMarked, Queued, QueuedReady, QueuedOnce, DrainTodo
  <2>2. CASE wq # {}
    <3>1. PICK t \in wq : proc_wake(t)
      BY <1>2, <2>2 DEF Wake, ExitNotify, WakeOne
    <3>2. t \in Task /\ bkl = c /\ UNCHANGED <<on_cpu, cur, prev, phase, todo, bkl, pc>>
      BY <1>2 DEF Wake, ExitNotify, coreVars, TypeOK, Inv, LockHeld, Locked
    <3>3. phase[c] = "run" => pc[cur[c]] = "kern"
      BY <1>2 DEF Wake, ExitNotify
    <3> QED
      BY <3>1, <3>2, <3>3, WakeKeeps
  <2> QED
    BY <2>1, <2>2
<1>3. CASE Signal(c)
  <2>1. PICK t, u \in Task : In(c, t, "kern") /\ u # t /\ proc_wake(u)
    BY SchedAssumption, <1>3 DEF Signal
  <2> QED
    BY <1>3, <2>1, WakeKeeps DEF Signal, coreVars
<1>4. CASE proc_yield(c)
  <2>1. PICK t \in Task : In(c, t, "kern") /\ Enqueue(t, "READY")
    BY <1>4 DEF proc_yield
  <2>2. Added(t)
    BY <2>1, Alone, EnqueueAdds
  <2>3. /\ QueuedReady' /\ QueuedOnce'
        /\ \A u \in Task : u # t => (Queued(u)' <=> Queued(u)) /\ state'[u] = state[u]
    BY <2>2, AddedQueues DEF Inv
  <2>4. state'[t] = "READY"
    BY <2>2 DEF Added, TypeOK
  <2> QED
    BY <1>4, <2>1, <2>3, <2>4, EntryKeeps DEF proc_yield
<1>5. CASE proc_sleep(c)
  <2>1. PICK t \in Task : /\ In(c, t, "kern") /\ state' = [state EXCEPT ![t] = "SLEEPING"]
                          /\ pc' = [pc EXCEPT ![t] = "napping"]
    BY <1>5 DEF proc_sleep
  <2> QED
    BY <1>5, <2>1, SelfEntryKeeps DEF proc_sleep, TypeOK
<1>6. CASE ExitSchedule(c)
  <2>1. phase[c] = "notify" /\ bkl = c /\ \A u \in Task : cur[c] = u => state[u] # "UNUSED"
    BY <1>6 DEF ExitSchedule, Inv, LockHeld, Locked, AllCurMarked, CurMarked
  <2> QED
    BY <1>6, <2>1, SelfEntryKeeps DEF ExitSchedule
<1>7. CASE WaitSleep(c)
  <2>1. PICK t \in Task :
          /\ In(c, t, "sleep") /\ state[t] = "BLOCKED"
          /\ state' = IF t \in timed THEN [state EXCEPT ![t] = "SLEEPING"] ELSE state
    BY <1>7 DEF WaitSleep, MustSleep
  <2> QED
    BY <1>7, <2>1, SelfEntryKeeps DEF WaitSleep, TypeOK
<1>8. CASE SleepReturn(c) \/ WaitStart(c) \/ WaitCheck(c)
  <2>1. PICK t \in Task : /\ cur[c] = t /\ phase[c] = "run" /\ bkl = c
                          /\ pc[t] \in {"napping", "kern", "check"}
                          /\ \A u \in Task : u # t => pc'[u] = pc[u]
    BY <1>8 DEF SleepReturn, WaitStart, WaitCheck, TypeOK
  <2>2. UNCHANGED <<state, on_cpu, rq, defer, cur, prev, phase, todo, bkl>>
    BY <1>8 DEF SleepReturn, WaitStart, WaitCheck, taskVars, coreVars
  <2>3. state[t] = "RUNNING"
    BY <2>1, Alone
  <2> QED
    BY <2>1, <2>2, <2>3, OwnStepKeeps
<1>9. CASE WaitPrepare(c)
  <2>1. PICK t \in Task : /\ In(c, t, "prepare") /\ state' = [state EXCEPT ![t] = "BLOCKED"]
                          /\ pc' = [pc EXCEPT ![t] = "recheck"]
                          /\ on_cpu' = [on_cpu EXCEPT ![t] = c]
    BY <1>9 DEF WaitPrepare, sched_self_block
  <2> QED
    BY <1>9, <2>1, OwnStepKeeps DEF WaitPrepare, sched_self_block, coreVars, TypeOK
<1>10. CASE WaitRecheck(c) \/ WaitDone(c)
  <2>1. PICK t \in Task :
          /\ cur[c] = t /\ phase[c] = "run" /\ bkl = c
          /\ \/ Finish(t)
             \/ UNCHANGED <<state, on_cpu>> /\ pc' = [pc EXCEPT ![t] = "sleep"]
          /\ \A u \in Task : u # t => pc'[u] = pc[u]
    BY <1>10 DEF WaitRecheck, WaitDone, TypeOK
  <2>2. UNCHANGED <<rq, defer, cur, prev, phase, todo, bkl>>
    BY <1>10 DEF WaitRecheck, WaitDone, coreVars
  <2>3. state[t] \in {"RUNNING", "BLOCKED"}
    BY <2>1, Alone
  <2>4. CASE Finish(t)
    <3>1. /\ state'[t] = "RUNNING"
          /\ \A u \in Task : u # t => state'[u] = state[u] /\ on_cpu'[u] = on_cpu[u]
      BY <2>3, <2>4 DEF Finish, sched_self_running, Asleep, TypeOK
    <3> QED
      BY <2>1, <2>2, <3>1, OwnStepKeeps
  <2>5. CASE UNCHANGED <<state, on_cpu>> /\ pc' = [pc EXCEPT ![t] = "sleep"]
    BY <2>1, <2>2, <2>3, <2>5, OwnStepKeeps DEF TypeOK
  <2> QED
    BY <2>1, <2>4, <2>5
<1>11. CASE proc_exit(c)
  <2>1. PICK t \in Task : /\ In(c, t, "kern") /\ state' = [state EXCEPT ![t] = "ZOMBIE"]
                          /\ rq' = rq \ {t} /\ pc' = [pc EXCEPT ![t] = "dead"]
    BY <1>11 DEF proc_exit, sched_rq_unlink
  <2>2. /\ phase' = [phase EXCEPT ![c] = "notify"]
        /\ UNCHANGED <<on_cpu, defer, cur, prev, todo, bkl>>
    BY <1>11 DEF proc_exit, sched_rq_unlink
  <2>3. /\ ~Queued(t) /\ \A d \in Cpu : ~Leaving(d, t) /\ phase[d] \notin Locked
        /\ \A d \in Cpu : d # c => cur[d] # t
    BY <2>1, Alone
  <2>4. rq' = rq /\ phase'[c] = "notify" /\ \A d \in Cpu : d # c => phase'[d] = phase[d]
    BY <2>1, <2>2, <2>3 DEF Queued, TypeOK
  <2>5. LockHeld' /\ Exclusive' /\ DrainTodo'
    BY <2>1, <2>2, <2>3, <2>4 DEF Inv, LockHeld, Exclusive, Leaving, DrainTodo, Locked
  <2>6. LeavingMarked' /\ QueuedReady' /\ QueuedOnce'
    BY <2>1, <2>2, <2>3, <2>4 DEF Inv, LeavingMarked, Leaving, QueuedReady, QueuedOnce, Queued, TypeOK
  <2>7. AllCurMarked'
    BY <2>1, <2>2, <2>3, <2>4
       DEF Inv, AllCurMarked, CurMarked, Queued, Outgoing, Incoming, Locked, TypeOK
  <2> QED
    BY <2>5, <2>6, <2>7 DEF Inv
<1>12. CASE proc_reap(c)
  <2>1. PICK t, z \in Task : /\ In(c, t, "kern") /\ state[z] = "ZOMBIE" /\ on_cpu[z] = NoCpu
                             /\ state' = [state EXCEPT ![z] = "UNUSED"]
    BY <1>12 DEF proc_reap
  <2>2. UNCHANGED <<on_cpu, rq, defer, cur, prev, phase, todo, bkl, pc>>
    BY <1>12 DEF proc_reap, coreVars
  <2>3. ~Queued(z) /\ \A d \in Cpu : cur[d] # z /\ ~Leaving(d, z)
    BY <2>1, Alone, SchedAssumption DEF Inv, QueuedReady, AllCurMarked, CurMarked, LeavingMarked,
         TypeOK, Phases, Outgoing, Incoming, Locked
  <2> QED
    BY <2>1, <2>2, <2>3 DEF Inv, LockHeld, Exclusive, Leaving, LeavingMarked, AllCurMarked,
         CurMarked, Queued, QueuedReady, QueuedOnce, DrainTodo, TypeOK
<1>13. CASE proc_create(c)
  <2>1. PICK t, n \in Task : /\ In(c, t, "kern") /\ state[n] = "UNUSED"
                             /\ on_cpu' = [on_cpu EXCEPT ![n] = NoCpu]
                             /\ state' = [state EXCEPT ![n] = "READY"]
                             /\ rq' = rq \cup {n} /\ pc' = [pc EXCEPT ![n] = "user"]
    BY <1>13 DEF proc_create, alloc_proc_slot, init_proc, sched_rq_insert
  <2>2. UNCHANGED <<defer, cur, prev, phase, todo, bkl>>
    BY <1>13 DEF proc_create, alloc_proc_slot, init_proc, sched_rq_insert, coreVars
  <2>3. ~Queued(n) /\ \A d \in Cpu : cur[d] # n /\ ~Leaving(d, n)
    BY <2>1 DEF Inv, QueuedReady, AllCurMarked, CurMarked, LeavingMarked,
         TypeOK, Phases, Outgoing, Incoming
  <2>4. \A u \in Task : u # n => (Queued(u)' <=> Queued(u)) /\ state'[u] = state[u]
                               /\ on_cpu'[u] = on_cpu[u] /\ pc'[u] = pc[u]
    BY <2>1, <2>2 DEF Queued, TypeOK
  <2>5. LockHeld' /\ Exclusive' /\ DrainTodo'
    BY <2>2 DEF Inv, LockHeld, Exclusive, Leaving, DrainTodo
  <2>6. LeavingMarked' /\ AllCurMarked'
    BY <2>2, <2>3, <2>4 DEF Inv, LeavingMarked, Leaving, AllCurMarked, CurMarked
  <2>7. QueuedReady' /\ QueuedOnce'
    BY <2>1, <2>2, <2>3, <2>4 DEF Inv, QueuedReady, QueuedOnce, Queued, TypeOK
  <2> QED
    BY <2>5, <2>6, <2>7 DEF Inv
<1> QED
  BY <1>1, <1>2, <1>3, <1>4, <1>5, <1>6, <1>7, <1>8, <1>9, <1>10, <1>11, <1>12, <1>13 DEF Kernel

\* Without wakes from interrupt handlers the invariant is inductive.
LEMMA Invariance ==
  ASSUME ~IrqWakes
  PROVE  Spec => []Inv
<1>1. Init => Inv
  BY SchedAssumption DEF Init, Inv, LockHeld, Locked, Exclusive, Leaving, LeavingMarked,
       AllCurMarked, CurMarked, Queued, QueuedReady, QueuedOnce, DrainTodo
<1>2. TypeOK /\ Inv /\ [Next]_vars => Inv'
  <2> SUFFICES ASSUME TypeOK, Inv, [Next]_vars PROVE Inv'
    OBVIOUS
  <2>1. ASSUME NEW c \in Cpu, Tick(c) \/ ApTick(c) \/ ApIdle(c) PROVE Inv'
    <3>1. phase[c] = "run" /\ bkl \in {c, NoCpu}
      BY <2>1 DEF Tick, ApTick, ApIdle, CanInterrupt
    <3>2. \A u \in Task : cur[c] = u => state[u] # "UNUSED"
      BY <3>1 DEF Inv, AllCurMarked, CurMarked
    <3> QED
      BY <2>1, <3>1, <3>2, SelfEntryKeeps DEF Tick, ApTick, ApIdle
  <2>2. ASSUME NEW t \in Task, Deadline(t) PROVE Inv'
    BY <2>2 DEF Deadline, taskVars, coreVars, Inv, LockHeld, Exclusive, Leaving, LeavingMarked,
         AllCurMarked, CurMarked, Queued, QueuedReady, QueuedOnce, DrainTodo
  <2>3. CASE UNCHANGED vars
    BY <2>3 DEF vars, taskVars, coreVars, Inv, LockHeld, Exclusive, Leaving, LeavingMarked,
         AllCurMarked, CurMarked, Queued, QueuedReady, QueuedOnce, DrainTodo
  <2>4. \A c \in Cpu : ~IrqWake(c)
    BY DEF IrqWake
  <2> QED
    BY <2>1, <2>2, <2>3, <2>4, ScheduleKeeps, KernelKeeps DEF Next
<1> QED
  BY <1>1, <1>2, TypeCorrect, PTL DEF Spec

\* No two cores ever execute on one task's kernel stack, although every core
\* drops the Big Kernel Lock before it has left the outgoing task's stack.
THEOREM MutualExclusion ==
  ASSUME ~IrqWakes
  PROVE  Spec => []OneCorePerTask
<1>1. TypeOK /\ Inv => OneCorePerTask
  BY DEF Inv, Exclusive, Leaving, OneCorePerTask, Stack, TypeOK
<1> QED
  BY <1>1, Invariance, TypeCorrect, PTL

\* What a step may do to the state of a zombie: nothing but free its slot.
LEMMA ZombieStep ==
  ASSUME ~IrqWakes, TypeOK, Inv, [Next]_vars, NEW z \in Task, state[z] = "ZOMBIE"
  PROVE  state'[z] \in {"ZOMBIE", "UNUSED"}
<1>1. ~Queued(z)
  BY DEF Inv, QueuedReady
<1>2. ASSUME NEW t \in Task, proc_wake(t) PROVE state'[z] = "ZOMBIE"
  BY <1>2, WakeEffect DEF Inv, Added, Asleep, TypeOK
<1>3. ASSUME WakeOne PROVE state'[z] = "ZOMBIE"
  BY <1>2, <1>3 DEF WakeOne, TypeOK
<1>4. ASSUME NEW t \in Task, NEW s, Enqueue(t, s), t # z PROVE state'[z] = "ZOMBIE"
  BY <1>4 DEF Enqueue, TypeOK
<1>5. ASSUME NEW c \in Cpu, Schedule(c) PROVE state'[z] = "ZOMBIE"
  <2>1. CASE DrainOne(c)
    <3>1. z \notin todo
      BY <1>1, <2>1 DEF DrainOne, sched_rq_insert, Inv, DrainTodo, Queued
    <3> QED
      BY <2>1, <3>1 DEF DrainOne, sched_rq_insert, TypeOK
  <2>2. CASE SweepOne(c)
    BY <1>4, <2>2 DEF SweepOne, TypeOK
  <2>3. CASE SweepAlarm(c)
    BY SchedAssumption, <1>2, <2>3 DEF SweepAlarm
  <2>4. CASE PickTask(c)
    BY <1>1, <2>4 DEF PickTask, sched_rq_unlink, Eligible, Queued, TypeOK
  <2>5. CASE Publish(c)
    BY <1>4, <2>5 DEF Publish, TypeOK
  <2>6. CASE \/ DrainDone(c) \/ SweepDone(c) \/ PickIdle(c) \/ StayIdle(c)
            \/ SwitchStack(c) \/ ReleasePrev(c) \/ Unpin(c)
    BY <2>6 DEF DrainDone, SweepDone, PickIdle, StayIdle, SwitchStack, ReleasePrev, Unpin, taskVars
  <2> QED
    BY <1>5, <2>1, <2>2, <2>3, <2>4, <2>5, <2>6 DEF Schedule
<1>6. ASSUME NEW c \in Cpu, Kernel(c) PROVE state'[z] \in {"ZOMBIE", "UNUSED"}
  <2>0. ASSUME NEW p, In(c, z, p) PROVE FALSE
    BY <2>0 DEF In, At, Inv, AllCurMarked, CurMarked
  <2>1. CASE Wake(c) \/ ExitNotify(c)
    BY <1>3, <2>1 DEF Wake, ExitNotify
  <2>2. CASE Signal(c)
    BY SchedAssumption, <1>2, <2>2 DEF Signal
  <2>3. CASE proc_yield(c)
    BY <1>4, <2>0, <2>3 DEF proc_yield
  <2>4. CASE proc_sleep(c) \/ WaitSleep(c) \/ WaitPrepare(c)
    BY <2>0, <2>4 DEF proc_sleep, WaitSleep, WaitPrepare, sched_self_block, TypeOK
  <2>5. CASE WaitRecheck(c) \/ WaitDone(c)
    BY <2>0, <2>5 DEF WaitRecheck, WaitDone, Finish, sched_self_running, TypeOK
  <2>6. CASE proc_exit(c) \/ proc_reap(c) \/ proc_create(c)
    BY <2>6 DEF proc_exit, proc_reap, proc_create, sched_rq_unlink, alloc_proc_slot, init_proc,
         sched_rq_insert, TypeOK
  <2>7. CASE \/ Enter(c) \/ Reacquire(c) \/ Leave(c) \/ SleepReturn(c) \/ ExitSchedule(c)
            \/ WaitStart(c) \/ WaitCheck(c)
    BY <2>7 DEF Enter, Reacquire, Leave, SleepReturn, ExitSchedule, WaitStart, WaitCheck, taskVars
  <2> QED
    BY <1>6, <2>1, <2>2, <2>3, <2>4, <2>5, <2>6, <2>7 DEF Kernel
<1>7. ASSUME NEW c \in Cpu, Tick(c) \/ ApTick(c) \/ ApIdle(c) \/ IrqWake(c) PROVE state'[z] = "ZOMBIE"
  BY <1>7 DEF Tick, ApTick, ApIdle, IrqWake
<1>8. ASSUME NEW t \in Task, Deadline(t) PROVE state'[z] = "ZOMBIE"
  BY <1>8 DEF Deadline, taskVars
<1>9. CASE UNCHANGED vars
  BY <1>9 DEF vars, taskVars
<1> QED
  BY <1>5, <1>6, <1>7, <1>8, <1>9 DEF Next

\* A zombie is never put back on a run queue, marked runnable or run again.
THEOREM ZombiesStayDead ==
  ASSUME ~IrqWakes
  PROVE  Spec => NoResurrection
<1>1. TypeOK /\ Inv /\ [Next]_vars =>
        [\A t \in Task : state[t] = "ZOMBIE" => state'[t] \in {"ZOMBIE", "UNUSED"}]_vars
  BY ZombieStep
<1> QED
  BY <1>1, Invariance, TypeCorrect, PTL DEF Spec, NoResurrection
-----------------------------------------------------------------------------
(* No task is lost *)

\* Where a task in each state is found.  Unlike Inv this needs nothing of who
\* wakes whom: it holds with wakes from interrupt handlers too.
Found(t) ==
  /\ state[t] = "READY" => Queued(t)
  /\ state[t] = "RUNNING" => \E c \in Cpu : cur[c] = t \/ (prev[c] = t /\ phase[c] = "publish")
  /\ state[t] = "BLOCKED" => t \in wq

AllFound == \A t \in Task : Found(t)

\* add_to_ready_queue leaves the task READY and queued or owed, and takes no
\* other task out.
LEMMA EnqueueFinds ==
  ASSUME TypeOK, NEW t \in Task, NEW s \in Asleep \cup {"READY"}, Enqueue(t, s)
  PROVE  /\ state' = [state EXCEPT ![t] = "READY"]
         /\ Queued(t)' /\ \A u \in Task : Queued(u) => Queued(u)'
<1>1. state' = [state EXCEPT ![t] = "READY"]
  BY DEF Enqueue, Asleep
<1>2. ASSUME NEW d \in Cpu, Owe(d, t)
      PROVE  Queued(t)' /\ \A u \in Task : Queued(u) => Queued(u)'
  BY <1>2 DEF Owe, Queued, TypeOK
<1>3. ASSUME rq' = rq \cup {t}, defer' = defer
      PROVE  Queued(t)' /\ \A u \in Task : Queued(u) => Queued(u)'
  BY <1>3 DEF Queued
<1>4. ASSUME t \in rq, rq' = rq, defer' = defer
      PROVE  Queued(t)' /\ \A u \in Task : Queued(u) => Queued(u)'
  BY <1>4 DEF Queued
<1>5. CASE on_cpu[t] # NoCpu /\ HasRoom(on_cpu[t], t)
  BY <1>1, <1>2, <1>5 DEF Enqueue, TypeOK
<1>6. CASE ~(on_cpu[t] # NoCpu /\ HasRoom(on_cpu[t], t))
  <2>1. sched_rq_push(t)
    BY <1>6 DEF Enqueue
  <2>2. CASE t \notin rq /\ pinned[t] # NoCpu /\ HasRoom(pinned[t], t)
    BY <1>1, <1>2, <2>1, <2>2 DEF sched_rq_push, TypeOK
  <2>3. CASE ~(t \notin rq /\ pinned[t] # NoCpu /\ HasRoom(pinned[t], t))
    BY <1>1, <1>3, <1>4, <2>1, <2>3 DEF sched_rq_push, sched_rq_insert
  <2> QED
    BY <2>2, <2>3
<1> QED
  BY <1>5, <1>6

\* Enqueueing t keeps every task found, whatever happens to t's wait entry.
LEMMA EnqueueFound ==
  ASSUME TypeOK, AllFound, NEW t \in Task, NEW s \in Asleep \cup {"READY"}, Enqueue(t, s),
         UNCHANGED <<cur, prev>>,
         \A c \in Cpu : phase[c] = "publish" => phase'[c] = "publish" \/ prev[c] \in {t, Idle},
         \A u \in Task : u # t /\ u \in wq => u \in wq'
  PROVE  AllFound'
<1>1. /\ state' = [state EXCEPT ![t] = "READY"]
      /\ Queued(t)' /\ \A u \in Task : Queued(u) => Queued(u)'
  BY EnqueueFinds
<1> SUFFICES ASSUME NEW u \in Task PROVE Found(u)'
  BY DEF AllFound
<1>2. CASE u = t
  BY <1>1, <1>2 DEF Found, TypeOK
<1>3. CASE u # t
  BY <1>1, <1>3, SchedAssumption DEF AllFound, Found, TypeOK
<1> QED
  BY <1>2, <1>3

\* So does a wake, which unlinks t first.
LEMMA WakeFound ==
  ASSUME TypeOK, AllFound, NEW t \in Task, proc_wake(t), wq' = wq \ {t},
         UNCHANGED <<cur, prev, phase>>
  PROVE  AllFound'
<1>1. CASE state[t] \in Asleep
  BY <1>1, EnqueueFound DEF proc_wake
<1>2. CASE state[t] \notin Asleep
  BY <1>2 DEF proc_wake, AllFound, Found, Queued, Asleep
<1> QED
  BY <1>1, <1>2

\* wake_up() unlinks the waiter and wakes it in one step: it stays found.
LEMMA WakeOneFound ==
  ASSUME TypeOK, AllFound, WakeOne, UNCHANGED <<cur, prev, phase>>
  PROVE  AllFound'
<1>1. CASE wq = {}
  BY <1>1 DEF WakeOne, AllFound, Found, Queued
<1>2. CASE wq # {}
  BY <1>2, WakeFound DEF WakeOne, TypeOK
<1> QED
  BY <1>1, <1>2

\* Steps that change at most the state of one task, away from READY, RUNNING
\* and BLOCKED, or to where it is found, and move no other task.
LEMMA StateFound ==
  ASSUME TypeOK, AllFound, NEW t \in Task, NEW s \in States, state' = [state EXCEPT ![t] = s],
         UNCHANGED <<cur, prev>>,
         \A c \in Cpu : phase[c] = "publish" => phase'[c] = "publish",
         \A u \in Task : u # t => (Queued(u) => Queued(u)') /\ (u \in wq => u \in wq'),
         Found(t)'
  PROVE  AllFound'
<1> SUFFICES ASSUME NEW u \in Task, u # t PROVE Found(u)'
  BY DEF AllFound
<1> QED
  BY DEF AllFound, Found, TypeOK

\* The core's own steps of sched_schedule() and of the switch
LEMMA ScheduleFound ==
  ASSUME TypeOK, AllFound, NEW c \in Cpu, Schedule(c)
  PROVE  AllFound'
<1> USE DEF taskVars, waitVars, coreVars
<1>1. CASE DrainOne(c)
  <2>1. /\ UNCHANGED <<cur, prev, phase, wq>>
        /\ \E t \in todo :
             \/ UNCHANGED <<state, rq, defer>>
             \/ /\ defer' = [defer EXCEPT ![c] = @ \ {t}]
                /\ \/ state' = [state EXCEPT ![t] = "READY"] /\ rq' = rq \cup {t}
                   \/ state[t] # "READY" /\ UNCHANGED <<state, rq>>
    BY <1>1 DEF DrainOne, sched_rq_insert
  <2>2. PICK t \in Task :
             \/ UNCHANGED <<state, rq, defer>>
             \/ /\ defer' = [defer EXCEPT ![c] = @ \ {t}]
                /\ \/ state' = [state EXCEPT ![t] = "READY"] /\ rq' = rq \cup {t}
                   \/ state[t] # "READY" /\ UNCHANGED <<state, rq>>
    BY <2>1 DEF TypeOK
  <2>3. CASE UNCHANGED <<state, rq, defer>>
    BY <2>1, <2>3 DEF AllFound, Found, Queued
  <2>4. CASE /\ defer' = [defer EXCEPT ![c] = @ \ {t}]
             /\ state' = [state EXCEPT ![t] = "READY"] /\ rq' = rq \cup {t}
    <3>1. \A u \in Task : u # t => (Queued(u) => Queued(u)')
      BY <2>4 DEF Queued, TypeOK
    <3>2. Found(t)'
      BY <2>4 DEF Found, Queued, TypeOK
    <3> QED
      BY <2>1, <2>4, <3>1, <3>2, StateFound DEF States
  <2>5. CASE /\ defer' = [defer EXCEPT ![c] = @ \ {t}]
             /\ state[t] # "READY" /\ UNCHANGED <<state, rq>>
    <3>1. \A u \in Task : u # t => (Queued(u) => Queued(u)')
      BY <2>5 DEF Queued, TypeOK
    <3> QED
      BY <2>1, <2>5, <3>1 DEF AllFound, Found
  <2> QED
    BY <2>2, <2>3, <2>4, <2>5
<1>2. CASE SweepOne(c)
  <2>1. PICK t \in Task : Enqueue(t, "READY") \/ UNCHANGED <<state, rq, defer>>
    BY <1>2 DEF SweepOne, TypeOK
  <2>2. UNCHANGED <<cur, prev, phase, wq>>
    BY <1>2 DEF SweepOne
  <2>3. CASE Enqueue(t, "READY")
    BY <2>2, <2>3, EnqueueFound
  <2>4. CASE UNCHANGED <<state, rq, defer>>
    BY <2>2, <2>4 DEF AllFound, Found, Queued
  <2> QED
    BY <2>1, <2>3, <2>4
<1>3. CASE SweepAlarm(c)
  BY <1>3, WakeFound, SchedAssumption DEF SweepAlarm
<1>4. CASE PickTask(c)
  <2>1. PICK t \in Task : /\ rq' = rq \ {t} /\ state' = [state EXCEPT ![t] = "RUNNING"]
                          /\ cur' = [cur EXCEPT ![c] = t]
    BY <1>4 DEF PickTask, sched_rq_unlink, StartSwitch
  <2>2. /\ prev' = [prev EXCEPT ![c] = cur[c]] /\ phase' = [phase EXCEPT ![c] = "publish"]
        /\ phase[c] = "pick" /\ UNCHANGED <<defer, wq>>
    BY <1>4 DEF PickTask, StartSwitch
  <2> SUFFICES ASSUME NEW u \in Task PROVE Found(u)'
    BY DEF AllFound
  <2>3. CASE u = t
    BY <2>1, <2>2, <2>3 DEF Found, TypeOK
  <2>4. CASE u # t
    BY <2>1, <2>2, <2>4 DEF AllFound, Found, Queued, TypeOK
  <2> QED
    BY <2>3, <2>4
<1>5. CASE PickIdle(c)
  <2>1. /\ prev' = [prev EXCEPT ![c] = cur[c]] /\ phase' = [phase EXCEPT ![c] = "publish"]
        /\ cur' = [cur EXCEPT ![c] = Idle]
        /\ phase[c] = "pick" /\ UNCHANGED <<state, rq, defer, wq>>
    BY <1>5 DEF PickIdle, NothingToPop, StartSwitch
  <2> QED
    BY <2>1 DEF AllFound, Found, Queued, TypeOK
<1>6. CASE Publish(c)
  <2>1. /\ phase' = [phase EXCEPT ![c] = "switch"] /\ UNCHANGED <<cur, prev, wq>>
    BY <1>6 DEF Publish
  <2>2. CASE prev[c] # Idle /\ state[prev[c]] = "RUNNING"
    <3>1. prev[c] \in Task /\ Enqueue(prev[c], "READY")
      BY <1>6, <2>2 DEF Publish, TypeOK
    <3> QED
      BY <2>1, <3>1, EnqueueFound DEF TypeOK
  <2>3. CASE ~(prev[c] # Idle /\ state[prev[c]] = "RUNNING")
    <3>1. UNCHANGED <<state, rq, defer>>
      BY <1>6, <2>3 DEF Publish
    <3> QED
      BY <2>1, <2>3, <3>1, SchedAssumption DEF AllFound, Found, Queued, TypeOK
  <2> QED
    BY <2>2, <2>3
<1>7. CASE \/ DrainDone(c) \/ SweepDone(c) \/ StayIdle(c)
           \/ SwitchStack(c) \/ ReleasePrev(c) \/ Unpin(c)
  <2>1. /\ UNCHANGED <<state, rq, defer, cur, wq>>
        /\ \A d \in Cpu : phase[d] = "publish" => phase'[d] = "publish" /\ prev'[d] = prev[d]
    BY <1>7 DEF DrainDone, SweepDone, StayIdle, NothingToPop, SwitchStack, ReleasePrev, Unpin,
         TypeOK
  <2> QED
    BY <2>1 DEF AllFound, Found, Queued
<1> QED
  BY <1>1, <1>2, <1>3, <1>4, <1>5, <1>6, <1>7 DEF Schedule

\* The steps of a task in the kernel
LEMMA KernelFound ==
  ASSUME TypeOK, AllFound, NEW c \in Cpu, Kernel(c)
  PROVE  AllFound'
<1> USE DEF taskVars, waitVars, coreVars
<1>1. CASE Wake(c) \/ ExitNotify(c)
  BY <1>1, WakeOneFound DEF Wake, ExitNotify
<1>2. CASE Signal(c)
  BY <1>2, WakeFound, SchedAssumption DEF Signal
<1>3. CASE proc_yield(c)
  <2>1. PICK t \in Task : Enqueue(t, "READY") /\ phase[c] = "run"
    BY <1>3 DEF proc_yield, In, At
  <2>2. UNCHANGED <<cur, prev, wq>> /\ phase' = [phase EXCEPT ![c] = "drain"]
    BY <1>3 DEF proc_yield, ScheduleEntry
  <2> QED
    BY <2>1, <2>2, EnqueueFound DEF TypeOK
<1>4. CASE proc_sleep(c) \/ WaitSleep(c)
  <2>1. PICK t \in Task : state' \in {state, [state EXCEPT ![t] = "SLEEPING"]} /\ phase[c] = "run"
    BY <1>4 DEF proc_sleep, WaitSleep, In, At
  <2>2. UNCHANGED <<cur, prev, wq, rq, defer>> /\ phase' = [phase EXCEPT ![c] = "drain"]
    BY <1>4 DEF proc_sleep, WaitSleep, ScheduleEntry
  <2> QED
    BY <2>1, <2>2 DEF AllFound, Found, Queued, TypeOK
<1>5. CASE proc_exit(c)
  <2>1. PICK t \in Task : /\ state' = [state EXCEPT ![t] = "ZOMBIE"] /\ rq' = rq \ {t}
                          /\ phase[c] = "run"
    BY <1>5 DEF proc_exit, sched_rq_unlink, In, At
  <2>2. UNCHANGED <<cur, prev, wq, defer>> /\ phase' = [phase EXCEPT ![c] = "notify"]
    BY <1>5 DEF proc_exit
  <2> QED
    BY <2>1, <2>2 DEF AllFound, Found, Queued, TypeOK
<1>6. CASE proc_reap(c)
  BY <1>6 DEF proc_reap, AllFound, Found, Queued, TypeOK
<1>7. CASE proc_create(c)
  <2>1. PICK n \in Task : state' = [state EXCEPT ![n] = "READY"] /\ rq' = rq \cup {n}
    BY <1>7 DEF proc_create, init_proc, sched_rq_insert
  <2>2. UNCHANGED <<cur, prev, phase, wq, defer>>
    BY <1>7 DEF proc_create
  <2> QED
    BY <2>1, <2>2 DEF AllFound, Found, Queued, TypeOK
<1>8. CASE WaitPrepare(c)
  <2>1. PICK t \in Task : state' = [state EXCEPT ![t] = "BLOCKED"] /\ wq' = wq \cup {t}
    BY <1>8 DEF WaitPrepare, sched_self_block
  <2>2. UNCHANGED <<cur, prev, phase, rq, defer>>
    BY <1>8 DEF WaitPrepare
  <2> QED
    BY <2>1, <2>2 DEF AllFound, Found, Queued, TypeOK
<1>9. CASE WaitRecheck(c) \/ WaitDone(c)
  <2>1. PICK t \in Task :
          \/ UNCHANGED <<state, wq>>
          \/ wq' = wq \ {t} /\ UNCHANGED state /\ state[t] # "BLOCKED"
          \/ wq' = wq \ {t} /\ state' = [state EXCEPT ![t] = "RUNNING"] /\ cur[c] = t
    BY <1>9 DEF WaitRecheck, WaitDone, Finish, sched_self_running, In, At, Asleep
  <2>2. UNCHANGED <<cur, prev, phase, rq, defer>>
    BY <1>9 DEF WaitRecheck, WaitDone
  <2> QED
    BY <2>1, <2>2 DEF AllFound, Found, Queued, TypeOK
<1>10. CASE \/ Enter(c) \/ Reacquire(c) \/ Leave(c) \/ SleepReturn(c) \/ ExitSchedule(c)
            \/ WaitStart(c) \/ WaitCheck(c)
  <2>1. /\ UNCHANGED <<state, rq, defer, cur, prev, wq>>
        /\ \A d \in Cpu : phase[d] = "publish" => phase'[d] = "publish"
    BY <1>10 DEF Enter, Reacquire, Leave, SleepReturn, ExitSchedule, WaitStart, WaitCheck,
         ScheduleEntry, TypeOK
  <2> QED
    BY <2>1 DEF AllFound, Found, Queued
<1> QED
  BY <1>1, <1>2, <1>3, <1>4, <1>5, <1>6, <1>7, <1>8, <1>9, <1>10 DEF Kernel

\* AllFound holds throughout, whoever wakes the waiters.
LEMMA FoundInvariant == Spec => []AllFound
<1>1. Init => AllFound
  BY DEF Init, AllFound, Found, Queued
<1>2. TypeOK /\ AllFound /\ [Next]_vars => AllFound'
  <2> SUFFICES ASSUME TypeOK, AllFound, [Next]_vars PROVE AllFound'
    OBVIOUS
  <2>1. ASSUME NEW c \in Cpu, Tick(c) \/ ApTick(c) \/ ApIdle(c) PROVE AllFound'
    <3>1. /\ UNCHANGED <<state, rq, defer, cur, prev, wq>>
          /\ \A d \in Cpu : phase[d] = "publish" => phase'[d] = "publish"
      BY <2>1 DEF Tick, ApTick, ApIdle, CanInterrupt, ScheduleEntry, waitVars, TypeOK
    <3> QED
      BY <3>1 DEF AllFound, Found, Queued
  <2>2. ASSUME NEW c \in Cpu, IrqWake(c) PROVE AllFound'
    BY <2>2, WakeOneFound DEF IrqWake, coreVars
  <2>3. ASSUME NEW t \in Task, Deadline(t) PROVE AllFound'
    BY <2>3 DEF Deadline, taskVars, coreVars, AllFound, Found, Queued
  <2>4. CASE UNCHANGED vars
    BY <2>4 DEF vars, taskVars, coreVars, waitVars, AllFound, Found, Queued
  <2> QED
    BY <2>1, <2>2, <2>3, <2>4, ScheduleFound, KernelFound DEF Next
<1> QED
  BY <1>1, <1>2, TypeCorrect, PTL DEF Spec

\* A live task never drops out of the scheduler, with ticks, signals and wakes
\* from interrupt handlers anywhere and the deferral tables full or not.
THEOREM TasksStayFound == Spec => []NoTaskLost
<1>1. TypeOK /\ AllFound => NoTaskLost
  <2> SUFFICES ASSUME TypeOK, AllFound, NEW t \in Task
               PROVE  \/ state[t] \in {"UNUSED", "ZOMBIE"}
                      \/ \E c \in Cpu : t \in {cur[c], prev[c]}
                      \/ Queued(t)
                      \/ state[t] = "BLOCKED" /\ t \in wq
                      \/ state[t] = "SLEEPING"
    BY DEF NoTaskLost, Queued
  <2>1. state[t] \in States
    BY DEF TypeOK
  <2> QED
    BY <2>1 DEF AllFound, Found, States
<1> QED
  BY <1>1, FoundInvariant, TypeCorrect, PTL
-----------------------------------------------------------------------------
(* Sleeps last *)

\* A slot without a live task has run into the end of proc_exit.
DeadSlots == \A t \in Task : state[t] \in {"ZOMBIE", "UNUSED"} => pc[t] = "dead"

\* A linked wait entry belongs to a task inside its wait: never to one in
\* proc_sleep, which a wake_up() would end early.
LinkedWaits == \A t \in wq : pc[t] \in {"recheck", "sleep"}

\* The sweep only wakes tasks whose time has come.
SweepDue == \A c \in Cpu : phase[c] = "sweep" => todo \subseteq due

\* Until then a task in proc_sleep is SLEEPING.
Naps(t) == t \notin Signalled /\ pc[t] = "napping" /\ t \notin due => state[t] = "SLEEPING"
AllNap == \A t \in Task : Naps(t)

NapInv == DeadSlots /\ LinkedWaits /\ SweepDue /\ AllNap

\* A step that only wakes, or otherwise enqueues, one task: it must not be one
\* in proc_sleep before its time.
LEMMA EnqueueNaps ==
  ASSUME TypeOK, NapInv, NEW t \in Task, NEW s \in Asleep \cup {"READY"}, Enqueue(t, s),
         t \in Signalled \/ pc[t] # "napping" \/ t \in due,
         wq' \subseteq wq, UNCHANGED <<due, pc>>
  PROVE  DeadSlots' /\ LinkedWaits' /\ AllNap'
<1>1. state' = [state EXCEPT ![t] = "READY"]
  BY EnqueueFinds
<1> QED
  BY <1>1 DEF NapInv, DeadSlots, LinkedWaits, AllNap, Naps, TypeOK

\* A wake of a task that is not in proc_sleep, or that a signal is raised at
LEMMA WakeNaps ==
  ASSUME TypeOK, NapInv, NEW t \in Task, proc_wake(t),
         t \in Signalled \/ pc[t] # "napping",
         wq' \subseteq wq, UNCHANGED <<due, pc, phase, todo>>
  PROVE  NapInv'
<1>1. SweepDue'
  BY DEF NapInv, SweepDue
<1>2. CASE state[t] \in Asleep
  BY <1>1, <1>2, EnqueueNaps DEF proc_wake, NapInv
<1>3. CASE state[t] \notin Asleep
  BY <1>1, <1>3 DEF proc_wake, NapInv, DeadSlots, LinkedWaits, AllNap, Naps
<1> QED
  BY <1>2, <1>3

\* wake_up() only reaches linked tasks, so none in proc_sleep.
LEMMA WakeOneNaps ==
  ASSUME TypeOK, NapInv, WakeOne, UNCHANGED <<due, pc, phase, todo>>
  PROVE  NapInv'
<1>1. CASE wq = {}
  BY <1>1 DEF WakeOne, NapInv, DeadSlots, LinkedWaits, SweepDue, AllNap, Naps
<1>2. CASE wq # {}
  <2>1. PICK t \in wq : wq' = wq \ {t} /\ proc_wake(t)
    BY <1>2 DEF WakeOne
  <2>2. t \in Task /\ pc[t] # "napping"
    BY DEF NapInv, LinkedWaits, TypeOK
  <2> QED
    BY <2>1, <2>2, WakeNaps
<1> QED
  BY <1>1, <1>2

\* The lock keeps every other core out of the sweep.
LEMMA NobodySweeps ==
  ASSUME Inv, NEW c \in Cpu, bkl \in {c, NoCpu}, phase[c] # "sweep"
  PROVE  \A d \in Cpu : phase[d] # "sweep"
BY SchedAssumption DEF Inv, LockHeld, Locked

\* The core's own steps of sched_schedule() and of the switch
LEMMA ScheduleNaps ==
  ASSUME TypeOK, Inv, NapInv, NEW c \in Cpu, Schedule(c)
  PROVE  NapInv'
<1> USE DEF taskVars, waitVars, coreVars
<1>1. CASE DrainOne(c)
  <2>1. PICK t \in todo : state' \in {state, [state EXCEPT ![t] = "READY"]} /\ todo' = todo \ {t}
    BY <1>1 DEF DrainOne
  <2>2. UNCHANGED <<wq, due, pc, phase>>
    BY <1>1 DEF DrainOne
  <2>3. t \in Task /\ state[t] = "READY"
    BY <1>1 DEF DrainOne, Inv, DrainTodo, QueuedReady, Queued, TypeOK
  <2> QED
    BY <2>1, <2>2, <2>3 DEF NapInv, DeadSlots, LinkedWaits, SweepDue, AllNap, Naps, TypeOK
<1>2. CASE DrainDone(c)
  <2>1. /\ UNCHANGED <<state, wq, due, pc>> /\ todo' = due
    BY <1>2 DEF DrainDone
  <2> QED
    BY <2>1 DEF NapInv, DeadSlots, LinkedWaits, SweepDue, AllNap, Naps
<1>3. CASE SweepOne(c)
  <2>1. PICK t \in todo : /\ todo' = todo \ {t}
                          /\ Enqueue(t, "READY") \/ UNCHANGED <<state, rq, defer>>
    BY <1>3 DEF SweepOne
  <2>2. phase[c] = "sweep" /\ UNCHANGED <<wq, due, pc, phase>>
    BY <1>3 DEF SweepOne
  <2>3. t \in Task /\ t \in due
    BY <2>2 DEF NapInv, SweepDue, TypeOK
  <2>4. SweepDue'
    BY <2>1, <2>2 DEF NapInv, SweepDue
  <2>5. CASE Enqueue(t, "READY")
    BY <2>2, <2>3, <2>4, <2>5, EnqueueNaps DEF NapInv
  <2>6. CASE UNCHANGED <<state, rq, defer>>
    BY <2>2, <2>4, <2>6 DEF NapInv, DeadSlots, LinkedWaits, AllNap, Naps
  <2> QED
    BY <2>1, <2>5, <2>6
<1>4. CASE SweepAlarm(c)
  <2>1. PICK t \in Signalled : proc_wake(t) /\ wq' = wq \ {t}
    BY <1>4 DEF SweepAlarm
  <2>2. UNCHANGED <<due, pc, phase, todo>>
    BY <1>4 DEF SweepAlarm
  <2> QED
    BY <2>1, <2>2, WakeNaps, SchedAssumption
<1>5. CASE PickTask(c)
  <2>1. PICK t \in Task : /\ state' = [state EXCEPT ![t] = "RUNNING"]
                          /\ state[t] \in {"READY", "RUNNING"}
    BY <1>5 DEF PickTask, Eligible
  <2>2. /\ phase' = [phase EXCEPT ![c] = "publish"] /\ UNCHANGED <<wq, due, pc, todo>>
    BY <1>5 DEF PickTask, StartSwitch
  <2> QED
    BY <2>1, <2>2 DEF NapInv, DeadSlots, LinkedWaits, SweepDue, AllNap, Naps, TypeOK
<1>6. CASE Publish(c)
  <2>1. phase' = [phase EXCEPT ![c] = "switch"] /\ UNCHANGED <<wq, due, pc, todo>>
    BY <1>6 DEF Publish
  <2>2. SweepDue'
    BY <2>1 DEF NapInv, SweepDue, TypeOK
  <2>3. CASE prev[c] # Idle /\ state[prev[c]] = "RUNNING"
    <3>1. prev[c] \in Task /\ Enqueue(prev[c], "READY")
      BY <1>6, <2>3 DEF Publish, TypeOK
    <3>2. prev[c] \in Signalled \/ pc[prev[c]] # "napping" \/ prev[c] \in due
      BY <2>3, <3>1 DEF NapInv, AllNap, Naps
    <3> QED
      BY <2>1, <2>2, <3>1, <3>2, EnqueueNaps DEF NapInv
  <2>4. CASE ~(prev[c] # Idle /\ state[prev[c]] = "RUNNING")
    BY <1>6, <2>1, <2>2, <2>4 DEF Publish, NapInv, DeadSlots, LinkedWaits, AllNap, Naps
  <2> QED
    BY <2>3, <2>4
<1>7. CASE \/ SweepDone(c) \/ PickIdle(c) \/ StayIdle(c)
           \/ SwitchStack(c) \/ ReleasePrev(c) \/ Unpin(c)
  <2>1. /\ UNCHANGED <<state, wq, due, pc, todo>>
        /\ \A d \in Cpu : phase'[d] = "sweep" => phase[d] = "sweep"
    BY <1>7 DEF SweepDone, PickIdle, StayIdle, NothingToPop, StartSwitch, SwitchStack,
         ReleasePrev, Unpin, TypeOK
  <2> QED
    BY <2>1 DEF NapInv, DeadSlots, LinkedWaits, SweepDue, AllNap, Naps
<1> QED
  BY <1>1, <1>2, <1>3, <1>4, <1>5, <1>6, <1>7 DEF Schedule

\* A step of the task t that core c runs: only its own record changes, and it
\* is not inside proc_sleep afterwards, or SLEEPING there.
LEMMA OwnStepNaps ==
  ASSUME TypeOK, NapInv, NEW c \in Cpu, NEW t \in Task, NEW s, NEW p,
         pc[t] # "dead" \/ (s = state[t] /\ p = pc[t]),
         state' = [state EXCEPT ![t] = s], pc' = [pc EXCEPT ![t] = p],
         s \notin {"ZOMBIE", "UNUSED"} \/ p = "dead",
         p = "napping" => s = "SLEEPING",
         wq' \subseteq wq \cup {t}, t \in wq' => p \in {"recheck", "sleep"},
         \A u \in Task : u # t /\ u \in due => u \in due',
         \A d \in Cpu : phase'[d] # "sweep"
  PROVE  NapInv'
<1>1. DeadSlots'
  BY DEF NapInv, DeadSlots, TypeOK
<1>2. LinkedWaits'
  BY DEF NapInv, LinkedWaits, TypeOK
<1>3. AllNap'
  BY DEF NapInv, AllNap, Naps, TypeOK
<1> QED
  BY <1>1, <1>2, <1>3 DEF NapInv, SweepDue
\* The steps of a task in the kernel
LEMMA KernelNaps ==
  ASSUME TypeOK, Inv, NapInv, NEW c \in Cpu, Kernel(c)
  PROVE  NapInv'
<1> USE DEF taskVars, waitVars, coreVars
<1>1. CASE Wake(c) \/ ExitNotify(c)
  BY <1>1, WakeOneNaps DEF Wake, ExitNotify
<1>2. CASE Signal(c)
  <2>1. PICK u \in Signalled : proc_wake(u) /\ wq' = wq \ {u}
    BY <1>2 DEF Signal
  <2> QED
    BY <1>2, <2>1, WakeNaps, SchedAssumption DEF Signal
<1>3. CASE proc_yield(c)
  <2>1. PICK t \in Task : In(c, t, "kern") /\ Enqueue(t, "READY")
    BY <1>3 DEF proc_yield
  <2>2. UNCHANGED <<wq, due, pc>> /\ phase' = [phase EXCEPT ![c] = "drain"]
    BY <1>3 DEF proc_yield, ScheduleEntry
  <2>3. SweepDue'
    BY <2>1, <2>2, NobodySweeps DEF In, At, SweepDue, TypeOK
  <2> QED
    BY <2>1, <2>2, <2>3, EnqueueNaps DEF NapInv, In, At
<1>4. CASE proc_create(c)
  <2>1. PICK n \in Task : /\ state[n] = "UNUSED"
                          /\ state' = [state EXCEPT ![n] = "READY"]
                          /\ pc' = [pc EXCEPT ![n] = "user"]
    BY <1>4 DEF proc_create, alloc_proc_slot, init_proc, Goto
  <2>2. UNCHANGED <<wq, due, todo, phase>>
    BY <1>4 DEF proc_create
  <2>3. n \notin wq
    BY <2>1 DEF NapInv, DeadSlots, LinkedWaits
  <2> QED
    BY <2>1, <2>2, <2>3 DEF NapInv, DeadSlots, LinkedWaits, SweepDue, AllNap, Naps, TypeOK
<1>5. CASE proc_reap(c)
  <2>1. PICK z \in Task : state[z] = "ZOMBIE" /\ state' = [state EXCEPT ![z] = "UNUSED"]
    BY <1>5 DEF proc_reap
  <2>2. UNCHANGED <<wq, due, todo, phase, pc>>
    BY <1>5 DEF proc_reap
  <2> QED
    BY <2>1, <2>2 DEF NapInv, DeadSlots, LinkedWaits, SweepDue, AllNap, Naps, TypeOK
<1>6. CASE Reacquire(c)
  BY <1>6 DEF Reacquire, NapInv, DeadSlots, LinkedWaits, SweepDue, AllNap, Naps
<1>7. CASE ExitSchedule(c)
  <2>1. UNCHANGED <<state, wq, due, pc>> /\ phase' = [phase EXCEPT ![c] = "drain"]
    BY <1>7 DEF ExitSchedule, ScheduleEntry
  <2>2. phase[c] = "notify" /\ bkl = c
    BY <1>7 DEF ExitSchedule, Inv, LockHeld, Locked
  <2>3. SweepDue'
    BY <2>1, <2>2, NobodySweeps DEF SweepDue, TypeOK
  <2> QED
    BY <2>1, <2>3 DEF NapInv, DeadSlots, LinkedWaits, AllNap, Naps
<1>8. CASE proc_exit(c)
  <2>1. PICK t \in Task : /\ In(c, t, "kern") /\ state' = [state EXCEPT ![t] = "ZOMBIE"]
                          /\ pc' = [pc EXCEPT ![t] = "dead"]
    BY <1>8 DEF proc_exit, Goto
  <2>2. UNCHANGED <<wq, due>> /\ phase' = [phase EXCEPT ![c] = "notify"]
    BY <1>8 DEF proc_exit
  <2>3. \A d \in Cpu : phase'[d] # "sweep"
    BY <2>1, <2>2, NobodySweeps DEF In, At, TypeOK
  <2>4. pc[t] # "dead" /\ t \notin wq
    BY <2>1 DEF NapInv, LinkedWaits, In, At
  <2> QED
    BY <2>1, <2>2, <2>3, <2>4, OwnStepNaps
<1>9. CASE \/ Enter(c) \/ Leave(c) \/ proc_sleep(c) \/ SleepReturn(c)
           \/ WaitStart(c) \/ WaitCheck(c) \/ WaitPrepare(c) \/ WaitRecheck(c)
           \/ WaitSleep(c) \/ WaitDone(c)
  <2>1. /\ phase[c] = "run" /\ bkl \in {c, NoCpu}
        /\ \A d \in Cpu : d # c => phase'[d] = phase[d]
        /\ phase'[c] \in {"run", "drain"}
    BY <1>9 DEF Enter, Leave, proc_sleep, SleepReturn, WaitStart, WaitCheck,
         WaitPrepare, WaitRecheck, WaitSleep, WaitDone, In, At, ScheduleEntry, TypeOK
  <2>2. \A d \in Cpu : phase'[d] # "sweep"
    BY <2>1, NobodySweeps
  <2>3. PICK t \in Task : \E s, p :
          /\ pc[t] \in {"user", "kern", "check", "prepare", "recheck", "sleep", "napping"}
          /\ state' = [state EXCEPT ![t] = s] /\ pc' = [pc EXCEPT ![t] = p]
          /\ \/ s = state[t] /\ p \notin {"napping", "dead"}
             \/ s \in {"BLOCKED", "RUNNING", "SLEEPING"} /\ p \notin {"napping", "dead"}
             \/ s = "SLEEPING" /\ p = "napping" /\ pc[t] = "kern" /\ wq' = wq
          /\ \/ wq' \subseteq wq \ {t}
             \/ wq' \subseteq wq /\ pc[t] \notin {"recheck", "sleep"}
             \/ wq' \subseteq wq \cup {t} /\ p \in {"recheck", "sleep"}
          /\ \A u \in Task : u # t /\ u \in due => u \in due'
    <3>1. CASE Enter(c)
      <4>1. PICK t \in Task : At(c, t, "user") /\ Goto(t, "kern")
        BY <3>1 DEF Enter
      <4>2. state' = [state EXCEPT ![t] = state[t]] /\ UNCHANGED <<wq, due>>
        BY <3>1 DEF Enter, TypeOK
      <4> QED BY <4>1, <4>2 DEF At, Goto
    <3>2. CASE Leave(c)
      <4>1. PICK t \in Task : In(c, t, "kern") /\ Goto(t, "user")
        BY <3>2 DEF Leave
      <4>2. state' = [state EXCEPT ![t] = state[t]] /\ UNCHANGED <<wq, due>>
        BY <3>2 DEF Leave, TypeOK
      <4> QED BY <4>1, <4>2 DEF In, At, Goto
    <3>3. CASE proc_sleep(c)
      BY <3>3 DEF proc_sleep, In, At, Goto
    <3>4. CASE SleepReturn(c)
      <4>1. PICK t \in Task : In(c, t, "napping") /\ Goto(t, "kern") /\ due' = due \ {t}
        BY <3>4 DEF SleepReturn
      <4>2. state' = [state EXCEPT ![t] = state[t]] /\ UNCHANGED wq
        BY <3>4 DEF SleepReturn, TypeOK
      <4> QED BY <4>1, <4>2 DEF In, At, Goto
    <3>5. CASE WaitStart(c)
      <4>1. PICK t \in Task : In(c, t, "kern") /\ Goto(t, "check")
        BY <3>5 DEF WaitStart
      <4>2. state' = [state EXCEPT ![t] = state[t]] /\ UNCHANGED <<wq, due>>
        BY <3>5 DEF WaitStart, TypeOK
      <4> QED BY <4>1, <4>2 DEF In, At, Goto
    <3>6. CASE WaitCheck(c)
      <4>1. PICK t \in Task : /\ In(c, t, "check") /\ due' \in {due, due \ {t}}
                              /\ Goto(t, "kern") \/ Goto(t, "prepare")
        BY <3>6 DEF WaitCheck
      <4>2. state' = [state EXCEPT ![t] = state[t]] /\ UNCHANGED wq
        BY <3>6 DEF WaitCheck, TypeOK
      <4> QED BY <4>1, <4>2 DEF In, At, Goto
    <3>7. CASE WaitPrepare(c)
      BY <3>7 DEF WaitPrepare, sched_self_block, In, At, Goto
    <3>8. CASE WaitRecheck(c)
      <4>1. PICK t \in Task : /\ In(c, t, "recheck")
                              /\ IF cond THEN /\ Goto(t, "kern") /\ Finish(t)
                                              /\ due' = due \ {t}
                                 ELSE Goto(t, "sleep") /\ UNCHANGED <<state, wq, due>>
        BY <3>8 DEF WaitRecheck
      <4>2. state' \in {[state EXCEPT ![t] = state[t]], [state EXCEPT ![t] = "RUNNING"]}
        BY <4>1 DEF Finish, sched_self_running, TypeOK
      <4> QED BY <4>1, <4>2 DEF In, At, Goto, Finish
    <3>9. CASE WaitSleep(c)
      <4>1. PICK t \in Task : /\ In(c, t, "sleep")
                              /\ state' = IF t \in timed THEN [state EXCEPT ![t] = "SLEEPING"]
                                          ELSE state
        BY <3>9 DEF WaitSleep
      <4>2. state' \in {[state EXCEPT ![t] = state[t]], [state EXCEPT ![t] = "SLEEPING"]}
        BY <4>1 DEF TypeOK
      <4>3. UNCHANGED <<wq, due>> /\ pc' = [pc EXCEPT ![t] = "sleep"]
        BY <3>9, <4>1 DEF WaitSleep, In, At, TypeOK
      <4> QED BY <4>1, <4>2, <4>3 DEF In, At
    <3>10. CASE WaitDone(c)
      <4>1. PICK t \in Task : In(c, t, "sleep") /\ Finish(t) /\ Goto(t, "check")
        BY <3>10 DEF WaitDone
      <4>2. state' \in {[state EXCEPT ![t] = state[t]], [state EXCEPT ![t] = "RUNNING"]}
        BY <4>1 DEF Finish, sched_self_running, TypeOK
      <4>3. UNCHANGED due
        BY <3>10 DEF WaitDone
      <4> QED BY <4>1, <4>2, <4>3 DEF In, At, Goto, Finish
    <3> QED
      BY <1>9, <3>1, <3>2, <3>3, <3>4, <3>5, <3>6, <3>7, <3>8, <3>9, <3>10
  <2>4. PICK s, p :
          /\ pc[t] \in {"user", "kern", "check", "prepare", "recheck", "sleep", "napping"}
          /\ state' = [state EXCEPT ![t] = s] /\ pc' = [pc EXCEPT ![t] = p]
          /\ \/ s = state[t] /\ p \notin {"napping", "dead"}
             \/ s \in {"BLOCKED", "RUNNING", "SLEEPING"} /\ p \notin {"napping", "dead"}
             \/ s = "SLEEPING" /\ p = "napping" /\ pc[t] = "kern" /\ wq' = wq
          /\ \/ wq' \subseteq wq \ {t}
             \/ wq' \subseteq wq /\ pc[t] \notin {"recheck", "sleep"}
             \/ wq' \subseteq wq \cup {t} /\ p \in {"recheck", "sleep"}
          /\ \A u \in Task : u # t /\ u \in due => u \in due'
    BY <2>3
  <2>5. state[t] \notin {"ZOMBIE", "UNUSED"}
    BY <2>4 DEF NapInv, DeadSlots
  <2>6. t \in wq => pc[t] \in {"recheck", "sleep"}
    BY DEF NapInv, LinkedWaits
  <2>7. t \in wq' => p \in {"recheck", "sleep"}
    BY <2>4, <2>6
  <2>8. wq' \subseteq wq \cup {t}
    BY <2>4
  <2>9. /\ pc[t] # "dead"
        /\ s \notin {"ZOMBIE", "UNUSED"} \/ p = "dead"
        /\ p = "napping" => s = "SLEEPING"
    BY <2>4, <2>5
  <2> QED
    BY <2>2, <2>4, <2>7, <2>8, <2>9, OwnStepNaps
<1> QED
  BY <1>1, <1>2, <1>3, <1>4, <1>5, <1>6, <1>7, <1>8, <1>9 DEF Kernel

\* NapInv holds throughout.
LEMMA NapInvariant ==
  ASSUME ~IrqWakes
  PROVE  Spec => []NapInv
<1>1. Init => NapInv
  BY DEF Init, NapInv, DeadSlots, LinkedWaits, SweepDue, AllNap, Naps
<1>2. TypeOK /\ Inv /\ NapInv /\ [Next]_vars => NapInv'
  <2> SUFFICES ASSUME TypeOK, Inv, NapInv, [Next]_vars PROVE NapInv'
    OBVIOUS
  <2>1. ASSUME NEW c \in Cpu, Tick(c) \/ ApTick(c) \/ ApIdle(c) PROVE NapInv'
    <3>1. phase[c] = "run" /\ bkl \in {c, NoCpu}
      BY <2>1 DEF Tick, ApTick, ApIdle, CanInterrupt
    <3>2. UNCHANGED <<state, wq, due, pc>> /\ phase' = [phase EXCEPT ![c] = "drain"]
      BY <2>1 DEF Tick, ApTick, ApIdle, ScheduleEntry, waitVars
    <3>3. SweepDue'
      BY <3>1, <3>2, NobodySweeps DEF SweepDue, TypeOK
    <3> QED
      BY <3>2, <3>3 DEF NapInv, DeadSlots, LinkedWaits, AllNap, Naps
  <2>2. ASSUME NEW t \in Task, Deadline(t) PROVE NapInv'
    BY <2>2 DEF Deadline, taskVars, coreVars, NapInv, DeadSlots, LinkedWaits, SweepDue,
         AllNap, Naps
  <2>3. CASE UNCHANGED vars
    BY <2>3 DEF vars, taskVars, coreVars, waitVars, NapInv, DeadSlots, LinkedWaits, SweepDue,
         AllNap, Naps
  <2>4. \A c \in Cpu : ~IrqWake(c)
    BY DEF IrqWake
  <2> QED
    BY <2>1, <2>2, <2>3, <2>4, ScheduleNaps, KernelNaps DEF Next
<1> QED
  BY <1>1, <1>2, TypeCorrect, Invariance, PTL DEF Spec

\* proc_sleep() does not return early: a task that runs again inside it has its
\* deadline behind it, or a signal was raised at it.  No wake meant for a waiter
\* and no sweep of the tick reaches it sooner.
THEOREM SleepsLast ==
  ASSUME ~IrqWakes
  PROVE  Spec => []SleepsLongEnough
<1>1. TypeOK /\ Inv /\ NapInv => SleepsLongEnough
  <2> SUFFICES ASSUME TypeOK, Inv, NapInv, NEW c \in Cpu, NEW t \in Task \ Signalled,
                      At(c, t, "napping")
               PROVE  t \in due
    BY DEF SleepsLongEnough
  <2>1. state[t] # "SLEEPING"
    BY DEF At, Inv, AllCurMarked, CurMarked
  <2> QED
    BY <2>1 DEF At, NapInv, AllNap, Naps
<1> QED
  BY <1>1, Invariance, NapInvariant, TypeCorrect, PTL
=============================================================================
