-------------------------------- MODULE Sched -------------------------------
(***************************************************************************)
(* The SMP scheduler of kernel/proc/process.c, the wait queue of           *)
(* kernel/sync/waitq.c that parks tasks in it, and the hand-over of a      *)
(* kernel stack in kernel/proc/context_switch.asm.                         *)
(*                                                                         *)
(* All of it runs under the Big Kernel Lock, which sched_schedule() drops  *)
(* just before the switch: from bkl_release_all() until the assembly has   *)
(* cleared prev->sched_on_cpu and next->sched_pinned, other cores run the  *)
(* scheduler while this core is still on the outgoing task's stack.        *)
(*                                                                         *)
(* Abstractions.  The per-core run queues are one set rq: placement,       *)
(* stealing, affinity, priorities and ageing choose which eligible task a  *)
(* core takes and when it finds none, and every choice they can make is    *)
(* allowed.  The idle tasks are one value, Idle: add_to_ready_queue        *)
(* refuses them and nothing wakes one.  A time slice may run out at any    *)
(* tick.  All waiters share one wait queue and one condition, which a      *)
(* waiter consumes.  The switches g_wake_defer_fix, g_enq_pin_fix,         *)
(* g_enq_cpu_fix, g_exit_stack_guard and g_smp_user_sched have the values  *)
(* the kernel boots with (on).                                             *)
(***************************************************************************)
EXTENDS Naturals, FiniteSets

CONSTANTS
  Task,      \* process table slots
  Cpu,       \* cores
  Bsp,       \* the boot processor, whose tick reschedules even when idle
  Idle,      \* what a core runs when it has no task
  NoCpu,     \* "no core": a sched_on_cpu or sched_pinned of 0, a free lock
  DeferMax,  \* SCHED_DEFER_MAX, slots of a core's deferred-enqueue table
  IrqWakes,  \* do interrupt handlers wake waiters?  They do: sched_tick
             \* itself calls proc_child_exit_notify, and drivers wake_up
  Signalled  \* the tasks that signals are raised at

ASSUME SchedAssumption ==
  /\ Idle \notin Task
  /\ NoCpu \notin Cpu
  /\ Bsp \in Cpu
  /\ DeferMax \in Nat \ {0}
  /\ IrqWakes \in BOOLEAN
  /\ Signalled \subseteq Task

VARIABLES
  state,   \* process_t.state
  on_cpu,  \* process_t.sched_on_cpu: the core whose stack still holds it
  pinned,  \* process_t.sched_pinned: the core that has popped it
  at_enq,  \* process_t.sched_state_at_enq
  rq,      \* tasks with rq_queued set
  defer,   \* g_defer: enqueues each core owes
  cur,     \* per_cpu current_process
  prev,    \* the outgoing task of a switch in progress
  phase,   \* how far the core is in sched_schedule()
  todo,    \* tasks the current loop of sched_schedule() has yet to visit
  bkl,     \* owner of the Big Kernel Lock
  wq,      \* tasks whose wait entry is linked
  cond,    \* the condition the waiters wait for
  timed,   \* tasks whose wait has a deadline
  due,     \* tasks whose deadline has passed
  pc       \* where a task is in the kernel

taskVars == <<state, on_cpu, pinned, at_enq, rq, defer>>
coreVars == <<cur, prev, phase, todo, bkl>>
waitVars == <<wq, cond, timed, due>>
vars == <<taskVars, coreVars, waitVars, pc>>

States == {"UNUSED", "READY", "RUNNING", "SLEEPING", "BLOCKED", "ZOMBIE"}
Asleep == {"BLOCKED", "SLEEPING"}
Phases == {"run", "notify", "drain", "sweep", "pick", "publish", "switch", "release", "unpin"}
PCs == {"user", "kern", "check", "prepare", "recheck", "sleep", "napping", "dead"}

\* The task whose kernel stack core c executes on.
Stack(c) == IF phase[c] \in {"publish", "switch"} THEN prev[c] ELSE cur[c]

Init ==
  /\ state = [t \in Task |-> "READY"]
  /\ on_cpu = [t \in Task |-> NoCpu]
  /\ pinned = [t \in Task |-> NoCpu]
  /\ at_enq = [t \in Task |-> "READY"]
  /\ rq = Task
  /\ defer = [c \in Cpu |-> {}]
  /\ cur = [c \in Cpu |-> Idle]
  /\ prev = [c \in Cpu |-> Idle]
  /\ phase = [c \in Cpu |-> "run"]
  /\ todo = {}
  /\ bkl = NoCpu
  /\ wq = {}
  /\ cond = FALSE
  /\ timed = {}
  /\ due = {}
  /\ pc = [t \in Task |-> "user"]
-----------------------------------------------------------------------------
(* Enqueueing *)

\* sched_defer_enqueue succeeds: t has a slot already or one is free.
HasRoom(d, t) == t \in defer[d] \/ Cardinality(defer[d]) < DeferMax

Owe(d, t) == defer' = [defer EXCEPT ![d] = @ \cup {t}] /\ UNCHANGED rq

\* One run queue entry is linked (in priority order) or unlinked.
sched_rq_insert(t) == rq' = rq \cup {t}
sched_rq_unlink(t) == rq' = rq \ {t}

\* sched_rq_push: a task another core has popped is owed to that core instead
sched_rq_push(t) ==
  IF t \in rq THEN UNCHANGED <<rq, defer>>
  ELSE IF pinned[t] # NoCpu /\ HasRoom(pinned[t], t) THEN Owe(pinned[t], t)
  ELSE sched_rq_insert(t) /\ UNCHANGED defer

\* add_to_ready_queue(t), called with t's state being s: a task that is still
\* executing is owed to its core, unless that core's table is full.
Enqueue(t, s) ==
  /\ at_enq' = [at_enq EXCEPT ![t] = s]
  /\ IF on_cpu[t] # NoCpu /\ HasRoom(on_cpu[t], t)
     THEN /\ Owe(on_cpu[t], t)
          /\ state' = [state EXCEPT ![t] = IF s \in Asleep THEN "READY" ELSE s]
     ELSE /\ sched_rq_push(t)
          /\ state' = [state EXCEPT ![t] = "READY"]

\* proc_wake: only a task marked BLOCKED or SLEEPING is enqueued
proc_wake(t) ==
  IF state[t] \in Asleep THEN Enqueue(t, state[t])
  ELSE UNCHANGED <<state, at_enq, rq, defer>>
-----------------------------------------------------------------------------
(* sched_schedule *)

\* Entry: the current task is marked as executing here, then the owed
\* enqueues of this core are visited.  The caller holds the lock afterwards.
ScheduleEntry(c) ==
  /\ on_cpu' = IF cur[c] = Idle THEN on_cpu ELSE [on_cpu EXCEPT ![cur[c]] = c]
  /\ phase' = [phase EXCEPT ![c] = "drain"]
  /\ todo' = defer'[c]
  /\ bkl' = c
  /\ UNCHANGED <<pinned, cur, prev>>

\* The owed task is off its stack and no core has popped it.
Payable(t) == on_cpu[t] = NoCpu /\ pinned[t] = NoCpu

\* sched_drain_deferred, one slot: the debt is paid if the task is still READY,
\* or if it was asleep when the wake was deferred; otherwise it is dropped.
DrainOne(c) ==
  /\ phase[c] = "drain"
  /\ \E t \in todo :
       /\ todo' = todo \ {t}
       /\ IF ~Payable(t) THEN UNCHANGED <<state, at_enq, rq, defer>>
          ELSE /\ defer' = [defer EXCEPT ![c] = @ \ {t}]
               /\ IF state[t] = "READY" \/ at_enq[t] \in Asleep
                  THEN /\ state' = [state EXCEPT ![t] = "READY"]
                       /\ at_enq' = [at_enq EXCEPT ![t] = "READY"]
                       /\ sched_rq_insert(t)
                  ELSE UNCHANGED <<state, at_enq, rq>>
  /\ UNCHANGED <<on_cpu, pinned, cur, prev, phase, bkl, waitVars, pc>>

\* Mutant: the sweep does not compare wake_time with the clock.
SweepEveryone(c) ==
  /\ phase[c] = "drain" /\ todo = {}
  /\ phase' = [phase EXCEPT ![c] = "sweep"]
  /\ todo' = Task
  /\ UNCHANGED <<taskVars, cur, prev, bkl, waitVars, pc>>

\* wake_sleeping_procs reads the clock once: it wakes who is due by now.
DrainDone(c) ==
  /\ phase[c] = "drain" /\ todo = {}
  /\ phase' = [phase EXCEPT ![c] = "sweep"]
  /\ todo' = due
  /\ UNCHANGED <<taskVars, cur, prev, bkl, waitVars, pc>>

\* one slot of the process table that is due
SweepOne(c) ==
  /\ phase[c] = "sweep"
  /\ \E t \in todo :
       /\ todo' = todo \ {t}
       /\ IF state[t] = "SLEEPING" THEN Enqueue(t, "READY")
          ELSE UNCHANGED <<state, at_enq, rq, defer>>
  /\ UNCHANGED <<on_cpu, pinned, cur, prev, phase, bkl, waitVars, pc>>

\* an alarm() that is due raises SIGALRM from inside the sweep
SweepAlarm(c) ==
  /\ phase[c] = "sweep"
  /\ \E t \in Signalled : proc_wake(t) /\ wq' = wq \ {t}
  /\ UNCHANGED <<on_cpu, pinned, coreVars, cond, timed, due, pc>>

SweepDone(c) ==
  /\ phase[c] = "sweep" /\ todo = {}
  /\ phase' = [phase EXCEPT ![c] = "pick"]
  /\ UNCHANGED <<taskVars, cur, prev, todo, bkl, waitVars, pc>>

\* Mutant: sched_on_cpu is not looked at.
EligibleOnStack(t) == t \in rq /\ state[t] \in {"READY", "RUNNING"}

\* What sched_rq_pop may return: a runnable entry whose context is saved.
Eligible(t) == t \in rq /\ state[t] \in {"READY", "RUNNING"} /\ on_cpu[t] = NoCpu

\* The switch to next begins: the outgoing task is marked as executing here
\* again and next becomes the core's current task.
StartSwitch(c, next) ==
  /\ on_cpu' = IF cur[c] = Idle THEN on_cpu ELSE [on_cpu EXCEPT ![cur[c]] = c]
  /\ prev' = [prev EXCEPT ![c] = cur[c]]
  /\ cur' = [cur EXCEPT ![c] = next]
  /\ phase' = [phase EXCEPT ![c] = "publish"]
  /\ UNCHANGED <<at_enq, defer, todo, bkl, waitVars, pc>>

\* A task is popped and pinned by this core, then made RUNNING.
PickTask(c) ==
  /\ phase[c] = "pick"
  /\ \E t \in Task :
       /\ Eligible(t)
       /\ sched_rq_unlink(t)
       /\ pinned' = [pinned EXCEPT ![t] = c]
       /\ state' = [state EXCEPT ![t] = "RUNNING"]
       /\ StartSwitch(c, t)

\* Nothing this core may take.  With one core there is one queue, and the pop
\* takes from it whenever it holds an eligible task.
NothingToPop(c) ==
  /\ phase[c] = "pick"
  /\ Cpu # {c} \/ ~\E t \in Task : Eligible(t)

PickIdle(c) ==
  /\ NothingToPop(c)
  /\ cur[c] # Idle
  /\ UNCHANGED <<rq, pinned, state>>
  /\ StartSwitch(c, Idle)

\* next == cur, only possible for the idle task: it halts with the lock dropped
StayIdle(c) ==
  /\ NothingToPop(c)
  /\ cur[c] = Idle
  /\ phase' = [phase EXCEPT ![c] = "run"]
  /\ bkl' = NoCpu
  /\ UNCHANGED <<taskVars, cur, prev, todo, waitVars, pc>>

\* Mutants: the outgoing task is enqueued in any state; it is not enqueued; the
\* idle task is.
PublishAnyState(c) ==
  /\ phase[c] = "publish"
  /\ IF prev[c] # Idle THEN Enqueue(prev[c], "READY")
     ELSE UNCHANGED <<state, at_enq, rq, defer>>
  /\ phase' = [phase EXCEPT ![c] = "switch"]
  /\ bkl' = NoCpu
  /\ UNCHANGED <<on_cpu, pinned, cur, prev, todo, waitVars, pc>>

PublishNoEnqueue(c) ==
  /\ phase[c] = "publish"
  /\ state' = IF prev[c] # Idle /\ state[prev[c]] = "RUNNING"
              THEN [state EXCEPT ![prev[c]] = "READY"] ELSE state
  /\ phase' = [phase EXCEPT ![c] = "switch"]
  /\ bkl' = NoCpu
  /\ UNCHANGED <<at_enq, rq, defer, on_cpu, pinned, cur, prev, todo, waitVars, pc>>

PublishIdle(c) ==
  /\ phase[c] = "publish"
  /\ rq' = rq \cup {prev[c]}
  /\ phase' = [phase EXCEPT ![c] = "switch"]
  /\ bkl' = NoCpu
  /\ UNCHANGED <<state, at_enq, defer, on_cpu, pinned, cur, prev, todo, waitVars, pc>>

\* An outgoing task that was RUNNING becomes READY and is enqueued, which owes
\* it to this core since it still executes here.  Then bkl_release_all().
Publish(c) ==
  /\ phase[c] = "publish"
  /\ IF prev[c] # Idle /\ state[prev[c]] = "RUNNING" THEN Enqueue(prev[c], "READY")
     ELSE UNCHANGED <<state, at_enq, rq, defer>>
  /\ phase' = [phase EXCEPT ![c] = "switch"]
  /\ bkl' = NoCpu
  /\ UNCHANGED <<on_cpu, pinned, cur, prev, todo, waitVars, pc>>

\* context_switch: save the old stack pointer and load the new one ...
SwitchStack(c) ==
  /\ phase[c] = "switch"
  /\ phase' = [phase EXCEPT ![c] = "release"]
  /\ UNCHANGED <<taskVars, cur, prev, todo, bkl, waitVars, pc>>

\* ... then prev->sched_on_cpu = 0 ...
ReleasePrev(c) ==
  /\ phase[c] = "release"
  /\ phase' = [phase EXCEPT ![c] = "unpin"]
  /\ on_cpu' = IF prev[c] = Idle THEN on_cpu ELSE [on_cpu EXCEPT ![prev[c]] = NoCpu]
  /\ UNCHANGED <<state, pinned, at_enq, rq, defer, cur, prev, todo, bkl, waitVars, pc>>

\* ... then next->sched_pinned = 0
Unpin(c) ==
  /\ phase[c] = "unpin"
  /\ phase' = [phase EXCEPT ![c] = "run"]
  /\ pinned' = IF cur[c] = Idle THEN pinned ELSE [pinned EXCEPT ![cur[c]] = NoCpu]
  /\ prev' = [prev EXCEPT ![c] = Idle]
  /\ UNCHANGED <<state, on_cpu, at_enq, rq, defer, cur, todo, bkl, waitVars, pc>>

Schedule(c) ==
  \/ DrainOne(c) \/ DrainDone(c) \/ SweepOne(c) \/ SweepAlarm(c) \/ SweepDone(c)
  \/ PickTask(c) \/ PickIdle(c) \/ StayIdle(c) \/ Publish(c)
  \/ SwitchStack(c) \/ ReleasePrev(c) \/ Unpin(c)
-----------------------------------------------------------------------------
(* Interrupts: taken on a running core that holds the lock or can get it *)

CanInterrupt(c) == phase[c] = "run" /\ bkl \in {c, NoCpu}

\* Mutant: an idle core does not count what it owes as work.
HasWorkNoDebt(c) == rq # {}

\* sched_rq_has_work: what an idle application processor looks for
HasWork(c) == rq # {} \/ \E t \in defer[c] : Payable(t)

\* sched_tick with the slice used up, also of the idle task ...
Tick(c) ==
  /\ CanInterrupt(c) /\ c = Bsp
  /\ UNCHANGED <<state, at_enq, rq, defer, waitVars, pc>>
  /\ ScheduleEntry(c)

\* ... and sched_tick_ap, which leaves the idle task alone
ApTick(c) ==
  /\ CanInterrupt(c) /\ c # Bsp
  /\ cur[c] # Idle
  /\ UNCHANGED <<state, at_enq, rq, defer, waitVars, pc>>
  /\ ScheduleEntry(c)

\* The idle loop of sched_ap_enter calls the scheduler itself, for work only.
ApIdle(c) ==
  /\ phase[c] = "run" /\ bkl = NoCpu
  /\ cur[c] = Idle /\ c # Bsp /\ HasWork(c)
  /\ UNCHANGED <<state, at_enq, rq, defer, waitVars, pc>>
  /\ ScheduleEntry(c)

\* wake_up(): unlink one waiter and wake it
WakeOne ==
  IF wq = {} THEN UNCHANGED <<state, at_enq, rq, defer, wq>>
  ELSE \E t \in wq : wq' = wq \ {t} /\ proc_wake(t)

\* An interrupt handler makes the condition true and wakes the queue.
IrqWake(c) ==
  /\ IrqWakes /\ CanInterrupt(c)
  /\ cond' = TRUE
  /\ WakeOne
  /\ UNCHANGED <<on_cpu, pinned, coreVars, timed, due, pc>>

\* Time passes a deadline.
Deadline(t) ==
  /\ t \notin due
  /\ t \in timed \/ pc[t] = "napping"
  /\ due' = due \cup {t}
  /\ UNCHANGED <<taskVars, coreVars, wq, cond, timed, pc>>
-----------------------------------------------------------------------------
(* What a task does in the kernel, holding the lock *)

\* Core c executes task t, at program point p.
At(c, t, p) == phase[c] = "run" /\ cur[c] = t /\ pc[t] = p

In(c, t, p) == At(c, t, p) /\ bkl = c

Goto(t, p) == pc' = [pc EXCEPT ![t] = p]

\* syscall entry, or a task that was switched out inside the kernel resumes
Enter(c) ==
  /\ \E t \in Task : At(c, t, "user") /\ Goto(t, "kern")
  /\ bkl = NoCpu /\ bkl' = c
  /\ UNCHANGED <<taskVars, cur, prev, phase, todo, waitVars>>

Reacquire(c) ==
  /\ \E t \in Task : \E p \in PCs \ {"user"} : At(c, t, p)
  /\ bkl = NoCpu /\ bkl' = c
  /\ UNCHANGED <<taskVars, cur, prev, phase, todo, waitVars, pc>>

Leave(c) ==
  /\ \E t \in Task : In(c, t, "kern") /\ Goto(t, "user")
  /\ bkl' = NoCpu
  /\ UNCHANGED <<taskVars, cur, prev, phase, todo, waitVars>>

\* a wakeup by a task
Wake(c) ==
  /\ \E t \in Task : In(c, t, "kern")
  /\ cond' = TRUE
  /\ WakeOne
  /\ UNCHANGED <<on_cpu, pinned, coreVars, timed, due, pc>>

\* sig_raise and wake_up_process
Signal(c) ==
  /\ \E t \in Task, u \in Signalled :
       /\ In(c, t, "kern")
       /\ u # t
       /\ proc_wake(u)
       /\ wq' = wq \ {u}
  /\ UNCHANGED <<on_cpu, pinned, coreVars, cond, timed, due, pc>>

\* proc_yield: queued while it is still running, then sched_schedule()
proc_yield(c) ==
  /\ \E t \in Task : In(c, t, "kern") /\ state[t] = "RUNNING" /\ Enqueue(t, "READY")
  /\ ScheduleEntry(c)
  /\ UNCHANGED <<waitVars, pc>>

\* proc_sleep, with interrupts off up to the switch
proc_sleep(c) ==
  /\ \E t \in Task :
       /\ In(c, t, "kern")
       /\ state' = [state EXCEPT ![t] = "SLEEPING"]
       /\ due' = due \ {t}
       /\ Goto(t, "napping")
  /\ UNCHANGED <<at_enq, rq, defer, wq, cond, timed>>
  /\ ScheduleEntry(c)

SleepReturn(c) ==
  /\ \E t \in Task : In(c, t, "napping") /\ Goto(t, "kern") /\ due' = due \ {t}
  /\ UNCHANGED <<taskVars, coreVars, wq, cond, timed>>

\* proc_exit: off every run queue and ZOMBIE, with interrupts off from here on.
\* The condition of a parent that waits for a child becomes true ...
proc_exit(c) ==
  /\ \E t \in Task :
       /\ In(c, t, "kern")
       /\ state' = [state EXCEPT ![t] = "ZOMBIE"]
       /\ sched_rq_unlink(t)
       /\ Goto(t, "dead")
  /\ cond' = TRUE
  /\ phase' = [phase EXCEPT ![c] = "notify"]
  /\ UNCHANGED <<on_cpu, pinned, at_enq, defer, cur, prev, todo, bkl, wq, timed, due>>

\* ... proc_child_exit_notify() wakes every waiter ...
ExitNotify(c) ==
  /\ phase[c] = "notify" /\ wq # {}
  /\ WakeOne
  /\ UNCHANGED <<on_cpu, pinned, coreVars, cond, timed, due, pc>>

\* ... and the zombie enters the scheduler for good.
ExitSchedule(c) ==
  /\ phase[c] = "notify" /\ wq = {}
  /\ UNCHANGED <<state, at_enq, rq, defer, waitVars, pc>>
  /\ ScheduleEntry(c)

\* proc_reap, and the sweep of alloc_proc_slot for zombies nobody waits for
\* (which ones those are is left open): not while the zombie is still on a
\* core's stack
proc_reap(c) ==
  /\ \E t, z \in Task :
       /\ In(c, t, "kern")
       /\ state[z] = "ZOMBIE" /\ on_cpu[z] = NoCpu
       /\ state' = [state EXCEPT ![z] = "UNUSED"]
  /\ UNCHANGED <<on_cpu, pinned, at_enq, rq, defer, coreVars, waitVars, pc>>

\* what alloc_proc_slot claims, and what init_proc leaves in it
alloc_proc_slot(n) == state[n] = "UNUSED"
init_proc(n) ==
  /\ on_cpu' = [on_cpu EXCEPT ![n] = NoCpu]
  /\ pinned' = [pinned EXCEPT ![n] = NoCpu]
  /\ state' = [state EXCEPT ![n] = "READY"]

\* proc_create: the slot is initialised, then add_to_ready_queue
proc_create(c) ==
  /\ \E t, n \in Task :
       /\ In(c, t, "kern")
       /\ alloc_proc_slot(n) /\ init_proc(n)
       /\ at_enq' = [at_enq EXCEPT ![n] = "READY"]
       /\ sched_rq_insert(n)
       /\ Goto(n, "user")
  /\ UNCHANGED <<defer, coreVars, waitVars>>
-----------------------------------------------------------------------------
(* wait_event and wait_event_deadline *)

WaitStart(c) ==
  /\ \E t \in Task :
       /\ In(c, t, "kern") /\ Goto(t, "check")
       /\ timed' \in {timed, timed \cup {t}}
  /\ UNCHANGED <<taskVars, coreVars, wq, cond, due>>

\* loop top: the condition first, then the deadline
WaitCheck(c) ==
  /\ \E t \in Task :
       /\ In(c, t, "check")
       /\ IF cond \/ t \in due
          THEN Goto(t, "kern") /\ timed' = timed \ {t} /\ due' = due \ {t}
          ELSE Goto(t, "prepare") /\ UNCHANGED <<timed, due>>
  /\ cond' = FALSE
  /\ UNCHANGED <<taskVars, coreVars, wq>>

\* sched_self_block marks the task as executing here before it looks asleep;
\* sched_self_running undoes it.
sched_self_block(c, t) ==
  /\ on_cpu' = [on_cpu EXCEPT ![t] = c]
  /\ state' = [state EXCEPT ![t] = "BLOCKED"]
sched_self_running(t) ==
  /\ state' = [state EXCEPT ![t] = "RUNNING"]
  /\ on_cpu' = [on_cpu EXCEPT ![t] = NoCpu]

\* __wait_prepare: linked and marked BLOCKED, and executing on this core
WaitPrepare(c) ==
  /\ \E t \in Task :
       /\ In(c, t, "prepare") /\ Goto(t, "recheck")
       /\ wq' = wq \cup {t}
       /\ sched_self_block(c, t)
  /\ UNCHANGED <<pinned, at_enq, rq, defer, coreVars, cond, timed, due>>

\* __wait_finish: a task that did not sleep is RUNNING again, unlinked
Finish(t) ==
  /\ wq' = wq \ {t}
  /\ IF state[t] \in Asleep \cup {"READY"}
     THEN sched_self_running(t)
     ELSE UNCHANGED <<state, on_cpu>>

WaitRecheck(c) ==
  /\ \E t \in Task :
       /\ In(c, t, "recheck")
       /\ IF cond THEN /\ Goto(t, "kern") /\ Finish(t)
                       /\ timed' = timed \ {t} /\ due' = due \ {t}
          ELSE Goto(t, "sleep") /\ UNCHANGED <<state, on_cpu, wq, timed, due>>
  /\ cond' = FALSE
  /\ UNCHANGED <<pinned, at_enq, rq, defer, coreVars>>

\* __wait_event_wait and __wait_event_wait_deadline: still linked and BLOCKED,
\* and no deadline passed, so call sched_schedule(); a timed waiter is SLEEPING
MustSleep(t) == t \in wq /\ state[t] = "BLOCKED" /\ t \notin due

WaitSleep(c) ==
  /\ \E t \in Task :
       /\ In(c, t, "sleep") /\ MustSleep(t)
       /\ state' = IF t \in timed THEN [state EXCEPT ![t] = "SLEEPING"] ELSE state
  /\ UNCHANGED <<at_enq, rq, defer, waitVars, pc>>
  /\ ScheduleEntry(c)

WaitDone(c) ==
  /\ \E t \in Task : In(c, t, "sleep") /\ ~MustSleep(t) /\ Finish(t) /\ Goto(t, "check")
  /\ UNCHANGED <<pinned, at_enq, rq, defer, coreVars, cond, timed, due>>
-----------------------------------------------------------------------------
Kernel(c) ==
  \/ Enter(c) \/ Reacquire(c) \/ Leave(c)
  \/ Wake(c) \/ Signal(c) \/ proc_yield(c) \/ proc_sleep(c) \/ SleepReturn(c)
  \/ proc_exit(c) \/ ExitNotify(c) \/ ExitSchedule(c) \/ proc_reap(c) \/ proc_create(c)
  \/ WaitStart(c) \/ WaitCheck(c) \/ WaitPrepare(c) \/ WaitRecheck(c)
  \/ WaitSleep(c) \/ WaitDone(c)

Next ==
  \/ \E c \in Cpu : Schedule(c) \/ Kernel(c) \/ Tick(c) \/ ApTick(c) \/ ApIdle(c) \/ IrqWake(c)
  \/ \E t \in Task : Deadline(t)

Spec == Init /\ [][Next]_vars

\* A core that is inside sched_schedule() or the context switch goes on.  Timer
\* interrupts keep coming: each core gets one served, and in the idle loop its
\* call of the scheduler done, infinitely often if it is infinitely often able
\* to.  A halted core's tick brings it back; that the lock lets every core in
\* now and then is assumed of bkl_acquire, whose default is test-and-set
\* (g_bkl_fair = 0; its ticket order would guarantee it).
FairSpec ==
  /\ Spec
  /\ \A c \in Cpu : WF_vars(Schedule(c) \/ ExitNotify(c) \/ ExitSchedule(c))
  /\ \A c \in Cpu : SF_vars(Tick(c) \/ ApTick(c) \/ ApIdle(c))
-----------------------------------------------------------------------------
\* Types of the process table, the queues and the cores.
TypeOK ==
  /\ state \in [Task -> States]
  /\ on_cpu \in [Task -> Cpu \cup {NoCpu}]
  /\ pinned \in [Task -> Cpu \cup {NoCpu}]
  /\ at_enq \in [Task -> States]
  /\ rq \subseteq Task
  /\ defer \in [Cpu -> SUBSET Task]
  /\ cur \in [Cpu -> Task \cup {Idle}]
  /\ prev \in [Cpu -> Task \cup {Idle}]
  /\ phase \in [Cpu -> Phases]
  /\ todo \subseteq Task
  /\ bkl \in Cpu \cup {NoCpu}
  /\ wq \subseteq Task /\ timed \subseteq Task /\ due \subseteq Task
  /\ cond \in BOOLEAN
  /\ pc \in [Task -> PCs]

\* No two cores ever execute on one task's kernel stack.
OneCorePerTask ==
  \A c, d \in Cpu : c # d /\ Stack(c) # Idle => Stack(c) # Stack(d)

\* A live task is never deleted from the scheduler: it is on a core, in a run
\* queue, owed to one, or parked where a waker or the tick sweep finds it.
NoTaskLost ==
  \A t \in Task :
    \/ state[t] \in {"UNUSED", "ZOMBIE"}
    \/ \E c \in Cpu : t \in {cur[c], prev[c]}
    \/ t \in rq
    \/ \E c \in Cpu : t \in defer[c]
    \/ state[t] = "BLOCKED" /\ t \in wq
    \/ state[t] = "SLEEPING"

\* A zombie never becomes runnable again.
NoResurrection ==
  [][\A t \in Task : state[t] = "ZOMBIE" => state'[t] \in {"ZOMBIE", "UNUSED"}]_vars

\* proc_sleep returns only once its deadline has passed, unless a signal ends it.
SleepsLongEnough ==
  \A c \in Cpu, t \in Task \ Signalled : At(c, t, "napping") => t \in due

\* An enqueue a core owes is settled once the task is off every core, or the
\* task gets back on one by another wake: only the owner's own sched_schedule()
\* pays g_defer, so it must not stop being called.
OwedIsPaid ==
  \A c \in Cpu, t \in Task :
    t \in defer[c] /\ Payable(t) ~> ~(t \in defer[c] /\ Payable(t))
=============================================================================
