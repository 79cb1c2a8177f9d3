-------------------------------- MODULE Pipe --------------------------------
(***************************************************************************)
(* The anonymous pipe of kernel/fs/pipe.c, with the write decision of      *)
(* kernel/rustkern/pipewr.rs and the wait_event_interruptible() macro of   *)
(* kernel/sync/waitq.h it sleeps in.                                       *)
(*                                                                         *)
(* A syscall runs with interrupts enabled and the timer tick may switch    *)
(* tasks in the middle of it (sched_tick does not look at the privilege    *)
(* level), and the Big Kernel Lock is dropped across the switch.  So two   *)
(* pipe operations interleave: the loop tests, each copied byte, the count *)
(* update and the wakeup below are steps of their own.  Code that runs     *)
(* under a wait queue's irqsave lock is one step.                          *)
(*                                                                         *)
(* Not modelled: count = 0 requests, which return at once; the EAGAIN path *)
(* of a context that may not block, which no system call is in; the        *)
(* pending bit that sig_raise(SIGPIPE) sets in the writer.                 *)
(***************************************************************************)
EXTENDS Naturals, Sequences, FiniteSets

CONSTANTS
  Reader,         \* processes that hold the read end
  Writer,         \* processes that hold the write end
  Size,           \* ps->size
  CountMod,       \* 2^32 in the code: ps->count is a uint32_t
  MaxReq,         \* largest count passed to read or write
  MaxBytes,       \* bound: bytes each writer offers in all its writes
  MaxSignals,     \* bound: signals raised per process
  WindowPreempt,  \* may a time slice end between __wait_prepare and the
                  \* sleep?  TRUE in the code; FALSE assumes it never does
  None            \* a ring slot that was never written

ASSUME PipeAssumption ==
  /\ Reader \cap Writer = {}
  /\ IsFiniteSet(Reader) /\ IsFiniteSet(Writer)
  /\ Size \in Nat \ {0}
  /\ CountMod \in Nat /\ CountMod > 2 * Size
  /\ MaxReq \in Nat \ {0}
  /\ MaxBytes \in Nat
  /\ MaxSignals \in Nat
  /\ WindowPreempt \in BOOLEAN

Proc == Reader \cup Writer

VARIABLES
  buf, read_pos, write_pos, count,  \* the ring of pipe_state_t
  readers, writers,                 \* open read-end and write-end file_t's
  rref, wref,                       \* file_t.refcount of the two ends
  freed,                            \* how often ps was passed to kfree
  wq,                               \* members of read_wq and write_wq
  sleep,                            \* "run", "marked" (BLOCKED, executing), "off"
  reason,                           \* wake_reason of the wait entry
  pc,                               \* where the process is
  req, done, intr, n, i,            \* locals of the operation
  sent,                             \* bytes a writer has published so far
  got,                              \* bytes readers have copied out, in order
  ret,                              \* how the last operation returned
  sigs                              \* signals raised so far

PCs == {"user", "r_count", "r_eof", "r_copy", "r_wake", "w_step", "w_copy", "w_wake",
        "cond", "prepare", "recheck", "sleep", "release", "rel_wake", "rel_free", "gone"}

ring  == <<buf, read_pos, write_pos, count>>
ends  == <<readers, writers, rref, wref, freed>>
sched == <<wq, sleep, reason>>
local == <<req, done, intr, n, i>>
hist  == <<sent, got, ret, sigs>>
vars  == <<ring, ends, sched, pc, local, hist>>

\* Mutant: no test for a full ring.
write_step_no_bound(requested, dn, cnt, rds, in) ==
  CASE dn >= requested -> [action |-> "DONE", n |-> dn]
    [] dn < requested /\ rds = 0 -> [action |-> IF dn > 0 THEN "SHORT" ELSE "EPIPE", n |-> dn]
    [] OTHER -> [action |-> "COPY", n |-> requested - dn]

\* pipe_write_step_rs: what a write does next.
pipe_write_step(requested, dn, cnt, rds, in) ==
  LET free == IF cnt >= Size THEN 0 ELSE Size - cnt
      left == requested - dn
  IN  CASE dn >= requested          -> [action |-> "DONE",  n |-> dn]
        [] dn < requested /\ rds = 0 ->
             [action |-> IF dn > 0 THEN "SHORT" ELSE "EPIPE", n |-> dn]
        [] dn < requested /\ rds > 0 /\ in ->
             [action |-> IF dn > 0 THEN "SHORT" ELSE "EINTR", n |-> dn]
        [] dn < requested /\ rds > 0 /\ ~in /\ free = 0 ->
             [action |-> "BLOCK", n |-> 0]
        [] OTHER -> [action |-> "COPY", n |-> IF left < free THEN left ELSE free]

\* The condition each end hands to wait_event_interruptible().
Cond(p) == IF p \in Reader THEN count > 0 \/ writers = 0
                           ELSE count < Size \/ readers = 0

\* pipe_create: one file_t per end, shared by every process that inherits it.
Init ==
  /\ buf = [k \in 0..Size-1 |-> None]
  /\ read_pos = 0 /\ write_pos = 0 /\ count = 0
  /\ readers = 1 /\ writers = 1
  /\ rref = Cardinality(Reader) /\ wref = Cardinality(Writer)
  /\ freed = 0
  /\ wq = {}
  /\ sleep = [p \in Proc |-> "run"]
  /\ reason = [p \in Proc |-> "OK"]
  /\ pc = [p \in Proc |-> "user"]
  /\ req = [p \in Proc |-> 0] /\ done = [p \in Proc |-> 0]
  /\ intr = [p \in Proc |-> FALSE]
  /\ n = [p \in Proc |-> 0] /\ i = [p \in Proc |-> 0]
  /\ sent = [w \in Writer |-> 0]
  /\ got = <<>>
  /\ ret = [p \in Proc |-> "NONE"]
  /\ sigs = [p \in Proc |-> 0]

\* p executes from program point a to program point b.
Step(p, a, b) == sleep[p] # "off" /\ pc[p] = a /\ pc' = [pc EXCEPT ![p] = b]

Return(p, a, r) == Step(p, a, "user") /\ ret' = [ret EXCEPT ![p] = r]

\* wake_up_all on the queue of one end: every waiter is unlinked and made ready.
wake_up_all(S) ==
  /\ wq' = wq \ S
  /\ sleep' = [p \in Proc |-> IF p \in S \cap wq THEN "run" ELSE sleep[p]]
  /\ reason' = [p \in Proc |-> IF p \in S \cap wq THEN "OK" ELSE reason[p]]
-----------------------------------------------------------------------------
(* pipe_read_fn *)

ReadEnter(r) ==
  /\ Step(r, "user", "r_count")
  /\ \E c \in 1..MaxReq : req' = [req EXCEPT ![r] = c]
  /\ ret' = [ret EXCEPT ![r] = "NONE"]
  /\ UNCHANGED <<ring, ends, sched, done, intr, n, i, sent, got, sigs>>

\* Mutant: the request is not cut down to what is available.
ReadCountNoMin(r) ==
  /\ IF count = 0 THEN Step(r, "r_count", "r_eof") /\ UNCHANGED <<n, i>>
     ELSE /\ Step(r, "r_count", "r_copy")
          /\ n' = [n EXCEPT ![r] = req[r]]
          /\ i' = [i EXCEPT ![r] = 0]
  /\ UNCHANGED <<ring, ends, sched, req, done, intr, hist>>

\* while (ps->count == 0); otherwise avail and to_read are computed
ReadCount(r) ==
  /\ IF count = 0 THEN Step(r, "r_count", "r_eof") /\ UNCHANGED <<n, i>>
     ELSE /\ Step(r, "r_count", "r_copy")
          /\ n' = [n EXCEPT ![r] = IF req[r] < count THEN req[r] ELSE count]
          /\ i' = [i EXCEPT ![r] = 0]
  /\ UNCHANGED <<ring, ends, sched, req, done, intr, hist>>

\* Mutant: a wait that may take too long ends with a 0.
ReadEofTimeout(r) ==
  /\ \/ Return(r, "r_eof", "EOF")
     \/ Step(r, "r_eof", "cond") /\ UNCHANGED ret
  /\ UNCHANGED <<ring, ends, sched, local, sent, got, sigs>>

\* if (ps->writers <= 0) return 0; else enter the wait
ReadEof(r) ==
  /\ IF writers = 0 THEN Return(r, "r_eof", "EOF")
     ELSE Step(r, "r_eof", "cond") /\ UNCHANGED ret
  /\ UNCHANGED <<ring, ends, sched, local, sent, got, sigs>>

\* Mutant: the position does not wrap.
ReadByteNoWrap(r) ==
  /\ i[r] < n[r]
  /\ Step(r, "r_copy", "r_copy")
  /\ got' = Append(got, buf[read_pos])
  /\ read_pos' = read_pos + 1
  /\ i' = [i EXCEPT ![r] = @ + 1]
  /\ UNCHANGED <<buf, write_pos, count, ends, sched, req, done, intr, n, sent, ret, sigs>>

\* the copy loop, one byte at a time
ReadByte(r) ==
  /\ i[r] < n[r]
  /\ Step(r, "r_copy", "r_copy")
  /\ got' = Append(got, buf[read_pos])
  /\ read_pos' = (read_pos + 1) % Size
  /\ i' = [i EXCEPT ![r] = @ + 1]
  /\ UNCHANGED <<buf, write_pos, count, ends, sched, req, done, intr, n, sent, ret, sigs>>

\* ps->count -= to_read, a uint32_t
ReadPublish(r) ==
  /\ i[r] = n[r]
  /\ Step(r, "r_copy", "r_wake")
  /\ count' = IF n[r] <= count THEN count - n[r] ELSE count + CountMod - n[r]
  /\ UNCHANGED <<buf, read_pos, write_pos, ends, sched, local, hist>>

\* Mutant: nobody waits for room, so nobody is woken.
ReadWakeNobody(r) == Return(r, "r_wake", "OK") /\ UNCHANGED <<ring, ends, sched, local, sent, got, sigs>>

ReadWake(r) ==
  /\ Return(r, "r_wake", "OK")
  /\ wake_up_all(Writer)
  /\ UNCHANGED <<ring, ends, local, sent, got, sigs>>
-----------------------------------------------------------------------------
(* pipe_write_fn *)

WriteEnter(w) ==
  /\ sent[w] < MaxBytes
  /\ Step(w, "user", "w_step")
  /\ \E c \in 1..MaxReq : sent[w] + c <= MaxBytes /\ req' = [req EXCEPT ![w] = c]
  /\ done' = [done EXCEPT ![w] = 0]
  /\ intr' = [intr EXCEPT ![w] = FALSE]
  /\ ret' = [ret EXCEPT ![w] = "NONE"]
  /\ UNCHANGED <<ring, ends, sched, n, i, sent, got, sigs>>

\* the switch on pipe_write_step_rs
WriteStep(w) ==
  LET st == pipe_write_step(req[w], done[w], count, readers, intr[w]) IN
  /\ CASE st.action \in {"DONE", "SHORT"} -> Return(w, "w_step", "OK") /\ UNCHANGED <<n, i>>
       [] st.action \in {"EPIPE", "EINTR"} ->
            Return(w, "w_step", st.action) /\ UNCHANGED <<n, i>>
       [] st.action = "BLOCK" -> Step(w, "w_step", "cond") /\ UNCHANGED <<n, i, ret>>
       [] st.action = "COPY"  -> /\ Step(w, "w_step", "w_copy")
                                 /\ n' = [n EXCEPT ![w] = st.n]
                                 /\ i' = [i EXCEPT ![w] = 0]
                                 /\ UNCHANGED ret
  /\ UNCHANGED <<ring, ends, sched, req, done, intr, sent, got, sigs>>

WriteByte(w) ==
  /\ i[w] < n[w]
  /\ Step(w, "w_copy", "w_copy")
  /\ buf' = [buf EXCEPT ![write_pos] = <<w, sent[w] + i[w] + 1>>]
  /\ write_pos' = (write_pos + 1) % Size
  /\ i' = [i EXCEPT ![w] = @ + 1]
  /\ UNCHANGED <<read_pos, count, ends, sched, req, done, intr, n, hist>>

\* ps->count += st.n; done += st.n
WritePublish(w) ==
  /\ i[w] = n[w]
  /\ Step(w, "w_copy", "w_wake")
  /\ count' = IF count + n[w] < CountMod THEN count + n[w] ELSE count + n[w] - CountMod
  /\ done' = [done EXCEPT ![w] = @ + n[w]]
  /\ sent' = [sent EXCEPT ![w] = @ + n[w]]
  /\ UNCHANGED <<buf, read_pos, write_pos, ends, sched, req, intr, n, i, got, ret, sigs>>

\* wake_up_all(&ps->read_wq)
WriteWake(w) ==
  /\ Step(w, "w_wake", "w_step")
  /\ wake_up_all(Reader)
  /\ UNCHANGED <<ring, ends, local, hist>>
-----------------------------------------------------------------------------
(* wait_event_interruptible on the process's own queue *)

\* The wait is over: back to the loop of the read or the write.
Resume(p) == IF p \in Reader THEN "r_count" ELSE "w_step"

WaitCond(p) ==
  /\ Step(p, "cond", IF Cond(p) THEN Resume(p) ELSE "prepare")
  /\ UNCHANGED <<ring, ends, sched, local, hist>>

\* __wait_prepare: link and mark BLOCKED in one critical section
WaitPrepare(p) ==
  /\ Step(p, "prepare", "recheck")
  /\ wq' = wq \cup {p}
  /\ sleep' = [sleep EXCEPT ![p] = "marked"]
  /\ reason' = [reason EXCEPT ![p] = "OK"]
  /\ UNCHANGED <<ring, ends, local, hist>>

\* __wait_finish: un-park and unlink
WaitFinish(p) ==
  /\ wq' = wq \ {p}
  /\ sleep' = [sleep EXCEPT ![p] = "run"]
  /\ UNCHANGED reason

WaitRecheck(p) ==
  /\ IF Cond(p) THEN Step(p, "recheck", Resume(p)) /\ WaitFinish(p)
                ELSE Step(p, "recheck", "sleep") /\ UNCHANGED sched
  /\ UNCHANGED <<ring, ends, local, hist>>

\* __wait_event_wait: sleep while still linked and BLOCKED
WaitSleep(p) ==
  /\ p \in wq /\ sleep[p] = "marked"
  /\ Step(p, "sleep", "sleep")
  /\ sleep' = [sleep EXCEPT ![p] = "off"]
  /\ UNCHANGED <<ring, ends, wq, reason, local, hist>>

\* awake: finish, and leave the wait on EINTR, otherwise test cond again
WaitDone(p) ==
  /\ ~(p \in wq /\ sleep[p] = "marked")
  /\ WaitFinish(p)
  /\ IF reason[p] = "EINTR"
     THEN IF p \in Reader THEN Return(p, "sleep", "EINTR") /\ UNCHANGED intr
          ELSE /\ Step(p, "sleep", "w_step")
               /\ intr' = [intr EXCEPT ![p] = TRUE]
               /\ UNCHANGED ret
     ELSE Step(p, "sleep", "cond") /\ UNCHANGED <<intr, ret>>
  /\ UNCHANGED <<ring, ends, req, done, n, i, sent, got, sigs>>

\* The timer tick switches away a process that is marked BLOCKED but has not
\* reached its own sched_schedule() call: it is not put back on a run queue.
Preempt(p) ==
  /\ WindowPreempt
  /\ sleep[p] = "marked"
  /\ sleep' = [sleep EXCEPT ![p] = "off"]
  /\ UNCHANGED <<ring, ends, wq, reason, pc, local, hist>>

\* sig_raise: an entry on a wait queue is unlinked with WAIT_EINTR
Signal(p) ==
  /\ sigs[p] < MaxSignals
  /\ pc[p] \notin {"user", "gone"}
  /\ sigs' = [sigs EXCEPT ![p] = @ + 1]
  /\ IF p \in wq THEN /\ wq' = wq \ {p}
                      /\ sleep' = [sleep EXCEPT ![p] = "run"]
                      /\ reason' = [reason EXCEPT ![p] = "EINTR"]
     ELSE UNCHANGED sched
  /\ UNCHANGED <<ring, ends, pc, local, sent, got, ret>>
-----------------------------------------------------------------------------
(* close: file_put, then pipe_release_read / pipe_release_write *)

Close(p) ==
  /\ IF p \in Reader THEN rref' = rref - 1 /\ UNCHANGED wref
                     ELSE wref' = wref - 1 /\ UNCHANGED rref
  /\ Step(p, "user", IF (IF p \in Reader THEN rref ELSE wref) > 1 THEN "gone" ELSE "release")
  /\ UNCHANGED <<ring, readers, writers, freed, sched, local, hist>>

ReleaseDec(p) ==
  /\ Step(p, "release", "rel_wake")
  /\ IF p \in Reader THEN readers' = readers - 1 /\ UNCHANGED writers
                     ELSE writers' = writers - 1 /\ UNCHANGED readers
  /\ UNCHANGED <<ring, rref, wref, freed, sched, local, hist>>

ReleaseWake(p) ==
  /\ Step(p, "rel_wake", "rel_free")
  /\ wake_up_all(IF p \in Reader THEN Writer ELSE Reader)
  /\ UNCHANGED <<ring, ends, local, hist>>

pipe_maybe_free(p) ==
  /\ Step(p, "rel_free", "gone")
  /\ freed' = IF readers = 0 /\ writers = 0 THEN freed + 1 ELSE freed
  /\ UNCHANGED <<ring, readers, writers, rref, wref, sched, local, hist>>
-----------------------------------------------------------------------------
Read(r)  == ReadEnter(r) \/ ReadCount(r) \/ ReadEof(r) \/ ReadByte(r)
              \/ ReadPublish(r) \/ ReadWake(r)
Write(w) == WriteEnter(w) \/ WriteStep(w) \/ WriteByte(w) \/ WritePublish(w)
              \/ WriteWake(w)
Wait(p)  == WaitCond(p) \/ WaitPrepare(p) \/ WaitRecheck(p) \/ WaitSleep(p)
              \/ WaitDone(p)
Release(p) == ReleaseDec(p) \/ ReleaseWake(p) \/ pipe_maybe_free(p)

Next ==
  \/ \E r \in Reader : Read(r)
  \/ \E w \in Writer : Write(w)
  \/ \E p \in Proc : Wait(p) \/ Close(p) \/ Release(p)
  \/ \E p \in Proc : Preempt(p) \/ Signal(p)

\* A runnable process keeps running.  No fairness for the choices a program
\* makes (starting an operation, closing), for ticks or for signals.
Fairness ==
  \A p \in Proc : WF_vars(Wait(p) \/ Release(p) \/
    (pc[p] # "user" /\ ((p \in Reader /\ Read(p)) \/ (p \in Writer /\ Write(p)))))

Spec == Init /\ [][Next]_vars /\ Fairness
-----------------------------------------------------------------------------
\* Types of the ring, the ends, the wait queues and each process's locals.
TypeOK ==
  /\ buf \in [0..Size-1 -> {None} \cup (Writer \X Nat)]
  /\ read_pos \in 0..Size-1 /\ write_pos \in 0..Size-1
  /\ count \in 0..CountMod-1
  /\ readers \in {0, 1} /\ writers \in {0, 1}
  /\ rref \in Nat /\ wref \in Nat /\ freed \in Nat
  /\ wq \subseteq Proc
  /\ sleep \in [Proc -> {"run", "marked", "off"}]
  /\ reason \in [Proc -> {"OK", "EINTR"}]
  /\ pc \in [Proc -> PCs]
  /\ req \in [Proc -> Nat] /\ done \in [Proc -> Nat]
  /\ n \in [Proc -> Nat] /\ i \in [Proc -> Nat]
  /\ intr \in [Proc -> BOOLEAN]
  /\ sent \in [Writer -> Nat]
  /\ got \in Seq({None} \cup (Writer \X Nat))
  /\ sigs \in [Proc -> Nat]
  /\ ret \in [Proc -> {"NONE", "OK", "EOF", "EPIPE", "EINTR"}]

\* With one process at each end the bytes that come out are the bytes that
\* went in, in order, none lost and none twice (pipe_read_fn, pipe_write_fn).
Fifo == \A k \in 1..Len(got) : \E w \in Writer : got[k] = <<w, k>>

\* ps->count is "bytes available to read", so it never exceeds the ring: it
\* neither underflows nor counts bytes that overwrote unread ones.
CountInRing == count <= Size

\* A waker of p has published its change but not yet called wake_up_all.
WakePending(p) ==
  IF p \in Reader THEN \E q \in Writer : pc[q] \in {"w_wake", "rel_wake"}
                  ELSE \E q \in Reader : pc[q] \in {"r_wake", "rel_wake"}

\* A process that is switched out in its wait although its condition holds has
\* a waker that has yet to run wake_up_all on its queue.
NoLostWake == \A p \in Proc : sleep[p] = "off" /\ Cond(p) => WakePending(p)

\* The pipe state is freed at most once and nobody uses it afterwards.
NoUseAfterFree == freed <= 1 /\ (freed = 1 => \A p \in Proc : pc[p] = "gone")

\* Data or a hang-up reaches a reader that went to sleep after it had re-tested
\* its condition, room or a hang-up such a writer.  (A process that a tick took
\* off the core before its re-test is the case NoLostWake excludes.)
Woken ==
  \A p \in Proc :
    (sleep[p] = "off" /\ pc[p] = "sleep" /\ Cond(p)) ~> sleep[p] # "off"

\* The pipe as a channel: what the one writer has published, what the reader
\* has copied out, the ends that are open and the hang-ups that were reported.
TheWriter == CHOOSE w \in Writer : TRUE
Published == [k \in 1 .. sent[TheWriter] |-> <<TheWriter, k>>]
HangUps == {x \in {"EOF", "EPIPE"} : \E p \in Proc : ret[p] = x}

PipeChannel == INSTANCE Channel WITH
  Byte <- Writer \X Nat, Capacity <- Size, in <- Published, out <- got,
  ropen <- readers > 0, wopen <- writers > 0, told <- HangUps

\* With one process at each end a pipe is a bounded channel, however the copy
\* loops, the waits and the closes interleave: reads return what was written, a
\* read returns 0 only after the write end was closed for good ("A read must never
\* invent an EOF that did not happen"), a write fails with EPIPE only after the
\* last read.
ImplementsChannel == PipeChannel!Spec
=============================================================================
