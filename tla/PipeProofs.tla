----------------------------- MODULE PipeProofs -----------------------------
(***************************************************************************)
(* Proofs about the pipe with one process at each end, for every ring      *)
(* size, request size and number of bytes.                                 *)
(***************************************************************************)
EXTENDS Pipe, FiniteSetTheorems, TLAPS

Closing == {"release", "rel_wake", "rel_free", "gone"}

\* Each end runs its own code, and its counters say how far its close is.
Roles(r, w) ==
  /\ pc[r] \notin {"w_step", "w_copy", "w_wake"}
  /\ pc[w] \notin {"r_count", "r_eof", "r_copy", "r_wake"}
  /\ rref = IF pc[r] \in Closing THEN 0 ELSE 1
  /\ wref = IF pc[w] \in Closing THEN 0 ELSE 1
  /\ readers = IF pc[r] \in Closing \ {"release"} THEN 0 ELSE 1
  /\ writers = IF pc[w] \in Closing \ {"release"} THEN 0 ELSE 1

\* What a copy in progress was promised still holds: the other end can only
\* add bytes for a reader, or room for a writer.
Promises(r, w) ==
  /\ count <= Size
  /\ pc[r] = "r_copy" => i[r] <= n[r] /\ n[r] <= count
  /\ pc[w] = "w_copy" => i[w] <= n[w] /\ n[w] + count <= Size

\* Bytes copied but not yet published by either end.
Taken(r) == IF pc[r] = "r_copy" THEN i[r] ELSE 0
Added(w) == IF pc[w] = "w_copy" THEN i[w] ELSE 0

\* Bytes that are in the ring.
Fill(r, w) == count + Added(w) - Taken(r)

\* The slot k places after the read position.
Ahead(pos, k) == IF pos + k < Size THEN pos + k ELSE pos + k - Size
Slot(k) == Ahead(read_pos, k)

\* The ring holds exactly the bytes that were put in and not yet taken out.
Content(r, w) ==
  /\ sent[w] = Len(got) + count - Taken(r)
  /\ write_pos = Slot(Fill(r, w))
  /\ \A k \in 0..Size-1 : k < Fill(r, w) => buf[Slot(k)] = <<w, Len(got) + 1 + k>>
  /\ \A k \in 1..Len(got) : got[k] = <<w, k>>

\* A process is linked exactly while it is marked, and only inside its wait.
Parked ==
  \A p \in Proc : /\ sleep[p] # "run" <=> p \in wq
                  /\ p \in wq => pc[p] \in {"recheck", "sleep"}
                  /\ sleep[p] = "off" => pc[p] = "sleep"

\* A linked process that has made its last test of the condition will be woken
\* if the condition has become true since.
WillWake(r, w) ==
  /\ pc[r] = "sleep" /\ r \in wq /\ Cond(r) => pc[w] \in {"w_wake", "rel_wake"}
  /\ pc[w] = "sleep" /\ w \in wq /\ Cond(w) => pc[r] \in {"r_wake", "rel_wake"}

\* The inductive invariant of the ring.
Data(r, w) == TypeOK /\ Roles(r, w) /\ Promises(r, w) /\ Content(r, w)
-----------------------------------------------------------------------------
\* One process at each end.
Ends(r, w) == Reader = {r} /\ Writer = {w}

Two(r, w) ==
  /\ Proc = {r, w} /\ r # w
  /\ r \in Reader /\ w \in Writer /\ r \notin Writer /\ w \notin Reader

\* The two processes are different and hold one end each.
LEMMA TwoProcs ==
  ASSUME NEW r, NEW w, Ends(r, w)
  PROVE  Two(r, w)
BY PipeAssumption DEF Ends, Proc, Two

\* What a copy is promised: no more than was asked for, and room for it.
LEMMA WriteRoom ==
  ASSUME NEW req0 \in Nat, NEW done0 \in Nat, NEW cnt \in Nat, NEW rds \in Nat,
         NEW in \in BOOLEAN, cnt <= Size
  PROVE  LET st == pipe_write_step(req0, done0, cnt, rds, in) IN
         /\ st.action \in {"DONE", "SHORT", "EPIPE", "EINTR", "BLOCK", "COPY"}
         /\ st.action = "COPY" => st.n \in Nat /\ st.n + cnt <= Size
<1> DEFINE free == IF cnt >= Size THEN 0 ELSE Size - cnt
           left == req0 - done0
<1>1. CASE done0 >= req0
  BY <1>1 DEF pipe_write_step
<1>2. CASE done0 < req0 /\ rds = 0
  BY <1>2 DEF pipe_write_step
<1>3. CASE done0 < req0 /\ rds > 0 /\ in
  BY <1>3 DEF pipe_write_step
<1>4. CASE done0 < req0 /\ rds > 0 /\ ~in /\ free = 0
  BY <1>4, PipeAssumption DEF pipe_write_step
<1>5. CASE done0 < req0 /\ rds > 0 /\ ~in /\ free > 0
  <2> DEFINE m == IF left < free THEN left ELSE free
  <2>1. pipe_write_step(req0, done0, cnt, rds, in) = [action |-> "COPY", n |-> m]
    BY <1>5, PipeAssumption DEF pipe_write_step
  <2>2. m \in Nat /\ m + cnt <= Size
    BY <1>5, PipeAssumption
  <2> HIDE DEF m
  <2> QED
    BY <2>1, <2>2
<1> QED
  BY <1>1, <1>2, <1>3, <1>4, <1>5, PipeAssumption

\* WriteStep returns, waits, or starts a copy it has room for.
WriteEffect(w) ==
  /\ pc[w] = "w_step" /\ UNCHANGED <<ring, ends, sched, req, done, intr, sent, got, sigs>>
  /\ \/ /\ pc' = [pc EXCEPT ![w] = "user"] /\ UNCHANGED <<n, i>>
        /\ \E x \in {"OK", "EPIPE", "EINTR"} : ret' = [ret EXCEPT ![w] = x]
     \/ pc' = [pc EXCEPT ![w] = "cond"] /\ UNCHANGED <<n, i, ret>>
     \/ /\ pc' = [pc EXCEPT ![w] = "w_copy"] /\ UNCHANGED ret
        /\ \E m \in Nat : m + count <= Size /\ n' = [n EXCEPT ![w] = m]
        /\ i' = [i EXCEPT ![w] = 0]

\* The switch on pipe_write_step_rs has no other outcome.
LEMMA WriteChoice ==
  ASSUME NEW r, NEW w, Ends(r, w), Data(r, w), WriteStep(w)
  PROVE  WriteEffect(w)
<1> DEFINE st == pipe_write_step(req[w], done[w], count, readers, intr[w])
<1>1. /\ st.action \in {"DONE", "SHORT", "EPIPE", "EINTR", "BLOCK", "COPY"}
      /\ st.action = "COPY" => st.n \in Nat /\ st.n + count <= Size
  <2>1. /\ req[w] \in Nat /\ done[w] \in Nat /\ count \in Nat /\ readers \in Nat
        /\ intr[w] \in BOOLEAN /\ count <= Size
    BY SMTT(30), TwoProcs, PipeAssumption DEF Two, Data, TypeOK, Promises
  <2> QED
    BY <2>1, WriteRoom
<1>2. CASE st.action \in {"DONE", "SHORT"}
  BY <1>2 DEF WriteStep, Return, Step, WriteEffect
<1>3. CASE st.action \in {"EPIPE", "EINTR"}
  BY <1>3 DEF WriteStep, Return, Step, WriteEffect
<1>4. CASE st.action = "BLOCK"
  BY <1>4 DEF WriteStep, Step, WriteEffect
<1>5. CASE st.action = "COPY"
  BY <1>1, <1>5 DEF WriteStep, Step, WriteEffect
<1> QED
  BY <1>1, <1>2, <1>3, <1>4, <1>5

\* The count a writer publishes does not reach the modulus.
LEMMA PublishType ==
  ASSUME NEW r, NEW w, Ends(r, w), Data(r, w), WritePublish(w)
  PROVE  count' = count + n[w] /\ count' \in 0..CountMod-1 /\ done' \in [Proc -> Nat] /\ sent' \in [Writer -> Nat]
<1>1. Two(r, w) /\ TypeOK /\ Promises(r, w) /\ pc[w] = "w_copy"
  BY TwoProcs DEF Data, WritePublish, Step
<1>2. n[w] \in Nat /\ count \in Nat /\ n[w] + count <= Size
  BY <1>1 DEF Two, TypeOK, Promises
<1>3. count' = IF count + n[w] < CountMod THEN count + n[w] ELSE count + n[w] - CountMod
  BY DEF WritePublish
<1>4. count' = count + n[w] /\ count' \in 0..CountMod-1
  BY <1>2, <1>3, PipeAssumption
<1>5. done' \in [Proc -> Nat]
  <2>1. done \in [Proc -> Nat] /\ done' = [done EXCEPT ![w] = @ + n[w]]
    BY <1>1 DEF TypeOK, WritePublish
  <2>2. w \in Proc /\ done[w] + n[w] \in Nat
    BY <1>1, <1>2, <2>1 DEF Two
  <2> QED
    BY <2>1, <2>2
<1>6. sent' \in [Writer -> Nat]
  <2>1. sent \in [Writer -> Nat] /\ sent' = [sent EXCEPT ![w] = @ + n[w]]
    BY <1>1 DEF TypeOK, WritePublish
  <2>2. w \in Writer /\ sent[w] + n[w] \in Nat
    BY <1>1, <1>2, <2>1 DEF Two
  <2> QED
    BY <2>1, <2>2
<1> QED
  BY <1>4, <1>5, <1>6

\* TypeOK, by what the parts of the state are for.
RingType  == /\ buf \in [0..Size-1 -> {None} \cup (Writer \X Nat)]
             /\ read_pos \in 0..Size-1 /\ write_pos \in 0..Size-1
             /\ count \in 0..CountMod-1
EndType   == /\ readers \in {0, 1} /\ writers \in {0, 1}
             /\ rref \in Nat /\ wref \in Nat /\ freed \in Nat
WaitType  == /\ wq \subseteq Proc
             /\ sleep \in [Proc -> {"run", "marked", "off"}]
             /\ reason \in [Proc -> {"OK", "EINTR"}]
             /\ pc \in [Proc -> PCs]
LocalType == /\ req \in [Proc -> Nat] /\ done \in [Proc -> Nat]
             /\ n \in [Proc -> Nat] /\ i \in [Proc -> Nat]
             /\ intr \in [Proc -> BOOLEAN]
HistType  == /\ sent \in [Writer -> Nat]
             /\ got \in Seq({None} \cup (Writer \X Nat))
             /\ sigs \in [Proc -> Nat]
             /\ ret \in [Proc -> {"NONE", "OK", "EOF", "EPIPE", "EINTR"}]

\* The parts make up the whole.
LEMMA TypeParts ==
  TypeOK <=> RingType /\ EndType /\ WaitType /\ LocalType /\ HistType
BY DEF TypeOK, RingType, EndType, WaitType, LocalType, HistType

\* A step that leaves a part alone keeps its type.
LEMMA TypeKept ==
  ASSUME RingType, EndType, WaitType, LocalType, HistType
  PROVE  /\ UNCHANGED ring => RingType'
         /\ UNCHANGED ends => EndType'
         /\ UNCHANGED <<sched, pc>> => WaitType'
         /\ UNCHANGED local => LocalType'
         /\ UNCHANGED hist => HistType'
BY DEF RingType, EndType, WaitType, LocalType, HistType, ring, ends, sched, local, hist

\* Every step keeps the types.
LEMMA TypeStep ==
  ASSUME NEW r, NEW w, Ends(r, w), Data(r, w), [Next]_vars
  PROVE  TypeOK'
<1>a. Two(r, w)
  BY TwoProcs
<1>w. WriteStep(w) => WriteEffect(w)
  BY WriteChoice
<1>t. WritePublish(w) => count' \in 0..CountMod-1 /\ done' \in [Proc -> Nat] /\ sent' \in [Writer -> Nat]
  BY PublishType
<1>b. RingType /\ EndType /\ WaitType /\ LocalType /\ HistType
  BY TypeParts DEF Data
<1>u. /\ UNCHANGED ring => RingType'
      /\ UNCHANGED ends => EndType'
      /\ UNCHANGED <<sched, pc>> => WaitType'
      /\ UNCHANGED local => LocalType'
      /\ UNCHANGED hist => HistType'
  BY <1>b, TypeKept
<1>c. Size \in Nat /\ Size > 0 /\ CountMod \in Nat /\ CountMod > Size /\ MaxReq \in Nat
  BY PipeAssumption
<1>d. Roles(r, w) /\ Promises(r, w)
  BY DEF Data
<1> DEFINE Types == RingType /\ EndType /\ WaitType /\ LocalType /\ HistType
<1>1. ASSUME ReadEnter(r) PROVE Types'
  <2>1. WaitType'
    BY <1>a, <1>b, <1>1 DEF WaitType, Two, PCs, sched, ReadEnter, Step
  <2>2. LocalType'
    BY <1>a, <1>b, <1>c, <1>1 DEF LocalType, Two, RingType, ReadEnter, Step
  <2>3. HistType'
    BY <1>a, <1>b, <1>1 DEF HistType, Two, ReadEnter, Step
  <2> QED
    BY <1>u, <1>1, <2>1, <2>2, <2>3 DEF ReadEnter
<1>2. ASSUME ReadCount(r) PROVE Types'
  <2>1. WaitType'
    BY <1>a, <1>b, <1>2 DEF WaitType, Two, PCs, sched, ReadCount, Step
  <2>2. LocalType'
    BY <1>a, <1>b, <1>c, <1>2 DEF LocalType, Two, RingType, ReadCount, Step
  <2> QED
    BY <1>u, <1>2, <2>1, <2>2 DEF ReadCount
<1>3. ASSUME ReadEof(r) PROVE Types'
  <2>1. WaitType'
    BY <1>a, <1>b, <1>3 DEF WaitType, Two, PCs, sched, ReadEof, Step, Return
  <2>2. HistType'
    BY <1>a, <1>b, <1>3 DEF HistType, Two, ReadEof, Step, Return
  <2> QED
    BY <1>u, <1>3, <2>1, <2>2 DEF ReadEof
<1>4. ASSUME ReadByte(r) PROVE Types'
  <2>1. RingType'
    <3>1. read_pos' \in 0..Size-1
      BY <1>b, <1>c, <1>4 DEF RingType, ReadByte
    <3> QED
      BY <1>b, <1>4, <3>1 DEF RingType, ReadByte
  <2>2. WaitType'
    BY <1>a, <1>b, <1>4 DEF WaitType, Two, PCs, sched, ReadByte, Step
  <2>3. LocalType'
    BY <1>a, <1>b, <1>c, <1>4 DEF LocalType, Two, RingType, ReadByte, Step
  <2>4. HistType'
    <3>1. buf[read_pos] \in {None} \cup (Writer \X Nat)
      BY <1>b DEF RingType
    <3>2. got' \in Seq({None} \cup (Writer \X Nat))
      BY <1>b, <1>4, <3>1 DEF HistType, ReadByte
    <3> QED
      BY <1>b, <1>4, <3>2 DEF HistType, ReadByte
  <2> QED
    BY <1>u, <1>4, <2>1, <2>2, <2>3, <2>4 DEF ReadByte
<1>5. ASSUME ReadPublish(r) PROVE Types'
  <2>1. RingType'
    <3>1. n[r] \in Nat /\ n[r] <= count /\ count \in 0..CountMod-1
      BY <1>a, <1>b, <1>d, <1>5 DEF Two, RingType, LocalType, Promises, ReadPublish, Step
    <3>2. count' = count - n[r]
      BY <1>5, <3>1 DEF ReadPublish
    <3>3. count' \in 0..CountMod-1
      BY <1>c, <3>1, <3>2
    <3> QED
      BY <1>b, <1>5, <3>3 DEF RingType, ReadPublish
  <2>2. WaitType'
    BY <1>a, <1>b, <1>5 DEF WaitType, Two, PCs, sched, ReadPublish, Step
  <2> QED
    BY <1>u, <1>5, <2>1, <2>2 DEF ReadPublish
<1>6. ASSUME ReadWake(r) PROVE Types'
  <2>1. WaitType'
    BY <1>a, <1>b, <1>6 DEF WaitType, Two, PCs, sched, ReadWake, Step, Return, wake_up_all
  <2>2. HistType'
    BY <1>a, <1>b, <1>6 DEF HistType, Two, ReadWake, Step, Return, wake_up_all
  <2> QED
    BY <1>u, <1>6, <2>1, <2>2 DEF ReadWake
<1>7. ASSUME WriteEnter(w) PROVE Types'
  <2>1. WaitType'
    BY <1>a, <1>b, <1>7 DEF WaitType, Two, PCs, sched, WriteEnter, Step
  <2>2. LocalType'
    <3>1. intr' \in [Proc -> BOOLEAN]
      BY <1>b, <1>7 DEF LocalType, WriteEnter
    <3> QED
      BY <1>b, <1>c, <1>7, <3>1 DEF LocalType, WriteEnter
  <2>3. HistType'
    BY <1>a, <1>b, <1>7 DEF HistType, Two, WriteEnter, Step
  <2> QED
    BY <1>u, <1>7, <2>1, <2>2, <2>3 DEF WriteEnter
<1>8. ASSUME WriteStep(w) PROVE Types'
  <2>1. WaitType'
    BY <1>a, <1>b, <1>w, <1>8 DEF WaitType, sched, WriteEffect, Two, PCs
  <2>2. LocalType'
    BY <1>a, <1>b, <1>w, <1>8 DEF LocalType, WriteEffect, Two, PCs
  <2>3. HistType'
    BY <1>a, <1>b, <1>w, <1>8 DEF HistType, WriteEffect, Two, PCs
  <2> QED
    BY <1>u, <1>8, <2>1, <2>2, <2>3 DEF WriteStep
<1>9. ASSUME WriteByte(w) PROVE Types'
  <2>1. RingType'
    <3>1. <<w, sent[w] + i[w] + 1>> \in {None} \cup (Writer \X Nat)
      BY <1>a, <1>b DEF Two, HistType, LocalType
    <3>2. buf' \in [0..Size-1 -> {None} \cup (Writer \X Nat)]
      BY <1>b, <1>9, <3>1 DEF RingType, WriteByte
    <3>3. write_pos' \in 0..Size-1
      BY <1>b, <1>c, <1>9 DEF RingType, WriteByte
    <3> QED
      BY <1>b, <1>9, <3>2, <3>3 DEF RingType, WriteByte
  <2>2. WaitType'
    BY <1>a, <1>b, <1>9 DEF WaitType, Two, PCs, sched, WriteByte, Step
  <2>3. LocalType'
    BY <1>a, <1>b, <1>c, <1>9 DEF LocalType, Two, RingType, WriteByte, Step
  <2> QED
    BY <1>u, <1>9, <2>1, <2>2, <2>3 DEF WriteByte
<1>10. ASSUME WritePublish(w) PROVE Types'
  <2>1. RingType'
    BY <1>b, <1>t, <1>10 DEF RingType, WritePublish
  <2>2. WaitType'
    BY <1>a, <1>b, <1>10 DEF WaitType, Two, PCs, sched, WritePublish, Step
  <2>3. LocalType'
    BY <1>b, <1>t, <1>10 DEF LocalType, WritePublish
  <2>4. HistType'
    BY <1>b, <1>t, <1>10 DEF HistType, WritePublish
  <2> QED
    BY <1>u, <1>10, <2>1, <2>2, <2>3, <2>4 DEF WritePublish
<1>11. ASSUME WriteWake(w) PROVE Types'
  <2>1. WaitType'
    BY <1>a, <1>b, <1>11 DEF WaitType, Two, PCs, sched, WriteWake, Step, wake_up_all
  <2> QED
    BY <1>u, <1>11, <2>1 DEF WriteWake
<1>12. ASSUME NEW p \in Proc, WaitCond(p) PROVE Types'
  <2>1. WaitType'
    BY <1>a, <1>b, <1>12 DEF WaitType, Two, PCs, sched, WaitCond, Step, Resume
  <2> QED
    BY <1>u, <1>12, <2>1 DEF WaitCond
<1>13. ASSUME NEW p \in Proc, WaitPrepare(p) PROVE Types'
  <2>1. WaitType'
    BY <1>a, <1>b, <1>13 DEF WaitType, Two, PCs, sched, WaitPrepare, Step
  <2> QED
    BY <1>u, <1>13, <2>1 DEF WaitPrepare
<1>14. ASSUME NEW p \in Proc, WaitRecheck(p) PROVE Types'
  <2>1. WaitType'
    BY <1>a, <1>b, <1>14 DEF WaitType, Two, PCs, sched, WaitRecheck, Step, Resume, WaitFinish
  <2> QED
    BY <1>u, <1>14, <2>1 DEF WaitRecheck
<1>15. ASSUME NEW p \in Proc, WaitSleep(p) PROVE Types'
  <2>1. WaitType'
    BY <1>a, <1>b, <1>15 DEF WaitType, Two, PCs, sched, WaitSleep, Step
  <2> QED
    BY <1>u, <1>15, <2>1 DEF WaitSleep
<1>16. ASSUME NEW p \in Proc, WaitDone(p) PROVE Types'
  <2>1. WaitType'
    BY <1>a, <1>b, <1>16 DEF WaitType, Two, PCs, sched, WaitDone, Step, WaitFinish, Return
  <2>2. LocalType'
    <3>1. intr' \in [Proc -> BOOLEAN]
      BY <1>b, <1>16 DEF LocalType, WaitDone
    <3> QED
      BY <1>b, <1>16, <3>1 DEF LocalType, WaitDone
  <2>3. HistType'
    BY <1>a, <1>b, <1>16 DEF HistType, Two, WaitDone, Step, WaitFinish, Return
  <2> QED
    BY <1>u, <1>16, <2>1, <2>2, <2>3 DEF WaitDone
<1>17. ASSUME NEW p \in Proc, Close(p) PROVE Types'
  <2>1. EndType'
    BY <1>a, <1>b, <1>d, <1>17 DEF EndType, Two, Roles, Closing, Close, Step
  <2>2. WaitType'
    BY <1>a, <1>b, <1>17 DEF WaitType, Two, PCs, sched, Close, Step
  <2> QED
    BY <1>u, <1>17, <2>1, <2>2 DEF Close
<1>18. ASSUME NEW p \in Proc, ReleaseDec(p) PROVE Types'
  <2>1. EndType'
    BY <1>a, <1>b, <1>d, <1>18 DEF EndType, Two, Roles, Closing, ReleaseDec, Step
  <2>2. WaitType'
    BY <1>a, <1>b, <1>18 DEF WaitType, Two, PCs, sched, ReleaseDec, Step
  <2> QED
    BY <1>u, <1>18, <2>1, <2>2 DEF ReleaseDec
<1>19. ASSUME NEW p \in Proc, ReleaseWake(p) PROVE Types'
  <2>1. WaitType'
    BY <1>a, <1>b, <1>19 DEF WaitType, Two, PCs, sched, ReleaseWake, Step, wake_up_all
  <2> QED
    BY <1>u, <1>19, <2>1 DEF ReleaseWake
<1>20. ASSUME NEW p \in Proc, pipe_maybe_free(p) PROVE Types'
  <2>1. EndType'
    BY <1>b, <1>d, <1>20 DEF EndType, Roles, Closing, pipe_maybe_free, Step
  <2>2. WaitType'
    BY <1>a, <1>b, <1>20 DEF WaitType, Two, PCs, sched, pipe_maybe_free, Step
  <2> QED
    BY <1>u, <1>20, <2>1, <2>2 DEF pipe_maybe_free
<1>21. ASSUME NEW p \in Proc, Preempt(p) PROVE Types'
  <2>1. WaitType'
    BY <1>a, <1>b, <1>21 DEF WaitType, Two, PCs, sched, Preempt
  <2> QED
    BY <1>u, <1>21, <2>1 DEF Preempt
<1>22. ASSUME NEW p \in Proc, Signal(p) PROVE Types'
  <2>1. WaitType'
    BY <1>a, <1>b, <1>22 DEF WaitType, Two, PCs, sched, Signal
  <2>2. HistType'
    BY <1>a, <1>b, <1>22 DEF HistType, Two, Signal
  <2> QED
    BY <1>u, <1>22, <2>1, <2>2 DEF Signal
<1>23. ASSUME UNCHANGED vars PROVE Types'
  BY <1>u, <1>23 DEF vars
<1>24. Types'
  <2> HIDE DEF Types
  <2> QED
    BY <1>a, <1>1, <1>2, <1>3, <1>4, <1>5, <1>6, <1>7, <1>8, <1>9, <1>10, <1>11, <1>12,
       <1>13, <1>14, <1>15, <1>16, <1>17, <1>18, <1>19, <1>20, <1>21, <1>22, <1>23
    DEF Next, Read, Write, Wait, Release, Ends, Two
<1> QED
  BY <1>24 DEF TypeOK, RingType, EndType, WaitType, LocalType, HistType

\* Every step keeps the processes in their own code and the counters right.
LEMMA RolesStep ==
  ASSUME NEW r, NEW w, Ends(r, w), Data(r, w), [Next]_vars
  PROVE  Roles(r, w)'
<1>0. Two(r, w)
  BY TwoProcs
<1>w. WriteStep(w) => WriteEffect(w)
  BY WriteChoice
<1>b. TypeOK /\ Roles(r, w) /\ Promises(r, w)
  BY DEF Data
<1>c. pc \in [Proc -> PCs]
  BY <1>b DEF TypeOK
<1> USE <1>0, <1>b, <1>c DEF Two, Roles, PCs, Closing, vars, ring, ends, sched, local, hist
<1>1. CASE ReadEnter(r)
  BY <1>1 DEF ReadEnter, Step
<1>2. CASE ReadCount(r)
  BY <1>2 DEF ReadCount, Step
<1>3. CASE ReadEof(r)
  BY <1>3 DEF ReadEof, Step, Return
<1>4. CASE ReadByte(r)
  BY <1>4 DEF ReadByte, Step
<1>5. CASE ReadPublish(r)
  BY <1>5 DEF ReadPublish, Step
<1>6. CASE ReadWake(r)
  BY <1>6 DEF ReadWake, Step, Return, wake_up_all
<1>7. CASE WriteEnter(w)
  BY <1>7 DEF WriteEnter, Step
<1>8. CASE WriteStep(w)
  <2>0. pc[w] = "w_step" /\ UNCHANGED <<ring, ends, sched, req, done, intr, sent, got, sigs>>
    BY <1>8, <1>w DEF WriteEffect
  <2>1. CASE pc' = [pc EXCEPT ![w] = "user"] /\ UNCHANGED <<n, i>>
    <3>1. PICK x \in {"OK", "EPIPE", "EINTR"} : ret' = [ret EXCEPT ![w] = x] \/ ret' = ret
      BY <1>8, <1>w DEF WriteEffect
    <3> QED
      BY <2>0, <2>1, <3>1
  <2>2. CASE pc' = [pc EXCEPT ![w] = "cond"] /\ UNCHANGED <<n, i, ret>>
    BY <2>0, <2>2
  <2>3. ASSUME NEW m \in Nat, m + count <= Size, n' = [n EXCEPT ![w] = m], UNCHANGED ret,
               pc' = [pc EXCEPT ![w] = "w_copy"], i' = [i EXCEPT ![w] = 0]
        PROVE  Roles(r, w)'
    BY <2>0, <2>3
  <2> QED
    BY <1>8, <1>w, <2>1, <2>2, <2>3 DEF WriteEffect
<1>9. CASE WriteByte(w)
  BY <1>9 DEF WriteByte, Step
<1>10. CASE WritePublish(w)
  BY <1>10 DEF WritePublish, Step
<1>11. CASE WriteWake(w)
  BY <1>11 DEF WriteWake, Step, wake_up_all
<1>12. ASSUME NEW p \in Proc, WaitCond(p) PROVE Roles(r, w)'
  BY <1>12 DEF WaitCond, Step, Resume
<1>13. ASSUME NEW p \in Proc, WaitPrepare(p) PROVE Roles(r, w)'
  BY <1>13 DEF WaitPrepare, Step
<1>14. ASSUME NEW p \in Proc, WaitRecheck(p) PROVE Roles(r, w)'
  BY <1>14 DEF WaitRecheck, Step, Resume, WaitFinish
<1>15. ASSUME NEW p \in Proc, WaitSleep(p) PROVE Roles(r, w)'
  BY <1>15 DEF WaitSleep, Step
<1>16. ASSUME NEW p \in Proc, WaitDone(p) PROVE Roles(r, w)'
  BY <1>16 DEF WaitDone, Step, WaitFinish, Return
<1>17. ASSUME NEW p \in Proc, Close(p) PROVE Roles(r, w)'
  BY <1>17 DEF Close, Step
<1>18. ASSUME NEW p \in Proc, ReleaseDec(p) PROVE Roles(r, w)'
  BY <1>18 DEF ReleaseDec, Step
<1>19. ASSUME NEW p \in Proc, ReleaseWake(p) PROVE Roles(r, w)'
  BY <1>19 DEF ReleaseWake, Step, wake_up_all
<1>20. ASSUME NEW p \in Proc, pipe_maybe_free(p) PROVE Roles(r, w)'
  BY <1>20 DEF pipe_maybe_free, Step
<1>21. ASSUME NEW p \in Proc, Preempt(p) PROVE Roles(r, w)'
  BY <1>21 DEF Preempt
<1>22. ASSUME NEW p \in Proc, Signal(p) PROVE Roles(r, w)'
  BY <1>22 DEF Signal
<1>23. CASE UNCHANGED vars
  BY <1>23 DEF vars
<1> QED
  BY <1>1, <1>2, <1>3, <1>4, <1>5, <1>6, <1>7, <1>8, <1>9, <1>10, <1>11, <1>12, <1>13, <1>14,
     <1>15, <1>16, <1>17, <1>18, <1>19, <1>20, <1>21, <1>22, <1>23 DEF Next, Read, Write,
     Wait, Release, Ends

\* Every step keeps what a copy in progress was promised.
LEMMA PromisesStep ==
  ASSUME NEW r, NEW w, Ends(r, w), Data(r, w), [Next]_vars
  PROVE  Promises(r, w)'
<1>0. Two(r, w)
  BY TwoProcs
<1>w. WriteStep(w) => WriteEffect(w)
  BY WriteChoice
<1>t. WritePublish(w) => count' = count + n[w]
  BY PublishType
<1>b. TypeOK /\ Roles(r, w) /\ Promises(r, w)
  BY DEF Data
<1>c. /\ pc \in [Proc -> PCs] /\ n \in [Proc -> Nat] /\ i \in [Proc -> Nat] /\ req \in [Proc -> Nat]
      /\ count \in Nat /\ Size \in Nat
  BY <1>b, PipeAssumption DEF TypeOK
<1> USE <1>0, <1>b, <1>c DEF Two, Roles, Promises, vars, ring, ends, sched, local, hist
<1>1. CASE ReadEnter(r)
  BY <1>1 DEF ReadEnter, Step
<1>2. CASE ReadCount(r)
  BY <1>2 DEF ReadCount, Step
<1>3. CASE ReadEof(r)
  BY <1>3 DEF ReadEof, Step, Return
<1>4. CASE ReadByte(r)
  BY <1>4 DEF ReadByte, Step
<1>5. CASE ReadPublish(r)
  BY <1>5 DEF ReadPublish, Step
<1>6. CASE ReadWake(r)
  BY <1>6 DEF ReadWake, Step, Return, wake_up_all
<1>7. CASE WriteEnter(w)
  BY <1>7 DEF WriteEnter, Step
<1>8. CASE WriteStep(w)
  <2>0. pc[w] = "w_step" /\ UNCHANGED <<ring, ends, sched, req, done, intr, sent, got, sigs>>
    BY <1>8, <1>w DEF WriteEffect
  <2>1. CASE pc' = [pc EXCEPT ![w] = "user"] /\ UNCHANGED <<n, i>>
    <3>1. PICK x \in {"OK", "EPIPE", "EINTR"} : ret' = [ret EXCEPT ![w] = x] \/ ret' = ret
      BY <1>8, <1>w DEF WriteEffect
    <3> QED
      BY <2>0, <2>1, <3>1
  <2>2. CASE pc' = [pc EXCEPT ![w] = "cond"] /\ UNCHANGED <<n, i, ret>>
    BY <2>0, <2>2
  <2>3. ASSUME NEW m \in Nat, m + count <= Size, n' = [n EXCEPT ![w] = m], UNCHANGED ret,
               pc' = [pc EXCEPT ![w] = "w_copy"], i' = [i EXCEPT ![w] = 0]
        PROVE  Promises(r, w)'
    BY <2>0, <2>3
  <2> QED
    BY <1>8, <1>w, <2>1, <2>2, <2>3 DEF WriteEffect
<1>9. CASE WriteByte(w)
  BY <1>9 DEF WriteByte, Step
<1>10. CASE WritePublish(w)
  <2>1. n[w] \in Nat /\ count \in Nat /\ n[w] + count <= Size /\ pc' = [pc EXCEPT ![w] = "w_wake"]
    BY <1>10 DEF WritePublish, Step
  <2> QED
    BY <1>10, <1>t, <2>1 DEF WritePublish
<1>11. CASE WriteWake(w)
  BY <1>11 DEF WriteWake, Step, wake_up_all
<1>12. ASSUME NEW p \in Proc, WaitCond(p) PROVE Promises(r, w)'
  BY <1>12 DEF WaitCond, Step, Resume
<1>13. ASSUME NEW p \in Proc, WaitPrepare(p) PROVE Promises(r, w)'
  BY <1>13 DEF WaitPrepare, Step
<1>14. ASSUME NEW p \in Proc, WaitRecheck(p) PROVE Promises(r, w)'
  BY <1>14 DEF WaitRecheck, Step, Resume, WaitFinish
<1>15. ASSUME NEW p \in Proc, WaitSleep(p) PROVE Promises(r, w)'
  BY <1>15 DEF WaitSleep, Step
<1>16. ASSUME NEW p \in Proc, WaitDone(p) PROVE Promises(r, w)'
  BY <1>16 DEF WaitDone, Step, WaitFinish, Return
<1>17. ASSUME NEW p \in Proc, Close(p) PROVE Promises(r, w)'
  BY <1>17 DEF Close, Step
<1>18. ASSUME NEW p \in Proc, ReleaseDec(p) PROVE Promises(r, w)'
  BY <1>18 DEF ReleaseDec, Step
<1>19. ASSUME NEW p \in Proc, ReleaseWake(p) PROVE Promises(r, w)'
  BY <1>19 DEF ReleaseWake, Step, wake_up_all
<1>20. ASSUME NEW p \in Proc, pipe_maybe_free(p) PROVE Promises(r, w)'
  BY <1>20 DEF pipe_maybe_free, Step
<1>21. ASSUME NEW p \in Proc, Preempt(p) PROVE Promises(r, w)'
  BY <1>21 DEF Preempt
<1>22. ASSUME NEW p \in Proc, Signal(p) PROVE Promises(r, w)'
  BY <1>22 DEF Signal
<1>23. CASE UNCHANGED vars
  BY <1>23 DEF vars
<1> QED
  BY <1>1, <1>2, <1>3, <1>4, <1>5, <1>6, <1>7, <1>8, <1>9, <1>10, <1>11, <1>12, <1>13, <1>14,
     <1>15, <1>16, <1>17, <1>18, <1>19, <1>20, <1>21, <1>22, <1>23 DEF Next, Read, Write,
     Wait, Release, Ends

\* Advancing a position of the ring.
LEMMA Wrap ==
  ASSUME NEW x \in 0..Size-1
  PROVE  (x + 1) % Size = IF x + 1 = Size THEN 0 ELSE x + 1
BY PipeAssumption

\* What moving the read position, or the distance from it, does to a slot.
LEMMA Moves ==
  ASSUME NEW pos \in 0..Size-1, NEW k \in 0..Size-1
  PROVE  /\ Ahead(pos, 0) = pos /\ Ahead(pos, k) \in 0..Size-1
         /\ Ahead(IF pos + 1 = Size THEN 0 ELSE pos + 1, k) = Ahead(pos, k + 1)
         /\ Ahead(pos, k + 1) = IF Ahead(pos, k) + 1 = Size THEN 0 ELSE Ahead(pos, k) + 1
BY PipeAssumption DEF Ahead

\* Different distances are different slots.
LEMMA Apart ==
  ASSUME NEW pos \in 0..Size-1, NEW j \in 0..Size-1, NEW k \in 0..Size-1, j < k
  PROVE  Ahead(pos, j) # Ahead(pos, k)
BY PipeAssumption DEF Ahead

\* The numbers of Content and their ranges.
InRange(r, w) ==
  /\ Size \in Nat /\ Size > 0 /\ count \in Nat /\ read_pos \in 0..Size-1
  /\ Taken(r) \in Nat /\ Taken(r) <= count
  /\ Added(w) \in Nat /\ Added(w) + count <= Size
  /\ Fill(r, w) = count + Added(w) - Taken(r) /\ Fill(r, w) \in 0..Size
  /\ Len(got) \in Nat
  /\ sent[w] \in Nat /\ i[w] \in Nat /\ i[r] \in Nat /\ n[w] \in Nat /\ n[r] \in Nat

\* The numbers are in range whenever Data holds.
LEMMA Ranges ==
  ASSUME NEW r, NEW w, Ends(r, w), Data(r, w)
  PROVE  InRange(r, w)
<1>a. Two(r, w)
  BY TwoProcs
<1>b. TypeOK /\ Promises(r, w)
  BY DEF Data
<1>1. /\ Size \in Nat /\ Size > 0 /\ count \in Nat /\ read_pos \in 0..Size-1
      /\ Len(got) \in Nat
  BY <1>b, PipeAssumption DEF TypeOK
<1>2. sent[w] \in Nat /\ i[w] \in Nat /\ i[r] \in Nat /\ n[w] \in Nat /\ n[r] \in Nat
  BY <1>a, <1>b DEF Two, TypeOK
<1>3. Taken(r) \in Nat /\ Taken(r) <= count
  BY <1>b, <1>1, <1>2 DEF Promises, Taken
<1>4. Added(w) \in Nat /\ Added(w) + count <= Size
  BY <1>b, <1>1, <1>2 DEF Promises, Added
<1> QED
  BY SMTT(30), <1>1, <1>2, <1>3, <1>4 DEF Fill, InRange

\* A step that touches neither the ring nor a copy in progress.
LEMMA ContentKept ==
  ASSUME NEW r, NEW w, Ends(r, w), Data(r, w), UNCHANGED <<ring, sent, got>>,
         Taken(r)' = Taken(r), Added(w)' = Added(w)
  PROVE  Content(r, w)'
BY DEF Data, Content, Slot, Fill, ring

\* One byte leaves the ring.
LEMMA ReadByteContent ==
  ASSUME NEW r, NEW w, Ends(r, w), Data(r, w), ReadByte(r)
  PROVE  Content(r, w)'
<1>a. Two(r, w) /\ InRange(r, w)
  BY TwoProcs, Ranges
<1>b. TypeOK /\ Promises(r, w)
  BY DEF Data
<1>s. sent[w] = Len(got) + count - Taken(r)
  BY DEF Data, Content
<1>c. write_pos = Slot(Fill(r, w))
  BY DEF Data, Content
<1>d. \A k \in 0..Size-1 : k < Fill(r, w) => buf[Slot(k)] = <<w, Len(got) + 1 + k>>
  BY DEF Data, Content
<1>e. \A k \in 1..Len(got) : got[k] = <<w, k>>
  BY DEF Data, Content
<1>1. buf' = buf /\ write_pos' = write_pos /\ sent' = sent /\ count' = count /\ n' = n
  BY DEF ReadByte
<1>f. got' = Append(got, buf[read_pos]) /\ read_pos' = (read_pos + 1) % Size
  BY DEF ReadByte
<1>g. /\ i' = [i EXCEPT ![r] = @ + 1] /\ i[r] < n[r]
      /\ pc[r] = "r_copy" /\ pc' = [pc EXCEPT ![r] = "r_copy"]
  BY DEF ReadByte, Step
<1>2. /\ Taken(r) = i[r] /\ Taken(r)' = Taken(r) + 1 /\ Added(w)' = Added(w)
      /\ Taken(r) < count
  <2>1. pc[w]' = pc[w] /\ i'[w] = i[w] /\ pc'[r] = "r_copy" /\ i'[r] = i[r] + 1
    BY <1>a, <1>b, <1>g DEF Two, TypeOK
  <2>2. n[r] <= count
    BY <1>b, <1>g DEF Promises
  <2> QED
    BY SMTT(30), <1>a, <1>g, <2>1, <2>2 DEF InRange, Taken, Added
<1>3. Fill(r, w) \in 1..Size /\ Fill(r, w)' = Fill(r, w) - 1
  <2>1. Fill(r, w)' = count' + Added(w)' - Taken(r)'
    BY DEF Fill
  <2> QED
    BY SMTT(30), <1>a, <1>1, <1>2, <2>1 DEF InRange
<1>4. read_pos' = IF read_pos + 1 = Size THEN 0 ELSE read_pos + 1
  BY <1>a, <1>f, Wrap DEF InRange
<1>5. Slot(0) = read_pos /\ \A k \in 0..Size-1 : Slot(k)' = Slot(k + 1)
  <2>1. read_pos \in 0..Size-1 /\ 0 \in 0..Size-1
    BY <1>a DEF InRange
  <2> QED
    BY <1>4, <2>1, Moves DEF Slot
<1>6. buf[read_pos] = <<w, Len(got) + 1>>
  <2>1. 0 \in 0..Size-1 /\ 0 < Fill(r, w)
    BY <1>a, <1>3 DEF InRange
  <2>2. buf[Slot(0)] = <<w, Len(got) + 1 + 0>>
    BY <1>d, <2>1
  <2>3. Len(got) + 1 + 0 = Len(got) + 1
    BY <1>a DEF InRange
  <2> QED
    BY <1>5, <2>2, <2>3
<1>k. /\ Len(got') = Len(got) + 1 /\ got'[Len(got) + 1] = <<w, Len(got) + 1>>
      /\ \A k \in 1..Len(got) : got'[k] = got[k]
  <2>1. got \in Seq({None} \cup (Writer \X Nat))
    BY <1>b DEF TypeOK
  <2>2. buf[read_pos] \in {None} \cup (Writer \X Nat)
    <3>1. read_pos \in 0..Size-1
      BY <1>a DEF InRange
    <3> QED
      BY <1>b, <3>1 DEF TypeOK
  <2> QED
    BY <1>f, <1>6, <2>1, <2>2
<1>7. Len(got') = Len(got) + 1
  BY <1>k
<1>8. sent'[w] = Len(got') + count' - Taken(r)'
  <2>1. sent'[w] = sent[w] /\ count' = count
    BY <1>1
  <2>2. count \in Nat /\ Taken(r) \in Nat /\ Len(got) \in Nat
    BY <1>a DEF InRange
  <2>3. Taken(r)' = Taken(r) + 1
    BY <1>2
  <2> QED
    BY <1>s, <1>7, <2>1, <2>2, <2>3
<1>9. write_pos' = Slot(Fill(r, w))'
  <2>1. PICK k \in 0..Size-1 : k = Fill(r, w)' /\ k + 1 = Fill(r, w)
    BY <1>a, <1>3 DEF InRange
  <2>2. read_pos \in 0..Size-1
    BY <1>a DEF InRange
  <2>3. Ahead(read_pos', k) = Ahead(read_pos, k + 1)
    BY <1>4, <2>2, Moves
  <2> QED
    BY <1>c, <1>1, <2>1, <2>3 DEF Slot
<1>10. ASSUME NEW k \in 0..Size-1, k < Fill(r, w)'
       PROVE  buf'[Slot(k)'] = <<w, Len(got') + 1 + k>>
  <2>1. k + 1 \in 0..Size-1 /\ k + 1 < Fill(r, w) /\ Len(got) + 1 + (k + 1) = Len(got') + 1 + k
    BY <1>a, <1>3, <1>7, <1>10 DEF InRange
  <2>2. buf[Slot(k + 1)] = <<w, Len(got) + 1 + (k + 1)>>
    BY <1>d, <2>1
  <2> QED
    BY <1>1, <1>5, <2>1, <2>2
<1>11. ASSUME NEW k \in 1..Len(got') PROVE got'[k] = <<w, k>>
  <2>1. k \in 1..Len(got) \/ k = Len(got) + 1
    <3>1. PICK m \in Nat : m = Len(got)
      BY <1>a DEF InRange
    <3>2. k \in 1..m + 1
      BY <1>7, <3>1
    <3>3. k \in 1..m \/ k = m + 1
      BY <3>2
    <3> QED
      BY <3>1, <3>3
  <2> QED
    BY <1>e, <1>k, <2>1
<1> QED
  BY <1>8, <1>9, <1>10, <1>11 DEF Content

\* One byte enters the ring.
LEMMA WriteByteContent ==
  ASSUME NEW r, NEW w, Ends(r, w), Data(r, w), WriteByte(w)
  PROVE  Content(r, w)'
<1>a. Two(r, w) /\ InRange(r, w)
  BY TwoProcs, Ranges
<1>b. TypeOK /\ Promises(r, w)
  BY DEF Data
<1>s. sent[w] = Len(got) + count - Taken(r)
  BY DEF Data, Content
<1>c. write_pos = Slot(Fill(r, w))
  BY DEF Data, Content
<1>d. \A k \in 0..Size-1 : k < Fill(r, w) => buf[Slot(k)] = <<w, Len(got) + 1 + k>>
  BY DEF Data, Content
<1>e. \A k \in 1..Len(got) : got[k] = <<w, k>>
  BY DEF Data, Content
<1>1. read_pos' = read_pos /\ sent' = sent /\ count' = count /\ got' = got /\ n' = n
  BY DEF WriteByte, hist
<1>f. buf' = [buf EXCEPT ![write_pos] = <<w, sent[w] + i[w] + 1>>]
  BY DEF WriteByte
<1>h. write_pos' = (write_pos + 1) % Size
  BY DEF WriteByte
<1>g. /\ i' = [i EXCEPT ![w] = @ + 1] /\ i[w] < n[w]
      /\ pc[w] = "w_copy" /\ pc' = [pc EXCEPT ![w] = "w_copy"]
  BY DEF WriteByte, Step, hist
<1>2. /\ Added(w) = i[w] /\ Added(w)' = Added(w) + 1 /\ Taken(r)' = Taken(r)
      /\ Added(w) + count < Size
  <2>1. pc[r]' = pc[r] /\ i'[r] = i[r] /\ pc'[w] = "w_copy" /\ i'[w] = i[w] + 1
    BY <1>a, <1>b, <1>g DEF Two, TypeOK
  <2>2. n[w] + count <= Size
    BY <1>b, <1>g DEF Promises
  <2> QED
    BY SMTT(30), <1>a, <1>g, <2>1, <2>2 DEF InRange, Taken, Added
<1>3. Fill(r, w) \in 0..Size-1 /\ Fill(r, w)' = Fill(r, w) + 1
  <2>1. Fill(r, w)' = count' + Added(w)' - Taken(r)'
    BY DEF Fill
  <2> QED
    BY SMTT(30), <1>a, <1>1, <1>2, <2>1 DEF InRange
<1>4. \A k \in 0..Size-1 : Slot(k) \in 0..Size-1 /\ Slot(k)' = Slot(k)
  <2>1. read_pos \in 0..Size-1
    BY <1>a DEF InRange
  <2> QED
    BY <1>1, <2>1, Moves DEF Slot
<1>5. write_pos \in 0..Size-1
  BY <1>c, <1>3, <1>4
<1>6. write_pos' = IF write_pos + 1 = Size THEN 0 ELSE write_pos + 1
  BY <1>h, <1>5, Wrap
<1>7. sent'[w] = Len(got') + count' - Taken(r)'
  BY <1>s, <1>1, <1>2
<1>8. write_pos' = Slot(Fill(r, w))'
  <2>1. read_pos \in 0..Size-1
    BY <1>a DEF InRange
  <2>2. write_pos' = Ahead(read_pos, Fill(r, w) + 1)
    BY <1>c, <1>3, <1>6, <2>1, Moves DEF Slot
  <2> QED
    BY <1>1, <1>3, <2>2 DEF Slot
<1>9. ASSUME NEW k \in 0..Size-1, k < Fill(r, w)'
      PROVE  buf'[Slot(k)'] = <<w, Len(got') + 1 + k>>
  <2>1. CASE k = Fill(r, w)
    <3>1. buf'[write_pos] = <<w, sent[w] + i[w] + 1>>
      BY <1>b, <1>f, <1>5 DEF TypeOK
    <3>2. sent[w] + i[w] + 1 = Len(got) + 1 + k
      <4>1. count \in Nat /\ Taken(r) \in Nat /\ Len(got) \in Nat /\ i[w] \in Nat
        BY <1>a DEF InRange
      <4>2. k = count + i[w] - Taken(r)
        BY <1>2, <2>1 DEF Fill
      <4> QED
        BY SMTT(30), <1>s, <4>1, <4>2
    <3>3. Slot(k)' = write_pos
      BY <1>c, <1>4, <2>1
    <3> QED
      BY <1>1, <3>1, <3>2, <3>3
  <2>2. CASE k < Fill(r, w)
    <3>1. Slot(k) # write_pos
      <4>1. read_pos \in 0..Size-1
        BY <1>a DEF InRange
      <4> QED
        BY <1>c, <1>3, <2>2, <4>1, Apart DEF Slot
    <3>2. buf'[Slot(k)] = buf[Slot(k)]
      BY <1>b, <1>f, <1>4, <3>1 DEF TypeOK
    <3> QED
      BY <1>d, <1>1, <1>4, <2>2, <3>2
  <2> QED
    BY <1>3, <1>9, <2>1, <2>2
<1>10. \A k \in 1..Len(got') : got'[k] = <<w, k>>
  BY <1>e, <1>1
<1> QED
  BY <1>7, <1>8, <1>9, <1>10 DEF Content

\* A reader's copy is published: the bytes had left the ring already.
LEMMA ReadPublishContent ==
  ASSUME NEW r, NEW w, Ends(r, w), Data(r, w), ReadPublish(r)
  PROVE  Content(r, w)'
<1>a. Two(r, w) /\ InRange(r, w)
  BY TwoProcs, Ranges
<1>b. TypeOK /\ Promises(r, w)
  BY DEF Data
<1>s. sent[w] = Len(got) + count - Taken(r)
  BY DEF Data, Content
<1>c. write_pos = Slot(Fill(r, w))
  BY DEF Data, Content
<1>d. \A k \in 0..Size-1 : k < Fill(r, w) => buf[Slot(k)] = <<w, Len(got) + 1 + k>>
  BY DEF Data, Content
<1>e. \A k \in 1..Len(got) : got[k] = <<w, k>>
  BY DEF Data, Content
<1>1. /\ buf' = buf /\ read_pos' = read_pos /\ write_pos' = write_pos
      /\ sent' = sent /\ got' = got /\ i' = i /\ i[r] = n[r]
      /\ count' = IF n[r] <= count THEN count - n[r] ELSE count + CountMod - n[r]
      /\ pc[r] = "r_copy" /\ pc' = [pc EXCEPT ![r] = "r_wake"]
  BY DEF ReadPublish, Step, hist, local
<1>2. /\ Taken(r) = n[r] /\ Taken(r)' = 0 /\ Added(w)' = Added(w)
      /\ n[r] <= count
  BY <1>a, <1>b, <1>1 DEF Two, TypeOK, Promises, Taken, Added
<1>3. Fill(r, w)' = Fill(r, w)
  <2>1. Fill(r, w)' = count' + Added(w)' - Taken(r)'
    BY DEF Fill
  <2> QED
    BY <1>a, <1>1, <1>2, <2>1 DEF InRange
<1>4. sent'[w] = Len(got') + count' - Taken(r)'
  BY <1>a, <1>s, <1>1, <1>2 DEF InRange
<1> QED
  BY <1>c, <1>d, <1>e, <1>1, <1>3, <1>4 DEF Content, Slot

\* A writer's copy is published: the bytes were in the ring already.
LEMMA WritePublishContent ==
  ASSUME NEW r, NEW w, Ends(r, w), Data(r, w), WritePublish(w)
  PROVE  Content(r, w)'
<1>a. Two(r, w) /\ InRange(r, w)
  BY TwoProcs, Ranges
<1>b. TypeOK /\ Promises(r, w)
  BY DEF Data
<1>s. sent[w] = Len(got) + count - Taken(r)
  BY DEF Data, Content
<1>c. write_pos = Slot(Fill(r, w))
  BY DEF Data, Content
<1>d. \A k \in 0..Size-1 : k < Fill(r, w) => buf[Slot(k)] = <<w, Len(got) + 1 + k>>
  BY DEF Data, Content
<1>e. \A k \in 1..Len(got) : got[k] = <<w, k>>
  BY DEF Data, Content
<1>1. /\ buf' = buf /\ read_pos' = read_pos /\ write_pos' = write_pos
      /\ got' = got /\ i' = i /\ i[w] = n[w]
      /\ count' = IF count + n[w] < CountMod THEN count + n[w] ELSE count + n[w] - CountMod
      /\ pc[w] = "w_copy" /\ pc' = [pc EXCEPT ![w] = "w_wake"]
  BY DEF WritePublish, Step
<1>f. sent' = [sent EXCEPT ![w] = @ + n[w]]
  BY DEF WritePublish
<1>2. /\ Added(w) = n[w] /\ Added(w)' = 0 /\ Taken(r)' = Taken(r)
      /\ n[w] + count <= Size
  BY <1>a, <1>b, <1>1 DEF Two, TypeOK, Promises, Taken, Added
<1>3. count' = count + n[w] /\ sent'[w] = sent[w] + n[w]
  <2>1. CountMod \in Nat /\ CountMod > 2 * Size
    BY PipeAssumption
  <2>2. count' = count + n[w]
    BY <1>a, <1>1, <1>2, <2>1 DEF InRange
  <2>3. sent'[w] = sent[w] + n[w]
    BY <1>a, <1>b, <1>f DEF Two, TypeOK
  <2> QED
    BY <2>2, <2>3
<1>4. Fill(r, w)' = Fill(r, w)
  <2>1. Fill(r, w)' = count' + Added(w)' - Taken(r)'
    BY DEF Fill
  <2> QED
    BY <1>a, <1>2, <1>3, <2>1 DEF InRange
<1>5. sent'[w] = Len(got') + count' - Taken(r)'
  BY SMTT(30), <1>a, <1>s, <1>1, <1>2, <1>3 DEF InRange
<1> QED
  BY <1>c, <1>d, <1>e, <1>1, <1>4, <1>5 DEF Content, Slot

\* Every step keeps the content of the ring and of what was read.
LEMMA ContentStep ==
  ASSUME NEW r, NEW w, Ends(r, w), Data(r, w), [Next]_vars
  PROVE  Content(r, w)'
<1>0. Two(r, w)
  BY TwoProcs
<1>w. WriteStep(w) => WriteEffect(w)
  BY WriteChoice
<1> DEFINE Quiet == UNCHANGED <<ring, sent, got>> /\ Taken(r)' = Taken(r) /\ Added(w)' = Added(w)
<1>q. ASSUME Quiet PROVE Content(r, w)'
  BY <1>q, ContentKept
<1>1. ASSUME ReadEnter(r) PROVE Quiet
  BY <1>0, <1>1 DEF ReadEnter, Step, Data, TypeOK, Roles, Taken, Added, ring, local, hist, Two
<1>2. ASSUME ReadCount(r) PROVE Quiet
  BY <1>0, <1>2 DEF ReadCount, Step, Data, TypeOK, Roles, Taken, Added, ring, local, hist, Two
<1>3. ASSUME ReadEof(r) PROVE Quiet
  BY <1>0, <1>3 DEF ReadEof, Step, Return, Data, TypeOK, Roles, Taken, Added, ring, local, hist, Two
<1>4. CASE ReadByte(r)
  BY <1>4, ReadByteContent
<1>5. CASE ReadPublish(r)
  BY <1>5, ReadPublishContent
<1>6. ASSUME ReadWake(r) PROVE Quiet
  BY <1>0, <1>6 DEF ReadWake, Step, Return, wake_up_all, Data, TypeOK, Roles, Taken, Added,
     ring, local, hist, Two
<1>7. ASSUME WriteEnter(w) PROVE Quiet
  BY <1>0, <1>7 DEF WriteEnter, Step, Data, TypeOK, Roles, Taken, Added, ring, local, hist, Two
<1>8. ASSUME WriteStep(w) PROVE Quiet
  BY <1>0, <1>w, <1>8 DEF WriteEffect, Data, TypeOK, Roles, Taken, Added, ring, Two
<1>9. CASE WriteByte(w)
  BY <1>9, WriteByteContent
<1>10. CASE WritePublish(w)
  BY <1>10, WritePublishContent
<1>11. ASSUME WriteWake(w) PROVE Quiet
  BY <1>0, <1>11 DEF WriteWake, Step, wake_up_all, Data, TypeOK, Roles, Taken, Added, ring,
     local, hist, Two
<1>12. ASSUME NEW p \in Proc, WaitCond(p) PROVE Quiet
  BY <1>0, <1>12 DEF WaitCond, Step, Resume, Data, TypeOK, Roles, Taken, Added, ring, local,
     hist, Two
<1>13. ASSUME NEW p \in Proc, WaitPrepare(p) PROVE Quiet
  BY <1>0, <1>13 DEF WaitPrepare, Step, Data, TypeOK, Roles, Taken, Added, ring, local, hist, Two
<1>14. ASSUME NEW p \in Proc, WaitRecheck(p) PROVE Quiet
  BY <1>0, <1>14 DEF WaitRecheck, Step, Resume, WaitFinish, Data, TypeOK, Roles, Taken, Added,
     ring, local, hist, Two
<1>15. ASSUME NEW p \in Proc, WaitSleep(p) PROVE Quiet
  BY <1>0, <1>15 DEF WaitSleep, Step, Data, TypeOK, Roles, Taken, Added, ring, local, hist, Two
<1>16. ASSUME NEW p \in Proc, WaitDone(p) PROVE Quiet
  BY <1>0, <1>16 DEF WaitDone, Step, WaitFinish, Return, Data, TypeOK, Roles, Taken, Added,
     ring, local, hist, Two
<1>17. ASSUME NEW p \in Proc, Close(p) PROVE Quiet
  BY <1>0, <1>17 DEF Close, Step, Data, TypeOK, Roles, Taken, Added, ring, local, hist, Two
<1>18. ASSUME NEW p \in Proc, ReleaseDec(p) PROVE Quiet
  BY <1>0, <1>18 DEF ReleaseDec, Step, Data, TypeOK, Roles, Taken, Added, ring, local, hist, Two
<1>19. ASSUME NEW p \in Proc, ReleaseWake(p) PROVE Quiet
  BY <1>0, <1>19 DEF ReleaseWake, Step, wake_up_all, Data, TypeOK, Roles, Taken, Added, ring,
     local, hist, Two
<1>20. ASSUME NEW p \in Proc, pipe_maybe_free(p) PROVE Quiet
  BY <1>0, <1>20 DEF pipe_maybe_free, Step, Data, TypeOK, Roles, Taken, Added, ring, local,
     hist, Two
<1>21. ASSUME NEW p \in Proc, Preempt(p) PROVE Quiet
  BY <1>0, <1>21 DEF Preempt, Data, TypeOK, Roles, Taken, Added, ring, local, hist, Two
<1>22. ASSUME NEW p \in Proc, Signal(p) PROVE Quiet
  BY <1>0, <1>22 DEF Signal, Data, TypeOK, Roles, Taken, Added, ring, local, hist, Two
<1>23. CASE UNCHANGED vars
  BY <1>23, <1>q DEF vars, ring, local, hist, Taken, Added
<1> HIDE DEF Quiet
<1> QED
  BY <1>0, <1>q, <1>1, <1>2, <1>3, <1>4, <1>5, <1>6, <1>7, <1>8, <1>9, <1>10, <1>11, <1>12,
     <1>13, <1>14, <1>15, <1>16, <1>17, <1>18, <1>19, <1>20, <1>21, <1>22, <1>23 DEF Next,
     Read, Write, Wait, Release, Ends, Two

\* The inductive invariant of the wait.
Asleep(r, w) == Parked /\ WillWake(r, w)

\* Every step keeps a process linked exactly while it is marked.
LEMMA ParkedStep ==
  ASSUME NEW r, NEW w, Ends(r, w), Data(r, w), Asleep(r, w), ~WindowPreempt, [Next]_vars
  PROVE  Parked'
<1>0. Two(r, w)
  BY TwoProcs
<1>w. WriteStep(w) => WriteEffect(w)
  BY WriteChoice
<1>b. pc \in [Proc -> PCs] /\ wq \subseteq Proc /\ sleep \in [Proc -> {"run", "marked", "off"}]
  BY DEF Data, TypeOK
<1> USE <1>0, <1>b DEF Two, Asleep, Parked, vars, ring, ends, sched, local, hist
<1>1. CASE ReadEnter(r)
  BY <1>1 DEF ReadEnter, Step
<1>2. CASE ReadCount(r)
  BY <1>2 DEF ReadCount, Step
<1>3. CASE ReadEof(r)
  BY <1>3 DEF ReadEof, Step, Return
<1>4. CASE ReadByte(r)
  BY <1>4 DEF ReadByte, Step
<1>5. CASE ReadPublish(r)
  BY <1>5 DEF ReadPublish, Step
<1>6. CASE ReadWake(r)
  BY <1>6 DEF ReadWake, Step, Return, wake_up_all
<1>7. CASE WriteEnter(w)
  BY <1>7 DEF WriteEnter, Step
<1>8. CASE WriteStep(w)
  <2>0. pc[w] = "w_step" /\ UNCHANGED <<ring, ends, sched, req, done, intr, sent, got, sigs>>
    BY <1>8, <1>w DEF WriteEffect
  <2>1. CASE pc' = [pc EXCEPT ![w] = "user"] /\ UNCHANGED <<n, i>>
    <3>1. PICK x \in {"OK", "EPIPE", "EINTR"} : ret' = [ret EXCEPT ![w] = x] \/ ret' = ret
      BY <1>8, <1>w DEF WriteEffect
    <3> QED
      BY <2>0, <2>1, <3>1
  <2>2. CASE pc' = [pc EXCEPT ![w] = "cond"] /\ UNCHANGED <<n, i, ret>>
    BY <2>0, <2>2
  <2>3. ASSUME NEW m \in Nat, m + count <= Size, n' = [n EXCEPT ![w] = m], UNCHANGED ret,
               pc' = [pc EXCEPT ![w] = "w_copy"], i' = [i EXCEPT ![w] = 0]
        PROVE  Parked'
    BY <2>0, <2>3
  <2> QED
    BY <1>8, <1>w, <2>1, <2>2, <2>3 DEF WriteEffect
<1>9. CASE WriteByte(w)
  BY <1>9 DEF WriteByte, Step
<1>10. CASE WritePublish(w)
  BY <1>10 DEF WritePublish, Step
<1>11. CASE WriteWake(w)
  BY <1>11 DEF WriteWake, Step, wake_up_all
<1>12. ASSUME NEW p \in Proc, WaitCond(p) PROVE Parked'
  BY <1>12 DEF WaitCond, Step, Resume
<1>13. ASSUME NEW p \in Proc, WaitPrepare(p) PROVE Parked'
  BY <1>13 DEF WaitPrepare, Step
<1>14. ASSUME NEW p \in Proc, WaitRecheck(p) PROVE Parked'
  BY <1>14 DEF WaitRecheck, Step, Resume, WaitFinish
<1>15. ASSUME NEW p \in Proc, WaitSleep(p) PROVE Parked'
  BY <1>15 DEF WaitSleep, Step
<1>16. ASSUME NEW p \in Proc, WaitDone(p) PROVE Parked'
  BY <1>16 DEF WaitDone, Step, WaitFinish, Return
<1>17. ASSUME NEW p \in Proc, Close(p) PROVE Parked'
  BY <1>17 DEF Close, Step
<1>18. ASSUME NEW p \in Proc, ReleaseDec(p) PROVE Parked'
  BY <1>18 DEF ReleaseDec, Step
<1>19. ASSUME NEW p \in Proc, ReleaseWake(p) PROVE Parked'
  BY <1>19 DEF ReleaseWake, Step, wake_up_all
<1>20. ASSUME NEW p \in Proc, pipe_maybe_free(p) PROVE Parked'
  BY <1>20 DEF pipe_maybe_free, Step
<1>21. ASSUME NEW p \in Proc, Preempt(p) PROVE Parked'
  BY <1>21 DEF Preempt
<1>22. ASSUME NEW p \in Proc, Signal(p) PROVE Parked'
  BY <1>22 DEF Signal
<1>23. CASE UNCHANGED vars
  BY <1>23 DEF vars
<1> QED
  BY <1>1, <1>2, <1>3, <1>4, <1>5, <1>6, <1>7, <1>8, <1>9, <1>10, <1>11, <1>12, <1>13, <1>14,
     <1>15, <1>16, <1>17, <1>18, <1>19, <1>20, <1>21, <1>22, <1>23 DEF Next, Read, Write,
     Wait, Release, Ends

\* Every step leaves a waker on its way to a process whose condition holds.
LEMMA WillWakeStep ==
  ASSUME NEW r, NEW w, Ends(r, w), Data(r, w), Asleep(r, w), ~WindowPreempt, [Next]_vars
  PROVE  WillWake(r, w)'
<1>0. Two(r, w)
  BY TwoProcs
<1>w. WriteStep(w) => WriteEffect(w)
  BY WriteChoice
<1>b. /\ pc \in [Proc -> PCs] /\ wq \subseteq Proc /\ sleep \in [Proc -> {"run", "marked", "off"}]
      /\ Roles(r, w)
  BY DEF Data, TypeOK
<1> USE <1>0, <1>b DEF Two, Roles, Closing, Asleep, Parked, WillWake, Cond, vars, ring, ends,
    sched, local, hist
<1>1. CASE ReadEnter(r)
  BY <1>1 DEF ReadEnter, Step
<1>2. CASE ReadCount(r)
  BY <1>2 DEF ReadCount, Step
<1>3. CASE ReadEof(r)
  BY <1>3 DEF ReadEof, Step, Return
<1>4. CASE ReadByte(r)
  BY <1>4 DEF ReadByte, Step
<1>5. CASE ReadPublish(r)
  BY <1>5 DEF ReadPublish, Step
<1>6. CASE ReadWake(r)
  BY <1>6 DEF ReadWake, Step, Return, wake_up_all
<1>7. CASE WriteEnter(w)
  BY <1>7 DEF WriteEnter, Step
<1>8. CASE WriteStep(w)
  <2>0. pc[w] = "w_step" /\ UNCHANGED <<ring, ends, sched, req, done, intr, sent, got, sigs>>
    BY <1>8, <1>w DEF WriteEffect
  <2>1. CASE pc' = [pc EXCEPT ![w] = "user"] /\ UNCHANGED <<n, i>>
    <3>1. PICK x \in {"OK", "EPIPE", "EINTR"} : ret' = [ret EXCEPT ![w] = x] \/ ret' = ret
      BY <1>8, <1>w DEF WriteEffect
    <3> QED
      BY <2>0, <2>1, <3>1
  <2>2. CASE pc' = [pc EXCEPT ![w] = "cond"] /\ UNCHANGED <<n, i, ret>>
    BY <2>0, <2>2
  <2>3. ASSUME NEW m \in Nat, m + count <= Size, n' = [n EXCEPT ![w] = m], UNCHANGED ret,
               pc' = [pc EXCEPT ![w] = "w_copy"], i' = [i EXCEPT ![w] = 0]
        PROVE  WillWake(r, w)'
    BY <2>0, <2>3
  <2> QED
    BY <1>8, <1>w, <2>1, <2>2, <2>3 DEF WriteEffect
<1>9. CASE WriteByte(w)
  BY <1>9 DEF WriteByte, Step
<1>10. CASE WritePublish(w)
  BY <1>10 DEF WritePublish, Step
<1>11. CASE WriteWake(w)
  BY <1>11 DEF WriteWake, Step, wake_up_all
<1>12. ASSUME NEW p \in Proc, WaitCond(p) PROVE WillWake(r, w)'
  BY <1>12 DEF WaitCond, Step, Resume
<1>13. ASSUME NEW p \in Proc, WaitPrepare(p) PROVE WillWake(r, w)'
  BY <1>13 DEF WaitPrepare, Step
<1>14. ASSUME NEW p \in Proc, WaitRecheck(p) PROVE WillWake(r, w)'
  BY <1>14 DEF WaitRecheck, Step, Resume, WaitFinish
<1>15. ASSUME NEW p \in Proc, WaitSleep(p) PROVE WillWake(r, w)'
  BY <1>15 DEF WaitSleep, Step
<1>16. ASSUME NEW p \in Proc, WaitDone(p) PROVE WillWake(r, w)'
  BY <1>16 DEF WaitDone, Step, WaitFinish, Return
<1>17. ASSUME NEW p \in Proc, Close(p) PROVE WillWake(r, w)'
  BY <1>17 DEF Close, Step
<1>18. ASSUME NEW p \in Proc, ReleaseDec(p) PROVE WillWake(r, w)'
  BY <1>18 DEF ReleaseDec, Step
<1>19. ASSUME NEW p \in Proc, ReleaseWake(p) PROVE WillWake(r, w)'
  BY <1>19 DEF ReleaseWake, Step, wake_up_all
<1>20. ASSUME NEW p \in Proc, pipe_maybe_free(p) PROVE WillWake(r, w)'
  BY <1>20 DEF pipe_maybe_free, Step
<1>21. ASSUME NEW p \in Proc, Preempt(p) PROVE WillWake(r, w)'
  BY <1>21 DEF Preempt
<1>22. ASSUME NEW p \in Proc, Signal(p) PROVE WillWake(r, w)'
  BY <1>22 DEF Signal
<1>23. CASE UNCHANGED vars
  BY <1>23 DEF vars
<1> QED
  BY <1>1, <1>2, <1>3, <1>4, <1>5, <1>6, <1>7, <1>8, <1>9, <1>10, <1>11, <1>12, <1>13, <1>14,
     <1>15, <1>16, <1>17, <1>18, <1>19, <1>20, <1>21, <1>22, <1>23 DEF Next, Read, Write,
     Wait, Release, Ends

-----------------------------------------------------------------------------
(* The theorems *)

\* A pipe fresh from pipe_create satisfies Data.
LEMMA DataInit ==
  ASSUME NEW r, NEW w, Ends(r, w), Init
  PROVE  Data(r, w)
<1>1. Two(r, w) /\ Cardinality(Reader) = 1 /\ Cardinality(Writer) = 1
  BY TwoProcs, FS_Singleton DEF Ends
<1>2. TypeOK
  BY <1>1, PipeAssumption DEF Init, TypeOK, PCs
<1>3. Roles(r, w) /\ Promises(r, w)
  BY <1>1, PipeAssumption DEF Init, Roles, Promises, Closing, Two
<1>4. Content(r, w)
  BY <1>1, PipeAssumption DEF Init, Content, Taken, Added, Fill, Slot, Two
<1> QED
  BY <1>2, <1>3, <1>4 DEF Data

\* Data is an inductive invariant of a pipe with one process at each end.
LEMMA DataInvariant ==
  ASSUME NEW r, NEW w, Ends(r, w)
  PROVE  Spec => []Data(r, w)
<1>1. Init => Data(r, w)
  BY DataInit
<1>2. Data(r, w) /\ [Next]_vars => Data(r, w)'
  BY TypeStep, RolesStep, PromisesStep, ContentStep DEF Data
<1> QED
  BY <1>1, <1>2, PTL DEF Spec

\* Type correctness of pipe_read_fn and pipe_write_fn: the positions stay inside
\* the ring and the uint32_t count below its modulus, for every ring size.
THEOREM PipeTypeCorrect ==
  ASSUME NEW r, NEW w, Ends(r, w)
  PROVE  Spec => []TypeOK
<1>1. Data(r, w) => TypeOK
  BY DEF Data
<1> QED
  BY <1>1, DataInvariant, PTL

\* ps->count neither underflows nor counts more than the ring holds, although
\* each side decides on a count the other side is changing.
THEOREM PipeCountInRing ==
  ASSUME NEW r, NEW w, Ends(r, w)
  PROVE  Spec => []CountInRing
<1>1. Data(r, w) => CountInRing
  BY DEF Data, Promises, CountInRing
<1> QED
  BY <1>1, DataInvariant, PTL

\* A pipe is a FIFO channel: the k-th byte any read returns is the k-th byte
\* written, for every ring size and every interleaving of the two copy loops.
THEOREM PipeFifo ==
  ASSUME NEW r, NEW w, Ends(r, w)
  PROVE  Spec => []Fifo
<1>1. Data(r, w) => Fifo
  BY TwoProcs DEF Data, Content, Fifo, Two
<1> QED
  BY <1>1, DataInvariant, PTL

\* If no time slice ends inside the wait window, no wakeup is lost: a reader or
\* writer that is switched out while its condition holds has a waker that has
\* published its change and has yet to call wake_up_all.
THEOREM PipeNoLostWake ==
  ASSUME NEW r, NEW w, Ends(r, w), ~WindowPreempt
  PROVE  Spec => []NoLostWake
<1>1. Init => Data(r, w) /\ Asleep(r, w)
  <2>1. Init => Asleep(r, w)
    BY TwoProcs DEF Init, Asleep, Parked, WillWake, Two
  <2> QED
    BY <2>1, DataInit
<1>2. Data(r, w) /\ Asleep(r, w) /\ [Next]_vars => Asleep(r, w)'
  BY ParkedStep, WillWakeStep DEF Asleep
<1>3. Data(r, w) /\ Asleep(r, w) => NoLostWake
  BY TwoProcs DEF Asleep, Parked, WillWake, NoLostWake, WakePending, Two, Ends
<1> QED
  BY <1>1, <1>2, <1>3, DataInvariant, PTL DEF Spec
-----------------------------------------------------------------------------
(* The pipe as a channel. *)

Results == {"NONE", "OK", "EOF", "EPIPE", "EINTR"}

\* The k-th published byte is the writer's k-th.
LEMMA PublishedIs ==
  ASSUME NEW r, NEW w, Ends(r, w), Data(r, w)
  PROVE  /\ Published = [k \in 1 .. sent[w] |-> <<w, k>>]
         /\ Published \in Seq(Writer \X Nat) /\ Len(Published) = sent[w] /\ sent[w] \in Nat
<1>1. TheWriter = w
  BY DEF TheWriter, Ends
<1>2. sent[w] \in Nat /\ w \in Writer
  BY TwoProcs DEF Two, Data, TypeOK
<1>3. Published = [k \in 1 .. sent[w] |-> <<w, k>>]
  BY <1>1 DEF Published
<1>4. \A k \in 1 .. sent[w] : <<w, k>> \in Writer \X Nat
  BY <1>2
<1> QED
  BY <1>2, <1>3, <1>4

\* The same at the next state.
LEMMA PublishedNext ==
  ASSUME NEW r, NEW w, Ends(r, w), Data(r, w)'
  PROVE  /\ Published' = [k \in 1 .. sent'[w] |-> <<w, k>>]
         /\ Published' \in Seq(Writer \X Nat) /\ Len(Published') = sent'[w] /\ sent'[w] \in Nat
<1>1. TheWriter = w
  BY DEF TheWriter, Ends
<1>2. sent'[w] \in Nat /\ w \in Writer
  BY TwoProcs DEF Two, Data, TypeOK
<1>3. Published' = [k \in 1 .. sent'[w] |-> <<w, k>>]
  BY <1>1 DEF Published
<1>4. \A k \in 1 .. sent'[w] : <<w, k>> \in Writer \X Nat
  BY <1>2
<1> QED
  BY <1>2, <1>3, <1>4

\* A step that neither moves bytes nor closes an end, and after which no process
\* has been told of a hang-up that was not told of it before.
LEMMA SilentStep ==
  ASSUME NEW p \in Proc, ret \in [Proc -> Results], UNCHANGED <<sent, got, readers, writers>>,
         \/ UNCHANGED ret
         \/ \E x \in {"NONE", "OK", "EINTR"} : ret' = [ret EXCEPT ![p] = x]
  PROVE  PipeChannel!Forget
<1>1. HangUps' \subseteq HangUps
  BY DEF HangUps
<1>2. Published' = Published
  BY DEF Published
<1> QED
  BY <1>1, <1>2 DEF PipeChannel!Forget

\* A call that ends with x.
LEMMA ToldStep ==
  ASSUME NEW p \in Proc, NEW x \in {"EOF", "EPIPE"}, ret \in [Proc -> Results],
         ret' = [ret EXCEPT ![p] = x]
  PROVE  HangUps' \subseteq HangUps \cup {x}
BY DEF HangUps

\* ReadByte takes the oldest byte out.
LEMMA GetStep ==
  ASSUME NEW r, NEW w, Ends(r, w), Data(r, w), Data(r, w)', ReadByte(r)
  PROVE  PipeChannel!Get
<1>1. Two(r, w)
  BY TwoProcs
<1>2. /\ pc[r] = "r_copy" /\ UNCHANGED <<sent, readers, writers, ret>>
      /\ got' = Append(got, buf[read_pos])
  BY DEF ReadByte, Step, ends
<1>3. got \in Seq({None} \cup (Writer \X Nat)) /\ got' \in Seq({None} \cup (Writer \X Nat))
  BY DEF Data, TypeOK
<1>4. Len(got') = Len(got) + 1 /\ Len(got) \in Nat
  BY <1>2, <1>3
<1>5. got'[Len(got) + 1] = <<w, Len(got) + 1>>
  <2>1. \A k \in 1 .. Len(got') : got'[k] = <<w, k>>
    BY DEF Data, Content
  <2> QED
    BY <1>4, <2>1
<1>6. got' = Append(got, <<w, Len(got) + 1>>)
  BY <1>2, <1>3, <1>5
<1>7. Len(got) < sent[w]
  <2>1. i'[r] <= n'[r] /\ n'[r] <= count' /\ sent'[w] = Len(got') + count' - i'[r]
    <3>1. pc' = [pc EXCEPT ![r] = "r_copy"] /\ pc \in [Proc -> PCs] /\ r \in Proc
      BY <1>1 DEF ReadByte, Step, Data, TypeOK, Two
    <3>2. pc'[r] = "r_copy"
      BY <3>1
    <3>3. Promises(r, w)' /\ Content(r, w)'
      BY DEF Data
    <3> QED
      BY <3>2, <3>3 DEF Promises, Content, Taken
  <2>2. i'[r] \in Nat /\ n'[r] \in Nat /\ count' \in Nat /\ sent'[w] \in Nat
    BY <1>1, PipeAssumption DEF Data, TypeOK, Two
  <2> QED
    BY <1>2, <1>4, <2>1, <2>2
<1>8. Published[Len(got) + 1] = <<w, Len(got) + 1>> /\ Len(got) < Len(Published)
  BY <1>4, <1>7, PublishedIs
<1>9. readers > 0
  BY <1>2 DEF Data, Roles, Closing
<1>10. Published' = Published /\ HangUps' = HangUps
  BY <1>2 DEF Published, HangUps
<1> QED
  BY <1>2, <1>6, <1>8, <1>9, <1>10 DEF PipeChannel!Get

\* WritePublish puts n[w] bytes in at once, or nothing.
LEMMA PutStep ==
  ASSUME NEW r, NEW w, Ends(r, w), Data(r, w), Data(r, w)', WritePublish(w)
  PROVE  PipeChannel!Put \/ PipeChannel!Forget
<1>1. Two(r, w)
  BY TwoProcs
<1>2. /\ pc[w] = "w_copy" /\ UNCHANGED <<got, readers, writers, ret>>
      /\ sent' = [sent EXCEPT ![w] = @ + n[w]]
  BY DEF WritePublish, Step, ends
<1>3. n[w] \in Nat /\ sent \in [Writer -> Nat] /\ w \in Writer /\ ret \in [Proc -> Results]
  BY <1>1 DEF Data, TypeOK, Two, Results
<1>4. sent'[w] = sent[w] + n[w] /\ sent[w] \in Nat
  BY <1>2, <1>3
<1>5. CASE n[w] = 0
  <2>1. sent' = sent
    BY <1>2, <1>3, <1>5
  <2> QED
    BY <1>1, <1>2, <1>3, <2>1, SilentStep DEF Two
<1>6. CASE n[w] > 0
  <2>1. writers > 0
    BY <1>2 DEF Data, Roles, Closing
  <2>2. sent'[w] <= Len(got') + Size
    <3>1. sent'[w] = Len(got') + count' - Taken(r)' /\ count' <= Size
      BY DEF Data, Content, Promises
    <3>2. Taken(r)' \in Nat /\ count' \in Nat /\ Len(got') \in Nat
      BY <1>1, PipeAssumption DEF Data, TypeOK, Taken, Two
    <3> QED
      BY <3>1, <3>2, PipeAssumption
  <2>3. Published' \in Seq(Writer \X Nat) /\ Len(Published) < Len(Published')
        /\ Len(Published') <= Len(got) + Size
    BY <1>2, <1>3, <1>4, <1>6, <2>2, PublishedIs, PublishedNext
  <2>4. \A k \in 1 .. Len(Published) : Published'[k] = Published[k]
    <3>1. \A k \in 1 .. sent[w] : k \in 1 .. sent'[w]
      BY <1>3, <1>4
    <3>2. \A k \in 1 .. sent[w] : Published[k] = <<w, k>>
      BY PublishedIs
    <3>3. \A k \in 1 .. sent'[w] : Published'[k] = <<w, k>>
      BY PublishedNext
    <3> QED
      BY <3>1, <3>2, <3>3, PublishedIs
  <2>5. HangUps' = HangUps
    BY <1>2 DEF HangUps
  <2> QED
    BY <1>2, <2>1, <2>3, <2>4, <2>5 DEF PipeChannel!Put
<1> QED
  BY <1>3, <1>5, <1>6

\* Every step of the reader is a step of the channel.
LEMMA ReadStep ==
  ASSUME NEW r, NEW w, Ends(r, w), Data(r, w), Data(r, w)', Read(r)
  PROVE  PipeChannel!Next
<1>1. r \in Proc /\ ret \in [Proc -> Results]
  BY SMTT(30), TwoProcs DEF Two, Data, TypeOK, Results
<1>2. CASE ReadEnter(r) \/ ReadCount(r) \/ ReadPublish(r) \/ ReadWake(r)
  <2>1. /\ UNCHANGED <<sent, got, readers, writers>>
        /\ UNCHANGED ret \/ \E x \in {"NONE", "OK", "EINTR"} : ret' = [ret EXCEPT ![r] = x]
    BY <1>2 DEF ReadEnter, ReadCount, ReadPublish, ReadWake, Return, Step, ends, hist
  <2> QED
    BY <1>1, <2>1, SilentStep DEF PipeChannel!Next
<1>3. CASE ReadEof(r)
  <2>1. UNCHANGED <<sent, got, readers, writers>>
    BY <1>3 DEF ReadEof, ends
  <2>2. CASE writers = 0
    <3>1. ret' = [ret EXCEPT ![r] = "EOF"]
      BY <1>3, <2>2 DEF ReadEof, Return
    <3>2. HangUps' \subseteq HangUps \cup {"EOF"}
      BY <1>1, <3>1, ToldStep
    <3>3. Published' = Published
      BY <2>1 DEF Published
    <3> QED
      BY <2>1, <2>2, <3>2, <3>3 DEF PipeChannel!Next, PipeChannel!TellEof
  <2>3. CASE writers # 0
    <3>1. UNCHANGED ret
      BY <1>3, <2>3 DEF ReadEof
    <3> QED
      BY <1>1, <2>1, <3>1, SilentStep DEF PipeChannel!Next
  <2> QED
    BY <2>2, <2>3
<1>4. CASE ReadByte(r)
  BY <1>4, GetStep DEF PipeChannel!Next
<1> QED
  BY <1>2, <1>3, <1>4 DEF Read

\* EPIPE is returned only when the last reader has gone.
LEMMA EpipeChoice ==
  ASSUME NEW r, NEW w, Ends(r, w), Data(r, w), WriteStep(w)
  PROVE  \/ UNCHANGED ret
         \/ \E x \in {"NONE", "OK", "EINTR"} : ret' = [ret EXCEPT ![w] = x]
         \/ readers = 0 /\ ret' = [ret EXCEPT ![w] = "EPIPE"]
<1> DEFINE st == pipe_write_step(req[w], done[w], count, readers, intr[w])
<1>1. st.action = "EPIPE" => readers = 0
  <2>1. CASE done[w] >= req[w]
    BY <2>1 DEF pipe_write_step
  <2>2. CASE done[w] < req[w] /\ readers > 0 /\ intr[w]
    BY <2>2 DEF pipe_write_step
  <2>3. CASE done[w] < req[w] /\ readers > 0 /\ ~intr[w] /\ (IF count >= Size THEN 0 ELSE Size - count) = 0
    BY <2>3 DEF pipe_write_step
  <2>4. CASE /\ done[w] < req[w] /\ readers > 0 /\ ~intr[w]
             /\ (IF count >= Size THEN 0 ELSE Size - count) # 0
    BY <2>4 DEF pipe_write_step
  <2>5. req[w] \in Nat /\ done[w] \in Nat /\ readers \in {0, 1} /\ intr[w] \in BOOLEAN
    BY TwoProcs DEF Two, Data, TypeOK
  <2> QED
    BY <2>1, <2>2, <2>3, <2>4, <2>5
<1>2. st.action \in {"DONE", "SHORT", "EPIPE", "EINTR", "BLOCK", "COPY"}
  <2>1. /\ req[w] \in Nat /\ done[w] \in Nat /\ count \in Nat /\ readers \in Nat
        /\ intr[w] \in BOOLEAN /\ count <= Size
    BY TwoProcs, PipeAssumption DEF Two, Data, TypeOK, Promises
  <2> QED
    BY <2>1, WriteRoom
<1>3. CASE st.action \in {"DONE", "SHORT"}
  BY <1>3 DEF WriteStep, Return
<1>4. CASE st.action \in {"EPIPE", "EINTR"}
  BY <1>1, <1>4 DEF WriteStep, Return
<1>5. CASE st.action \in {"BLOCK", "COPY"}
  BY <1>5 DEF WriteStep
<1> QED
  BY <1>2, <1>3, <1>4, <1>5

\* Every step of the writer is a step of the channel.
LEMMA WriterStep ==
  ASSUME NEW r, NEW w, Ends(r, w), Data(r, w), Data(r, w)', Write(w)
  PROVE  PipeChannel!Next
<1>1. w \in Proc /\ ret \in [Proc -> Results]
  BY SMTT(30), TwoProcs DEF Two, Data, TypeOK, Results
<1>2. CASE WriteEnter(w) \/ WriteByte(w) \/ WriteWake(w)
  <2>1. /\ UNCHANGED <<sent, got, readers, writers>>
        /\ UNCHANGED ret \/ \E x \in {"NONE", "OK", "EINTR"} : ret' = [ret EXCEPT ![w] = x]
    BY <1>2 DEF WriteEnter, WriteByte, WriteWake, ends, hist
  <2> QED
    BY <1>1, <2>1, SilentStep DEF PipeChannel!Next
<1>3. CASE WriteStep(w)
  <2>1. UNCHANGED <<sent, got, readers, writers>>
    BY <1>3 DEF WriteStep, ends
  <2>2. \/ UNCHANGED ret
        \/ \E x \in {"NONE", "OK", "EINTR"} : ret' = [ret EXCEPT ![w] = x]
        \/ readers = 0 /\ ret' = [ret EXCEPT ![w] = "EPIPE"]
    BY <1>3, EpipeChoice
  <2>3. CASE readers = 0 /\ ret' = [ret EXCEPT ![w] = "EPIPE"]
    <3>1. HangUps' \subseteq HangUps \cup {"EPIPE"}
      BY <1>1, <2>3, ToldStep
    <3>2. Published' = Published
      BY <2>1 DEF Published
    <3> QED
      BY <2>1, <2>3, <3>1, <3>2 DEF PipeChannel!Next, PipeChannel!TellEpipe
  <2>4. CASE UNCHANGED ret \/ \E x \in {"NONE", "OK", "EINTR"} : ret' = [ret EXCEPT ![w] = x]
    BY <1>1, <2>1, <2>4, SilentStep DEF PipeChannel!Next
  <2> QED
    BY <2>2, <2>3, <2>4
<1>4. CASE WritePublish(w)
  BY <1>4, PutStep DEF PipeChannel!Next
<1> QED
  BY <1>2, <1>3, <1>4 DEF Write

\* Every step of the pipe is a step of the channel, or changes nothing in it.
LEMMA ChannelStep ==
  ASSUME NEW r, NEW w, Ends(r, w), Data(r, w), Data(r, w)', Next
  PROVE  PipeChannel!Next
<1>1. Two(r, w) /\ ret \in [Proc -> Results] /\ readers \in {0, 1} /\ writers \in {0, 1}
  BY TwoProcs DEF Data, TypeOK, Results
<1>2. ASSUME NEW p \in Proc, Wait(p) \/ Close(p) \/ Preempt(p) \/ Signal(p)
      PROVE  PipeChannel!Next
  <2>1. /\ UNCHANGED <<sent, got, readers, writers>>
        /\ UNCHANGED ret \/ \E x \in {"NONE", "OK", "EINTR"} : ret' = [ret EXCEPT ![p] = x]
    <3>1. CASE WaitDone(p)
      BY <3>1 DEF WaitDone, Return, ends
    <3>2. CASE WaitCond(p) \/ WaitPrepare(p) \/ WaitRecheck(p) \/ WaitSleep(p)
      BY <3>2 DEF WaitCond, WaitPrepare, WaitRecheck, WaitSleep, ends, hist
    <3>3. CASE Close(p) \/ Preempt(p) \/ Signal(p)
      BY <3>3 DEF Close, Preempt, Signal, ends, hist
    <3> QED
      BY <1>2, <3>1, <3>2, <3>3 DEF Wait
  <2> QED
    BY <1>1, <2>1, SilentStep DEF PipeChannel!Next
<1>3. ASSUME NEW p \in Proc, Release(p)
      PROVE  PipeChannel!Next
  <2>1. CASE ReleaseDec(p)
    <3>1. UNCHANGED <<sent, got, ret>>
      BY <2>1 DEF ReleaseDec, hist
    <3>2. Published' = Published /\ HangUps' = HangUps
      BY <3>1 DEF Published, HangUps
    <3>3. (readers' > 0 => readers > 0) /\ (writers' > 0 => writers > 0)
      BY <1>1, <2>1 DEF ReleaseDec
    <3> QED
      BY <3>1, <3>2, <3>3 DEF PipeChannel!Next, PipeChannel!HangUp
  <2>2. CASE ReleaseWake(p) \/ pipe_maybe_free(p)
    <3>1. UNCHANGED <<sent, got, readers, writers, ret>>
      BY <2>2 DEF ReleaseWake, pipe_maybe_free, ends, hist
    <3> QED
      BY <1>1, <3>1, SilentStep DEF PipeChannel!Next
  <2> QED
    BY <1>3, <2>1, <2>2 DEF Release
<1>4. ASSUME NEW p \in Reader, Read(p)
      PROVE  PipeChannel!Next
  BY <1>4, ReadStep DEF Ends
<1>5. ASSUME NEW p \in Writer, Write(p)
      PROVE  PipeChannel!Next
  BY <1>5, WriterStep DEF Ends
<1> QED
  BY <1>2, <1>3, <1>4, <1>5 DEF Next

\* With one process at each end a pipe is a bounded channel (ImplementsChannel),
\* for every ring size, any requests and every interleaving of the copy loops,
\* waits, signals and closes of pipe.c.
THEOREM PipeIsChannel ==
  ASSUME NEW r, NEW w, Ends(r, w)
  PROVE  Spec => ImplementsChannel
<1>1. Init => PipeChannel!Init
  <2> SUFFICES ASSUME Init
               PROVE  PipeChannel!Init
    OBVIOUS
  <2>1. Two(r, w) /\ TheWriter = w /\ sent[w] = 0
    BY TwoProcs DEF Init, TheWriter, Ends, Two
  <2>2. Published = <<>>
    BY <2>1 DEF Published
  <2>3. HangUps = {}
    BY DEF Init, HangUps
  <2> QED
    BY <2>2, <2>3 DEF Init, PipeChannel!Init
<1>2. Data(r, w) /\ Data(r, w)' /\ [Next]_vars => [PipeChannel!Next]_(PipeChannel!vars)
  <2> SUFFICES ASSUME Data(r, w), Data(r, w)', [Next]_vars
               PROVE  PipeChannel!Next \/ UNCHANGED PipeChannel!vars
    BY DEF PipeChannel!vars
  <2>1. CASE Next
    BY <2>1, ChannelStep
  <2>2. CASE UNCHANGED vars
    BY <2>2 DEF vars, ends, hist, PipeChannel!vars, Published, HangUps
  <2> QED
    BY <2>1, <2>2
<1> QED
  BY <1>1, <1>2, DataInvariant, PTL DEF Spec, ImplementsChannel, PipeChannel!Spec
=============================================================================
