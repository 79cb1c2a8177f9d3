------------------------------- MODULE Journal ------------------------------
(***************************************************************************)
(* The GraphFS journal: gfs_journal_init and gfs_journal_append_seq of     *)
(* kernel/fs/graphfs/journal.c over the records and seals of               *)
(* kernel/rustkern/gfsjournal.rs, with the mutations of                    *)
(* kernel/fs/graphfs/fold.c that append to it and the graph of GraphFold.  *)
(* gfs_journal_verify only reads.                                          *)
(*                                                                         *)
(* The machine may crash between any two steps; what is on disk stays.     *)
(* Appends come from system calls and from the seclog worker.  They are    *)
(* preempted anywhere, so the test of g_in_append and its setting are two  *)
(* steps, as are writing a record, folding it and writing the seal.        *)
(*                                                                         *)
(* Abstractions.  SHA-256 is injective: the hash of a record is the        *)
(* sequence of everything the chain holds up to it.  A fragment of a       *)
(* record, left by an append that failed between two blocks, is Torn, and  *)
(* a log with a fragment is RAGGED (or BAD_MAGIC, if fragments add up to a *)
(* record).  A missing file and an empty one are alike.  A file is renamed *)
(* and removed in one step.  SEAL.BAD, which nothing reads, is left out.   *)
(***************************************************************************)
EXTENDS GraphFold

CONSTANTS
  Writer,      \* threads that append
  Kernel,      \* the one of them that boots
  MaxRecords,  \* GFSJ_MAX_RECORDS
  FirstOps,    \* the journal found by the first boot
  Asked,       \* the node operations and notes that callers ask for
  Torn,        \* a fragment of a record
  NoSeal,      \* no seal file, or an empty one
  BadSeal,     \* a seal file with the wrong contents
  MaxBoots,    \* bound: boots
  MaxFaults,   \* bound: failing disk operations
  MaxAsks      \* bound: operations that callers ask for

ASSUME JournalAssumption ==
  /\ Kernel \in Writer
  /\ FirstOps \in Seq(Ops) /\ Asked \subseteq NodeOps \cup {Note("AUDIT")}
  /\ IsFiniteSet(Writer)
  /\ MaxRecords \in Nat \ {0} /\ MaxBoots \in Nat \ {0} /\ MaxFaults \in Nat /\ MaxAsks \in Nat

VARIABLES
  log, seal, badlog,  \* JOURNAL.LOG, JOURNAL.SEAL, JOURNAL.BAD
  g_ready, g_boot_gen, g_count, g_head, g_in_append,
  graph, degraded,    \* the fold
  verdict,            \* what gfsj_verify said of the journal at this boot
  haslog,             \* log # NULL: this boot has read a log
  pc, todo, rec,      \* program point, operations to append, encoded record
  boots, faults, asks,  \* bounds
  acked,              \* history: records appended since a boot last found the
                      \* journal bad, whose append returned 0
  revoked,            \* history: edges whose revocation returned 0 in this boot
  born,               \* history: length of the log when this boot read it
  odd                 \* history: what went wrong, other than a plain crash

disk   == <<log, seal, badlog>>
kernel == <<g_ready, g_boot_gen, g_count, g_head, g_in_append, graph, degraded, verdict, haslog>>
local  == <<pc, todo, rec>>
hist   == <<boots, faults, asks, acked, revoked, born, odd>>
vars   == <<disk, kernel, local, hist>>

Content == [seq : Nat, gen : Nat, op : Ops]
Hash    == Seq(Content)
Record  == [seq : Nat, gen : Nat, op : Ops, prev : Hash]
Seal    == [count : Nat, gen : Nat, head : Hash]

ASSUME FilesAssumption ==
  Torn \notin Record /\ {NoSeal, BadSeal} \cap Seal = {} /\ NoSeal # BadSeal

\* gfsj_encode: the hash of a record, which covers the hash before it
SelfHash(r) == Append(r.prev, [seq |-> r.seq, gen |-> r.gen, op |-> r.op])

Encode(q, gen, o, prev) == [seq |-> q, gen |-> gen, op |-> o, prev |-> prev]

Whole(L) == \A k \in DOMAIN L : L[k] # Torn

\* The chain as far as it goes: prev of every record, and the head after the last
PrevOk(L, k) == L[k].prev = IF k = 1 THEN <<>> ELSE SelfHash(L[k-1])
SeqOk(L, k)  == L[k].seq = k - 1
HeadOf(L)    == IF L = <<>> THEN <<>> ELSE SelfHash(L[Len(L)])
ChainOk(L)   == Whole(L) /\ \A k \in DOMAIN L : PrevOk(L, k) /\ SeqOk(L, k)

\* gfsj_verify without the anchor; CHAIN_BREAK stands for SEQ_GAP too
gfsj_verify(L, s) ==
  CASE ~Whole(L) -> "RAGGED"
    [] Whole(L) /\ ~ChainOk(L) -> "CHAIN_BREAK"
    [] ChainOk(L) /\ s = NoSeal -> IF L = <<>> THEN "OK" ELSE "SEAL_MISSING"
    [] ChainOk(L) /\ s = BadSeal -> "SEAL_CORRUPT"
    [] OTHER -> CASE Len(L) < s.count -> "TRUNCATED"
                  [] Len(L) > s.count -> "EXTENDED"
                  [] Len(L) = s.count /\ s.head # HeadOf(L) -> "HEAD_MISMATCH"
                  [] OTHER -> "OK"

gfsj_seal_bootgen(s) == IF s \in {NoSeal, BadSeal} THEN 0 ELSE s.gen
-----------------------------------------------------------------------------
\* The log and the seal that appending the operations in generation 1 leaves.
FirstLog ==
  LET content(k) == [seq |-> k - 1, gen |-> 1, op |-> FirstOps[k]]
  IN  [k \in DOMAIN FirstOps |->
         Encode(k - 1, 1, FirstOps[k], [j \in 1..k-1 |-> content(j)])]
FirstSeal ==
  IF FirstOps = <<>> THEN NoSeal
  ELSE [count |-> Len(FirstOps), gen |-> 1, head |-> HeadOf(FirstLog)]

\* A machine that has just been switched on
Volatile ==
  /\ g_ready' = FALSE /\ g_boot_gen' = 0 /\ g_count' = 0 /\ g_head' = <<>>
  /\ g_in_append' = FALSE
  /\ graph' = gfsf_reset /\ degraded' = FALSE /\ verdict' = "OK" /\ haslog' = FALSE
  /\ pc' = [w \in Writer |-> IF w = Kernel THEN "boot" ELSE "idle"]
  /\ todo' = [w \in Writer |-> <<>>] /\ rec' = [w \in Writer |-> Torn]

Init ==
  /\ log = FirstLog /\ seal = FirstSeal /\ badlog = <<>>
  /\ g_ready = FALSE /\ g_boot_gen = 0 /\ g_count = 0 /\ g_head = <<>>
  /\ g_in_append = FALSE
  /\ graph = gfsf_reset /\ degraded = FALSE /\ verdict = "OK" /\ haslog = FALSE
  /\ pc = [w \in Writer |-> IF w = Kernel THEN "boot" ELSE "idle"]
  /\ todo = [w \in Writer |-> <<>>] /\ rec = [w \in Writer |-> Torn]
  /\ boots = 1 /\ faults = 0 /\ asks = 0
  /\ acked = {log[k] : k \in DOMAIN log} /\ revoked = {} /\ born = 0 /\ odd = {}

Goto(w, a, b) == pc[w] = a /\ pc' = [pc EXCEPT ![w] = b]

\* A disk operation fails, or a file cannot be read for want of memory.
Fault == faults < MaxFaults /\ faults' = faults + 1
-----------------------------------------------------------------------------
(* gfs_journal_init *)

Moving == {"del_bad", "mv_log", "mv_seal", "del_log", "del_seal"}

\* Mutant: the generation is not advanced.
NextGenSame(s) == IF s = NoSeal THEN 1 ELSE gfsj_seal_bootgen(s)

NextGen(s) == gfsj_seal_bootgen(s) + 1

\* Both files are read and verified.  L and s are what the reads returned.
BootVerify(L, s) ==
  /\ verdict' = gfsj_verify(L, s)
  /\ g_boot_gen' = NextGen(s) /\ haslog' = (L # <<>>) /\ born' = Len(log)
  /\ IF verdict' = "OK"
     THEN /\ Goto(Kernel, "boot", "enter") /\ todo' = [todo EXCEPT ![Kernel] = <<Note("BOOT")>>]
          /\ g_count' = Len(L) /\ g_head' = HeadOf(L)
          /\ graph' = gfs_fold_replay(L, NextGen(s))
          /\ g_ready' = TRUE
          /\ UNCHANGED <<degraded, acked>>
     ELSE /\ Goto(Kernel, "boot", "del_bad")
          /\ degraded' = TRUE /\ acked' = {}
          /\ UNCHANGED <<todo, g_count, g_head, graph, g_ready>>
  /\ UNCHANGED <<disk, g_in_append, rec, boots, asks, revoked>>

BootRead == BootVerify(log, seal) /\ UNCHANGED <<faults, odd>>

BootMisread ==
  /\ Fault /\ odd' = odd \cup {"misread"}
  /\ \/ log # <<>> /\ BootVerify(<<>>, seal)
     \/ seal # NoSeal /\ BootVerify(log, NoSeal)
     \/ log # <<>> /\ seal # NoSeal /\ BootVerify(<<>>, NoSeal)

\* A step of moving the files aside, which no failure stops
Aside(a, b) == Goto(Kernel, a, b) /\ UNCHANGED <<kernel, todo, rec, boots, asks, acked, revoked, born>>

BootDeleteBad ==
  /\ Aside("del_bad", "mv_log") /\ badlog' = <<>>
  /\ UNCHANGED <<log, seal, faults, odd>>

BootMoveLog ==
  /\ Aside("mv_log", "mv_seal")
  /\ IF ~haslog THEN UNCHANGED <<disk, faults>>
     ELSE \/ badlog' = log /\ log' = <<>> /\ UNCHANGED <<seal, faults>>
          \/ Fault /\ UNCHANGED disk
  /\ UNCHANGED odd

\* ... of the seal, unless it was not read or the rename fails
BootMoveSeal ==
  /\ Aside("mv_seal", "del_log")
  /\ seal' = NoSeal \/ UNCHANGED seal
  /\ UNCHANGED <<log, badlog, faults, odd>>

BootDeleteLog ==
  /\ Aside("del_log", "del_seal") /\ log' = <<>>
  /\ UNCHANGED <<seal, badlog, faults, odd>>

\* The last deletion, and the start of a new chain over an empty graph
BootRestart ==
  /\ Goto(Kernel, "del_seal", "enter") /\ seal' = NoSeal
  /\ todo' = [todo EXCEPT ![Kernel] = <<Note("CHECKPOINT"), Note("BOOT")>>]
  /\ g_count' = 0 /\ g_head' = <<>> /\ graph' = gfsf_reset /\ g_ready' = TRUE /\ born' = 0
  /\ UNCHANGED <<log, badlog, g_boot_gen, g_in_append, degraded, verdict, haslog, rec, boots,
                 faults, asks, acked, revoked, odd>>
-----------------------------------------------------------------------------
(* fold_mutate, and the callers that append without it *)

\* Edges whose names their callers have been told
Issued == {log[k].seq : k \in {j \in DOMAIN log : log[j] # Torn /\ log[j].op.op = "EDGE_ADD"
                                                  /\ log[j].seq < g_count}}
Requests == Asked \cup GrantOps \cup [op : {"EDGE_REVOKE"}, seq : Issued]

\* The dry run of gfsf_apply, under the fold's lock
Mutate(w) ==
  /\ g_ready /\ Goto(w, "idle", "enter")
  /\ \E o \in Requests : /\ Refusal(graph, o, g_boot_gen, g_boot_gen) = "OK"
                         /\ todo' = [todo EXCEPT ![w] = <<o>>]
  /\ asks < MaxAsks /\ asks' = asks + 1
  /\ UNCHANGED <<disk, kernel, rec, boots, faults, acked, revoked, born, odd>>
-----------------------------------------------------------------------------
(* gfs_journal_append_seq *)

\* The call returns, with or without success; gfs_journal_init has a second one.
Return(w, a) ==
  /\ Goto(w, a, IF Len(todo[w]) > 1 THEN "enter" ELSE "idle")
  /\ todo' = [todo EXCEPT ![w] = Tail(@)] /\ rec' = [rec EXCEPT ![w] = Torn]

\* Mutant: the caller is told of success.
RefuseAsSuccess(w) ==
  /\ g_count >= MaxRecords \/ g_in_append
  /\ Return(w, "enter")
  /\ revoked' = IF Head(todo[w]).op = "EDGE_REVOKE" THEN revoked \cup {Head(todo[w]).seq} ELSE revoked
  /\ UNCHANGED <<disk, kernel, boots, faults, asks, acked, born, odd>>

\* The journal is full, or somebody else is appending: the record is dropped.
AppendRefuse(w) ==
  /\ g_count >= MaxRecords \/ g_in_append
  /\ Return(w, "enter")
  /\ UNCHANGED <<disk, kernel, hist>>

AppendTest(w) ==
  /\ g_count < MaxRecords /\ ~g_in_append
  /\ Goto(w, "enter", "encode")
  /\ UNCHANGED <<disk, kernel, todo, rec, hist>>

\* Mutant: seal first, record second.
EncodeAndSeal(w) ==
  /\ Goto(w, "encode", "write")
  /\ g_in_append' = TRUE
  /\ rec' = [rec EXCEPT ![w] = Encode(g_count, g_boot_gen, Head(todo[w]), g_head)]
  /\ seal' = [count |-> g_count + 1, gen |-> g_boot_gen, head |-> SelfHash(rec'[w])]
  /\ odd' = IF \E v \in Writer : pc[v] \in {"write", "fold", "seal"} THEN odd \cup {"race"} ELSE odd
  /\ UNCHANGED <<log, badlog, g_ready, g_boot_gen, g_count, g_head, graph, degraded, verdict, haslog,
                 todo, boots, faults, asks, acked, revoked, born>>

AppendEncode(w) ==
  /\ Goto(w, "encode", "write")
  /\ g_in_append' = TRUE
  /\ rec' = [rec EXCEPT ![w] = Encode(g_count, g_boot_gen, Head(todo[w]), g_head)]
  /\ odd' = IF \E v \in Writer : pc[v] \in {"write", "fold", "seal"} THEN odd \cup {"race"} ELSE odd
  /\ UNCHANGED <<disk, g_ready, g_boot_gen, g_count, g_head, graph, degraded, verdict, haslog, todo,
                 boots, faults, asks, acked, revoked, born>>

\* ext2_append_file
AppendWrite(w) ==
  /\ Goto(w, "write", "fold") /\ log' = Append(log, rec[w])
  /\ UNCHANGED <<seal, badlog, kernel, todo, rec, hist>>

\* Mutant: the failure of the device goes unreported.
FailUnreported(w) ==
  /\ Fault /\ Goto(w, "write", "fold")
  /\ UNCHANGED <<disk, kernel, todo, rec, boots, asks, acked, revoked, born, odd>>

\* It fails, before or after the first of two blocks.
AppendFail(w) ==
  /\ Fault /\ Return(w, "write") /\ g_in_append' = FALSE
  /\ log' \in {log, Append(log, Torn)}
  /\ UNCHANGED <<seal, badlog, g_ready, g_boot_gen, g_count, g_head, graph, degraded, verdict, haslog,
                 boots, asks, acked, revoked, born, odd>>

\* Mutant: the dry run has checked it.
FoldUnchecked(r) ==
  CASE r.op.op = "EDGE_ADD" ->
         [graph EXCEPT !.edges = Append(@, [seq |-> r.seq, edge |-> r.op.edge, revoked |-> FALSE])]
    [] OTHER -> gfsf_apply(graph, r, g_boot_gen)

\* gfs_fold_on_record checks the record again.
gfs_fold_on_record(r) == gfsf_apply(graph, r, g_boot_gen)

AppendFold(w) ==
  /\ Goto(w, "fold", "seal")
  /\ g_head' = SelfHash(rec[w]) /\ g_count' = g_count + 1
  /\ graph' = gfs_fold_on_record(rec[w])
  /\ UNCHANGED <<disk, g_ready, g_boot_gen, g_in_append, degraded, verdict, haslog, todo, rec, hist>>

\* The append has succeeded whatever becomes of the seal.
Acknowledge(w) ==
  /\ Return(w, "seal") /\ g_in_append' = FALSE
  /\ acked' = acked \cup {rec[w]}
  /\ revoked' = IF rec[w].op.op = "EDGE_REVOKE" THEN revoked \cup {rec[w].op.seq} ELSE revoked
  /\ UNCHANGED <<log, badlog, g_ready, g_boot_gen, g_count, g_head, graph, degraded, verdict, haslog,
                 boots, asks, born, odd>>

\* Mutant: the head is left out.
SealNoHead == [count |-> g_count, gen |-> g_boot_gen]

gfsj_seal_encode == [count |-> g_count, gen |-> g_boot_gen, head |-> g_head]

AppendSeal(w) == Acknowledge(w) /\ seal' = gfsj_seal_encode /\ UNCHANGED faults

\* ext2_write_file fails: at once, or after the old seal is gone.
SealFail(w) == Acknowledge(w) /\ Fault /\ seal' \in {seal, NoSeal}
-----------------------------------------------------------------------------
\* ext2_write_file empties the seal before it writes the new contents.
Crash ==
  /\ boots < MaxBoots /\ boots' = boots + 1
  /\ seal' = seal \/ ((\E w \in Writer : pc[w] = "seal") /\ seal' = BadSeal)
  /\ Volatile
  /\ revoked' = {} /\ born' = 0
  /\ odd' = IF pc[Kernel] \in Moving THEN odd \cup {"cut"} ELSE odd
  /\ UNCHANGED <<log, badlog, faults, asks, acked>>

Boot == BootRead \/ BootMisread \/ BootDeleteBad \/ BootMoveLog \/ BootMoveSeal \/ BootDeleteLog
          \/ BootRestart
AppendStep(w) == AppendRefuse(w) \/ AppendTest(w) \/ AppendEncode(w) \/ AppendWrite(w) \/ AppendFail(w)
                   \/ AppendFold(w) \/ AppendSeal(w) \/ SealFail(w)

Next == Boot \/ Crash \/ \E w \in Writer : Mutate(w) \/ AppendStep(w)

Spec == Init /\ [][Next]_vars
-----------------------------------------------------------------------------
\* Types of the files, the kernel's state and each thread's locals.
TypeOK ==
  /\ log \in Seq(Record \cup {Torn}) /\ badlog \in Seq(Record \cup {Torn})
  /\ seal \in Seal \cup {NoSeal, BadSeal}
  /\ g_ready \in BOOLEAN /\ g_boot_gen \in Nat /\ g_count \in Nat /\ g_head \in Hash
  /\ g_in_append \in BOOLEAN /\ degraded \in BOOLEAN
  /\ graph \in Graph
  /\ \A w \in Writer : pc[w] \in {"write", "fold", "seal"} => rec[w] \in Record

Reading == "misread" \notin odd

\* gfs_fold_on_record keeps the graph equal to what replaying the log would
\* give, although the dry run and the append of a mutation are apart.
GraphIsFold ==
  g_ready /\ Reading /\ ChainOk(log) /\ (\A w \in Writer : pc[w] # "fold") =>
    graph = gfs_fold_replay(log, g_boot_gen)

\* An edge of the graph was granted in this boot: the generation is larger than
\* that of every record an earlier boot left in the log.
FreshGeneration ==
  g_ready /\ Reading => \A k \in 1..born : log[k].gen < g_boot_gen

\* Once gfs_grant_revoke has returned success, the graph has the edge revoked:
\* gfsf_grant_check takes no authority from it, unless two appends overlapped.
RevokeSticks ==
  "race" \notin odd =>
    \A k \in DOMAIN graph.edges : graph.edges[k].seq \in revoked => graph.edges[k].revoked

\* The log on disk has every record that an append reported as written since a
\* boot last found the journal bad, whatever appends failed or overlapped.
NothingLostSilently ==
  acked \subseteq {log[k] : k \in DOMAIN log}

\* What looks like tampering is none of a plain crash or failed write: records
\* are out of order only if two appends overlapped, and missing only if a crash
\* cut the move of a bad journal short, or a file was there and not read.  A
\* seal contradicts its log only if both of these happened.
VerdictExplained ==
  /\ verdict = "CHAIN_BREAK" => odd \cap {"race", "misread"} # {}
  /\ verdict = "TRUNCATED" => odd \cap {"cut", "misread"} # {}
  /\ verdict = "HEAD_MISMATCH" => {"cut", "misread"} \subseteq odd
=============================================================================
