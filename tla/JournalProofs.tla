---------------------------- MODULE JournalProofs ---------------------------
(***************************************************************************)
(* Theorems about the GraphFS journal (Journal), for any number of         *)
(* threads, boots, failing disk operations and requests, any journal found *)
(* at the first boot and any size of the graph's tables.                   *)
(***************************************************************************)
EXTENDS Journal, FiniteSetTheorems, WellFoundedInduction, TLAPS

Entry     == Record \cup {Torn}
Appending == {"write", "fold", "seal"}
Active    == {"enter", "encode"} \cup Appending
Points    == {"boot", "idle"} \cup Moving \cup Active
Folding   == {w \in Writer : pc[w] = "fold"}
Records   == {log[k] : k \in DOMAIN log}

\* The types, with those of the program points and of the threads' locals.
Types ==
  /\ log \in Seq(Entry) /\ badlog \in Seq(Entry) /\ seal \in Seal \cup {NoSeal, BadSeal}
  /\ g_ready \in BOOLEAN /\ g_boot_gen \in Nat /\ g_count \in Nat /\ g_head \in Hash
  /\ g_in_append \in BOOLEAN /\ degraded \in BOOLEAN
  /\ graph \in Graph
  /\ pc \in [Writer -> Points] /\ todo \in [Writer -> Seq(Ops)] /\ rec \in [Writer -> Entry]
  /\ born \in Nat

\* Until gfs_journal_init is done nobody else runs; then nobody boots.
Phases ==
  /\ ~g_ready => /\ pc[Kernel] \in {"boot"} \cup Moving
                 /\ \A w \in Writer \ {Kernel} : pc[w] = "idle"
                 /\ todo = [w \in Writer |-> <<>>]
                 /\ graph = gfsf_reset /\ revoked = {}
  /\ g_ready => \A w \in Writer : pc[w] \in Active \cup {"idle"}
  /\ \A w \in Writer : pc[w] \in Active => todo[w] # <<>>
  /\ \A w \in Writer : pc[w] \in Appending => rec[w] \in Record /\ rec[w].gen = g_boot_gen
  /\ pc[Kernel] = "del_seal" => log = <<>>

\* Acknowledged records, and those about to be, are in the log.
Kept ==
  /\ acked \subseteq Records
  /\ pc[Kernel] \in Moving => acked = {}
  /\ \A w \in Writer : pc[w] \in {"fold", "seal"} => rec[w] \in Records

UpTo(h, gen) == \A i \in DOMAIN h : h[i].gen <= gen

\* A hash covers no record of a later generation than the one that made it.
Generations ==
  /\ seal \in Seal => UpTo(seal.head, seal.gen)
  /\ g_ready => UpTo(g_head, g_boot_gen)
  /\ \A w \in Writer : pc[w] \in Appending => UpTo(rec[w].prev, g_boot_gen)
  /\ g_ready /\ Reading =>
       born <= Len(log) /\ \A k \in 1..born : log[k] \in Record /\ log[k].gen < g_boot_gen

\* Where the kernel's count and head stand in a log whose chain is whole: some
\* records were never read, or all is in step, or one record is yet to be folded.
Aligned ==
  g_ready /\ ChainOk(log) =>
    \/ Folding = {} /\ g_count < Len(log) /\ ~Reading
    \/ Folding = {} /\ g_count = Len(log) /\ g_head = HeadOf(log)
    \/ \E w \in Writer : Folding = {w} /\ g_count + 1 = Len(log) /\ rec[w] = log[Len(log)]

Behind == \A w \in Writer : pc[w] \in Appending => rec[w].seq <= g_count

\* The graph is the fold of the records that have been counted.
Folded ==
  g_ready /\ Reading /\ ChainOk(log) =>
    /\ g_count <= Len(log)
    /\ graph = gfs_fold_replay(SubSeq(log, 1, g_count), g_boot_gen)

\* As long as no two appends overlapped: one at a time, and in order.
InOrder ==
  "race" \notin odd =>
    /\ \A v, w \in Writer : pc[v] \in Appending /\ pc[w] \in Appending => v = w
    /\ \A w \in Writer : pc[w] \in {"write", "fold"} => rec[w].seq = g_count /\ rec[w].prev = g_head
    /\ Reading /\ Whole(log) => ChainOk(log)

\* Not both: a move of a bad journal cut short, and a file not read.
Trusted == ~({"cut", "misread"} \subseteq odd)

\* The seal counts records that are there, and has the head that goes with them.
Sealed ==
  /\ seal \in Seal => seal.count > 0
  /\ \A w \in Writer : pc[w] = "seal" => g_count > 0
  /\ g_ready => g_count + Cardinality(Folding) <= Len(log)
  /\ "cut" \notin odd /\ pc[Kernel] \notin Moving /\ seal \in Seal => seal.count <= Len(log)
  /\ g_ready /\ Trusted /\ seal \in Seal => seal.count <= Len(log)
  /\ Trusted /\ seal \in Seal /\ ChainOk(log) /\ Len(log) = seal.count => seal.head = HeadOf(log)

IsRevoke(o) == o.op = "EDGE_REVOKE"
Marked(edges, s) == \A k \in DOMAIN edges : edges[k].seq = s => edges[k].revoked

Distinct(edges) == \A j, k \in DOMAIN edges : edges[j].seq = edges[k].seq => j = k
Below(edges, n) == \A k \in DOMAIN edges : edges[k].seq < n

\* Edges are named once, before they can be revoked.
Named ==
  /\ Below(graph.edges, g_count)
  /\ \A s \in revoked : s \in Nat /\ s < g_count
  /\ \A w \in Writer : \A i \in DOMAIN todo[w] : IsRevoke(todo[w][i]) => todo[w][i].seq < g_count
  /\ \A w \in Writer : pc[w] \in Appending /\ IsRevoke(rec[w].op) => rec[w].op.seq < g_count
  /\ "race" \notin odd =>
       /\ Distinct(graph.edges)
       /\ \A s \in revoked : Marked(graph.edges, s)
       /\ \A w \in Writer : pc[w] = "seal" /\ IsRevoke(rec[w].op) => Marked(graph.edges, rec[w].op.seq)
-----------------------------------------------------------------------------
(* Induction, as the existence of a least counterexample. *)

\* A non-empty set of naturals has a least element.
LEMMA LeastNatural ==
  ASSUME NEW T \in SUBSET Nat, T # {}
  PROVE  \E n \in T : \A m \in T : n <= m
<1> DEFINE R == {ss \in Nat \X Nat : ss[1] < ss[2]}
<1>1. IsWellFoundedOn(R, Nat)
  BY NatLessThanWellFounded DEF OpToRel
<1>2. PICK x \in T : \A y \in T : ~(<<y, x>> \in R)
  BY <1>1, WFMin
<1>3. \A y \in T : ~(y < x)
  <2> SUFFICES ASSUME NEW y \in T, y < x PROVE FALSE OBVIOUS
  <2>1. x \in Nat /\ y \in Nat OBVIOUS
  <2>2. <<y, x>> \in Nat \X Nat /\ <<y, x>>[1] < <<y, x>>[2] BY <2>1
  <2>3. <<y, x>> \in R BY <2>2
  <2> QED BY <2>3, <1>2
<1>4. T \subseteq Nat OBVIOUS
<1> HIDE DEF R
<1>5. \A y \in T : x <= y BY <1>3, <1>4
<1> QED BY <1>5

\* Induction over the members of 0..N, for a set.
LEMMA UpToN ==
  ASSUME NEW N \in Nat, NEW T, 0 \in T,
         \A n \in 1..N : n - 1 \in T => n \in T
  PROVE  \A n \in 0..N : n \in T
<1> SUFFICES ASSUME ~(\A n \in 0..N : n \in T) PROVE FALSE OBVIOUS
<1> DEFINE B == {n \in 0..N : n \notin T}
<1>1. B \in SUBSET Nat /\ B # {} OBVIOUS
<1> HIDE DEF B
<1>2. PICK n \in B : \A m \in B : n <= m BY <1>1, LeastNatural
<1>3. n \in 0..N /\ n \notin T BY <1>2 DEF B
<1>4. n # 0 BY <1>3
<1>5. n \in 1..N /\ n - 1 \in 0..N /\ ~(n <= n - 1) BY <1>3, <1>4
<1>6. n - 1 \notin B BY <1>5, <1>2
<1>7. n - 1 \in T BY <1>5, <1>6 DEF B
<1> QED BY <1>3, <1>5, <1>7
-----------------------------------------------------------------------------
(* The fold. *)

\* gfsf_apply leaves a graph.
LEMMA ApplyType ==
  ASSUME NEW g \in Graph, NEW r \in Record, NEW cur
  PROVE  gfsf_apply(g, r, cur) \in Graph
<1> DEFINE o == r.op
           A == gfsf_apply(g, r, cur)
<1>1. o \in Ops /\ r.seq \in Nat BY DEF Record
<1>2. A = [g EXCEPT !.overflow = TRUE] \/ A = g
      \/ (o.op \in {"NODE_CREATE", "NODE_RESTORE"} /\ A = [g EXCEPT !.nodes[o.node] = "LIVE"])
      \/ (o.op = "NODE_RETIRE" /\ A = [g EXCEPT !.nodes[o.node] = "RETIRED"])
      \/ (o.op = "EDGE_ADD"
           /\ A = [g EXCEPT !.edges = Append(@, [seq |-> r.seq, edge |-> o.edge, revoked |-> FALSE])])
      \/ (o.op = "EDGE_REVOKE" /\ A = [g EXCEPT !.edges = Revoke(@, o.seq)])
  BY DEF gfsf_apply
<1>3. g.edges \in Seq(Edge) BY DEF Graph
<1>4. ASSUME o.op = "EDGE_ADD"
      PROVE  Append(g.edges, [seq |-> r.seq, edge |-> o.edge, revoked |-> FALSE]) \in Seq(Edge)
  <2>1. o.edge \in Grants BY <1>1, <1>4 DEF Ops, NodeOps, GrantOps, RevokeOps, Note
  <2>2. [seq |-> r.seq, edge |-> o.edge, revoked |-> FALSE] \in Edge BY <2>1, <1>1 DEF Edge
  <2> QED BY <2>2, <1>3
<1>5. ASSUME NEW s PROVE Revoke(g.edges, s) \in Seq(Edge)
  <2>1. Revoke(g.edges, s) = [k \in 1..Len(g.edges) |-> Revoke(g.edges, s)[k]]
    BY <1>3 DEF Revoke
  <2>2. \A k \in 1..Len(g.edges) : Revoke(g.edges, s)[k] \in Edge
    <3> SUFFICES ASSUME NEW k \in 1..Len(g.edges) PROVE Revoke(g.edges, s)[k] \in Edge OBVIOUS
    <3>1. g.edges[k] \in Edge BY <1>3
    <3>2. PICK b \in BOOLEAN : Revoke(g.edges, s)[k] = [g.edges[k] EXCEPT !.revoked = b]
      <4> DEFINE b == g.edges[k].revoked
                        \/ (g.edges[k].seq = s /\ \A j \in 1..k-1 : g.edges[j].seq # s)
      <4>1. Revoke(g.edges, s)[k] = [g.edges[k] EXCEPT !.revoked = b] BY <1>3 DEF Revoke
      <4>2. b \in BOOLEAN BY <3>1 DEF Edge
      <4> QED BY <4>1, <4>2
    <3> QED BY <3>1, <3>2 DEF Edge
  <2>3. Len(g.edges) \in Nat BY <1>3
  <2> QED BY <2>1, <2>2, <2>3
<1>6. ASSUME o.op \in {"NODE_CREATE", "NODE_RESTORE", "NODE_RETIRE"} PROVE o.node \in Node
  BY <1>1, <1>6 DEF Ops, NodeOps, GrantOps, RevokeOps, Note
<1> HIDE DEF A, o
<1>7. [g EXCEPT !.overflow = TRUE] \in Graph BY DEF Graph
<1>8. \A x \in Node, s \in {"LIVE", "RETIRED"} : [g EXCEPT !.nodes[x] = s] \in Graph BY DEF Graph
<1>9. \A E \in Seq(Edge) : [g EXCEPT !.edges = E] \in Graph BY DEF Graph
<1>10. A \in Graph
  <2>1. CASE o.op = "EDGE_ADD"
    <3>1. A \in {g, [g EXCEPT !.overflow = TRUE],
                 [g EXCEPT !.edges = Append(g.edges, [seq |-> r.seq, edge |-> o.edge, revoked |-> FALSE])]}
      BY <1>2, <2>1
    <3>2. [g EXCEPT !.edges = Append(g.edges, [seq |-> r.seq, edge |-> o.edge, revoked |-> FALSE])] \in Graph
      BY <1>4, <1>9, <2>1
    <3> QED BY <3>1, <3>2, <1>7
  <2>2. CASE o.op = "EDGE_REVOKE"
    <3>1. A \in {g, [g EXCEPT !.overflow = TRUE], [g EXCEPT !.edges = Revoke(g.edges, o.seq)]}
      BY <1>2, <2>2
    <3>2. [g EXCEPT !.edges = Revoke(g.edges, o.seq)] \in Graph BY <1>5, <1>9
    <3> QED BY <3>1, <3>2, <1>7
  <2>3. CASE o.op \notin {"EDGE_ADD", "EDGE_REVOKE"}
    <3>1. A = [g EXCEPT !.overflow = TRUE] \/ A = g
          \/ (o.op \in {"NODE_CREATE", "NODE_RESTORE"} /\ A = [g EXCEPT !.nodes[o.node] = "LIVE"])
          \/ (o.op = "NODE_RETIRE" /\ A = [g EXCEPT !.nodes[o.node] = "RETIRED"])
      BY <1>2, <2>3
    <3> QED BY <3>1, <1>6, <1>7, <1>8
  <2> QED BY <2>1, <2>2, <2>3
<1> QED BY <1>10 DEF A

\* What gfsf_apply does to the edges.
LEMMA ApplyEdges ==
  ASSUME NEW g \in Graph, NEW r \in Record, NEW cur
  PROVE  LET A == gfsf_apply(g, r, cur) IN
         \/ A.edges = g.edges /\ ~IsRevoke(r.op)
         \/ r.op.op = "EDGE_ADD"
            /\ A.edges = Append(g.edges, [seq |-> r.seq, edge |-> r.op.edge, revoked |-> FALSE])
         \/ IsRevoke(r.op) /\ A.edges = Revoke(g.edges, r.op.seq)
<1>1. CASE IsRevoke(r.op)
  BY <1>1 DEF gfsf_apply, Refusal, IsRevoke, Graph
<1>2. CASE ~IsRevoke(r.op)
  BY <1>2 DEF gfsf_apply, IsRevoke, Graph
<1> QED BY <1>1, <1>2

\* The names of the edges after a record of sequence number n.
LEMMA ApplyNames ==
  ASSUME NEW g \in Graph, NEW r \in Record, NEW cur, NEW n \in Nat, r.seq <= n, Below(g.edges, n)
  PROVE  /\ Below(gfsf_apply(g, r, cur).edges, n + 1)
         /\ Distinct(g.edges) /\ r.seq = n => Distinct(gfsf_apply(g, r, cur).edges)
<1> DEFINE e == [seq |-> r.seq, edge |-> r.op.edge, revoked |-> FALSE]
           E == gfsf_apply(g, r, cur).edges
<1>1. g.edges \in Seq(Edge) /\ r.seq \in Nat BY DEF Graph, Record
<1>2. \A k \in DOMAIN g.edges : g.edges[k].seq \in Nat
  <2>1. \A k \in DOMAIN g.edges : g.edges[k] \in Edge BY <1>1
  <2> QED BY <2>1 DEF Edge
<1>3. e.seq = r.seq OBVIOUS
<1> HIDE DEF e, E
<1>4. CASE E = g.edges
  BY <1>1, <1>2, <1>4 DEF Below, Distinct, E
<1>5. CASE E = Append(g.edges, e)
  <2>1. DOMAIN E = 1..(Len(g.edges) + 1) BY <1>1, <1>5
  <2>2. \A k \in DOMAIN g.edges : E[k] = g.edges[k] BY <1>1, <1>5
  <2>3. E[Len(g.edges) + 1] = e BY <1>1, <1>5
  <2>4. DOMAIN g.edges = 1..Len(g.edges) /\ Len(g.edges) \in Nat BY <1>1
  <2>5. Below(E, n + 1)
    BY <2>1, <2>2, <2>3, <2>4, <1>1, <1>2, <1>3 DEF Below
  <2>6. ASSUME Distinct(g.edges), r.seq = n PROVE Distinct(E)
    <3>1. \A k \in DOMAIN g.edges : E[k].seq # E[Len(g.edges) + 1].seq
      BY <2>2, <2>3, <2>6, <1>2, <1>3 DEF Below
    <3>2. \A j, k \in DOMAIN g.edges : E[j].seq = E[k].seq => j = k
      BY <2>2, <2>6 DEF Distinct
    <3>3. \A k \in DOMAIN E : k \in DOMAIN g.edges \/ k = Len(g.edges) + 1 BY <2>1, <2>4
    <3> QED BY <3>1, <3>2, <3>3 DEF Distinct
  <2> QED BY <2>5, <2>6 DEF E
<1>6. ASSUME NEW s, E = Revoke(g.edges, s)
      PROVE  /\ Below(E, n + 1)
             /\ Distinct(g.edges) => Distinct(E)
  <2>1. DOMAIN E = DOMAIN g.edges BY <1>6 DEF Revoke
  <2>2. \A k \in DOMAIN E : E[k].seq = g.edges[k].seq
    <3> SUFFICES ASSUME NEW k \in DOMAIN E PROVE E[k].seq = g.edges[k].seq OBVIOUS
    <3>1. g.edges[k] \in Edge BY <1>1, <2>1
    <3> QED BY <3>1, <2>1, <1>6 DEF Revoke, Edge
  <2> QED BY <2>1, <2>2, <1>2 DEF Below, Distinct
<1> QED BY <1>4, <1>5, <1>6, ApplyEdges DEF e, E

\* Revoking marks the only edge of that name, and keeps what is marked.
LEMMA RevokeMarks ==
  ASSUME NEW E \in Seq(Edge), NEW s, Distinct(E)
  PROVE  \A k \in DOMAIN E : /\ Revoke(E, s)[k].seq = E[k].seq
                             /\ E[k].revoked \/ E[k].seq = s => Revoke(E, s)[k].revoked
<1> SUFFICES ASSUME NEW k \in DOMAIN E
             PROVE  /\ Revoke(E, s)[k].seq = E[k].seq
                    /\ E[k].revoked \/ E[k].seq = s => Revoke(E, s)[k].revoked
  OBVIOUS
<1> DEFINE b == E[k].revoked \/ (E[k].seq = s /\ \A j \in 1..k-1 : E[j].seq # s)
<1>1. E[k] \in Edge OBVIOUS
<1>2. Revoke(E, s)[k] = [E[k] EXCEPT !.revoked = b] BY DEF Revoke
<1>3. Revoke(E, s)[k].seq = E[k].seq /\ Revoke(E, s)[k].revoked = b BY <1>1, <1>2 DEF Edge
<1>4. E[k].seq = s => \A j \in 1..k-1 : E[j].seq # s BY DEF Distinct
<1> QED BY <1>3, <1>4

\* The graphs on the way through a log: f[n] is the graph of its first n records.
Run(f, L, cur) ==
  /\ f \in [0..Len(L) -> Graph]
  /\ f[0] = gfsf_reset
  /\ \A k \in 1..Len(L) : f[k] = gfsf_apply(f[k-1], L[k], cur)

\* An empty graph is a graph.
LEMMA ResetType == gfsf_reset \in Graph /\ gfsf_reset.edges = <<>>
BY DEF gfsf_reset, Graph

\* Every log has such graphs.
LEMMA RunExists ==
  ASSUME NEW L \in Seq(Record), NEW cur
  PROVE  \E f : Run(f, L, cur)
<1> DEFINE Upto(f, n) == /\ f \in [0..n -> Graph] /\ f[0] = gfsf_reset
                         /\ \A k \in 1..n : f[k] = gfsf_apply(f[k-1], L[k], cur)
           T == {n \in 0..Len(L) : \E f : Upto(f, n)}
<1>1. Len(L) \in Nat OBVIOUS
<1>2. 0 \in T
  <2>1. Upto([k \in 0..0 |-> gfsf_reset], 0) BY ResetType
  <2> HIDE DEF Upto
  <2>2. \E f : Upto(f, 0) BY <2>1
  <2> QED BY <2>2, <1>1
<1>3. ASSUME NEW n \in 1..Len(L), n - 1 \in T PROVE n \in T
  <2>1. PICK f : Upto(f, n - 1) BY <1>3
  <2> DEFINE h == [k \in 0..n |-> IF k = n THEN gfsf_apply(f[n-1], L[n], cur) ELSE f[k]]
  <2>2. f[n-1] \in Graph BY <2>1
  <2>3. L[n] \in Record OBVIOUS
  <2>4. gfsf_apply(f[n-1], L[n], cur) \in Graph BY <2>2, <2>3, ApplyType
  <2>5. h \in [0..n -> Graph] BY <2>1, <2>4
  <2>6. h[0] = gfsf_reset BY <2>1
  <2>7. \A k \in 1..n : h[k] = gfsf_apply(h[k-1], L[k], cur)
    <3> SUFFICES ASSUME NEW k \in 1..n PROVE h[k] = gfsf_apply(h[k-1], L[k], cur) OBVIOUS
    <3>1. k - 1 \in 0..n /\ k - 1 # n /\ h[k-1] = f[k-1] OBVIOUS
    <3> QED BY <2>1, <3>1
  <2>8. Upto(h, n) BY <2>5, <2>6, <2>7
  <2> QED BY <2>8
<1> HIDE DEF T
<1>4. Len(L) \in T
  <2>1. \A n \in 1..Len(L) : n - 1 \in T => n \in T BY <1>3
  <2>2. \A n \in 0..Len(L) : n \in T BY <2>1, <1>1, <1>2, UpToN
  <2> QED BY <2>2, <1>1
<1> QED BY <1>4 DEF T, Run

\* gfs_fold_replay returns the last of them.
LEMMA ReplayIsRun ==
  ASSUME NEW L \in Seq(Record), NEW cur, NEW f, Run(f, L, cur)
  PROVE  gfs_fold_replay(L, cur) = f[Len(L)]
<1> DEFINE Steps(g) ==
      g = [k \in 0..Len(L) |-> IF k = 0 THEN gfsf_reset ELSE gfsf_apply(g[k-1], L[k], cur)]
           h == CHOOSE g : Steps(g)
           T == {n \in 0..Len(L) : h[n] = f[n]}
<1>1. Len(L) \in Nat OBVIOUS
<1>2. Steps(f)
  <2>1. f = [k \in 0..Len(L) |-> f[k]] BY DEF Run
  <2>2. \A k \in 0..Len(L) : f[k] = IF k = 0 THEN gfsf_reset ELSE gfsf_apply(f[k-1], L[k], cur)
    BY <1>1 DEF Run
  <2> QED BY <2>1, <2>2
<1>3. Steps(h) BY <1>2
<1>4. gfs_fold_replay(L, cur) = h[Len(L)] BY DEF gfs_fold_replay
<1> HIDE DEF h
<1>5. \A k \in 0..Len(L) : h[k] = IF k = 0 THEN gfsf_reset ELSE gfsf_apply(h[k-1], L[k], cur)
  BY <1>3
<1>6. 0 \in T BY <1>1, <1>5 DEF Run
<1>7. ASSUME NEW n \in 1..Len(L), n - 1 \in T PROVE n \in T
  BY <1>7, <1>5 DEF Run
<1> HIDE DEF T
<1>8. Len(L) \in T
  <2>1. \A n \in 1..Len(L) : n - 1 \in T => n \in T BY <1>7
  <2>2. \A n \in 0..Len(L) : n \in T BY <2>1, <1>1, <1>6, UpToN
  <2> QED BY <2>2, <1>1
<1> QED BY <1>4, <1>8 DEF T

\* The graph of no records.
LEMMA ReplayEmpty ==
  ASSUME NEW cur PROVE gfs_fold_replay(<<>>, cur) = gfsf_reset
<1>1. <<>> \in Seq(Record) /\ Len(<<>>) = 0 OBVIOUS
<1>2. PICK f : Run(f, <<>>, cur) BY <1>1, RunExists
<1> QED BY <1>1, <1>2, ReplayIsRun DEF Run

\* One more record is one more gfsf_apply: what keeps GraphIsFold true.
LEMMA ReplayAppend ==
  ASSUME NEW L \in Seq(Record), NEW r \in Record, NEW cur
  PROVE  gfs_fold_replay(Append(L, r), cur) = gfsf_apply(gfs_fold_replay(L, cur), r, cur)
<1> DEFINE M == Append(L, r)
<1>1. M \in Seq(Record) /\ Len(M) = Len(L) + 1 /\ Len(L) \in Nat OBVIOUS
<1>2. M[Len(L) + 1] = r /\ \A k \in 1..Len(L) : M[k] = L[k] OBVIOUS
<1>3. PICK f : Run(f, M, cur) BY <1>1, RunExists
<1> HIDE DEF M
<1> DEFINE h == [k \in 0..Len(L) |-> f[k]]
<1>4. Run(h, L, cur)
  <2>1. h \in [0..Len(L) -> Graph] BY <1>1, <1>3 DEF Run
  <2>2. h[0] = gfsf_reset BY <1>1, <1>3 DEF Run
  <2>3. \A k \in 1..Len(L) : h[k] = gfsf_apply(h[k-1], L[k], cur)
    <3> SUFFICES ASSUME NEW k \in 1..Len(L) PROVE h[k] = gfsf_apply(h[k-1], L[k], cur) OBVIOUS
    <3>1. k \in 1..Len(M) /\ k - 1 \in 0..Len(L) /\ k \in 0..Len(L) BY <1>1
    <3>2. f[k] = gfsf_apply(f[k-1], M[k], cur) BY <3>1, <1>3 DEF Run
    <3> QED BY <3>1, <3>2, <1>2
  <2> QED BY <2>1, <2>2, <2>3 DEF Run
<1>5. gfs_fold_replay(L, cur) = f[Len(L)]
  <2>1. gfs_fold_replay(L, cur) = h[Len(L)] BY <1>4, ReplayIsRun
  <2> QED BY <2>1, <1>1
<1>6. gfs_fold_replay(M, cur) = f[Len(M)] BY <1>1, <1>3, ReplayIsRun
<1>7. f[Len(M)] = gfsf_apply(f[Len(M) - 1], M[Len(M)], cur)
  <2>1. Len(M) \in 1..Len(M) BY <1>1
  <2> QED BY <2>1, <1>3 DEF Run
<1>8. Len(M) - 1 = Len(L) BY <1>1
<1> QED BY <1>1, <1>2, <1>5, <1>6, <1>7, <1>8 DEF M

\* The graph of a log is a graph; in order, its edges are named once.
LEMMA ReplayNames ==
  ASSUME NEW L \in Seq(Record), NEW cur
  PROVE  /\ gfs_fold_replay(L, cur) \in Graph
         /\ (\A k \in DOMAIN L : L[k].seq = k - 1)
              => /\ Below(gfs_fold_replay(L, cur).edges, Len(L))
                 /\ Distinct(gfs_fold_replay(L, cur).edges)
<1>1. PICK f : Run(f, L, cur) BY RunExists
<1>2. gfs_fold_replay(L, cur) = f[Len(L)] BY <1>1, ReplayIsRun
<1>3. Len(L) \in Nat OBVIOUS
<1>4. f[Len(L)] \in Graph BY <1>1, <1>3 DEF Run
<1>5. ASSUME \A k \in DOMAIN L : L[k].seq = k - 1
      PROVE  Below(f[Len(L)].edges, Len(L)) /\ Distinct(f[Len(L)].edges)
  <2> DEFINE T == {n \in 0..Len(L) : Below(f[n].edges, n) /\ Distinct(f[n].edges)}
  <2>1. 0 \in T
    <3>1. f[0].edges = <<>> BY <1>1, ResetType DEF Run
    <3> QED BY <1>3, <3>1 DEF Below, Distinct
  <2>2. ASSUME NEW n \in 1..Len(L), n - 1 \in T PROVE n \in T
    <3>1. f[n-1] \in Graph /\ L[n] \in Record /\ L[n].seq = n - 1 /\ n - 1 \in Nat
      BY <1>1, <1>5 DEF Run
    <3>2. Below(f[n-1].edges, n - 1) /\ Distinct(f[n-1].edges) BY <2>2
    <3>3. f[n] = gfsf_apply(f[n-1], L[n], cur) BY <1>1 DEF Run
    <3>4. Below(f[n].edges, (n - 1) + 1) /\ Distinct(f[n].edges)
      <4>1. L[n].seq <= n - 1 BY <3>1
      <4> QED BY <3>1, <3>2, <3>3, <4>1, ApplyNames
    <3> QED BY <3>4
  <2> HIDE DEF T
  <2>3. Len(L) \in T
    <3>1. \A n \in 1..Len(L) : n - 1 \in T => n \in T BY <2>2
    <3>2. \A n \in 0..Len(L) : n \in T BY <3>1, <1>3, <2>1, UpToN
    <3> QED BY <3>2, <1>3
  <2> QED BY <2>3 DEF T
<1> QED BY <1>2, <1>4, <1>5
-----------------------------------------------------------------------------
(* The log and its chain. *)

\* Sequences of entries with one more.
LEMMA Appended ==
  ASSUME NEW L \in Seq(Entry), NEW e \in Entry
  PROVE  /\ Append(L, e) \in Seq(Entry) /\ Len(L) \in Nat
         /\ DOMAIN L = 1..Len(L) /\ DOMAIN Append(L, e) = 1..(Len(L) + 1)
         /\ Len(Append(L, e)) = Len(L) + 1
         /\ \A k \in 1..Len(L) : Append(L, e)[k] = L[k]
         /\ Append(L, e)[Len(L) + 1] = e
OBVIOUS

\* A log without fragments is a sequence of records.
LEMMA WholeIsRecords ==
  ASSUME NEW L \in Seq(Entry), Whole(L) PROVE L \in Seq(Record)
<1>1. \A k \in 1..Len(L) : L[k] \in Record BY DEF Whole, Entry
<1>2. L = [k \in 1..Len(L) |-> L[k]] /\ Len(L) \in Nat OBVIOUS
<1> QED BY <1>1, <1>2

\* No log is whole once it has a fragment.
LEMMA TornStays ==
  ASSUME NEW L \in Seq(Entry), NEW e \in Entry
  PROVE  Whole(Append(L, e)) <=> Whole(L) /\ e # Torn
BY Appended DEF Whole

\* The hash of a record is one entry longer than the one before it.
LEMMA HashType ==
  ASSUME NEW r \in Record
  PROVE  /\ SelfHash(r) \in Hash
         /\ DOMAIN SelfHash(r) = 1..(Len(r.prev) + 1) /\ DOMAIN r.prev = 1..Len(r.prev)
         /\ Len(r.prev) \in Nat
         /\ \A k \in DOMAIN r.prev : SelfHash(r)[k] = r.prev[k]
         /\ SelfHash(r)[Len(r.prev) + 1] = [seq |-> r.seq, gen |-> r.gen, op |-> r.op]
<1>1. r.prev \in Seq(Content) BY DEF Record, Hash
<1>2. [seq |-> r.seq, gen |-> r.gen, op |-> r.op] \in Content BY DEF Record, Content
<1> QED BY <1>1, <1>2 DEF SelfHash, Hash

\* So it covers no later generation than the record and the hash before it.
LEMMA HashUpTo ==
  ASSUME NEW r \in Record, NEW gen \in Nat, UpTo(r.prev, gen), r.gen <= gen
  PROVE  UpTo(SelfHash(r), gen)
<1>0. /\ DOMAIN SelfHash(r) = 1..(Len(r.prev) + 1) /\ DOMAIN r.prev = 1..Len(r.prev)
      /\ Len(r.prev) \in Nat
      /\ \A k \in DOMAIN r.prev : SelfHash(r)[k] = r.prev[k]
      /\ SelfHash(r)[Len(r.prev) + 1] = [seq |-> r.seq, gen |-> r.gen, op |-> r.op]
  BY HashType
<1>1. ASSUME NEW k \in DOMAIN SelfHash(r) PROVE SelfHash(r)[k].gen <= gen
  <2>1. k \in DOMAIN r.prev \/ k = Len(r.prev) + 1 BY <1>0
  <2>2. CASE k \in DOMAIN r.prev BY <2>2, <1>0 DEF UpTo
  <2>3. CASE k = Len(r.prev) + 1 BY <2>3, <1>0
  <2> QED BY <2>1, <2>2, <2>3
<1> QED BY <1>1 DEF UpTo

\* The head of a log, and the type of it.
LEMMA HeadType ==
  ASSUME NEW L \in Seq(Entry), Whole(L) PROVE HeadOf(L) \in Hash
<1>1. CASE L = <<>> BY <1>1 DEF HeadOf, Hash
<1>2. CASE L # <<>>
  <2>1. Len(L) \in 1..Len(L) BY <1>2
  <2>2. L[Len(L)] \in Record BY <2>1 DEF Whole, Entry
  <2> QED BY <2>2, <1>2, HashType DEF HeadOf
<1> QED BY <1>1, <1>2

\* When the chain goes on: the record follows the head and has the next number.
LEMMA ChainAppend ==
  ASSUME NEW L \in Seq(Entry), NEW r \in Record
  PROVE  /\ HeadOf(Append(L, r)) = SelfHash(r)
         /\ ChainOk(Append(L, r)) <=> ChainOk(L) /\ r.prev = HeadOf(L) /\ r.seq = Len(L)
<1> DEFINE M == Append(L, r)
           n == Len(L) + 1
<1>0. r \in Entry /\ r # Torn BY FilesAssumption DEF Entry
<1>1. /\ M \in Seq(Entry) /\ Len(L) \in Nat /\ DOMAIN L = 1..Len(L) /\ DOMAIN M = 1..n
      /\ Len(M) = n /\ M[n] = r
      /\ \A k \in 1..Len(L) : M[k] = L[k]
  BY <1>0, Appended
<1>2. Whole(M) <=> Whole(L) BY <1>0, TornStays
<1> HIDE DEF M
<1>3. \A k \in 1..Len(L) : (PrevOk(M, k) <=> PrevOk(L, k)) /\ (SeqOk(M, k) <=> SeqOk(L, k))
  BY <1>1 DEF PrevOk, SeqOk
<1>4. PrevOk(M, n) <=> r.prev = HeadOf(L)
  <2>1. CASE L = <<>>
    <3>1. n = 1 BY <2>1
    <3> QED BY <3>1, <2>1, <1>1 DEF PrevOk, HeadOf
  <2>2. CASE L # <<>>
    <3>1. n # 1 /\ n - 1 = Len(L) /\ Len(L) \in 1..Len(L) BY <2>2, <1>1
    <3> QED BY <3>1, <2>2, <1>1 DEF PrevOk, HeadOf
  <2> QED BY <2>1, <2>2
<1>5. SeqOk(M, n) <=> r.seq = Len(L) BY <1>1 DEF SeqOk
<1>6. ChainOk(M) <=> ChainOk(L) /\ PrevOk(M, n) /\ SeqOk(M, n)
  <2>1. (\A k \in DOMAIN M : PrevOk(M, k) /\ SeqOk(M, k))
        <=> /\ \A k \in DOMAIN L : PrevOk(M, k) /\ SeqOk(M, k)
            /\ PrevOk(M, n) /\ SeqOk(M, n)
    <3>1. \A k : k \in DOMAIN M <=> k \in DOMAIN L \/ k = n BY <1>1
    <3> QED BY <3>1
  <2> QED BY <2>1, <1>1, <1>2, <1>3 DEF ChainOk
<1>7. HeadOf(M) = SelfHash(r)
  <2>1. M # <<>> BY <1>1
  <2> QED BY <2>1, <1>1 DEF HeadOf
<1> QED BY <1>4, <1>5, <1>6, <1>7 DEF M

\* The head of a chain covers every record of it.
LEMMA HeadCovers ==
  ASSUME NEW L \in Seq(Entry), ChainOk(L), NEW gen \in Nat, UpTo(HeadOf(L), gen)
  PROVE  \A k \in DOMAIN L : L[k].gen <= gen
<1> DEFINE T == {n \in 0..Len(L) : n < Len(L) => UpTo(SelfHash(L[Len(L) - n]), gen)}
<1>1. Len(L) \in Nat /\ DOMAIN L = 1..Len(L) OBVIOUS
<1>2. \A k \in DOMAIN L : L[k] \in Record BY DEF ChainOk, Whole, Entry
<1>3. 0 \in T
  <2>1. Len(L) # 0 => HeadOf(L) = SelfHash(L[Len(L)]) BY <1>1 DEF HeadOf
  <2> QED BY <2>1, <1>1
<1>4. ASSUME NEW n \in 1..Len(L), n - 1 \in T PROVE n \in T
  <2> SUFFICES ASSUME n < Len(L) PROVE UpTo(SelfHash(L[Len(L) - n]), gen) OBVIOUS
  <2> DEFINE k == Len(L) - (n - 1)
  <2>1. k \in DOMAIN L /\ k # 1 /\ k - 1 = Len(L) - n /\ n - 1 < Len(L) BY <1>1
  <2>2. UpTo(SelfHash(L[k]), gen) BY <1>4, <2>1
  <2> HIDE DEF k
  <2>3. L[k].prev = SelfHash(L[k-1]) BY <2>1 DEF ChainOk, PrevOk
  <2>4. UpTo(L[k].prev, gen)
    <3>1. L[k] \in Record BY <2>1, <1>2
    <3>2. /\ DOMAIN SelfHash(L[k]) = 1..(Len(L[k].prev) + 1) /\ Len(L[k].prev) \in Nat
          /\ DOMAIN L[k].prev = 1..Len(L[k].prev)
          /\ \A i \in DOMAIN L[k].prev : SelfHash(L[k])[i] = L[k].prev[i]
      BY <3>1, HashType
    <3> QED BY <3>2, <2>2 DEF UpTo
  <2> QED BY <2>1, <2>3, <2>4
<1> HIDE DEF T
<1>5. \A n \in 0..Len(L) : n \in T
  <2>1. \A n \in 1..Len(L) : n - 1 \in T => n \in T BY <1>4
  <2> QED BY <2>1, <1>1, <1>3, UpToN
<1>6. ASSUME NEW k \in DOMAIN L PROVE L[k].gen <= gen
  <2>1. Len(L) - k \in 0..Len(L) /\ Len(L) - k < Len(L) /\ Len(L) - (Len(L) - k) = k BY <1>1
  <2>2. UpTo(SelfHash(L[k]), gen) BY <2>1, <1>5 DEF T
  <2>3. SelfHash(L[k])[Len(L[k].prev) + 1].gen = L[k].gen
        /\ Len(L[k].prev) + 1 \in DOMAIN SelfHash(L[k])
    <3>1. L[k] \in Record BY <1>2
    <3>2. /\ DOMAIN SelfHash(L[k]) = 1..(Len(L[k].prev) + 1) /\ Len(L[k].prev) \in Nat
          /\ SelfHash(L[k])[Len(L[k].prev) + 1] = [seq |-> L[k].seq, gen |-> L[k].gen, op |-> L[k].op]
      BY <3>1, HashType
    <3> QED BY <3>2
  <2> QED BY <2>2, <2>3 DEF UpTo
<1> QED BY <1>6

\* What an OK of gfsj_verify means.
LEMMA VerifyOk ==
  ASSUME NEW L \in Seq(Entry), NEW s \in Seal \cup {NoSeal, BadSeal}, gfsj_verify(L, s) = "OK"
  PROVE  /\ ChainOk(L) /\ s # BadSeal
         /\ s = NoSeal => L = <<>>
         /\ s # NoSeal => s \in Seal /\ s.count = Len(L) /\ s.head = HeadOf(L)
<1>1. Whole(L)
  <2> SUFFICES ASSUME ~Whole(L) PROVE FALSE OBVIOUS
  <2>1. ~ChainOk(L) BY DEF ChainOk
  <2>2. gfsj_verify(L, s) = "RAGGED"
    BY <2>1 DEF gfsj_verify
  <2> QED BY <2>2
<1>2. ChainOk(L) BY <1>1 DEF gfsj_verify
<1>3. s # BadSeal BY <1>2, FilesAssumption DEF gfsj_verify, ChainOk
<1>4. s = NoSeal => L = <<>> BY <1>2 DEF gfsj_verify, ChainOk
<1>5. ASSUME s # NoSeal PROVE s \in Seal /\ s.count = Len(L) /\ s.head = HeadOf(L)
  <2>1. s \in Seal BY <1>3, <1>5
  <2>2. s.count \in Nat /\ Len(L) \in Nat BY <2>1 DEF Seal
  <2> QED BY <2>1, <2>2, <1>2, <1>3, <1>5 DEF gfsj_verify, ChainOk
<1> QED BY <1>2, <1>3, <1>4, <1>5
-----------------------------------------------------------------------------
(* The kinds of step. *)

\* The boot reads the files and verifies them, and may be told that one is empty.
VerifyStep ==
  \E L \in {log, <<>>}, s \in {seal, NoSeal} :
    BootVerify(L, s) /\ ((L = log /\ s = seal /\ odd' = odd) \/ odd' = odd \cup {"misread"})

\* A step of moving the files aside, up to the last.
AsideStep ==
  \E a \in Moving \ {"del_seal"}, b \in Moving \ {"del_bad"} :
    /\ Aside(a, b) /\ odd' = odd
    /\ log' \in {log, <<>>} /\ badlog' \in {badlog, log, <<>>} /\ seal' \in {seal, NoSeal}
    /\ b = "del_seal" => log' = <<>>

\* An append returns success, with a new seal, the old one or none.
AckStep(w) == Acknowledge(w) /\ seal' \in {gfsj_seal_encode, seal, NoSeal}

\* The steps of an append, and the request for it.
WriterStep(w) == Mutate(w) \/ AppendRefuse(w) \/ AppendTest(w) \/ AppendEncode(w) \/ AppendWrite(w)
                   \/ AppendFail(w) \/ AppendFold(w) \/ AckStep(w)

\* Every step is of one of these kinds.
LEMMA StepKinds ==
  ASSUME [Next]_vars
  PROVE  UNCHANGED vars \/ VerifyStep \/ AsideStep \/ BootRestart \/ Crash \/ \E w \in Writer : WriterStep(w)
<1>1. CASE UNCHANGED vars BY <1>1
<1>2. CASE BootRead BY <1>2 DEF BootRead, VerifyStep
<1>3. CASE BootMisread BY <1>3 DEF BootMisread, VerifyStep
<1>4. CASE BootDeleteBad
  BY <1>4 DEF BootDeleteBad, AsideStep, Moving
<1>5. CASE BootMoveLog
  BY <1>5 DEF BootMoveLog, AsideStep, Moving, disk
<1>6. CASE BootMoveSeal
  BY <1>6 DEF BootMoveSeal, AsideStep, Moving
<1>7. CASE BootDeleteLog
  BY <1>7 DEF BootDeleteLog, AsideStep, Moving
<1>8. CASE BootRestart BY <1>8
<1>9. CASE Crash BY <1>9
<1>10. CASE \E w \in Writer : Mutate(w) \/ AppendStep(w)
  <2>1. PICK w \in Writer : Mutate(w) \/ AppendStep(w) BY <1>10
  <2>2. AppendSeal(w) => AckStep(w) BY DEF AppendSeal, AckStep
  <2>3. SealFail(w) => AckStep(w) BY DEF SealFail, AckStep
  <2> QED BY <2>1, <2>2, <2>3 DEF AppendStep, WriterStep
<1> QED BY <1>1, <1>2, <1>3, <1>4, <1>5, <1>6, <1>7, <1>8, <1>9, <1>10 DEF Next, Boot

\* The notes of the boot are operations, and none is a revocation.
LEMMA Notes ==
  \A o \in {"BOOT", "CHECKPOINT", "AUDIT"} : Note(o) \in Ops /\ ~IsRevoke(Note(o))
BY DEF Note, Ops, IsRevoke

\* What callers ask for: a revocation names an edge that was granted.
LEMMA RequestOps ==
  ASSUME Types, NEW o \in Requests PROVE o \in Ops /\ (IsRevoke(o) => o.seq < g_count)
<1>1. CASE o \in Asked
  BY <1>1, Notes, JournalAssumption DEF Ops, IsRevoke, NodeOps
<1>2. CASE o \in GrantOps BY <1>2 DEF Ops, GrantOps, IsRevoke
<1>3. CASE o \in [op : {"EDGE_REVOKE"}, seq : Issued]
  <2>1. o.seq \in Issued BY <1>3
  <2>2. PICK k \in DOMAIN log : log[k] # Torn /\ o.seq = log[k].seq /\ log[k].seq < g_count
    BY <2>1 DEF Issued
  <2>3. log[k] \in Record BY <2>2 DEF Types, Entry
  <2>4. o.seq \in Nat /\ o.seq < g_count BY <2>2, <2>3 DEF Record
  <2>5. o \in RevokeOps BY <1>3, <2>4 DEF RevokeOps
  <2> QED BY <2>4, <2>5 DEF Ops
<1> QED BY <1>1, <1>2, <1>3 DEF Requests
-----------------------------------------------------------------------------
(* The initial state. *)

\* The log found by the first boot: a chain of generation 1.
LEMMA FirstLogOk ==
  /\ FirstLog \in Seq(Record) /\ FirstLog \in Seq(Entry) /\ ChainOk(FirstLog)
  /\ Len(FirstLog) = Len(FirstOps) /\ Len(FirstOps) \in Nat
  /\ UpTo(HeadOf(FirstLog), 1) /\ HeadOf(FirstLog) \in Hash
<1> DEFINE N == Len(FirstOps)
           c(k) == [seq |-> k - 1, gen |-> 1, op |-> FirstOps[k]]
           p(k) == [j \in 1..k-1 |-> c(j)]
<1>1. N \in Nat /\ DOMAIN FirstOps = 1..N /\ \A k \in 1..N : FirstOps[k] \in Ops
  BY JournalAssumption
<1>2. \A k \in 1..N : c(k) \in Content BY <1>1 DEF Content
<1>3. \A k \in 1..N : p(k) \in Seq(Content) /\ Len(p(k)) = k - 1
  <2> SUFFICES ASSUME NEW k \in 1..N PROVE p(k) \in Seq(Content) /\ Len(p(k)) = k - 1 OBVIOUS
  <2>1. k - 1 \in Nat /\ \A j \in 1..k-1 : j \in 1..N BY <1>1
  <2>2. \A j \in 1..k-1 : c(j) \in Content BY <2>1, <1>2
  <2> HIDE DEF c
  <2> QED BY <2>1, <2>2
<1>4. FirstLog = [k \in 1..N |-> Encode(k - 1, 1, FirstOps[k], p(k))]
  BY <1>1 DEF FirstLog
<1> HIDE DEF p
<1>5. \A k \in 1..N : /\ FirstLog[k] = Encode(k - 1, 1, FirstOps[k], p(k))
                      /\ FirstLog[k] \in Record
  BY <1>1, <1>3, <1>4 DEF Encode, Record, Hash
<1>5a. ASSUME NEW k \in 1..N
       PROVE  /\ FirstLog[k].seq = k - 1 /\ FirstLog[k].gen = 1
              /\ FirstLog[k].op = FirstOps[k] /\ FirstLog[k].prev = p(k)
  <2>1. FirstLog[k] = Encode(k - 1, 1, FirstOps[k], p(k)) BY <1>5
  <2> QED BY <2>1 DEF Encode
<1>6. FirstLog \in Seq(Record) /\ Len(FirstLog) = N /\ DOMAIN FirstLog = 1..N
  BY <1>1, <1>4, <1>5
<1>7. Whole(FirstLog) BY <1>5, <1>6, FilesAssumption DEF Whole
<1>8. ASSUME NEW k \in 1..N PROVE PrevOk(FirstLog, k) /\ SeqOk(FirstLog, k)
  <2>1. SeqOk(FirstLog, k) BY <1>5a DEF SeqOk
  <2>2. FirstLog[k].prev = p(k) BY <1>5a
  <2>3. CASE k = 1
    <3>1. p(1) = <<>> BY <2>3, <1>3
    <3> QED BY <2>1, <2>2, <2>3, <3>1 DEF PrevOk
  <2>4. CASE k # 1
    <3>1. k - 1 \in 1..N BY <2>4, <1>1
    <3>2. SelfHash(FirstLog[k-1]) = Append(p(k-1), c(k-1)) BY <3>1, <1>5a DEF SelfHash
    <3>3. Append(p(k-1), c(k-1)) = p(k)
      <4>1. p(k-1) \in Seq(Content) /\ Len(p(k-1)) = k - 2 /\ p(k) \in Seq(Content) /\ Len(p(k)) = k - 1
        <5>1. (k - 1) - 1 = k - 2 OBVIOUS
        <5>2. p(k-1) \in Seq(Content) /\ Len(p(k-1)) = (k - 1) - 1 BY <3>1, <1>3
        <5> QED BY <5>1, <5>2, <1>3
      <4>2. c(k-1) \in Content BY <3>1, <1>2
      <4>3. \A j \in 1..k-1 : p(k)[j] = c(j) BY DEF p
      <4>4. \A j \in 1..k-2 : p(k-1)[j] = c(j) BY DEF p
      <4> HIDE DEF c
      <4>5. Append(p(k-1), c(k-1)) \in Seq(Content) /\ Len(Append(p(k-1), c(k-1))) = k - 1
        BY <4>1, <4>2
      <4>6. \A j \in 1..k-1 : Append(p(k-1), c(k-1))[j] = p(k)[j]
        BY <4>1, <4>2, <4>3, <4>4
      <4> QED BY <4>1, <4>5, <4>6
    <3> QED BY <2>1, <2>2, <2>4, <3>2, <3>3 DEF PrevOk
  <2> QED BY <2>3, <2>4
<1>9. ChainOk(FirstLog) BY <1>6, <1>7, <1>8 DEF ChainOk
<1>10. FirstLog \in Seq(Entry) BY <1>6 DEF Entry
<1>11. HeadOf(FirstLog) \in Hash BY <1>7, <1>10, HeadType
<1>12. UpTo(HeadOf(FirstLog), 1)
  <2>1. CASE N = 0
    <3>1. FirstLog = <<>> BY <2>1, <1>6
    <3> QED BY <3>1 DEF HeadOf, UpTo
  <2>2. CASE N # 0
    <3>1. N \in 1..N /\ FirstLog # <<>> BY <2>2, <1>1, <1>6
    <3>2. HeadOf(FirstLog) = SelfHash(FirstLog[N]) BY <3>1, <1>6 DEF HeadOf
    <3>3. FirstLog[N] \in Record /\ FirstLog[N].gen = 1 /\ FirstLog[N].prev = p(N)
      BY <3>1, <1>5, <1>5a
    <3>4. UpTo(p(N), 1) BY DEF UpTo, p
    <3> QED BY <3>2, <3>3, <3>4, HashUpTo
  <2> QED BY <2>1, <2>2
<1> QED BY <1>1, <1>6, <1>9, <1>10, <1>11, <1>12
-----------------------------------------------------------------------------
(* The types, and who runs when. *)

\* What gfs_journal_init works on when it verifies: L whole when all is well.
LEMMA ReadOf ==
  ASSUME Types, NEW L \in {log, <<>>}, NEW s \in {seal, NoSeal}, gfsj_verify(L, s) = "OK"
  PROVE  /\ L \in Seq(Entry) /\ L \in Seq(Record) /\ ChainOk(L) /\ HeadOf(L) \in Hash
         /\ Len(L) \in Nat /\ s \in Seal \cup {NoSeal}
         /\ s = NoSeal => L = <<>>
         /\ s # NoSeal => s = seal /\ s \in Seal /\ s.count = Len(L) /\ s.head = HeadOf(L)
<1>1. L \in Seq(Entry) /\ s \in Seal \cup {NoSeal, BadSeal}
  <2>1. <<>> \in Seq(Entry) OBVIOUS
  <2> QED BY <2>1 DEF Types
<1>2. ChainOk(L) /\ s # BadSeal BY <1>1, VerifyOk
<1>3. Whole(L) BY <1>2 DEF ChainOk
<1>4. L \in Seq(Record) /\ HeadOf(L) \in Hash BY <1>1, <1>3, WholeIsRecords, HeadType
<1> QED BY <1>1, <1>2, <1>4, VerifyOk

\* The generation of a boot.
LEMMA NextGenType ==
  ASSUME Types, NEW s \in {seal, NoSeal}
  PROVE  /\ NextGen(s) \in Nat
         /\ s \in Seal => s.gen \in Nat /\ NextGen(s) = s.gen + 1
<1>1. CASE s \in {NoSeal, BadSeal}
  BY <1>1, FilesAssumption DEF NextGen, gfsj_seal_bootgen
<1>2. CASE s \in Seal
  <2>1. s.gen \in Nat BY <1>2 DEF Seal
  <2> QED BY <2>1, <1>2, FilesAssumption DEF NextGen, gfsj_seal_bootgen
<1> QED BY <1>1, <1>2 DEF Types

\* The record that an append encodes.
LEMMA EncodeType ==
  ASSUME Types, NEW w \in Writer, todo[w] # <<>>
  PROVE  /\ Head(todo[w]) \in Ops /\ Head(todo[w]) = todo[w][1] /\ 1 \in DOMAIN todo[w]
         /\ Encode(g_count, g_boot_gen, Head(todo[w]), g_head) \in Record
<1>1. todo[w] \in Seq(Ops) BY DEF Types
<1>2. Head(todo[w]) \in Ops /\ Head(todo[w]) = todo[w][1] /\ 1 \in DOMAIN todo[w] BY <1>1
<1> QED BY <1>2 DEF Types, Encode, Record

\* The seal that an append writes.
LEMMA SealType ==
  ASSUME Types PROVE gfsj_seal_encode \in Seal
BY DEF Types, gfsj_seal_encode, Seal

\* What is left of two operations or more.
LEMMA TailNotEmpty ==
  ASSUME NEW q \in Seq(Ops), Len(q) > 1 PROVE Tail(q) # <<>>
<1>1. Tail(q) \in Seq(Ops) /\ Len(Tail(q)) = Len(q) - 1 /\ Len(q) \in Nat OBVIOUS
<1>2. Len(Tail(q)) # Len(<<>>)
  <2>1. Len(<<>>) = 0 OBVIOUS
  <2> QED BY <2>1, <1>1
<1> QED BY <1>2

\* Returning from an append leaves the rest of the operations.
LEMMA ReturnTypes ==
  ASSUME Types, NEW w \in Writer, NEW a, Return(w, a), todo[w] # <<>>
  PROVE  /\ pc' \in [Writer -> Points] /\ todo' \in [Writer -> Seq(Ops)] /\ rec' \in [Writer -> Entry]
         /\ pc'[w] \in {"enter", "idle"} /\ (pc'[w] = "enter" => todo'[w] # <<>>)
         /\ \A i \in DOMAIN todo'[w] : \E j \in DOMAIN todo[w] : todo'[w][i] = todo[w][j]
         /\ \A v \in Writer \ {w} : pc'[v] = pc[v] /\ todo'[v] = todo[v] /\ rec'[v] = rec[v]
<1>1. todo[w] \in Seq(Ops) /\ todo \in [Writer -> Seq(Ops)] /\ rec \in [Writer -> Entry]
      /\ pc \in [Writer -> Points]
  BY DEF Types
<1>2. Tail(todo[w]) \in Seq(Ops) /\ Len(Tail(todo[w])) = Len(todo[w]) - 1 /\ Len(todo[w]) \in Nat
      /\ \A i \in DOMAIN Tail(todo[w]) : i + 1 \in DOMAIN todo[w] /\ Tail(todo[w])[i] = todo[w][i + 1]
  BY <1>1
<1>3. todo' = [todo EXCEPT ![w] = Tail(todo[w])] /\ rec' = [rec EXCEPT ![w] = Torn]
      /\ pc' = [pc EXCEPT ![w] = IF Len(todo[w]) > 1 THEN "enter" ELSE "idle"]
  BY DEF Return, Goto
<1>4. Len(todo[w]) > 1 => Tail(todo[w]) # <<>> BY <1>1, TailNotEmpty
<1> QED BY <1>1, <1>2, <1>3, <1>4 DEF Points, Active, Entry

\* Every step keeps the types.
LEMMA TypesStep ==
  ASSUME Types, Phases, [Next]_vars PROVE Types'
<1>1. CASE UNCHANGED vars BY <1>1 DEF Types, vars, disk, kernel, local, hist
<1>2. CASE VerifyStep
  <2>1. PICK L \in {log, <<>>}, s \in {seal, NoSeal} : BootVerify(L, s) BY <1>2 DEF VerifyStep
  <2>2. NextGen(s) \in Nat BY NextGenType
  <2>3. Len(log) \in Nat BY DEF Types
  <2>4. CASE verdict' = "OK"
    <3>1. gfsj_verify(L, s) = "OK" BY <2>1, <2>4 DEF BootVerify
    <3>2. L \in Seq(Record) /\ HeadOf(L) \in Hash /\ Len(L) \in Nat BY <3>1, ReadOf
    <3>3. graph' \in Graph BY <2>1, <2>4, <3>2, ReplayNames DEF BootVerify
    <3>4. <<Note("BOOT")>> \in Seq(Ops) BY Notes
    <3> QED BY <2>1, <2>2, <2>3, <2>4, <3>2, <3>3, <3>4
         DEF BootVerify, Types, Goto, Points, Active, disk
  <2>5. CASE verdict' # "OK"
    BY <2>1, <2>2, <2>3, <2>5 DEF BootVerify, Types, Goto, Points, Moving, disk
  <2> QED BY <2>4, <2>5
<1>3. CASE AsideStep
  <2>1. log' \in Seq(Entry) /\ badlog' \in Seq(Entry) /\ seal' \in Seal \cup {NoSeal, BadSeal}
    <3>1. <<>> \in Seq(Entry) OBVIOUS
    <3> QED BY <1>3, <3>1 DEF AsideStep, Types
  <2> QED BY <1>3, <2>1 DEF AsideStep, Aside, Types, Goto, Points, kernel
<1>4. CASE BootRestart
  <2>1. <<Note("CHECKPOINT"), Note("BOOT")>> \in Seq(Ops) BY Notes
  <2>2. <<>> \in Hash /\ graph' \in Graph BY <1>4, ResetType DEF BootRestart, Hash
  <2> QED BY <1>4, <2>1, <2>2 DEF BootRestart, Types, Goto, Points, Active
<1>5. CASE Crash
  <2>1. <<>> \in Hash /\ gfsf_reset \in Graph BY ResetType DEF Hash
  <2>2. /\ log' \in Seq(Entry) /\ badlog' \in Seq(Entry) /\ seal' \in Seal \cup {NoSeal, BadSeal}
        /\ born' \in Nat
    BY <1>5 DEF Crash, Types
  <2>3. /\ pc' \in [Writer -> Points] /\ todo' \in [Writer -> Seq(Ops)] /\ rec' \in [Writer -> Entry]
    <3>1. <<>> \in Seq(Ops) /\ Torn \in Entry BY DEF Entry
    <3> QED BY <1>5, <3>1 DEF Crash, Volatile, Points
  <2> QED BY <1>5, <2>1, <2>2, <2>3 DEF Crash, Volatile, Types
<1>6. ASSUME NEW w \in Writer, WriterStep(w) PROVE Types'
  <2>1. CASE Mutate(w)
    <3>1. PICK o \in Requests : todo' = [todo EXCEPT ![w] = <<o>>] BY <2>1 DEF Mutate
    <3>2. <<o>> \in Seq(Ops) BY <3>1, RequestOps
    <3> QED BY <2>1, <3>1, <3>2 DEF Mutate, Types, Goto, Points, Active, disk, kernel
  <2>2. CASE AppendRefuse(w)
    <3>1. todo[w] # <<>> BY <2>2 DEF AppendRefuse, Return, Goto, Phases, Active
    <3> QED BY <2>2, <3>1, ReturnTypes DEF AppendRefuse, Types, disk, kernel, hist
  <2>3. CASE AppendTest(w)
    BY <2>3 DEF AppendTest, Types, Goto, Points, Active, disk, kernel, hist
  <2>4. CASE AppendEncode(w)
    <3>1. todo[w] # <<>> BY <2>4 DEF AppendEncode, Goto, Phases, Active
    <3>2. rec' \in [Writer -> Entry] BY <2>4, <3>1, EncodeType DEF AppendEncode, Types, Entry
    <3> QED BY <2>4, <3>2 DEF AppendEncode, Types, Goto, Points, Active, Appending, disk
  <2>5. CASE AppendWrite(w)
    <3>1. rec[w] \in Entry BY DEF Types
    <3>2. log' \in Seq(Entry) BY <2>5, <3>1 DEF AppendWrite, Types
    <3> QED BY <2>5, <3>2 DEF AppendWrite, Types, Goto, Points, Active, Appending, kernel, hist
  <2>6. CASE AppendFail(w)
    <3>1. todo[w] # <<>> BY <2>6 DEF AppendFail, Return, Goto, Phases, Active, Appending
    <3>2. log' \in Seq(Entry)
      <4>1. log \in Seq(Entry) /\ Torn \in Entry BY DEF Types, Entry
      <4>2. Append(log, Torn) \in Seq(Entry) BY <4>1
      <4> QED BY <2>6, <4>1, <4>2 DEF AppendFail
    <3> QED BY <2>6, <3>1, <3>2, ReturnTypes DEF AppendFail, Types
  <2>7. CASE AppendFold(w)
    <3>1. rec[w] \in Record BY <2>7 DEF AppendFold, Goto, Phases, Appending
    <3>2. SelfHash(rec[w]) \in Hash BY <3>1, HashType
    <3>3. gfs_fold_on_record(rec[w]) \in Graph BY <3>1, ApplyType DEF Types, gfs_fold_on_record
    <3> QED BY <2>7, <3>2, <3>3 DEF AppendFold, Types, Goto, Points, Active, Appending, disk, hist
  <2>8. CASE AckStep(w)
    <3>1. todo[w] # <<>> BY <2>8 DEF AckStep, Acknowledge, Return, Goto, Phases, Active, Appending
    <3>2. seal' \in Seal \cup {NoSeal, BadSeal} BY <2>8, SealType DEF AckStep, Types
    <3> QED BY <2>8, <3>1, <3>2, ReturnTypes DEF AckStep, Acknowledge, Types
  <2> QED BY <1>6, <2>1, <2>2, <2>3, <2>4, <2>5, <2>6, <2>7, <2>8 DEF WriterStep
<1> QED BY <1>1, <1>2, <1>3, <1>4, <1>5, <1>6, StepKinds

\* A thread that appends has found the journal ready.
LEMMA WriterReady ==
  ASSUME Types, Phases, NEW w \in Writer, WriterStep(w)
  PROVE  g_ready /\ (\A v \in Writer : pc[v] \in Active \cup {"idle"}) /\ pc[w] \in Active \cup {"idle"}
<1>1. CASE g_ready BY <1>1 DEF Phases
<1>2. CASE ~g_ready
  <2>1. pc[w] \in Active
    BY <1>2 DEF WriterStep, Mutate, AppendRefuse, AppendTest, AppendEncode, AppendWrite, AppendFail,
                AppendFold, AckStep, Acknowledge, Return, Goto, Active, Appending
  <2>2. pc[w] \in {"boot", "idle"} \cup Moving BY <1>2 DEF Phases
  <2> QED BY <2>1, <2>2 DEF Active, Appending, Moving
<1> QED BY <1>1, <1>2

\* Every step keeps to the phases.
LEMMA PhasesStep ==
  ASSUME Types, Phases, [Next]_vars PROVE Phases'
<1>1. CASE UNCHANGED vars BY <1>1 DEF Phases, vars, disk, kernel, local, hist
<1>2. CASE VerifyStep
  <2>1. PICK L \in {log, <<>>}, s \in {seal, NoSeal} : BootVerify(L, s) BY <1>2 DEF VerifyStep
  <2>2. ~g_ready BY <2>1, JournalAssumption DEF BootVerify, Goto, Phases, Active, Appending
  <2>3. \A v \in Writer \ {Kernel} : pc[v] = "idle" BY <2>2 DEF Phases
  <2>4. CASE verdict' = "OK"
    <3>1. pc' = [pc EXCEPT ![Kernel] = "enter"] /\ todo' = [todo EXCEPT ![Kernel] = <<Note("BOOT")>>]
          /\ g_ready'
      BY <2>1, <2>4 DEF BootVerify, Goto
    <3>2. pc'[Kernel] = "enter" /\ todo'[Kernel] = <<Note("BOOT")>>
          /\ \A v \in Writer \ {Kernel} : pc'[v] = "idle"
      BY <3>1, <2>3, JournalAssumption DEF Types
    <3>3. <<Note("BOOT")>> # <<>> OBVIOUS
    <3> QED BY <3>1, <3>2, <3>3 DEF Phases, Active, Appending, Moving
  <2>5. CASE verdict' # "OK"
    <3>1. pc' = [pc EXCEPT ![Kernel] = "del_bad"] /\ ~g_ready'
          /\ UNCHANGED <<todo, graph, revoked>>
      BY <2>1, <2>2, <2>5 DEF BootVerify, Goto
    <3>2. pc'[Kernel] = "del_bad" /\ \A v \in Writer \ {Kernel} : pc'[v] = "idle"
      BY <3>1, <2>3, JournalAssumption DEF Types
    <3> QED BY <3>1, <3>2, <2>2 DEF Phases, Active, Appending, Moving
  <2> QED BY <2>4, <2>5
<1>3. CASE AsideStep
  <2>1. PICK a \in Moving \ {"del_seal"}, b \in Moving \ {"del_bad"} :
          Aside(a, b) /\ (b = "del_seal" => log' = <<>>)
    BY <1>3 DEF AsideStep
  <2>2. pc[Kernel] = a /\ pc' = [pc EXCEPT ![Kernel] = b] /\ UNCHANGED <<kernel, todo, revoked>>
    BY <2>1 DEF Aside, Goto
  <2>3. ~g_ready BY <2>2, JournalAssumption DEF Phases, Moving, Active, Appending
  <2>4. pc'[Kernel] = b /\ \A v \in Writer \ {Kernel} : pc'[v] = "idle"
    BY <2>2, <2>3, JournalAssumption DEF Types, Phases
  <2> QED BY <2>1, <2>2, <2>3, <2>4 DEF Phases, Active, Appending, Moving, kernel
<1>4. CASE BootRestart
  <2>1. pc[Kernel] = "del_seal" /\ pc' = [pc EXCEPT ![Kernel] = "enter"] /\ g_ready'
        /\ todo' = [todo EXCEPT ![Kernel] = <<Note("CHECKPOINT"), Note("BOOT")>>]
    BY <1>4 DEF BootRestart, Goto
  <2>2. ~g_ready BY <2>1, JournalAssumption DEF Phases, Active, Appending
  <2>3. pc'[Kernel] = "enter" /\ todo'[Kernel] = <<Note("CHECKPOINT"), Note("BOOT")>>
        /\ \A v \in Writer \ {Kernel} : pc'[v] = "idle"
    BY <2>1, <2>2, JournalAssumption DEF Types, Phases
  <2>4. <<Note("CHECKPOINT"), Note("BOOT")>> # <<>> OBVIOUS
  <2> QED BY <2>1, <2>3, <2>4 DEF Phases, Active, Appending, Moving
<1>5. CASE Crash
  <2>1. /\ ~g_ready' /\ graph' = gfsf_reset /\ revoked' = {} /\ todo' = [v \in Writer |-> <<>>]
        /\ pc'[Kernel] = "boot" /\ \A v \in Writer \ {Kernel} : pc'[v] = "idle"
    BY <1>5, JournalAssumption DEF Crash, Volatile
  <2> QED BY <2>1 DEF Phases, Active, Appending, Moving
<1>6. ASSUME NEW w \in Writer, WriterStep(w) PROVE Phases'
  <2>0. g_ready /\ \A v \in Writer : pc[v] \in Active \cup {"idle"} BY <1>6, WriterReady
  <2>1. \A v \in Writer \ {w} : pc'[v] = pc[v] /\ todo'[v] = todo[v] /\ rec'[v] = rec[v]
    BY <1>6 DEF WriterStep, Mutate, AppendRefuse, AppendTest, AppendEncode, AppendWrite, AppendFail,
                AppendFold, AckStep, Acknowledge, Return, Goto, Types
  <2>2. g_ready' = g_ready /\ g_boot_gen' = g_boot_gen
    BY <1>6 DEF WriterStep, Mutate, AppendRefuse, AppendTest, AppendEncode, AppendWrite, AppendFail,
                AppendFold, AckStep, Acknowledge, kernel
  <2>3. /\ pc'[w] \in Active \cup {"idle"}
        /\ pc'[w] \in Active => todo'[w] # <<>>
        /\ pc'[w] \in Appending => rec'[w] \in Record /\ rec'[w].gen = g_boot_gen
    <3>1. CASE Mutate(w)
      <4>1. PICK o : todo' = [todo EXCEPT ![w] = <<o>>] BY <3>1 DEF Mutate
      <4>2. todo'[w] # <<>> BY <4>1 DEF Types
      <4> QED BY <3>1, <4>2 DEF Mutate, Goto, Types, Active, Appending
    <3>2. CASE AppendRefuse(w) \/ AppendFail(w) \/ AckStep(w)
      <4>1. PICK a \in {"enter", "write", "seal"} : Return(w, a)
        BY <3>2 DEF AppendRefuse, AppendFail, AckStep, Acknowledge
      <4>2. todo[w] # <<>> BY <4>1 DEF Return, Goto, Phases, Active, Appending
      <4>3. pc'[w] \in {"enter", "idle"} /\ (pc'[w] = "enter" => todo'[w] # <<>>)
        BY <4>1, <4>2, ReturnTypes
      <4> QED BY <4>3 DEF Active, Appending
    <3>3. CASE AppendTest(w)
      BY <3>3 DEF AppendTest, Goto, Types, Phases, Active, Appending
    <3>4. CASE AppendEncode(w)
      <4>1. todo[w] # <<>> BY <3>4 DEF AppendEncode, Goto, Phases, Active
      <4>2. rec'[w] = Encode(g_count, g_boot_gen, Head(todo[w]), g_head) BY <3>4 DEF AppendEncode, Types
      <4>3. rec'[w] \in Record /\ rec'[w].gen = g_boot_gen
        BY <4>1, <4>2, EncodeType DEF Encode
      <4> QED BY <3>4, <4>1, <4>3 DEF AppendEncode, Goto, Types, Active, Appending
    <3>5. CASE AppendWrite(w)
      BY <3>5 DEF AppendWrite, Goto, Types, Phases, Active, Appending
    <3>6. CASE AppendFold(w)
      BY <3>6 DEF AppendFold, Goto, Types, Phases, Active, Appending
    <3> QED BY <1>6, <3>1, <3>2, <3>3, <3>4, <3>5, <3>6 DEF WriterStep
  <2>4. pc'[Kernel] # "del_seal"
    BY <2>0, <2>1, <2>3, JournalAssumption DEF Active, Appending
  <2>5. g_ready' => \A v \in Writer : pc'[v] \in Active \cup {"idle"} BY <2>0, <2>1, <2>3
  <2>6. \A v \in Writer : pc'[v] \in Active => todo'[v] # <<>> BY <2>1, <2>3 DEF Phases
  <2>7. \A v \in Writer : pc'[v] \in Appending => rec'[v] \in Record /\ rec'[v].gen = g_boot_gen'
    BY <2>1, <2>2, <2>3 DEF Phases
  <2> QED BY <2>0, <2>2, <2>4, <2>5, <2>6, <2>7 DEF Phases
<1> QED BY <1>1, <1>2, <1>3, <1>4, <1>5, <1>6, StepKinds
-----------------------------------------------------------------------------
(* What acknowledged records and generations rely on. *)

\* What an append leaves alone, and that the log only grows.
LEMMA WriterFrame ==
  ASSUME Types, Phases, NEW w \in Writer, WriterStep(w)
  PROVE  /\ g_ready /\ g_ready' = g_ready /\ g_boot_gen' = g_boot_gen /\ born' = born /\ verdict' = verdict
         /\ g_count' = g_count \/ g_count' = g_count + 1
         /\ odd' = odd \/ odd' = odd \cup {"race"}
         /\ \A v \in Writer \ {w} : pc'[v] = pc[v] /\ todo'[v] = todo[v] /\ rec'[v] = rec[v]
         /\ log' = log \/ \E e \in Entry : log' = Append(log, e)
         /\ pc'[Kernel] \notin Moving /\ pc[Kernel] \notin Moving
<1>1. g_ready /\ \A v \in Writer : pc[v] \in Active \cup {"idle"} BY WriterReady
<1>2. /\ g_ready' = g_ready /\ g_boot_gen' = g_boot_gen /\ born' = born /\ verdict' = verdict
      /\ g_count' = g_count \/ g_count' = g_count + 1
      /\ odd' = odd \/ odd' = odd \cup {"race"}
  BY DEF WriterStep, Mutate, AppendRefuse, AppendTest, AppendEncode, AppendWrite, AppendFail,
         AppendFold, AckStep, Acknowledge, kernel, hist
<1>3. \A v \in Writer \ {w} : pc'[v] = pc[v] /\ todo'[v] = todo[v] /\ rec'[v] = rec[v]
  BY DEF WriterStep, Mutate, AppendRefuse, AppendTest, AppendEncode, AppendWrite, AppendFail,
         AppendFold, AckStep, Acknowledge, Return, Goto, Types
<1>4. log' = log \/ \E e \in Entry : log' = Append(log, e)
  <2>1. rec[w] \in Entry /\ Torn \in Entry BY DEF Types, Entry
  <2> QED BY <2>1 DEF WriterStep, Mutate, AppendRefuse, AppendTest, AppendEncode, AppendWrite, AppendFail,
         AppendFold, AckStep, Acknowledge, disk
<1>5. pc'[w] \in Active \cup {"idle"}
  BY <1>1 DEF WriterStep, Mutate, AppendRefuse, AppendTest, AppendEncode, AppendWrite, AppendFail,
         AppendFold, AckStep, Acknowledge, Return, Goto, Types, Active, Appending
<1>6. pc'[Kernel] \notin Moving /\ pc[Kernel] \notin Moving
  BY <1>1, <1>3, <1>5, JournalAssumption DEF Active, Appending, Moving
<1> QED BY <1>1, <1>2, <1>3, <1>4, <1>6

\* The records of a log stay where they are when it grows.
LEMMA LogGrows ==
  ASSUME Types, log' = log \/ \E e \in Entry : log' = Append(log, e)
  PROVE  /\ Len(log) \in Nat /\ Len(log') \in Nat /\ Len(log) <= Len(log')
         /\ DOMAIN log = 1..Len(log) /\ DOMAIN log' = 1..Len(log')
         /\ \A k \in 1..Len(log) : log'[k] = log[k]
         /\ Records \subseteq Records'
<1>1. log \in Seq(Entry) BY DEF Types
<1>2. CASE log' = log BY <1>1, <1>2 DEF Records
<1>3. CASE \E e \in Entry : log' = Append(log, e)
  <2>1. PICK e \in Entry : log' = Append(log, e) BY <1>3
  <2>2. /\ Len(log) \in Nat /\ Len(log') = Len(log) + 1
        /\ DOMAIN log = 1..Len(log) /\ DOMAIN log' = 1..(Len(log) + 1)
        /\ \A k \in 1..Len(log) : log'[k] = log[k]
    BY <1>1, <2>1, Appended
  <2> QED BY <2>2 DEF Records
<1> QED BY <1>2, <1>3

\* The steps of the boot, and the crash, leave nobody inside an append.
LEMMA Quiet ==
  ASSUME Types, Phases, VerifyStep \/ AsideStep \/ BootRestart \/ Crash
  PROVE  \A w \in Writer : pc'[w] \notin Appending
<1>1. CASE VerifyStep
  <2>1. PICK b \in {"enter", "del_bad"} : pc[Kernel] = "boot" /\ pc' = [pc EXCEPT ![Kernel] = b]
    BY <1>1 DEF VerifyStep, BootVerify, Goto
  <2>2. \A v \in Writer \ {Kernel} : pc[v] = "idle"
    BY <2>1, JournalAssumption DEF Phases, Active, Appending
  <2> QED BY <2>1, <2>2 DEF Types, Appending
<1>2. CASE AsideStep
  <2>1. PICK a \in Moving, b \in Moving : pc[Kernel] = a /\ pc' = [pc EXCEPT ![Kernel] = b]
    BY <1>2 DEF AsideStep, Aside, Goto
  <2>2. \A v \in Writer \ {Kernel} : pc[v] = "idle"
    BY <2>1, JournalAssumption DEF Phases, Active, Appending, Moving
  <2> QED BY <2>1, <2>2 DEF Types, Appending, Moving
<1>3. CASE BootRestart
  <2>1. pc[Kernel] = "del_seal" /\ pc' = [pc EXCEPT ![Kernel] = "enter"]
    BY <1>3 DEF BootRestart, Goto
  <2>2. \A v \in Writer \ {Kernel} : pc[v] = "idle"
    BY <2>1, JournalAssumption DEF Phases, Active, Appending, Moving
  <2> QED BY <2>1, <2>2 DEF Types, Appending
<1>4. CASE Crash
  BY <1>4 DEF Crash, Volatile, Appending
<1> QED BY <1>1, <1>2, <1>3, <1>4

\* Acknowledged records stay in the log until a boot finds it bad.
LEMMA KeptStep ==
  ASSUME Types, Phases, Kept, [Next]_vars PROVE Kept'
<1>1. CASE UNCHANGED vars BY <1>1 DEF Kept, Records, vars, disk, kernel, local, hist
<1>2. CASE VerifyStep \/ AsideStep \/ BootRestart \/ Crash
  <2>1. \A w \in Writer : pc'[w] \notin {"fold", "seal"} BY <1>2, Quiet DEF Appending
  <2>2. acked' \subseteq Records' /\ (pc'[Kernel] \in Moving => acked' = {})
    <3>1. CASE VerifyStep
      <4>1. pc'[Kernel] = "del_bad" => acked' = {}
        BY <3>1, JournalAssumption DEF VerifyStep, BootVerify, Goto, Types
      <4>2. pc'[Kernel] \in {"enter", "del_bad"}
        BY <3>1, JournalAssumption DEF VerifyStep, BootVerify, Goto, Types
      <4>3. acked' \in {acked, {}} /\ log' = log BY <3>1 DEF VerifyStep, BootVerify, disk
      <4> QED BY <4>1, <4>2, <4>3 DEF Kept, Records, Moving
    <3>2. CASE AsideStep
      BY <3>2 DEF AsideStep, Aside, Goto, Kept
    <3>3. CASE BootRestart
      BY <3>3 DEF BootRestart, Goto, Kept, Moving
    <3>4. CASE Crash
      <4>1. acked' = acked /\ log' = log /\ pc'[Kernel] = "boot"
        BY <3>4, JournalAssumption DEF Crash, Volatile
      <4> QED BY <4>1 DEF Kept, Records, Moving
    <3> QED BY <1>2, <3>1, <3>2, <3>3, <3>4
  <2> QED BY <2>1, <2>2 DEF Kept
<1>3. ASSUME NEW w \in Writer, WriterStep(w) PROVE Kept'
  <2>1. Records \subseteq Records' /\ \A v \in Writer \ {w} : pc'[v] = pc[v] /\ rec'[v] = rec[v]
    BY <1>3, WriterFrame, LogGrows
  <2>2. acked' = acked \/ (pc[w] = "seal" /\ acked' = acked \cup {rec[w]})
    <3>1. CASE AckStep(w) BY <3>1 DEF AckStep, Acknowledge, Return, Goto
    <3>2. CASE ~AckStep(w)
      <4>1. acked' = acked
        BY <1>3, <3>2 DEF WriterStep, Mutate, AppendRefuse, AppendTest, AppendEncode, AppendWrite,
                          AppendFail, AppendFold, hist
      <4> QED BY <4>1
    <3> QED BY <3>1, <3>2
  <2>3. acked' \subseteq Records' BY <2>1, <2>2 DEF Kept
  <2>4. pc'[w] \in {"fold", "seal"} => rec'[w] \in Records'
    <3>1. CASE AppendWrite(w)
      <4>1. log' = Append(log, rec[w]) /\ rec' = rec BY <3>1 DEF AppendWrite
      <4>2. log \in Seq(Entry) /\ rec[w] \in Entry BY DEF Types
      <4>3. Len(log) + 1 \in DOMAIN log' /\ log'[Len(log) + 1] = rec[w] BY <4>1, <4>2, Appended
      <4> QED BY <4>1, <4>3 DEF Records
    <3>2. CASE AppendFold(w)
      BY <3>2, <2>1 DEF AppendFold, Goto, Kept
    <3>3. CASE ~AppendWrite(w) /\ ~AppendFold(w)
      <4>1. pc'[w] \in {"enter", "encode", "write", "idle"}
        BY <1>3, <3>3 DEF WriterStep, Mutate, AppendRefuse, AppendTest, AppendEncode, AppendFail,
                          AckStep, Acknowledge, Return, Goto, Types
      <4> QED BY <4>1
    <3> QED BY <3>1, <3>2, <3>3
  <2>5. pc'[Kernel] \notin Moving BY <1>3, WriterFrame
  <2> QED BY <2>1, <2>3, <2>4, <2>5 DEF Kept
<1> QED BY <1>1, <1>2, <1>3, StepKinds

\* Hashes of type Hash have generations to compare.
LEMMA UpToLater ==
  ASSUME NEW h \in Hash, NEW m \in Nat, NEW n \in Nat, m <= n, UpTo(h, m) PROVE UpTo(h, n)
<1>1. \A i \in DOMAIN h : h[i] \in Content BY DEF Hash
<1>2. \A i \in DOMAIN h : h[i].gen \in Nat BY <1>1 DEF Content
<1> QED BY <1>2 DEF UpTo

\* No hash covers a later generation, and no earlier record has this one's.
LEMMA GenerationsStep ==
  ASSUME Types, Phases, Generations, [Next]_vars PROVE Generations'
<1>1. CASE UNCHANGED vars
  BY <1>1 DEF Generations, Reading, vars, disk, kernel, local, hist
<1>2. CASE VerifyStep
  <2>1. PICK L \in {log, <<>>}, s \in {seal, NoSeal} :
          BootVerify(L, s) /\ ((L = log /\ s = seal /\ odd' = odd) \/ odd' = odd \cup {"misread"})
    BY <1>2 DEF VerifyStep
  <2>2. log' = log /\ seal' = seal /\ born' = Len(log) /\ g_boot_gen' = NextGen(s)
    BY <2>1 DEF BootVerify, disk
  <2>3. \A w \in Writer : pc'[w] \notin Appending BY <1>2, Quiet
  <2>4. CASE verdict' = "OK"
    <3>1. gfsj_verify(L, s) = "OK" /\ g_head' = HeadOf(L) BY <2>1, <2>4 DEF BootVerify
    <3>2. HeadOf(L) \in Hash /\ Len(L) \in Nat /\ ChainOk(L) /\ L \in Seq(Entry)
          /\ (s = NoSeal => L = <<>>)
          /\ (s # NoSeal => s = seal /\ s \in Seal /\ s.head = HeadOf(L))
      BY <3>1, ReadOf
    <3>3. s # NoSeal => s.gen \in Nat /\ UpTo(HeadOf(L), s.gen) /\ NextGen(s) = s.gen + 1
      BY <3>2, NextGenType DEF Generations
    <3>4. UpTo(g_head', g_boot_gen')
      <4>1. CASE s = NoSeal
        <5>1. HeadOf(L) = <<>> BY <4>1, <3>2 DEF HeadOf
        <5> QED BY <5>1, <3>1 DEF UpTo
      <4>2. CASE s # NoSeal
        <5>1. s.gen \in Nat /\ s.gen + 1 \in Nat /\ s.gen <= s.gen + 1 BY <4>2, <3>3
        <5> QED BY <5>1, <4>2, <3>1, <3>2, <3>3, <2>2, UpToLater
      <4> QED BY <4>1, <4>2
    <3>5. ASSUME "misread" \notin odd'
          PROVE  born' <= Len(log) /\ \A k \in 1..born' : log[k] \in Record /\ log[k].gen < g_boot_gen'
      <4>1. L = log BY <3>5, <2>1
      <4>2. \A k \in DOMAIN log : log[k] \in Record BY <4>1, <3>2 DEF ChainOk, Whole, Entry
      <4>3. Len(log) \in Nat /\ DOMAIN log = 1..Len(log) BY DEF Types
      <4>4. CASE s = NoSeal
        <5>1. Len(log) = 0 BY <4>1, <4>4, <3>2
        <5> QED BY <5>1, <2>2
      <4>5. CASE s # NoSeal
        <5>1. \A k \in DOMAIN log : log[k].gen <= s.gen
          BY <4>1, <4>5, <3>2, <3>3, HeadCovers
        <5>2. \A k \in DOMAIN log : log[k].gen \in Nat BY <4>2 DEF Record
        <5> QED BY <5>1, <5>2, <4>2, <4>3, <4>5, <3>3, <2>2
      <4> QED BY <4>4, <4>5
    <3> QED BY <3>4, <3>5, <2>2, <2>3 DEF Generations, Reading
  <2>5. CASE verdict' # "OK"
    <3>1. ~g_ready'
      <4>1. ~g_ready BY <2>1, JournalAssumption DEF BootVerify, Goto, Phases, Active, Appending
      <4> QED BY <4>1, <2>1, <2>5 DEF BootVerify
    <3> QED BY <3>1, <2>2, <2>3 DEF Generations, Reading
  <2> QED BY <2>4, <2>5
<1>3. CASE AsideStep \/ Crash
  <2>1. \A w \in Writer : pc'[w] \notin Appending BY <1>3, Quiet
  <2>2. ~g_ready'
    <3>1. CASE AsideStep
      BY <3>1, JournalAssumption DEF AsideStep, Aside, Goto, Phases, Active, Appending, Moving, kernel
    <3>2. CASE Crash BY <3>2 DEF Crash, Volatile
    <3> QED BY <1>3, <3>1, <3>2
  <2>3. seal' \in {seal, NoSeal, BadSeal} BY <1>3 DEF AsideStep, Crash
  <2> QED BY <2>1, <2>2, <2>3, FilesAssumption DEF Generations, Reading
<1>4. CASE BootRestart
  <2>1. \A w \in Writer : pc'[w] \notin Appending BY <1>4, Quiet
  <2>2. g_head' = <<>> /\ born' = 0 /\ seal' = NoSeal /\ log' = log BY <1>4 DEF BootRestart
  <2>3. UpTo(<<>>, g_boot_gen') BY DEF UpTo
  <2>4. Len(log) \in Nat BY DEF Types
  <2> QED BY <2>1, <2>2, <2>3, <2>4, FilesAssumption DEF Generations, Reading
<1>5. ASSUME NEW w \in Writer, WriterStep(w) PROVE Generations'
  <2>1. /\ g_ready /\ g_boot_gen' = g_boot_gen /\ born' = born
        /\ odd \subseteq odd'
        /\ \A v \in Writer \ {w} : pc'[v] = pc[v] /\ rec'[v] = rec[v]
    BY <1>5, WriterFrame
  <2>2. Len(log) \in Nat /\ Len(log') \in Nat /\ Len(log) <= Len(log')
        /\ \A k \in 1..Len(log) : log'[k] = log[k]
    BY <1>5, WriterFrame, LogGrows
  <2>3. born \in Nat /\ g_boot_gen \in Nat BY DEF Types
  <2>4. Reading' => born' <= Len(log') /\ \A k \in 1..born' : log'[k] \in Record /\ log'[k].gen < g_boot_gen'
    <3> SUFFICES ASSUME Reading'
                 PROVE  born <= Len(log') /\ \A k \in 1..born : log'[k] \in Record /\ log'[k].gen < g_boot_gen
      BY <2>1
    <3>1. Reading BY <2>1 DEF Reading
    <3>2. born <= Len(log) /\ \A k \in 1..born : log[k] \in Record /\ log[k].gen < g_boot_gen
      BY <2>1, <3>1 DEF Generations
    <3> QED BY <3>2, <2>2, <2>3
  <2>5. seal' \in Seal => UpTo(seal'.head, seal'.gen)
    <3>1. seal' \in {seal, gfsj_seal_encode, NoSeal}
      BY <1>5 DEF WriterStep, Mutate, AppendRefuse, AppendTest, AppendEncode, AppendWrite, AppendFail,
                  AppendFold, AckStep, disk
    <3>2. UpTo(gfsj_seal_encode.head, gfsj_seal_encode.gen)
      BY <2>1 DEF gfsj_seal_encode, Generations
    <3> QED BY <3>1, <3>2, FilesAssumption DEF Generations
  <2>6. UpTo(g_head', g_boot_gen)
    <3>1. CASE AppendFold(w)
      <4>1. rec[w] \in Record /\ rec[w].gen = g_boot_gen /\ UpTo(rec[w].prev, g_boot_gen)
        BY <3>1 DEF AppendFold, Goto, Phases, Generations, Appending
      <4>2. UpTo(SelfHash(rec[w]), g_boot_gen) BY <4>1, <2>3, HashUpTo
      <4> QED BY <4>2, <3>1 DEF AppendFold
    <3>2. CASE ~AppendFold(w)
      <4>1. g_head' = g_head
        BY <1>5, <3>2 DEF WriterStep, Mutate, AppendRefuse, AppendTest, AppendEncode, AppendWrite,
                          AppendFail, AckStep, Acknowledge, kernel
      <4> QED BY <4>1, <2>1 DEF Generations
    <3> QED BY <3>1, <3>2
  <2>7. pc'[w] \in Appending => UpTo(rec'[w].prev, g_boot_gen)
    <3>1. CASE AppendEncode(w)
      <4>1. rec'[w].prev = g_head BY <3>1 DEF AppendEncode, Types, Encode
      <4> QED BY <4>1, <2>1 DEF Generations
    <3>2. CASE AppendWrite(w) \/ AppendFold(w)
      <4>1. rec' = rec /\ pc[w] \in Appending
        BY <3>2 DEF AppendWrite, AppendFold, Goto, Appending
      <4> QED BY <4>1 DEF Generations
    <3>3. CASE ~AppendEncode(w) /\ ~AppendWrite(w) /\ ~AppendFold(w)
      <4>1. pc'[w] \in {"enter", "encode", "idle"}
        BY <1>5, <3>3 DEF WriterStep, Mutate, AppendRefuse, AppendTest, AppendFail,
                          AckStep, Acknowledge, Return, Goto, Types
      <4> QED BY <4>1 DEF Appending
    <3> QED BY <3>1, <3>2, <3>3
  <2>8. \A v \in Writer : pc'[v] \in Appending => UpTo(rec'[v].prev, g_boot_gen')
    BY <2>1, <2>7 DEF Generations
  <2> QED BY <2>1, <2>4, <2>5, <2>6, <2>8 DEF Generations
<1> QED BY <1>1, <1>2, <1>3, <1>4, <1>5, StepKinds
-----------------------------------------------------------------------------
(* The chain, the count and the graph. *)

\* Nobody is ahead of the count.
LEMMA BehindStep ==
  ASSUME Types, Phases, Behind, [Next]_vars PROVE Behind'
<1>1. CASE UNCHANGED vars BY <1>1 DEF Behind, vars, disk, kernel, local, hist
<1>2. CASE VerifyStep \/ AsideStep \/ BootRestart \/ Crash
  BY <1>2, Quiet DEF Behind
<1>3. ASSUME NEW w \in Writer, WriterStep(w) PROVE Behind'
  <2>1. /\ g_count' = g_count \/ g_count' = g_count + 1
        /\ \A v \in Writer \ {w} : pc'[v] = pc[v] /\ rec'[v] = rec[v]
    BY <1>3, WriterFrame
  <2>2. g_count \in Nat BY DEF Types
  <2>3. pc'[w] \in Appending => rec'[w].seq <= g_count /\ rec'[w].seq \in Nat
    <3>1. CASE AppendEncode(w)
      <4>1. rec'[w].seq = g_count BY <3>1 DEF AppendEncode, Types, Encode
      <4> QED BY <4>1, <2>2
    <3>2. CASE AppendWrite(w) \/ AppendFold(w)
      <4>1. rec' = rec /\ pc[w] \in Appending
        BY <3>2 DEF AppendWrite, AppendFold, Goto, Appending
      <4>2. rec[w] \in Record BY <4>1 DEF Phases
      <4> QED BY <4>1, <4>2 DEF Behind, Record
    <3>3. CASE ~AppendEncode(w) /\ ~AppendWrite(w) /\ ~AppendFold(w)
      <4>1. pc'[w] \in {"enter", "encode", "idle"}
        BY <1>3, <3>3 DEF WriterStep, Mutate, AppendRefuse, AppendTest, AppendFail,
                          AckStep, Acknowledge, Return, Goto, Types
      <4> QED BY <4>1 DEF Appending
    <3> QED BY <3>1, <3>2, <3>3
  <2>4. \A v \in Writer \ {w} : pc'[v] \in Appending => rec'[v].seq <= g_count /\ rec'[v].seq \in Nat
    <3> SUFFICES ASSUME NEW v \in Writer \ {w}, pc'[v] \in Appending
                 PROVE  rec'[v].seq <= g_count /\ rec'[v].seq \in Nat
      OBVIOUS
    <3>1. pc[v] \in Appending /\ rec'[v] = rec[v] BY <2>1
    <3>2. rec[v] \in Record BY <3>1 DEF Phases
    <3> QED BY <3>1, <3>2 DEF Behind, Record
  <2> QED BY <2>1, <2>2, <2>3, <2>4 DEF Behind
<1> QED BY <1>1, <1>2, <1>3, StepKinds

\* The threads at "fold", after a step of w.
LEMMA FoldingSet ==
  ASSUME Types, Phases, NEW w \in Writer, WriterStep(w)
  PROVE  /\ AppendWrite(w) => Folding' = Folding \cup {w} /\ w \notin Folding
         /\ AppendFold(w) => Folding' = Folding \ {w} /\ w \in Folding
         /\ ~AppendWrite(w) /\ ~AppendFold(w) => Folding' = Folding
<1>1. \A v \in Writer \ {w} : pc'[v] = pc[v] BY WriterFrame
<1>2. AppendWrite(w) => pc[w] = "write" /\ pc'[w] = "fold" BY DEF AppendWrite, Goto, Types
<1>3. AppendFold(w) => pc[w] = "fold" /\ pc'[w] = "seal" BY DEF AppendFold, Goto, Types
<1>4. ~AppendWrite(w) /\ ~AppendFold(w) => pc[w] # "fold" /\ pc'[w] # "fold"
  BY DEF WriterStep, Mutate, AppendRefuse, AppendTest, AppendEncode, AppendFail,
         AckStep, Acknowledge, Return, Goto, Types
<1> QED BY <1>1, <1>2, <1>3, <1>4 DEF Folding

\* The count and the head, after a step of w.
LEMMA CountAndLog ==
  ASSUME Types, NEW w \in Writer, WriterStep(w)
  PROVE  /\ AppendFold(w) => g_count' = g_count + 1 /\ g_head' = SelfHash(rec[w]) /\ log' = log
                             /\ graph' = gfs_fold_on_record(rec[w]) /\ rec' = rec /\ pc[w] = "fold"
         /\ ~AppendFold(w) => g_count' = g_count /\ g_head' = g_head /\ graph' = graph
         /\ AppendWrite(w) => log' = Append(log, rec[w]) /\ rec' = rec /\ pc[w] = "write"
         /\ ~AppendWrite(w) => log' = log \/ log' = Append(log, Torn)
<1>1. AppendFold(w) => g_count' = g_count + 1 /\ g_head' = SelfHash(rec[w]) /\ log' = log
                       /\ graph' = gfs_fold_on_record(rec[w]) /\ rec' = rec /\ pc[w] = "fold"
  BY DEF AppendFold, Goto, disk
<1>2. ~AppendFold(w) => g_count' = g_count /\ g_head' = g_head /\ graph' = graph
  BY DEF WriterStep, Mutate, AppendRefuse, AppendTest, AppendEncode, AppendWrite, AppendFail,
         AckStep, Acknowledge, kernel
<1>3. AppendWrite(w) => log' = Append(log, rec[w]) /\ rec' = rec /\ pc[w] = "write"
  BY DEF AppendWrite, Goto
<1>4. ~AppendWrite(w) => log' = log \/ log' = Append(log, Torn)
  BY DEF WriterStep, Mutate, AppendRefuse, AppendTest, AppendEncode, AppendFail,
         AppendFold, AckStep, Acknowledge, disk
<1> QED BY <1>1, <1>2, <1>3, <1>4

\* A fragment ends the chain.
LEMMA TornEnds ==
  ASSUME Types, log' = Append(log, Torn) PROVE ~Whole(log') /\ ~ChainOk(log')
<1>1. log \in Seq(Entry) /\ Torn \in Entry BY DEF Types, Entry
<1>2. ~Whole(log') BY <1>1, TornStays
<1> QED BY <1>2 DEF ChainOk

\* Writing a record onto a whole chain: it was the one at the head, and nobody
\* else's is waiting to be folded.
LEMMA WriteOnChain ==
  ASSUME Types, Phases, Behind, Aligned, NEW w \in Writer, AppendWrite(w), g_ready, ChainOk(log')
  PROVE  /\ ChainOk(log) /\ Folding = {} /\ g_count = Len(log) /\ g_head = HeadOf(log)
         /\ Len(log') = g_count + 1 /\ log'[Len(log')] = rec[w] /\ rec' = rec
<1>1. log' = Append(log, rec[w]) /\ rec' = rec /\ pc[w] = "write" BY DEF AppendWrite, Goto
<1>2. rec[w] \in Record /\ rec[w] \in Entry /\ rec[w].seq \in Nat /\ rec[w].seq <= g_count
  BY <1>1 DEF Phases, Behind, Appending, Record, Entry
<1>3. log \in Seq(Entry) /\ g_count \in Nat BY DEF Types
<1>4. ChainOk(log) /\ rec[w].seq = Len(log) BY <1>1, <1>2, <1>3, ChainAppend
<1>5. Len(log) \in Nat /\ Len(log') = Len(log) + 1 /\ log'[Len(log) + 1] = rec[w]
  BY <1>1, <1>2, <1>3, Appended
<1>6. Folding = {} /\ g_count = Len(log) /\ g_head = HeadOf(log)
  <2>1. ~(g_count < Len(log)) BY <1>2, <1>3, <1>4, <1>5
  <2>2. g_count + 1 # Len(log) BY <1>2, <1>3, <1>4, <1>5
  <2> QED BY <2>1, <2>2, <1>4 DEF Aligned
<1> QED BY <1>1, <1>4, <1>5, <1>6

\* In a whole chain the count and the head stay in step with the log.
LEMMA AlignedStep ==
  ASSUME Types, Phases, Behind, Aligned, [Next]_vars PROVE Aligned'
<1>1. CASE UNCHANGED vars
  BY <1>1 DEF Aligned, Folding, Reading, vars, disk, kernel, local, hist
<1>2. CASE VerifyStep
  <2>1. PICK L \in {log, <<>>}, s \in {seal, NoSeal} :
          BootVerify(L, s) /\ ((L = log /\ s = seal /\ odd' = odd) \/ odd' = odd \cup {"misread"})
    BY <1>2 DEF VerifyStep
  <2>2. log' = log BY <2>1 DEF BootVerify, disk
  <2>3. Folding' = {} BY <1>2, Quiet DEF Folding, Appending
  <2>4. CASE verdict' = "OK"
    <3>1. g_head' = HeadOf(L) /\ g_count' = Len(L) BY <2>1, <2>4 DEF BootVerify
    <3>2. CASE L = log BY <3>1, <3>2, <2>2, <2>3 DEF Aligned
    <3>3. CASE L # log
      <4>1. L = <<>> /\ "misread" \in odd' BY <2>1, <3>3
      <4>2. Len(log) > 0 /\ g_count' = 0
        <5>1. Len(<<>>) = 0 OBVIOUS
        <5>2. log \in Seq(Entry) /\ log # <<>> BY <4>1, <3>3 DEF Types
        <5> QED BY <5>1, <5>2, <4>1, <3>1
      <4> QED BY <4>1, <4>2, <2>2, <2>3 DEF Aligned, Reading
    <3> QED BY <3>2, <3>3
  <2>5. CASE verdict' # "OK"
    <3>1. ~g_ready BY <2>1, JournalAssumption DEF BootVerify, Goto, Phases, Active, Appending
    <3>2. ~g_ready' BY <3>1, <2>1, <2>5 DEF BootVerify
    <3> QED BY <3>2 DEF Aligned
  <2> QED BY <2>4, <2>5
<1>3. CASE AsideStep
  <2>1. ~g_ready'
    BY <1>3, JournalAssumption DEF AsideStep, Aside, Goto, Phases, Active, Appending, Moving, kernel
  <2> QED BY <2>1 DEF Aligned
<1>4. CASE BootRestart
  <2>1. pc[Kernel] = "del_seal" /\ g_count' = 0 /\ g_head' = <<>> /\ log' = log
    BY <1>4 DEF BootRestart, Goto
  <2>2. log' = <<>> BY <2>1 DEF Phases
  <2>3. Len(log') = 0 /\ HeadOf(log') = <<>>
    <3>1. Len(<<>>) = 0 OBVIOUS
    <3> QED BY <3>1, <2>2 DEF HeadOf
  <2>4. Folding' = {} BY <1>4, Quiet DEF Folding, Appending
  <2> QED BY <2>1, <2>3, <2>4 DEF Aligned
<1>5. CASE Crash
  <2>1. ~g_ready' BY <1>5 DEF Crash, Volatile
  <2> QED BY <2>1 DEF Aligned
<1>6. ASSUME NEW w \in Writer, WriterStep(w) PROVE Aligned'
  <2> SUFFICES ASSUME ChainOk(log')
               PROVE  \/ Folding' = {} /\ g_count' < Len(log') /\ ~Reading'
                      \/ Folding' = {} /\ g_count' = Len(log') /\ g_head' = HeadOf(log')
                      \/ \E v \in Writer : Folding' = {v} /\ g_count' + 1 = Len(log')
                                           /\ rec'[v] = log'[Len(log')]
    BY DEF Aligned
  <2>1. g_ready /\ (Reading' => Reading) BY <1>6, WriterFrame DEF Reading
  <2>2. CASE AppendWrite(w)
    <3>1. /\ Folding = {} /\ g_count = Len(log)
          /\ Len(log') = g_count + 1 /\ log'[Len(log')] = rec[w] /\ rec' = rec
      BY <2>1, <2>2, WriteOnChain
    <3>2. Folding' = Folding \cup {w} BY <1>6, <2>2, FoldingSet
    <3>3. g_count' = g_count BY <2>2 DEF AppendWrite, kernel
    <3> QED BY <3>1, <3>2, <3>3
  <2>3. CASE AppendFold(w)
    <3>1. g_count' = g_count + 1 /\ g_head' = SelfHash(rec[w]) /\ log' = log
      BY <1>6, <2>3, CountAndLog
    <3>2. w \in Folding /\ Folding' = Folding \ {w} BY <1>6, <2>3, FoldingSet
    <3>3. Folding = {w} /\ g_count + 1 = Len(log) /\ rec[w] = log[Len(log)]
      BY <3>1, <3>2, <2>1 DEF Aligned
    <3>4. HeadOf(log) = SelfHash(log[Len(log)])
      <4>1. log # <<>>
        <5>1. Len(<<>>) = 0 /\ g_count \in Nat BY DEF Types
        <5> QED BY <5>1, <3>3
      <4> QED BY <4>1 DEF HeadOf
    <3> QED BY <3>1, <3>2, <3>3, <3>4
  <2>4. CASE ~AppendWrite(w) /\ ~AppendFold(w)
    <3>1. log' = log BY <1>6, <2>4, CountAndLog, TornEnds
    <3>2. g_count' = g_count /\ g_head' = g_head BY <1>6, <2>4, CountAndLog
    <3>3. Folding' = Folding BY <1>6, <2>4, FoldingSet
    <3>4. \A v \in Folding : rec'[v] = rec[v]
      <4>1. w \notin Folding
        BY <1>6, <2>4 DEF Folding, WriterStep, Mutate, AppendRefuse, AppendTest, AppendEncode,
                          AppendFail, AckStep, Acknowledge, Return, Goto
      <4> QED BY <4>1, <1>6, WriterFrame DEF Folding
    <3>5. CASE Folding = {} BY <3>1, <3>2, <3>3, <3>5, <2>1 DEF Aligned
    <3>6. CASE Folding # {}
      <4>1. PICK v \in Writer : Folding = {v} /\ g_count + 1 = Len(log) /\ rec[v] = log[Len(log)]
        BY <3>1, <3>6, <2>1 DEF Aligned
      <4>2. rec'[v] = rec[v] BY <4>1, <3>4
      <4> QED BY <4>1, <4>2, <3>1, <3>2, <3>3
    <3> QED BY <3>5, <3>6
  <2> QED BY <2>2, <2>3, <2>4
<1> QED BY <1>1, <1>2, <1>3, <1>4, <1>5, <1>6, StepKinds

\* The graph follows the fold of the log: the dry run of a mutation, its record
\* and gfs_fold_on_record are apart, yet a restart finds the same graph.
LEMMA FoldedStep ==
  ASSUME Types, Phases, Behind, Aligned, Folded, [Next]_vars PROVE Folded'
<1>1. CASE UNCHANGED vars
  BY <1>1 DEF Folded, Reading, vars, disk, kernel, local, hist
<1>2. CASE VerifyStep
  <2>1. PICK L \in {log, <<>>}, s \in {seal, NoSeal} :
          BootVerify(L, s) /\ ((L = log /\ s = seal /\ odd' = odd) \/ odd' = odd \cup {"misread"})
    BY <1>2 DEF VerifyStep
  <2>2. log' = log /\ g_boot_gen' = NextGen(s) BY <2>1 DEF BootVerify, disk
  <2>3. CASE verdict' = "OK" /\ "misread" \notin odd'
    <3>1. L = log BY <2>1, <2>3
    <3>2. g_count' = Len(log) /\ graph' = gfs_fold_replay(log, g_boot_gen')
      BY <2>1, <2>2, <2>3, <3>1 DEF BootVerify
    <3>3. SubSeq(log, 1, Len(log)) = log /\ Len(log) <= Len(log) BY DEF Types
    <3> QED BY <2>2, <3>2, <3>3 DEF Folded
  <2>4. CASE "misread" \in odd' BY <2>4 DEF Folded, Reading
  <2>5. CASE verdict' # "OK"
    <3>1. ~g_ready BY <2>1, JournalAssumption DEF BootVerify, Goto, Phases, Active, Appending
    <3>2. ~g_ready' BY <3>1, <2>1, <2>5 DEF BootVerify
    <3> QED BY <3>2 DEF Folded
  <2> QED BY <2>3, <2>4, <2>5
<1>3. CASE AsideStep
  <2>1. ~g_ready'
    BY <1>3, JournalAssumption DEF AsideStep, Aside, Goto, Phases, Active, Appending, Moving, kernel
  <2> QED BY <2>1 DEF Folded
<1>4. CASE BootRestart
  <2>1. pc[Kernel] = "del_seal" /\ g_count' = 0 /\ log' = log /\ graph' = gfsf_reset
    BY <1>4 DEF BootRestart, Goto
  <2>2. log' = <<>> BY <2>1 DEF Phases
  <2>3. Len(log') = 0 /\ SubSeq(log', 1, 0) = <<>>
    <3>1. Len(<<>>) = 0 /\ SubSeq(<<>>, 1, 0) = <<>> OBVIOUS
    <3> QED BY <3>1, <2>2
  <2>4. graph' = gfs_fold_replay(SubSeq(log', 1, g_count'), g_boot_gen')
    BY <2>1, <2>3, ReplayEmpty
  <2>5. g_count' <= Len(log') BY <2>1, <2>3
  <2> QED BY <2>4, <2>5 DEF Folded
<1>5. CASE Crash
  <2>1. ~g_ready' BY <1>5 DEF Crash, Volatile
  <2> QED BY <2>1 DEF Folded
<1>6. ASSUME NEW w \in Writer, WriterStep(w) PROVE Folded'
  <2> SUFFICES ASSUME Reading', ChainOk(log')
               PROVE  g_count' <= Len(log')
                      /\ graph' = gfs_fold_replay(SubSeq(log', 1, g_count'), g_boot_gen')
    BY DEF Folded
  <2>1. g_ready /\ Reading /\ g_boot_gen' = g_boot_gen BY <1>6, WriterFrame DEF Reading
  <2>2. log \in Seq(Entry) /\ g_count \in Nat /\ Len(log) \in Nat BY DEF Types
  <2>3. CASE AppendWrite(w)
    <3>1. ChainOk(log) /\ g_count = Len(log) /\ Len(log') = g_count + 1
      BY <2>1, <2>3, WriteOnChain
    <3>2. log' = Append(log, rec[w]) /\ g_count' = g_count /\ graph' = graph
      BY <2>3 DEF AppendWrite, kernel
    <3>3. rec[w] \in Entry BY DEF Types
    <3>4. SubSeq(log', 1, g_count) = SubSeq(log, 1, g_count) BY <2>2, <3>1, <3>2, <3>3
    <3>5. graph = gfs_fold_replay(SubSeq(log, 1, g_count), g_boot_gen)
      BY <2>1, <3>1 DEF Folded
    <3>6. g_count' <= Len(log') BY <2>2, <3>1, <3>2
    <3>7. SubSeq(log', 1, g_count') = SubSeq(log, 1, g_count) BY <3>2, <3>4
    <3> QED BY <2>1, <3>2, <3>5, <3>6, <3>7
  <2>4. CASE AppendFold(w)
    <3>1. /\ g_count' = g_count + 1 /\ log' = log
          /\ graph' = gfs_fold_on_record(rec[w]) /\ pc[w] = "fold"
      BY <1>6, <2>4, CountAndLog
    <3>2. w \in Folding BY <1>6, <2>4, FoldingSet
    <3>3. g_count + 1 = Len(log) /\ rec[w] = log[Len(log)]
      BY <3>1, <3>2, <2>1 DEF Aligned
    <3>4. graph = gfs_fold_replay(SubSeq(log, 1, g_count), g_boot_gen)
      BY <2>1, <3>1 DEF Folded
    <3>5. rec[w] \in Record BY <3>1 DEF Phases, Appending
    <3>6. log \in Seq(Record) BY <2>2, <3>1, WholeIsRecords DEF ChainOk
    <3> DEFINE P == SubSeq(log, 1, g_count)
    <3>7. P \in Seq(Record) BY <3>3, <3>6, <2>2
    <3>8. log = Append(P, rec[w]) /\ SubSeq(log, 1, g_count + 1) = log BY <3>3, <3>6, <2>2
    <3>9. gfs_fold_replay(Append(P, rec[w]), g_boot_gen)
          = gfsf_apply(gfs_fold_replay(P, g_boot_gen), rec[w], g_boot_gen)
      BY <3>5, <3>7, ReplayAppend
    <3>10. graph' = gfs_fold_replay(log, g_boot_gen)
      BY <3>1, <3>4, <3>8, <3>9 DEF gfs_fold_on_record
    <3>11. SubSeq(log', 1, g_count') = log /\ g_count' <= Len(log') BY <3>1, <3>3, <3>8, <2>2
    <3> QED BY <2>1, <3>10, <3>11
  <2>5. CASE ~AppendWrite(w) /\ ~AppendFold(w)
    <3>1. log' = log BY <1>6, <2>5, CountAndLog, TornEnds
    <3>2. g_count' = g_count /\ graph' = graph BY <1>6, <2>5, CountAndLog
    <3> QED BY <3>1, <3>2, <2>1 DEF Folded
  <2> QED BY <2>3, <2>4, <2>5
<1> QED BY <1>1, <1>2, <1>3, <1>4, <1>5, <1>6, StepKinds

\* While no two appends overlap, records are written in order.
LEMMA InOrderStep ==
  ASSUME Types, Phases, Behind, Aligned, InOrder, [Next]_vars PROVE InOrder'
<1>1. CASE UNCHANGED vars
  BY <1>1 DEF InOrder, Reading, vars, disk, kernel, local, hist
<1>2. CASE VerifyStep \/ AsideStep \/ BootRestart \/ Crash
  <2>1. \A v \in Writer : pc'[v] \notin Appending BY <1>2, Quiet
  <2>2. odd \subseteq odd'
    BY <1>2 DEF VerifyStep, AsideStep, BootRestart, Crash
  <2>3. log' \in {log, <<>>}
    BY <1>2 DEF VerifyStep, BootVerify, AsideStep, BootRestart, Crash, disk
  <2>4. ChainOk(<<>>) BY DEF ChainOk, Whole
  <2> QED BY <2>1, <2>2, <2>3, <2>4 DEF InOrder, Reading, Appending
<1>3. ASSUME NEW w \in Writer, WriterStep(w) PROVE InOrder'
  <2> SUFFICES ASSUME "race" \notin odd'
               PROVE  /\ \A u, v \in Writer : pc'[u] \in Appending /\ pc'[v] \in Appending => u = v
                      /\ \A v \in Writer : pc'[v] \in {"write", "fold"} =>
                           rec'[v].seq = g_count' /\ rec'[v].prev = g_head'
                      /\ Reading' /\ Whole(log') => ChainOk(log')
    BY DEF InOrder
  <2>1. /\ g_ready /\ odd' = odd /\ "race" \notin odd
        /\ \A v \in Writer \ {w} : pc'[v] = pc[v] /\ rec'[v] = rec[v]
    BY <1>3, WriterFrame
  <2>2. /\ \A u, v \in Writer : pc[u] \in Appending /\ pc[v] \in Appending => u = v
        /\ \A v \in Writer : pc[v] \in {"write", "fold"} => rec[v].seq = g_count /\ rec[v].prev = g_head
        /\ Reading /\ Whole(log) => ChainOk(log)
    BY <2>1 DEF InOrder
  <2>3. pc'[w] \in Appending => pc[w] \in Appending \/ (AppendEncode(w) /\ \A v \in Writer : pc[v] \notin Appending)
    <3>1. CASE AppendEncode(w)
      <4>1. \A v \in Writer : pc[v] \notin Appending
        BY <3>1, <2>1 DEF AppendEncode, Appending
      <4> QED BY <3>1, <4>1
    <3>2. CASE ~AppendEncode(w)
      BY <1>3, <3>2 DEF WriterStep, Mutate, AppendRefuse, AppendTest, AppendWrite, AppendFail,
                        AppendFold, AckStep, Acknowledge, Return, Goto, Types, Appending
    <3> QED BY <3>1, <3>2
  <2>4. \A u, v \in Writer : pc'[u] \in Appending /\ pc'[v] \in Appending => u = v
    BY <2>1, <2>2, <2>3
  <2>5. ASSUME NEW v \in Writer, pc'[v] \in {"write", "fold"}
        PROVE  rec'[v].seq = g_count' /\ rec'[v].prev = g_head'
    <3>1. CASE v = w /\ AppendEncode(w)
      <4>1. rec'[w] = Encode(g_count, g_boot_gen, Head(todo[w]), g_head) BY <3>1 DEF AppendEncode, Types
      <4>2. g_count' = g_count /\ g_head' = g_head BY <3>1 DEF AppendEncode
      <4> QED BY <4>1, <4>2, <3>1 DEF Encode
    <3>2. CASE v = w /\ ~AppendEncode(w)
      <4>1. AppendWrite(w)
        BY <1>3, <3>2, <2>5 DEF WriterStep, Mutate, AppendRefuse, AppendTest, AppendFail,
                        AppendFold, AckStep, Acknowledge, Return, Goto, Types
      <4>2. rec' = rec /\ pc[w] = "write" /\ g_count' = g_count /\ g_head' = g_head
        BY <4>1 DEF AppendWrite, Goto, kernel
      <4> QED BY <4>2, <2>2, <3>2
    <3>3. CASE v # w
      <4>1. pc[v] \in {"write", "fold"} /\ rec'[v] = rec[v] BY <2>1, <2>5, <3>3
      <4>2. ~AppendFold(w)
        BY <4>1, <2>2, <3>3 DEF AppendFold, Goto, Appending
      <4>3. g_count' = g_count /\ g_head' = g_head BY <1>3, <4>2, CountAndLog
      <4> QED BY <4>1, <4>3, <2>2
    <3> QED BY <3>1, <3>2, <3>3
  <2>6. ASSUME Reading', Whole(log') PROVE ChainOk(log')
    <3>1. Reading BY <2>6, <2>1 DEF Reading
    <3>2. CASE AppendWrite(w)
      <4>1. log' = Append(log, rec[w]) /\ pc[w] = "write" BY <3>2 DEF AppendWrite, Goto
      <4>2. rec[w] \in Record /\ rec[w] \in Entry BY <4>1 DEF Phases, Appending, Entry
      <4>3. log \in Seq(Entry) BY DEF Types
      <4>4. ChainOk(log) BY <4>1, <4>2, <4>3, <2>2, <2>6, <3>1, TornStays
      <4>5. rec[w].seq = g_count /\ rec[w].prev = g_head BY <4>1, <2>2
      <4>6. \A v \in Writer : v \notin Folding
        BY <4>1, <2>2 DEF Folding, Appending
      <4>7. g_count = Len(log) /\ g_head = HeadOf(log)
        BY <4>4, <4>6, <2>1, <3>1 DEF Aligned
      <4> QED BY <4>1, <4>2, <4>3, <4>4, <4>5, <4>7, ChainAppend
    <3>3. CASE ~AppendWrite(w)
      <4>1. log' = log BY <1>3, <2>6, <3>3, CountAndLog, TornEnds
      <4> QED BY <4>1, <2>2, <2>6, <3>1
    <3> QED BY <3>2, <3>3
  <2> QED BY <2>4, <2>5, <2>6
<1> QED BY <1>1, <1>2, <1>3, StepKinds
-----------------------------------------------------------------------------
(* The seal. *)

\* The threads that have a record to fold can be counted.
LEMMA FoldingFinite ==
  /\ IsFiniteSet(Folding) /\ Cardinality(Folding) \in Nat
  /\ Folding = {} => Cardinality(Folding) = 0
<1>1. Folding \subseteq Writer /\ IsFiniteSet(Writer) BY JournalAssumption DEF Folding
<1>2. IsFiniteSet(Folding) BY <1>1, FS_Subset
<1> QED BY <1>2, FS_CardinalityType, FS_EmptySet

\* Counted records are in the log, and so are those still to be folded.
LEMMA CountStep ==
  ASSUME Types, Phases, NEW w \in Writer, WriterStep(w), g_count + Cardinality(Folding) <= Len(log)
  PROVE  g_count' + Cardinality(Folding') <= Len(log')
<1>1. g_count \in Nat /\ Len(log) \in Nat /\ log \in Seq(Entry) /\ rec[w] \in Entry /\ Torn \in Entry
  BY DEF Types, Entry
<1>2. IsFiniteSet(Folding) /\ Cardinality(Folding) \in Nat BY FoldingFinite
<1>3. CASE AppendWrite(w)
  <2>1. Folding' = Folding \cup {w} /\ w \notin Folding BY <1>3, FoldingSet
  <2>2. Cardinality(Folding') = Cardinality(Folding) + 1 BY <2>1, <1>2, FS_AddElement
  <2>3. log' = Append(log, rec[w]) /\ g_count' = g_count BY <1>3 DEF AppendWrite, kernel
  <2>4. Len(log') = Len(log) + 1 BY <2>3, <1>1, Appended
  <2> QED BY <1>1, <1>2, <2>2, <2>3, <2>4
<1>4. CASE AppendFold(w)
  <2>1. Folding' = Folding \ {w} /\ w \in Folding BY <1>4, FoldingSet
  <2>2. Cardinality(Folding') = Cardinality(Folding) - 1 BY <2>1, <1>2, FS_RemoveElement
  <2>3. log' = log /\ g_count' = g_count + 1 BY <1>4 DEF AppendFold, disk
  <2> QED BY <1>1, <1>2, <2>2, <2>3
<1>5. CASE ~AppendWrite(w) /\ ~AppendFold(w)
  <2>1. Folding' = Folding /\ g_count' = g_count BY <1>5, FoldingSet, CountAndLog
  <2>2. log' = log \/ log' = Append(log, Torn) BY <1>5, CountAndLog
  <2>3. Len(log) <= Len(log') /\ Len(log') \in Nat
    BY <2>2, <1>1, Appended
  <2> QED BY <1>1, <1>2, <2>1, <2>3
<1> QED BY <1>3, <1>4, <1>5

\* The seal and its log go together.
LEMMA SealedStep ==
  ASSUME Types, Phases, Behind, Aligned, Sealed, [Next]_vars PROVE Sealed'
<1>0. /\ seal \in Seal => seal.count \in Nat
      /\ Len(log) \in Nat /\ g_count \in Nat
      /\ NoSeal \notin Seal /\ BadSeal \notin Seal
  BY FilesAssumption DEF Types, Seal
<1>1. CASE UNCHANGED vars
  BY <1>1 DEF Sealed, Trusted, Folding, vars, disk, kernel, local, hist
<1>2. CASE VerifyStep
  <2>1. PICK L \in {log, <<>>}, s \in {seal, NoSeal} :
          BootVerify(L, s) /\ ((L = log /\ s = seal /\ odd' = odd) \/ odd' = odd \cup {"misread"})
    BY <1>2 DEF VerifyStep
  <2>2. log' = log /\ seal' = seal /\ odd \subseteq odd' BY <2>1 DEF BootVerify, disk
  <2>3. Folding' = {} /\ \A w \in Writer : pc'[w] # "seal" BY <1>2, Quiet DEF Folding, Appending
  <2>4. pc[Kernel] = "boot" /\ ~g_ready
    BY <2>1, JournalAssumption DEF BootVerify, Goto, Phases, Active, Appending
  <2>5. verdict' # "OK" => ~g_ready' /\ pc'[Kernel] \in Moving
    BY <2>1, <2>4, JournalAssumption DEF BootVerify, Goto, Types, Moving
  <2>6. ASSUME "cut" \notin odd', seal \in Seal PROVE seal.count <= Len(log)
    BY <2>2, <2>4, <2>6 DEF Sealed, Moving
  <2>7. ASSUME verdict' = "OK" PROVE g_count' + Cardinality(Folding') <= Len(log)
    <3>1. g_count' = Len(L) BY <2>1, <2>7 DEF BootVerify
    <3>2. Cardinality(Folding') = 0 BY <2>3, FS_EmptySet
    <3>3. Len(L) <= Len(log) /\ Len(L) \in Nat
      <4>1. Len(<<>>) = 0 OBVIOUS
      <4> QED BY <4>1, <1>0
    <3> QED BY <3>1, <3>2, <3>3
  <2>8. ASSUME verdict' = "OK", Trusted', seal \in Seal PROVE seal.count <= Len(log)
    <3>1. CASE "cut" \notin odd' BY <3>1, <2>6, <2>8
    <3>2. CASE "misread" \notin odd'
      <4>1. L = log /\ s = seal BY <3>2, <2>1
      <4>2. gfsj_verify(L, s) = "OK" BY <2>1, <2>8 DEF BootVerify
      <4>3. seal.count = Len(log) BY <4>1, <4>2, <2>8, <1>0, ReadOf
      <4> QED BY <4>3, <1>0
    <3> QED BY <3>1, <3>2, <2>8 DEF Trusted
  <2>9. Trusted' => Trusted BY <2>2 DEF Trusted
  <2> QED BY <2>2, <2>3, <2>5, <2>6, <2>7, <2>8, <2>9 DEF Sealed
<1>3. CASE AsideStep
  <2>1. ~g_ready' /\ pc'[Kernel] \in Moving
    BY <1>3, JournalAssumption DEF AsideStep, Aside, Goto, Phases, Active, Appending, Moving, kernel, Types
  <2>2. Folding' = {} /\ \A w \in Writer : pc'[w] # "seal" BY <1>3, Quiet DEF Folding, Appending
  <2>3. seal' \in {seal, NoSeal} /\ log' \in {log, <<>>} /\ odd' = odd BY <1>3 DEF AsideStep
  <2>4. Len(<<>>) = 0 OBVIOUS
  <2>5. ASSUME seal' \in Seal PROVE seal' = seal /\ seal \in Seal /\ seal.count > 0 /\ seal.count \in Nat
    BY <2>3, <2>5, <1>0 DEF Sealed
  <2>6. ASSUME Trusted', seal' \in Seal, ChainOk(log'), Len(log') = seal'.count PROVE seal'.head = HeadOf(log')
    <3>1. log' = log BY <2>3, <2>4, <2>5, <2>6
    <3>2. Trusted BY <2>3, <2>6 DEF Trusted
    <3> QED BY <3>1, <3>2, <2>5, <2>6 DEF Sealed
  <2> QED BY <2>1, <2>2, <2>5, <2>6 DEF Sealed
<1>4. CASE BootRestart
  <2>1. Folding' = {} /\ \A w \in Writer : pc'[w] # "seal" BY <1>4, Quiet DEF Folding, Appending
  <2>2. seal' = NoSeal /\ g_count' = 0 /\ log' = log BY <1>4 DEF BootRestart
  <2>3. Cardinality(Folding') = 0 BY <2>1, FS_EmptySet
  <2> QED BY <2>1, <2>2, <2>3, <1>0 DEF Sealed
<1>5. CASE Crash
  <2>1. ~g_ready' /\ seal' \in {seal, BadSeal} /\ log' = log BY <1>5 DEF Crash, Volatile
  <2>2. Folding' = {} /\ \A w \in Writer : pc'[w] # "seal" BY <1>5, Quiet DEF Folding, Appending
  <2>3. odd' = IF pc[Kernel] \in Moving THEN odd \cup {"cut"} ELSE odd BY <1>5 DEF Crash
  <2>4. "cut" \notin odd' => pc[Kernel] \notin Moving /\ "cut" \notin odd BY <2>3
  <2>5. Trusted' => Trusted BY <2>3 DEF Trusted
  <2> QED BY <2>1, <2>2, <2>4, <2>5, <1>0 DEF Sealed
<1>6. ASSUME NEW w \in Writer, WriterStep(w) PROVE Sealed'
  <2>1. /\ g_ready /\ g_ready' /\ odd \subseteq odd' /\ pc[Kernel] \notin Moving
        /\ g_count' = g_count \/ g_count' = g_count + 1
        /\ \A v \in Writer \ {w} : pc'[v] = pc[v]
    BY <1>6, WriterFrame
  <2>2. Len(log') \in Nat /\ Len(log) <= Len(log') BY <1>6, WriterFrame, LogGrows
  <2>3. g_count + Cardinality(Folding) <= Len(log) /\ Cardinality(Folding) \in Nat
    BY <2>1, FoldingFinite DEF Sealed
  <2>4. g_count' + Cardinality(Folding') <= Len(log') BY <1>6, <2>3, CountStep
  <2>5. \A v \in Writer : pc'[v] = "seal" => g_count' > 0
    <3>1. pc'[w] = "seal" => g_count' > 0
      <4>1. pc'[w] = "seal" => AppendFold(w)
        BY <1>6 DEF WriterStep, Mutate, AppendRefuse, AppendTest, AppendEncode, AppendWrite, AppendFail,
                    AckStep, Acknowledge, Return, Goto, Types
      <4> QED BY <4>1, <1>0, <1>6, CountAndLog
    <3> QED BY <3>1, <2>1, <1>0 DEF Sealed
  <2>6. (Trusted' => Trusted) /\ ("cut" \notin odd' => "cut" \notin odd) BY <2>1 DEF Trusted
  <2>7. CASE AckStep(w) /\ seal' = gfsj_seal_encode
    <3>1. pc[w] = "seal" /\ log' = log /\ g_count' = g_count
      BY <2>7 DEF AckStep, Acknowledge, Return, Goto
    <3>2. seal'.count = g_count /\ seal'.head = g_head /\ seal'.gen = g_boot_gen
      BY <2>7 DEF gfsj_seal_encode
    <3>3. seal'.count > 0 BY <3>1, <3>2 DEF Sealed
    <3>4. seal'.count <= Len(log') BY <3>1, <3>2, <2>3, <1>0
    <3>5. ASSUME ChainOk(log'), Len(log') = seal'.count PROVE seal'.head = HeadOf(log')
      <4>1. ChainOk(log) /\ Len(log) = g_count BY <3>1, <3>2, <3>5
      <4> QED BY <4>1, <3>1, <3>2, <2>1, <1>0 DEF Aligned
    <3> QED BY <2>4, <2>5, <3>3, <3>4, <3>5 DEF Sealed
  <2>8. CASE seal' \in {seal, NoSeal}
    <3>1. ASSUME seal' \in Seal PROVE seal' = seal /\ seal \in Seal /\ seal.count > 0 /\ seal.count \in Nat
      BY <2>8, <3>1, <1>0 DEF Sealed
    <3>2. ASSUME "cut" \notin odd', seal' \in Seal PROVE seal'.count <= Len(log')
      <4>1. seal.count <= Len(log) BY <2>1, <2>6, <3>1, <3>2 DEF Sealed
      <4> QED BY <4>1, <3>1, <3>2, <2>2, <1>0
    <3>3. ASSUME Trusted', seal' \in Seal PROVE seal.count <= Len(log) /\ seal'.count <= Len(log')
      <4>1. seal.count <= Len(log) BY <2>1, <2>6, <3>1, <3>3 DEF Sealed
      <4> QED BY <4>1, <3>1, <3>3, <2>2, <1>0
    <3>4. ASSUME Trusted', seal' \in Seal, ChainOk(log'), Len(log') = seal'.count
          PROVE  seal'.head = HeadOf(log')
      <4>1. seal.count <= Len(log) /\ seal' = seal BY <3>3, <3>1, <3>4
      <4>2. ~AppendWrite(w)
        <5> SUFFICES ASSUME AppendWrite(w) PROVE FALSE OBVIOUS
        <5>1. log' = Append(log, rec[w]) /\ log \in Seq(Entry) /\ rec[w] \in Entry
          BY <1>6, CountAndLog DEF Types
        <5>2. Len(log') = Len(log) + 1 BY <5>1, Appended
        <5> QED BY <5>2, <4>1, <3>4, <1>0
      <4>3. log' = log BY <4>2, <1>6, <3>4, CountAndLog, TornEnds
      <4> QED BY <4>1, <4>3, <2>6, <3>1, <3>4 DEF Sealed
    <3> QED BY <2>4, <2>5, <3>1, <3>2, <3>3, <3>4 DEF Sealed
  <2>9. seal' \in {seal, NoSeal} \/ (AckStep(w) /\ seal' = gfsj_seal_encode)
    BY <1>6 DEF WriterStep, Mutate, AppendRefuse, AppendTest, AppendEncode, AppendWrite, AppendFail,
                AppendFold, AckStep, disk
  <2> QED BY <2>7, <2>8, <2>9
<1> QED BY <1>1, <1>2, <1>3, <1>4, <1>5, <1>6, StepKinds

\* What gfsj_verify has seen when it answers one of these.
LEMMA VerifySays ==
  ASSUME NEW L \in Seq(Entry), NEW s \in Seal \cup {NoSeal, BadSeal}
  PROVE  /\ gfsj_verify(L, s) = "CHAIN_BREAK" => Whole(L) /\ ~ChainOk(L)
         /\ gfsj_verify(L, s) = "TRUNCATED" => s \in Seal /\ Len(L) < s.count
         /\ gfsj_verify(L, s) = "HEAD_MISMATCH"
              => s \in Seal /\ ChainOk(L) /\ Len(L) = s.count /\ s.head # HeadOf(L)
<1>1. CASE ~Whole(L)
  <2>1. ~ChainOk(L) BY <1>1 DEF ChainOk
  <2>2. gfsj_verify(L, s) = "RAGGED" BY <1>1, <2>1 DEF gfsj_verify
  <2> QED BY <2>2
<1>2. CASE Whole(L) /\ ~ChainOk(L)
  <2>1. gfsj_verify(L, s) = "CHAIN_BREAK" BY <1>2 DEF gfsj_verify
  <2> QED BY <2>1, <1>2
<1>3. CASE ChainOk(L) /\ s = NoSeal
  <2>1. gfsj_verify(L, s) \in {"OK", "SEAL_MISSING"}
    BY <1>3, FilesAssumption DEF gfsj_verify, ChainOk
  <2> QED BY <2>1
<1>4. CASE ChainOk(L) /\ s = BadSeal
  <2>1. gfsj_verify(L, s) = "SEAL_CORRUPT"
    BY <1>4, FilesAssumption DEF gfsj_verify, ChainOk
  <2> QED BY <2>1
<1>5. CASE ChainOk(L) /\ s \notin {NoSeal, BadSeal}
  <2>1. s \in Seal /\ Whole(L) BY <1>5 DEF ChainOk
  <2>2. s.count \in Nat /\ Len(L) \in Nat BY <2>1 DEF Seal
  <2>3. gfsj_verify(L, s) =
          CASE Len(L) < s.count -> "TRUNCATED"
            [] Len(L) > s.count -> "EXTENDED"
            [] Len(L) = s.count /\ s.head # HeadOf(L) -> "HEAD_MISMATCH"
            [] OTHER -> "OK"
    BY <1>5, <2>1 DEF gfsj_verify
  <2>4. CASE Len(L) < s.count
    <3>1. gfsj_verify(L, s) = "TRUNCATED" BY <2>2, <2>3, <2>4
    <3> QED BY <3>1, <2>1, <2>4
  <2>5. CASE Len(L) > s.count
    <3>1. gfsj_verify(L, s) = "EXTENDED" BY <2>2, <2>3, <2>5
    <3> QED BY <3>1
  <2>6. CASE Len(L) = s.count
    <3>1. gfsj_verify(L, s) = IF s.head # HeadOf(L) THEN "HEAD_MISMATCH" ELSE "OK"
      BY <2>2, <2>3, <2>6
    <3> QED BY <3>1, <2>1, <2>6, <1>5
  <2> QED BY <2>2, <2>4, <2>5, <2>6
<1> QED BY <1>1, <1>2, <1>3, <1>4, <1>5

\* What a boot says of the journal is explained by what has happened to it.
LEMMA VerdictStep ==
  ASSUME Types, Phases, InOrder, Sealed, VerdictExplained, [Next]_vars PROVE VerdictExplained'
<1>1. CASE UNCHANGED vars
  BY <1>1 DEF VerdictExplained, vars, disk, kernel, local, hist
<1>2. CASE VerifyStep
  <2>1. PICK L \in {log, <<>>}, s \in {seal, NoSeal} :
          BootVerify(L, s) /\ ((L = log /\ s = seal /\ odd' = odd) \/ odd' = odd \cup {"misread"})
    BY <1>2 DEF VerifyStep
  <2>2. verdict' = gfsj_verify(L, s) BY <2>1 DEF BootVerify
  <2>3. pc[Kernel] = "boot" /\ pc[Kernel] \notin Moving BY <2>1 DEF BootVerify, Goto, Moving
  <2>4. L \in Seq(Entry) /\ s \in Seal \cup {NoSeal, BadSeal}
    <3>1. <<>> \in Seq(Entry) OBVIOUS
    <3> QED BY <3>1 DEF Types
  <2>5. ASSUME verdict' = "CHAIN_BREAK" PROVE "race" \in odd' \/ "misread" \in odd'
    <3>1. Whole(L) /\ ~ChainOk(L) BY <2>2, <2>4, <2>5, VerifySays
    <3> SUFFICES ASSUME "misread" \notin odd', "race" \notin odd' PROVE FALSE OBVIOUS
    <3>2. L = log /\ odd' = odd BY <2>1
    <3> QED BY <3>1, <3>2 DEF InOrder, Reading
  <2>6. ASSUME verdict' = "TRUNCATED" PROVE "cut" \in odd' \/ "misread" \in odd'
    <3>1. s \in Seal /\ Len(L) < s.count BY <2>2, <2>4, <2>6, VerifySays
    <3> SUFFICES ASSUME "misread" \notin odd', "cut" \notin odd' PROVE FALSE OBVIOUS
    <3>2. L = log /\ s = seal /\ odd' = odd BY <2>1
    <3>3. seal.count <= Len(log) BY <3>1, <3>2, <2>3 DEF Sealed
    <3>4. seal.count \in Nat /\ Len(log) \in Nat BY <3>1, <3>2 DEF Seal, Types
    <3> QED BY <3>1, <3>2, <3>3, <3>4
  <2>7. ASSUME verdict' = "HEAD_MISMATCH" PROVE "cut" \in odd' /\ "misread" \in odd'
    <3>1. s \in Seal /\ ChainOk(L) /\ Len(L) = s.count /\ s.head # HeadOf(L)
      BY <2>2, <2>4, <2>7, VerifySays
    <3>2. s = seal BY <3>1, FilesAssumption
    <3>3. L = log
      <4>1. Len(<<>>) = 0 OBVIOUS
      <4>2. seal.count > 0 /\ seal.count \in Nat BY <3>1, <3>2 DEF Sealed, Seal
      <4> QED BY <4>1, <4>2, <3>1, <3>2
    <3>4. ~Trusted BY <3>1, <3>2, <3>3 DEF Sealed
    <3>5. odd \subseteq odd' BY <2>1
    <3> QED BY <3>4, <3>5 DEF Trusted
  <2> QED BY <2>5, <2>6, <2>7 DEF VerdictExplained
<1>3. CASE AsideStep \/ BootRestart
  <2>1. verdict' = verdict /\ odd' = odd BY <1>3 DEF AsideStep, Aside, BootRestart, kernel
  <2> QED BY <2>1 DEF VerdictExplained
<1>4. CASE Crash
  <2>1. verdict' = "OK" BY <1>4 DEF Crash, Volatile
  <2> QED BY <2>1 DEF VerdictExplained
<1>5. ASSUME NEW w \in Writer, WriterStep(w) PROVE VerdictExplained'
  <2>1. verdict' = verdict /\ odd \subseteq odd' BY <1>5, WriterFrame
  <2> QED BY <2>1 DEF VerdictExplained
<1> QED BY <1>1, <1>2, <1>3, <1>4, <1>5, StepKinds
-----------------------------------------------------------------------------
(* Revocation. *)

\* Folding a record keeps marked edges marked, unless it brings another edge of
\* that name; and a revocation marks its own.
LEMMA ApplyMarks ==
  ASSUME NEW g \in Graph, NEW r \in Record, NEW cur, Distinct(g.edges)
  PROVE  /\ \A s : s # r.seq /\ Marked(g.edges, s) => Marked(gfsf_apply(g, r, cur).edges, s)
         /\ IsRevoke(r.op) => Marked(gfsf_apply(g, r, cur).edges, r.op.seq)
<1> DEFINE e == [seq |-> r.seq, edge |-> r.op.edge, revoked |-> FALSE]
           E == gfsf_apply(g, r, cur).edges
<1>1. g.edges \in Seq(Edge) BY DEF Graph
<1>2. e.seq = r.seq OBVIOUS
<1> HIDE DEF e, E
<1>3. ASSUME E = g.edges, ~IsRevoke(r.op)
      PROVE  /\ \A s : s # r.seq /\ Marked(g.edges, s) => Marked(E, s)
             /\ IsRevoke(r.op) => Marked(E, r.op.seq)
  BY <1>3
<1>4. ASSUME E = Append(g.edges, e), ~IsRevoke(r.op)
      PROVE  /\ \A s : s # r.seq /\ Marked(g.edges, s) => Marked(E, s)
             /\ IsRevoke(r.op) => Marked(E, r.op.seq)
  <2>1. DOMAIN E = 1..(Len(g.edges) + 1) /\ DOMAIN g.edges = 1..Len(g.edges) /\ Len(g.edges) \in Nat
    BY <1>1, <1>4
  <2>2. \A k \in DOMAIN g.edges : E[k] = g.edges[k] BY <1>1, <1>4
  <2>3. E[Len(g.edges) + 1] = e BY <1>1, <1>4
  <2>4. \A k \in DOMAIN E : k \in DOMAIN g.edges \/ k = Len(g.edges) + 1 BY <2>1
  <2> QED BY <2>2, <2>3, <2>4, <1>2, <1>4 DEF Marked
<1>5. ASSUME IsRevoke(r.op), E = Revoke(g.edges, r.op.seq)
      PROVE  /\ \A s : s # r.seq /\ Marked(g.edges, s) => Marked(E, s)
             /\ IsRevoke(r.op) => Marked(E, r.op.seq)
  <2>1. DOMAIN E = DOMAIN g.edges BY <1>5 DEF Revoke
  <2>2. \A k \in DOMAIN g.edges : /\ E[k].seq = g.edges[k].seq
                                  /\ g.edges[k].revoked \/ g.edges[k].seq = r.op.seq => E[k].revoked
    BY <1>1, <1>5, RevokeMarks
  <2> QED BY <2>1, <2>2 DEF Marked
<1>6. \/ E = g.edges /\ ~IsRevoke(r.op)
      \/ r.op.op = "EDGE_ADD" /\ E = Append(g.edges, e)
      \/ IsRevoke(r.op) /\ E = Revoke(g.edges, r.op.seq)
  BY ApplyEdges DEF e, E
<1>7. r.op.op = "EDGE_ADD" => ~IsRevoke(r.op) BY DEF IsRevoke
<1>8. /\ \A s : s # r.seq /\ Marked(g.edges, s) => Marked(E, s)
      /\ IsRevoke(r.op) => Marked(E, r.op.seq)
  BY <1>3, <1>4, <1>5, <1>6, <1>7
<1> QED BY <1>8 DEF E

\* A graph without edges has nothing to mark.
LEMMA NoEdges ==
  ASSUME NEW n PROVE Below(gfsf_reset.edges, n) /\ Distinct(gfsf_reset.edges)
BY ResetType DEF Below, Distinct

\* The operations that an append has yet to write are typed.
LEMMA RevokeSeq ==
  ASSUME NEW o \in Ops, IsRevoke(o) PROVE o.seq \in Nat
BY DEF Ops, NodeOps, GrantOps, RevokeOps, Note, IsRevoke

\* Names stay unique, and what was revoked stays marked.
LEMMA NamedStep ==
  ASSUME Types, Phases, Behind, InOrder, Named, [Next]_vars PROVE Named'
<1>1. CASE UNCHANGED vars BY <1>1 DEF Named, vars, disk, kernel, local, hist
<1>2. CASE VerifyStep
  <2>1. PICK L \in {log, <<>>}, s \in {seal, NoSeal} :
          BootVerify(L, s) /\ ((L = log /\ s = seal /\ odd' = odd) \/ odd' = odd \cup {"misread"})
    BY <1>2 DEF VerifyStep
  <2>2. \A w \in Writer : pc'[w] \notin Appending BY <1>2, Quiet
  <2>3. ~g_ready BY <2>1, JournalAssumption DEF BootVerify, Goto, Phases, Active, Appending
  <2>4. revoked' = {} BY <2>1, <2>3 DEF BootVerify, Phases
  <2>5. CASE verdict' = "OK"
    <3>1. todo' = [todo EXCEPT ![Kernel] = <<Note("BOOT")>>] BY <2>1, <2>5 DEF BootVerify
    <3>2. \A w \in Writer : \A i \in DOMAIN todo'[w] : ~IsRevoke(todo'[w][i])
      <4> SUFFICES ASSUME NEW w \in Writer, NEW i \in DOMAIN todo'[w] PROVE ~IsRevoke(todo'[w][i]) OBVIOUS
      <4>1. CASE w = Kernel
        <5>1. todo'[w] = <<Note("BOOT")>> BY <4>1, <3>1 DEF Types
        <5>2. todo'[w][i] = Note("BOOT") BY <5>1
        <5> QED BY <5>2, Notes
      <4>2. CASE w # Kernel
        <5>1. todo'[w] = <<>> BY <4>2, <3>1, <2>3 DEF Types, Phases
        <5> QED BY <5>1
      <4> QED BY <4>1, <4>2
    <3>3. gfsj_verify(L, s) = "OK" /\ g_count' = Len(L) /\ graph' = gfs_fold_replay(L, NextGen(s))
      BY <2>1, <2>5 DEF BootVerify
    <3>4. L \in Seq(Record) /\ ChainOk(L) BY <3>3, ReadOf
    <3>5. \A k \in DOMAIN L : L[k].seq = k - 1 BY <3>4 DEF ChainOk, SeqOk
    <3>6. Below(graph'.edges, g_count') /\ Distinct(graph'.edges) BY <3>3, <3>4, <3>5, ReplayNames
    <3> QED BY <3>2, <3>6, <2>2, <2>4 DEF Named, Appending
  <2>6. CASE verdict' # "OK"
    <3>1. graph' = gfsf_reset /\ todo' = [w \in Writer |-> <<>>] BY <2>1, <2>3, <2>6 DEF BootVerify, Phases
    <3>2. \A w \in Writer : todo'[w] = <<>> BY <3>1
    <3> QED BY <3>1, <3>2, <2>2, <2>4, NoEdges DEF Named, Appending
  <2> QED BY <2>5, <2>6
<1>3. CASE AsideStep
  <2>1. \A w \in Writer : pc'[w] \notin Appending BY <1>3, Quiet
  <2>2. UNCHANGED <<graph, g_count, revoked, todo, odd>> BY <1>3 DEF AsideStep, Aside, kernel
  <2> QED BY <2>1, <2>2 DEF Named, Appending
<1>4. CASE BootRestart
  <2>1. \A w \in Writer : pc'[w] \notin Appending BY <1>4, Quiet
  <2>2. graph' = gfsf_reset /\ revoked' = revoked /\ pc[Kernel] = "del_seal"
        /\ todo' = [todo EXCEPT ![Kernel] = <<Note("CHECKPOINT"), Note("BOOT")>>]
    BY <1>4 DEF BootRestart, Goto
  <2>3. ~g_ready BY <2>2, JournalAssumption DEF Phases, Active, Appending
  <2>4. revoked' = {} BY <2>2, <2>3 DEF Phases
  <2>5. \A w \in Writer : \A i \in DOMAIN todo'[w] : ~IsRevoke(todo'[w][i])
    <3> SUFFICES ASSUME NEW w \in Writer, NEW i \in DOMAIN todo'[w] PROVE ~IsRevoke(todo'[w][i]) OBVIOUS
    <3>1. CASE w = Kernel
      <4>1. todo'[w] = <<Note("CHECKPOINT"), Note("BOOT")>> BY <3>1, <2>2 DEF Types
      <4>2. todo'[w][i] \in {Note("CHECKPOINT"), Note("BOOT")} BY <4>1
      <4> QED BY <4>2, Notes
    <3>2. CASE w # Kernel
      <4>1. todo'[w] = <<>> BY <3>2, <2>2, <2>3 DEF Types, Phases
      <4> QED BY <4>1
    <3> QED BY <3>1, <3>2
  <2> QED BY <2>1, <2>2, <2>4, <2>5, NoEdges DEF Named, Appending
<1>5. CASE Crash
  <2>1. \A w \in Writer : pc'[w] \notin Appending BY <1>5, Quiet
  <2>2. graph' = gfsf_reset /\ revoked' = {} /\ todo' = [w \in Writer |-> <<>>]
    BY <1>5 DEF Crash, Volatile
  <2>3. \A w \in Writer : todo'[w] = <<>> BY <2>2
  <2> QED BY <2>1, <2>2, <2>3, NoEdges DEF Named, Appending
<1>6. ASSUME NEW w \in Writer, WriterStep(w) PROVE Named'
  <2>1. /\ g_ready /\ (g_count' = g_count \/ g_count' = g_count + 1) /\ odd \subseteq odd'
        /\ \A v \in Writer \ {w} : pc'[v] = pc[v] /\ todo'[v] = todo[v] /\ rec'[v] = rec[v]
    BY <1>6, WriterFrame
  <2>2. g_count \in Nat /\ g_count' \in Nat /\ g_count <= g_count' BY <2>1 DEF Types
  <2>3. Below(graph'.edges, g_count')
    <3>1. CASE AppendFold(w)
      <4>1. g_count' = g_count + 1 /\ graph' = gfsf_apply(graph, rec[w], g_boot_gen) /\ pc[w] = "fold"
        BY <1>6, <3>1, CountAndLog DEF gfs_fold_on_record
      <4>2. rec[w] \in Record /\ rec[w].seq <= g_count BY <4>1 DEF Phases, Behind, Appending
      <4>3. graph \in Graph /\ Below(graph.edges, g_count) BY DEF Types, Named
      <4> QED BY <4>1, <4>2, <4>3, <2>2, ApplyNames
    <3>2. CASE ~AppendFold(w)
      <4>1. g_count' = g_count /\ graph' = graph BY <1>6, <3>2, CountAndLog
      <4> QED BY <4>1 DEF Named
    <3> QED BY <3>1, <3>2
  <2>4. \A s \in revoked' : s \in Nat /\ s < g_count'
    <3>1. CASE AckStep(w)
      <4>1. revoked' = (IF rec[w].op.op = "EDGE_REVOKE" THEN revoked \cup {rec[w].op.seq} ELSE revoked)
            /\ pc[w] = "seal"
        BY <3>1 DEF AckStep, Acknowledge, Return, Goto
      <4>2. rec[w] \in Record BY <4>1 DEF Phases, Appending
      <4>3. rec[w].op \in Ops BY <4>2 DEF Record
      <4>4. ASSUME IsRevoke(rec[w].op) PROVE rec[w].op.seq \in Nat /\ rec[w].op.seq < g_count
        BY <4>1, <4>3, <4>4, RevokeSeq DEF Named, Appending
      <4> QED BY <4>1, <4>4, <2>2 DEF Named, IsRevoke
    <3>2. CASE ~AckStep(w)
      <4>1. revoked' = revoked
        BY <1>6, <3>2 DEF WriterStep, Mutate, AppendRefuse, AppendTest, AppendEncode, AppendWrite,
                          AppendFail, AppendFold, hist
      <4> QED BY <4>1, <2>2 DEF Named
    <3> QED BY <3>1, <3>2
  <2>5. \A v \in Writer : \A i \in DOMAIN todo[v] : IsRevoke(todo[v][i]) =>
          todo[v][i].seq \in Nat /\ todo[v][i].seq < g_count
    <3> SUFFICES ASSUME NEW v \in Writer, NEW i \in DOMAIN todo[v], IsRevoke(todo[v][i])
                 PROVE  todo[v][i].seq \in Nat /\ todo[v][i].seq < g_count
      OBVIOUS
    <3>1. todo[v] \in Seq(Ops) BY DEF Types
    <3>2. todo[v][i] \in Ops BY <3>1
    <3> QED BY <3>2, RevokeSeq DEF Named
  <2>6. \A i \in DOMAIN todo'[w] : IsRevoke(todo'[w][i]) => todo'[w][i].seq < g_count'
    <3>1. CASE Mutate(w)
      <4>1. PICK o \in Requests : todo' = [todo EXCEPT ![w] = <<o>>] BY <3>1 DEF Mutate
      <4>2. todo'[w] = <<o>> BY <4>1 DEF Types
      <4>3. o \in Ops /\ (IsRevoke(o) => o.seq < g_count) BY <4>1, RequestOps
      <4>4. IsRevoke(o) => o.seq \in Nat BY <4>3, RevokeSeq
      <4>5. \A i \in DOMAIN todo'[w] : todo'[w][i] = o BY <4>2
      <4> QED BY <4>3, <4>4, <4>5, <2>2
    <3>2. CASE AppendRefuse(w) \/ AppendFail(w) \/ AckStep(w)
      <4>1. PICK a \in {"enter", "write", "seal"} : Return(w, a)
        BY <3>2 DEF AppendRefuse, AppendFail, AckStep, Acknowledge
      <4>2. todo[w] # <<>> BY <4>1 DEF Return, Goto, Phases, Active, Appending
      <4>3. \A i \in DOMAIN todo'[w] : \E j \in DOMAIN todo[w] : todo'[w][i] = todo[w][j]
        BY <4>1, <4>2, ReturnTypes
      <4> QED BY <4>3, <2>2, <2>5
    <3>3. CASE AppendTest(w) \/ AppendEncode(w) \/ AppendWrite(w) \/ AppendFold(w)
      <4>1. todo' = todo BY <3>3 DEF AppendTest, AppendEncode, AppendWrite, AppendFold
      <4> QED BY <4>1, <2>2, <2>5
    <3> QED BY <1>6, <3>1, <3>2, <3>3 DEF WriterStep
  <2>7. \A v \in Writer : \A i \in DOMAIN todo'[v] : IsRevoke(todo'[v][i]) => todo'[v][i].seq < g_count'
    BY <2>1, <2>2, <2>5, <2>6
  <2>8. \A v \in Writer : pc[v] \in Appending /\ IsRevoke(rec[v].op) =>
          rec[v].op.seq \in Nat /\ rec[v].op.seq < g_count
    <3> SUFFICES ASSUME NEW v \in Writer, pc[v] \in Appending, IsRevoke(rec[v].op)
                 PROVE  rec[v].op.seq \in Nat /\ rec[v].op.seq < g_count
      OBVIOUS
    <3>1. rec[v].op \in Ops BY DEF Phases, Record
    <3> QED BY <3>1, RevokeSeq DEF Named
  <2>9. pc'[w] \in Appending /\ IsRevoke(rec'[w].op) => rec'[w].op.seq < g_count'
    <3>1. CASE AppendEncode(w)
      <4>1. todo[w] # <<>> BY <3>1 DEF AppendEncode, Goto, Phases, Active
      <4>2. rec'[w] = Encode(g_count, g_boot_gen, Head(todo[w]), g_head) BY <3>1 DEF AppendEncode, Types
      <4>3. rec'[w].op = todo[w][1] /\ 1 \in DOMAIN todo[w] BY <4>1, <4>2, EncodeType DEF Encode
      <4> QED BY <4>3, <2>2, <2>5
    <3>2. CASE AppendWrite(w) \/ AppendFold(w)
      <4>1. rec' = rec /\ pc[w] \in Appending
        BY <3>2 DEF AppendWrite, AppendFold, Goto, Appending
      <4> QED BY <4>1, <2>2, <2>8
    <3>3. CASE ~AppendEncode(w) /\ ~AppendWrite(w) /\ ~AppendFold(w)
      <4>1. pc'[w] \in {"enter", "encode", "idle"}
        BY <1>6, <3>3 DEF WriterStep, Mutate, AppendRefuse, AppendTest, AppendFail,
                          AckStep, Acknowledge, Return, Goto, Types
      <4> QED BY <4>1 DEF Appending
    <3> QED BY <3>1, <3>2, <3>3
  <2>10. \A v \in Writer : pc'[v] \in Appending /\ IsRevoke(rec'[v].op) => rec'[v].op.seq < g_count'
    BY <2>1, <2>2, <2>8, <2>9
  <2>11. ASSUME "race" \notin odd'
         PROVE  /\ Distinct(graph'.edges)
                /\ \A s \in revoked' : Marked(graph'.edges, s)
                /\ \A v \in Writer : pc'[v] = "seal" /\ IsRevoke(rec'[v].op)
                                       => Marked(graph'.edges, rec'[v].op.seq)
    <3>1. /\ Distinct(graph.edges)
          /\ \A s \in revoked : Marked(graph.edges, s)
          /\ \A v \in Writer : pc[v] = "seal" /\ IsRevoke(rec[v].op) => Marked(graph.edges, rec[v].op.seq)
          /\ \A u, v \in Writer : pc[u] \in Appending /\ pc[v] \in Appending => u = v
          /\ \A v \in Writer : pc[v] \in {"write", "fold"} => rec[v].seq = g_count
      BY <2>1, <2>11 DEF Named, InOrder
    <3>2. CASE AppendFold(w)
      <4>1. graph' = gfsf_apply(graph, rec[w], g_boot_gen) /\ pc[w] = "fold" /\ rec' = rec
        BY <1>6, <3>2, CountAndLog DEF gfs_fold_on_record
      <4>2. rec[w] \in Record /\ rec[w].seq = g_count BY <3>1, <4>1 DEF Phases, Appending
      <4>3. graph \in Graph /\ Below(graph.edges, g_count) BY DEF Types, Named
      <4>4. rec[w].seq <= g_count BY <4>2, <2>2
      <4>5. Distinct(graph'.edges) BY <3>1, <4>1, <4>2, <4>3, <4>4, <2>2, ApplyNames
      <4>6. /\ \A s : s # g_count /\ Marked(graph.edges, s) => Marked(graph'.edges, s)
            /\ IsRevoke(rec[w].op) => Marked(graph'.edges, rec[w].op.seq)
        BY <3>1, <4>1, <4>2, <4>3, ApplyMarks
      <4>7. revoked' = revoked BY <3>2 DEF AppendFold, hist
      <4>8. \A s \in revoked : s # g_count BY <2>2 DEF Named
      <4>9. \A v \in Writer : pc'[v] = "seal" => v = w
        BY <2>1, <3>1, <4>1 DEF Appending
      <4> QED BY <3>1, <4>1, <4>5, <4>6, <4>7, <4>8, <4>9
    <3>3. CASE AckStep(w)
      <4>1. /\ revoked' = (IF rec[w].op.op = "EDGE_REVOKE" THEN revoked \cup {rec[w].op.seq} ELSE revoked)
            /\ pc[w] = "seal" /\ graph' = graph
            /\ pc'[w] \in {"enter", "idle"}
        BY <3>3 DEF AckStep, Acknowledge, Return, Goto, Types
      <4> QED BY <3>1, <4>1, <2>1 DEF IsRevoke
    <3>4. CASE ~AppendFold(w) /\ ~AckStep(w)
      <4>1. revoked' = revoked
        BY <1>6, <3>4 DEF WriterStep, Mutate, AppendRefuse, AppendTest, AppendEncode, AppendWrite,
                          AppendFail, hist
      <4>2. pc'[w] # "seal"
        BY <1>6, <3>4 DEF WriterStep, Mutate, AppendRefuse, AppendTest, AppendEncode, AppendWrite,
                          AppendFail, Return, Goto, Types
      <4>3. graph' = graph BY <1>6, <3>4, CountAndLog
      <4> QED BY <3>1, <4>1, <4>2, <4>3, <2>1
    <3> QED BY <3>2, <3>3, <3>4
  <2> QED BY <2>3, <2>4, <2>7, <2>10, <2>11 DEF Named
<1> QED BY <1>1, <1>2, <1>3, <1>4, <1>5, <1>6, StepKinds
-----------------------------------------------------------------------------
(* The invariant, and the theorems. *)

\* What the journal keeps true.
JournalInv ==
  /\ Types /\ Phases /\ Kept /\ Generations /\ Behind /\ Aligned /\ Folded /\ InOrder /\ Sealed
  /\ Named /\ VerdictExplained

\* It holds of a machine that has just been switched on.
LEMMA InitInv == Init => JournalInv
<1> SUFFICES ASSUME Init PROVE JournalInv OBVIOUS
<1>1. /\ log = FirstLog /\ seal = FirstSeal /\ badlog = <<>>
      /\ g_ready = FALSE /\ g_boot_gen = 0 /\ g_count = 0 /\ g_head = <<>> /\ g_in_append = FALSE
      /\ graph = gfsf_reset /\ degraded = FALSE /\ verdict = "OK"
      /\ pc = [w \in Writer |-> IF w = Kernel THEN "boot" ELSE "idle"]
      /\ todo = [w \in Writer |-> <<>>] /\ rec = [w \in Writer |-> Torn]
      /\ acked = {log[k] : k \in DOMAIN log} /\ revoked = {} /\ born = 0 /\ odd = {}
  BY DEF Init
<1>2. /\ log \in Seq(Entry) /\ ChainOk(log) /\ Len(log) = Len(FirstOps) /\ Len(log) \in Nat
      /\ UpTo(HeadOf(log), 1) /\ HeadOf(log) \in Hash
  BY <1>1, FirstLogOk
<1>3. /\ seal \in Seal \cup {NoSeal, BadSeal}
      /\ seal \in Seal => /\ seal.count = Len(log) /\ seal.count > 0
                          /\ seal.gen = 1 /\ seal.head = HeadOf(log)
  <2>1. CASE FirstOps = <<>> BY <2>1, <1>1, FilesAssumption DEF FirstSeal
  <2>2. CASE FirstOps # <<>>
    <3>1. Len(FirstOps) > 0 BY <2>2, JournalAssumption
    <3>2. seal = [count |-> Len(FirstOps), gen |-> 1, head |-> HeadOf(log)] BY <1>1, <2>2 DEF FirstSeal
    <3> QED BY <3>1, <3>2, <1>2 DEF Seal
  <2> QED BY <2>1, <2>2
<1>4. /\ pc[Kernel] = "boot" /\ \A w \in Writer : pc[w] \in {"boot", "idle"}
      /\ \A w \in Writer \ {Kernel} : pc[w] = "idle"
  BY <1>1, JournalAssumption
<1>5. \A w \in Writer : pc[w] \notin Active /\ todo[w] = <<>> BY <1>1, <1>4 DEF Active, Appending
<1>6. Types
  <2>1. <<>> \in Seq(Entry) /\ <<>> \in Hash /\ <<>> \in Seq(Ops) /\ Torn \in Entry BY DEF Hash, Entry
  <2>2. pc \in [Writer -> Points] BY <1>1 DEF Points
  <2> QED BY <1>1, <1>2, <1>3, <2>1, <2>2, ResetType DEF Types
<1>7. Phases BY <1>1, <1>4, <1>5 DEF Phases, Active, Moving
<1>8. Kept BY <1>1, <1>4, <1>5 DEF Kept, Records, Moving, Active, Appending
<1>9. Generations BY <1>1, <1>2, <1>3, <1>5 DEF Generations, Active
<1>10. Behind /\ Aligned /\ Folded BY <1>1, <1>5 DEF Behind, Aligned, Folded, Active
<1>11. InOrder BY <1>2, <1>5 DEF InOrder, Active, Appending
<1>12. Sealed BY <1>1, <1>2, <1>3, <1>5 DEF Sealed, Active, Appending
<1>13. Named BY <1>1, <1>5, NoEdges DEF Named, Active, Appending
<1>14. VerdictExplained BY <1>1 DEF VerdictExplained
<1> QED BY <1>6, <1>7, <1>8, <1>9, <1>10, <1>11, <1>12, <1>13, <1>14 DEF JournalInv

\* It holds for ever.
LEMMA InvHolds == Spec => []JournalInv
<1>1. JournalInv /\ [Next]_vars => JournalInv'
  BY TypesStep, PhasesStep, KeptStep, GenerationsStep, BehindStep, AlignedStep, FoldedStep,
     InOrderStep, SealedStep, NamedStep, VerdictStep DEF JournalInv
<1> QED BY <1>1, InitInv, PTL DEF Spec

\* gfsj_encode, the fold, the files and the kernel's state keep their types,
\* whatever log was replayed.
THEOREM TypesHold == Spec => []TypeOK
<1>1. JournalInv => TypeOK BY DEF JournalInv, Types, Phases, TypeOK, Entry, Appending
<1> QED BY <1>1, InvHolds, PTL

\* gfs_fold_on_record keeps the graph what replaying the log would give.
THEOREM FoldIsReplay == Spec => []GraphIsFold
<1>1. JournalInv => GraphIsFold
  <2> SUFFICES ASSUME JournalInv, g_ready, Reading, ChainOk(log), \A w \in Writer : pc[w] # "fold"
               PROVE  graph = gfs_fold_replay(log, g_boot_gen)
    BY DEF GraphIsFold
  <2>1. Folding = {} BY DEF Folding
  <2>2. g_count = Len(log) BY <2>1 DEF JournalInv, Aligned
  <2>3. graph = gfs_fold_replay(SubSeq(log, 1, g_count), g_boot_gen) BY DEF JournalInv, Folded
  <2>4. SubSeq(log, 1, Len(log)) = log BY DEF JournalInv, Types
  <2> QED BY <2>2, <2>3, <2>4
<1> QED BY <1>1, InvHolds, PTL

\* gfs_journal_init takes a generation that no record of the log has.
THEOREM GenerationsFresh == Spec => []FreshGeneration
<1>1. JournalInv => FreshGeneration BY DEF JournalInv, Generations, FreshGeneration
<1> QED BY <1>1, InvHolds, PTL

\* What gfs_grant_revoke reported done stays done, unless appends overlapped.
THEOREM RevocationsStick == Spec => []RevokeSticks
<1>1. JournalInv => RevokeSticks BY DEF JournalInv, Named, Marked, RevokeSticks
<1> QED BY <1>1, InvHolds, PTL

\* gfs_journal_append_seq reports success only of records that are in the log.
THEOREM NothingLost == Spec => []NothingLostSilently
<1>1. JournalInv => NothingLostSilently BY DEF JournalInv, Kept, Records, NothingLostSilently
<1> QED BY <1>1, InvHolds, PTL

\* gfsj_verify does not take a plain crash or a failed write for tampering.
THEOREM VerdictsExplained == Spec => []VerdictExplained
<1>1. JournalInv => VerdictExplained BY DEF JournalInv
<1> QED BY <1>1, InvHolds, PTL
=============================================================================
