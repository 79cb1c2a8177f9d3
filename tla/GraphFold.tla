------------------------------ MODULE GraphFold -----------------------------
(***************************************************************************)
(* The graph that the GraphFS journal means: kernel/rustkern/gfsfold.rs.   *)
(* Each journal record is applied to the graph or refused, by gfsf_apply;  *)
(* at boot the graph is rebuilt by applying the verified log from its      *)
(* first record on.                                                        *)
(*                                                                         *)
(* Abstractions.  Every edge is a GRANT issued by the escrow: an edge of   *)
(* another relation differs in who may add it.  Kinds, parents, scopes and *)
(* expiry times, and the refusals of malformed records, are left out, and  *)
(* so are the counters.  AUDIT stands for every record the fold does not   *)
(* apply, the long payloads of caps.c included.                            *)
(***************************************************************************)
EXTENDS Naturals, Sequences, FiniteSets

CONSTANTS
  Node,      \* identities
  Grants,    \* <<holder, target>> pairs a grant may be asked for
  NodeCap,   \* NODE_CAP
  EdgeCap    \* EDGE_CAP

ASSUME GraphFoldAssumption ==
  /\ IsFiniteSet(Node) /\ Grants \subseteq Node \X Node
  /\ NodeCap \in Nat /\ EdgeCap \in Nat

NodeOps  == [op : {"NODE_CREATE", "NODE_RETIRE", "NODE_RESTORE"}, node : Node]
GrantOps == [op : {"EDGE_ADD"}, edge : Grants]
RevokeOps == [op : {"EDGE_REVOKE"}, seq : Nat]
Note(o)  == [op |-> o]
Ops == NodeOps \cup GrantOps \cup RevokeOps \cup {Note(o) : o \in {"BOOT", "CHECKPOINT", "AUDIT"}}

Edge  == [seq : Nat, edge : Grants, revoked : BOOLEAN]
Graph == [nodes : [Node -> {"NONE", "LIVE", "RETIRED"}], edges : Seq(Edge), overflow : BOOLEAN]

\* gfsf_reset
gfsf_reset == [nodes |-> [x \in Node |-> "NONE"], edges |-> <<>>, overflow |-> FALSE]

NodeCount(g) == Cardinality({x \in Node : g.nodes[x] # "NONE"})

\* What gfsf_apply answers to a record of generation gen, in both of its modes.
Refusal(g, o, gen, cur) ==
  CASE o.op = "NODE_CREATE" -> IF g.nodes[o.node] # "NONE" THEN "DUP_NODE"
                               ELSE IF NodeCount(g) >= NodeCap THEN "TABLE_FULL" ELSE "OK"
    [] o.op \in {"NODE_RETIRE", "NODE_RESTORE"} ->
         IF g.nodes[o.node] = "NONE" THEN "NO_NODE" ELSE "OK"
    [] o.op = "EDGE_ADD" ->
         IF \E k \in {1, 2} : g.nodes[o.edge[k]] # "LIVE" THEN "NOT_LIVE"
         ELSE IF gen = cur /\ Len(g.edges) >= EdgeCap THEN "TABLE_FULL" ELSE "OK"
    [] OTHER -> "OK"

\* apply_edge_revoke: the first edge of that name, and no edge is no error
Revoke(edges, s) ==
  [k \in DOMAIN edges |->
     [edges[k] EXCEPT !.revoked =
        @ \/ (edges[k].seq = s /\ \A j \in 1..k-1 : edges[j].seq # s)]]

\* gfsf_apply with dry_run = 0, of a record [seq, gen, op] in generation cur
gfsf_apply(g, r, cur) ==
  LET o == r.op IN
  CASE Refusal(g, o, r.gen, cur) = "TABLE_FULL" -> [g EXCEPT !.overflow = TRUE]
    [] Refusal(g, o, r.gen, cur) \notin {"OK", "TABLE_FULL"} -> g
    [] OTHER ->
         CASE o.op \in {"NODE_CREATE", "NODE_RESTORE"} -> [g EXCEPT !.nodes[o.node] = "LIVE"]
           [] o.op = "NODE_RETIRE" -> [g EXCEPT !.nodes[o.node] = "RETIRED"]
           [] o.op = "EDGE_ADD" /\ r.gen = cur ->
                [g EXCEPT !.edges = Append(@, [seq |-> r.seq, edge |-> o.edge, revoked |-> FALSE])]
           [] o.op = "EDGE_REVOKE" -> [g EXCEPT !.edges = Revoke(@, o.seq)]
           [] OTHER -> g

\* gfs_fold_replay: the graph of a whole log
gfs_fold_replay(log, cur) ==
  LET g[k \in 0..Len(log)] == IF k = 0 THEN gfsf_reset ELSE gfsf_apply(g[k-1], log[k], cur)
  IN  g[Len(log)]
=============================================================================
