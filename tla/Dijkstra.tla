------------------------------ MODULE Dijkstra ------------------------------
(***************************************************************************)
(* The hop-constrained Dijkstra the checker compares the index with: the   *)
(* loop graph_v_of_v_hop_constrained_shortest_distance and                 *)
(* ..._shortest_path share, and the backtracking of the latter.  A state   *)
(* of the queue is (distance, hops, vertex); distances are kept per vertex *)
(* and number of hops, and the loop ends when the terminal is popped.      *)
(***************************************************************************)
EXTENDS HopLabels

VARIABLES
  w,          \* the graph
  pq,         \* the queue: no state is pushed twice
  distAtHop,  \* dist_at_hop
  distance,   \* distance: the least of a vertex so far
  parent,     \* parent, per vertex and number of hops
  final       \* final_hop_at_terminal, -1 if not found

tables == <<distAtHop, distance, parent>>
vars == <<w, pq, tables, final>>
----------------------------------------------------------------------------
NoParent == -1

Init ==
  /\ pq = {} /\ final = -1
  /\ distAtHop = [v \in Vertices |-> [h \in 0 .. K |-> Inf]]
  /\ distance = [v \in Vertices |-> Inf]
  /\ parent = [v \in Vertices |-> [h \in 0 .. K |-> NoParent]]

(* A call sets its tables up and pushes the source.                        *)
Call(source) ==
  /\ pq' = {<<0, 0, source>>} /\ final' = -1
  /\ distAtHop' = [v \in Vertices |->
                     [h \in 0 .. K |-> IF v = source /\ h = 0 THEN 0 ELSE Inf]]
  /\ distance' = [v \in Vertices |-> IF v = source THEN 0 ELSE Inf]
  /\ parent' = [v \in Vertices |-> [h \in 0 .. K |-> NoParent]]

Less(a, b) ==
  \/ a[1] < b[1]
  \/ a[1] = b[1] /\ a[2] < b[2]
  \/ a[1] = b[1] /\ a[2] = b[2] /\ a[3] < b[3]
IsTop(x) == x \in pq /\ \A y \in pq : ~Less(y, x)

(* The terminal is popped: the loop ends and drops the queue.              *)
Arrive(terminal) ==
  /\ \E x \in pq : IsTop(x) /\ x[3] = terminal /\ final' = x[2]
  /\ pq' = {}
  /\ UNCHANGED <<w, tables>>

MutStale(d, h, u) == d > distance[u]
Stale(d, h, u) == d > distAtHop[u][h]

(* A state that was overtaken, or has no hop left, is dropped.             *)
Discard(terminal, hop_cst) ==
  /\ \E x \in pq :
       /\ IsTop(x) /\ x[3] # terminal
       /\ Stale(x[1], x[2], x[3]) \/ x[2] >= hop_cst
       /\ pq' = pq \ {x}
  /\ UNCHANGED <<w, tables, final>>

(* The neighbours a state improves at their number of hops.                *)
Improved(d, h, u) == {v \in Nbrs(w, u) : d + w[<<u, v>>] < distAtHop[v][h + 1]}

Expand(terminal, hop_cst) ==
  /\ \E x \in pq :
       LET d == x[1]  h == x[2]  u == x[3]
           New(v) == d + w[<<u, v>>]
       IN  /\ IsTop(x) /\ u # terminal
           /\ ~Stale(d, h, u) /\ h < hop_cst
           /\ pq' = (pq \ {x}) \cup {<<New(v), h + 1, v>> : v \in Improved(d, h, u)}
           /\ distAtHop' = [v \in Vertices |->
                IF v \in Improved(d, h, u) THEN [distAtHop[v] EXCEPT ![h + 1] = New(v)]
                ELSE distAtHop[v]]
           /\ distance' = [v \in Vertices |->
                IF v \in Improved(d, h, u) THEN Min({distance[v], New(v)}) ELSE distance[v]]
           /\ parent' = [v \in Vertices |->
                IF v \in Improved(d, h, u) THEN [parent[v] EXCEPT ![h + 1] = u]
                ELSE parent[v]]
  /\ UNCHANGED <<w, final>>

(* The vertices from the source to the terminal, found from behind.        *)
Path(source, terminal) ==
  LET at[h \in 0 .. final] ==
        IF h = final THEN terminal ELSE parent[at[h + 1]][h + 1]
  IN  IF final = -1 THEN <<>>
      ELSE [i \in 1 .. final + 1 |-> IF i = 1 THEN source ELSE at[i - 1]]
=============================================================================
