---------------------------- MODULE MCPartition ----------------------------
(* Partition on every undirected graph of N vertices whose degrees fall,   *)
(* as the reorder step leaves them.                                        *)
EXTENDS Partition

MCGraphs ==
  {g \in [Vertices -> SUBSET Vertices] :
     /\ \A u, v \in Vertices : u \notin g[u] /\ (u \in g[v] <=> v \in g[u])
     /\ \A v \in 1 .. N - 1 : Cardinality(g[v - 1]) >= Cardinality(g[v])}
=============================================================================
