----------------------------- MODULE HopLabels -----------------------------
(***************************************************************************)
(* What the components of MultiGPU4CL share: the weighted undirected graph *)
(* a label set is built for, the hop-constrained distances it must answer, *)
(* and what a label set promises.  Vertices are ranks: after               *)
(* graph_v_of_v_update_vertexIDs_by_degrees_large_to_small, 0 is the       *)
(* vertex of the largest degree, and a smaller id is a higher rank.        *)
(***************************************************************************)
EXTENDS Integers, Sequences, FiniteSets, FiniteSetsExt, Ordering

CONSTANTS
  N,    \* number of vertices
  K     \* hop_cst: the largest number of edges of an indexed path

ASSUME SizeAssumption == N \in Nat \ {0} /\ K \in Nat \ {0}

Vertices == 0 .. N - 1

(* What a hash lookup or a query answers when it finds nothing.            *)
Inf == 100000

(* w[<<u, v>>] is the weight of the edge between u and v, 0 if none.       *)
WeightedGraphs(Weights) ==
  LET Upper == {p \in Vertices \X Vertices : p[1] < p[2]}
      Weight(f, u, v) == IF u < v THEN f[<<u, v>>] ELSE IF v < u THEN f[<<v, u>>] ELSE 0
  IN  {[p \in Vertices \X Vertices |-> Weight(f, p[1], p[2])] :
         f \in [Upper -> Weights \cup {0}]}

Nbrs(w, v) == {u \in Vertices : w[<<v, u>>] > 0}

(* The order the reorder step leaves: degrees never grow with the id.      *)
DegreeOrdered(w) ==
  \A u, v \in Vertices :
     u < v => Cardinality(Nbrs(w, u)) >= Cardinality(Nbrs(w, v))

NoIsolated(w) == \A v \in Vertices : Nbrs(w, v) # {}

(* HopDist(w)[k][<<u, v>>]: length of a shortest walk of at most k edges.  *)
NoHops == [p \in Vertices \X Vertices |-> IF p[1] = p[2] THEN 0 ELSE Inf]
OneHopMore(w, shorter) ==
  [p \in Vertices \X Vertices |->
     Min({shorter[p]} \cup
         {Min({Inf, shorter[<<p[1], x>>] + w[<<x, p[2]>>]}) : x \in Nbrs(w, p[2])})]
HopDist(w) ==
  LET d[k \in 0 .. K] == IF k = 0 THEN NoHops ELSE OneHopMore(w, d[k - 1])
  IN  [k \in 0 .. K |-> d[k]]

(* WalkLengths(w, s)[h][v]: lengths of the walks of exactly h edges from s *)
(* to v that stay below s in rank after leaving it.                        *)
StandStill(s) == [v \in Vertices |-> IF v = s THEN {0} ELSE {}]
OneEdgeMore(w, s, walks) ==
  [v \in Vertices |->
     IF v <= s THEN {}
     ELSE UNION {{d + w[<<x, v>>] : d \in walks[x]} : x \in Nbrs(w, v)}]
WalkLengths(w, s) ==
  LET f[h \in 0 .. K] == IF h = 0 THEN StandStill(s) ELSE OneEdgeMore(w, s, f[h - 1])
  IN  [h \in 0 .. K |-> f[h]]

(* What a query over two label sets promises: the best meeting at a common *)
(* hub within k hops.                                                      *)
QueryDist(Lu, Lv, k) ==
  LET meetings == {p \in Lu \X Lv : /\ p[1].hub = p[2].hub
                                   /\ p[1].hop + p[2].hop <= k}
  IN  Min({Inf} \cup {p[1].dist + p[2].dist : p \in meetings})

(* The hop-constrained label cover: every query the index accepts gets the *)
(* true distance.                                                          *)
Covers(labels, w) ==
  LET D == HopDist(w)
  IN  \A k \in 0 .. K : \A u, v \in Vertices :
         QueryDist(labels[u], labels[v], k) = D[k][<<u, v>>]

(* No label of v can be answered, within its own hops, by a meeting of     *)
(* other labels: the label set holds nothing redundant.                    *)
Redundant(labels, v, l) ==
  \E a \in labels[v] \ {l}, b \in labels[l.hub] :
     /\ a.hub = b.hub
     /\ a.hop + b.hop <= l.hop
     /\ a.dist + b.dist <= l.dist

Minimal(labels) ==
  \A v \in Vertices : \A l \in labels[v] : ~Redundant(labels, v, l)

(* A label no index can do without: its hub is the highest ranked vertex   *)
(* that meets on a shortest path of its hops, and fewer hops cost more.    *)
Canonical(D, m, v, h) ==
  /\ D[h][<<m, v>>] < Inf
  /\ h > 0 => D[h][<<m, v>>] < D[h - 1][<<m, v>>]
  /\ \A x \in 0 .. m - 1, i \in 0 .. h :
       D[i][<<m, x>>] + D[h - i][<<x, v>>] > D[h][<<m, v>>]

CanonicalLabels(w) ==
  LET D == HopDist(w)
  IN  [v \in Vertices |->
         {[hub |-> p[1], hop |-> p[2], dist |-> D[p[2]][<<p[1], v>>]] :
            p \in {q \in Vertices \X (0 .. K) : Canonical(D, q[1], v, q[2])}}]

(* What races and groups may leave beside them: per hub and hop the least  *)
(* walk that stays below the hub in rank, if fewer hops cost more.         *)
SpareLabels(w) ==
  LET walks == [m \in Vertices |-> WalkLengths(w, m)]
      Least(m, h, v) == Min({Inf} \cup walks[m][h][v])
      Useful(m, h, v) == \A i \in 0 .. h - 1 : Least(m, i, v) > Least(m, h, v)
  IN  [v \in Vertices |->
         {[hub |-> p[1], hop |-> p[2], dist |-> Least(p[1], p[2], v)] :
            p \in {q \in (0 .. v - 1) \X (1 .. K) : Useful(q[1], q[2], v)}}]

(* compare_hop_constrained_two_hop_label: the order of a vertex's labels.  *)
LabelLess(a, b) ==
  \/ a.hub < b.hub
  \/ a.hub = b.hub /\ a.hop < b.hop
  \/ a.hub = b.hub /\ a.hop = b.hop /\ a.dist < b.dist
SortLabels(S) == Ordered(S, LabelLess)
=============================================================================
