----------------------------- MODULE MCChecker -----------------------------
(***************************************************************************)
(* Checker on the cleaned indexes of degree-ordered graphs; where a     *)
(* label has several parents, all take the first or all take the last.     *)
(***************************************************************************)
EXTENDS Checker

CONSTANTS WeightSet, MaxEdges

Edges(g) == {p \in DOMAIN g : p[1] < p[2] /\ g[p] > 0}
MCGraphs == {g \in WeightedGraphs(WeightSet) :
               NoIsolated(g) /\ DegreeOrdered(g) /\ Cardinality(Edges(g)) <= MaxEdges}

Parents(x, v, l) ==
  IF l.hop = 0 THEN {v}
  ELSE {u \in Nbrs(x.w, v) :
          [hub |-> l.hub, hop |-> l.hop - 1, dist |-> l.dist - x.w[<<u, v>>]]
             \in x.labels[u]}

Rows(x, Pick(_)) ==
  [v \in Vertices |->
     LET row == SortLabels(x.labels[v])
     IN  [n \in DOMAIN row |->
            [hub |-> row[n].hub, hop |-> row[n].hop, dist |-> row[n].dist,
             par |-> Pick(Parents(x, v, row[n]))]]]

MCIndexes ==
  LET cleaned == {[w |-> g, labels |-> CanonicalLabels(g)] : g \in MCGraphs}
  IN  {[w |-> x.w, rows |-> Rows(x, Min)] : x \in cleaned}
        \cup {[w |-> x.w, rows |-> Rows(x, Max)] : x \in cleaned}
=============================================================================
