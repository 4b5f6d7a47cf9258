---------------------------- MODULE MCLabelClean ----------------------------
(***************************************************************************)
(* LabelClean on degree-ordered graphs: to the labels no index can do      *)
(* without, the spare labels of any subset of the vertices are added.      *)
(***************************************************************************)
EXTENDS LabelClean

CONSTANTS WeightSet

MCGraphs == {g \in WeightedGraphs(WeightSet) : NoIsolated(g) /\ DegreeOrdered(g)}

With(x, more) ==
  [v \in Vertices |->
     x.needed[v] \cup {l \in x.spare[v] :
        v \in more /\ \A y \in x.needed[v] : <<l.hub, l.hop>> # <<y.hub, y.hop>>}]

MCIndexes ==
  {[w |-> x.w, labels |-> With(x, more)] :
     x \in {[w |-> g, needed |-> CanonicalLabels(g), spare |-> SpareLabels(g)] :
              g \in MCGraphs},
     more \in SUBSET Vertices}
=============================================================================
