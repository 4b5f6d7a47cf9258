--------------------------- MODULE MCGpuLabelGen ---------------------------
(***************************************************************************)
(* GpuLabelGen on the degree-ordered graphs of a few vertices and edges:   *)
(* the weights 1 and 3 make a two-edge detour beat a direct edge, and each *)
(* grouping puts the vertices into groups in an order the degree sort of   *)
(* generate_Group_CDLP can leave.                                          *)
(***************************************************************************)
EXTENDS GpuLabelGen

CONSTANTS WeightSet, MaxEdges

EdgesOf(g) == {p \in Vertices \X Vertices : p[1] < p[2] /\ g[p] > 0}
MCGraphs ==
  {g \in WeightedGraphs(WeightSet) :
     Cardinality(EdgesOf(g)) <= MaxEdges /\ NoIsolated(g) /\ DegreeOrdered(g)}

MCGroupings ==
  IF N = 3
  THEN {<< <<0, 1, 2>> >>, << <<1, 2, 0>> >>, << <<0, 1>>, <<2>> >>,
        << <<2, 0>>, <<1>> >>, << <<0>>, <<1>>, <<2>> >>}
  ELSE {<< <<0, 1, 2, 3, 4>> >>, << <<0, 2, 4>>, <<3, 1>> >>,
        << <<1, 0>>, <<2, 4>>, <<3>> >>}
=============================================================================
