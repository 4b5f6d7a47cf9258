------------------------- MODULE MCLabelGeneration -------------------------
(***************************************************************************)
(* LabelGeneration on degree-ordered graphs of four vertices and four      *)
(* edges, one of them heavy enough for a detour to beat it, with groups in *)
(* the order the degree sort leaves.  A CPU executor alone gets the        *)
(* triangle as a group of three tasks, and then another group; a CPU       *)
(* executor beside a GPU one gets a group of two tasks, or a group of one  *)
(* and, if it was the faster, the last group too.                          *)
(***************************************************************************)
EXTENDS LabelGeneration

CONSTANTS Light, Heavy

Edges(g, weight) == {p \in Vertices \X Vertices : p[1] < p[2] /\ g[p] = weight}
MCGraphs ==
  {g \in WeightedGraphs({Light, Heavy}) :
     /\ NoIsolated(g) /\ DegreeOrdered(g)
     /\ Cardinality(Edges(g, Light)) = 3 /\ Cardinality(Edges(g, Heavy)) = 1}

MCGroupings == {<< <<2, 0, 1>>, <<3>> >>, << <<0, 1>>, <<3, 2>> >>,
                << <<2, 0>>, <<1>>, <<3>> >>}
MCCoreCounts == {<<1, 0>>, <<1, 1>>}

MCInit ==
  LET alone == \A x \in pqGen : x.type = 0
  IN  /\ GenerationInit
      /\ alone <=> Len(groups[1]) = 3
      /\ alone => {<<0, 1>>, <<0, 2>>, <<1, 2>>} \subseteq
                    Edges(w, Light) \cup Edges(w, Heavy)

MCSpec == MCInit /\ [][GenerationNext]_genVars /\ GenerationFairness
=============================================================================
