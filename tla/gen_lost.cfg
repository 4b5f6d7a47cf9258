SPECIFICATION Spec
CONSTANTS
  N = 3
  K = 2
  WeightSet = {1, 3}
  MaxEdges = 3
  Graphs <- MCGraphs
  Groupings <- MCGroupings
INVARIANTS
  CollectedCover
