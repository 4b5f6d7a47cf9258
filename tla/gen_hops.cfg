SPECIFICATION Spec
CONSTANTS
  N = 5
  K = 4
  WeightSet = {1, 3}
  MaxEdges = 6
  Graphs <- MCGraphs
  Groupings <- MCGroupings
INVARIANTS
  LabelsAreWalks
  HasIsPrefixMin
  OffloadedCover
  GroupMinimal
