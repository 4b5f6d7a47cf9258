SPECIFICATION PartitionSpec
CONSTANTS
  N = 5
  MaxGroup = 3
  Iterations = 2
  Graphs <- MCGraphs
INVARIANTS
  CountersExact
  FallbackOnlyWhenFull
  EachVertexOnce
  NoTwoFit
PROPERTIES
  PartitionEnds
