SPECIFICATION FairSpec
CONSTANTS
  N = 4
  K = 3
  MaxEdges = 6
  WeightSet = {1, 3}
  Indexes <- MCIndexes
INVARIANTS
  ReferenceIsExact
  AnswerIsExact
  PathIsRight
PROPERTIES
  CheckEnds
