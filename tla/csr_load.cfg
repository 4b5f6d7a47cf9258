SPECIFICATION LoadSpec
CONSTANTS
  N = 4
  Weights = {1, 3}
  MaxEdges = 5
INVARIANTS
  GraphIsFile
  IdsAgree
