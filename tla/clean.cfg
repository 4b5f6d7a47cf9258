SPECIFICATION FairSpec
CONSTANTS
  w1 = w1
  w2 = w2
  N = 4
  K = 2
  WeightSet = {1, 3}
  CleanSize = 2
  Kinds = {"cpu", "gpu"}
  Workers = {w1, w2}
  NumSlots = 2
  Indexes <- MCIndexes
INVARIANTS
  OffsetsFindLabels
  ScratchClean
  MinimalAtEnd
PROPERTIES
  IndexNeverLies
  AllRangesEnd
