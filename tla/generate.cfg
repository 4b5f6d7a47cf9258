SPECIFICATION MCSpec
CONSTANTS
  w1 = w1
  w2 = w2
  N = 4
  K = 2
  Light = 1
  Heavy = 3
  Workers = {w1, w2}
  NumSlots = 2
  CpuTypes = {0, 1}
  MaxTime = 2
  CoreCounts <- MCCoreCounts
  Graphs <- MCGraphs
  Groupings <- MCGroupings
INVARIANTS
  SlotExclusive
  SlotAvailable
  ScratchClean
  CopyIsPrefixMin
  CanonicalKept
  MixedCover
  Balanced
PROPERTIES
  GenerationEnds
