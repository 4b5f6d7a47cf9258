SPECIFICATION FairSpec
CONSTANTS
  a = a
  b = b
  c = c
  d = d
  m1 = m1
  m2 = m2
  m3 = m3
  Empty = Empty
  TS = 9
  K = 3
  Labels = {a, b, c, d}
  Pairs = {m1, m2, m3}
  Pair <- MCPair
  Hop <- MCHop
  Home <- MCHome
INVARIANTS
  QueryFindsLatest
  ClearedForNextGroup
PROPERTIES
  GroupEnds
