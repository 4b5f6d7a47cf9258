SPECIFICATION FairGather
CONSTANTS
  k1 = k1
  k2 = k2
  k3 = k3
  Empty = Empty
  TS = 3
  Keys = {k1, k2, k3}
  Cand <- MCCand
  Key <- MCKey
  Home <- MCHome
  Dist <- MCDist
  THREADS_NUM = 8
  Lanes = 4
  TPreOffset = 7
  RowBegin <- MCRowBegin
  RowEnd <- MCRowEnd
INVARIANTS
  KeysUnique
  OneClaimer
  MinPerKey
  Compacted
PROPERTIES
  ImplementsRound
  RoundEnds
