SPECIFICATION FairSpec
CONSTANTS
  g1 = g1
  g2 = g2
  Group <- MCOne
  First <- MCNone
  Capacity = 1
  MaxSeq = 2
  MaxOpens = 1
  MaxMoves = 2
  MaxPurges = 1
INVARIANTS TypeOK NoneSlipped

PROPERTIES CutOff Read
CHECK_DEADLOCK FALSE
