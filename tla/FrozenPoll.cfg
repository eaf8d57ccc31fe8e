SPECIFICATION FairSpec
CONSTANTS
  g1 = g1
  g2 = g2
  Group <- MCBoth
  First <- MCBoth
  Capacity = 1
  MaxSeq = 1
  MaxOpens = 0
  MaxMoves = 1
  MaxPurges = 0
PROPERTIES ReadAlone
CHECK_DEADLOCK FALSE
