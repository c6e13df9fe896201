SPECIFICATION FairSpec
CONSTANTS
  Ports = {1, 2}
  MaxResent = 1
  MaxLost = 1
  MaxTwice = 1
CHECK_DEADLOCK FALSE
INVARIANTS
  TypeOK
  ClosedMeansBoth
  EstabNeedsAnswer
  OrderlyEndIsClosed
PROPERTIES
  Reclaimed
