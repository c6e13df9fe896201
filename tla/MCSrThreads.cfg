SPECIFICATION FairSpec
CONSTANTS
  Hardware <- MCHardware
  Tables <- MCTables
  SentTable <- MCSentTable
  MaxPackets = 1
  Room = 3
  MaxRounds = 1
CHECK_DEADLOCK FALSE
INVARIANTS
  TypeOK
  ReadyMeansKnown
  EndsForAReason
  NoCircularWait
PROPERTIES
  Drained
