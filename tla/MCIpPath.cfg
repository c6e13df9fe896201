SPECIFICATION FairSpec
CONSTANTS
  Inside <- MCInside
  FirstId = 12
  LastId = 16
  Word = 16
  Host <- MCHosts
  IfAddr <- MCIfAddr
  Broadcast = 15
  PrivateNets <- MCPrivateNets
  Rtable <- MCRtable
  Silent <- MCSilent
  Traffic <- MCTraffic
  TtlMod = 16
  DefaultTtl = 3
  Modes = {TRUE, FALSE}
  MaxSent = 2
CHECK_DEADLOCK FALSE
INVARIANTS
  TypeOK
  AnswersReachAsker
  PrivateHidden
  ChecksumsHold
PROPERTIES
  Settled
