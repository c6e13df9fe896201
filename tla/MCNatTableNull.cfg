SPECIFICATION Spec
CONSTANTS
  i1 = i1
  i2 = i2
  i3 = i3
  p1 = p1
  p2 = p2
  Inside = {i1}
  Peer = {p1}
  Segment <- SynOnly
  SeqNo = {0}
  Routed <- AllRouted
  FirstId = 1
  LastId = 2
  Stray = {FALSE}
  IcmpQueryTo = 1
  TcpEstabTo = 1
  TcpTransitoryTo = 1
  TcpSynTo = 1
  AgeCap = 2
  MaxAlloc = 4
INVARIANTS
  ConnectionReturned
CHECK_DEADLOCK FALSE
