SPECIFICATION Spec
CONSTANTS
  a = a
  b = b
  ra = ra
  rb = rb
  Host = {a, b}
  Self = {ra, rb}
  Asking = {a}
  Traffic <- MCTraffic
  Unsolicited <- MCUnsolicited
  Slots = 2
  EntryTo = 1
  ReqTo = 1
  ReqMax = 2
  AgeCap = 2
  MaxPackets = 2
CHECK_DEADLOCK FALSE
INVARIANTS
  AllAnswered
