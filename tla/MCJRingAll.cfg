SPECIFICATION RingsSpec
CONSTANTS
  p1 = p1
  p2 = p2
  c1 = c1
  c2 = c2
  Producers = {p1, p2}
  Consumers = {c1, c2}
  Setups <- AllRings
  Size = 4
  CtrMod = 8
  Start = 6
  Rings2 = {"p2c", "c2p"}
  Cnt = 4
  kWindowSize = 2
  MaxRequests = 5
  MaxPut = 9
INVARIANTS ReadsRight EntriesKept
PROPERTIES RefinesFifo CallsReturn EchoAnswered
CHECK_DEADLOCK FALSE
