SPECIFICATION Spec
CONSTANTS
  Modulus = 16
  kRexmitThreshold = 2
  kRtoThresholdInTicks = 1
  BucketSize = 2
  BucketWidth = 4
  PcbBuckets = 4
  HdrBuckets = 2
  kInitialCwnd = 3
  RingCapacity = 1
  ClientMsgs <- Three_One
  ServerMsgs <- NoMsgs
  MaxDuplicates = 0
  MaxDupAcks = 4
  MaxPoolFails = 0
  MaxShutDowns = 0
INVARIANTS FlowInv WireConsistent ReleasedWasAccepted ReassemblyAhead 
CHECK_DEADLOCK FALSE
