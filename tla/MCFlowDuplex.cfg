SPECIFICATION Spec
CONSTANTS
  Modulus = 16
  kRexmitThreshold = 2
  kRtoThresholdInTicks = 1
  BucketSize = 2
  BucketWidth = 4
  PcbBuckets = 4
  HdrBuckets = 2
  kInitialCwnd = 2
  RingCapacity = 1
  ClientMsgs <- OneMsg
  ServerMsgs <- TwoMsg
  MaxDuplicates = 1
  MaxDupAcks = 3
  MaxPoolFails = 1
  MaxShutDowns = 0
INVARIANT TxConsistent
PROPERTY RefinesFifo
CHECK_DEADLOCK FALSE
