SPECIFICATION Spec
CONSTANTS
  Modulus = 16
  kRexmitThreshold = 2
  kRtoThresholdInTicks = 1
  BucketSize = 2
  BucketWidth = 4
  PcbBuckets = 4
  HdrBuckets = 2
  kInitialCwnd = 2
  RingCapacity = 1
  ClientMsgs <- OneMsg
  ServerMsgs <- NoMsgs
  MaxDuplicates = 0
  MaxDupAcks = 3
  MaxPoolFails = 0
  MaxShutDowns = 0
INVARIANT RetransmitHasBuffer
CHECK_DEADLOCK FALSE
