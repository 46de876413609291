SPECIFICATION Spec
CONSTANTS
  Modulus = 64
  kInitialCwnd = 3
  kRexmitThreshold = 3
  kRtoThresholdInTicks = 3
  BucketSize = 2
  BucketWidth = 4
  PcbBuckets = 4
  HdrBuckets = 2
  RingCapacity = 2
  MsgLen = 2
  Window = 3
  MaxBuffers = 12
INVARIANTS AcceptedInOrder 
CHECK_DEADLOCK FALSE
