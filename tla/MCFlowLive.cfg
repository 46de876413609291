SPECIFICATION FairSpec
CONSTANTS
  Modulus = 16
  kRexmitThreshold = 2
  kRtoThresholdInTicks = 1
  BucketSize = 2
  BucketWidth = 4
  PcbBuckets = 4
  HdrBuckets = 2
  kInitialCwnd = 2
  RingCapacity = 1
  ClientMsgs <- One_One
  ServerMsgs <- NoMsgs
  MaxDuplicates = 0
  MaxDupAcks = 2
  MaxPoolFails = 1
  MaxShutDowns = 1
INVARIANT InOrderDelivery
PROPERTIES ConnectCompletes OutstandingResolved
CHECK_DEADLOCK FALSE
