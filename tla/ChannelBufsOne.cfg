SPECIFICATION Spec
CONSTANTS
  t1 = t1
  AppThreads = {t1}
  NumBufs = 6
  NUM_CACHED_BUFS = 2
  kBufferBatchSize = 2
  kMaxBurst = 2
  AppRingCapacity = 1
  MachnetRingCapacity = 1
  Lens = {1, 2, 3}
  MaxSends = 3
  MaxArrivals = 3
INVARIANTS OneOwner FreeSucceeds RecheckIsSafe
CHECK_DEADLOCK FALSE
