CONSTANTS
  CACHE_LINE_SIZE = 8
  HUGE_PAGE_2M_SIZE = 256
  getpagesize = 64
  SizeofCtx = 24
  SizeofStats = 8
  SizeofJring = 40
  SizeofCtrlQueueEntry = 12
  SizeofRingSlot = 4
  MACHNET_MSGBUF_SPACE_RESERVED = 8
  MACHNET_MSGBUF_HEADROOM_MAX = 16
  MACHNET_CHANNEL_CTRL_SQ_SLOT_NR = 2
  MACHNET_CHANNEL_CTRL_CQ_SLOT_NR = 2
  RING_SZ_MASK = 1000
  Params <- Mixed
  ZeroCopy = TRUE
  MaxCreates = 2
  Iovecs <- Segments
  MACHNET_MSG_MAX_LEN = 6
  kBufferBatchSize = 2
SPECIFICATION FairSpec
INVARIANTS NothingLeaked LayoutSound GatherExact ScatterExact ChainReleased
PROPERTIES CallsEnd
CHECK_DEADLOCK FALSE
