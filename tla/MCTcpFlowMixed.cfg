CONSTANTS
  Modulus = 32
  Isn <- Wrapping
  Base = 4
  kMsgLenPrefixSize = 2
  MACHNET_MSG_MAX_LEN = 3
  kMaxSendBuf = 6
  kDefaultMSS = 2
  PeerMSS <- SmallMSS
  kInitialWindowSize = 4
  kMaxRetransmissions = 1
  kInitialRTO = 0
  kTimeWaitTicks = 0
  BufSize = 1
  Scenarios <- Mixed
SPECIFICATION FairSpec
INVARIANTS NothingLost InOrderDelivery FinMeansAll
PROPERTIES FlowResolved
CHECK_DEADLOCK FALSE
