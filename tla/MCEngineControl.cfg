CONSTANTS
  a = a
  b = b
  x = x
  Channels = {a, b}
  Ports = {1, 2, 3}
  kSrcPortMin = 2
  Steered = {2, 3}
  Peers = {x}
  Requests <- MixedRequests
  kPendingRequestTimeoutSlowTicks = 1
  max_tries = 0
  MaxCalls <- TwoAndOne
  PassiveFlowsDie = FALSE
SPECIFICATION FairSpec
INVARIANTS PortsExact  RouteUnique SuccessIsReal
CHECK_DEADLOCK FALSE
PROPERTIES RemovalCompletes
