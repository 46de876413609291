CONSTANTS
  a = a
  b = b
  e = e
  Apps = {a, b}
  Engines = {e}
  Hash <- OneEngine
  kMaxChannelNr = 2
  MaxAttach <- TwoAndOne
  BusyExit = TRUE
SPECIFICATION FairSpec
INVARIANTS BoundIsServed 
PROPERTIES CallsReturn ExitReleases StopEnds
CHECK_DEADLOCK FALSE
