SPECIFICATION Spec
CONSTANTS
  KeepAlive = 3
  Drain = 1
  Echo = 0
  SndBuf = 1
  MaxBatch = 10
  MaxQueue = 10
  MaxFrames = 1
INVARIANTS
  MovingLinkKept
CHECK_DEADLOCK FALSE
