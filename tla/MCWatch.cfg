SPECIFICATION Spec
CONSTANTS
  KeepAlive = 4
  Drain = 1
  Echo = 1
  SndBuf = 1
  MaxBatch = 10
  MaxQueue = 10
  MaxFrames = 1
INVARIANTS
  LiveLinkKept
  DeadLinkFound
CHECK_DEADLOCK FALSE
