SPECIFICATION FairSpec
CONSTANTS
  Limit = 1
  Writers = {w1, w2}
  Payloads = {1}
  ProbePayload = 0
  Overhead = 1
  MaxFrame = 3
  FrameHeader = 1
  WriteBuf = 5
  EntryTag = 1
  MaxCatchup = 14
  MaxSealed = 2
PROPERTIES
  BlockedWriteReturns
  SealedIsReceived
CHECK_DEADLOCK FALSE
