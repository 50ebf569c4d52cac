SPECIFICATION Spec
CONSTANTS
  Limit = 2
  Writers = {w1, w2}
  Payloads = {0, 2, 3}
  ProbePayload = 0
  Overhead = 1
  MaxFrame = 3
  FrameHeader = 1
  WriteBuf = 5
  EntryTag = 1
  MaxCatchup = 14
  MaxSealed = 3
SYMMETRY WriterSymmetry
INVARIANTS
  TypeOK
  RingAccounting
  RingBounded
  Resumable
  NoLostSpace
  NoLostWake
  NeverCorrupt
CHECK_DEADLOCK FALSE
