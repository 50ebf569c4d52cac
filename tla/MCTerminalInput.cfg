SPECIFICATION FairSpec
CONSTANTS
  Max = 2
  Chunk = 1
  ReadBuf = 2
  Sizes = {0, 1}
  FirstSize = 0
  DefaultSize = 3
  MaxTyped = 4
  MaxResizes = 1
INVARIANTS
  InputInOrder
  NobodyStranded
PROPERTIES
  PushReturns
  TypedIsSent
  LatestSizeIsSent
CHECK_DEADLOCK FALSE
