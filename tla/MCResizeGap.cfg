SPECIFICATION SendingSpec
CONSTANTS
  Max = 1
  Chunk = 1
  ReadBuf = 2
  Sizes = {1, 2}
  FirstSize = 1
  DefaultSize = 3
  MaxTyped = 0
  MaxResizes = 2
PROPERTY NoResizeIsLost
CHECK_DEADLOCK FALSE
