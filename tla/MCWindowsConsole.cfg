SPECIFICATION FairSpec
CONSTANTS
  Closers = {c1, c2}
  Returns = {2}
  WriteUnits = 2
  MaxKeys = 2
  MaxWrite = 3
  MaxWakes = 2
  MaxSwitches = 2
INVARIANTS
  KeysInOrder
  CleanClose
  NoWriteAfterRestore
PROPERTY
  CloseReturns
CHECK_DEADLOCK FALSE
