SPECIFICATION MCSpec
CONSTANTS
  QueueLen = 1
  Codes = {"ok", "wraps"}
  MaxPackets = 3
  MaxOutput = 4
  ExcerptLen = 2
  MaxPrinted = 5
  CodeOf <- MCCodeOf
INVARIANTS
  OutputInOrder
  NormalEndDrains
  KeyNotQuoted
  ConsoleGivenBack
  StatusSound
PROPERTIES
  CancelledExits
  EndIsReported
