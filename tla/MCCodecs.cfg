SPECIFICATION Spec
CONSTANTS
  ReadBuf = 3
  MaxInput <- MCMaxInput
  Digit = 2
  PrefixLen = 4
  MaxFrameSize = 12
  MaxMessageSize = 5
  GrowChunk = 5
  NonceDigit = 3
  NonceLen = 3
  Half = 256
  MaxPort = 11
INVARIANTS TextFollowsRule WireFollowsRule
CHECK_DEADLOCK FALSE
