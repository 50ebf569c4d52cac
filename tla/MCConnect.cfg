SPECIFICATION FairSpec
CONSTANTS
  Buf = 1
  Timeout = 1
  Half = 2
  Window = 3
  MaxCatchup = 1
  Received = {0, 1, 5}
  Counted = {0, 5}
  MaxLag = 2
INVARIANTS
  NoMutualWait
  DefinitiveAnswerStands
  SuccessIsSound
PROPERTIES
  TimeoutMeansIdle
  ConnectReturns
CHECK_DEADLOCK FALSE
