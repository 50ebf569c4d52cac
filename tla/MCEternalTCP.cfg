SPECIFICATION Spec
CONSTANTS
  Limit = 1
  InboxSize = 1
  MaxLinks = 3
  MaxUp = 2
  MaxDown = 2
INVARIANTS
  NothingCountedIsLost
  NoIntegrityFailure
PROPERTIES
  UpstreamReliable
  DownstreamReliable
CHECK_DEADLOCK FALSE
