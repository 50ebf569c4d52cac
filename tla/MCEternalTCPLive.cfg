SPECIFICATION FairSpec
CONSTANTS
  Limit = 1
  InboxSize = 1
  MaxLinks = 2
  MaxUp = 1
  MaxDown = 2
PROPERTIES
  EverythingArrives
  TailIsRead
CHECK_DEADLOCK FALSE
