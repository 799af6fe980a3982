CONSTANTS
  WinSizeCap = 2
  RemoteRoom = 1
  MaxEnters = 2
SPECIFICATION FairSessionSpec

PROPERTY AbandonedSessionEnds
CHECK_DEADLOCK FALSE
