CONSTANTS
  WinSizeCap = 2
  RemoteRoom = 1
  MaxEnters = 2
SPECIFICATION FairSessionSpec
PROPERTIES ClosedRowIsFinal ReplayIsComplete GoroutinesEnd
CHECK_DEADLOCK FALSE
