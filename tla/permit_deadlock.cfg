SPECIFICATION FairSpec
CONSTANTS
  desktop = desktop
  elsewhere = elsewhere
  Desktops <- MCDesktops
  Remote <- MCRemote
  Requests <- NarrowRequests
  Calls <- NarrowCalls
  Kind <- NarrowKind
  Desktop <- NarrowDesktop
  Permits = 1
PROPERTIES
  ReadsNotStarved
CHECK_DEADLOCK FALSE
