SPECIFICATION MCSpec
CONSTANTS
  desktop = desktop
  elsewhere = elsewhere
  Desktops <- MCDesktops
  Remote <- MCRemote
  Requests <- MCRequests
  Calls <- MCCalls
  Kind <- MCKind
  Desktop <- MCDesktop
  Permits = 2
INVARIANTS
  OneDriver
  NoLostWakeup
PROPERTIES
  RetainsArrivalOrder
  EveryCallAnswered
