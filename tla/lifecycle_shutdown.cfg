SPECIFICATION FairSpec
CONSTANTS
  c1 = c1
  c2 = c2
  Stops <- MCStops
  Autoclean = TRUE
  Ttl = TRUE
  ServerStops = TRUE
  MaxFailures = 1
PROPERTIES
  ShutdownRecordsDesktops
  OnlyForcedShutdownPullsWorkdir
CHECK_DEADLOCK FALSE
