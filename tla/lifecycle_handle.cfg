SPECIFICATION FairSpec
CONSTANTS
  c1 = c1
  c2 = c2
  Stops <- MCStops
  Autoclean = TRUE
  Ttl = TRUE
  ServerStops = FALSE
  MaxFailures = 1

INVARIANTS
  WorkdirOutlivesItsUsers
  OwnedHasRetry
  RecordTellsTheDisk
PROPERTIES
  StopAnswers
  DeathNoticed
  ImplementsRegistry
CHECK_DEADLOCK FALSE
