SPECIFICATION FairSpec
CONSTANTS
  v1 = v1
  v2 = v2
  NoViewer = NoViewer
  Autoclean = TRUE
  Viewers <- MCViewers
INVARIANTS SomeoneEndsEach OneViewer FilesOutliveSandbox
PROPERTY EndedLeavesNothing
CHECK_DEADLOCK FALSE
