SPECIFICATION Spec
CONSTANTS
  v1 = v1
  v2 = v2
  NoViewer = NoViewer
  Autoclean = TRUE
  Viewers <- MCViewers
INVARIANT GuardOwnsChildren
CHECK_DEADLOCK FALSE
