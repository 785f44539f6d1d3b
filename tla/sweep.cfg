SPECIFICATION FairSpec
CONSTANTS
    Workdir = {w1}
    Sweeper = {a, b}
    Timer = {a}
INVARIANTS
    ServersKeepTheirs
    OrphansHaveNoSandbox
PROPERTIES
    MarkedIsReaped
CHECK_DEADLOCK FALSE
