SPECIFICATION MCSpec
CONSTANTS
    Lines = 2
    Invalid = {2}
    Handles = {h1, h2}
    NoHandle = NoHandle
    MaxReloads = 1
INVARIANTS
    LinesKeepTheirOrder
    NoCallIsLost
    LeaseNeverLapses
PROPERTIES
    ReloadKeepsHandles
    FreezeSettles
CHECK_DEADLOCK FALSE
