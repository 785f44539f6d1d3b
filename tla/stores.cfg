SPECIFICATION MCSpec
CONSTANTS
    Workdir = {}
    Sweeper = {}
    Timer = {}
    Copiers = {s1, s2, s3}
    FromSecretService = {s3}
    NoServer = NoServer
    a = a
    b = b
    s = s
    t = t
    Servers = {a, b}
    Old = {a}
    Sessions = {s, t}
    Owner <- MCOwner
    EndedByShutdown = {t}
    Restamped = {t}
    Limit = 3
    MaxRows = 2
    NoRow = NoRow
    c1 = c1
    c2 = c2
    c3 = c3
    Calls <- MCCalls
    Asks <- MCAsks
    MaxHandles = 2
    MaxReloads = 1
SYMMETRY Callers
INVARIANTS
    HostIsSpared
    RecordedRowsSurvive
    AnswersAreCurrent
    AnsweredCallsCount
CHECK_DEADLOCK FALSE
