SPECIFICATION MCSpec
CONSTANTS
    Ctrl = Ctrl
    Letter = Letter
    Shift = Shift
    Key = Key
    Button = Button
    Texts <- MCTexts
    MaxOps = 3
    f1 = f1
    f2 = f2
    Keys = {Ctrl, Letter}
    Fingers = {f1, f2}
    Left = Left
    Right = Right
    NoFinger = NoFinger
    Quiet = 3
    MaxCalls = 2
    Stale = 2
    MaxBeats = 1
    AgentTexts = {"agent's", "agent's other"}
    UserText = "user's"
    HostText = "host's"
    Nothing = "none"
    MaxChanges = 3
INVARIANTS
    NothingLeftPressed
    AgentTextComesBack
    NothingIsStuck
    AgentGivesWay
    ReadyIsTrue
PROPERTIES
    TextIsNoShortcut
    ShortcutsCarryTheUsersText
    ReloadOverwritesNothing
CHECK_DEADLOCK FALSE
