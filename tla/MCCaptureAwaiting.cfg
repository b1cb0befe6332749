SPECIFICATION Spec
CONSTANTS
    DraftWindow = 2
    DraftSupport = 2
    DraftSpan = 1
    GameWindow = 2
    GameSupport = 2
    GameSpan = 1
    GapLimit = 1
    Interval = 2
    Grace = 3
    CheckEvery = 2
    MaxRows = 20
    Gaps = {1}
    MaxMap = 1
    Modes = {TRUE, FALSE}
    EndBy = 4
    MaxTime = 8
    MaxCrashes = 1
CHECK_DEADLOCK FALSE
INVARIANT
    FinalIsRetained
