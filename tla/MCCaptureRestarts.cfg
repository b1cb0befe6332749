SPECIFICATION Spec
CONSTANTS
    DraftWindow = 3
    DraftSupport = 2
    DraftSpan = 2
    GameWindow = 2
    GameSupport = 2
    GameSpan = 1
    GapLimit = 1
    Interval = 2
    Grace = 3
    CheckEvery = 2
    MaxRows = 20
    Gaps = {1, 2}
    MaxMap = 1
    Modes = {TRUE, FALSE}
    EndBy = 0
    MaxTime = 4
    MaxCrashes = 2
CHECK_DEADLOCK FALSE
INVARIANT
    PeriodicSpacing
