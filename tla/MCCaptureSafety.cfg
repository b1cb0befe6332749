SPECIFICATION Spec
CONSTANTS
    DraftWindow = 3
    DraftSupport = 2
    DraftSpan = 2
    GameWindow = 2
    GameSupport = 2
    GameSpan = 1
    GapLimit = 1
    Interval = 2
    Grace = 3
    CheckEvery = 2
    MaxRows = 20
    Gaps = {1, 2}
    MaxMap = 2
    Modes = {TRUE, FALSE}
    EndBy = 4
    MaxTime = 6
    MaxCrashes = 2
CHECK_DEADLOCK FALSE
INVARIANTS
    TypeOK
    MilestonesInOrder
    StartedSpacing
    CleanExitKeepsFinal
    MapsGoOn
PROPERTY
    DraftNeedsSustainedFrames
