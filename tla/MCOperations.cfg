SPECIFICATION MCSpec
CONSTANTS
    r1 = r1
    r2 = r2
    Procs = {1, 2, 3}
    Requests = {r1, r2}
    NoProc = 0
    NoRequest = NoRequest
    Timeout = 1
    MaxWebs = 2
    MaxFaults = 1
    s1 = s1
    Contents = {1, 2}
    Series = {s1}
    Absent = Absent
    Ttl = 2
    Grace = 1
    Capacity = 1
    Bucket = 2
    ReplayLimit = 1
    LastMoment = 2
    MaxRows = 2
    k1 = k1
    k2 = k2
    DecisionWorkers = {k1, k2}
    MaxMap = 2
    Targets = {1, 2}
    CaptureWindow = 0
    StartWindow = 0
    PregameGrace = 1
    PregameOddsAge = 2
    LiveOddsAge = 1
    VisionAge = 0
    OddsVisionGap = 1
    RecentAge = 1
    Announced = {2}
    LastTick = 2
    MaxFrames = 1
    MaxOdds = 1
    Unset = Unset
    Readings <- MCReadings
    Confirmations = 2
    MaxReadings = 6
    NoClock = NoClock
    w1 = w1
    w2 = w2
    x1 = x1
    e1 = e1
    partial = partial
    parsed = parsed
    foreign = foreign
    NoContent = NoContent
    NoWorker = NoWorker
SYMMETRY MCSymmetry
CHECK_DEADLOCK FALSE
INVARIANTS
    OneSupervisor
    StoppedMeansStopped
    RefusedForStrangersOnly
    AuditAcceptsTrace
    LookaheadIsBounded
    SettledWereInPlay
    NoCheckpointIsSkipped
    ConfirmedIsSupported
PROPERTIES
    RequestActsOnce
    LineageIsKept
    OutcomeStands
