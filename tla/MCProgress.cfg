SPECIFICATION MCSpec
CONSTANTS
    x1 = x1
    e1 = e1
    e2 = e2
    partial = partial
    parsed = parsed
    corrected = corrected
    foreign = foreign
    w1 = w1
    NoContent = NoContent
    NoWorker = NoWorker
    Workers = {w1}
    Matches = {x1}
    Events = {e1, e2}
    EventOf <- OneEvent
    Contents = {partial, parsed, corrected, foreign}
    MissingOf <- Lacks
    OutOfScope = {foreign}
    Delays <- TwoDelays
    ActivePoll = 1
    Rescan = 2
    Window = 6
    LastChange = 1
    MaxCycle = 1
    MaxDown = 1
    MaxFaults = 1
CHECK_DEADLOCK FALSE
INVARIANTS
    TypeOK
    RetryIsScheduled
PROPERTIES
    ImplementsLedger
    EveryMatchAttempted
    CompleteIsIngested
    CorrectionIsReviewed
    CaptureCloses
