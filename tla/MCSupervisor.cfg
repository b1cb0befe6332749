SPECIFICATION Spec
CONSTANTS
    Matches = {1, 2}
    Rows <- MCRows
    MaxConcurrent = 1
    Delays <- MCDelays
    ProbeDelay = 1
    OutputAge = 0
    HeartbeatGrace = 0
    MaxChanges = 1
    MaxFaults = 1
INVARIANTS
    TypeOK
    SilentStartsBounded
    NoWatcherIsLeftBehind
PROPERTIES
    BestFirst
    EvidenceIsServed
    IdleIsReleased
