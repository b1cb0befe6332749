SPECIFICATION MCSpec
CONSTANTS
    m1 = m1
    m2 = m2
    d1 = d1
    d2 = d2
    p1 = p1
    p2 = p2
    NoMap = NoMap
    Maps = {m1, m2}
    DotaIds = {d1}
    MaxContents = 2
    Preds = {}
    PredMap <- NoPreds
    MaxMappings = 1
    RadiantChoices = {"team_one"}
    FinalChoices = {"team_one"}
    MayBeAmbiguous = {}
    MayBeInvalid = {}
    MaxFaults = 0
    x = x
    y = y
    v1 = v1
    v2 = v2
    Frames = {1, 2, 3, 4}
    CapturedAt <- MCCapturedAt
    Drafts = {x, y}
    Watchers = {v1, v2}
    NoFrame = 0
    Never = Never
SYMMETRY MCSymmetry
INVARIANTS
    OneResultPerOfficialMatch
    AnchorFollowsEventTime
PROPERTIES
    LedgerIsAppendOnly
    CausalReadIsStable
