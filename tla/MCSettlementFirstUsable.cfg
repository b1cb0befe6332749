SPECIFICATION Spec
CONSTANTS
    m1 = m1
    m2 = m2
    d1 = d1
    d2 = d2
    p1 = p1
    p2 = p2
    NoMap = NoMap
    Maps = {m1}
    DotaIds = {d1}
    MaxContents = 1
    Preds = {}
    PredMap <- NoPreds
    MaxMappings = 1
    RadiantChoices = {"team_one"}
    FinalChoices = {"team_one"}
    MayBeAmbiguous = {}
    MayBeInvalid = {}
    MaxFaults = 0
INVARIANT
    AgreementIsNotReviewed
