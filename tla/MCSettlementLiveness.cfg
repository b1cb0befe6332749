SPECIFICATION FairSpec
CONSTANTS
    m1 = m1
    m2 = m2
    d1 = d1
    d2 = d2
    p1 = p1
    p2 = p2
    NoMap = NoMap
    Maps = {m1}
    DotaIds = {d1}
    MaxContents = 2
    Preds = {p1, p2}
    PredMap <- TwoPreds
    MaxMappings = 1
    RadiantChoices = {"team_one"}
    FinalChoices = {"team_one"}
    MayBeAmbiguous = {}
    MayBeInvalid = {}
    MaxFaults = 0
PROPERTIES
    EveryMapDecided
    EarlyPredictionsSettle
