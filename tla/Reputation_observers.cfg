\* Two observers; a grave penalty of one node, a light and a negative one of the other; R_MIN = 0.3.
SPECIFICATION FairSpec
CONSTANTS
    r1 = r1
    r2 = r2
    n1 = n1
    n2 = n2
    i1 = i1
    i2 = i2
    i3 = i3
    NoEvent = NoEvent
    NodeId = {n1, n2}
    PenaltyEventId = {i1, i2, i3}
    Scale = 10
    Severity <- Severities
    Replica = {r1, r2}
    Evidence <- TwoNodeEvidence
    Peers <- EachOther
    Withholding = {}
    MaxInFlight = 1
    Growth <- GrowthSteps
    MaxRelays = 2
    RMin = 3
INVARIANTS
    FactorOfKnownEvents
    GraveOutweighsGrowth
PROPERTIES
    InflationResistant
    OnlyOwnWitnessRaises
    OnlyNewPenaltyLowers
    MisbehaverExcluded
