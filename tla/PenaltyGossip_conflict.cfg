\* Two observers assign one id with different severities.
SPECIFICATION GossipSpec
CONSTANTS
    r1 = r1
    r2 = r2
    r3 = r3
    w = w
    n1 = n1
    n2 = n2
    i1 = i1
    i2 = i2
    NoEvent = NoEvent
    NodeId = {n1, n2}
    PenaltyEventId = {i1, i2}
    Scale = 2
    Severity = {1, 2}
    Replica = {r1, r2}
    Evidence <- ConflictingEvidence
    Peers <- EachOther
    Withholding = {}
    MaxInFlight = 1
INVARIANT
    MergeCommutes
