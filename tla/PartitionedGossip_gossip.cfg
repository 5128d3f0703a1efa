\* A ring of three honest replicas and a withholding one, two events about one node, two snapshots
\* in flight, a network that is never whole.
SPECIFICATION FairSpec
CONSTANTS
    r1 = r1
    r2 = r2
    r3 = r3
    w = w
    n1 = n1
    n2 = n2
    i1 = i1
    i2 = i2
    NoEvent = NoEvent
    NodeId = {n1, n2}
    PenaltyEventId = {i1, i2}
    Scale = 2
    Severity = {1, 2}
    Replica = {r1, r2, r3, w}
    Evidence <- TwoEvents
    Peers <- Ring
    Withholding = {w}
    MaxInFlight = 2
    Partitions <- Alternating
INVARIANTS
    GossipTypeOK
    IndexCoherent
    MergeAlgebra
    SameEventsSameLog
PROPERTIES
    ImplementsPenaltySet
    Converges
