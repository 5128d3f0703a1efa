\* Every route of three hops over four nodes, those that visit a node again
\* included; a packet stops when its next address cannot be read.
SPECIFICATION Spec
CONSTANTS
    Node = {a, b, c, d}
    Nowhere = Nowhere
    L = 3
    Slots = 5
    EphPk = EphPk
    Zero = Zero
    Identity = Identity
    Garbled = Garbled
INVARIANTS
    TypeOK
    FirstHopPeels
    PathHidden
    PayloadOnlyForExit
CHECK_DEADLOCK FALSE
