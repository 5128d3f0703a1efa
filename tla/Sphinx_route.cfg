\* The second hop of any route.
SPECIFICATION Spec
CONSTANTS
    Node = {a, b, c, d}
    Nowhere = Nowhere
    L = 3
    Slots = 5
    EphPk = EphPk
    Zero = Zero
    Identity = Identity
    Garbled = Garbled
INVARIANT
    EveryHopRoutes
CHECK_DEADLOCK FALSE
