SPECIFICATION Spec
CONSTANTS
    a = a
    b = b
    c = c
    d = d
    e = e
    p = p
    q = q
    Key = {a, b, c, d, e}
    Zero = Zero
    Depth = 2
    Width <- MCWidth
    LeafLists <- MCLeafLists
    NoProof = NoProof
    Header <- MCHeader
    MaxEpoch = 2
    NoReceipt = NoReceipt
INVARIANTS
    TypeOK
    AcceptsExactlyPaths
    HonestStepSatisfies
    StaleProofRefused
