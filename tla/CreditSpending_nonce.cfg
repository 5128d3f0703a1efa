\* The receipts of a full accumulator arrive again, in the other order.
SPECIFICATION Spec
CONSTANTS
    Issuer = {ia, ib}
    Packet = {p}
    NCredit = 2
    NoProof = NoProof
    MaxEpoch = 0
    SenderSk = sk
    Verifier = {v1}
    Nowhere = Nowhere
    Validity = 2
    MaxCredits = 2
    MaxJobs = 1
INVARIANT
    SameCreditSetSameNullifier
