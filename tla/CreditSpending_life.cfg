\* Two credits of two receipts from three issuers, two verifiers, two proofs in
\* the making, three epochs and proofs good for two of them.
SPECIFICATION Spec
CONSTANTS
    Issuer = {ia, ib, ic}
    Packet = {p}
    NCredit = 2
    NoProof = NoProof
    MaxEpoch = 2
    SenderSk = sk
    Verifier = {v1, v2}
    Nowhere = Nowhere
    Validity = 2
    MaxCredits = 2
    MaxJobs = 2
INVARIANTS
    TypeOK
    DistinctIssuers
    ProofCoversReceipts
    ReadyIsUnspent
    NoDoubleSpend
PROPERTY
    ImplementsOneTimeCredit
