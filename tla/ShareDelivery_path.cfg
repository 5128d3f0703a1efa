\* Four shares, any three of which give the message; one may be lost, and one arrive again.
SPECIFICATION FairSpec
CONSTANTS
    P = 5
    K = 4
    T = 3
    Base = 2
    ChunkSize = 2
    Share <- Indices
    NoShare = NoShare
    Timer = {t1}
    Message <- OneChunk
    MaxLost = 1
    MaxRepeated = 1
    Coefficient = {0, 1, 3}
INVARIANTS
    TypeOK
    NoShareDropped
    EmittedOnce
    ThresholdSuffices
    FewSharesRevealNothing
PROPERTIES
    EveryShareLeaves
    MessageArrives
