SPECIFICATION Spec
CONSTANTS
    P = 13
    FullRounds = 4
    PartialRounds = 3
    Sha <- MCSha
    Sample = {0, 1, 2, 3, 4, 5, 6, 7, 8, 9, 10, 11, 12}
INVARIANTS
    TypeOK
    HashesAgree
    NoRoundCollides
\* The hash ends.
CHECK_DEADLOCK FALSE
