\* A second emission is sampled before the first is acknowledged.
SPECIFICATION CoverSpec
CONSTANTS
    Share = {s1, s2}
    NoShare = NoShare
    Timer = {t1, t2}
INVARIANT
    NoShareDropped
