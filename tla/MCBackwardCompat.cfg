SPECIFICATION FairSpec
CONSTANTS
    p0 = p0
    p1 = p1
    Partitions = {p0, p1}
    Capacity <- MCCapacity
    Want = 2
    MaxExpiries = 1
INVARIANTS
    DrainComplete
    SkipsOnlyInHand
PROPERTY
    Ends
\* The programs end.
CHECK_DEADLOCK FALSE
