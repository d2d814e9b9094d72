SPECIFICATION FairSpec
CONSTANTS
    Partitions = {p0, p1}
    Messages = 6
    Again = 4
    Tiny = 2
    Large = 6
    Cap = 3
INVARIANTS
    LossNeedsOverflow
    OnlyKeyedMoves
PROPERTY
    RetentionFires
\* The scripts end.
CHECK_DEADLOCK FALSE
