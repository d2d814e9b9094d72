SPECIFICATION Spec
CONSTANTS
    Count = 2
    MaxTries = 1
    QueueCap = 3
    Brokers = {b1, b2, b3}
    FirstLeader = b1
INVARIANTS
    TypeOK
    ConfirmedSurvive
    GapIsLoss
\* The round ends.
CHECK_DEADLOCK FALSE
