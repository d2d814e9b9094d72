SPECIFICATION Spec
CONSTANTS
    Count = 2
    MaxTries = 2
    QueueCap = 3
INVARIANTS
    DuplicatesAreReal
    ConfirmedExactlyOnce
\* The round ends.
CHECK_DEADLOCK FALSE
