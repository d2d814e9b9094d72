SPECIFICATION Spec
CONSTANTS
    Consumers = {c1, c2, c3}
    Partitions = {p1, p2}
    MaxRecords = 2
SYMMETRY Symmetry
INVARIANTS
    Ceiling
    CountedOnce
    CleanHandover
PROPERTY
    ReadsInOrder
\* The threads end.
CHECK_DEADLOCK FALSE
