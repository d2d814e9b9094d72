SPECIFICATION FairSpec
CONSTANTS
    Consumers = {c1, c2}
    Partitions = {p1, p2}
    p1 = p1
    p2 = p2
    LogEnd <- MCLogEnd
    MaxFaults = 2
INVARIANTS
    TypeOK
    SingleOwner
    LossOnlyByStops
    RepeatsNeedFailures
PROPERTIES
    AllSettled
    ImplementsContract
\* The processes stop.
CHECK_DEADLOCK FALSE
