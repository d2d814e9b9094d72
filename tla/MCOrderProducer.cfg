SPECIFICATION FairSpec
CONSTANTS
    Count = 3
    MaxTries = 2
    QueueCap = 2
    PollEvery = 2
INVARIANTS
    TypeOK
    DeliveredIsDurable
    ReportedOnce
    ExitSettled
    AbandonsFullQueue
PROPERTIES
    Terminates
    ImplementsContract
\* The program ends.
CHECK_DEADLOCK FALSE
