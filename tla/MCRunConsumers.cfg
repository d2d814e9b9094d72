SPECIFICATION FairSpec
CONSTANTS
    NumConsumers = 3
    MaxSignals = 2
INVARIANT ExitLeavesNobody
PROPERTIES
    RecordedAreStopped
    EndsWithConsumers
\* The script ends, or waits for tail for ever.
CHECK_DEADLOCK FALSE
