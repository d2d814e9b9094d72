SPECIFICATION FairSpec
PROPERTY CtrlCStopsAll
CONSTANTS
    NumConsumers = 3
    MaxSignals = 1
\* The script ends, or waits for tail for ever.
CHECK_DEADLOCK FALSE
