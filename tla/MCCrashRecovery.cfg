SPECIFICATION FairSpec
CONSTANTS
    Topics = {"processed", "refunds", "failures", "chargebacks", "disputes", "audit"}
    Scenarios <- MCScenarios
    Leftovers <- MCLeftovers
    Flood = 2
INVARIANTS
    NoStrays
    CreatedAreCounted
PROPERTY
    Ends
\* The script ends.
CHECK_DEADLOCK FALSE
