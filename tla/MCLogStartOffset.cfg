SPECIFICATION Spec
CONSTANTS
    Total = 5
    Want = 2
    ResumeCount = 2
    SegmentSize = 2
INVARIANTS
    CommittedWasRead
    OnlyRetentionSkips
    NoRereadAfterCommit
    ErrorContinues
\* The script ends.
CHECK_DEADLOCK FALSE
