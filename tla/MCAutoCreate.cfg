SPECIFICATION Spec
CONSTANT Count = 3
INVARIANTS
    AllAccounted
    QuietMeansExisted
\* The script ends.
CHECK_DEADLOCK FALSE
