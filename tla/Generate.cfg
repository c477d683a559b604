SPECIFICATION FairSpec
CONSTANTS
    Targets <- MCTargets
    MaxTargets = 2
    Pieces = 3
    Nil = Nil
\* generate returns
CHECK_DEADLOCK FALSE
INVARIANTS Complete
PROPERTY Ends
