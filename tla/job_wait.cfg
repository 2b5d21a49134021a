SPECIFICATION FairSpec
CONSTANTS
    MaxLines = 2
    InitialDelay = 250
    MaxDelay = 5000
INVARIANTS
    TypeOK
    FollowerGone
    BarTerminatedOnce
PROPERTIES
    KeepsContract
CHECK_DEADLOCK FALSE
