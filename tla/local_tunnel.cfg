SPECIFICATION FairSpec
CONSTANTS
    MaxLines = 2
    MaxConns = 1
INVARIANTS
    TypeOK
    SuccessMeansMoved
    NothingLeftRunning
PROPERTIES
    InterruptEndsSession
    OnlyMoverBlocks
CHECK_DEADLOCK FALSE
