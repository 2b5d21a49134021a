SPECIFICATION FairSpec
CONSTANTS
    MaxLines = 1
    MaxConns = 1
PROPERTY WaitNeverBlocks
CHECK_DEADLOCK FALSE
