SPECIFICATION FairSpec
CONSTANTS
    Requests <- MCRequests
    MaxLeaked = 1
INVARIANTS
    TypeOK
    ConsistentCut
    LockGoneBeforeBackup
    ConfirmedLockReleased
    NoLeftovers
    SnapshotSurvives
    JobKeepsItsClone
PROPERTIES
    NothingElseBlocks
    InterruptEndsRun
    SessionLockFreed
CHECK_DEADLOCK FALSE
