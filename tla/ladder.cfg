SPECIFICATION FairSpec
CONSTANTS
    Requests <- MCRequests
    Places <- MCPlaces
    MaxRuns = 2
INVARIANTS
    TypeOK
    NoOrphanRelease
    DiagnosticsSeeInstalls
    SuccessMeansCopied
    DetachLeavesJob
PROPERTIES
    InterruptEndsRun
    OnlyMoverBlocks
CHECK_DEADLOCK FALSE
