SPECIFICATION Spec
CONSTANTS
    Files = {f1, f2}
    LostFound = lostfound
    MaxRetries = 2
INVARIANTS
    TypeOK
    SuccessMeansCopied
    SuccessMeansExact
    SidecarFollowsData
    HonestReport
PROPERTIES
    LeavesAlone
