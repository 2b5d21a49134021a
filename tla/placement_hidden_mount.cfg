SPECIFICATION Spec
CONSTANTS
    Nodes = {n1, n2}
    None = none
    NoLimit = nolimit
    AccessModes <- MCAccessModes
    PodLists <- MCPodLists
    MaxMoves = 1
SYMMETRY Symmetry
INVARIANTS
    MountedClaimIsSeen
CHECK_DEADLOCK FALSE
