SPECIFICATION Spec
CONSTANTS
    Nodes = {n1, n2}
    None = none
    NoLimit = nolimit
    AccessModes <- MCAccessModes
    PodLists <- MCPodLists
    MaxMoves = 1
SYMMETRY Symmetry
INVARIANTS
    TypeOK
    NoNodeWronglyExcluded
    PlacementSound
    MountNodeHoldsBoth
CHECK_DEADLOCK FALSE
