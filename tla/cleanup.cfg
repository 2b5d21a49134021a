SPECIFICATION Spec
CONSTANTS
    Cleaners = {c1, c2}
    Releases <- MCReleases
    Commands <- MCCommands
SYMMETRY Symmetry
INVARIANTS
    TypeOK
    CheckCoversList
    SuccessMeansGone
    StrandedOnlyByError
CHECK_DEADLOCK FALSE
