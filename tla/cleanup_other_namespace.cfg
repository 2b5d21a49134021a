SPECIFICATION Spec
CONSTANTS
    Cleaners = {c1, c2}
    Releases <- MCReleases
    Commands <- MCCommands
INVARIANT
    CheckSeesEveryJob
CHECK_DEADLOCK FALSE
