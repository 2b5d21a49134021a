SPECIFICATION Spec
CONSTANTS
    Requests <- MCRequests
    MaxLeaked = 1
INVARIANT
    LockReleasedOnEveryFailure
CHECK_DEADLOCK FALSE
