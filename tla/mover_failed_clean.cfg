SPECIFICATION Spec
CONSTANTS
    Files = {f1, f2}
    LostFound = lostfound
    MaxRetries = 1
INVARIANT FailedCleanStops
