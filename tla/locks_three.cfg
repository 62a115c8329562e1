SPECIFICATION Spec
CONSTANTS
    Jobs = {j1, j2, j3}
    Observers = {}
    NoOne = NoOne
    RetryAttempts = 1
    SlowDisk = FALSE
INVARIANT MutualExclusion
CHECK_DEADLOCK FALSE
