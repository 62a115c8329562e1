SPECIFICATION MCSpec
CONSTANTS
    Jobs = {j1, j2, j3}
    Observers = {}
    NoOne = NoOne
    RetryAttempts = 1
    SlowDisk = FALSE
INVARIANTS FirstComerExcludes LoneCallSucceeds NoLeak
CHECK_DEADLOCK FALSE
