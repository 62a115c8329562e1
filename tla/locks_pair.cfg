SPECIFICATION FairSpec
CONSTANTS
    Jobs = {j1, j2}
    Observers = {o1}
    NoOne = NoOne
    RetryAttempts = 1
    SlowDisk = FALSE
PROPERTIES LockImplementsMutex AttemptsEnd
CHECK_DEADLOCK FALSE
