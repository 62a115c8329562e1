SPECIFICATION FairSpec
CONSTANTS
    Requests = {r1, r2, r3}
    MaxChildren = 2
    MaxJunk = 1
INVARIANTS PendingIsAnswerable SettledByOwner BufferIsCurrent GivenUpIsKilled
PROPERTY NoHopelessWait
CHECK_DEADLOCK FALSE
