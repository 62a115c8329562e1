SPECIFICATION MCSpec
CONSTANTS
    MaxInitialChars = 2
    MaxChunkChars = 1
    BytesPerChar = 2
    MaxSize = 3
    MaxGenerations = 2
    MaxFaults = 1
    MaxInFlight = 2
INVARIANTS ViewIsConsecutive BannerTells
PROPERTIES CatchesUp ClosedStaysQuiet
CHECK_DEADLOCK FALSE
