SPECIFICATION FairSpec
CONSTANTS
    Foreign <- MCForeign
    Limit = 2
    MaxMessages = 4
    MaxPollers = 3
    MaxFaults = 2
    MaxCrashes = 1
INVARIANTS TypeOK CursorBehindScrap OncePerInterruption
PROPERTIES CatchesUp
CHECK_DEADLOCK FALSE
