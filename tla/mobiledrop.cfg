SPECIFICATION FairSpec
CONSTANTS
    MaxSessions = 2
    MaxOpens = 2
    MaxUploads <- MCUploads
    MaxAsks = 1
    MaxFaults = 1
    MaxTrouble = 1
INVARIANTS OneEnding ReachableByCancel NoOrphanTunnel
PROPERTIES PromiseKept SessionEnds
CHECK_DEADLOCK FALSE
