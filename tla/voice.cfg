SPECIFICATION FairSpec
CONSTANTS
    MaxDictations = 2
    MaxRequests = 2
    MaxActs = 2
    MAX_KEPT_AUDIO = 1
    MAX_KEPT_JOBS = 1
INVARIANTS LandsOnce RescueWorks SelectionKept
PROPERTIES NoteFreed
\* The user stops dictating and clicking: the system may rest.
CHECK_DEADLOCK FALSE
