\* Crashes and failing writes anywhere; updates go on and a damaged index is rebuilt.
CONSTANTS
  ta = ta  tb = tb  tc = tc
  NFiles = 2
  Texts <- MCTexts
  MaxStamp = 1
  Content <- MCDelete
  Gone = Gone
  BatchSize = 1
  CommitEvery = 1
  DeadMin = 0
  DeadPart = 5
  LinesFail = TRUE
  AtomicCompact = FALSE
  MaxFaults = 2
SPECIFICATION FairSpec
PROPERTIES CatchesUp

