\* Cancelled and crashed updates, edits in between, outside Compact.
CONSTANTS
  ta = ta  tb = tb  tc = tc
  NFiles = 2
  Texts <- MCTexts
  MaxStamp = 1
  Content <- MCContent
  Gone = Gone
  BatchSize = 1
  CommitEvery = 2
  DeadMin = 1
  DeadPart = 5
  LinesFail = FALSE
  AtomicCompact = TRUE
  MaxFaults = 2
SPECIFICATION Spec
INVARIANTS TypeOK IndexSound FreshWhenSame RowsOwned OneVectorPerText SearchSound

