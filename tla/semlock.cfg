\* Two processes, every file-system call a step of its own, one of them may die.
CONSTANTS
  app = app  cli = cli
  Processes <- MCProcesses
  MaxCrashes = 1
SPECIFICATION FairSpec
INVARIANTS OneUpdater
PROPERTIES CompleteBeforeSwap StillUpdated
