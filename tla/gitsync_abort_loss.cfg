\* An edit saved while a rebase is stopped.
CONSTANTS
  l1 = l1  l2 = l2  r1 = r1  r2 = r2  day = day  plan = plan
  s1 = s1  s2 = s2  p1 = p1
  Syncers <- MCSyncers
  Pullers <- MCPullers
  LocalEdits <- MCLocal
  RemoteEdits <- MCRemote
  Notes <- MCNotes
  NoteOf <- MCSameNote
  Unlisted <- MCNone
  MaxFaults = 0
  MaxConfigs = 1
SPECIFICATION Spec
INVARIANT EditsKept
\* The user stops typing and settings saves are bounded: the system may rest.
CHECK_DEADLOCK FALSE
