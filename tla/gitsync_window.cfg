\* Rebases and merges stop, fail and are killed half way, on two notes: the busy flag.
CONSTANTS
  l1 = l1  l2 = l2  r1 = r1  r2 = r2  day = day  plan = plan
  s1 = s1  s2 = s2  p1 = p1
  Syncers <- MCSyncers
  Pullers <- MCPullers
  LocalEdits <- MCLocal
  RemoteEdits <- MCRemotes
  Notes <- MCNotes
  NoteOf <- MCNotesOf
  Unlisted <- MCNone
  MaxFaults = 1
  MaxConfigs = 1
SPECIFICATION FairSpec
PROPERTIES BusyReleased
\* The user stops typing and settings saves are bounded: the system may rest.
CHECK_DEADLOCK FALSE
