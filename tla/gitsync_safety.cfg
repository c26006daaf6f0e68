\* Safety, between any two git commands, with a note whose name cannot be read back.
CONSTANTS
  l1 = l1  l2 = l2  r1 = r1  r2 = r2  day = day  plan = plan
  s1 = s1  s2 = s2  p1 = p1
  Syncers <- MCSyncers
  Pullers <- MCPullers
  LocalEdits <- MCLocal
  RemoteEdits <- MCRemotes
  Notes <- MCNotes
  NoteOf <- MCNotesOf
  Unlisted <- MCUnlisted
  MaxFaults = 1
  MaxConfigs = 2
SPECIFICATION Spec
INVARIANTS TypeOK OneSync NoEditLost
PROPERTIES ServerKeeps SyncedIsPushed RefinesReplica
\* The user stops typing and settings saves are bounded: the system may rest.
CHECK_DEADLOCK FALSE
