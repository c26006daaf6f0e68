----------------------------- MODULE MCGitSync -----------------------------
(* TLC instances of GitSync: two local edits and one or two edits of the   *)
(* other device, on two notes.  l1 and r1 are edits of the same note, l2   *)
(* and r2 of the other one, or all of one note (MCSameNote).               *)
EXTENDS GitSync, TLC

CONSTANTS l1, l2, r1, r2, day, plan, s1, s2, p1

MCLocal == {l1, l2}
MCRemote == {r1}
MCRemotes == {r1, r2}
MCNotes == {day, plan}
MCNoteOf == l1 :> day @@ l2 :> plan @@ r1 :> day
MCNotesOf == MCNoteOf @@ r2 :> plan
MCSameNote == l1 :> day @@ l2 :> day @@ r1 :> day
MCSyncers == {s1, s2}
MCPullers == {p1}
MCNone == {}
MCUnlisted == {plan}
=============================================================================
