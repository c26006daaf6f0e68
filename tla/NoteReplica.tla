---------------------------- MODULE NoteReplica ----------------------------
(***************************************************************************)
(* What git sync promises, without git: the notes of a device and of the   *)
(* server are sets of edits.  The user and other devices add edits, a sync *)
(* brings shared edits in or publishes local ones.  Nothing is taken away  *)
(* on either side but an edit that was put at risk before, by a save or an *)
(* add in the middle of a sync.                                            *)
(***************************************************************************)
CONSTANTS LocalEdits, RemoteEdits

VARIABLES local, shared, risked

Init == local = {} /\ shared = {} /\ risked = {}

Write(e) == local' = local \cup {e} /\ UNCHANGED shared
Arrive(e) == shared' = shared \cup {e} /\ UNCHANGED local
Fetch == \E S \in SUBSET (shared \cup risked), R \in SUBSET risked :
            local' = (local \ R) \cup S /\ UNCHANGED shared
Publish == \E S \in SUBSET local, R \in SUBSET risked :
            shared' = (shared \ R) \cup S /\ UNCHANGED local

Next ==
    /\ \/ \E e \in LocalEdits : Write(e)
       \/ \E e \in RemoteEdits : Arrive(e)
       \/ Fetch
       \/ Publish
    /\ risked \subseteq risked'

Spec == Init /\ [][Next]_<<local, shared, risked>>
=============================================================================
