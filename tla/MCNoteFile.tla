---------------------------- MODULE MCNoteFile ----------------------------
(* Instances of NoteFile for TLC.                                          *)
EXTENDS NoteFile
=============================================================================
