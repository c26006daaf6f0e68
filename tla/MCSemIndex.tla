----------------------------- MODULE MCSemIndex -----------------------------
(* TLC instances of SemIndex: two notes over three texts.  The first note   *)
(* changes its text, the second is kept, shares a text, or is deleted.      *)
EXTENDS SemIndex

CONSTANTS ta, tb, tc

MCTexts == {ta, tb, tc}
\* note 1 is rewritten, and its old text comes back in note 2
MCContent == << 0 :> <<ta>> @@ 1 :> <<tb>>,
                0 :> <<tc>> @@ 1 :> <<tc, ta>> >>
MCDelete  == << 0 :> <<ta, tb>> @@ 1 :> <<tb>>,
                0 :> <<ta>> @@ 1 :> Gone >>
=============================================================================
