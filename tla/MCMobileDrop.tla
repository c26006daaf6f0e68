---------------------------- MODULE MCMobileDrop ----------------------------
(***************************************************************************)
(* A small instance of MobileDrop for TLC: two sessions one after the      *)
(* other; the phone of the first one can send twice.                       *)
(***************************************************************************)
EXTENDS MobileDrop

MCUploads == [s \in 1..MaxSessions |-> IF s = 1 THEN 2 ELSE 0]
=============================================================================
