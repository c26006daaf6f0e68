-------------------------- MODULE MCDiscordBridge --------------------------
(***************************************************************************)
(* A small instance of DiscordBridge for TLC: three or four messages,      *)
(* the third one of another account, at most two of them in one answer.    *)
(***************************************************************************)
EXTENDS DiscordBridge

MCForeign == {3}
=============================================================================
