--------------------------- MODULE MCLocalAuth ---------------------------
(***************************************************************************)
(* Instance for TLC: two sessions and one source, with room for a single   *)
(* credentialed decision.                                                  *)
(***************************************************************************)
EXTENDS LocalAuth, TLC

===========================================================================
