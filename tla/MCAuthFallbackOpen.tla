------------------------ MODULE MCAuthFallbackOpen ------------------------
(***************************************************************************)
(* Instance for TLC: three requests, the third of which may come with      *)
(* other credentials, and two call objects: the call being served and the  *)
(* next one for the same key, or the calls of two keys.                    *)
(***************************************************************************)
EXTENDS AuthFallbackOpen, TLC

CONSTANTS r1, r2, r3, k1, k2

MCKeysOf == r1 :> {k1} @@ r2 :> {k1} @@ r3 :> {k1, k2}
===========================================================================
