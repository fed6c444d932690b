------------------------ MODULE MCDerivativeCache ------------------------
(***************************************************************************)
(* Instances for TLC: one source that changes under two requests, or one   *)
(* that is invalidated.                                                    *)
(***************************************************************************)
EXTENDS DerivativeCache, TLC

Symmetry == Permutations(Requests)
===========================================================================
