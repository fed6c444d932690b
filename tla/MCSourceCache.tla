--------------------------- MODULE MCSourceCache ---------------------------
(***************************************************************************)
(* Instances for TLC: two requests and the refreshes of one URL.           *)
(***************************************************************************)
EXTENDS SourceCache, TLC

TwoThenOne == <<2, 1>>
TwoEach == <<2, 2>>

Symmetry == Permutations(Readers)
===========================================================================
