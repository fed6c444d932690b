--------------------------- MODULE MCPresentationFile ---------------------------
(***************************************************************************)
(* Instance for TLC of the file store: two clients and two documents, so   *)
(* that a stale condition differs from a current one.                      *)
(***************************************************************************)
EXTENDS PresentationFile
=============================================================================
