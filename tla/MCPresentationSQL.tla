------------------------- MODULE MCPresentationSQL -------------------------
(***************************************************************************)
(* Instance for TLC of the MariaDB store: two clients of one server, which *)
(* shuts down between the steps of their requests.                         *)
(***************************************************************************)
EXTENDS PresentationSQL, TLC

CONSTANTS c1, c2, s1

OneServer == (c1 :> s1) @@ (c2 :> s1)
============================================================================
