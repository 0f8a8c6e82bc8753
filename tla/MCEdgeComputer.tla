--------------------------- MODULE MCEdgeComputer ---------------------------
(***************************************************************************)
(* An edge computer with two server threads, one asynchronous worker and   *)
(* three requests, with both back-ends (two HTTP workers).                 *)
(***************************************************************************)
EXTENDS EdgeComputer
=============================================================================
