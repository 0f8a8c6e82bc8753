---------------------------- MODULE MCClientPool ----------------------------
(***************************************************************************)
(* EdgeClientPool with default max-pending-clients = 2, three threads, two *)
(* destinations and one call to each that ends with an exception.          *)
(***************************************************************************)
EXTENDS ClientPool
=============================================================================
