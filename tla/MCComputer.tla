----------------------------- MODULE MCComputer -----------------------------
(***************************************************************************)
(* Two containers, on one processor or on two, tasks of different sizes.   *)
(***************************************************************************)
EXTENDS Computer

MCRequirements == {[theMemory |-> 1, theOperations |-> 1],
                   [theMemory |-> 2, theOperations |-> 3],
                   [theMemory |-> 4, theOperations |-> 1]}
=============================================================================
