------------------------ MODULE MCSimulationClient -------------------------
(***************************************************************************)
(* Two executors, two requests; a chain of two functions, and a DAG with   *)
(* two parallel functions that join in a third one.                        *)
(***************************************************************************)
EXTENDS SimulationClient

MCFunctions == 1 .. 3
MCCallers == 0 .. 3
MCRequests == (1 .. NumRequests) \X MCFunctions
MCLoops == [single |-> {"unif", "poisson", "ipp"}, async |-> {"ipp"}, chain |-> {"poisson"},
            dag |-> {"unif"}]
MCAncestors == <<{}, {}, {1, 2}>>
=============================================================================
