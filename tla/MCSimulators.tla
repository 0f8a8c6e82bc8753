---------------------------- MODULE MCSimulators ----------------------------
(***************************************************************************)
(* Four processing nodes, two of them clients, with three affinities for   *)
(* four functions: the fourth function gets none.  Link 13 is an           *)
(* alternative to 11 and 12, and link 15 is one-way.  A call of run() with *)
(* JobC bails out, and another one may follow.                             *)
(***************************************************************************)
EXTENDS SimulationBatch, TLC

Both(x, y) == {<<x, y>>, <<y, x>>}
MCNet == [
  links |-> {11, 12, 13, 14, 15},
  edges |-> Both(1, 11) \cup Both(11, 2) \cup Both(2, 12) \cup Both(12, 3) \cup Both(1, 13)
            \cup Both(13, 3) \cup Both(3, 14) \cup Both(14, 4) \cup {<<1, 15>>, <<15, 4>>},
  processing |-> <<1, 2, 3, 4>>, clients |-> <<1, 2>>,
  txCost |-> (11 :> 1) @@ (12 :> 1) @@ (13 :> 3) @@ (14 :> 2) @@ (15 :> 1),
  slowness |-> <<3, 1, 2, 1>>, speedUnit |-> 6, affinity |-> <<1, 2, 1, 3>>,
  cloudLatency |-> 5, cloudCost |-> 1,
  containers |-> (3 :> 1) @@ (4 :> 3), capacity |-> (3 :> 2) @@ (4 :> 1)]

(* a task: precedences, operations, size and function *)
T(prec, ops, size, func) == [prec |-> prec, ops |-> ops, size |-> size, func |-> func]
JobA == <<T({}, 1, 1, 1), T({}, 1, 3, 1), T({1, 2}, 2, 4, 2), T({3}, 1, 2, 3)>>
JobB == <<T({2}, 2, 2, 1), T({}, 1, 1, 1)>>
JobD == <<T({2}, 3, 4, 1), T({}, 1, 2, 1)>>
JobC == <<T({2}, 1, 1, 4), T({}, 1, 1, 1)>>
Stateless == <<T({}, 1, 1, 1), T({1}, 1, 1, 2)>>
MCTraces == {<<JobA, Stateless>>, <<JobB, JobD>>, <<JobC>>}
Symmetry == Permutations(Workers)

MCConf == [alpha |-> <<1, 2>>, beta |-> <<1, 2>>, cloudFactor |-> 2, localCost |-> 0,
           remoteCost |-> 1, epoch |-> 3, duration |-> 7]
MCPeriods == {<<2, 1>>, <<1, 2, 4, 2>>}
MCAppClasses == {[rate |-> 1, exchange |-> 1, storage |-> 0],
                 [rate |-> 2, exchange |-> 1, storage |-> 1]}
MCPolicies == {
  [alloc |-> <<"ProcOnly">>, exec |-> <<"PureFaaS", "StatePropagate", "StateLocal">>],
  [alloc |-> <<"ProcNet">>, exec |-> <<"UnchainedInFunction", "UnchainedInClient", "PureFaaS">>],
  [alloc |-> <<"ProcNet">>, exec |-> <<"UnchainedInFunction", "UnchainedExternal", "UnchainedInEdge">>],
  [alloc |-> <<"ProcOnly", "ProcNet">>, exec |-> <<"UnchainedInEdge">>]}
MCAlgorithms == {<<"hungarian", "mcfp">>, <<"random", "greedy">>, <<"greedy", "random">>}
=============================================================================
