----------------------------- MODULE MCWorkflow -----------------------------
(***************************************************************************)
(* Two computers and two workflows, each a chain of three functions or a   *)
(* DAG with two branches; the second branch of MCDag and the join of       *)
(* MCSplitDag may run on either computer.                                  *)
(***************************************************************************)
EXTENDS Workflow, TLC

CONSTANTS c1, c2, f0, f1, f2, s1

MCNumThreads == c1 :> 2 @@ c2 :> 1
MCHosts == f0 :> {c1} @@ f1 :> {c2} @@ f2 :> {c1, c2}

MCChain == [kind |-> "chain",
            names |-> (0 :> f0 @@ 1 :> f2 @@ 2 :> f1),
            successors |-> (0 :> <<1>> @@ 1 :> <<2>>),
            dependencies |-> s1 :> {f1, f2}]

MCDag == [kind |-> "dag",
          names |-> (0 :> f0 @@ 1 :> f1 @@ 2 :> f2 @@ 3 :> f0),
          successors |-> (0 :> <<1, 2>> @@ 1 :> <<3>> @@ 2 :> <<3>>),
          dependencies |-> s1 :> {f1}]

\* The join is on both computers.
MCSplitDag == [MCDag EXCEPT !.names = 0 :> f0 @@ 1 :> f1 @@ 2 :> f0 @@ 3 :> f2]

MCWorkflows == {MCChain, MCDag, MCSplitDag}
=============================================================================
