------------------------- MODULE MCEdgeController --------------------------
EXTENDS EdgeController

\* Computers 1 to 3, routers 4 to 6; routers 4 and 5 share an address, and
\* computer 3 is not in the topology.
MCAddress == <<1, 2, 9, 3, 3, 4>>
MCTopology == <<<<0, 2, 1, 1>>, <<2, 0, 2, 1>>, <<1, 2, 0, 1>>, <<1, 1, 1, 0>>>>
MCContextOf == <<<<1, 1>>, <<2, 1>>, <<1, 2>>>>

Plain == [kind |-> "flat", objective |-> "min-max", routers |-> {4, 6},
          computers |-> {1, 2}, offers |-> {{1}, {1, 2}}, contexts |-> {}]

MCDeployments ==
  { Plain,
    [Plain EXCEPT !.kind = "hier", !.offers = {{1}}],
    [Plain EXCEPT !.kind = "hier", !.routers = {4, 5, 6}, !.computers = {1}, !.offers = {{1}}],
    [Plain EXCEPT !.kind = "hier", !.objective = "min-avg", !.computers = {1, 3}],
    [Plain EXCEPT !.kind = "etsi", !.routers = {4}],
    [Plain EXCEPT !.kind = "etsi", !.routers = {}, !.contexts = 1..3,
                 !.offers = {{1, 2}}] }

MCHierarchical == {[Plain EXCEPT !.kind = "hier", !.offers = {{1}}]}
=============================================================================
