------------------------ MODULE MCLambdaProcessor --------------------------
EXTENDS LambdaProcessor

CONSTANTS n1, n2, c1, c2, l1, l2

Plain == [node |-> "router", table |-> "least-impedance", optimizer |-> "none",
          fake |-> FALSE, pending |-> 2, threads |-> 3]
Dispatcher(estimator) == [node |-> "dispatcher", estimator |-> estimator, fake |-> FALSE,
                          pending |-> 2, threads |-> 3]

Change(l, d, w, final) ==
  [action |-> "CHANGE", l |-> l, d |-> d, w |-> w, final |-> final, i |-> 1]

Scenario(kind, first, second) ==
  [conf |-> (n1 :> kind @@ n2 :> Plain), changes |-> (n1 :> first @@ n2 :> second)]

Local == <<Change(l1, c1, 1, TRUE), Change(l1, c2, 3, TRUE)>>
Mixed == <<Change(l1, c1, 1, TRUE), Change(l1, n2, 3, FALSE)>>
Remote == <<Change(l1, c2, 1, TRUE)>>

\* In the first one two routers send the requests to each other.
MCScenarios ==
  { Scenario(Plain, <<Change(l1, n2, 1, TRUE)>>, <<Change(l1, n1, 1, TRUE)>>),
    Scenario([Plain EXCEPT !.optimizer = "async", !.pending = 1], Mixed, Remote),
    Scenario([Plain EXCEPT !.table = "round-robin", !.optimizer = "async",
                    !.threads = 1], Local, <<>>),
    Scenario([Plain EXCEPT !.table = "random", !.optimizer = "trivial",
                    !.threads = 1], Local, <<>>),
    Scenario([Plain EXCEPT !.table = "proportional-fairness", !.optimizer = "asyncpf",
                           !.fake = TRUE], Mixed, <<>>),
    Scenario([Dispatcher("rtt") EXCEPT !.pending = 1], Local, <<>>),
    Scenario(Dispatcher("util"),
             <<Change(l1, c1, 1, TRUE), Change(l2, c1, 1, TRUE)>>, <<>>),
    Scenario([Dispatcher("delay") EXCEPT !.pending = 0], Local, <<>>),
    Scenario([Dispatcher("probe") EXCEPT !.threads = 1], Local, <<>>) }

MCArrivals == {<<n1, l1>>}

MCCommands == n2 :> {} @@ n1 :>
  { Change(l1, c2, 1, TRUE), Change(l1, c1, 3, FALSE), Change(l2, c1, 0, TRUE),
    [action |-> "REMOVE", l |-> l1, d |-> c1, i |-> 1],
    [action |-> "FLUSH", i |-> 1, todo |-> None] }
=============================================================================
