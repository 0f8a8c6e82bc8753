---------------------------- MODULE HomeRouter -----------------------------
(***************************************************************************)
(* The choice of the home router of a computer in a hierarchical           *)
(* controller (EdgeControllerHier::findClosest over a Topology).           *)
(* A topology is a square matrix of distances: dist[a][b] is the distance  *)
(* from node a to node b, and the nodes of the topology are DOMAIN dist.   *)
(* Distances are natural numbers: numbers of hops, or, in a topology that  *)
(* was randomized, the distances in a unit in which they all are whole.    *)
(* The score is a sum of distances with integer weights, so the unit does  *)
(* not matter; rounding is left out.                                       *)
(***************************************************************************)
EXTENDS Integers, FiniteSets, FiniteSetsExt

numNodes(dist) == Cardinality(DOMAIN dist)

\* Topology::distance throws InvalidNode for a node that is not listed.
InvalidNodes(dist, nodes) == nodes \ DOMAIN dist # {}

MaxCost(dist, routers, r, c) == dist[r][c] + Max({dist[r][o] : o \in routers})

AvgCost(dist, routers, r, c) ==
  numNodes(dist) * dist[r][c] + MapThenSumSet(LAMBDA o : dist[r][o], routers)

(* Mutant: the distance from the router to the computer is left out. *)
ScoreOfRoutersOnly(dist, objective, routers, r, c) ==
  LET omega == 1 + 2 * numNodes(dist) * numNodes(dist)
      max == MaxCost(dist, routers, r, c) - dist[r][c]
      avg == AvgCost(dist, routers, r, c) - numNodes(dist) * dist[r][c]
  IN IF objective = "min-max" THEN omega * max + avg ELSE max + omega * avg

Score(dist, objective, routers, r, c) ==
  LET omega == 1 + 2 * numNodes(dist) * numNodes(dist)
      max == MaxCost(dist, routers, r, c)
      avg == AvgCost(dist, routers, r, c)
  IN IF objective = "min-max" THEN omega * max + avg ELSE max + omega * avg

\* std::min_element over the routers in the order of their addresses.
Closest(dist, objective, routers, c) ==
  LET score(r) == Score(dist, objective, routers, r, c)
      least == Min({score(r) : r \in routers})
  IN Min({r \in routers : score(r) = least})

\* The weight omega of the first cost outdoes any difference of the second one.
HopCounts(dist) == \A a, b \in DOMAIN dist : dist[a][b] <= numNodes(dist)

(***************************************************************************)
(* What the controller promises (edgecontrollerhier.h): the home router    *)
(* has the least maximum cost, and the least average cost among those      *)
(* that have it; or the other way round for the objective min-avg.         *)
(***************************************************************************)
Preferred(dist, objective, routers, c) ==
  LET max(r) == MaxCost(dist, routers, r, c)
      avg(r) == AvgCost(dist, routers, r, c)
      first(r) == IF objective = "min-max" THEN max(r) ELSE avg(r)
      second(r) == IF objective = "min-max" THEN avg(r) ELSE max(r)
      Before(r, o) == first(r) < first(o) \/ (first(r) = first(o) /\ second(r) <= second(o))
  IN {r \in routers : \A o \in routers : Before(r, o)}
=============================================================================
