-------------------------- MODULE LambdaMuScenario -------------------------
(***************************************************************************)
(* A scenario of src/LambdaMuSim.  An app, connected to a broker, is in a  *)
(* lambda period (stateless, its requests are split on the containers of   *)
(* the edge nodes and of the cloud) or in a mu period (it owns one         *)
(* container).  In every epoch all the apps are assigned again; in between *)
(* an app that changes is migrated by itself.  Random draws are inputs;    *)
(* alpha and beta are ratios of integers.  Averages over time are left     *)
(* out.                                                                    *)
(***************************************************************************)
EXTENDS SimNetwork

CONSTANTS Conf,        \* record: alpha, beta, cloudFactor, localCost, remoteCost, epoch, duration
          Periods,     \* AppPeriods: sequences of even length
          AppClasses,  \* AppModel: records rate, exchange, storage
          MaxApps,     \* bound on the number of apps
          Algorithms   \* pairs of a mu-algorithm and a lambda-algorithm

CLOUD == 0
EdgeNodes ==
  Selected(Net.processing, {k \in DOMAIN Net.processing : Net.processing[k] \notin ToSet(Net.clients)})
Edges == CLOUD .. Len(EdgeNodes)
Brokers == DOMAIN Net.clients

MuAlgorithms == {"random", "greedy", "hungarian"}
LambdaAlgorithms == {"random", "greedy", "mcfp"}

(* alpha and beta are in [0, 1]; a beta of 0 leaves no capacity *)
checkArgs ==
  /\ Conf.alpha \in Nat \X (Nat \ {0}) /\ Conf.alpha[1] <= Conf.alpha[2]
  /\ Conf.beta \in (Nat \ {0}) \X (Nat \ {0}) /\ Conf.beta[1] <= Conf.beta[2]
ValidConf ==
  /\ \A x \in {"cloudFactor", "localCost", "remoteCost"} : Conf[x] \in Nat
  /\ \A x \in {"epoch", "duration"} : Conf[x] \in Nat \ {0}

ASSUME LambdaMuAssumption ==
  /\ checkArgs /\ ValidConf
  /\ Algorithms \subseteq MuAlgorithms \X LambdaAlgorithms /\ Algorithms # {}
  /\ \A p \in Periods : p \in Seq(Nat) /\ Len(p) > 0 /\ Len(p) % 2 = 0
  /\ \A c \in AppClasses : c.rate \in Nat /\ c.exchange \in Nat /\ c.storage \in Nat
  /\ MaxApps \in Nat /\ EdgeNodes # <<>> /\ Net.clients # <<>>
  /\ \A n \in ToSet(EdgeNodes) : Net.containers[n] \in Nat /\ Net.capacity[n] \in Nat

VARIABLES
  algorithms,  \* theMuAlgorithm, theLambdaAlgorithm
  networkCost, \* theNetworkCost
  cloud,       \* theEdges[CLOUD]: number of containers and capacity
  apps,        \* theApps
  muApps,      \* theMuApps of each edge
  pool,        \* theDesc of the AppPool: a differential list
  position,    \* thePool: period and index of theCurrent, of each app
  clock,       \* myClock
  nextEpoch,   \* myNextEpoch
  optimize,    \* myOptimize
  numLambda,   \* myNumLambda
  costs,       \* myLambdaCost, myMuCost
  phase        \* where the simulation is

scenarioVars == <<algorithms, networkCost, cloud, apps, muApps, pool, position, clock, nextEpoch,
                  optimize, numLambda, costs, phase>>

(* the cost of a broker to reach an edge; that of the cloud is in          *)
(* proportion to the farthest edge                                         *)
NetworkCosts ==
  LET far == Max({hops(cacheEntry, Net.clients[p[1]], EdgeNodes[p[2]]) :
                    p \in Brokers \X DOMAIN EdgeNodes})
  IN [b \in Brokers |-> [e \in Edges |->
        IF e = CLOUD THEN Conf.cloudFactor * far ELSE hops(cacheEntry, Net.clients[b], EdgeNodes[e])]]

Apps == DOMAIN apps
OfType(as, type) == {a \in DOMAIN as : as[a].type = type}
numContainers(e) == IF e = CLOUD THEN cloud.containers ELSE Net.containers[EdgeNodes[e]]
capacity(e) == IF e = CLOUD THEN cloud.capacity ELSE Net.capacity[EdgeNodes[e]]

(* the containers for mu-apps are reduced by alpha, except in the cloud *)
usable(e) == IF e = CLOUD THEN numContainers(e)
             ELSE (numContainers(e) * Conf.alpha[1]) \div Conf.alpha[2]

-----------------------------------------------------------------------------
(***************************************************************************)
(* assignMuApps.  The solvers of the assignment problem are in a library:  *)
(* any assignment of apps to different containers, of least cost for the   *)
(* Hungarian algorithm.                                                    *)
(***************************************************************************)
MuAssignmentCost(f) ==
  SumFunction([a \in DOMAIN f |->
                 apps[a].rate * networkCost[apps[a].broker][f[a]] * apps[a].exchange])
MuAssignments ==
  LET all == {f \in [OfType(apps, "mu") -> Edges] :
                \A e \in Edges : Cardinality({a \in DOMAIN f : f[a] = e}) <= usable(e)}
  IN IF algorithms[1] = "hungarian"
       THEN {f \in all : \A g \in all : MuAssignmentCost(f) <= MuAssignmentCost(g)}
       ELSE all

Assigned(f) == [a \in Apps |-> IF a \in DOMAIN f THEN [apps[a] EXCEPT !.edge = f[a]] ELSE apps[a]]
MuAppsOf(f) == [e \in Edges |-> Sorted({a \in DOMAIN f : f[a] = e})]

-----------------------------------------------------------------------------
(***************************************************************************)
(* assignLambdaApps.  Containers not used by mu-apps, with the same costs, *)
(* are grouped.  The cost of the storage tells the cloud from the index of *)
(* the container, not of its node: only the first container is local.      *)
(***************************************************************************)
Containers(mus) ==
  LET free(e) == numContainers(e) - Len(mus[e])
      each(e) == (Conf.beta[1] * capacity(e)) \div Conf.beta[2]
      group(e, number, local) == [edge |-> e, capacity |-> number * each(e), local |-> local]
  IN <<group(CLOUD, 1, TRUE), group(CLOUD, free(CLOUD) - 1, FALSE)>>
       \o [e \in 1 .. Len(EdgeNodes) |-> group(e, free(e), FALSE)]

LambdaAppCost(a, c) ==
  networkCost[apps[a].broker][c.edge] * apps[a].exchange
    + (IF c.local THEN Conf.localCost ELSE Conf.remoteCost) * apps[a].storage

FlowCost(w, cs) ==
  SumFunction([a \in DOMAIN w |->
                 SumFunction([c \in DOMAIN cs |-> w[a][c] * LambdaAppCost(a, cs[c])])])
FlowSize(w) == SumFunction([a \in DOMAIN w |-> SumFunction(w[a])])

(* one request of app a goes to the first container of least cost *)
GreedyUnit(acc, a, cs) ==
  LET open == {c \in DOMAIN cs : acc.left[c] > 0}
      best == CHOOSE c \in open : \A d \in open :
                \/ LambdaAppCost(a, cs[c]) < LambdaAppCost(a, cs[d])
                \/ LambdaAppCost(a, cs[c]) = LambdaAppCost(a, cs[d]) /\ c <= d
  IN IF open = {} THEN acc
     ELSE [weights |-> [acc.weights EXCEPT ![a][best] = @ + 1], left |-> [acc.left EXCEPT ![best] = @ - 1]]
GreedyApp(acc, a, cs) ==
  LET after[u \in 0 .. apps[a].rate] == IF u = 0 THEN acc ELSE GreedyUnit(after[u - 1], a, cs)
  IN after[apps[a].rate]
solveGreedy(as, cs) ==
  LET start == [weights |-> [a \in as |-> [c \in DOMAIN cs |-> 0]],
                left |-> [c \in DOMAIN cs |-> cs[c].capacity]]
      after[k \in 0 .. Cardinality(as)] ==
        IF k = 0 THEN start ELSE GreedyApp(after[k - 1], Sorted(as)[k], cs)
  IN after[Cardinality(as)].weights

(* solveRandom: any way to serve as many requests as possible *)
solveRandom(as, cs) ==
  LET splits(rate) == {s \in [DOMAIN cs -> 0 .. rate] : SumFunction(s) <= rate}
      rates == {apps[a].rate : a \in as}
      flows == {w \in [as -> UNION {splits(r) : r \in rates}] :
                  /\ \A a \in as : w[a] \in splits(apps[a].rate)
                  /\ \A c \in DOMAIN cs : SumFunction([a \in as |-> w[a][c]]) <= cs[c].capacity}
      most == Min({SumFunction([a \in as |-> apps[a].rate]),
                   SumFunction([c \in DOMAIN cs |-> cs[c].capacity])})
  IN {w \in flows : FlowSize(w) = most}

LambdaSolutions(as, cs) ==
  CASE algorithms[2] = "greedy" -> {solveGreedy(as, cs)}
    [] algorithms[2] = "random" -> solveRandom(as, cs)
    [] algorithms[2] = "mcfp" ->
         LET all == solveRandom(as, cs)
             least == Min({FlowCost(v, cs) : v \in all})
         IN {w \in all : FlowCost(w, cs) = least}

(* the weights of the containers of a node are summed *)
WeightsOf(w, cs) ==
  [e \in Edges |-> SumFunctionOnSet(w, {c \in DOMAIN cs : cs[c].edge = e})]

(* both assignments, one after the other *)
Assign ==
  LET lambdas == OfType(apps, "lambda") IN
  \E f \in MuAssignments :
    LET mus == IF DOMAIN f = {} THEN muApps ELSE MuAppsOf(f)
        cs == Containers(mus)
        mu == MuAssignmentCost(f)
    IN /\ muApps' = mus
       /\ IF lambdas = {}
            THEN apps' = Assigned(f) /\ costs' = [lambda |-> 0, mu |-> mu]
            ELSE \E w \in LambdaSolutions(lambdas, cs) :
                   /\ apps' = [a \in Apps |->
                        IF a \in lambdas THEN [apps[a] EXCEPT !.weights = WeightsOf(w[a], cs)]
                                         ELSE Assigned(f)[a]]
                   /\ costs' = [lambda |-> FlowCost(w, cs), mu |-> mu]

-----------------------------------------------------------------------------
(***************************************************************************)
(* The migration of one app.                                               *)
(***************************************************************************)
lambdaCost(a) ==
  SumFunction([e \in Edges |-> networkCost[apps[a].broker][e] * apps[a].weights[e]])

muCost(a, e) == networkCost[apps[a].broker][e]

LeastCostEdge(a) ==
  LET free == {e \in Edges : usable(e) > Len(muApps[e])} IN
  CHOOSE e \in free : \A d \in free :
    \/ muCost(a, e) < muCost(a, d)
    \/ muCost(a, e) = muCost(a, d) /\ e <= d

migrateLambdaToMu(a) ==
  LET e == LeastCostEdge(a) IN
  /\ muApps' = [muApps EXCEPT ![e] = Append(@, a)]
  /\ apps' = [apps EXCEPT ![a].edge = e, ![a].weights = <<>>, ![a].type = "mu"]
  /\ costs' = [lambda |-> costs.lambda - lambdaCost(a),
               mu |-> costs.mu + muCost(a, e)]
  /\ numLambda' = numLambda - 1

(* Mutant: the app is left in the list of its edge. *)
migrateMuToLambdaKept(a) ==
  LET e == apps[a].edge
      all == [d \in Edges |-> IF d = CLOUD THEN apps[a].rate ELSE 0]
  IN
  /\ apps' = [apps EXCEPT ![a].weights = all, ![a].type = "lambda"]
  /\ costs' = [lambda |-> costs.lambda + networkCost[apps[a].broker][CLOUD] * apps[a].rate,
               mu |-> costs.mu - muCost(a, e)]
  /\ numLambda' = numLambda + 1 /\ UNCHANGED muApps

(* all the requests go to the cloud *)
migrateMuToLambda(a) ==
  LET e == apps[a].edge
      all == [d \in Edges |-> IF d = CLOUD THEN apps[a].rate ELSE 0]
  IN
  /\ muApps' = [muApps EXCEPT ![e] = Selected(@, {k \in DOMAIN @ : @[k] # a})]
  /\ apps' = [apps EXCEPT ![a].weights = all, ![a].type = "lambda"]
  /\ costs' = [lambda |-> costs.lambda + networkCost[apps[a].broker][CLOUD] * apps[a].rate,
               mu |-> costs.mu - muCost(a, e)]
  /\ numLambda' = numLambda + 1

-----------------------------------------------------------------------------
(***************************************************************************)
(* AppPool: remaining times, each relative to the previous element.        *)
(***************************************************************************)
Differential(list) ==
  [k \in DOMAIN list |-> IF k = 1 THEN list[1]
                         ELSE [list[k] EXCEPT !.remaining = @ - list[k - 1].remaining]]

AppPool(pos) ==
  Differential(SortedBy({[app |-> a, remaining |-> pos[a].period[pos[a].index]] : a \in DOMAIN pos},
                        LAMBDA x, y : \/ x.remaining < y.remaining
                                      \/ x.remaining = y.remaining /\ x.app < y.app))

NextTransition == Head(pool).remaining
AdvanceTime(time) == [pool EXCEPT ![1].remaining = @ - time]

Turned(p) == [p EXCEPT !.index = IF @ = Len(p.period) THEN 1 ELSE @ + 1]

(* the differential list after d is inserted: d follows the elements that  *)
(* end before it, and what comes next is relative to d.  The time that has *)
(* passed is added to the new period.                                      *)
InsertDesc(list, d) ==
  LET end[k \in 0 .. Len(list)] == IF k = 0 THEN 0 ELSE end[k - 1] + list[k].remaining
      at == Min({k \in DOMAIN list : d.remaining <= end[k]} \cup {Len(list) + 1})
      left == d.remaining - end[at - 1]
  IN InsertAt([k \in DOMAIN list |->
                 IF k = at THEN [list[k] EXCEPT !.remaining = @ - left] ELSE list[k]],
              at, [d EXCEPT !.remaining = left])

AdvancePool(pos) ==
  LET s == Head(pool) IN
  InsertDesc(Tail(pool), [s EXCEPT !.remaining = @ + pos[s.app].period[pos[s.app].index]])

-----------------------------------------------------------------------------
(***************************************************************************)
(* dynamic() and snapshot().                                               *)
(***************************************************************************)
App(broker, class, type) ==
  [broker |-> broker, type |-> type, rate |-> class.rate, exchange |-> class.exchange,
   storage |-> class.storage, edge |-> CLOUD, weights |-> <<>>]
SumRates(as, set) == SumFunction([a \in set |-> as[a].rate])
CloudOf(containers, rates) ==
  [containers |-> containers, capacity |-> (rates * Conf.beta[2]) \div Conf.beta[1]]
NewApps(n, lambdas) ==
  {[a \in 1 .. n |-> App(x[a][1], x[a][2], IF a <= lambdas THEN "lambda" ELSE "mu")] :
     x \in [1 .. n -> Brokers \X AppClasses]}
Positions(n) ==
  [1 .. n -> UNION {{[period |-> p, index |-> i] : i \in {k \in DOMAIN p : k % 2 = 1}} : p \in Periods}]
NoCosts == [lambda |-> 0, mu |-> 0]   \* theLambdaCost, theMuCost of PerformanceData
NoMuApps == [e \in Edges |-> <<>>]

ScenarioInit ==
  /\ networkCost = NetworkCosts
  /\ algorithms = CHOOSE x \in Algorithms : TRUE
  /\ cloud = [containers |-> 0, capacity |-> 0] /\ apps = <<>> /\ muApps = NoMuApps
  /\ pool = <<>> /\ position = <<>> /\ clock = 0 /\ nextEpoch = 0
  /\ optimize = TRUE /\ numLambda = 0 /\ costs = NoCosts
  /\ phase = "none"

NewScenario ==
  /\ algorithms' \in Algorithms
  /\ cloud' = [containers |-> 0, capacity |-> 0] /\ apps' = <<>> /\ muApps' = NoMuApps
  /\ pool' = <<>> /\ position' = <<>> /\ clock' = 0 /\ nextEpoch' = 0
  /\ optimize' = TRUE /\ numLambda' = 0 /\ costs' = NoCosts
  /\ phase' = "none"
  /\ UNCHANGED networkCost   \* the network is read again from the same files

(* the apps are born in a lambda period; a pool without apps throws *)
StartDynamic ==
  \E n \in 0 .. MaxApps : \E as \in NewApps(n, n), pos \in Positions(n) :
    /\ phase = "none"
    /\ apps' = as /\ muApps' = NoMuApps
    /\ cloud' = CloudOf(1 + n, SumRates(as, 1 .. n))
    /\ position' = pos /\ pool' = IF n = 0 THEN <<>> ELSE AppPool(pos)
    /\ clock' = 0 /\ nextEpoch' = 0 /\ optimize' = TRUE /\ numLambda' = n
    /\ costs' = NoCosts
    /\ phase' = IF n = 0 THEN "thrown" ELSE "dynamic"
    /\ UNCHANGED <<algorithms, networkCost>>

InEpoch == phase = "dynamic" /\ clock < Conf.duration /\ nextEpoch <= NextTransition

NewEpoch ==
  /\ InEpoch /\ optimize
  /\ Assign
  /\ pool' = AdvanceTime(nextEpoch) /\ clock' = clock + nextEpoch
  /\ nextEpoch' = Conf.epoch /\ optimize' = FALSE
  /\ UNCHANGED <<algorithms, networkCost, cloud, position, numLambda, phase>>

SkipEpoch ==
  /\ InEpoch /\ ~optimize
  /\ pool' = AdvanceTime(nextEpoch) /\ clock' = clock + nextEpoch
  /\ nextEpoch' = Conf.epoch
  /\ UNCHANGED <<algorithms, networkCost, cloud, apps, muApps, position, optimize, numLambda, costs, phase>>

(* an app changes between two epochs *)
Transition ==
  LET a == Head(pool).app
      pos == [position EXCEPT ![a] = Turned(@)]
  IN
  /\ phase = "dynamic" /\ clock < Conf.duration /\ nextEpoch > NextTransition
  /\ position' = pos /\ pool' = AdvancePool(pos)
  /\ clock' = clock + NextTransition /\ nextEpoch' = nextEpoch - NextTransition
  /\ optimize' = TRUE
  /\ IF apps[a].type = "lambda" THEN migrateLambdaToMu(a) ELSE migrateMuToLambda(a)
  /\ UNCHANGED <<algorithms, networkCost, cloud, phase>>

EndDynamic ==
  /\ phase = "dynamic" /\ clock >= Conf.duration
  /\ phase' = "done"
  /\ UNCHANGED <<algorithms, networkCost, cloud, apps, muApps, pool, position, clock, nextEpoch,
                 optimize, numLambda, costs>>

(* apps, then both assignments; a scenario without apps is not an error *)
StartSnapshot ==
  \E n \in 0 .. MaxApps : \E k \in 0 .. n : \E as \in NewApps(n, k) :
    /\ phase = "none"
    /\ apps' = as /\ muApps' = NoMuApps
    /\ cloud' = CloudOf(1 + n - k, SumRates(as, 1 .. k))
    /\ numLambda' = k /\ phase' = "snapshot" /\ pool' = <<>> /\ position' = <<>>
    /\ UNCHANGED <<algorithms, networkCost, clock, nextEpoch, optimize, costs>>

EndSnapshot ==
  /\ phase = "snapshot" /\ Assign /\ phase' = "done"
  /\ UNCHANGED <<algorithms, networkCost, cloud, pool, position, clock, nextEpoch, optimize, numLambda>>

ScenarioStep == NewEpoch \/ SkipEpoch \/ Transition \/ EndDynamic \/ EndSnapshot

-----------------------------------------------------------------------------
(***************************************************************************)
(* Properties.                                                             *)
(***************************************************************************)
Unit(a) == apps[a].rate = 1 /\ apps[a].exchange = 1 /\ apps[a].storage = 0

ListsExact ==
  \A e \in Edges :
    /\ Len(muApps[e]) <= usable(e)
    /\ ToSet(muApps[e]) = {a \in OfType(apps, "mu") : apps[a].edge = e}
    /\ Len(muApps[e]) = Cardinality(ToSet(muApps[e]))
PeriodsFollowed ==
  /\ numLambda = Cardinality(OfType(apps, "lambda"))
  /\ position # <<>> =>
       /\ \A a \in Apps : apps[a].type = "lambda" <=> position[a].index % 2 = 1
       /\ \A k \in DOMAIN pool : pool[k].remaining >= 0
       /\ {pool[k].app : k \in DOMAIN pool} = Apps /\ Len(pool) = Cardinality(Apps)
RequestsServed ==
  \A a \in Apps :
    IF apps[a].type = "mu" THEN apps[a].weights = <<>>
    ELSE \/ apps[a].weights = <<>> /\ clock = 0
         \/ /\ apps[a].weights \in [Edges -> Nat]
            /\ Conf.beta[2] % Conf.beta[1] = 0 => SumFunction(apps[a].weights) = apps[a].rate
CostsCurrent ==
  (\A a \in Apps : Unit(a) /\ (apps[a].type = "lambda" => apps[a].weights # <<>>)) =>
    /\ costs.mu = SumFunction([a \in OfType(apps, "mu") |-> muCost(a, apps[a].edge)])
    /\ costs.lambda = SumFunction([a \in OfType(apps, "lambda") |-> lambdaCost(a)])

(* Whatever the sequence of epochs and transitions of apps (dynamic,       *)
(* migrateLambdaToMu, migrateMuToLambda and the assignments of             *)
(* lambdamusim/scenario.cpp): the apps that an edge lists are those        *)
(* assigned to it, within the containers that alpha leaves to mu-apps; an  *)
(* app is lambda exactly in the lambda periods of its trace; after the     *)
(* first assignment every request of a lambda-app is served by someone, if *)
(* 1 / beta is an integer, so that no capacity is lost in rounding; and,   *)
(* for apps of unit parameters, the costs kept up to date by differences   *)
(* are those of the current assignment.                                    *)
AppsAccounted ==
  phase \in {"dynamic", "done"} =>
    ListsExact /\ PeriodsFollowed /\ RequestsServed /\ CostsCurrent
=============================================================================
