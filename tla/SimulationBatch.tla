-------------------------- MODULE SimulationBatch --------------------------
(***************************************************************************)
(* The batches of simulations of src/StateSim and src/LambdaMuSim: run()   *)
(* puts the simulations in a queue, the workers execute them and tell the  *)
(* outcome in another queue, and run() waits for all of them, or until the *)
(* first exception.  tool is the simulator.                                *)
(*                                                                         *)
(* A scenario belongs to the worker that simulates it, and so it moves in  *)
(* one step, except for central(): the workers of StateSim share the       *)
(* Network, and central() tests and writes a member that is not protected. *)
(* The batch of LambdaMuSim has one replication.                           *)
(***************************************************************************)
EXTENDS StateSimScenario, LambdaMuScenario

CONSTANTS Tools, Workers,
          Policies,  \* arguments of run(): sequences of alloc and exec policies
          Traces,    \* traces of jobs
          NumJobs,   \* theNumJobs
          MaxJobs    \* bound on the jobs of all the calls of run()

None == 0   \* no node

ASSUME BatchAssumption ==
  /\ Tools \subseteq {"statesim", "lambdamusim"} /\ None \notin ToSet(Net.processing)
  /\ \A p \in Policies : p.alloc \in Seq({"ProcOnly", "ProcNet"}) /\ p.exec \in Seq(ToSet(ExecPolicies))
  /\ \A trace \in Traces : IsFiniteSet(DOMAIN trace)

VARIABLES
  tool,
  runs,       \* jobs of the calls of run() so far
  clean,      \* no call of run() so far found anything left of an earlier one
  main,       \* where run() and the destructor are
  counter,    \* myDescCounter
  queueIn,    \* theQueueIn
  queueOut,   \* theQueueOut
  closed,     \* both queues are closed
  descs,      \* theDesc: the policies of each simulation
  scenario,   \* theScenario: cache of the network, affinities, jobs, clients, order
  data,       \* thePerformanceData of each simulation, 0 before it is known
  central,    \* theCentral of the network
  worker      \* of each worker: where it is, and the locals of its simulation

batchVars == <<tool, runs, clean, main, counter, queueIn, queueOut, closed, descs, scenario,
               data, central, worker>>
vars == <<batchVars, scenarioVars>>

(* theDesc: full factorial on the policies; LambdaMuSim has none *)
FullFactorial(policies) ==
  LET alloc == policies.alloc
      exec == policies.exec
  IN [i \in 1 .. Len(alloc) * Len(exec) |->
        [alloc |-> alloc[1 + ((i - 1) \div Len(exec))], exec |-> exec[1 + ((i - 1) % Len(exec))]]]
Idle == [at |-> "waiting", id |-> 0, placed |-> <<>>, centrals |-> <<>>, k |-> 0, worst |-> 0]

Init ==
  /\ ScenarioInit
  /\ tool \in Tools
  /\ runs = 0 /\ clean = TRUE /\ main = "out" /\ counter = 0 /\ queueIn = <<>> /\ queueOut = <<>>
  /\ closed = FALSE /\ descs = <<>> /\ scenario = <<>> /\ data = <<>> /\ central = None
  /\ worker = [w \in Workers |-> Idle]

-----------------------------------------------------------------------------
(***************************************************************************)
(* run() and the destructor.                                               *)
(***************************************************************************)
randomClients(jobs) == [DOMAIN jobs -> ToSet(Net.clients)]
shuffleJobIds(jobs) == {p \in [DOMAIN jobs -> DOMAIN jobs] : ToSet(p) = DOMAIN jobs}

(* the same seed draws the same jobs, clients and order for every policy *)
Scenarios ==
  UNION {UNION {{[cache |-> cacheEntry, affinities |-> Affinities, jobs |-> jobs, clients |-> c,
                  order |-> o] :
                   c \in randomClients(jobs), o \in shuffleJobIds(jobs)} :
                jobs \in selectJobs(loadJobs(trace), NumJobs)} : trace \in Traces}

NothingLeft ==
  queueIn = <<>> /\ queueOut = <<>> /\ \A w \in Workers : worker[w].at \in {"waiting", "ended"}

(* what a worker does once another replaces, or uses, what it is working   *)
(* on is undefined, up to the outcome that it tells                        *)
Astray(rec) ==
  IF rec.at \in {"waiting", "ended", "good", "thrown"} THEN rec
  ELSE [Idle EXCEPT !.at = "stray", !.id = rec.id]

(* nothing waits for what a call that has bailed out has left: the workers *)
(* that are busy find theDesc and the network replaced, and what is in the *)
(* queues stays there                                                      *)
run ==
  /\ main # "waiting" /\ ~closed
  /\ main' = "waiting"
  /\ clean' = (clean /\ NothingLeft)
  /\ worker' = [w \in Workers |-> Astray(worker[w])]
  /\ descs' \in IF tool = "statesim" THEN {FullFactorial(p) : p \in Policies}
               ELSE {<<[alloc |-> "none", exec |-> "none"]>>}
  /\ counter' = Len(descs')
  /\ scenario' \in IF tool = "statesim" THEN Scenarios ELSE {scenario}
  /\ runs' = runs + (IF tool = "statesim" THEN Len(scenario'.jobs) ELSE 1) /\ runs' <= MaxJobs
  /\ data' = IF tool = "lambdamusim" THEN <<0>>
             ELSE [i \in DOMAIN descs' |-> IF i \in DOMAIN data THEN data[i] ELSE 0]
  /\ central' = None /\ queueIn' = queueIn \o [i \in DOMAIN descs' |-> i]
  /\ IF tool = "statesim" THEN UNCHANGED scenarioVars ELSE NewScenario
  /\ UNCHANGED <<tool, queueOut, closed>>

(* an exception ends the batch while other simulations may be running *)
PopOutcome ==
  /\ main = "waiting" /\ queueOut # <<>>
  /\ queueOut' = Tail(queueOut)
  /\ IF Head(queueOut)
       THEN counter' = counter - 1 /\ main' = IF counter = 1 THEN "returned" ELSE "waiting"
       ELSE main' = "bailed" /\ UNCHANGED counter
  /\ UNCHANGED <<tool, runs, clean, queueIn, closed, descs, scenario, data, central, worker, scenarioVars>>

Destroy ==
  /\ main \in {"returned", "bailed"} /\ ~closed
  /\ closed' = TRUE
  /\ UNCHANGED <<tool, runs, clean, main, counter, queueIn, queueOut, descs, scenario, data, central, worker,
                 scenarioVars>>

-----------------------------------------------------------------------------
(***************************************************************************)
(* The workers.                                                            *)
(***************************************************************************)
Set(w, rec) == worker' = [worker EXCEPT ![w] = rec]

On(id) == {v \in Workers : worker[v].id = id}

(* a simulation that was left may be that of another worker, or none *)
Popped(w, id) ==
  worker' = [v \in Workers |->
    IF v = w
    THEN [Idle EXCEPT !.at = IF id \in DOMAIN descs /\ On(id) = {} THEN "popped" ELSE "stray", !.id = id]
    ELSE IF v \in On(id) THEN Astray(worker[v]) ELSE worker[v]]

(* a closed queue still gives the elements it holds *)
PopSimulation(w) ==
  /\ worker[w].at = "waiting"
  /\ IF queueIn # <<>>
       THEN queueIn' = Tail(queueIn) /\ Popped(w, Head(queueIn))
       ELSE closed /\ Set(w, [Idle EXCEPT !.at = "ended"]) /\ UNCHANGED queueIn
  /\ UNCHANGED <<tool, runs, clean, main, counter, queueOut, closed, descs, scenario, data, central, scenarioVars>>

(* allocateTasks, and performance unless it needs the central node *)
Allocate(w) ==
  LET desc == descs[worker[w].id]
      placed == allocateTasks(scenario, desc.alloc)
      empty == [t \in 1 .. NumTasks(scenario.jobs, Len(scenario.jobs)) |-> Net.processing[1]]
  IN
  /\ tool = "statesim" /\ worker[w].at = "popped"
  /\ IF ~placed.good
       THEN Set(w, [worker[w] EXCEPT !.at = "thrown"]) /\ UNCHANGED data
       ELSE IF desc.exec = "UnchainedInEdge"
       THEN Set(w, [worker[w] EXCEPT !.at = "central", !.placed = placed]) /\ UNCHANGED data
       ELSE /\ data' = [data EXCEPT ![worker[w].id] =
                          performance(scenario, placed, desc.exec, empty)]
            /\ Set(w, [worker[w] EXCEPT !.at = "good"])
  /\ UNCHANGED <<tool, runs, clean, main, counter, queueIn, queueOut, closed, descs, scenario, central, scenarioVars>>

(* central() is called for every task of every job *)
Called(w) == Len(worker[w].centrals) = NumTasks(scenario.jobs, Len(scenario.jobs))
Found(w) == [worker[w] EXCEPT !.at = "central", !.centrals = Append(@, central), !.k = 0]

(* theCentral is known, or it is searched for *)
CallCentral(w) ==
  /\ worker[w].at = "central" /\ ~Called(w)
  /\ IF central # None THEN Set(w, Found(w))
                       ELSE Set(w, [worker[w] EXCEPT !.at = "searching", !.k = 1, !.worst = 0])
  /\ UNCHANGED <<tool, runs, clean, main, counter, queueIn, queueOut, closed, descs, scenario, data, central,
                 scenarioVars>>

(* a candidate is compared: the first one is published if theCentral is    *)
(* not known, later ones if they are better than the last of this worker   *)
Compare(w) ==
  LET n == Net.processing[worker[w].k]
  IN
  /\ worker[w].at = "searching" /\ worker[w].k <= Len(Net.processing)
  /\ Set(w, IF central = None \/ Worst(n) < worker[w].worst
            THEN [worker[w] EXCEPT !.at = "publishing", !.worst = Worst(n)]
            ELSE [worker[w] EXCEPT !.k = @ + 1])
  /\ UNCHANGED <<tool, runs, clean, main, counter, queueIn, queueOut, closed, descs, scenario, data, central,
                 scenarioVars>>

Publish(w) ==
  /\ worker[w].at = "publishing"
  /\ central' = Net.processing[worker[w].k]
  /\ Set(w, [worker[w] EXCEPT !.at = "searching", !.k = @ + 1])
  /\ UNCHANGED <<tool, runs, clean, main, counter, queueIn, queueOut, closed, descs, scenario, data, scenarioVars>>

CentralFound(w) ==
  /\ worker[w].at = "searching" /\ worker[w].k > Len(Net.processing)
  /\ Set(w, Found(w))
  /\ UNCHANGED <<tool, runs, clean, main, counter, queueIn, queueOut, closed, descs, scenario, data, central,
                 scenarioVars>>

PerformInEdge(w) ==
  /\ worker[w].at = "central" /\ Called(w)
  /\ data' = [data EXCEPT ![worker[w].id] =
                performance(scenario, worker[w].placed, "UnchainedInEdge", worker[w].centrals)]
  /\ Set(w, [worker[w] EXCEPT !.at = "good"])
  /\ UNCHANGED <<tool, runs, clean, main, counter, queueIn, queueOut, closed, descs, scenario, central, scenarioVars>>

(* any result, also in the network that replaced its own, and any outcome *)
Stray(w) ==
  /\ worker[w].at = "stray"
  /\ \/ UNCHANGED data
     \/ worker[w].id \in DOMAIN data /\ data' = [data EXCEPT ![worker[w].id] = 0]
  /\ central' \in {central} \cup ToSet(Net.processing)
  /\ \E end \in {"good", "thrown"} : Set(w, [worker[w] EXCEPT !.at = end])
  /\ UNCHANGED <<tool, runs, clean, main, counter, queueIn, queueOut, closed, descs, scenario, scenarioVars>>

(* LambdaMuSim: dynamic() or snapshot(), then the data are added *)
StartScenario(w) ==
  /\ tool = "lambdamusim" /\ worker[w].at = "popped"
  /\ StartDynamic \/ StartSnapshot
  /\ Set(w, [worker[w] EXCEPT !.at = "scenario"])
  /\ UNCHANGED <<tool, runs, clean, main, counter, queueIn, queueOut, closed, descs, scenario, data, central>>
RunScenario(w) ==
  /\ worker[w].at = "scenario" /\ ScenarioStep
  /\ UNCHANGED batchVars
EndScenario(w) ==
  /\ worker[w].at = "scenario" /\ phase \in {"done", "thrown"}
  /\ data' = IF phase = "done" THEN <<costs>> ELSE data
  /\ Set(w, [worker[w] EXCEPT !.at = IF phase = "done" THEN "good" ELSE "thrown"])
  /\ UNCHANGED <<tool, runs, clean, main, counter, queueIn, queueOut, closed, descs, scenario, central, scenarioVars>>

(* Mutant: an exception is told as a good outcome. *)
TellOutcomeGood(w) ==
  /\ worker[w].at \in {"good", "thrown"}
  /\ IF closed THEN Set(w, [Idle EXCEPT !.at = "ended"]) /\ UNCHANGED queueOut
               ELSE Set(w, Idle) /\ queueOut' = Append(queueOut, TRUE)
  /\ UNCHANGED <<tool, runs, clean, main, counter, queueIn, closed, descs, scenario, data, central, scenarioVars>>

(* Mutant: an exception ends the simulation without an outcome. *)
TellOutcomeUnlessThrown(w) ==
  /\ worker[w].at \in {"good", "thrown"}
  /\ IF closed THEN Set(w, [Idle EXCEPT !.at = "ended"]) /\ UNCHANGED queueOut
               ELSE /\ Set(w, Idle)
                    /\ queueOut' = IF worker[w].at = "good" THEN Append(queueOut, TRUE) ELSE queueOut
  /\ UNCHANGED <<tool, runs, clean, main, counter, queueIn, closed, descs, scenario, data, central, scenarioVars>>

(* the outcome; a closed queue throws and ends the worker *)
TellOutcome(w) ==
  /\ worker[w].at \in {"good", "thrown"}
  /\ IF closed THEN Set(w, [Idle EXCEPT !.at = "ended"]) /\ UNCHANGED queueOut
               ELSE Set(w, Idle) /\ queueOut' = Append(queueOut, worker[w].at = "good")
  /\ UNCHANGED <<tool, runs, clean, main, counter, queueIn, closed, descs, scenario, data, central, scenarioVars>>

Next ==
  \/ run \/ PopOutcome \/ Destroy
  \/ \E w \in Workers :
       \/ PopSimulation(w) \/ Allocate(w) \/ CallCentral(w) \/ Compare(w) \/ Publish(w)
       \/ CentralFound(w) \/ PerformInEdge(w) \/ Stray(w) \/ StartScenario(w) \/ RunScenario(w) \/ EndScenario(w) \/ TellOutcome(w)

Spec == Init /\ [][Next]_vars

-----------------------------------------------------------------------------
(***************************************************************************)
(* Properties.                                                             *)
(***************************************************************************)
Busy(i) == \E w \in Workers : worker[w].id = i /\ worker[w].at # "waiting"
Outstanding == Cardinality({i \in DOMAIN descs : Busy(i)}) + Len(queueIn) + Len(queueOut)
Placed(i) == allocateTasks(scenario, descs[i].alloc)
Center == CHOOSE n \in ToSet(Net.processing) : \A m \in ToSet(Net.processing) : Worst(n) <= Worst(m)

(* As long as no call of run() found anything left of an earlier one:      *)
(* while run() waits (Simulation::run and Worker of both simulators) it    *)
(* counts exactly the outcomes to come, whatever the order in which the    *)
(* workers end; when it has returned without bailing out no worker is      *)
(* still on a simulation, and the results are those of this call, not of   *)
(* an earlier one, with the loads of the placement of its own jobs; and    *)
(* once no worker searches for it, the central node is the one with the    *)
(* least worst transfer time, although several workers may have found none *)
(* and have published their candidates in any order.                       *)
RunCollects ==
  clean =>
    /\ main = "waiting" => Outstanding = counter
    /\ main = "returned" =>
         /\ queueIn = <<>> /\ queueOut = <<>> /\ \A i \in DOMAIN descs : ~Busy(i)
         /\ tool = "statesim" =>
              \A i \in DOMAIN descs :
                /\ Placed(i).good
                /\ \A k \in DOMAIN Net.processing : data[i].load[k] = Placed(i).load[Net.processing[k]]
                /\ Len(data[i].jobs) = Len(scenario.jobs)
    /\ central # None /\ (\A w \in Workers : worker[w].at \notin {"searching", "publishing"}) =>
         Worst(central) = Worst(Center)

(* Whatever was left of a call of run() that has bailed out, a later one   *)
(* never waits for an outcome that no worker will tell: at least as many   *)
(* simulations are queued, executed or told as it still waits for.         *)
OutcomesSuffice ==
  main = "waiting" =>
    counter <= Cardinality({w \in Workers : worker[w].at \notin {"waiting", "ended"}})
                 + Len(queueIn) + Len(queueOut)

NeverSlower ==
  {<<"StateLocal", "StatePropagate">>, <<"StatePropagate", "PureFaaS">>,
   <<"UnchainedInFunction", "UnchainedInClient">>, <<"UnchainedInClient", "PureFaaS">>,
   <<"UnchainedInFunction", "UnchainedExternal">>, <<"UnchainedInFunction", "UnchainedInEdge">>}

RoutesAreLeast ==
  \A src, dst \in ToSet(Net.processing) : cacheEntry[src][dst].tx = LeastCosts[src][dst]
ChainsFollow ==
  \A trace \in Traces : \A j \in DOMAIN trace :
    {1} \cup ToSet(findChain(trace[j])) = Following(trace[j])

(* The policies rank as they should for every job, clients and placement   *)
(* (Scenario::performance of statesim/scenario.cpp): with the same         *)
(* allocation, to keep a state where it was last used is never slower than *)
(* to carry all of them along the chain, nor that than to send them back   *)
(* and forth from the client, and the fewer states an unchained policy     *)
(* moves, the faster.                                                      *)
(* It rests on routes of least transfer time (cacheEntry of network.cpp)   *)
(* and on chains that hold all the tasks after the first (findChain of     *)
(* job.cpp), compared with their definitions.                              *)
PoliciesRank ==
  /\ RoutesAreLeast /\ ChainsFollow
  /\ clean /\ main = "returned" /\ tool = "statesim" =>
       \A i, k \in DOMAIN descs : \A j \in DOMAIN scenario.jobs :
         descs[i].alloc = descs[k].alloc /\ <<descs[i].exec, descs[k].exec>> \in NeverSlower
           => data[i].jobs[j].net <= data[k].jobs[j].net
=============================================================================
