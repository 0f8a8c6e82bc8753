------------------------- MODULE StateSimScenario --------------------------
(***************************************************************************)
(* A scenario of src/StateSim: chains of stateful tasks, loaded from a     *)
(* trace, are placed on the nodes of the network and their delays and      *)
(* traffic are computed under several policies.  Random draws (the         *)
(* functions, the clients, the order of the jobs) are inputs.  Scale       *)
(* factors and units are left out: all quantities are integers.            *)
(***************************************************************************)
EXTENDS SimNetwork

CONSTANT NumFunctions   \* functions are 1..NumFunctions

Indices(seq) == [k \in 1 .. Len(seq) |-> k]
SumOver(set, f(_)) == MapThenSumSet(f, set)

-----------------------------------------------------------------------------
(***************************************************************************)
(* The jobs.  A job of the trace is a sequence of tasks with their         *)
(* precedences; the tasks that follow task 1 are the chain, the others     *)
(* that the chain depends on are its states.                               *)
(***************************************************************************)
findChain(tasks) ==
  LET find[chain \in Seq(DOMAIN tasks), cur \in DOMAIN tasks] ==
        FoldLeft(LAMBDA c, i : IF i \in ToSet(c) \/ cur \notin tasks[i].prec THEN c
                               ELSE find[Append(c, i), i],
                 chain, Indices(tasks))
  IN find[<<>>, 1]

Task(size, ops, func, deps) == [size |-> size, ops |-> ops, func |-> func, deps |-> deps]
Job(tasks, stateSizes, retSize) ==
  [tasks |-> tasks, stateSizes |-> stateSizes, retSize |-> retSize]

(* tasks and states are numbered again, in the order of the trace *)
LoadJob(tasks) ==
  LET inChain == {1} \cup ToSet(findChain(tasks))
      deps(t) == tasks[t].prec \ inChain
      chain == Sorted(inChain)
      states == Sorted(UNION {deps(t) : t \in inChain})
      task(t) == Task(tasks[t].size, tasks[t].ops, tasks[t].func,
                      {s \in DOMAIN states : states[s] \in deps(t)})
  IN Job([k \in DOMAIN chain |-> task(chain[k])],
         [s \in DOMAIN states |-> tasks[states[s]].size], tasks[1].size)

(* jobs without states are discarded *)
loadJobs(trace) ==
  Selected([j \in DOMAIN trace |-> LoadJob(trace[j])],
           {j \in DOMAIN trace : LoadJob(trace[j]).stateSizes # <<>>})

(* every job is selected with a probability; of them all if they are few *)
selectJobs(jobs, number) ==
  IF number >= Len(jobs) THEN {jobs}
  ELSE {Selected(jobs, set) : set \in SUBSET DOMAIN jobs}

-----------------------------------------------------------------------------
(***************************************************************************)
(* The affinities: functions in order, each affinity a share in proportion *)
(* to the speed of its nodes.  Shares are rounded, so that the last        *)
(* functions may have no affinity: Affinities may be shorter than          *)
(* NumFunctions.                                                           *)
(***************************************************************************)
speed(n) == Net.speedUnit \div Net.slowness[n]
AffinityWeight(a) ==
  SumOver({n \in ToSet(Net.processing) : Net.affinity[n] = a}, speed)
Affinities ==
  LET sum == SumOver(ToSet(Net.processing), speed)
      share(a) == (2 * NumFunctions * AffinityWeight(a) + sum) \div (2 * sum)
  IN FoldLeft(LAMBDA done, a :
                done \o [k \in 1 .. Min({share(a), NumFunctions - Len(done)}) |-> a],
              <<>>, Sorted({Net.affinity[n] : n \in ToSet(Net.processing)}))

-----------------------------------------------------------------------------
(***************************************************************************)
(* allocateTasks: every task goes to the node with the affinity of its     *)
(* function where it takes the least, given the load so far.               *)
(***************************************************************************)
stateSize(job, t, all) ==
  SumOver(IF all THEN DOMAIN job.stateSizes ELSE job.tasks[t].deps,
          LAMBDA s : job.stateSizes[s])

(* Mutant: the answer of a task has the size of its own argument. *)
outArgSizeOwn(job, t) == IF t = Len(job.tasks) THEN job.retSize ELSE job.tasks[t].size

outArgSize(job, t) == IF t = Len(job.tasks) THEN job.retSize ELSE job.tasks[t + 1].size
inSize(job, t, all) == stateSize(job, t, all) + job.tasks[t].size
outSize(job, t, all) == stateSize(job, t, all) + outArgSize(job, t)

execTimeNew(cache, load, ops, in, out, client, node) ==
  ops * Net.slowness[node] * (load[node] + 1)
    + txTime(cache, client, node, in) + txTime(cache, node, client, out)

Suitable(task, affinities) ==
  SelectSeq(Net.processing,
            LAMBDA n : task.func <= Len(affinities) /\ Net.affinity[n] = affinities[task.func])

(* theLoad and theAllocation; good is FALSE once an exception was thrown *)
NothingPlaced(jobs) ==
  [good |-> TRUE, load |-> [n \in ToSet(Net.processing) |-> 0],
   node |-> [j \in DOMAIN jobs |-> <<>>]]

PlaceTask(placed, policy, s, j, t) ==
  LET job == s.jobs[j]
      nodes == Suitable(job.tasks[t], s.affinities)
      net == policy = "ProcNet"
      time(n) == execTimeNew(s.cache, placed.load, job.tasks[t].ops,
                             IF net THEN inSize(job, t, TRUE) ELSE 0,
                             IF net THEN outSize(job, t, TRUE) ELSE 0, s.clients[j], n)
      best == nodes[Min({k \in DOMAIN nodes :
                           \A i \in DOMAIN nodes : time(nodes[k]) <= time(nodes[i])})]
  IN IF ~placed.good \/ nodes = <<>> THEN [placed EXCEPT !.good = FALSE]
     ELSE [placed EXCEPT !.load[best] = @ + 1, !.node[j] = Append(@, best)]

allocateTasks(s, policy) ==
  FoldLeft(LAMBDA placed, j :
             FoldLeft(LAMBDA p, t : PlaceTask(p, policy, s, j, t), placed,
                      Indices(s.jobs[j].tasks)),
           NothingPlaced(s.jobs), s.order)

-----------------------------------------------------------------------------
(***************************************************************************)
(* performance: of each job, under a policy on where the states are.       *)
(***************************************************************************)
ExecPolicies == <<"PureFaaS", "StatePropagate", "StateLocal", "UnchainedExternal",
                  "UnchainedInEdge", "UnchainedInFunction", "UnchainedInClient">>

(* a transfer of some data from a node to another *)
OneWay(bytes, from, to) == <<[bytes |-> bytes, from |-> from, to |-> to]>>
TwoWay(in, out, from, to) == OneWay(in, from, to) \o OneWay(out, to, from)

(* the transfers of a task: prev is the node of the previous one (at first *)
(* the client), location the node of each state, central what central()    *)
(* returned                                                                *)
Transfers(policy, job, t, client, node, prev, location, central) ==
  LET task == job.tasks[t]
      back(bytes) == IF t = Len(job.tasks) THEN OneWay(bytes, node, client) ELSE <<>>
      size == stateSize(job, t, FALSE)
      states == Sorted(task.deps)
  IN CASE policy = "PureFaaS" -> TwoWay(inSize(job, t, TRUE), outSize(job, t, TRUE), client, node)
       [] policy = "StatePropagate" ->
            OneWay(inSize(job, t, TRUE), prev, node) \o back(outSize(job, t, TRUE))
       [] policy = "StateLocal" ->
            OneWay(task.size, prev, node)
              \o [k \in DOMAIN states |->
                    OneWay(job.stateSizes[states[k]], location[states[k]], node)[1]]
              \o back(job.retSize)
       [] policy = "UnchainedInEdge" ->
            TwoWay(task.size, outArgSize(job, t), client, node) \o TwoWay(size, size, client, central)
       [] policy \in {"UnchainedExternal", "UnchainedInFunction"} ->
            TwoWay(task.size, outArgSize(job, t), client, node)
       [] policy = "UnchainedInClient" ->
            TwoWay(inSize(job, t, FALSE), outSize(job, t, FALSE), client, node)

(* with the states in the cloud, there and back *)
InCloud(policy, job, t) ==
  IF policy = "UnchainedExternal" THEN stateSize(job, t, FALSE) ELSE 0

NoStat == [proc |-> 0, net |-> 0, data |-> 0]
Merged(cache, stat, moves) ==
  FoldLeft(LAMBDA s, m : [s EXCEPT !.net = @ + txTime(cache, m.from, m.to, m.bytes),
                                   !.data = @ + hops(cache, m.from, m.to) * m.bytes], stat, moves)
execStats(cache, stat, load, ops, node, moves, inCloud) ==
  Merged(cache,
         [proc |-> stat.proc + ops * Net.slowness[node] * load[node],
          net |-> stat.net + 2 * txTimeCloud(inCloud), data |-> stat.data + 2 * inCloud], moves)

(* centrals: what the calls of central() returned, one per task *)
JobStat(cache, placed, policy, job, client, nodes, centrals) ==
  LET step(acc, t) ==
        [stat |-> execStats(cache, acc.stat, placed.load, job.tasks[t].ops, nodes[t],
                            Transfers(policy, job, t, client, nodes[t], acc.prev, acc.location,
                                      centrals[t]),
                            InCloud(policy, job, t)),
         prev |-> nodes[t],
         location |-> [s \in DOMAIN acc.location |->
                         IF s \in job.tasks[t].deps THEN nodes[t] ELSE acc.location[s]]]
  IN FoldLeft(step, [stat |-> NoStat, prev |-> client,
                     location |-> [s \in DOMAIN job.stateSizes |-> client]],
              Indices(job.tasks)).stat

NumTasks(jobs, j) == SumOver(1 .. j, LAMBDA i : Len(jobs[i].tasks))
performance(s, placed, policy, centrals) ==
  [jobs |-> [j \in DOMAIN s.jobs |->
               JobStat(s.cache, placed, policy, s.jobs[j], s.clients[j], placed.node[j],
                       [t \in DOMAIN s.jobs[j].tasks |-> centrals[NumTasks(s.jobs, j - 1) + t]])],
   load |-> [k \in DOMAIN Net.processing |-> placed.load[Net.processing[k]]]]

-----------------------------------------------------------------------------
(***************************************************************************)
(* Reference: the tasks that follow task 1, directly or not.               *)
(***************************************************************************)
Following(tasks) ==
  LET n == Len(tasks)
      after[k \in 0 .. n] ==
        IF k = 0 THEN {1}
        ELSE after[k - 1] \cup {t \in 1 .. n : tasks[t].prec \cap after[k - 1] # {}}
  IN after[n]
=============================================================================
