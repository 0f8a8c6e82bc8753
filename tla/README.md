# A TLA+ verification of serverlessonedge

serverlessonedge runs stateless functions ("lambda functions") on a set of *edge
computers*. Clients send lambda requests to *edge routers* (or *dispatchers*), which
choose a computer from a forwarding table and forward the request; *controllers*
configure the tables as computers and routers come and go. Requests may be synchronous,
or asynchronous with a callback, and they may be one step of a *chain* or of a *DAG* of
functions whose *states* are kept by state servers.

This directory models the parts of `src/Edge` and `src/Simulation` where threads, messages
and failures meet, and the algorithms of the two off-line simulators (`src/StateSim` and
`src/LambdaMuSim`); it checks them with TLC on small instances, and proves the main results
with TLAPS for every value of the constants. `PROJECT.json` lists the components, the runs, the mutants that
show that each property can fail, the source lines behind every definition (`map`), the
disagreements found between the code and its comments (`findings`), the `hazards` the
properties are for, and the theorems.

## 1. Inventory of the system

| Component (in `src/Edge` unless noted) | State | Operations | What is hard | Correct means |
|---|---|---|---|---|
| `EdgeClientPool` | idle clients and a busy counter for each destination | `operator()`, `getClient`, `releaseClient` | threads that sleep on one condition; calls that throw | bounded clients, exclusive use, no lost wake-up |
| `EdgeComputer` (synchronous part) | `theDescriptors`, two condition variables | `process`, `blockingExecution`, `taskDone` | a task may end before its descriptor exists; one thread sleeps with another's mutex locked | each request gets its own response; no deadlock |
| `EdgeComputer::AsyncWorker` | `theAsyncQueue`, `theInvocations`, `theCompanionClient` | pop, execute, move states, call back, invoke successors | joins of DAGs, repeated invocations, failures in the middle | each function once, after all its predecessors; workflows end |
| `EdgeComputerSim`, `EdgeComputerHttp` | the tasks or jobs in execution | `realExecution`, dispatcher, HTTP workers | completions in any order | every task is reported once |
| `Computer`, `Container`, `Processor`, `Lambda` | active and pending tasks, memory, a virtual clock | `addTask`, dispatcher, `push`, `pop`, `advance` | the list of differences; memory shared by containers; an exception between `pause` and `resume` | accounting exact, tasks complete |
| `StateServer`, `StateClient` | the states, by name | `Get`, `Put`, `Del` | a move is three calls | a state is never lost |
| `CallbackServer`, `CallbackClient` | queue of responses | `ReceiveResponse` | may be unreachable | at most one callback per workflow |
| `EdgeLambdaProcessor`, `EdgeRouter`, `EdgeDispatcher` | two forwarding tables, optimizer, pool, controller client | `process`: look up, forward, on failure purge and try again | the destination may be removed while a request is in flight; retries of requests that were executed | a request ends; a destination that works is not purged |
| `ForwardingTable`, `Entries/*` | weights and per-policy bookkeeping | `change`, `multiply`, `remove`, call | iterators, caches and deficits of destinations that are removed | what a table selects from agrees with its destinations |
| `ForwardingTableServer/Client` | none | `Configure`, `GetTable` | several tables, one at a time, while requests are routed | tables agree with the last command |
| `LocalOptimizer*`, `PtimeEstimator*` | averages for each lambda and destination | called before and after each request, and by a periodic thread | measurements of destinations that are gone | estimates follow the table |
| `EdgeClientMulti` | a thread for each server, a shared pending request, a permission | `RunLambda`, `consume`, destructor | the first answer wins, the others arrive later; several callers | an answer belongs to the current request; no thread is left |
| `EdgeController*` | routers, computers, the lambdas each one has, home routers | announce/remove computer and router | any order of announcements; routers that crash or come back in the middle of a handler; mutual recursion | the routes installed are those the controller believes in; handlers end |
| `Topology` | a matrix of distances | `distance`, choice of the closest | two costs folded in one score | the home router is the one the objective prefers |
| `EdgeControllerEtsiBalanced` | lambdas and computers, contexts of an LCM proxy | add/remove computer, `optimizeTask` | a default that disappears | each lambda has a default that serves it; contexts are balanced |
| `EdgeServerGrpc`, `EdgeClientGrpc` | threads of gRPC | one call | external library | - |
| `Model/*`, messages | chains, DAGs, states | which functions can be called, what a request carries | joins | see workflows |
| `src/Simulation` | counters, a queue of statistics, threads of a DAG | `operator()`, `loop`, `sendRequest`, `functionDag`, `stop` | `stop` against every kind of wait; a function that fails while others run | `stop` returns; no thread outlives its request |
| `src/StateSim` | a network with routes computed on demand, jobs, a batch with workers | `cacheEntry`, `findChain`, `allocateTasks`, policies, `run` | workers that share the network; exceptions | `run` collects all the outcomes; the policies rank |
| `src/LambdaMuSim` | apps, containers, a differential list of periods, a batch | `assignApps`, migrations, `advance`, `snapshot`, `dynamic` | accounting through migrations | every app has the containers it should |
| `Composer`, `ProcessLoadServer` | configuration read once, a measurement | - | - | - |
| `src/Quic`, `src/Executables`, `src/OpenCV`, `EdgeComputerWsk` | wrappers, command lines, stateless proxies | - | - | - |

How they interact: a router's server threads run `EdgeLambdaProcessor::process`, which
calls the pool, which calls a computer's gRPC server, whose threads run
`EdgeComputer::process`. That starts a task of the back-end and sleeps until a thread of
the back-end calls `taskDone`. Asynchronous requests are answered at once and executed by
the `AsyncWorker`s, which call state servers, the callback server and, for the next
functions of a workflow, the *companion* router, so that the cycle starts again. The
controller learns of computers and routers through gRPC handlers that hold one mutex, and
sends commands to the `ForwardingTableServer` of each router, which changes the tables while
requests are being forwarded; a router whose destination fails tells the controller to
withdraw it. A client of `src/Simulation` sends its requests through an `EdgeClientMulti`.

## 2. Modules

| Module | Models | Composition |
|---|---|---|
| `CallSlots` | abstract: what a pool promises to the router | - |
| `ClientPool` | `EdgeClientPool` | implements `CallSlots` (`SlotsSpec`) |
| `ClientPool_proofs` | proofs about the pool | extends `ClientPool` |
| `EdgeComputer` | `process`, `blockingExecution`, `taskDone`, with the back-ends `EdgeComputerSim` and `EdgeComputerHttp` | - |
| `EdgeComputer_proofs` | proofs about it | extends `EdgeComputer` |
| `Container` | the lists of a `Container` as operators on sequences | - |
| `Computer` | `Computer`, its containers and processors | extends `Container` |
| `Computer_proofs` | proofs about them | extends `Computer` |
| `Workflow` | asynchronous workers, chains, DAGs, state servers, callback server and companion routers of several computers | a task of `EdgeComputer` is one step here |
| `Workflow_proofs` | proofs about the workflows | extends `Workflow` |
| `ForwardingEntries` | a forwarding table and its four kinds of entries, as operators | - |
| `PtimeEstimators` | the tables of the four kinds of estimators, as operators | - |
| `LambdaProcessor` | `EdgeRouter` and `EdgeDispatcher` (`EdgeLambdaProcessor::process`), their optimizers, `ForwardingTableServer` | extends both; the pool of `ClientPool` is the number of clients in use and lost |
| `LambdaProcessor_proofs` | proofs about the three of them | extends `LambdaProcessor` |
| `HomeRouter` | `Topology` and `EdgeControllerHier::findClosest`, as operators | - |
| `SortedSets` | the order in which `std::map`, `std::set` and a sort visit elements, as operators | - |
| `EtsiBalanced` | `EdgeControllerEtsiBalanced` and the LCM proxy it drives, as operators | extends `SortedSets` |
| `EdgeController` | the flat, the hierarchical and the ETSI controller, and the routers they command | extends `HomeRouter` and `EtsiBalanced` |
| `EdgeController_proofs` | proofs about the three of them | extends `EdgeController` |
| `EdgeClientMulti` | the multi-client: callers, executors, consumer, destructor | - |
| `SimulationClient` | `Client` with the loops of `UnifClient`, `PoissonClient` and `IppClient` | composed with `EdgeClientMulti`, which it extends |
| `SimulationClient_proofs` | proofs about the multi-client and about the composition | extends `SimulationClient` |
| `SimNetwork` | `Network`, `Node` and `Link` of `StateSim` | extends `SortedSets` |
| `StateSimScenario` | jobs, allocation and execution policies of `StateSim` | extends `SimNetwork` |
| `LambdaMuScenario` | assignments, migrations and the pool of apps of `LambdaMuSim` | extends `SimNetwork` |
| `SimulationBatch` | `Simulation::run` and the workers of both simulators | extends both scenarios |
| `SimulationBatch_proofs` | proofs about the batches and about the scenarios of `LambdaMuSim` | extends `SimulationBatch` |
| `MC*` | instances for TLC (`MCSimulators` is that of `SimulationBatch`) | extend the module of the same name |

### ClientPool

`theFree[d]` and `theBusy[d]` are the members of the code; `pc` is where a thread is in
`operator()`. A section with `theMutex` locked is one action (`Sleep`, `GetClient`,
`ReleaseClient`); the RPC in the middle is not protected and is an action of its own,
which returns (`RunLambda`) or throws (`RunLambdaThrows`). `notify_one` wakes up any of
the sleepers of that destination, and `SpuriousWakeUp` is what a condition variable may do
by itself. A thread woken up has to lock the mutex again: it goes back to `get`, where it
races with new callers. Clients are numbered by `created[d]`, so that the properties can
tell them apart.

### EdgeComputer

A caller (a server thread or an `AsyncWorker`) goes through `submit` (`realExecution`),
`insert` (between the end of `realExecution` and the lock of `theMutex`), `blocked` and,
for a worker, `callback`. An executor goes through `taskDone` and `asleep`
(`theDescriptorsCv`). With the simulated back-end there is one executor, the dispatcher,
which has `Computer::theMutex` locked from `DispatcherLock` to `DispatcherUnlock`, also
while it sleeps in `taskDone`; `addTask` needs the same mutex. The HTTP workers have no
such lock and are several. Tasks complete in any order, or never. The two exceptions
that leave `blockingExecution` are actions: `RealExecutionThrows`, and `RemoteStatesThrow`,
which leaves the descriptor behind.

### Container and Computer

A task is a record as in the code, with the operations as natural numbers. `MakeActive`,
`Advance` and `Ready` are `makeActive`, `advance` and `nearest() == 0`. `AddTask` is the
whole of `addTask`: pause the clock, push, resume. A pass of the dispatcher is split
because it calls back for every task: `DispatcherWake` (the wait ends and the clock is
paused), `Pop` for each complete task, `NextContainer`, `DispatcherWait` (resume). Time is
discrete: between two readings of the clock `0..MaxElapsed` units pass, converted to
operations as in `timeToOps`, rounding included. What accumulates along a list (the
operations up to a task, the memory of the tasks) is the recursive function `Sums`. `left` is a history variable: the
operations a task has still to run, computed without the list of differences.

### Workflow

A worker goes through `running`, then `get`, `put`, `del` for each remote state (with the
mutex of the computer locked: `MutexFree`), `finish`, and `invoke` for each successor (with
`theCompanionMutex` locked). The companion router is modelled by what it does for the
worker: it forwards the invocation to one of the computers that have the function, and if
the response is lost it purges that computer and repeats the invocation on another one
(`InvokeResent`), although the first has processed it. Calls that fail are `CallThrows`.
Every computer has a state server, in another process. The content of a state is not
distinguished; where it is, and where the request says it is, are. A state is named by its
workflow and its name, as if workflows used different names: a server of the code knows the
name alone. `theInvocations` is keyed by function and workflow, as `makeHash` does, and each computer has
its own: the invocations of a join may be counted by different computers (`Hosts`). A
workflow is any chain, or any graph of successors of which the last function has none (a DAG
of the code; nothing here needs that it has no cycle), with states that its functions need.

### LambdaProcessor, ForwardingEntries, PtimeEstimators

A request is the stack of the `process` calls that serve it: `CallNode` pushes a call on the
node it is forwarded to, `CallComputer` is a call to a computer. Nodes have a bounded number of
threads (`Accept` waits for one) and of clients for each destination (`GetClient` waits for
one, as `ClientPool` does, of which it keeps the counters only); a call keeps its thread, and the
caller its client, until the rest of the path has answered, and neither wait has a time-out. A
call to a computer that throws does not give its client back (`lost`). A step is what
`process` does between two acquisitions of the mutex of a table: `LoopDetected`,
`SelectRouter` or `SelectDispatcher`, the call, `SucceedRouter` or `SucceedDispatcher` (the
optimizer, or the estimator, which may throw), `FailFirst` and `FailSecond` (the purge of each
table), `TellController`. `Configure` takes a command and `ApplyChange`, `ApplyRemove` and
`ApplyFlush` apply it to one table at a time; `Update`, `Balance` and `StaleTimer` are the
periodic thread of an optimizer and the timers of the round-robin entry. An entry keeps what
the derived class keeps beside the list: the element with the least weight, the cache and the
active set with their deficits, the sum of the inverse weights, the set of rates. Measured
times are left open: any destination that is compared may be the best. The tables of a node
at the start are what `Fill` makes of a sequence of commands (`Filled`), so that no state is
assumed that the code could not have built.

### EdgeController, HomeRouter, EtsiBalanced

`stack` is what a handler that holds `theMutex` has left to do, the running call first. Every
command to a router is a step of its own, so that routers crash and restart, and computers
leave, in the middle of a handler; a command to a router that is down fails, and the
controller removes that router, which in a hierarchical controller resets all the tables
(`reset`, which announces the computers again, recursively). `rows` are the tables of the
routers and `session` says whether a router has restarted since it announced itself. The two
end-points of a router, for lambda requests and for commands, are distinguished (`to`),
because the code exchanges them once. `CommandFails` has the outcomes of the reference used
after it was erased (`edgecontrollerhier.cpp:165`) as choices: the end-point is still there and
the tables are reset, or `address()` throws, the server catches it and the handler is over, with
the router in `theRouterAddresses` and `theForwardingTableEndpoints` only, or an assertion fails
(debug builds). A router removes a row of its own table whenever a call fails (`Purge`), also in
the middle of a handler and also for another router: `rows` is what the commands have installed
and `purged` what was removed since. Its report to the controller, `removeComputer`, arrives later or never, and
has no effect for the end-point of a router, whose row stays away until another command writes
it (`Overwritten`). The distances of a topology are natural numbers: numbers of hops, or
the random reals of `--topology-randomized` in a unit in which all of them are whole, since the
score has integer weights and a unit does not change the order. Container lists are
distinguished by their lambdas only. The calls that may be on the stack are typed (`Calls`).
`std::map` visits its keys in order, hence the sorted sequences of routers and computers
(`Sorted`, from `SortedBy` of `SortedSets`). The loop of `table()` of the balanced controller
is a recursive function on the groups of contexts, of which `Assign` is one round: it gives the
group to the least used computer and puts that back in its place of the list.

### EdgeClientMulti and SimulationClient

The calling queue holds the permission to start a request. A caller goes through `enter`,
`selected` (it has the permission and the secondary executors are drawn), `waiting`,
`answered` and `returned`; the executors left pending when a good answer comes are handed to
the consumer, which gives the permission back when all have answered. `thePrimary` is not
protected: it is read again in `SendToExecutors`, and assigned in `SetPrimary`, after the
permission is back. The executors hold a raw pointer to the pending request: a message is the
request it points to, so that a request replaced too early is visible. The client is
`operator()` with `loop`, `sendRequest` in its four modes, `functionDag` with a thread for each
function that can be called, callbacks that come late or never, `stop` from another thread,
and the destructors. A callback may find the client destroyed, because the thread that records
the callbacks ends later: the result is lost. A sleep ends at any time.

### The simulators

`SimNetwork` has the routes towards a destination, as Dijkstra's algorithm gives them. The code
computes them on demand, under a mutex; they do not depend on when, so that the cache of a
network has all of them (`cacheEntry`). `StateSimScenario` has the chains found in a trace
(`findChain`), the placement of tasks and the delays of seven execution policies, `LambdaMuScenario` the
assignment of apps to containers by each algorithm, the migrations of single apps and the
pool that says which app changes next. Each has a declarative definition to compare with
(`LeastCosts`, `Following`). The solvers of the assignment and flow problems belong to a
library: any optimal solution is a choice. Sums over apps, edges and containers are folds over the
domain of a function (`SumFunction`), and `solveGreedy` is a recursive function on the requests of an
app (`GreedyApp`) and on the apps. The capacity of the cloud is the sum of the rates divided by beta,
an integer in the code, and `assignLambdaApps` rounds beta times it: unless 1 / beta is an integer a
unit may be lost and a request not served, hence the condition in `AppsAccounted`
(`RequestsServed`), which the instance of the run satisfies. `SimulationBatch` is `run` with its workers:
everything a worker does on its own scenario is one step, but `central()` is split, because it
tests `theCentral` (`CallCentral`, `Compare`) and writes it (`Publish`) without a lock, and all
the workers share it: several may find it null and publish. `run` may be called again, also
after it has bailed out, when simulations are still in `theQueueIn`, workers at work and outcomes in
`theQueueOut`. It then replaces the network, the descriptors and the data under the workers
that use them, and a simulation left in the queue may have the identifier of another: what
such a worker computes is undefined, and it is `stray` until it tells an outcome, any one
(`Astray`, `Stray`). `clean` says that no call has found anything left so far. Networks have no
edge between two nodes (`NodesJoinedByLinks`): the constructors do not verify it, but the data
sets have none. The batch of `LambdaMuSim` has one replication: with several, a call that has
bailed out leaves workers with references to members that the next one replaces.

## 3. Runs

| Run | Instance | Shows |
|---|---|---|
| `pool` | 3 threads, 2 destinations, 2 clients each, 5 calls, 1 exception per destination | `ClientsBounded`, `ClientExclusive`, `NoLostWakeUp`, `SlotsSpec` (refinement), `CallEnds` (liveness) |
| `edgecomputer` | 2 server threads, 1 asynchronous worker, 2 HTTP workers, 3 requests, both back-ends | `ResponseMatches`, `ResponseComing`, `DescriptorOwned`, `DispatcherSleepIsShort`, `SimAnswers` (liveness) |
| `http_wait` | 2 server threads, 2 HTTP workers, 2 requests | *violated* `TaskDoneWaitEnds` |
| `computer` | 2 containers with 2 workers each on 1 or 2 processors of memory 3, 4 tasks of three kinds, one of them too large | `MemoryAccounting`, `ResidualExact`, `TaskConserved`, `TasksComplete` (liveness) |
| `pending_stuck` | the same | *violated* `PendingIsServed` |
| `workflow` | 2 computers (2 and 1 workers), 2 workflows, each a chain of three functions or a DAG with two branches, of which the join is on one computer or on both, 1 state, 1 failure | `JoinComplete`, `ExecutedOnce`, `StateNeverLost` (of states that no two branches share), `ChainLocatesStates`, `WorkflowEnds` (liveness, of the workflows whose joins are on one computer each) |
| `dag_states` | the same | *violated* `ResponseLocatesStates` |
| `router` | 2 nodes with 1 or 3 threads and 1 or 2 clients for each destination (or no limit), 2 computers, 2 requests, 1 command during them, 9 configurations: every kind of table, optimizer and estimator, and a loop between two routers | `SelectionCoherent`, `PurgeHasCause`, `HopsBounded`, `RequestEnds` (liveness, unless clients are lost or nodes wait in a circle) |
| `controller` | up to 3 routers, two of them at the same address, and 3 computers, one not in the topology; 6 deployments: flat, hierarchical with both objectives, ETSI with and without contexts; 1 row purged at a time | `RoutesInstalled`, `HomeIsClosest`, `DefaultServed`, `AssociationsBalanced`, `HandlerEnds` (liveness) |
| `hier_drop` | 2 routers, 2 computers, hierarchical | *violated* `DroppedOnlyIfDown` |
| `client` | 2 executors, 2 requests, 3 functions (two that join in a third), bursts of 2, four modes, three loops | `OwnAnswer`, `NoThreadLeft`, `ClientStops` (liveness) |
| `simulators` | 4 processing nodes with 5 links, 2 workers, 3 traces, one of which makes `run` bail out, 4 sets of policies, one or two calls of `run`; 2 apps, 3 pairs of algorithms, duration 7 with epochs of 3 | `RunCollects`, `OutcomesSuffice`, `PoliciesRank`, `AppsAccounted` |

The runs `edgecomputer`, `computer`, `workflow`, `router` and `controller` also check the type
invariant of their modules; that of the pool is only proved (`PoolTypeOK`). That of the controller also says that the tables of a controller that repeat the same facts agree.

**Bounds.** With three threads and two clients there is a sleeper, a thread that takes the
client it was notified of, and one that has the other client; one exception leaves one
slot (`CallEnds` is stated for fewer exceptions than clients). Three requests on three callers
let a task overtake another one while a third is being inserted. In `computer` a short task is
inserted in front of a longer one, the memory is exhausted by tasks of the same container
or of another one, a task waits for a worker, and `addTask` throws while the clock runs.
In `workflow` two joins are open at the same time on the same computer, either branch may
be the last, and the second branch, or the join, may run on either computer; one failure is
enough to lose a response, to break a move of states at each point, or to clear a companion. In
`router` the two requests share a table that a command changes, each destination may fail
and be purged by either, a client is lost and makes the only slot of a pool unusable, a thread
serves the second request when the first has ended, and `MaxHops` is 1 (254 in the code), so that
a loop between two routers is cut. With 254, the clients and the threads end long before: the nodes are
then in a circle. In `controller` nothing bounds the events: computers and routers come and go
for ever, and the state space is finite; one row purged at a time is enough for a row that goes
in the middle of any command, since rows are independent. In `client` an answer is late for the next request,
two functions of a DAG compete for the permission, and a function fails while the other runs.
In `simulators` a route of two links has an alternative of one link that costs more, a link
is one-way, a function gets no affinity, a batch that has bailed out leaves simulations to the
next one, and apps change in the middle of an epoch, at its end
and together. The bounds `MaxCalls`, `MaxFailures`, `MaxTasks`,
`MaxElapsed`, `MaxCommands`, `MaxPurged`, `MaxBurst`, `MaxApps` and `MaxJobs` appear in guards and in the
ranges of inputs only.

**Fairness.** The threads of the pool, of the servers and of the back-ends are threads of
the operating system and are scheduled: weak fairness for the steps they can take
(`ThreadStep`, `CallerStep`, `WorkerStep`, `TaskDoneStep`, `DispatcherPass`, `Process`, and
`Step` of the controller and of the client). RPCs return or throw, because a gRPC call has a
result sooner or later. The wait of the dispatcher in `computer` is timed. In `edgecomputer`
nothing makes the back-end complete a task, because one may stay pending for ever (finding 2):
`SimAnswers` is about the requests whose task was completed. In `router` only the
thread that serves a request is fair, where it has what it waits for: nothing makes another
node give back a client or a thread. In `controller` only the handler that is running is fair. In
`client` weak fairness of `Step` as a whole says that some thread of the client or of the
multi-client goes on whenever one can; after a `stop` the steps that are left are finite in
number, so it is enough. No fairness is assumed for clients that send requests, failures, spurious
wake-ups, `companion()`, commands, crashes, restarts, callbacks or the caller of `stop`.

**Deadlock.** It is checked in `pool`, `computer`, `pending_stuck`, `workflow` and
`dag_states`, where `Finished`, `AllAnswered`, `NothingToDo` and `Quiescent` are the states
where everyone waits for work that will not come. In `edgecomputer` and `http_wait` the HTTP
workers may really sleep for ever (finding 1), and `SimAnswers` says more of the other
back-end. The other systems may stop: all the requests of `router` answered or its nodes
in a circle of waits, the client
destroyed, the controller killed by an assertion, the batch destroyed. There the liveness
properties say that what must end does.

## 4. Findings

Shown by a run that TLC refutes:

1. **`notify_one` may wake up the wrong HTTP worker** (`edgecomputer.cpp:343`). Two workers
   asleep for different descriptors: the one that could go on is not notified. It cannot
   happen with the simulated back-end, which has one executor only.
2. **Pending tasks of another container are not started** (`container.cpp:139`). Memory
   that is freed is offered only to the container that freed it.
3. **A join forgets where the states of the other branches are** (`edgecomputer.cpp:385`).
4. **A hierarchical controller drops a router that is up** (`edgecontrollerhier.cpp:253`).
   The removal of a computer is sent to the lambda end-point of its home router instead of
   its forwarding table server; the call fails and the router is removed.

Visible in the models, where the properties are stated around them:

- *Pool and computer.* A call that throws never gives its client back
  (`edgeclientpool.cpp:71`; the theorem `PoolBusyCount` states what the counter is). A worker
  without a companion dereferences a null pointer (`edgecomputer.cpp:125`). The descriptor of
  a request whose `handleRemoteStates` throws is never erased (second case of
  `DescriptorOwned`). A repeated invocation is counted twice by a join, hence `resent` in
  all the properties of `Workflow`.
- *Workflows.* A join that several computers serve may never start, although nothing fails: each
  computer counts the invocations it receives, and the routers may send them to different ones
  (`edgecomputer.cpp:388`, while `edgecomputer.h:79-84` says that the function is executed at the N-th
  invocation; `JoinsOnOneComputer` in `WorkflowEnds`). Two branches of a DAG that need the same state may lose it: they exchange their
  copies, and each deletes the one the other has just put (`edgecomputer.cpp:456`; `Unshared`
  in `StateNeverLost`). A function that does not lead to the last one may still be running when
  the client is called back (`LeadsToLast` in `ExecutedOnce`).
- *Router.* A pool whose clients are all lost makes its callers wait for ever
  (`edgeclientpool.cpp:71`), and so do nodes that wait for each other in a circle: in a loop of
  routers a request occupies all their clients or threads, and waits for itself, before its hops
  reach the limit of 254 (`edgelambdaprocessor.cpp:102,117`; `Starved`, excluded by `RequestEnds`,
  has both). `processSuccess` throws if the destination was removed meanwhile: a request that
  was executed is executed again, and the controller is told to withdraw a computer that works
  (`edgelambdaprocessor.cpp:122`; second case of `PurgeHasCause`). `privateRemove` of the probe
  estimator adds the destination (`ptimeestimatorprobe.cpp:120`), so that one that fails is
  called for ever; `RequestEnds` and `SelectionCoherent` exclude it. A change with `final`
  false leaves the destination in the final table. A weight of 0 leaves an empty entry. The
  entries read an element after it was erased (`entryroundrobin.cpp:187`, the least-impedance
  one at `:76`), the balance of the trivial optimizer may throw in its periodic thread
  (`localoptimizertrivial.cpp:104`), and a throw of `processSuccess` after the estimate was
  erased trips an assertion of `processFailure` in debug builds.
- *Controller.* The removal of a router may leave the tables as they were, although the comment says
  that it resets them (`edgecontrollerhier.cpp:165-167`): the end-point is read after it was erased, and
  `address()` may throw (`NoneLost` in `RoutesInstalled`). The home router may be another one than
  the objective of `edgecontrollerhier.h:91-99` asks for when the distances are random
  (`--topology-randomized`): the weight of the score, `1 + 2 * N * N` (`edgecontrollerhier.cpp:340`),
  is large enough for numbers of hops, which differ by one at least, while a small difference of the
  greater cost is outdone by the other one (`HopCounts` in `HomeIsClosest`). A row for another router that a router has purged is not put back
  (`RoutesInstalled` allows for it). A computer may be announced at two routers, because the loop of `reset`
  goes on after a nested one. A router that restarts and announces itself again trips an
  assertion of the hierarchical controller, and so do duplicate lambdas. An address outside
  the topology makes `findClosest` throw inside `reset`. A router dropped after a failure keeps
  its table and does not announce itself again. Individual routes of the LCM proxy are not
  removed. The message returned by `Configure` is ignored.
- *Client.* A `stop` before `operator()` has no effect. Exceptions in a thread of
  `functionDag` terminate the process. With several executors one asynchronous request may have
  several callbacks, which release a later `sendRequest`. A workflow that fails after it was
  accepted has no callback, and the client waits until it is stopped.
- *Simulators.* `run` that bails out returns like one that succeeds, while workers
  still use its configuration, and the next call counts their outcomes as its own and may return before
  its simulations have ended (`simulation.cpp:226`; `clean` in `RunCollects`). While a worker
  publishes its candidates for the central node, another may return the first of them
  (`network.cpp:387`): `RunCollects` says what the node is when none searches. A chain is executed
  in the order of its identifiers, not of its precedences. Rounding of the affinities may
  leave a function without any, which makes `run` bail out. A network that is not connected
  makes the search of routes endless. `advance` adds the time that remains to the new period.

## 5. Proofs

Everything in this section holds for any number of threads, destinations, clients,
requests, functions and tasks. The assumptions are those named in the modules:

- `ClientPoolAssumption`: the threads are finite, `NoDestination` is not a destination, the
  bounds are natural numbers;
- `EdgeComputerAssumption`: the sets of threads are disjoint and `None` is not a request;
- `ClientAssumption`: the functions are `1..n` with `n` positive, the callers are the main
  thread and the functions, a request is a number and a function;
- `ComputerAssumption`: containers, workers, cores and memory are positive, the requirements
  of a task are natural numbers;
- `WorkflowAssumption`: the workflows are chains or DAGs (cycles are not excluded), every
  function is on some computer, every computer has a worker;
- `InputsAssumption`, `BoundsAssumption`, `NamesAssumption` and `NumbersAssumption`: the
  commands and the initial tables are those that the code accepts, weights are natural numbers
  and 1 is one of them (a dispatcher gives it to all destinations), `None` is not an end-point;
- `EndsAssumption` and `TopologyAssumption`: end-points, addresses, lambdas and clients are
  numbers (only their order matters), in finite sets; the computers of a deployment announce one
  lambda at least, as the code requires; the distances of a topology are natural numbers;
- `PurgedAssumption`: the bound on purged rows is a natural number;
- `NetAssumption`: a network is one that its constructors accept, with finitely many edges, and
  none between two nodes, which the constructors do not verify;
- `LambdaMuAssumption`: alpha and beta are what `checkArgs` accepts (and beta is not 0, by which the
  capacity of the cloud is divided), there is a pair of algorithms, a broker and an edge node, the
  periods of an app are an even number of natural numbers, and so are the parameters of apps and edges;
- `BatchAssumption`: the policies are those of the code, the traces are finite, 0 is not a node.

**ClientPool.** The inductive invariant is `TypeOK /\ DestOK /\ BusyCount /\
ClientsBounded`: `DestOK` (a thread inside a call has a destination) is needed because the
counters are indexed by it, and `ClientsBounded` needs `BusyCount` so that `releaseClient`
never decrements a counter that is 0. On top of it:

- `PoolTypeOK`, `PoolBusyCount`, `PoolClientsBounded`;
- `PoolNoLostWakeUp`: if a thread sleeps, the clients in use plus the threads awake and
  looking are at least `MaxClients`. `GetClient` moves one from the second to the first,
  `ReleaseClient` the other way round thanks to its notification, and a thread goes to
  sleep only when the first alone is enough;
- `PoolClientExclusive`: from the stronger `NamedOnce` (the names of clients in use and
  idle are different and among those made, so that a new client is different from all);
- `PoolImplementsSlots`: the refinement of `CallSlots`, each step of the pool being
  `Acquire`, `GiveBack`, `Lose` or a stuttering step.

**EdgeComputer.** The inductive invariant `IInv` follows a task: identifiers of waiting
threads are different (`CallersDiffer`), a task is in one place only, the list or one
executor (`TasksOK`, `ExecutorOK`), and a task that is not done has a pending descriptor or
a thread that is about to insert it (`TasksExpected`, `ExecutorsExpected`). The requests
need their own part (`CallerOK`, `QueueOK`) to know that the outcome of one that failed
never changes. `BackendOK` says that the dispatcher is the only sleeper of its back-end,
which is what makes `notify_one` enough there. There is one lemma for each action, or for
each kind of action. The theorems are `EdgeComputerTypeOK`, `EdgeComputerResponseMatches`,
`EdgeComputerResponseComing`, `EdgeComputerDescriptorOwned` and
`EdgeComputerDispatcherSleepIsShort`; the last one follows from `ExecutorsExpected` and
`BackendOK`.

**EdgeClientMulti.** `MultiSpec` leaves the owner free to call `RunLambda` from any set of
threads, to leave it and to destroy the object. `OwnAnswer` is not inductive: that an answer
belongs to the pending request depends on when the request may be replaced. The invariant
`IInv` of `MultiInductive` adds `OneTurn` (the permission is in one of four places: the
calling queue, one caller, the set left to the consumer, the consumer), `OneMessage` (the
request of an executor is in its queue, being executed, or answered, never in two of these,
and the executor is then awaited by somebody), `QueuesOK` (the queues have at most one
message, and what the destructor adds) and `CallOK`. A caller with the permission finds
nobody awaited, hence (`NobodyAwaited`) every executor at rest and no answer in the queue:
replacing the request is safe. Each answer taken removes exactly one executor from those
awaited (`AnswerTaken`), whoever takes it. The theorem is `MultiOwnAnswer`.

**SimulationClient.** `ClientInv` says which threads may be in `RunLambda` at each point of
`operator()`. With it every step of the client is a step of `MultiSpec` or leaves the
multi-client alone (`ClientImplementsMulti`), so that `ClientOwnAnswer` follows from the
theorem on the multi-client; `ClientNoThreadLeft` follows from `ClientInv` itself.

**Computer.** The invariants of the run are about sums along lists, which a step changes in
the middle. `SumsOK`, `SumsFollow` and `SumsAgree` say what `Sums` is at each position;
`TotalInsert`, `TotalTail` and `TotalChange` what an insertion, a removal and a change do to a
total. On these, `MakeActiveOK` (the list of differences with a task more: the residuals of the
others do not change), `TailOK` and `AdvanceOK`. The inductive invariant `IInv` has four parts:
`ContainerOK` (different identifiers in the lists of a container, exact differences, pending
tasks with all their operations left), `IdsOK` (each identifier in one place), `LeftOK` (the
history variable agrees with the residuals) and `CountersOK` (memory and running tasks of each
processor are those of its containers). While the clock is paused the lists are those of
`PausedOK`; `push` and `pop` replace the lists of one container (lemma `Replace`), and the
loop that makes pending tasks active is an induction on the number of tasks it takes
(`Refill`). The theorems are `ComputerInvariant`, `ComputerTypeOK`,
`ComputerMemoryAccounting`, `ComputerResidualExact` and `ComputerTaskConserved`.

**Workflow.** A function that was invoked has a *token*: its request in a queue, or the worker
that runs it. `TInv` says, of a workflow of which no invocation was repeated, that a function
has at most one token (`UniqueTokens`), that a token that is past the execution is of a function
executed once and the others of one not executed yet (`TokensExecuted`), that a chain has at most one
token, after all the functions executed (`ChainInOrder`), and that a workflow that was not
sent has none (`NotStarted`). For DAGs, an invocation is *gone* when its predecessor was
executed and no worker can still make it: a counter of `theInvocations` is at most the number
of those gone (`CountsGone`), and a function with a token, or executed, has all of them gone
(`JoinOnce`). A join starts when the counter reaches the number of its predecessors, hence when all
have been executed. `CalledBack` bounds the callbacks. From it, `WorkflowJoinComplete` and
`WorkflowExecutedOnce`; the last part of the latter follows the predecessors back from the last
function. `SInv` adds the states: a worker moves only states that are elsewhere, and when it
deletes one that no other branch uses the copy is on its own server (`Moving`); the requests of
a chain know where its states are, and so does the client before it starts (`TokensLocate`,
`AtClient`). From it, `WorkflowStateNeverLost` and `WorkflowChainLocatesStates`. The proof
of the former is what showed that it does not hold of states that branches share.

**LambdaProcessor.** `IInv` has four parts. `TablesOK`: what each entry keeps beside its list
agrees with the list, and the estimator with its table. It is preserved by each operation on an
entry, and there is a lemma for each operation and kind of entry; the tables at the start have
it by induction on the commands that filled them. `RestOK` is about the optimizer and the
commands in progress. `StacksOK`: every call but the last one of a request waits in `call`,
there are at most `MaxHops + 2` of them, and the destination of a call is in the table or its
absence has a cause, a call that failed or a command that removed it; before a purge there is
always the cause. `ToldOK`: what the controller was told has the same
cause. The theorems are `LambdaProcessorInvariant`, `LambdaProcessorTypeOK`,
`LambdaProcessorSelectionCoherent`, `LambdaProcessorPurgeHasCause` and
`LambdaProcessorHopsBounded`.

**EdgeController.** `CoreInv` has the tables that repeat the same facts, the types of the calls
on the stack, and that the cache of home routers is not stale, whatever the distances. `address()`, when it
throws, leaves a router in the index by address and in `theForwardingTableEndpoints`, which still agree.
`HomeIsClosest` also says that the router cached is one that the objective prefers if no distance
is more than the number of nodes (`HopCounts`): the score folds two costs in one, the maximum and the
sum of some distances; `CostFacts` bounds both, `Lexicographic` shows that the weight is then large
enough for the score to order as the pair does, and `ClosestPreferred` that the first router of
least score is preferred. For `RoutesInstalled` the commands that are left matter. `TablesInv` says, for every
point where a handler may be, between which sets the rows of a router are: those the controller
expects, less the commands that will add some, plus those that will remove some (`Within`,
`Pending`). For a hierarchical controller there are five such points (`HierPhase`), with the
computers still to be announced after them (`Homed`); a command that fails drops its router and
goes to `Resetting`, from any of them, which needs only that the tables that are not empty will
be flushed. All of it holds as long as no router was left behind by `address()` (`NoneLost`), and
nothing but a command that ends with that exception makes it false; afterwards only the form of the
calls that follow the first one is known (`HierLater`). The rows that routers have purged are among those
installed and commands that write a row remove it from them, so that `Table` is what it should be. For `DefaultServed`, between the lambdas that are served and what the ETSI
controller and the proxy know there are only the hooks that are still on the stack (`EtsiInv`). For
`AssociationsBalanced`, `AccOk` is the invariant of the loop of `table()`: the list is sorted by
load, the load of each computer is the sum of the groups assigned to it, and no computer was
used less when one received its last group; `EvenAppend` is one round of the loop. Sums over sets
do not depend on the order in which they are taken, which is a lemma here. The theorems are
`EdgeControllerTypeOK`, `EdgeControllerHomeIsClosest`, `EdgeControllerRoutesInstalled`,
`EdgeControllerDefaultServed` and `EdgeControllerAssociationsBalanced`.

**SimulationBatch.** `CleanInv` says that `IInv` holds as long as no call of `run` has found
anything left of one that has bailed out. `IInv` has four parts. `WorkersInv` and `QueuesInv`: a simulation is in the
input queue once, or of one worker, or its outcome is in the output queue or was counted, so that
the counter of `run` is the number of workers busy plus the lengths of both queues. `DataInv`:
while `run` waits, a simulation is queued, on a worker, has its results, or some outcome in the
queue is an exception. `CentralInv` is about the race on `theCentral`: until one
is published all the workers that search are at the first candidate, so that those that have found none
publish that one; and then either the central node is a best one, or some worker leads, that is,
it is about to publish, or it searches on with the worst time of the node now published
(`Leads`). A worker never publishes a node worse than those it has compared (`BestSeen`), so that when
the last one that leads has compared all of them the node published is a best one. That this compares
numbers needs that routes are finite (`WorstNat`). The
theorem is `SimulationBatchRunCollects`.

For `AppsAccounted` the invariant of `dynamic` (`DynInv`) adds to the four parts of the property what
they need to last: the cloud has a container more than there are apps, and room for the requests
of all of them (`Room`), so that `LeastCostEdge` always finds an edge (`LeastCostEdgeFacts`) and so
that the solvers leave no request (`LambdaSolutionsFacts`: the greedy solver by induction on the
requests, the others because a flow as large as the sum of the rates gives each app its own);
the position of an app is one of its trace and odd exactly if the app is lambda, where the even
number of periods counts (`TurnedFacts`); and apps without weights exist only before the first epoch,
which comes before any transition (`Fresh`). `AssignFacts` is about both assignments, where sums
over containers are grouped by edge (`TotalGroups`); `ToMuStep` and `ToLambdaStep` are about the
two migrations, where the lists lose or gain one app and each sum one term (`CostsToMu`,
`CostsToLambda`); `InsertDescFacts` is about the differential list. `SnapInv` is what `snapshot` starts
from. The theorem, `SimulationBatchAppsAccounted`, is about every scenario that the workers run.

**Induction over data.** The induction theorems of the library, which take an operator, cannot be
instantiated. A proof by induction here takes the least natural number that is a
counterexample (lemma `NatMin`, from the well-foundedness of `<`) and derives a
contradiction; this is how the facts on sums, lists, tables and chains are proved.

**Only model-checked**: every liveness property (`CallEnds`, `SimAnswers`, `TasksComplete`,
`WorkflowEnds`, `RequestEnds`, `HandlerEnds`, `ClientStops`), because the prover handles
neither fairness nor `ENABLED`; `OutcomesSuffice`, whose counting of stray workers is left to a proof to
come; and `PoliciesRank`, which needs that Dijkstra's algorithm, a fold
over the elements of the network, computes the least cost over all paths, and that sums of costs
along routes obey the triangle inequality. It also compares costs with `Infinite`, which holds only
for networks whose longest route costs less.

## 6. Not modelled

- The destructors of edge computers, the end of the HTTP workers and of the dispatcher. Those
  of the multi-client, of the client and of the batches are modelled.
- Dry runs (`simTask`), which change no state, and the collection of the load of a computer.
- The bytes of messages, JSON and other file formats, random generators of chains and DAGs,
  printing and command lines. What an executable sets up is an initial state or an input.
- gRPC and QUIC themselves: a call returns, throws, or its response is lost. The wrappers in
  `src/Quic` have no protocol of their own.
- Floating point: weights, costs, distances and times are integers, with a unit that makes the divisions
  exact where they matter; rounding is left out; estimates and measured times are choices. Averages over time of the
  simulators are left out.
- `EdgeComputerWsk`, `Composer`, `ProcessLoadServer` and `OpenCV`: stateless translations, a
  configuration read once, a measurement, an example of a lambda function.

## 7. Plan

Done, in order of importance: the pool, the hand-shake of an edge computer, the simulated
computer, workflows, routers and dispatchers, controllers, the multi-client with the clients
that use it, the simulators. Next:

1. Proofs of `OutcomesSuffice` and of `PoliciesRank`, hence of the routes of `StateSim`.
2. The shutdown of edge computers, which needs the virtual calls of a base destructor.
3. A DAG whose branches share a state, and one with a single function (two hazards without a
   property in `PROJECT.json`).
