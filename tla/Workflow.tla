------------------------------ MODULE Workflow ------------------------------
(***************************************************************************)
(* Function chains and DAGs over several edge computers.  An asynchronous  *)
(* request is queued by EdgeComputer::process, executed by an AsyncWorker, *)
(* which moves the remote states it needs to the local state server, and   *)
(* then calls back the client or invokes the next functions through the    *)
(* companion router.  A function with several predecessors is queued only  *)
(* when the last of their invocations arrives.  How a single task is       *)
(* executed is in EdgeComputer; here it is one step.  Every computer has a *)
(* state server, which is another process (--no-state-server).             *)
(***************************************************************************)
EXTENDS Integers, Sequences, FiniteSets

CONSTANTS
  Computers,    \* edge computers, and their state servers
  NumThreads,   \* NumThreads[c]: threads in theAsyncWorkers of computer c
  Client,       \* the state server of the client
  Names,        \* names of lambda functions
  Hosts,        \* Hosts[n]: the computers the routers have for function n
  States,       \* names of the states of a workflow
  Uuids,        \* workflows the client starts
  Workflows,    \* what they may be: [kind, names, successors, dependencies]
  MaxFailures,  \* bound: calls that fail and companions cleared
  None          \* no state

Workers == UNION {{c} \X (1..NumThreads[c]) : c \in Computers}
Locations == Computers \cup {Client}

(* A chain or a DAG as it is in the request: functions are numbered from   *)
(* 0, the last one has no entry in the successors, and states depend on    *)
(* functions that are there.                                               *)
Dependencies == [States -> SUBSET Names]
IsChain(x) ==
  LET n == Cardinality(DOMAIN x.names) IN
  /\ n \in Nat \ {0} /\ x.names \in [0..n - 1 -> Names]
  /\ x.dependencies \in Dependencies
  /\ \A s \in States : \A f \in x.dependencies[s] :
       \E i \in DOMAIN x.names : x.names[i] = f
IsDag(x) ==
  LET n == Cardinality(DOMAIN x.names) IN
  /\ IsChain(x)
  /\ DOMAIN x.successors = 0..n - 2
  /\ \A i \in DOMAIN x.successors : x.successors[i] \in Seq(1..n - 1)
IsWorkflow(x) ==
  \/ x.kind = "chain" /\ IsChain(x)
  \/ x.kind = "dag" /\ IsDag(x)

ASSUME WorkflowAssumption ==
  /\ NumThreads \in [Computers -> Nat \ {0}]
  /\ Client \notin Computers
  /\ None \notin States
  /\ Hosts \in [Names -> SUBSET Computers]
  /\ \A n \in Names : Hosts[n] # {}
  /\ \A x \in Workflows : IsWorkflow(x)
  /\ MaxFailures \in Nat

VARIABLES
  wf,              \* wf[u]: the workflow of u, which every message carries
  sent,            \* the workflows the client has started
  theAsyncQueue,   \* requests accepted by each computer and not started
  theInvocations,  \* invocations received so far, by function and uuid
  worker,          \* what each AsyncWorker is doing
  theStateRepo,    \* theStateRepo[l]: the states on state server l
  theCompanion,    \* is theCompanionClient set?
  up,              \* the computers that have not crashed
  callbacks,       \* callbacks[u]: the responses the callback server received
  executed,        \* how many times each function was executed (history)
  resent,          \* workflows with an invocation the router repeated (history)
  failures         \* failures so far

vars == <<wf, sent, theAsyncQueue, theInvocations, worker, theStateRepo,
          theCompanion, up, callbacks, executed, resent, failures>>

Functions(u) == DOMAIN wf[u].names
Hashes == UNION {Functions(u) \X {u} : u \in Uuids}
Idle == [pc |-> "idle", req |-> <<>>, states |-> {}, state |-> None,
         functions |-> <<>>, tried |-> {}]

Init ==
  /\ wf \in [Uuids -> Workflows]
  /\ sent = {}
  /\ theAsyncQueue = [c \in Computers |-> <<>>]
  /\ theInvocations = [c \in Computers |-> [h \in Hashes |-> 0]]
  /\ worker = [w \in Workers |-> Idle]
  /\ theStateRepo = [l \in Locations |-> IF l = Client THEN Uuids \X States
                                                       ELSE {}]
  /\ theCompanion = [c \in Computers |-> TRUE]
  /\ up = Computers
  /\ callbacks = [u \in Uuids |-> <<>>]
  /\ executed = [u \in Uuids |-> [f \in Functions(u) |-> 0]]
  /\ resent = {}
  /\ failures = 0

-----------------------------------------------------------------------------
(* A worker that is moving states keeps theMutex of its computer locked.  *)
MutexFree(c) ==
  \A w \in Workers : w[1] = c => worker[w].pc \notin {"get", "put", "del"}

(* The invocations of function f in the DAG: <<p, k>> is the k-th of p.  *)
Invocations(u, f) ==
  LET succ == wf[u].successors IN
  {e \in UNION {{p} \X (1..Len(succ[p])) : p \in DOMAIN succ} :
     succ[e[1]][e[2]] = f}

Expected(req) == Cardinality(Invocations(req.uuid, req.index))

(* checkPreconditions: true at once unless the function has several        *)
(* predecessors, otherwise the invocations are counted.                    *)
NoPreconditions(req) ==
  wf[req.uuid].kind = "chain" \/ req.index = 0 \/ Expected(req) = 1

(* Mutant: the hash does not depend on the workflow.  *)
makeHashNoUuid(req) ==
  <<req.index, CHOOSE u \in Uuids : req.index \in Functions(u)>>

makeHash(req) == <<req.index, req.uuid>>

(* Mutants: every invocation is the last one; the last one is not.  *)
EveryInvocation(c, req) == TRUE

InvocationAfterLast(c, req) ==
  theInvocations[c][makeHash(req)] = Expected(req)

LastInvocation(c, req) ==
  theInvocations[c][makeHash(req)] + 1 = Expected(req)

(* process() of an asynchronous request at computer c.  *)
Process(c, req) ==
  /\ c \in up
  /\ \/ /\ NoPreconditions(req)
        /\ theAsyncQueue' = [theAsyncQueue EXCEPT ![c] = Append(@, req)]
        /\ UNCHANGED theInvocations
     \/ /\ ~NoPreconditions(req)
        /\ MutexFree(c)
        /\ LastInvocation(c, req)
        /\ theInvocations' = [theInvocations EXCEPT ![c][makeHash(req)] = 0]
        /\ theAsyncQueue' = [theAsyncQueue EXCEPT ![c] = Append(@, req)]
     \/ /\ ~NoPreconditions(req)
        /\ MutexFree(c)
        /\ ~LastInvocation(c, req)
        /\ theInvocations' =
             [theInvocations EXCEPT ![c][makeHash(req)] = @ + 1]
        /\ UNCHANGED theAsyncQueue

FirstRequest(u) ==
  [uuid |-> u, index |-> 0, location |-> [s \in States |-> Client]]

(* The client starts a workflow: a router sends the request to a computer  *)
(* that has its first function.                                            *)
Send(u) ==
  /\ u \notin sent
  /\ sent' = sent \cup {u}
  /\ \E c \in Hosts[wf[u].names[0]] : Process(c, FirstRequest(u))
  /\ UNCHANGED <<wf, worker, theStateRepo, theCompanion, up, callbacks,
                 executed, resent, failures>>

-----------------------------------------------------------------------------
(* AsyncWorker: pop the next request ...  *)
PopRequest(w) ==
  LET c == w[1] IN
  /\ c \in up
  /\ worker[w].pc = "idle"
  /\ theAsyncQueue[c] # <<>>
  /\ worker' = [worker EXCEPT ![w] = [Idle EXCEPT
                  !.pc = "running", !.req = Head(theAsyncQueue[c])]]
  /\ theAsyncQueue' = [theAsyncQueue EXCEPT ![c] = Tail(@)]
  /\ UNCHANGED <<wf, sent, theInvocations, theStateRepo, theCompanion, up,
                 callbacks, executed, resent, failures>>

(* The states that handleRemoteStates has to move.  *)
RemoteStates(c, req) ==
  {s \in States : /\ req.location[s] # c
                  /\ wf[req.uuid].names[req.index]
                       \in wf[req.uuid].dependencies[s]}

(* ... and execute it: the task is complete and theMutex is locked.  *)
Execute(w) ==
  LET req == worker[w].req
      remote == RemoteStates(w[1], req) IN
  /\ worker[w].pc = "running"
  /\ MutexFree(w[1])
  /\ worker' = [worker EXCEPT ![w].pc = IF remote = {} THEN "finish" ELSE "get",
                              ![w].states = remote]
  /\ executed' = [executed EXCEPT ![req.uuid][req.index] = @ + 1]
  /\ UNCHANGED <<wf, sent, theAsyncQueue, theInvocations, theStateRepo,
                 theCompanion, up, callbacks, resent, failures>>

HasState(l, w, s) == <<worker[w].req.uuid, s>> \in theStateRepo[l]

(* Mutant: the server forgets what it is given.  *)
PutNothing(repo, state) == repo

(* What Put and Del of a state server do to its repository.  *)
Put(repo, state) == repo \cup {state}
Del(repo, state) == repo \ {state}

(* Mutant: the state is deleted as soon as it is read.  *)
GetStateDeletes(w) ==
  /\ worker[w].pc = "get"
  /\ \E s \in worker[w].states :
       LET l == worker[w].req.location[s] IN
       /\ HasState(l, w, s)
       /\ worker' = [worker EXCEPT ![w].pc = "put", ![w].state = s]
       /\ theStateRepo' = [theStateRepo EXCEPT ![l] =
                             Del(@, <<worker[w].req.uuid, s>>)]
  /\ UNCHANGED <<wf, sent, theAsyncQueue, theInvocations, theCompanion, up,
                 callbacks, executed, resent, failures>>

(* handleRemoteStates: get the content from where the request says the     *)
(* state is ...                                                            *)
GetState(w) ==
  /\ worker[w].pc = "get"
  /\ \E s \in worker[w].states :
       /\ HasState(worker[w].req.location[s], w, s)
       /\ worker' = [worker EXCEPT ![w].pc = "put", ![w].state = s]
  /\ UNCHANGED <<wf, sent, theAsyncQueue, theInvocations, theStateRepo,
                 theCompanion, up, callbacks, executed, resent, failures>>

(* ... put it on the local state server ...  *)
PutState(w) ==
  /\ worker[w].pc = "put"
  /\ theStateRepo' = [theStateRepo EXCEPT ![w[1]] =
                        Put(@, <<worker[w].req.uuid, worker[w].state>>)]
  /\ worker' = [worker EXCEPT ![w].pc = "del"]
  /\ UNCHANGED <<wf, sent, theAsyncQueue, theInvocations, theCompanion, up,
                 callbacks, executed, resent, failures>>

(* The request, and hence the response, with a new location for s.  *)
Relocated(req, s, c) == [req EXCEPT !.location[s] = c]

(* ... delete it from where it was and update the location.  *)
DelState(w) ==
  LET s == worker[w].state
      rest == worker[w].states \ {s} IN
  /\ worker[w].pc = "del"
  /\ theStateRepo' = [theStateRepo EXCEPT ![worker[w].req.location[s]] =
                        Del(@, <<worker[w].req.uuid, s>>)]
  /\ worker' = [worker EXCEPT
                  ![w].pc = IF rest = {} THEN "finish" ELSE "get",
                  ![w].states = rest,
                  ![w].state = None,
                  ![w].req = Relocated(@, s, w[1])]
  /\ UNCHANGED <<wf, sent, theAsyncQueue, theInvocations, theCompanion, up,
                 callbacks, executed, resent, failures>>

(* Mutant: the worker keeps the request.  *)
ForgetNothing(w) == worker' = [worker EXCEPT ![w].pc = "idle"]

(* An exception: the worker logs it and forgets the request.  *)
Forget(w) == worker' = [worker EXCEPT ![w] = Idle]

(* The state is not where the request says.  *)
GetStateFails(w) ==
  /\ worker[w].pc = "get"
  /\ \E s \in worker[w].states : ~HasState(worker[w].req.location[s], w, s)
  /\ Forget(w)
  /\ UNCHANGED <<wf, sent, theAsyncQueue, theInvocations, theStateRepo,
                 theCompanion, up, callbacks, executed, resent, failures>>

-----------------------------------------------------------------------------
(* The callback server puts the responses in a queue.  *)
ReceiveResponse(queue, response) == Append(queue, response)

LastFunction(req) ==
  LET n == Cardinality(Functions(req.uuid)) IN
  req.index = n - 1 /\ (wf[req.uuid].kind = "chain" \/ n > 1)

(* The last function sends the response to the callback server.  *)
SendCallback(w) ==
  LET req == worker[w].req IN
  /\ worker[w].pc = "finish"
  /\ LastFunction(req)
  /\ callbacks' = [callbacks EXCEPT ![req.uuid] =
                                         ReceiveResponse(@, req.location)]
  /\ Forget(w)
  /\ UNCHANGED <<wf, sent, theAsyncQueue, theInvocations, theStateRepo,
                 theCompanion, up, executed, resent, failures>>

(* A state server, the callback server or the companion is not reachable.  *)
CallThrows(w) ==
  /\ \/ worker[w].pc \in {"get", "put", "del"}
     \/ worker[w].pc = "invoke"
     \/ worker[w].pc = "finish"
        /\ LastFunction(worker[w].req)
  /\ failures < MaxFailures
  /\ failures' = failures + 1
  /\ Forget(w)
  /\ UNCHANGED <<wf, sent, theAsyncQueue, theInvocations, theStateRepo,
                 theCompanion, up, callbacks, executed, resent>>

NextFunctions(req) ==
  IF wf[req.uuid].kind = "chain" THEN <<req.index + 1>>
  ELSE IF req.index \in DOMAIN wf[req.uuid].successors
       THEN wf[req.uuid].successors[req.index]
       ELSE <<>>

CompanionMutexFree(c) == \A w \in Workers : w[1] = c => worker[w].pc # "invoke"

(* The others lock theCompanionMutex and invoke the next functions.  *)
LockCompanion(w) ==
  LET req == worker[w].req IN
  /\ worker[w].pc = "finish"
  /\ ~LastFunction(req)
  /\ CompanionMutexFree(w[1])
  /\ theCompanion[w[1]]
  /\ IF NextFunctions(req) = <<>> THEN Forget(w)
     ELSE worker' = [worker EXCEPT ![w].pc = "invoke",
                                   ![w].functions = NextFunctions(req)]
  /\ UNCHANGED <<wf, sent, theAsyncQueue, theInvocations, theStateRepo,
                 theCompanion, up, callbacks, executed, resent, failures>>

(* Without a companion the worker dereferences a null pointer to find its  *)
(* end-point: the computer crashes, and with it its queue and workers.     *)
NullCompanion(w) ==
  LET c == w[1] IN
  /\ worker[w].pc = "finish"
  /\ ~LastFunction(worker[w].req)
  /\ CompanionMutexFree(c)
  /\ ~theCompanion[c]
  /\ up' = up \ {c}
  /\ theAsyncQueue' = [theAsyncQueue EXCEPT ![c] = <<>>]
  /\ theInvocations' = [theInvocations EXCEPT ![c] = [h \in DOMAIN @ |-> 0]]
  /\ worker' = [x \in Workers |-> IF x[1] = c THEN Idle ELSE worker[x]]
  /\ UNCHANGED <<wf, sent, theStateRepo, theCompanion, callbacks, executed,
                 resent, failures>>

(* regenerate(): the request for the next function.  *)
Regenerate(w) == [worker[w].req EXCEPT !.index = Head(worker[w].functions)]

(* The computers the router may still send the request to.  *)
Destinations(w) ==
  Hosts[wf[worker[w].req.uuid].names[Head(worker[w].functions)]]
    \ worker[w].tried

Invoked(w) ==
  IF Len(worker[w].functions) = 1 THEN Forget(w)
  ELSE worker' = [worker EXCEPT ![w].functions = Tail(@), ![w].tried = {}]

(* The companion router forwards the next invocation to a computer, whose  *)
(* immediate response comes back before the one after it is made.          *)
Invoke(w) ==
  /\ worker[w].pc = "invoke"
  /\ \E c \in Destinations(w) : Process(c, Regenerate(w))
  /\ Invoked(w)
  /\ UNCHANGED <<wf, sent, theStateRepo, theCompanion, up, callbacks,
                 executed, resent, failures>>

(* The computer has processed the request but the router does not receive  *)
(* the response: it purges that destination and tries with another one.    *)
InvokeResent(w) ==
  /\ worker[w].pc = "invoke"
  /\ failures < MaxFailures
  /\ \E c \in Destinations(w) :
       /\ Process(c, Regenerate(w))
       /\ worker' = [worker EXCEPT ![w].tried = @ \cup {c}]
  /\ failures' = failures + 1
  /\ resent' = resent \cup {worker[w].req.uuid}
  /\ UNCHANGED <<wf, sent, theStateRepo, theCompanion, up, callbacks,
                 executed>>

(* The router has no destination left: its error is logged only, and the   *)
(* next function is invoked.                                               *)
InvokeRefused(w) ==
  /\ worker[w].pc = "invoke"
  /\ Destinations(w) \cap up = {}
  /\ Invoked(w)
  /\ UNCHANGED <<wf, sent, theAsyncQueue, theInvocations, theStateRepo,
                 theCompanion, up, callbacks, executed, resent, failures>>

-----------------------------------------------------------------------------
(* companion(): called with an empty end-point or with a new one.  *)
ClearCompanion(c) ==
  /\ CompanionMutexFree(c)
  /\ theCompanion[c]
  /\ failures < MaxFailures
  /\ failures' = failures + 1
  /\ theCompanion' = [theCompanion EXCEPT ![c] = FALSE]
  /\ UNCHANGED <<wf, sent, theAsyncQueue, theInvocations, worker, theStateRepo,
                 up, callbacks, executed, resent>>

SetCompanion(c) ==
  /\ c \in up
  /\ CompanionMutexFree(c)
  /\ ~theCompanion[c]
  /\ theCompanion' = [theCompanion EXCEPT ![c] = TRUE]
  /\ UNCHANGED <<wf, sent, theAsyncQueue, theInvocations, worker, theStateRepo,
                 up, callbacks, executed, resent, failures>>

(* Nothing is left to do.  *)
Quiescent ==
  /\ \A u \in Uuids \ sent : Hosts[wf[u].names[0]] \cap up = {}
  /\ \A w \in Workers : worker[w].pc = "idle"
  /\ \A c \in up : theAsyncQueue[c] = <<>>
  /\ UNCHANGED vars

-----------------------------------------------------------------------------
(* What a worker does when no call fails.  *)
WorkerStep(w) ==
  \/ PopRequest(w)
  \/ Execute(w)
  \/ GetState(w) \/ GetStateFails(w) \/ PutState(w) \/ DelState(w)
  \/ SendCallback(w)
  \/ LockCompanion(w) \/ NullCompanion(w)
  \/ Invoke(w) \/ InvokeRefused(w)

Next ==
  \/ \E u \in Uuids : Send(u)
  \/ \E w \in Workers : WorkerStep(w) \/ CallThrows(w) \/ InvokeResent(w)
  \/ \E c \in Computers : ClearCompanion(c) \/ SetCompanion(c)
  \/ Quiescent

Spec == Init /\ [][Next]_vars

(* The threads of theAsyncWorkers are scheduled and their calls return.  *)
FairSpec == Spec /\ \A w \in Workers : WF_vars(WorkerStep(w))

-----------------------------------------------------------------------------
Requests ==
  {r \in [uuid : Uuids, index : UNION {Functions(u) : u \in Uuids},
          location : [States -> Locations]] : r.index \in Functions(r.uuid)}

WorkerStates ==
  [pc : {"idle", "running", "get", "put", "del", "finish", "invoke"},
   req : Requests \cup {<<>>}, states : SUBSET States,
   state : States \cup {None}, functions : Seq(Nat), tried : SUBSET Computers]

TypeOK ==
  /\ wf \in [Uuids -> Workflows]
  /\ sent \subseteq Uuids /\ resent \subseteq Uuids
  /\ theAsyncQueue \in [Computers -> Seq(Requests)]
  /\ theInvocations \in [Computers -> [Hashes -> Nat]]
  /\ worker \in [Workers -> WorkerStates]
  /\ \A w \in Workers : worker[w].pc = "idle" <=> worker[w].req = <<>>
  /\ theStateRepo \in [Locations -> SUBSET (Uuids \X States)]
  /\ theCompanion \in [Computers -> BOOLEAN]
  /\ up \subseteq Computers
  /\ callbacks \in [Uuids -> Seq([States -> Locations])]
  /\ DOMAIN executed = Uuids
  /\ \A u \in Uuids : executed[u] \in [Functions(u) -> Nat]
  /\ failures \in 0..MaxFailures

(* The requests for a function of a workflow that are queued or with a     *)
(* worker that has not executed them.                                      *)
Started(u, f) ==
  \/ executed[u][f] > 0
  \/ \E w \in Workers : /\ worker[w].pc = "running"
                        /\ worker[w].req.uuid = u /\ worker[w].req.index = f
  \/ \E c \in Computers : \E k \in 1..Len(theAsyncQueue[c]) :
       /\ theAsyncQueue[c][k].uuid = u /\ theAsyncQueue[c][k].index = f

Predecessors(u, f) ==
  IF wf[u].kind = "chain" THEN {f - 1} \cap Functions(u)
  ELSE {e[1] : e \in Invocations(u, f)}

(* checkPreconditions counts invocations, and knows neither who made them  *)
(* nor whether they were repeated.  As long as no router repeats one, a    *)
(* function is started only after all its predecessors were executed,      *)
(* whatever the order in which two workflows' invocations arrive.          *)
JoinComplete ==
  \A u \in Uuids \ resent : \A f \in Functions(u) :
    Started(u, f) => \A p \in Predecessors(u, f) : executed[u][p] > 0

(* Every function leads to the last one: the last function and the         *)
(* predecessors of those that are there is all there is.                   *)
LeadsToLast(u) ==
  \A F \in SUBSET Functions(u) :
    (/\ Cardinality(Functions(u)) - 1 \in F
     /\ \A f \in F : Predecessors(u, f) \subseteq F) => F = Functions(u)

(* ... and a function is executed at most once and the client is called    *)
(* back at most once, even if calls fail and computers crash, and only     *)
(* when all the functions that lead to the last one were executed.         *)
ExecutedOnce ==
  \A u \in Uuids \ resent :
    /\ \A f \in Functions(u) : executed[u][f] <= 1
    /\ Len(callbacks[u]) <= 1
    /\ callbacks[u] # <<>> /\ LeadsToLast(u) =>
         \A f \in Functions(u) : executed[u][f] = 1

(* No two functions that need state s of a workflow can run together: they *)
(* run one after the other, or there is one only.                          *)
Unshared(u, s) ==
  \/ wf[u].kind = "chain"
  \/ \A f, g \in Functions(u) :
       /\ wf[u].names[f] \in wf[u].dependencies[s]
       /\ wf[u].names[g] \in wf[u].dependencies[s]
       => f = g

(* A state is always on some server: it is put on the new one before it is *)
(* deleted from the old one, so that a failure in between never loses it.  *)
(* Two branches that need the same state may exchange their copies, and    *)
(* each deletes the one that the other has just put.                       *)
StateNeverLost ==
  \A u \in Uuids \ resent, s \in States :
    Unshared(u, s) => \E l \in Locations : <<u, s>> \in theStateRepo[l]

LocatesStates(u) ==
  \A k \in 1..Len(callbacks[u]) : \A s \in States :
    <<u, s>> \in theStateRepo[callbacks[u][k][s]]

(* The response of a chain says where its states are.  *)
ChainLocatesStates ==
  \A u \in Uuids \ resent : wf[u].kind = "chain" => LocatesStates(u)

(* edgecomputer.h: remote states are "deleted from the original location   *)
(* and the location is updated in the response", for DAGs as well.         *)
ResponseLocatesStates == \A u \in Uuids \ resent : LocatesStates(u)

(* The functions that wait for several invocations are served by one       *)
(* computer each, as the routers see it: the invocations of a function are *)
(* counted by each computer on its own (edgecomputer.cpp, checkPreconditions). *)
JoinsOnOneComputer(u) ==
  wf[u].kind = "dag" =>
    \A f \in Functions(u) :
      Cardinality(Invocations(u, f)) > 1 => Cardinality(Hosts[wf[u].names[f]]) = 1

Ended(u) == callbacks[u] # <<>> \/ failures > 0

(* Such a workflow ends with a callback, unless a call fails, although     *)
(* other workflows may have left invocations behind that wait for ever.    *)
WorkflowEnds ==
  \A u \in Uuids : u \in sent /\ JoinsOnOneComputer(u) ~> Ended(u)
=============================================================================
