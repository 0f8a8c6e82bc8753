---------------------------- MODULE EdgeComputer ----------------------------
(***************************************************************************)
(* EdgeComputer: how a lambda request becomes a task of the back-end and   *)
(* how the answer finds its way back.  blockingExecution starts a task,    *)
(* inserts a descriptor for it and sleeps on the descriptor's condition;   *)
(* taskDone, called by a thread of the back-end, waits for the descriptor  *)
(* to be there (theDescriptorsCv), stores the response and wakes up the    *)
(* sleeper.  The back-end is either the simulated Computer, one dispatcher *)
(* that calls taskDone with Computer::theMutex locked, or a set of HTTP    *)
(* workers.  Sections with theMutex locked are single actions.             *)
(***************************************************************************)
EXTENDS Naturals, Sequences, FiniteSets

CONSTANTS
  Handlers,      \* threads of the gRPC server, they run process()
  AsyncWorkers,  \* threads of theAsyncWorkers
  Dispatcher,    \* the thread of Computer::dispatcher
  HttpWorkers,   \* the threads of EdgeComputerHttp
  Requests,      \* lambda requests, each is sent once
  None           \* no request, no thread

Callers == Handlers \cup AsyncWorkers
Executors == {Dispatcher} \cup HttpWorkers
Backends == {"sim", "http"}

ASSUME EdgeComputerAssumption ==
  /\ Handlers \cap AsyncWorkers = {}
  /\ Dispatcher \notin HttpWorkers
  /\ None \notin Requests \cup Executors

VARIABLES
  backend,        \* which derived class this computer is
  theNextId,      \* identifier of the next task
  tasks,          \* tasks started and not complete yet, oldest first
  taskRequest,    \* taskRequest[i]: the request task i was started for
  computerMutex,  \* the executor that has locked Computer::theMutex
  theDescriptors, \* descriptors of the pending requests, by task identifier
  theAsyncQueue,  \* asynchronous requests accepted and not started
  caller,         \* where each thread is in blockingExecution
  executor,       \* where each thread of the back-end is
  outcome,        \* what has become of each request
  answer          \* answer[r]: the request whose task produced r's response

vars == <<backend, theNextId, tasks, taskRequest, computerMutex,
          theDescriptors, theAsyncQueue, caller, executor, outcome, answer>>

backendVars == <<backend, tasks, taskRequest, theNextId, computerMutex>>

TaskIds == 1..theNextId - 1
Idle == [pc |-> "idle", req |-> None, id |-> 0]
Outcomes == {"unsent", "queued", "running", "ok", "error", "calledback",
             "dropped"}

Init ==
  /\ backend \in Backends
  /\ theNextId = 1
  /\ tasks = <<>>
  /\ taskRequest = <<>>
  /\ computerMutex = None
  /\ theDescriptors = <<>>
  /\ theAsyncQueue = <<>>
  /\ caller = [c \in Callers |-> Idle]
  /\ executor = [e \in Executors |-> [pc |-> "idle", id |-> 0]]
  /\ outcome = [r \in Requests |-> "unsent"]
  /\ answer = [r \in Requests |-> None]

-----------------------------------------------------------------------------
(* process(): a synchronous request is executed by the calling thread ...  *)
ProcessSync(h, r) ==
  /\ caller[h].pc = "idle"
  /\ outcome[r] = "unsent"
  /\ caller' = [caller EXCEPT ![h] = [pc |-> "submit", req |-> r, id |-> 0]]
  /\ outcome' = [outcome EXCEPT ![r] = "running"]
  /\ UNCHANGED <<backendVars, theDescriptors, theAsyncQueue, executor, answer>>

(* ... and an asynchronous one is queued, if there are workers at all.  *)
ProcessAsync(h, r) ==
  /\ caller[h].pc = "idle"
  /\ outcome[r] = "unsent"
  /\ IF AsyncWorkers = {}
       THEN /\ outcome' = [outcome EXCEPT ![r] = "error"]
            /\ UNCHANGED theAsyncQueue
       ELSE /\ outcome' = [outcome EXCEPT ![r] = "queued"]
            /\ theAsyncQueue' = Append(theAsyncQueue, r)
  /\ UNCHANGED <<backendVars, theDescriptors, caller, executor, answer>>

(* AsyncWorker pops the next request.  *)
PopRequest(w) ==
  /\ caller[w].pc = "idle"
  /\ theAsyncQueue # <<>>
  /\ theAsyncQueue' = Tail(theAsyncQueue)
  /\ caller' = [caller EXCEPT ![w] = [pc  |-> "submit",
                                      req |-> Head(theAsyncQueue),
                                      id  |-> 0]]
  /\ outcome' = [outcome EXCEPT ![Head(theAsyncQueue)] = "running"]
  /\ UNCHANGED <<backendVars, theDescriptors, executor, answer>>

-----------------------------------------------------------------------------
(* What an exception does: process() puts it in the return code, the       *)
(* worker logs it and forgets the request.                                 *)
Failure(c) == IF c \in Handlers THEN "error" ELSE "dropped"

Fail(c) ==
  /\ caller' = [caller EXCEPT ![c] = Idle]
  /\ outcome' = [outcome EXCEPT ![caller[c].req] = Failure(c)]

(* Mutant: the identifier is not incremented.  *)
RealExecutionSameId(c) ==
  /\ caller[c].pc = "submit"
  /\ computerMutex = None
  /\ caller' = [caller EXCEPT ![c].pc = "insert", ![c].id = theNextId]
  /\ tasks' = Append(tasks, theNextId)
  /\ taskRequest' = Append(taskRequest, caller[c].req)
  /\ UNCHANGED <<backend, theNextId, computerMutex, theDescriptors,
                 theAsyncQueue, executor, outcome, answer>>

(* realExecution: addTask locks Computer::theMutex, theJobs has a lock of  *)
(* its own.  The task exists from here on, its descriptor does not yet.    *)
RealExecution(c) ==
  /\ caller[c].pc = "submit"
  /\ computerMutex = None
  /\ caller' = [caller EXCEPT ![c].pc = "insert", ![c].id = theNextId]
  /\ theNextId' = theNextId + 1
  /\ tasks' = Append(tasks, theNextId)
  /\ taskRequest' = Append(taskRequest, caller[c].req)
  /\ UNCHANGED <<backend, computerMutex, theDescriptors, theAsyncQueue,
                 executor, outcome, answer>>

(* addTask throws: no container for this lambda or not enough memory.  *)
RealExecutionThrows(c) ==
  /\ caller[c].pc = "submit"
  /\ backend = "sim"
  /\ computerMutex = None
  /\ Fail(c)
  /\ UNCHANGED <<backendVars, theDescriptors, theAsyncQueue, executor, answer>>

(* The executors asleep on theDescriptorsCv.  *)
Asleep == {e \in Executors : executor[e].pc = "asleep"}

(* Mutant: the notification is forgotten.  *)
NotifyNobody == UNCHANGED executor

(* theDescriptorsCv.notify_one()  *)
NotifyOneExecutor ==
  \/ Asleep = {} /\ UNCHANGED executor
  \/ \E e \in Asleep : executor' = [executor EXCEPT ![e].pc = "taskDone"]

(* blockingExecution inserts the descriptor and goes to sleep on it.  *)
InsertDescriptor(c) ==
  LET new == [theDone |-> FALSE, theResponse |-> None] IN
  /\ caller[c].pc = "insert"
  /\ theDescriptors' =
       [i \in DOMAIN theDescriptors \cup {caller[c].id} |->
          IF i = caller[c].id THEN new ELSE theDescriptors[i]]
  /\ caller' = [caller EXCEPT ![c].pc = "blocked"]
  /\ NotifyOneExecutor
  /\ UNCHANGED <<backendVars, theAsyncQueue, outcome, answer>>

(* Mutant: the descriptor is not erased.  *)
KeepDescriptor(id) == theDescriptors

WithoutDescriptor(id) ==
  [i \in DOMAIN theDescriptors \ {id} |-> theDescriptors[i]]

(* The response is there and the remote states have been moved: the        *)
(* descriptor is erased.  A handler returns the response, a worker sends   *)
(* it to the callback.                                                     *)
CollectResponse(c) ==
  LET id == caller[c].id
      r == caller[c].req IN
  /\ caller[c].pc = "blocked"
  /\ theDescriptors[id].theDone
  /\ theDescriptors' = WithoutDescriptor(id)
  /\ answer' = [answer EXCEPT ![r] = theDescriptors[id].theResponse]
  /\ IF c \in Handlers
       THEN /\ caller' = [caller EXCEPT ![c] = Idle]
            /\ outcome' = [outcome EXCEPT ![r] = "ok"]
       ELSE /\ caller' = [caller EXCEPT ![c].pc = "callback"]
            /\ UNCHANGED outcome
  /\ UNCHANGED <<backendVars, theAsyncQueue, executor>>

(* handleRemoteStates throws: the exception leaves blockingExecution       *)
(* before the descriptor is erased.                                        *)
RemoteStatesThrow(c) ==
  /\ caller[c].pc = "blocked"
  /\ theDescriptors[caller[c].id].theDone
  /\ Fail(c)
  /\ UNCHANGED <<backendVars, theDescriptors, theAsyncQueue, executor, answer>>

(* The worker delivers the response to the callback server ...  *)
SendCallback(w) ==
  /\ caller[w].pc = "callback"
  /\ outcome' = [outcome EXCEPT ![caller[w].req] = "calledback"]
  /\ caller' = [caller EXCEPT ![w] = Idle]
  /\ UNCHANGED <<backendVars, theDescriptors, theAsyncQueue, executor, answer>>

(* ... or fails to, and drops it.  *)
CallbackThrows(w) ==
  /\ caller[w].pc = "callback"
  /\ Fail(w)
  /\ UNCHANGED <<backendVars, theDescriptors, theAsyncQueue, executor, answer>>

-----------------------------------------------------------------------------
Deliver(e, i) ==
  /\ executor' = [executor EXCEPT ![e] = [pc |-> "taskDone", id |-> tasks[i]]]
  /\ tasks' = [j \in 1..Len(tasks) - 1 |->
                 IF j < i THEN tasks[j] ELSE tasks[j + 1]]

(* Computer::dispatcher wakes up with theMutex locked, ...  *)
DispatcherLock ==
  /\ backend = "sim"
  /\ executor[Dispatcher].pc = "idle"
  /\ tasks # <<>>
  /\ computerMutex = None
  /\ computerMutex' = Dispatcher
  /\ executor' = [executor EXCEPT ![Dispatcher].pc = "locked"]
  /\ UNCHANGED <<backend, theNextId, tasks, taskRequest, theDescriptors,
                 theAsyncQueue, caller, outcome, answer>>

(* ... calls back for each task that is complete, in whatever order, ...   *)
DispatchCompletedTask ==
  /\ executor[Dispatcher].pc = "locked"
  /\ \E i \in 1..Len(tasks) : Deliver(Dispatcher, i)
  /\ UNCHANGED <<backend, theNextId, taskRequest, computerMutex,
                 theDescriptors, theAsyncQueue, caller, outcome, answer>>

(* ... and goes back to wait, which releases theMutex.  *)
DispatcherUnlock ==
  /\ executor[Dispatcher].pc = "locked"
  /\ computerMutex' = None
  /\ executor' = [executor EXCEPT ![Dispatcher].pc = "idle"]
  /\ UNCHANGED <<backend, theNextId, tasks, taskRequest, theDescriptors,
                 theAsyncQueue, caller, outcome, answer>>

(* A worker of EdgeComputerHttp pops a job; its POST has an answer, good   *)
(* or bad, and it calls taskDone in both cases.                            *)
HttpWorkerPop(e) ==
  /\ backend = "http"
  /\ executor[e].pc = "idle"
  /\ tasks # <<>>
  /\ Deliver(e, 1)
  /\ UNCHANGED <<backend, theNextId, taskRequest, computerMutex,
                 theDescriptors, theAsyncQueue, caller, outcome, answer>>

(* Mutant: the response stored is that of the last task started.  *)
TaskDoneLatest(e) ==
  LET id == executor[e].id IN
  /\ executor[e].pc = "taskDone"
  /\ id \in DOMAIN theDescriptors
  /\ theDescriptors' = [theDescriptors EXCEPT ![id] =
                          [theDone |-> TRUE,
                           theResponse |-> taskRequest[Len(taskRequest)]]]
  /\ executor' = [executor EXCEPT ![e] =
                    [pc |-> IF e = Dispatcher THEN "locked" ELSE "idle",
                     id |-> 0]]
  /\ UNCHANGED <<backendVars, theAsyncQueue, caller, outcome, answer>>

(* taskDone finds the descriptor and completes the request ...  *)
TaskDone(e) ==
  LET id == executor[e].id IN
  /\ executor[e].pc = "taskDone"
  /\ id \in DOMAIN theDescriptors
  /\ theDescriptors' = [theDescriptors EXCEPT ![id] =
                          [theDone |-> TRUE, theResponse |-> taskRequest[id]]]
  /\ executor' = [executor EXCEPT ![e] =
                    [pc |-> IF e = Dispatcher THEN "locked" ELSE "idle",
                     id |-> 0]]
  /\ UNCHANGED <<backendVars, theAsyncQueue, caller, outcome, answer>>

(* Mutant: taskDone returns if there is no descriptor yet.  *)
TaskDoneGivesUp(e) ==
  /\ executor[e].pc = "taskDone"
  /\ executor[e].id \notin DOMAIN theDescriptors
  /\ executor' = [executor EXCEPT ![e] =
                    [pc |-> IF e = Dispatcher THEN "locked" ELSE "idle",
                     id |-> 0]]
  /\ UNCHANGED <<backendVars, theDescriptors, theAsyncQueue, caller, outcome,
                 answer>>

(* ... or waits for it to be inserted.  *)
TaskDoneWaits(e) ==
  /\ executor[e].pc = "taskDone"
  /\ executor[e].id \notin DOMAIN theDescriptors
  /\ executor' = [executor EXCEPT ![e].pc = "asleep"]
  /\ UNCHANGED <<backendVars, theDescriptors, theAsyncQueue, caller, outcome,
                 answer>>

-----------------------------------------------------------------------------
CallerStep(c) ==
  \/ RealExecution(c)
  \/ RealExecutionThrows(c)
  \/ InsertDescriptor(c)
  \/ CollectResponse(c)
  \/ RemoteStatesThrow(c)

WorkerStep(w) ==
  \/ PopRequest(w)
  \/ SendCallback(w)
  \/ CallbackThrows(w)

DispatcherStep == DispatcherLock \/ DispatchCompletedTask \/ DispatcherUnlock

TaskDoneStep(e) == TaskDone(e) \/ TaskDoneWaits(e)

(* Every request has been answered and every thread is waiting.  *)
AllAnswered ==
  /\ \A r \in Requests : outcome[r] \in {"ok", "error", "calledback", "dropped"}
  /\ \A c \in Callers : caller[c].pc = "idle"
  /\ UNCHANGED vars

Next ==
  \/ \E h \in Handlers, r \in Requests : ProcessSync(h, r) \/ ProcessAsync(h, r)
  \/ \E c \in Callers : CallerStep(c)
  \/ \E w \in AsyncWorkers : WorkerStep(w)
  \/ DispatcherStep
  \/ \E e \in HttpWorkers : HttpWorkerPop(e)
  \/ \E e \in Executors : TaskDoneStep(e)
  \/ AllAnswered

(* The threads are scheduled.  Nothing is assumed of the back-end: a task  *)
(* of the simulated one may stay pending for ever (see Computer), so that  *)
(* no step is promised in which the dispatcher finds a task complete.      *)
Fairness ==
  /\ \A c \in Callers : WF_vars(CallerStep(c))
  /\ \A w \in AsyncWorkers : WF_vars(WorkerStep(w))
  /\ WF_vars(DispatcherLock)
  /\ WF_vars(DispatcherUnlock)
  /\ \A e \in HttpWorkers : WF_vars(HttpWorkerPop(e))
  /\ \A e \in Executors : WF_vars(TaskDoneStep(e))

Spec == Init /\ [][Next]_vars

FairSpec == Spec /\ Fairness

-----------------------------------------------------------------------------
Range(seq) == {seq[i] : i \in 1..Len(seq)}

CallerStates ==
  [pc  : {"idle", "submit", "insert", "blocked", "callback"},
   req : Requests \cup {None},
   id  : Nat]

ExecutorStates == [pc : {"idle", "locked", "taskDone", "asleep"}, id : Nat]

TypeOK ==
  /\ backend \in Backends
  /\ theNextId \in Nat \ {0}
  /\ tasks \in Seq(Nat \ {0})
  /\ taskRequest \in Seq(Requests)
  /\ Len(taskRequest) = theNextId - 1
  /\ computerMutex \in {None, Dispatcher}
  /\ DOMAIN theDescriptors \subseteq TaskIds
  /\ \A i \in DOMAIN theDescriptors :
       theDescriptors[i] \in [theDone : BOOLEAN,
                              theResponse : Requests \cup {None}]
  /\ theAsyncQueue \in Seq(Requests)
  /\ caller \in [Callers -> CallerStates]
  /\ executor \in [Executors -> ExecutorStates]
  /\ outcome \in [Requests -> Outcomes]
  /\ answer \in [Requests -> Requests \cup {None}]

(* The response a client or a callback server receives is the one of the   *)
(* task that was started for its own request, however the tasks overtake   *)
(* each other in the back-end.                                             *)
ResponseMatches ==
  \A r \in Requests : outcome[r] \in {"ok", "calledback"} => answer[r] = r

(* Nobody waits in vain: the response of every thread that has started a   *)
(* task is stored already, or the task is still in the back-end, or a      *)
(* thread of the back-end is inside taskDone for it.                       *)
ResponseComing ==
  \A c \in Callers :
    LET id == caller[c].id IN
    caller[c].pc \in {"insert", "blocked"} =>
      \/ id \in DOMAIN theDescriptors /\ theDescriptors[id].theDone
      \/ id \in Range(tasks)
      \/ \E e \in Executors : executor[e].id = id

(* A descriptor belongs to the one thread that is blocked on it.  The only *)
(* ones left over are those of requests that failed while moving the       *)
(* remote states (they are never erased: see the README).                  *)
DescriptorOwned ==
  \A i \in DOMAIN theDescriptors :
    \/ \E c \in Callers : caller[c].pc = "blocked" /\ caller[c].id = i
    \/ /\ theDescriptors[i].theDone
       /\ outcome[taskRequest[i]] \in {"error", "dropped"}

(* Why the dispatcher may sleep in taskDone with Computer::theMutex locked *)
(* and there is no deadlock: the thread it waits for has left addTask, so  *)
(* it does not need that mutex to insert the descriptor.                   *)
DispatcherSleepIsShort ==
  executor[Dispatcher].pc = "asleep" =>
    \E c \in Callers : /\ caller[c].pc = "insert"
                       /\ caller[c].id = executor[Dispatcher].id

(* The back-end has completed the task of a request in execution.          *)
Completed(r) ==
  /\ outcome[r] = "running"
  /\ \E i \in TaskIds : taskRequest[i] = r /\ i \notin Range(tasks)

(* With the simulated back-end every request whose task is complete is     *)
(* answered, also if the task completes before its descriptor is inserted, *)
(* and whatever other tasks stay pending for ever meanwhile.               *)
SimAnswers ==
  \A r \in Requests :
    backend = "sim" /\ Completed(r)
      ~> outcome[r] \in {"ok", "error", "calledback", "dropped"}

(* The wait in taskDone ends, for every back-end (the comment in taskDone  *)
(* says that it is always very short).                                     *)
TaskDoneWaitEnds ==
  \A e \in Executors : executor[e].pc = "asleep" ~> executor[e].pc # "asleep"
=============================================================================
