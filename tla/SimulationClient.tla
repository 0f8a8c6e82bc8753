-------------------------- MODULE SimulationClient -------------------------
(***************************************************************************)
(* The client of src/Simulation (Client, with the loops of UnifClient,     *)
(* PoissonClient and IppClient), which sends lambda requests through an    *)
(* EdgeClientMulti.  mode is how it was set up:                            *)
(*   single  one function, synchronous;                                    *)
(*   async   a function, a chain or a DAG with a callback: the answer only *)
(*           says that the request was accepted, and the callback server   *)
(*           of edgeclientmain records the result when it comes;           *)
(*   chain   the functions of a chain, one after the other;                *)
(*   dag     the functions of a DAG, one thread each.                      *)
(* kind is the class, which says when loop() sends a request.              *)
(* stop() is called by another thread.  Time is left out: a sleep ends at  *)
(* any time.  States and sizes are in Workflow; they play no role here.    *)
(***************************************************************************)
EXTENDS EdgeClientMulti

CONSTANTS Functions,     \* functions of the chain or DAG, 1..n
          ancestors,     \* Dag::ancestors, of each function
          NumRequests,   \* theNumRequests
          MaxBurst,      \* bound on the requests between two pauses
          Loops          \* kinds of clients in each mode

Main == 0    \* the thread of operator(); a function is its own thread
ASSUME ClientAssumption ==
  /\ Cardinality(Functions) \in Nat \ {0} /\ NumRequests \in Nat
  /\ Functions = 1 .. Cardinality(Functions) /\ Callers = Functions \cup {Main}
  /\ Requests = (1 .. NumRequests) \X Functions
  /\ ancestors \in [Functions -> SUBSET Functions]
  /\ \A m \in DOMAIN Loops : Loops[m] \subseteq {"unif", "poisson", "ipp"}

VARIABLES
  mode, kind,
  started,      \* not theNotStartedFlag
  stopFlag,     \* theStopFlag
  closed,       \* theSendRequestQueue is closed
  finished,     \* theFinishedFlag
  main,         \* where operator() is
  counter,      \* myCounter
  burst,        \* requests to send before the next pause
  sendQueue,    \* number of elements in theSendRequestQueue
  next,         \* next function of the chain
  called,       \* myCalled
  completed,    \* myCompleted
  dagQueue,     \* myQueue: functions, 0 upon failure
  callbacks,    \* callbacks to come: pairs executor, request
  stopper       \* the thread that calls stop()

clientVars == <<mode, kind, started, stopFlag, closed, finished, main, counter, burst, sendQueue,
                next, called, completed, dagQueue, callbacks, stopper>>
vars == <<multiVars, clientVars>>

-----------------------------------------------------------------------------
(***************************************************************************)
(* The mode, as set up before the client starts: it is constructed with a  *)
(* function or without, and then it is given a chain or a DAG.             *)
(***************************************************************************)
New(lambda) == [lambda |-> lambda, workflow |-> "none", callback |-> FALSE]
setChain(s) == IF s.lambda THEN s ELSE [s EXCEPT !.workflow = "chain"]
setDag(s) == IF s.lambda THEN s ELSE [s EXCEPT !.workflow = "dag"]
setCallback(s) == [s EXCEPT !.callback = TRUE]
SetUps ==
  LET plain == {New(TRUE), setChain(New(FALSE)), setDag(New(FALSE))}
  IN plain \cup {setCallback(s) : s \in plain}
Mode(s) == IF s.callback THEN "async" ELSE IF s.lambda THEN "single" ELSE s.workflow

(* an IPP client may start in the middle of an ON period *)
FirstBurst == IF kind = "ipp" THEN 0 .. MaxBurst ELSE {0}

Init ==
  /\ MultiInit
  /\ mode \in {Mode(s) : s \in SetUps} /\ kind \in Loops[mode] /\ started = FALSE /\ stopFlag = FALSE
  /\ closed = FALSE /\ finished = FALSE
  /\ main = "new" /\ counter = 0 /\ burst \in FirstBurst /\ sendQueue = 0
  /\ next = 1 /\ called = {} /\ completed = {} /\ dagQueue = <<>>
  /\ callbacks = {} /\ stopper = "out"

Request(f) == <<counter + 1, f>>

-----------------------------------------------------------------------------
(***************************************************************************)
(* operator() and loop().                                                  *)
(***************************************************************************)
Start ==
  /\ main = "new"
  /\ started' = TRUE /\ main' = "loop"
  /\ UNCHANGED <<multiVars, mode, kind, stopFlag, closed, finished, counter, burst, sendQueue, next,
                 called, completed, dagQueue, callbacks, stopper>>

finish == finished' = TRUE /\ main' = "ended"

Finish ==
  /\ main = "loop" /\ (counter >= NumRequests \/ stopFlag)
  /\ finish
  /\ UNCHANGED <<multiVars, mode, kind, started, stopFlag, closed, counter, burst, sendQueue, next,
                 called, completed, dagQueue, callbacks, stopper>>

(* An iteration of loop() that sends nothing: the first one of a UnifClient,*)
(* the wait for the next burst, which may be empty, and an OFF period,     *)
(* after which at least one request is sent.                               *)
unif_Pause == kind = "unif" /\ main' = "sleep" /\ burst' = 1
poisson_Pause == kind = "poisson" /\ main' \in {"sleep", "loop"} /\ burst' \in 0 .. MaxBurst
ipp_Pause == kind = "ipp" /\ main' = "sleep" /\ burst' \in 1 .. MaxBurst

Pause ==
  /\ main = "loop" /\ counter < NumRequests /\ ~stopFlag /\ burst = 0
  /\ unif_Pause \/ poisson_Pause \/ ipp_Pause
  /\ UNCHANGED <<multiVars, mode, kind, started, stopFlag, closed, finished, counter, sendQueue,
                 next, called, completed, dagQueue, callbacks, stopper>>

(* the end of a sleep: the time has passed, or stop() *)
Wake ==
  /\ main = "sleep" /\ main' = "loop"
  /\ UNCHANGED <<multiVars, mode, kind, started, stopFlag, closed, finished, counter, burst, sendQueue,
                 next, called, completed, dagQueue, callbacks, stopper>>

(* sendRequest; a chain and a DAG start with their first functions *)
SendRequest ==
  /\ main = "loop" /\ counter < NumRequests /\ ~stopFlag /\ burst > 0
  /\ next' = 1
  /\ IF mode = "dag"
       THEN main' = "callable" /\ called' = {} /\ completed' = {} /\ dagQueue' = <<>>
            /\ UNCHANGED call
       ELSE main' = "run" /\ RunLambda({Main}, [c \in Callers |-> Request(1)])
            /\ UNCHANGED <<called, completed, dagQueue>>
  /\ UNCHANGED <<queues, mode, kind, started, stopFlag, closed, finished, counter, burst, sendQueue,
                 callbacks, stopper>>

(* singleExecution and functionChain: a synchronous answer is recorded by  *)
(* the client itself, that of a chain when a function fails or at its end  *)
RunReturns ==
  LET goOn == mode = "chain" /\ Code(Main) = "OK" /\ next < Cardinality(Functions)
      asynchronous == mode = "async" /\ Code(Main) = "OK"
  IN
  /\ main = "run" /\ Returned(Main)
  /\ IF goOn
       THEN /\ next' = next + 1
            /\ RunLambda({Main}, [c \in Callers |-> Request(next + 1)])
            /\ UNCHANGED <<main, sendQueue>>
       ELSE /\ Leave(Main) /\ main' = "stat" /\ UNCHANGED next
            /\ sendQueue' = IF asynchronous THEN sendQueue ELSE sendQueue + 1
  /\ UNCHANGED <<queues, mode, kind, started, stopFlag, closed, finished, counter, burst, called,
                 completed, dagQueue, callbacks, stopper>>

(* The rest of the iteration: the sleep before the next request, unless it *)
(* is late.  The rest of a batch is dropped at the end of the ON period.   *)
unif_Sent == kind = "unif" /\ main' \in {"sleep", "loop"} /\ UNCHANGED burst
poisson_Sent ==
  kind = "poisson" /\ burst' = burst - 1 /\ main' = IF burst' > 0 THEN "sleep" ELSE "loop"
ipp_Sent ==
  /\ kind = "ipp"
  /\ \/ main' = "loop" /\ burst' = 0
     \/ main' \in {"sleep", "loop"} /\ burst > 1 /\ burst' = burst - 1

(* wait until the stat has been recorded; a closed queue throws, unless    *)
(* its element was pushed before                                           *)
StatPopped ==
  /\ main = "stat" /\ sendQueue > 0
  /\ sendQueue' = sendQueue - 1 /\ counter' = counter + 1
  /\ unif_Sent \/ poisson_Sent \/ ipp_Sent
  /\ UNCHANGED <<multiVars, mode, kind, started, stopFlag, closed, finished, next, called, completed,
                 dagQueue, callbacks, stopper>>
QueueClosed ==
  /\ main = "stat" /\ closed
  /\ finish
  /\ UNCHANGED <<multiVars, mode, kind, started, stopFlag, closed, counter, burst, sendQueue, next,
                 called, completed, dagQueue, callbacks, stopper>>

-----------------------------------------------------------------------------
(***************************************************************************)
(* functionDag.                                                            *)
(***************************************************************************)
callable(done) == {f \in Functions \ done : ancestors[f] \subseteq done}

CallFunctions ==
  LET new == callable(completed) \ called IN
  /\ main = "callable"
  /\ called' = called \cup new /\ main' = "dag"
  /\ RunLambda(new, [c \in Callers |-> Request(c)])
  /\ UNCHANGED <<queues, mode, kind, started, stopFlag, closed, finished, counter, burst, sendQueue, next,
                 completed, dagQueue, callbacks, stopper>>

(* the thread of a function: 0 is pushed upon failure, then its index *)
FunctionReturns(f) ==
  /\ Returned(f) /\ Leave(f)
  /\ dagQueue' = dagQueue \o (IF Code(f) = "OK" THEN <<f>> ELSE <<0, f>>)
  /\ UNCHANGED <<queues, mode, kind, started, stopFlag, closed, finished, main, counter, burst, sendQueue,
                 next, called, completed, callbacks, stopper>>

PopFunction ==
  LET f == Head(dagQueue) IN
  /\ main = "dag" /\ dagQueue # <<>>
  /\ dagQueue' = Tail(dagQueue)
  /\ IF f = 0
       THEN main' = "failed" /\ UNCHANGED completed
       ELSE /\ completed' = completed \cup {f}
            /\ main' = IF completed' = Functions THEN "joined" ELSE "callable"
  /\ UNCHANGED <<multiVars, mode, kind, started, stopFlag, closed, finished, counter, burst, sendQueue,
                 next, called, callbacks, stopper>>

(* Mutant: a failure throws while other functions are still running. *)
JoinUnlessFailed ==
  /\ main \in {"joined", "failed"}
  /\ main = "joined" => \A f \in called : call[f].at = "out"
  /\ IF main = "failed" THEN finish /\ UNCHANGED sendQueue
                        ELSE main' = "stat" /\ sendQueue' = sendQueue + 1 /\ UNCHANGED finished
  /\ UNCHANGED <<multiVars, mode, kind, started, stopFlag, closed, counter, burst, next, called,
                 completed, dagQueue, callbacks, stopper>>

(* the threads are joined, then a failure throws *)
JoinFunctions ==
  /\ main \in {"joined", "failed"} /\ \A f \in called : call[f].at = "out"
  /\ IF main = "failed" THEN finish /\ UNCHANGED sendQueue
                        ELSE main' = "stat" /\ sendQueue' = sendQueue + 1 /\ UNCHANGED finished
  /\ UNCHANGED <<multiVars, mode, kind, started, stopFlag, closed, counter, burst, next, called,
                 completed, dagQueue, callbacks, stopper>>

-----------------------------------------------------------------------------
(***************************************************************************)
(* The executors, with the callbacks of asynchronous requests.  A request  *)
(* whose answer is lost ("none") may have been accepted.                   *)
(***************************************************************************)
Execute(e, code) ==
  /\ execLambda(e, code)
  /\ callbacks' \in
       IF mode = "async" /\ code = "OK" THEN {callbacks \cup {<<e, executor[e].request>>}}
       ELSE IF mode = "async" /\ code = "none"
       THEN {callbacks, callbacks \cup {<<e, executor[e].request>>}}
       ELSE {callbacks}
  /\ UNCHANGED <<mode, kind, started, stopFlag, closed, finished, main, counter, burst, sendQueue, next,
                 called, completed, dagQueue, stopper>>

(* ReceiveResponse, then ResponseSaver calls recordStat.  Its thread ends   *)
(* after the pool: the client it calls may have been destroyed (undefined  *)
(* behaviour, of which only the loss of the result is modelled).           *)
recordStat(cb) ==
  /\ cb \in callbacks /\ callbacks' = callbacks \ {cb}
  /\ sendQueue' = IF destroyed THEN sendQueue ELSE sendQueue + 1
  /\ UNCHANGED <<multiVars, mode, kind, started, stopFlag, closed, finished, main, counter, burst, next,
                 called, completed, dagQueue, stopper>>

(* a workflow that fails after it was accepted has no callback *)
NoCallback(cb) ==
  /\ cb \in callbacks /\ callbacks' = callbacks \ {cb}
  /\ UNCHANGED <<multiVars, mode, kind, started, stopFlag, closed, finished, main, counter, burst,
                 sendQueue, next, called, completed, dagQueue, stopper>>

-----------------------------------------------------------------------------
(***************************************************************************)
(* stop() and the destructors.                                             *)
(***************************************************************************)
(* Mutant: stop() does not close theSendRequestQueue. *)
stopNotClosing ==
  /\ stopper = "out"
  /\ IF started THEN stopFlag' = TRUE /\ stopper' = "waiting"
                ELSE stopper' = "ignored" /\ UNCHANGED stopFlag
  /\ UNCHANGED <<multiVars, mode, kind, started, closed, finished, main, counter, burst, sendQueue,
                 next, called, completed, dagQueue, callbacks>>

(* before operator() stop() has no effect *)
stop ==
  /\ stopper = "out"
  /\ IF started THEN closed' = TRUE /\ stopFlag' = TRUE /\ stopper' = "waiting"
                ELSE stopper' = "ignored" /\ UNCHANGED <<closed, stopFlag>>
  /\ UNCHANGED <<multiVars, mode, kind, started, finished, main, counter, burst, sendQueue, next,
                 called, completed, dagQueue, callbacks>>

StopReturns ==
  /\ stopper = "waiting" /\ finished
  /\ stopper' = "returned"
  /\ UNCHANGED <<multiVars, mode, kind, started, stopFlag, closed, finished, main, counter, burst,
                 sendQueue, next, called, completed, dagQueue, callbacks>>

(* the pool has joined the thread of the client and destroys it *)
DestroyClient ==
  /\ main = "ended" /\ stopper # "waiting" /\ Destroy
  /\ UNCHANGED clientVars

MainStep ==
  \/ Start \/ Finish \/ Pause \/ Wake \/ SendRequest \/ RunReturns \/ StatPopped
  \/ QueueClosed \/ CallFunctions \/ PopFunction \/ JoinFunctions

Step ==
  \/ MainStep
  \/ \E f \in Functions : FunctionReturns(f)
  \/ Work /\ UNCHANGED clientVars
  \/ \E e \in Executors, code \in Codes : Execute(e, code)

Next ==
  \/ Step
  \/ \E cb \in callbacks : recordStat(cb) \/ NoCallback(cb)
  \/ stop \/ StopReturns \/ DestroyClient

Spec == Init /\ [][Next]_vars /\ WF_vars(Step) /\ WF_vars(StopReturns)

-----------------------------------------------------------------------------
(***************************************************************************)
(* Properties.                                                             *)
(***************************************************************************)
(* The functions of a DAG run in threads of their own (functionDag of      *)
(* client.cpp): a thread is in RunLambda only when all the ancestors of    *)
(* its function are completed, and whenever the client waits for the stat, *)
(* starts another request or has returned, even because a function failed  *)
(* while others were running, no thread of it is still in RunLambda.       *)
NoThreadLeft ==
  /\ \A f \in Functions : call[f].at # "out" => ancestors[f] \subseteq completed
  /\ main \in {"loop", "sleep", "stat", "ended"} => \A c \in Callers : call[c].at = "out"

(* A client that is told to stop (Client::stop) while it sleeps, waits for *)
(* the permission, for answers, for other functions of a DAG or for a      *)
(* callback that never comes, does return; and the destructor of its       *)
(* multi-client, called while answers are still missing, joins all the     *)
(* threads.                                                                *)
ClientStops ==
  /\ stopper = "waiting" ~> stopper = "returned"
  /\ destroyed ~> Joined
=============================================================================
