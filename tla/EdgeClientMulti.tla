-------------------------- MODULE EdgeClientMulti --------------------------
(***************************************************************************)
(* EdgeClientMulti: one lambda request is sent to several executors, the   *)
(* fastest good answer is returned and the consumer thread collects the    *)
(* others.  The threads share one pending request, which the executors     *)
(* hold by a raw pointer, and one queue of answers; the calling queue      *)
(* holds the permission to start the next request.                         *)
(*                                                                         *)
(* Several threads may call RunLambda on the same object (the functions of *)
(* a DAG).  thePrimary is not protected: it is assigned after the          *)
(* permission was given back, while another caller may be reading it.      *)
(***************************************************************************)
EXTENDS Integers, Sequences, FiniteSets

CONSTANTS Executors,   \* indices in theDesc
          Callers,     \* threads that call RunLambda
          Requests     \* the lambda requests

ASSUME ExecutorsAssumption == Executors # {} /\ IsFiniteSet(Executors)

VARIABLES
  callingQueue,    \* theCallingQueue
  consumerQueue,   \* theConsumerQueue
  queueIn,         \* theDesc[e].theQueueIn: <<request>>, or <<>> to terminate
  queueOut,        \* theQueueOut
  pendingRequest,  \* thePendingRequest: <<request>> or <<>>
  primary,         \* thePrimary
  persistent,      \* whether thePersistenceProb is positive
  executor,        \* thread of each executor: where it is, what it runs
  consumer,        \* consumer thread: where it is and myPending
  call,            \* of each caller: where it is in RunLambda, its locals
  destroyed        \* the destructor was called

multiVars == <<callingQueue, consumerQueue, queueIn, queueOut, pendingRequest,
               primary, persistent, executor, consumer, call, destroyed>>

Codes == {"OK", "error", "none"}
Answer(e, r, code) == [index |-> e, request |-> r, code |-> code]
NoAnswer == <<>>
Call(at, r) == [at |-> at, request |-> r, pending |-> {}, fastest |-> NoAnswer]
NoCall == Call("out", <<>>)

MultiInit ==
  /\ callingQueue = <<TRUE>> /\ consumerQueue = <<>>
  /\ queueIn = [e \in Executors |-> <<>>] /\ queueOut = <<>>
  /\ pendingRequest = <<>> /\ primary \in Executors /\ persistent \in BOOLEAN
  /\ executor = [e \in Executors |-> [at |-> "waiting", request |-> <<>>]]
  /\ consumer = [at |-> "waiting", pending |-> {}]
  /\ call = [c \in Callers |-> NoCall]
  /\ destroyed = FALSE

-----------------------------------------------------------------------------
(***************************************************************************)
(* RunLambda.  RunLambda(cs, request) is the entry of the threads cs, each *)
(* with its request; Returned(c) and Code(c) are what the caller sees.     *)
(***************************************************************************)
RunLambda(cs, request) ==
  call' = [c \in Callers |->
             IF c \in cs THEN Call("enter", <<request[c]>>) ELSE call[c]]

Returned(c) == call[c].at = "returned"
Code(c) == IF call[c].fastest = NoAnswer THEN "terminating" ELSE call[c].fastest[1].code
Leave(c) == call' = [call EXCEPT ![c] = NoCall]

secondary == IF persistent THEN SUBSET (Executors \ {primary}) ELSE {{}}

(* wait until the consumer is done, then draw the secondary executors *)
GoAhead(c) ==
  /\ call[c].at = "enter" /\ callingQueue # <<>>
  /\ callingQueue' = Tail(callingQueue)
  /\ IF Head(callingQueue)
       THEN \E s \in secondary :
              call' = [call EXCEPT ![c].at = "selected", ![c].pending = s]
       ELSE call' = [call EXCEPT ![c].at = "returned"]
  /\ UNCHANGED <<consumerQueue, queueIn, queueOut, pendingRequest, primary,
                 persistent, executor, consumer, destroyed>>

(* thePrimary is read again: it may have changed since the draw.  The new  *)
(* pending request replaces, and deletes, the previous one.                *)
SendToExecutors(c) ==
  LET pending == call[c].pending \cup {primary} IN
  /\ call[c].at = "selected"
  /\ call' = [call EXCEPT ![c].at = "waiting", ![c].pending = pending]
  /\ pendingRequest' = call[c].request
  /\ queueIn' = [e \in Executors |->
                   IF e \in pending THEN Append(queueIn[e], call[c].request)
                                    ELSE queueIn[e]]
  /\ UNCHANGED <<callingQueue, consumerQueue, queueOut, primary, persistent,
                 executor, consumer, destroyed>>

(* Mutant: the permission is given back while answers are still missing. *)
GiveBackAtOnce(pending) ==
  /\ callingQueue' = Append(callingQueue, TRUE)
  /\ consumerQueue' = IF pending = {} THEN consumerQueue ELSE Append(consumerQueue, pending)

(* the executors still pending are left to the consumer, if any *)
GiveBack(pending) ==
  IF pending = {}
    THEN callingQueue' = Append(callingQueue, TRUE) /\ UNCHANGED consumerQueue
    ELSE consumerQueue' = Append(consumerQueue, pending) /\ UNCHANGED callingQueue

(* take the next answer until a good one, or until nobody is pending *)
TakeAnswer(c) ==
  LET m == Head(queueOut)
      pending == call[c].pending \ {m.index}
      took(at) == [call EXCEPT ![c].at = at, ![c].pending = pending, ![c].fastest = <<m>>]
  IN
  /\ call[c].at = "waiting" /\ queueOut # <<>>
  /\ queueOut' = Tail(queueOut)
  /\ IF m.code = "OK"
       THEN call' = took("answered") /\ GiveBack(pending)
       ELSE IF pending = {}
       THEN call' = took("returned") /\ GiveBack({})
       ELSE call' = took("waiting") /\ UNCHANGED <<callingQueue, consumerQueue>>
  /\ UNCHANGED <<queueIn, pendingRequest, primary, persistent, executor, consumer, destroyed>>

(* the fastest executor becomes the primary, after the permission is back *)
SetPrimary(c) ==
  /\ call[c].at = "answered"
  /\ primary' = call[c].fastest[1].index
  /\ call' = [call EXCEPT ![c].at = "returned"]
  /\ UNCHANGED <<callingQueue, consumerQueue, queueIn, queueOut, pendingRequest,
                 persistent, executor, consumer, destroyed>>

-----------------------------------------------------------------------------
(***************************************************************************)
(* The threads of the executors (execLambda) and the consumer (consume).   *)
(***************************************************************************)
PopMessageIn(e) ==
  /\ executor[e].at = "waiting" /\ queueIn[e] # <<>>
  /\ queueIn' = [queueIn EXCEPT ![e] = Tail(@)]
  /\ executor' = [executor EXCEPT ![e] =
       [at |-> IF Head(queueIn[e]) = <<>> THEN "ended" ELSE "running",
        request |-> Head(queueIn[e])]]
  /\ UNCHANGED <<callingQueue, consumerQueue, queueOut, pendingRequest, primary,
                 persistent, consumer, call, destroyed>>

(* the client of the executor answers with a code, or throws ("none") *)
execLambda(e, code) ==
  /\ executor[e].at = "running"
  /\ queueOut' = Append(queueOut, Answer(e, executor[e].request, code))
  /\ executor' = [executor EXCEPT ![e] = [at |-> "waiting", request |-> <<>>]]
  /\ UNCHANGED <<callingQueue, consumerQueue, queueIn, pendingRequest, primary,
                 persistent, consumer, call, destroyed>>

(* an empty set terminates the consumer *)
consume ==
  /\ consumer.at = "waiting" /\ consumerQueue # <<>>
  /\ consumerQueue' = Tail(consumerQueue)
  /\ consumer' = [at |-> IF Head(consumerQueue) = {} THEN "ended" ELSE "draining",
                  pending |-> Head(consumerQueue)]
  /\ UNCHANGED <<callingQueue, queueIn, queueOut, pendingRequest, primary,
                 persistent, executor, call, destroyed>>

ConsumeAnswer ==
  LET pending == consumer.pending \ {Head(queueOut).index} IN
  /\ consumer.at = "draining" /\ queueOut # <<>>
  /\ queueOut' = Tail(queueOut)
  /\ consumer' = [at |-> IF pending = {} THEN "waiting" ELSE "draining", pending |-> pending]
  /\ callingQueue' = IF pending = {} THEN Append(callingQueue, TRUE) ELSE callingQueue
  /\ UNCHANGED <<consumerQueue, queueIn, pendingRequest, primary, persistent,
                 executor, call, destroyed>>

(* the destructor terminates the consumer, the callers and the executors;  *)
(* its owner calls it when no thread is in RunLambda                       *)
Destroy ==
  /\ ~destroyed /\ \A c \in Callers : call[c].at = "out"
  /\ destroyed' = TRUE
  /\ consumerQueue' = Append(consumerQueue, {})
  /\ callingQueue' = Append(callingQueue, FALSE)
  /\ queueIn' = [e \in Executors |-> Append(queueIn[e], <<>>)]
  /\ UNCHANGED <<queueOut, pendingRequest, primary, persistent, executor, consumer, call>>

Joined == consumer.at = "ended" /\ \A e \in Executors : executor[e].at = "ended"

CallerStep(c) == GoAhead(c) \/ SendToExecutors(c) \/ TakeAnswer(c) \/ SetPrimary(c)
Work == \/ \E c \in Callers : CallerStep(c)
        \/ \E e \in Executors : PopMessageIn(e)
        \/ consume \/ ConsumeAnswer

(* Any owner: its threads enter RunLambda, one or several at a time, and   *)
(* leave it, and it destroys the object at the end.                        *)
queues == <<callingQueue, consumerQueue, queueIn, queueOut, pendingRequest, primary,
            persistent, executor, consumer, destroyed>>
Enter(cs, request) ==
  /\ ~destroyed /\ \A c \in cs : call[c].at \in {"out", "returned"}
  /\ RunLambda(cs, request) /\ UNCHANGED queues
Exit(c) == Returned(c) /\ Leave(c) /\ UNCHANGED queues

MultiNext ==
  \/ Work
  \/ \E e \in Executors, code \in Codes : execLambda(e, code)
  \/ \E cs \in SUBSET Callers, request \in [Callers -> Requests] : Enter(cs, request)
  \/ \E c \in Callers : Exit(c)
  \/ Destroy
MultiSpec == MultiInit /\ [][MultiNext]_multiVars

-----------------------------------------------------------------------------
(***************************************************************************)
(* Properties.                                                             *)
(***************************************************************************)
Answers == [index : Executors, request : Seq(Requests), code : Codes]
Calls == [at : {"out", "enter", "selected", "waiting", "answered", "returned"},
          request : Seq(Requests), pending : SUBSET Executors, fastest : Seq(Answers)]
MultiTypeOK ==
  /\ callingQueue \in Seq(BOOLEAN) /\ consumerQueue \in Seq(SUBSET Executors)
  /\ queueIn \in [Executors -> Seq(Seq(Requests))] /\ queueOut \in Seq(Answers)
  /\ pendingRequest \in Seq(Requests)
  /\ primary \in Executors /\ persistent \in BOOLEAN /\ destroyed \in BOOLEAN
  /\ executor \in [Executors -> [at : {"waiting", "running", "ended"}, request : Seq(Requests)]]
  /\ consumer \in [at : {"waiting", "draining", "ended"}, pending : SUBSET Executors]
  /\ call \in [Callers -> Calls]

(* the executors whose answer somebody still waits for *)
Awaited ==
  {e \in Executors :
     \/ \E c \in Callers : call[c].at = "waiting" /\ e \in call[c].pending
     \/ e \in consumer.pending
     \/ \E i \in DOMAIN consumerQueue : e \in consumerQueue[i]}

(* Although the threads share one pending request and one queue of answers *)
(* (RunLambda, consume and execLambda of edgeclientmulti.cpp), no thread   *)
(* uses a request that was replaced, and every answer in the queue is one  *)
(* to the pending request, from an executor that is awaited: the           *)
(* assertions on myPending hold and no answer goes to another caller.      *)
OwnAnswer ==
  /\ \A e \in Executors :
       /\ executor[e].at = "running" => executor[e].request = pendingRequest
       /\ \A i \in DOMAIN queueIn[e] : queueIn[e][i] \in {<<>>, pendingRequest}
  /\ \A i \in DOMAIN queueOut :
       queueOut[i].request = pendingRequest /\ queueOut[i].index \in Awaited
  /\ \A c \in Callers : call[c].at = "waiting" => call[c].request = pendingRequest
=============================================================================
