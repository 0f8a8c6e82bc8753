---------------------- MODULE SimulationClient_proofs ----------------------
(***************************************************************************)
(* EdgeClientMulti, for any number of executors and of threads that call   *)
(* RunLambda; and a client of src/Simulation, for any number of requests,  *)
(* functions and executors, which uses its EdgeClientMulti as an owner     *)
(* should: it implements MultiSpec, and it leaves no thread behind.        *)
(***************************************************************************)
EXTENDS SimulationClient, TLAPS

(* the executors left to the consumer *)
LeftTo == {e \in Executors : \E i \in DOMAIN consumerQueue : e \in consumerQueue[i]}

Holding(c) == call[c].at \in {"selected", "waiting"}

(* what the thread that is at a given point of RunLambda knows *)
CallOK ==
  \A c \in Callers :
    /\ call[c].at \in {"enter", "selected"} => call[c].request # <<>>
    /\ call[c].at = "answered" => call[c].fastest # <<>>
    /\ destroyed => call[c].at = "out"

(* a queue has one message at most, and what the destructor adds to it *)
QueuesOK ==
  /\ ~destroyed => callingQueue \in {<<>>, <<TRUE>>}
  /\ \A i \in DOMAIN consumerQueue :
       (consumerQueue[i] # {} => i = 1) /\ (~destroyed => consumerQueue[i] # {})
  /\ \A e \in Executors : \A i \in DOMAIN queueIn[e] :
       (queueIn[e][i] # <<>> => i = 1) /\ (~destroyed => queueIn[e][i] # <<>>)
  /\ consumer.at = "draining" <=> consumer.pending # {}

(* The permission is in one place: the calling queue, the thread that is   *)
(* inside RunLambda, the set left to the consumer, the consumer itself.    *)
OneTurn ==
  /\ \A c, d \in Callers : Holding(c) /\ Holding(d) => c = d
  /\ \A c \in Callers :
       Holding(c) => LeftTo = {} /\ consumer.pending = {} /\ callingQueue = <<>>
  /\ ~destroyed /\ callingQueue # <<>> => LeftTo = {} /\ consumer.pending = {}
  /\ LeftTo # {} => consumer.pending = {}

(* where the request sent to an executor may be *)
Queued(e) == \E i \in DOMAIN queueIn[e] : queueIn[e][i] # <<>>
Running(e) == executor[e].at = "running"
Answered(e) == \E i \in DOMAIN queueOut : queueOut[i].index = e

OneMessage ==
  /\ \A e \in Executors :
       /\ Queued(e) => ~Running(e) /\ ~Answered(e) /\ e \in Awaited
       /\ Running(e) => ~Answered(e) /\ e \in Awaited
       /\ Answered(e) => e \in Awaited
  /\ \A i, j \in DOMAIN queueOut : queueOut[i].index = queueOut[j].index => i = j

IInv == MultiTypeOK /\ CallOK /\ QueuesOK /\ OneTurn /\ OneMessage /\ OwnAnswer

-----------------------------------------------------------------------------
(* What Append does to a queue, element by element. *)
LEMMA AppendFacts ==
  ASSUME NEW S, NEW s \in Seq(S), NEW x \in S
  PROVE  /\ Append(s, x) \in Seq(S) /\ Append(s, x) # <<>>
         /\ Len(s) \in Nat /\ DOMAIN s = 1 .. Len(s)
         /\ DOMAIN Append(s, x) = 1 .. Len(s) + 1
         /\ Append(s, x)[Len(s) + 1] = x
         /\ \A i \in DOMAIN s : i \in DOMAIN Append(s, x) /\ Append(s, x)[i] = s[i]
         /\ \A i \in DOMAIN Append(s, x) : i \in DOMAIN s \/ i = Len(s) + 1
  OBVIOUS

(* What Head and Tail are of a queue that is not empty. *)
LEMMA TailFacts ==
  ASSUME NEW S, NEW s \in Seq(S), s # <<>>
  PROVE  /\ Head(s) \in S /\ Head(s) = s[1] /\ 1 \in DOMAIN s /\ Tail(s) \in Seq(S)
         /\ Len(s) \in Nat /\ DOMAIN s = 1 .. Len(s) /\ DOMAIN Tail(s) = 1 .. Len(s) - 1
         /\ \A i \in DOMAIN Tail(s) : i + 1 \in DOMAIN s /\ Tail(s)[i] = s[i + 1]
         /\ \A i \in DOMAIN s : i # 1 => i - 1 \in DOMAIN Tail(s) /\ s[i] = Tail(s)[i - 1]
  OBVIOUS

LEMMA EmptySeq ==
  ASSUME NEW S
  PROVE  /\ <<>> \in Seq(S) /\ DOMAIN <<>> = {}
         /\ \A s \in Seq(S) : (s = <<>> <=> DOMAIN s = {}) /\ (s = <<>> <=> Len(s) = 0)
  OBVIOUS

(* A queue with one element. *)
LEMMA OneElement ==
  ASSUME NEW S, NEW x \in S
  PROVE  /\ <<x>> \in Seq(S) /\ <<x>> # <<>> /\ Head(<<x>>) = x /\ Tail(<<x>>) = <<>>
         /\ Append(<<>>, x) = <<x>>
<1>1. <<x>> \in Seq(S) /\ <<x>> # <<>> /\ Head(<<x>>) = x /\ Len(<<x>>) = 1
  OBVIOUS
<1>2. Tail(<<x>>) \in Seq(S) /\ Len(Tail(<<x>>)) = 0
  BY <1>1
<1>3. Append(<<>>, x) = <<x>>
  OBVIOUS
<1> QED
  BY <1>1, <1>2, <1>3, EmptySeq

LEMMA InitIInv == MultiInit => IInv
<1> SUFFICES ASSUME MultiInit PROVE IInv
  OBVIOUS
<1> USE DEF MultiInit
<1>1. MultiTypeOK
  <2>1. NoCall \in Calls
    BY DEF NoCall, Call, NoAnswer, Calls
  <2>2. call \in [Callers -> Calls]
    BY <2>1
  <2>3. /\ callingQueue \in Seq(BOOLEAN) /\ consumerQueue \in Seq(SUBSET Executors)
        /\ queueOut \in Seq(Answers) /\ pendingRequest \in Seq(Requests)
    BY EmptySeq
  <2>4. queueIn \in [Executors -> Seq(Seq(Requests))]
    OBVIOUS
  <2>5. executor \in [Executors -> [at : {"waiting", "running", "ended"}, request : Seq(Requests)]]
    OBVIOUS
  <2>6. consumer \in [at : {"waiting", "draining", "ended"}, pending : SUBSET Executors]
    OBVIOUS
  <2> QED
    BY <2>2, <2>3, <2>4, <2>5, <2>6 DEF MultiTypeOK
<1>2. CallOK /\ QueuesOK
  BY DEF CallOK, QueuesOK, NoCall, Call
<1>3. OneTurn
  BY DEF OneTurn, Holding, LeftTo, NoCall, Call
<1>4. OneMessage /\ OwnAnswer
  BY DEF OneMessage, OwnAnswer, Queued, Running, Answered, NoCall, Call
<1> QED
  BY <1>1, <1>2, <1>3, <1>4 DEF IInv

-----------------------------------------------------------------------------
(***************************************************************************)
(* Steps that only change where a caller is, among the points where it has *)
(* no permission.                                                          *)
(***************************************************************************)

(* A step that changes only calls that wait for no answer, neither before  *)
(* nor after, keeps what the queues contain right.                         *)
LEMMA CallsOnly ==
  ASSUME IInv, call' \in [Callers -> Calls],
         UNCHANGED <<consumerQueue, queueIn, queueOut, pendingRequest, executor, consumer>>,
         \A c \in Callers : call[c].at = "waiting" \/ call'[c].at = "waiting"
                              => call'[c] = call[c]
  PROVE  Awaited' = Awaited /\ LeftTo' = LeftTo /\ OneMessage' /\ OwnAnswer'
<1>1. Awaited' = Awaited /\ LeftTo' = LeftTo
  BY DEF Awaited, LeftTo
<1>2. OneMessage'
  BY <1>1 DEF IInv, OneMessage, Queued, Running, Answered
<1>3. OwnAnswer'
  BY <1>1 DEF IInv, OwnAnswer
<1> QED
  BY <1>1, <1>2, <1>3

LEMMA EnterStep ==
  ASSUME IInv, NEW cs \in SUBSET Callers, NEW request \in [Callers -> Requests],
         Enter(cs, request)
  PROVE  IInv'
<1> DEFINE new(c) == Call("enter", <<request[c]>>)
<1>1. ASSUME NEW c \in Callers
      PROVE  new(c) \in Calls /\ new(c).at = "enter" /\ new(c).request # <<>>
  <2>1. request[c] \in Requests
    OBVIOUS
  <2>2. <<request[c]>> \in Seq(Requests) /\ <<request[c]>> # <<>>
    BY <2>1
  <2> QED
    BY <2>2 DEF Calls, Call, NoAnswer
<1>2. call' = [c \in Callers |-> IF c \in cs THEN new(c) ELSE call[c]]
  BY DEF Enter, RunLambda
<1>3. call \in [Callers -> Calls] /\ ~destroyed /\ UNCHANGED queues
      /\ \A c \in cs : call[c].at \in {"out", "returned"}
  BY DEF Enter, IInv, MultiTypeOK
<1> HIDE DEF new
<1>4. MultiTypeOK'
  BY <1>1, <1>2, <1>3 DEF IInv, MultiTypeOK, queues
<1>5. CallOK' /\ QueuesOK'
  BY <1>1, <1>2, <1>3 DEF IInv, CallOK, QueuesOK, queues
<1>6. Awaited' = Awaited /\ LeftTo' = LeftTo /\ OneMessage' /\ OwnAnswer'
  BY <1>1, <1>2, <1>3, <1>4, CallsOnly DEF queues, MultiTypeOK
<1>7. OneTurn'
  BY <1>1, <1>2, <1>3, <1>6 DEF IInv, OneTurn, Holding, queues
<1> QED
  BY <1>4, <1>5, <1>6, <1>7 DEF IInv

LEMMA ExitStep ==
  ASSUME IInv, NEW c \in Callers, Exit(c)
  PROVE  IInv'
<1>1. NoCall \in Calls /\ NoCall.at = "out"
  BY DEF NoCall, Call, NoAnswer, Calls
<1>2. /\ call' = [call EXCEPT ![c] = NoCall] /\ call[c].at = "returned"
      /\ call \in [Callers -> Calls] /\ UNCHANGED queues
  BY DEF Exit, Leave, Returned, IInv, MultiTypeOK
<1>4. MultiTypeOK'
  BY <1>1, <1>2 DEF IInv, MultiTypeOK, queues
<1>5. CallOK' /\ QueuesOK'
  BY <1>1, <1>2 DEF IInv, CallOK, QueuesOK, queues
<1>6. Awaited' = Awaited /\ LeftTo' = LeftTo /\ OneMessage' /\ OwnAnswer'
  BY <1>1, <1>2, <1>4, CallsOnly DEF queues, MultiTypeOK
<1>7. OneTurn'
  BY <1>1, <1>2, <1>6 DEF IInv, OneTurn, Holding, queues
<1> QED
  BY <1>4, <1>5, <1>6, <1>7 DEF IInv

LEMMA SetPrimaryStep ==
  ASSUME IInv, NEW c \in Callers, SetPrimary(c)
  PROVE  IInv'
<1>1. call \in [Callers -> Calls] /\ call[c] \in Calls /\ call[c].at = "answered"
  BY DEF SetPrimary, IInv, MultiTypeOK
<1>2. call' = [call EXCEPT ![c] = [call[c] EXCEPT !.at = "returned"]]
  BY <1>1 DEF SetPrimary, Calls
<1>3. primary' \in Executors
  <2>1. call[c].fastest \in Seq(Answers) /\ call[c].fastest # <<>>
    BY <1>1 DEF IInv, CallOK, Calls
  <2>2. call[c].fastest[1] \in Answers
    BY <2>1
  <2> QED
    BY <2>2 DEF SetPrimary, Answers
<1> DEFINE new == [call[c] EXCEPT !.at = "returned"]
<1>4. new \in Calls /\ new.at = "returned"
  BY <1>1 DEF Calls
<1> HIDE DEF new
<1>5. call' = [call EXCEPT ![c] = new]
  BY <1>2 DEF new
<1>6. MultiTypeOK'
  BY <1>1, <1>3, <1>4, <1>5 DEF IInv, MultiTypeOK, SetPrimary
<1>7. CallOK' /\ QueuesOK'
  BY <1>1, <1>4, <1>5 DEF IInv, CallOK, QueuesOK, SetPrimary
<1>8. Awaited' = Awaited /\ LeftTo' = LeftTo /\ OneMessage' /\ OwnAnswer'
  BY <1>1, <1>4, <1>5, <1>6, CallsOnly DEF SetPrimary, MultiTypeOK
<1>9. OneTurn'
  BY <1>1, <1>4, <1>5, <1>8 DEF IInv, OneTurn, Holding, SetPrimary
<1> QED
  BY <1>6, <1>7, <1>8, <1>9 DEF IInv

(* The permission goes from the calling queue to the caller. *)
LEMMA GoAheadStep ==
  ASSUME IInv, NEW c \in Callers, GoAhead(c)
  PROVE  IInv'
<1>1. call \in [Callers -> Calls] /\ call[c] \in Calls /\ call[c].at = "enter"
      /\ call[c].request # <<>> /\ ~destroyed
  BY DEF GoAhead, IInv, MultiTypeOK, CallOK
<1>2. callingQueue = <<TRUE>> /\ callingQueue' = <<>> /\ Head(callingQueue) = TRUE
  <2>1. callingQueue = <<TRUE>>
    BY <1>1 DEF GoAhead, IInv, QueuesOK
  <2>2. Tail(<<TRUE>>) = <<>> /\ Head(<<TRUE>>) = TRUE
    BY OneElement
  <2> QED
    BY <2>1, <2>2 DEF GoAhead
<1>3. PICK s \in secondary : call' = [call EXCEPT ![c].at = "selected", ![c].pending = s]
  BY <1>2 DEF GoAhead
<1>4. s \in SUBSET Executors
  BY DEF secondary
<1> DEFINE new == [call[c] EXCEPT !.at = "selected", !.pending = s]
<1>5. new \in Calls /\ new.at = "selected" /\ new.request = call[c].request
  BY <1>1, <1>4 DEF Calls
<1>6. call' = [call EXCEPT ![c] = new]
  BY <1>1, <1>3
<1> HIDE DEF new
<1>7. MultiTypeOK'
  BY <1>1, <1>2, <1>5, <1>6, EmptySeq DEF IInv, MultiTypeOK, GoAhead
<1>8. CallOK' /\ QueuesOK'
  BY <1>1, <1>2, <1>5, <1>6 DEF IInv, CallOK, QueuesOK, GoAhead
<1>9. Awaited' = Awaited /\ LeftTo' = LeftTo /\ OneMessage' /\ OwnAnswer'
  BY <1>1, <1>5, <1>6, <1>7, CallsOnly DEF GoAhead, MultiTypeOK
<1>10. OneTurn'
  BY <1>1, <1>2, <1>5, <1>6, <1>9 DEF IInv, OneTurn, Holding, GoAhead
<1> QED
  BY <1>7, <1>8, <1>9, <1>10 DEF IInv

-----------------------------------------------------------------------------
(***************************************************************************)
(* A request is sent: nobody was awaited, so every executor is at rest and *)
(* nothing refers to the request that is replaced.                         *)
(***************************************************************************)
LEMMA NobodyAwaited ==
  ASSUME IInv, ~destroyed, Awaited = {}
  PROVE  /\ queueOut = <<>>
         /\ \A e \in Executors : queueIn[e] = <<>> /\ executor[e].at # "running"
<1>1. \A e \in Executors : ~Queued(e) /\ ~Running(e) /\ ~Answered(e)
  BY DEF IInv, OneMessage
<1>2. queueOut = <<>>
  <2>1. queueOut \in Seq(Answers)
    BY DEF IInv, MultiTypeOK
  <2>2. ASSUME NEW i \in DOMAIN queueOut PROVE FALSE
    <3>1. queueOut[i] \in Answers
      BY <2>1
    <3>2. queueOut[i].index \in Executors
      BY <3>1 DEF Answers
    <3> QED
      BY <3>2, <1>1 DEF Answered
  <2> QED
    BY <2>1, <2>2, EmptySeq
<1>3. ASSUME NEW e \in Executors PROVE queueIn[e] = <<>>
  <2>1. queueIn[e] \in Seq(Seq(Requests))
    BY DEF IInv, MultiTypeOK
  <2>2. DOMAIN queueIn[e] = {}
    BY <1>1 DEF IInv, QueuesOK, Queued
  <2> QED
    BY <2>1, <2>2, EmptySeq
<1> QED
  BY <1>1, <1>2, <1>3 DEF Running

LEMMA SendStep ==
  ASSUME IInv, NEW c \in Callers, SendToExecutors(c)
  PROVE  IInv'
<1> DEFINE pending == call[c].pending \cup {primary}
           r == call[c].request
           new == [call[c] EXCEPT !.at = "waiting", !.pending = pending]
<1>1. /\ call \in [Callers -> Calls] /\ call[c] \in Calls /\ call[c].at = "selected"
      /\ r \in Seq(Requests) /\ r # <<>> /\ ~destroyed /\ pending \in SUBSET Executors
  BY DEF SendToExecutors, IInv, MultiTypeOK, CallOK, Calls
<1>2. new \in Calls /\ new.at = "waiting" /\ new.request = r /\ new.pending = pending
  BY <1>1 DEF Calls
<1>3. call' = [call EXCEPT ![c] = new]
  BY <1>1 DEF SendToExecutors
<1>4. /\ LeftTo = {} /\ consumer.pending = {} /\ callingQueue = <<>>
      /\ \A d \in Callers : d # c => call[d].at \notin {"selected", "waiting"}
  BY <1>1 DEF IInv, OneTurn, Holding
<1>5. Awaited = {}
  BY <1>1, <1>4 DEF Awaited, LeftTo
<1>6. /\ queueOut = <<>>
      /\ \A e \in Executors : queueIn[e] = <<>> /\ executor[e].at # "running"
  BY <1>1, <1>5, NobodyAwaited
<1>7. Append(<<>>, r) = <<r>> /\ <<r>> \in Seq(Seq(Requests))
  BY <1>1, OneElement
<1>8. queueIn' = [e \in Executors |-> IF e \in pending THEN <<r>> ELSE <<>>]
  BY <1>6, <1>7 DEF SendToExecutors
<1>9. queueIn' \in [Executors -> Seq(Seq(Requests))]
  BY <1>7, <1>8, EmptySeq
<1>10. pendingRequest' = r /\ UNCHANGED <<callingQueue, consumerQueue, queueOut, primary,
                                          persistent, executor, consumer, destroyed>>
  BY DEF SendToExecutors
<1>11. Awaited' = pending /\ LeftTo' = {}
  <2>1. LeftTo' = {}
    BY <1>4, <1>10 DEF LeftTo
  <2>2. \A e \in Executors : ~\E i \in DOMAIN consumerQueue' : e \in consumerQueue'[i]
    BY <2>1 DEF LeftTo
  <2>3. consumer'.pending = {}
    BY <1>4, <1>10
  <2>4. \A e \in Executors :
          (\E d \in Callers : call'[d].at = "waiting" /\ e \in call'[d].pending)
            <=> e \in pending
    BY <1>1, <1>2, <1>3, <1>4
  <2> QED
    BY <1>1, <2>1, <2>2, <2>3, <2>4 DEF Awaited
<1> HIDE DEF pending, r, new
<1>12. MultiTypeOK'
  BY <1>1, <1>2, <1>3, <1>9, <1>10 DEF IInv, MultiTypeOK
<1>13. CallOK'
  BY <1>1, <1>2, <1>3, <1>10 DEF IInv, CallOK
<1>14. QueuesOK'
  <2>1. \A e \in Executors : \A i \in DOMAIN queueIn'[e] : i = 1 /\ queueIn'[e][i] # <<>>
    BY <1>1, <1>8
  <2> QED
    BY <1>1, <1>10, <2>1 DEF IInv, QueuesOK
<1>15. OneTurn'
  BY <1>1, <1>2, <1>3, <1>4, <1>10, <1>11 DEF OneTurn, Holding
<1>16. OneMessage'
  <2>1. DOMAIN queueOut' = {}
    BY <1>6, <1>10
  <2>2. \A e \in Executors : Queued(e)' => e \in pending
    BY <1>8 DEF Queued
  <2>3. \A e \in Executors : ~Running(e)' /\ ~Answered(e)'
    BY <1>6, <1>10, <2>1 DEF Running, Answered
  <2> QED
    BY <1>11, <2>1, <2>2, <2>3 DEF OneMessage
<1>17. OwnAnswer'
  <2>1. DOMAIN queueOut' = {}
    BY <1>6, <1>10
  <2>2. \A e \in Executors : /\ executor'[e].at # "running"
                             /\ \A i \in DOMAIN queueIn'[e] : queueIn'[e][i] = r
    BY <1>6, <1>8, <1>10
  <2>3. \A d \in Callers : call'[d].at = "waiting" => call'[d].request = r
    BY <1>1, <1>2, <1>3, <1>4
  <2> QED
    BY <1>10, <2>1, <2>2, <2>3 DEF OwnAnswer
<1> QED
  BY <1>12, <1>13, <1>14, <1>15, <1>16, <1>17 DEF IInv

-----------------------------------------------------------------------------
(***************************************************************************)
(* The executors.                                                          *)
(***************************************************************************)
LEMMA PopStep ==
  ASSUME IInv, NEW e \in Executors, PopMessageIn(e)
  PROVE  IInv'
<1> DEFINE m == Head(queueIn[e])
           new == [at |-> IF m = <<>> THEN "ended" ELSE "running", request |-> m]
<1>1. /\ queueIn[e] \in Seq(Seq(Requests)) /\ queueIn[e] # <<>>
      /\ executor[e].at = "waiting"
      /\ queueIn \in [Executors -> Seq(Seq(Requests))]
  BY DEF PopMessageIn, IInv, MultiTypeOK
<1>2. /\ m \in Seq(Requests) /\ m = queueIn[e][1] /\ 1 \in DOMAIN queueIn[e]
      /\ Tail(queueIn[e]) \in Seq(Seq(Requests))
      /\ \A i \in DOMAIN Tail(queueIn[e]) :
           i + 1 \in DOMAIN queueIn[e] /\ Tail(queueIn[e])[i] = queueIn[e][i + 1] /\ i + 1 # 1
  BY <1>1, TailFacts
<1>3. \A i \in DOMAIN Tail(queueIn[e]) : Tail(queueIn[e])[i] = <<>>
  BY <1>2 DEF IInv, QueuesOK
<1>4. ~destroyed => m # <<>> /\ DOMAIN Tail(queueIn[e]) = {}
  BY <1>2, <1>3 DEF IInv, QueuesOK
<1>5. /\ queueIn' = [queueIn EXCEPT ![e] = Tail(queueIn[e])]
      /\ executor' = [executor EXCEPT ![e] = new]
      /\ UNCHANGED <<callingQueue, consumerQueue, queueOut, pendingRequest, primary,
                     persistent, consumer, call, destroyed>>
  BY DEF PopMessageIn
<1>6. Awaited' = Awaited /\ LeftTo' = LeftTo
  BY <1>5 DEF Awaited, LeftTo
<1>7. MultiTypeOK'
  BY <1>1, <1>2, <1>5 DEF IInv, MultiTypeOK
<1>8. CallOK' /\ QueuesOK'
  <2>1. CallOK'
    BY <1>5 DEF IInv, CallOK
  <2>2. ASSUME NEW d \in Executors, NEW i \in DOMAIN queueIn'[d]
        PROVE  (queueIn'[d][i] # <<>> => i = 1) /\ (~destroyed => queueIn'[d][i] # <<>>)
    <3>1. CASE d = e
      BY <1>1, <1>3, <1>4, <1>5, <2>2, <3>1
    <3>2. CASE d # e
      BY <1>1, <1>5, <2>2, <3>2 DEF IInv, QueuesOK
    <3> QED
      BY <3>1, <3>2
  <2> QED
    BY <1>5, <2>1, <2>2 DEF IInv, QueuesOK
<1>9. OneTurn'
  BY <1>5, <1>6 DEF IInv, OneTurn, Holding
<1>10. OneMessage'
  <2>1. ~Queued(e)' /\ (Running(e)' => Queued(e))
    BY <1>1, <1>2, <1>3, <1>5 DEF Queued, Running, IInv, MultiTypeOK
  <2>2. \A d \in Executors : d # e => (Queued(d)' <=> Queued(d)) /\ (Running(d)' <=> Running(d))
    BY <1>1, <1>5 DEF Queued, Running, IInv, MultiTypeOK
  <2>3. \A d \in Executors : Answered(d)' <=> Answered(d)
    BY <1>5 DEF Answered
  <2> QED
    BY <1>5, <1>6, <2>1, <2>2, <2>3 DEF IInv, OneMessage
<1>11. OwnAnswer'
  <2>1. m \in {<<>>, pendingRequest}
    BY <1>2 DEF IInv, OwnAnswer
  <2>2. ASSUME NEW d \in Executors
        PROVE  /\ executor'[d].at = "running" => executor'[d].request = pendingRequest
               /\ \A i \in DOMAIN queueIn'[d] : queueIn'[d][i] \in {<<>>, pendingRequest}
    <3>1. CASE d = e
      BY <1>1, <1>3, <1>5, <2>1, <3>1 DEF IInv, MultiTypeOK
    <3>2. CASE d # e
      BY <1>1, <1>5, <3>2 DEF IInv, OwnAnswer, MultiTypeOK
    <3> QED
      BY <3>1, <3>2
  <2> QED
    BY <1>5, <1>6, <2>2 DEF IInv, OwnAnswer
<1> QED
  BY <1>7, <1>8, <1>9, <1>10, <1>11 DEF IInv

LEMMA ExecStep ==
  ASSUME IInv, NEW e \in Executors, NEW code \in Codes, execLambda(e, code)
  PROVE  IInv'
<1> DEFINE a == Answer(e, executor[e].request, code)
           new == [at |-> "waiting", request |-> <<>>]
           n == Len(queueOut) + 1
<1>1. /\ executor[e].at = "running" /\ queueOut \in Seq(Answers)
      /\ executor[e].request \in Seq(Requests) /\ executor[e].request = pendingRequest
  BY DEF execLambda, IInv, MultiTypeOK, OwnAnswer
<1>2. a \in Answers /\ a.index = e /\ a.request = pendingRequest
  BY <1>1 DEF Answer, Answers
<1> HIDE DEF a
<1>3. /\ queueOut' = Append(queueOut, a)
      /\ executor' = [executor EXCEPT ![e] = new]
      /\ UNCHANGED <<callingQueue, consumerQueue, queueIn, pendingRequest, primary,
                     persistent, consumer, call, destroyed>>
  BY DEF execLambda, a
<1>4. /\ queueOut' \in Seq(Answers) /\ queueOut'[n] = a /\ n \in DOMAIN queueOut'
      /\ n \notin DOMAIN queueOut
      /\ \A i \in DOMAIN queueOut : i \in DOMAIN queueOut' /\ queueOut'[i] = queueOut[i]
      /\ \A i \in DOMAIN queueOut' : i \in DOMAIN queueOut \/ i = n
  BY <1>1, <1>2, <1>3, AppendFacts
<1> HIDE DEF n
<1>5. Awaited' = Awaited /\ LeftTo' = LeftTo
  BY <1>3 DEF Awaited, LeftTo
<1>6. new \in [at : {"waiting", "running", "ended"}, request : Seq(Requests)]
  OBVIOUS
<1>7. MultiTypeOK'
  BY <1>3, <1>4, <1>6 DEF IInv, MultiTypeOK
<1>8. CallOK' /\ QueuesOK' /\ OneTurn'
  BY <1>3, <1>5 DEF IInv, CallOK, QueuesOK, OneTurn, Holding
<1>9. e \in Awaited /\ ~Answered(e) /\ ~Queued(e)
  BY <1>1 DEF IInv, OneMessage, Running
<1>10. OneMessage'
  <2>1. ~Running(e)' /\ \A d \in Executors : d # e => (Running(d)' <=> Running(d))
    BY <1>3 DEF Running, IInv, MultiTypeOK
  <2>2. \A d \in Executors : Queued(d)' <=> Queued(d)
    BY <1>3 DEF Queued
  <2>3. \A d \in Executors : d # e => (Answered(d)' <=> Answered(d))
    BY <1>2, <1>4 DEF Answered
  <2>4. \A i, j \in DOMAIN queueOut' : queueOut'[i].index = queueOut'[j].index => i = j
    BY <1>2, <1>4, <1>9 DEF Answered, IInv, OneMessage
  <2> QED
    BY <1>5, <1>9, <2>1, <2>2, <2>3, <2>4 DEF IInv, OneMessage
<1>11. OwnAnswer'
  <2>1. \A i \in DOMAIN queueOut' :
          queueOut'[i].request = pendingRequest /\ queueOut'[i].index \in Awaited
    BY <1>2, <1>4, <1>9 DEF IInv, OwnAnswer
  <2>2. \A d \in Executors :
          executor'[d].at = "running" => executor'[d].request = pendingRequest
    BY <1>3 DEF IInv, OwnAnswer, MultiTypeOK
  <2> QED
    BY <1>3, <1>5, <2>1, <2>2 DEF IInv, OwnAnswer
<1> QED
  BY <1>7, <1>8, <1>10, <1>11 DEF IInv

-----------------------------------------------------------------------------
(***************************************************************************)
(* The first answer of the queue is taken, by a caller or by the consumer, *)
(* which then waits for that executor no more.                             *)
(***************************************************************************)
LEMMA AnswerTaken ==
  ASSUME IInv, queueOut # <<>>, queueOut' = Tail(queueOut),
         UNCHANGED <<queueIn, executor, pendingRequest>>,
         Awaited' = Awaited \ {Head(queueOut).index},
         \A c \in Callers : call'[c].at = "waiting" =>
                              call[c].at = "waiting" /\ call'[c].request = call[c].request
  PROVE  OneMessage' /\ OwnAnswer' /\ queueOut' \in Seq(Answers)
<1>0. PICK x : x = Head(queueOut).index
  OBVIOUS
<1>1. queueOut \in Seq(Answers)
  BY DEF IInv, MultiTypeOK
<1>2. /\ Head(queueOut) \in Answers /\ x = queueOut[1].index /\ 1 \in DOMAIN queueOut
      /\ queueOut' \in Seq(Answers)
      /\ \A i \in DOMAIN queueOut' : /\ i \in Nat /\ i + 1 \in DOMAIN queueOut /\ i + 1 # 1
                                     /\ queueOut'[i] = queueOut[i + 1]
  BY <1>0, <1>1, TailFacts
<1>3. x \in Executors
  BY <1>0, <1>2 DEF Answers
<1>4. \A i \in DOMAIN queueOut' : queueOut'[i].index # x
  BY <1>2 DEF IInv, OneMessage
<1>5. Answered(x)
  BY <1>2 DEF Answered
<1>6. ~Answered(x)' /\ \A d \in Executors : Answered(d)' => Answered(d)
  BY <1>2, <1>4 DEF Answered
<1>7. \A d \in Executors : (Queued(d)' <=> Queued(d)) /\ (Running(d)' <=> Running(d))
  BY DEF Queued, Running
<1>8. ~Queued(x) /\ ~Running(x)
  BY <1>3, <1>5 DEF IInv, OneMessage
<1>9. Awaited' = Awaited \ {x}
  BY <1>0
<1>10. OneMessage'
  <2>1. \A i, j \in DOMAIN queueOut' : queueOut'[i].index = queueOut'[j].index => i = j
    <3> SUFFICES ASSUME NEW i \in DOMAIN queueOut', NEW j \in DOMAIN queueOut',
                        queueOut'[i].index = queueOut'[j].index
                 PROVE  i = j
      OBVIOUS
    <3>1. i + 1 = j + 1
      BY <1>2 DEF IInv, OneMessage
    <3> QED
      BY <1>2, <3>1
  <2> QED
    BY <1>6, <1>7, <1>8, <1>9, <2>1 DEF IInv, OneMessage
<1>11. OwnAnswer'
  <2>1. ASSUME NEW i \in DOMAIN queueOut'
        PROVE  queueOut'[i].request = pendingRequest' /\ queueOut'[i].index \in Awaited'
    BY <1>2, <1>4, <1>9 DEF IInv, OwnAnswer
  <2> QED
    BY <2>1 DEF IInv, OwnAnswer
<1> QED
  BY <1>2, <1>10, <1>11

LEMMA TakeStep ==
  ASSUME IInv, NEW c \in Callers, TakeAnswer(c)
  PROVE  IInv'
<1> DEFINE m == Head(queueOut)
           pending == call[c].pending \ {m.index}
           new(at) == [call[c] EXCEPT !.at = at, !.pending = pending, !.fastest = <<m>>]
<1>1. /\ call \in [Callers -> Calls] /\ call[c] \in Calls /\ call[c].at = "waiting"
      /\ queueOut # <<>> /\ queueOut \in Seq(Answers) /\ ~destroyed
      /\ queueOut' = Tail(queueOut)
      /\ UNCHANGED <<queueIn, pendingRequest, primary, persistent, executor, consumer, destroyed>>
  BY DEF TakeAnswer, IInv, MultiTypeOK, CallOK
<1>2. m \in Answers /\ pending \in SUBSET Executors
  BY <1>1, TailFacts DEF Calls
<1>3. <<m>> \in Seq(Answers) /\ <<m>> # <<>>
  BY <1>2, OneElement
<1>4. ASSUME NEW at \in {"answered", "returned", "waiting"}
      PROVE  /\ new(at) \in Calls /\ new(at).at = at /\ new(at).pending = pending
             /\ new(at).request = call[c].request /\ new(at).fastest # <<>>
  BY <1>1, <1>2, <1>3 DEF Calls
<1>5. /\ LeftTo = {} /\ consumer.pending = {} /\ callingQueue = <<>>
      /\ \A d \in Callers : d # c => call[d].at \notin {"selected", "waiting"}
  BY <1>1 DEF IInv, OneTurn, Holding
<1>6. Awaited = call[c].pending /\ consumerQueue = <<>>
  <2>1. \A e \in Executors : ~\E i \in DOMAIN consumerQueue : e \in consumerQueue[i]
    BY <1>5 DEF LeftTo
  <2>2. call[c].pending \in SUBSET Executors
    BY <1>1 DEF Calls
  <2>3. Awaited = call[c].pending
    BY <1>1, <1>5, <2>1, <2>2 DEF Awaited
  <2>4. consumerQueue \in Seq(SUBSET Executors)
    BY DEF IInv, MultiTypeOK
  <2>5. ASSUME NEW i \in DOMAIN consumerQueue PROVE FALSE
    <3>1. consumerQueue[i] \in SUBSET Executors /\ consumerQueue[i] # {}
      BY <1>1, <2>4 DEF IInv, QueuesOK
    <3> QED
      BY <2>1, <3>1
  <2> QED
    BY <2>3, <2>4, <2>5, EmptySeq
<1>7. PICK at \in {"answered", "returned", "waiting"} :
        /\ call' = [call EXCEPT ![c] = new(at)]
        /\ \/ at \in {"answered", "returned"} /\ GiveBack(pending)
           \/ at = "waiting" /\ UNCHANGED <<callingQueue, consumerQueue>>
  BY <1>1 DEF TakeAnswer
<1> HIDE DEF new, pending, m
<1>8. /\ callingQueue' \in {<<>>, <<TRUE>>}
      /\ consumerQueue' = <<>> \/ (pending # {} /\ consumerQueue' = <<pending>>)
      /\ at = "waiting" => callingQueue' = <<>> /\ consumerQueue' = <<>>
      /\ at # "waiting" /\ pending = {} => consumerQueue' = <<>>
      /\ at # "waiting" /\ pending # {} => consumerQueue' = <<pending>> /\ callingQueue' = <<>>
  <2>1. Append(<<>>, TRUE) = <<TRUE>> /\ Append(<<>>, pending) = <<pending>>
    BY OneElement
  <2> QED
    BY <1>5, <1>6, <1>7, <2>1 DEF GiveBack
<1>9. LeftTo' = IF at = "waiting" THEN {} ELSE pending
  <2>1. CASE consumerQueue' = <<>>
    BY <1>8, <2>1 DEF LeftTo
  <2>2. CASE consumerQueue' = <<pending>> /\ at # "waiting"
    BY <1>2, <2>2 DEF LeftTo
  <2> QED
    BY <1>8, <2>1, <2>2
<1>10. Awaited' = pending
  <2>1. \A e \in Executors : (\E i \in DOMAIN consumerQueue' : e \in consumerQueue'[i])
                               <=> e \in LeftTo'
    BY DEF LeftTo
  <2>2. \A e \in Executors :
          (\E d \in Callers : call'[d].at = "waiting" /\ e \in call'[d].pending)
            <=> at = "waiting" /\ e \in pending
    BY <1>1, <1>4, <1>5, <1>7
  <2>3. consumer'.pending = {}
    BY <1>1, <1>5
  <2> QED
    BY <1>2, <1>9, <2>1, <2>2, <2>3 DEF Awaited
<1>11. OneMessage' /\ OwnAnswer' /\ queueOut' \in Seq(Answers)
  <2>1. Awaited' = Awaited \ {Head(queueOut).index}
    BY <1>6, <1>10 DEF pending, m
  <2>2. \A d \in Callers : call'[d].at = "waiting" =>
          call[d].at = "waiting" /\ call'[d].request = call[d].request
    BY <1>1, <1>4, <1>7
  <2> QED
    BY <1>1, <2>1, <2>2, AnswerTaken
<1>12. MultiTypeOK'
  <2>1. callingQueue' \in Seq(BOOLEAN) /\ consumerQueue' \in Seq(SUBSET Executors)
    BY <1>2, <1>8, EmptySeq, OneElement
  <2>2. call' \in [Callers -> Calls]
    BY <1>1, <1>4, <1>7
  <2> QED
    BY <1>1, <1>11, <2>1, <2>2 DEF IInv, MultiTypeOK
<1>13. CallOK'
  BY <1>1, <1>4, <1>7 DEF IInv, CallOK
<1>14. QueuesOK'
  <2>1. \A i \in DOMAIN consumerQueue' : i = 1 /\ consumerQueue'[i] # {}
    BY <1>8
  <2> QED
    BY <1>1, <1>8, <2>1 DEF IInv, QueuesOK
<1>15. OneTurn'
  <2>1. \A d \in Callers : call'[d].at \in {"selected", "waiting"} => d = c /\ at = "waiting"
    BY <1>1, <1>4, <1>5, <1>7
  <2>2. consumer'.pending = {}
    BY <1>1, <1>5
  <2> QED
    BY <1>1, <1>8, <1>9, <2>1, <2>2 DEF OneTurn, Holding
<1> QED
  BY <1>11, <1>12, <1>13, <1>14, <1>15 DEF IInv

-----------------------------------------------------------------------------
(***************************************************************************)
(* The consumer and the destructor.                                        *)
(***************************************************************************)
LEMMA ConsumeStep ==
  ASSUME IInv, consume
  PROVE  IInv'
<1> DEFINE p == Head(consumerQueue)
<1>1. /\ consumerQueue \in Seq(SUBSET Executors) /\ consumerQueue # <<>>
      /\ consumer.at = "waiting" /\ consumer.pending = {}
  BY DEF consume, IInv, MultiTypeOK, QueuesOK
<1>2. /\ p \in SUBSET Executors /\ p = consumerQueue[1] /\ 1 \in DOMAIN consumerQueue
      /\ Tail(consumerQueue) \in Seq(SUBSET Executors)
      /\ \A i \in DOMAIN Tail(consumerQueue) :
           /\ i + 1 \in DOMAIN consumerQueue /\ i + 1 # 1
           /\ Tail(consumerQueue)[i] = consumerQueue[i + 1]
  BY <1>1, TailFacts
<1>3. /\ \A i \in DOMAIN Tail(consumerQueue) : Tail(consumerQueue)[i] = {}
      /\ \A i \in DOMAIN consumerQueue : i # 1 => consumerQueue[i] = {}
      /\ ~destroyed => DOMAIN Tail(consumerQueue) = {}
  BY <1>2 DEF IInv, QueuesOK
<1>4. /\ consumerQueue' = Tail(consumerQueue)
      /\ consumer' = [at |-> IF p = {} THEN "ended" ELSE "draining", pending |-> p]
      /\ UNCHANGED <<callingQueue, queueIn, queueOut, pendingRequest, primary,
                     persistent, executor, call, destroyed>>
  BY DEF consume
<1>5. consumer'.pending = p /\ (consumer'.at = "draining" <=> p # {})
      /\ consumer' \in [at : {"waiting", "draining", "ended"}, pending : SUBSET Executors]
  BY <1>2, <1>4
<1>6. LeftTo = p /\ LeftTo' = {}
  BY <1>2, <1>3, <1>4 DEF LeftTo
<1>7. Awaited' = Awaited
  BY <1>1, <1>2, <1>3, <1>4, <1>5 DEF Awaited
<1>8. MultiTypeOK'
  BY <1>2, <1>4, <1>5 DEF IInv, MultiTypeOK
<1>9. CallOK' /\ QueuesOK'
  <2>1. CallOK'
    BY <1>4 DEF IInv, CallOK
  <2> QED
    BY <1>3, <1>4, <1>5, <2>1 DEF IInv, QueuesOK
<1>10. OneTurn'
  BY <1>4, <1>5, <1>6 DEF IInv, OneTurn, Holding
<1>11. OneMessage' /\ OwnAnswer'
  BY <1>4, <1>7 DEF IInv, OneMessage, Queued, Running, Answered, OwnAnswer
<1> QED
  BY <1>8, <1>9, <1>10, <1>11 DEF IInv

LEMMA ConsumeAnswerStep ==
  ASSUME IInv, ConsumeAnswer
  PROVE  IInv'
<1> DEFINE x == Head(queueOut).index
           pending == consumer.pending \ {x}
<1>1. /\ consumer.at = "draining" /\ consumer.pending # {} /\ queueOut # <<>>
      /\ consumer.pending \in SUBSET Executors
      /\ queueOut' = Tail(queueOut)
      /\ consumer' = [at |-> IF pending = {} THEN "waiting" ELSE "draining",
                      pending |-> pending]
      /\ UNCHANGED <<consumerQueue, queueIn, pendingRequest, primary, persistent,
                     executor, call, destroyed>>
  BY DEF ConsumeAnswer, IInv, QueuesOK, MultiTypeOK
<1>2. /\ LeftTo = {} /\ (~destroyed => callingQueue = <<>>)
      /\ \A c \in Callers : call[c].at \notin {"selected", "waiting"}
  BY <1>1 DEF IInv, OneTurn, Holding
<1>3. \A e \in Executors : ~\E i \in DOMAIN consumerQueue : e \in consumerQueue[i]
  BY <1>2 DEF LeftTo
<1> HIDE DEF pending
<1>4. consumer'.pending = pending /\ (consumer'.at = "draining" <=> pending # {})
      /\ pending \in SUBSET Executors
      /\ consumer' \in [at : {"waiting", "draining", "ended"}, pending : SUBSET Executors]
  BY <1>1 DEF pending
<1>5. Awaited = consumer.pending /\ Awaited' = pending /\ LeftTo' = {}
  BY <1>1, <1>2, <1>3, <1>4 DEF Awaited, LeftTo
<1>6. OneMessage' /\ OwnAnswer' /\ queueOut' \in Seq(Answers)
  <2>1. Awaited' = Awaited \ {Head(queueOut).index}
    BY <1>5 DEF pending
  <2> QED
    BY <1>1, <2>1, AnswerTaken
<1>7. /\ callingQueue' \in Seq(BOOLEAN)
      /\ ~destroyed => callingQueue' = IF pending = {} THEN <<TRUE>> ELSE <<>>
  <2>1. callingQueue' = IF pending = {} THEN Append(callingQueue, TRUE) ELSE callingQueue
    BY DEF ConsumeAnswer, pending
  <2>2. callingQueue \in Seq(BOOLEAN)
    BY DEF IInv, MultiTypeOK
  <2>3. Append(callingQueue, TRUE) \in Seq(BOOLEAN) /\ Append(<<>>, TRUE) = <<TRUE>>
    BY <2>2, OneElement
  <2> QED
    BY <1>2, <2>1, <2>2, <2>3
<1>8. MultiTypeOK'
  BY <1>1, <1>4, <1>6, <1>7 DEF IInv, MultiTypeOK
<1>9. CallOK' /\ QueuesOK'
  <2>1. CallOK'
    BY <1>1 DEF IInv, CallOK
  <2> QED
    BY <1>1, <1>4, <1>7, <2>1 DEF IInv, QueuesOK
<1>10. OneTurn'
  BY <1>1, <1>2, <1>4, <1>5, <1>7 DEF OneTurn, Holding
<1> QED
  BY <1>6, <1>8, <1>9, <1>10 DEF IInv

LEMMA DestroyStep ==
  ASSUME IInv, Destroy
  PROVE  IInv'
<1>1. /\ ~destroyed /\ destroyed' /\ \A c \in Callers : call[c].at = "out"
      /\ consumerQueue' = Append(consumerQueue, {})
      /\ callingQueue' = Append(callingQueue, FALSE)
      /\ queueIn' = [e \in Executors |-> Append(queueIn[e], <<>>)]
      /\ UNCHANGED <<queueOut, pendingRequest, primary, persistent, executor, consumer, call>>
  BY DEF Destroy
<1>2. /\ callingQueue \in Seq(BOOLEAN) /\ consumerQueue \in Seq(SUBSET Executors)
      /\ \A e \in Executors : queueIn[e] \in Seq(Seq(Requests))
  BY DEF IInv, MultiTypeOK
<1>3. /\ consumerQueue' \in Seq(SUBSET Executors)
      /\ \A i \in DOMAIN consumerQueue :
           i \in DOMAIN consumerQueue' /\ consumerQueue'[i] = consumerQueue[i]
      /\ \A i \in DOMAIN consumerQueue' : i \in DOMAIN consumerQueue \/ consumerQueue'[i] = {}
  BY <1>1, <1>2, AppendFacts
<1>4. ASSUME NEW e \in Executors
      PROVE  /\ queueIn'[e] \in Seq(Seq(Requests))
             /\ \A i \in DOMAIN queueIn'[e] :
                  (i \in DOMAIN queueIn[e] /\ queueIn'[e][i] = queueIn[e][i])
                    \/ queueIn'[e][i] = <<>>
  <2>1. <<>> \in Seq(Requests) /\ queueIn'[e] = Append(queueIn[e], <<>>)
    BY <1>1, EmptySeq
  <2> QED
    BY <1>2, <2>1, AppendFacts
<1>5. LeftTo' = LeftTo /\ Awaited' = Awaited
  BY <1>1, <1>3 DEF LeftTo, Awaited
<1>6. MultiTypeOK'
  <2>1. callingQueue' \in Seq(BOOLEAN)
    BY <1>1, <1>2
  <2>2. queueIn' \in [Executors -> Seq(Seq(Requests))]
    BY <1>1, <1>4
  <2> QED
    BY <1>1, <1>3, <2>1, <2>2 DEF IInv, MultiTypeOK
<1>7. CallOK'
  BY <1>1 DEF IInv, CallOK
<1>8. QueuesOK'
  BY <1>1, <1>3, <1>4 DEF IInv, QueuesOK
<1>9. OneTurn'
  BY <1>1, <1>5 DEF IInv, OneTurn, Holding
<1>10. OneMessage'
  <2>1. \A e \in Executors : Queued(e)' => Queued(e)
    BY <1>4 DEF Queued
  <2> QED
    BY <1>1, <1>5, <2>1 DEF IInv, OneMessage, Running, Answered
<1>11. OwnAnswer'
  BY <1>1, <1>4, <1>5 DEF IInv, OwnAnswer
<1> QED
  BY <1>6, <1>7, <1>8, <1>9, <1>10, <1>11 DEF IInv

-----------------------------------------------------------------------------
LEMMA StutterStep ==
  ASSUME IInv, UNCHANGED multiVars
  PROVE  IInv'
<1> USE DEF multiVars
<1>1. MultiTypeOK' /\ CallOK' /\ QueuesOK'
  BY DEF IInv, MultiTypeOK, CallOK, QueuesOK
<1>2. OneTurn' /\ OneMessage' /\ OwnAnswer'
  BY DEF IInv, OneTurn, Holding, LeftTo, OneMessage, Queued, Running, Answered,
         OwnAnswer, Awaited
<1> QED
  BY <1>1, <1>2 DEF IInv

LEMMA NextIInv ==
  ASSUME IInv, [MultiNext]_multiVars
  PROVE  IInv'
<1>1. ASSUME NEW c \in Callers, CallerStep(c) PROVE IInv'
  BY <1>1, GoAheadStep, SendStep, TakeStep, SetPrimaryStep DEF CallerStep
<1>2. ASSUME NEW e \in Executors, PopMessageIn(e) PROVE IInv'
  BY <1>2, PopStep
<1>3. ASSUME NEW e \in Executors, NEW code \in Codes, execLambda(e, code) PROVE IInv'
  BY <1>3, ExecStep
<1>4. CASE consume \/ ConsumeAnswer \/ Destroy
  BY <1>4, ConsumeStep, ConsumeAnswerStep, DestroyStep
<1>5. ASSUME NEW cs \in SUBSET Callers, NEW request \in [Callers -> Requests],
             Enter(cs, request)
      PROVE  IInv'
  BY <1>5, EnterStep
<1>6. ASSUME NEW c \in Callers, Exit(c) PROVE IInv'
  BY <1>6, ExitStep
<1>7. CASE UNCHANGED multiVars
  BY <1>7, StutterStep
<1> QED
  BY <1>1, <1>2, <1>3, <1>4, <1>5, <1>6, <1>7 DEF MultiNext, Work

(* The permission to start a request, the set of executors still awaited   *)
(* and the messages about the request move together: every step of the     *)
(* callers, of the executors, of the consumer and of the destructor of     *)
(* edgeclientmulti.cpp keeps them so.                                      *)
THEOREM MultiInductive == MultiSpec => []IInv
  BY InitIInv, NextIInv, PTL DEF MultiSpec

(* Whatever the owner of an EdgeClientMulti does with it, and however the  *)
(* threads of edgeclientmulti.cpp interleave, a thread never uses a        *)
(* request that was replaced and never gets the answer to another request. *)
THEOREM MultiOwnAnswer == MultiSpec => []OwnAnswer
<1>1. IInv => OwnAnswer
  BY DEF IInv
<1> QED
  BY <1>1, MultiInductive, PTL

(* At most one caller of RunLambda has a request in the hands of the       *)
(* executors, and the others are blocked in theCallingQueue.pop().         *)
THEOREM MultiOneTurn == MultiSpec => []OneTurn
<1>1. IInv => OneTurn
  BY DEF IInv
<1> QED
  BY <1>1, MultiInductive, PTL

-----------------------------------------------------------------------------
(***************************************************************************)
(* The client.                                                             *)
(***************************************************************************)
Idle == {"new", "loop", "sleep", "stat", "ended"}
InDag == {"callable", "dag", "joined", "failed"}

AllOut == \A c \in Callers : call[c].at = "out"

(* which threads may be in RunLambda, at each point of operator() *)
ClientInv ==
  /\ counter \in Nat /\ main \in Idle \cup InDag \cup {"run"}
  /\ destroyed => main = "ended"
  /\ main \in Idle => AllOut
  /\ main = "run" => /\ counter < NumRequests /\ next \in Functions
                     /\ \A f \in Functions : call[f].at = "out"
  /\ main \in InDag => /\ counter < NumRequests /\ call[Main].at = "out"
                       /\ \A f \in Functions \ called : call[f].at = "out"
  /\ \A f \in Functions : call[f].at # "out" => ancestors[f] \subseteq completed

LEMMA ClientFacts ==
  /\ Main \in Callers /\ Functions \subseteq Callers /\ 1 \in Functions
  /\ \A c \in Callers : c # Main <=> c \in Functions
  /\ \A f \in Functions : f \in Nat
  /\ \A k \in Nat, f \in Functions : k < NumRequests => <<k + 1, f>> \in Requests
<1> DEFINE n == Cardinality(Functions)
<1>1. n \in Nat \ {0} /\ Functions = 1 .. n /\ Callers = Functions \cup {0} /\ NumRequests \in Nat
      /\ Requests = (1 .. NumRequests) \X Functions
  BY ClientAssumption DEF Main
<1> HIDE DEF n
<1>2. \A k \in Nat : k < NumRequests => k + 1 \in 1 .. NumRequests
  BY <1>1
<1> QED
  BY <1>1, <1>2 DEF Main

LEMMA InitClient == Init => MultiInit /\ ClientInv
<1> SUFFICES ASSUME Init PROVE MultiInit /\ ClientInv
  OBVIOUS
<1>1. AllOut
  BY DEF Init, MultiInit, AllOut, NoCall, Call
<1>2. MultiInit /\ main = "new" /\ counter = 0
  BY DEF Init
<1>3. destroyed = FALSE
  BY <1>2 DEF MultiInit
<1> QED
  BY <1>1, <1>2, <1>3, ClientFacts DEF ClientInv, Idle, InDag, AllOut

(* Inside RunLambda a thread neither enters nor leaves it. *)
LEMMA WorkKeepsOut ==
  ASSUME IInv, Work \/ (\E e \in Executors, code \in Codes : execLambda(e, code)),
         NEW c \in Callers
  PROVE  (call'[c].at = "out" <=> call[c].at = "out") /\ destroyed' = destroyed
<1>1. call \in [Callers -> Calls] /\ \A d \in Callers : call[d] \in Calls
  BY DEF IInv, MultiTypeOK
<1>2. ASSUME NEW d \in Callers, CallerStep(d)
      PROVE  (call'[c].at = "out" <=> call[c].at = "out") /\ destroyed' = destroyed
  <2>1. CASE GoAhead(d)
    BY <1>1, <2>1 DEF GoAhead, Calls
  <2>2. CASE SendToExecutors(d)
    BY <1>1, <2>2 DEF SendToExecutors, Calls
  <2>3. CASE TakeAnswer(d)
    <3> DEFINE m == Head(queueOut)
               new(at) == [call[d] EXCEPT !.at = at, !.pending = call[d].pending \ {m.index},
                                          !.fastest = <<m>>]
    <3>1. PICK at \in {"answered", "returned", "waiting"} : call' = [call EXCEPT ![d] = new(at)]
      BY <1>1, <2>3 DEF TakeAnswer
    <3>2. new(at).at = at
      BY <1>1 DEF Calls
    <3>3. call[d].at = "waiting" /\ destroyed' = destroyed
      BY <2>3 DEF TakeAnswer
    <3> HIDE DEF new, m
    <3> QED
      BY <1>1, <3>1, <3>2, <3>3
  <2>4. CASE SetPrimary(d)
    BY <1>1, <2>4 DEF SetPrimary, Calls
  <2> QED
    BY <1>2, <2>1, <2>2, <2>3, <2>4 DEF CallerStep
<1>3. ASSUME \/ \E e \in Executors : PopMessageIn(e)
             \/ consume \/ ConsumeAnswer
             \/ \E e \in Executors, code \in Codes : execLambda(e, code)
      PROVE  call' = call /\ destroyed' = destroyed
  BY <1>3 DEF PopMessageIn, consume, ConsumeAnswer, execLambda
<1> QED
  BY <1>2, <1>3 DEF Work

-----------------------------------------------------------------------------
(***************************************************************************)
(* Every step of the client is one of MultiSpec, or leaves it alone.       *)
(***************************************************************************)
LEMMA SendRequestStep ==
  ASSUME IInv, ClientInv, SendRequest
  PROVE  [MultiNext]_multiVars /\ ClientInv'
<1>1. /\ main = "loop" /\ counter < NumRequests /\ AllOut /\ ~destroyed /\ counter \in Nat
      /\ UNCHANGED <<queues, counter>> /\ next' = 1
  BY DEF SendRequest, ClientInv, Idle
<1>2. CASE mode = "dag"
  <2>1. call' = call /\ main' = "callable"
    BY <1>2 DEF SendRequest
  <2> QED
    BY <1>1, <2>1, ClientFacts DEF ClientInv, AllOut, Idle, InDag, multiVars, queues
<1>3. CASE mode # "dag"
  <2> DEFINE request == [c \in Callers |-> Request(1)]
  <2>1. main' = "run" /\ RunLambda({Main}, request) /\ UNCHANGED completed
    BY <1>3 DEF SendRequest
  <2>2. request \in [Callers -> Requests]
    BY <1>1, ClientFacts DEF Request
  <2>3. Enter({Main}, request)
    BY <1>1, <2>1, ClientFacts DEF Enter, AllOut
  <2>4. \A f \in Functions : call'[f].at = "out"
    BY <1>1, <2>1, ClientFacts DEF RunLambda, AllOut
  <2>5. MultiNext
    BY <2>2, <2>3, ClientFacts DEF MultiNext
  <2>6. destroyed' = destroyed
    BY <1>1 DEF queues
  <2> QED
    BY <1>1, <2>1, <2>4, <2>5, <2>6, ClientFacts DEF ClientInv, Idle, InDag
<1> QED
  BY <1>2, <1>3

LEMMA RunReturnsStep ==
  ASSUME IInv, ClientInv, RunReturns
  PROVE  [MultiNext]_multiVars /\ ClientInv'
<1>1. /\ main = "run" /\ Returned(Main) /\ counter < NumRequests /\ counter \in Nat
      /\ next \in Functions /\ \A f \in Functions : call[f].at = "out"
      /\ UNCHANGED <<queues, counter>> /\ ~destroyed /\ call \in [Callers -> Calls]
  BY DEF RunReturns, ClientInv, IInv, MultiTypeOK
<1>2. destroyed' = destroyed
  BY <1>1 DEF queues
<1>3. CASE next' = next + 1 /\ next < Cardinality(Functions)
             /\ RunLambda({Main}, [c \in Callers |-> Request(next + 1)]) /\ main' = main
  <2> DEFINE request == [c \in Callers |-> Request(next + 1)]
  <2>1. next + 1 \in Functions
    BY <1>1, <1>3, ClientAssumption
  <2>2. request \in [Callers -> Requests]
    BY <1>1, <2>1, ClientFacts DEF Request
  <2>3. Enter({Main}, request)
    BY <1>1, <1>3, ClientFacts DEF Enter, Returned
  <2>4. MultiNext
    BY <2>2, <2>3, ClientFacts DEF MultiNext
  <2>5. \A f \in Functions : call'[f].at = "out"
    BY <1>1, <1>3, ClientFacts DEF RunLambda
  <2> QED
    BY <1>1, <1>2, <1>3, <2>1, <2>4, <2>5, ClientFacts DEF ClientInv, Idle, InDag
<1>4. CASE Leave(Main) /\ main' = "stat"
  <2>1. MultiNext
    BY <1>1, <1>4, ClientFacts DEF MultiNext, Exit
  <2>2. AllOut'
    BY <1>1, <1>4, ClientFacts DEF Leave, AllOut, NoCall, Call
  <2> QED
    BY <1>1, <1>2, <1>4, <2>1, <2>2, ClientFacts DEF ClientInv, Idle, InDag, AllOut
<1> QED
  BY <1>3, <1>4 DEF RunReturns

LEMMA CallFunctionsStep ==
  ASSUME IInv, ClientInv, CallFunctions
  PROVE  [MultiNext]_multiVars /\ ClientInv'
<1> DEFINE new == callable(completed) \ called
           request == [c \in Callers |-> IF c \in Functions THEN Request(c) ELSE Request(1)]
<1>1. /\ main = "callable" /\ counter < NumRequests /\ counter \in Nat
      /\ call[Main].at = "out" /\ \A f \in Functions \ called : call[f].at = "out"
      /\ UNCHANGED <<queues, counter, completed>> /\ ~destroyed
      /\ called' = called \cup new /\ main' = "dag"
  BY DEF CallFunctions, ClientInv, InDag
<1>2. new \in SUBSET Functions /\ (\A f \in new : f \notin called /\ ancestors[f] \subseteq completed)
  BY DEF callable
<1>3. RunLambda(new, [c \in Callers |-> Request(c)])
  BY DEF CallFunctions
<1> HIDE DEF new
<1>4. RunLambda(new, request)
  BY <1>2, <1>3, ClientFacts DEF RunLambda
<1>5. request \in [Callers -> Requests]
  BY <1>1, ClientFacts DEF Request
<1>6. Enter(new, request)
  BY <1>1, <1>2, <1>4 DEF Enter
<1>7. MultiNext
  BY <1>2, <1>5, <1>6, ClientFacts DEF MultiNext
<1>8. \A c \in Callers \ new : call'[c] = call[c]
  BY <1>4 DEF RunLambda
<1>9. Main \notin new /\ destroyed' = destroyed
  BY <1>1, <1>2, ClientFacts DEF queues
<1> QED
  BY <1>1, <1>2, <1>7, <1>8, <1>9, ClientFacts DEF ClientInv, Idle, InDag

LEMMA FunctionReturnsStep ==
  ASSUME IInv, ClientInv, NEW f \in Functions, FunctionReturns(f)
  PROVE  [MultiNext]_multiVars /\ ClientInv'
<1>1. /\ Returned(f) /\ Leave(f) /\ call \in [Callers -> Calls]
      /\ UNCHANGED <<queues, main, counter, next, called, completed>>
  BY DEF FunctionReturns, IInv, MultiTypeOK
<1>2. MultiNext
  BY <1>1, ClientFacts DEF MultiNext, Exit
<1>3. /\ \A c \in Callers : call[c].at = "out" => call'[c].at = "out"
      /\ \A c \in Callers : call'[c].at # "out" => call[c].at # "out"
      /\ destroyed' = destroyed
  BY <1>1 DEF Leave, NoCall, Call, queues
<1> QED
  BY <1>1, <1>2, <1>3, ClientFacts DEF ClientInv, AllOut

(* The steps of the client that do not concern the multi-client. *)
LEMMA OwnStep ==
  ASSUME IInv, ClientInv,
         \/ Start \/ Finish \/ Pause \/ Wake \/ StatPopped \/ QueueClosed
         \/ PopFunction \/ JoinFunctions \/ stop \/ StopReturns
         \/ \E cb \in callbacks : recordStat(cb) \/ NoCallback(cb)
  PROVE  [MultiNext]_multiVars /\ ClientInv'
<1>1. CASE Start \/ Wake
  BY <1>1 DEF Start, Wake, ClientInv, AllOut, Idle, InDag, multiVars
<1>2. CASE Finish \/ QueueClosed
  BY <1>2 DEF Finish, QueueClosed, finish, ClientInv, AllOut, Idle, InDag, multiVars
<1>3. CASE Pause
  BY <1>3 DEF Pause, unif_Pause, poisson_Pause, ipp_Pause, ClientInv, AllOut, Idle, InDag,
              multiVars
<1>4. CASE StatPopped
  <2>1. main' \in {"sleep", "loop"}
    BY <1>4 DEF StatPopped, unif_Sent, poisson_Sent, ipp_Sent
  <2> QED
    BY <1>4, <2>1 DEF StatPopped, ClientInv, AllOut, Idle, InDag, multiVars
<1>5. CASE PopFunction
  <2>1. /\ main = "dag" /\ main' \in InDag /\ completed \subseteq completed'
        /\ UNCHANGED <<multiVars, counter, next, called>>
    BY <1>5 DEF PopFunction, InDag
  <2> QED
    BY <2>1 DEF ClientInv, AllOut, Idle, InDag, multiVars
<1>6. CASE JoinFunctions
  <2>1. /\ main \in {"joined", "failed"} /\ main' \in {"ended", "stat"}
        /\ \A f \in called : call[f].at = "out"
        /\ UNCHANGED <<multiVars, counter, next, called, completed>>
    BY <1>6 DEF JoinFunctions, finish
  <2>2. AllOut
    BY <2>1, ClientFacts DEF ClientInv, InDag, AllOut
  <2>3. destroyed' = destroyed /\ call' = call
    BY <2>1 DEF multiVars
  <2> QED
    BY <2>1, <2>2, <2>3, ClientFacts DEF ClientInv, AllOut, Idle, InDag
<1>7. CASE stop \/ StopReturns \/ \E cb \in callbacks : recordStat(cb) \/ NoCallback(cb)
  <2>1. UNCHANGED <<multiVars, main, counter, next, called, completed>>
    BY <1>7 DEF stop, StopReturns, recordStat, NoCallback
  <2> QED
    BY <2>1 DEF ClientInv, AllOut, multiVars
<1> QED
  BY <1>1, <1>2, <1>3, <1>4, <1>5, <1>6, <1>7

LEMMA ClientNext ==
  ASSUME IInv, ClientInv, [Next]_vars
  PROVE  [MultiNext]_multiVars /\ ClientInv'
<1>1. CASE MainStep
  BY <1>1, SendRequestStep, RunReturnsStep, CallFunctionsStep, OwnStep DEF MainStep
<1>2. ASSUME NEW f \in Functions, FunctionReturns(f)
      PROVE  [MultiNext]_multiVars /\ ClientInv'
  BY <1>2, FunctionReturnsStep
<1>3. CASE Work /\ UNCHANGED clientVars
  <2>1. \A c \in Callers : (call'[c].at = "out" <=> call[c].at = "out")
    BY <1>3, WorkKeepsOut
  <2>2. destroyed' = destroyed
    BY <1>3, WorkKeepsOut, ClientFacts
  <2>3. MultiNext
    BY <1>3 DEF MultiNext
  <2> QED
    BY <1>3, <2>1, <2>2, <2>3, ClientFacts DEF ClientInv, AllOut, clientVars
<1>4. ASSUME NEW e \in Executors, NEW code \in Codes, Execute(e, code)
      PROVE  [MultiNext]_multiVars /\ ClientInv'
  <2>1. execLambda(e, code) /\ UNCHANGED <<main, counter, next, called, completed>>
    BY <1>4 DEF Execute
  <2>2. call' = call /\ destroyed' = destroyed
    BY <2>1 DEF execLambda
  <2>3. MultiNext
    BY <2>1 DEF MultiNext
  <2> QED
    BY <2>1, <2>2, <2>3 DEF ClientInv, AllOut
<1>5. CASE DestroyClient
  <2>1. MultiNext /\ call' = call /\ main = "ended"
    BY <1>5 DEF DestroyClient, Destroy, MultiNext
  <2>2. UNCHANGED <<main, counter, next, called, completed>>
    BY <1>5 DEF DestroyClient, clientVars
  <2> QED
    BY <2>1, <2>2 DEF ClientInv, AllOut
<1>6. CASE UNCHANGED vars
  BY <1>6 DEF vars, clientVars, multiVars, ClientInv, AllOut
<1>7. CASE stop \/ StopReturns \/ \E cb \in callbacks : recordStat(cb) \/ NoCallback(cb)
  BY <1>7, OwnStep
<1> QED
  BY <1>1, <1>2, <1>3, <1>4, <1>5, <1>6, <1>7 DEF Next, Step

LEMMA ClientInductive == Spec => [](IInv /\ ClientInv)
<1>1. Init => IInv /\ ClientInv
  BY InitClient, InitIInv
<1>2. IInv /\ ClientInv /\ [Next]_vars => IInv' /\ ClientInv'
  BY ClientNext, NextIInv
<1> QED
  BY <1>1, <1>2, PTL DEF Spec

(* The client, in each of its modes, with its DAG threads and its stop     *)
(* (client.cpp), calls RunLambda and the destructor of edgeclientmulti.cpp *)
(* only as MultiSpec allows: never after it was destroyed, and never from  *)
(* a thread that is already inside.                                        *)
THEOREM ClientImplementsMulti == Spec => MultiSpec
<1>1. Init => MultiInit
  BY InitClient
<1>2. IInv /\ ClientInv /\ [Next]_vars => [MultiNext]_multiVars
  BY ClientNext
<1> QED
  BY <1>1, <1>2, ClientInductive, PTL DEF Spec, MultiSpec

(* The threads of the client never use a request that was replaced and     *)
(* never get the answer to another one (RunLambda, consume and execLambda  *)
(* of edgeclientmulti.cpp).                                                *)
THEOREM ClientOwnAnswer == Spec => []OwnAnswer
  BY ClientImplementsMulti, MultiOwnAnswer, PTL

(* functionDag of client.cpp starts a function only after its ancestors,   *)
(* and the client never goes on, nor returns, while one of its threads is  *)
(* in RunLambda.                                                           *)
THEOREM ClientNoThreadLeft == Spec => []NoThreadLeft
<1>1. ClientInv => NoThreadLeft
  BY DEF ClientInv, NoThreadLeft, Idle, AllOut
<1> QED
  BY <1>1, ClientInductive, PTL
=============================================================================
