------------------------ MODULE EdgeComputer_proofs ------------------------
(***************************************************************************)
(* Proofs about EdgeComputer, for any number of threads and of requests    *)
(* and for both back-ends.  The inductive invariant IInv follows a task    *)
(* from realExecution to taskDone: its identifier is unique, it is in one  *)
(* place only, and a task that is not done yet has either a pending        *)
(* descriptor or a thread that is about to insert it.                      *)
(***************************************************************************)
EXTENDS EdgeComputer, TLAPS

(* A thread executes a request; one that has started a task knows its      *)
(* identifier, and its descriptor is there exactly if it sleeps on it.     *)
CallerOK ==
  \A c \in Callers :
    /\ caller[c].pc # "idle" => /\ caller[c].req \in Requests
                                /\ outcome[caller[c].req] = "running"
    /\ caller[c].pc \in {"insert", "blocked"} =>
         /\ caller[c].id \in TaskIds
         /\ taskRequest[caller[c].id] = caller[c].req
    /\ caller[c].pc = "insert" => caller[c].id \notin DOMAIN theDescriptors
    /\ caller[c].pc = "blocked" => caller[c].id \in DOMAIN theDescriptors
    /\ caller[c].pc = "callback" => answer[caller[c].req] = caller[c].req

(* No two threads execute the same request or wait for the same task.  *)
CallersDiffer ==
  \A c1, c2 \in Callers :
    c1 # c2 =>
      /\ caller[c1].pc # "idle" /\ caller[c2].pc # "idle"
           => caller[c1].req # caller[c2].req
      /\ caller[c1].pc \in {"insert", "blocked"}
         /\ caller[c2].pc \in {"insert", "blocked"}
           => caller[c1].id # caller[c2].id

Distinct(seq) == \A i, j \in 1..Len(seq) : seq[i] = seq[j] => i = j

(* A request waits in theAsyncQueue once.  *)
QueueOK ==
  /\ Distinct(theAsyncQueue)
  /\ \A r \in Range(theAsyncQueue) : outcome[r] = "queued"

(* A response that is stored is the one of the task's own request.  *)
ResponseOK ==
  \A i \in DOMAIN theDescriptors :
    theDescriptors[i].theDone => theDescriptors[i].theResponse = taskRequest[i]

(* A task is started once.  *)
TasksOK == Distinct(tasks) /\ Range(tasks) \subseteq TaskIds

InTaskDone(e) == executor[e].pc \in {"taskDone", "asleep"}

(* The task of an executor is in no other place.  *)
ExecutorOK ==
  \A e \in Executors :
    /\ ~InTaskDone(e) => executor[e].id = 0
    /\ InTaskDone(e) =>
         /\ executor[e].id \in TaskIds
         /\ executor[e].id \notin Range(tasks)
         /\ \A f \in Executors :
              f # e /\ InTaskDone(f) => executor[f].id # executor[e].id

(* The descriptor of task i is not there yet, and will be, or is pending.  *)
Expected(i) ==
  \/ i \in DOMAIN theDescriptors /\ ~theDescriptors[i].theDone
  \/ \E c \in Callers : caller[c].pc = "insert" /\ caller[c].id = i

TasksExpected == \A i \in Range(tasks) : Expected(i)

ExecutorsExpected ==
  \A e \in Executors : InTaskDone(e) => Expected(executor[e].id)

(* Only the threads of one back-end run, and the dispatcher is never asleep *)
(* with its descriptor in place.                                            *)
BackendOK ==
  /\ executor[Dispatcher].pc # "idle" => backend = "sim"
  /\ \A e \in HttpWorkers : executor[e].pc # "idle" => backend = "http"
  /\ executor[Dispatcher].pc = "asleep"
       => executor[Dispatcher].id \notin DOMAIN theDescriptors

IInv ==
  /\ TypeOK
  /\ CallerOK
  /\ CallersDiffer
  /\ QueueOK
  /\ ResponseOK
  /\ TasksOK
  /\ ExecutorOK
  /\ TasksExpected
  /\ ExecutorsExpected
  /\ BackendOK
  /\ ResponseMatches
  /\ ResponseComing
  /\ DescriptorOwned

-----------------------------------------------------------------------------
(* What the three updates of a sequence do to the set of its elements.  *)

(* Appending a new element.  *)
LEMMA AppendElements ==
  ASSUME NEW S, NEW s \in Seq(S), NEW x \in S
  PROVE  /\ Append(s, x) \in Seq(S)
         /\ Range(Append(s, x)) = Range(s) \cup {x}
         /\ Distinct(s) /\ x \notin Range(s) => Distinct(Append(s, x))
<1>1. /\ Append(s, x) \in Seq(S)
      /\ Len(Append(s, x)) = Len(s) + 1
      /\ \A i \in 1..Len(s) : Append(s, x)[i] = s[i]
      /\ Append(s, x)[Len(s) + 1] = x
  OBVIOUS
<1>2. Len(s) \in Nat
  OBVIOUS
<1>3. Range(Append(s, x)) = Range(s) \cup {x}
  <2>1. ASSUME NEW y \in Range(Append(s, x)) PROVE y \in Range(s) \cup {x}
    BY <1>1, <1>2 DEF Range
  <2>2. Range(s) \subseteq Range(Append(s, x))
    BY <1>1, <1>2 DEF Range
  <2>3. x \in Range(Append(s, x))
    BY <1>1, <1>2 DEF Range
  <2> QED BY <2>1, <2>2, <2>3
<1>4. Distinct(s) /\ x \notin Range(s) => Distinct(Append(s, x))
  BY <1>1, <1>2 DEF Distinct, Range
<1> QED BY <1>1, <1>3, <1>4

(* Sequence t is s without its i-th element.  *)
IsWithout(t, s, i) ==
  /\ Len(t) = Len(s) - 1
  /\ \A j \in 1..Len(t) : t[j] = IF j < i THEN s[j] ELSE s[j + 1]

(* Removing an element of a sequence without repetitions.  *)
LEMMA RemoveElement ==
  ASSUME NEW S, NEW s \in Seq(S), NEW i \in 1..Len(s), Distinct(s),
         NEW t \in Seq(S), IsWithout(t, s, i)
  PROVE  /\ s[i] \in Range(s)
         /\ Range(t) = Range(s) \ {s[i]}
         /\ Distinct(t)
<1> USE DEF IsWithout
<1> DEFINE old(j) == IF j < i THEN j ELSE j + 1
<1>1. Len(s) \in Nat /\ Len(s) >= 1
  OBVIOUS
<1>2. \A j \in 1..Len(t) : /\ old(j) \in 1..Len(s)
                           /\ old(j) # i
                           /\ t[j] = s[old(j)]
  BY <1>1
<1>3. \A k \in 1..Len(s) : k # i => \E j \in 1..Len(t) : k = old(j)
  <2> SUFFICES ASSUME NEW k \in 1..Len(s), k # i
               PROVE  \E j \in 1..Len(t) : k = old(j)
    OBVIOUS
  <2>1. CASE k < i
    <3>1. k \in 1..Len(t) /\ k = old(k)
      BY <2>1, <1>1
    <3> QED BY <3>1
  <2>2. CASE k > i
    <3>1. k - 1 \in 1..Len(t) /\ k = old(k - 1)
      BY <2>2, <1>1
    <3> QED BY <3>1
  <2> QED BY <2>1, <2>2, <1>1
<1>4. s[i] \in Range(s)
  BY DEF Range
<1>5. Range(t) = Range(s) \ {s[i]}
  <2>1. ASSUME NEW y \in Range(t) PROVE y \in Range(s) \ {s[i]}
    <3>1. PICK j \in 1..Len(t) : y = t[j]
      BY DEF Range
    <3>2. y = s[old(j)] /\ old(j) \in 1..Len(s) /\ old(j) # i
      BY <3>1, <1>2
    <3> HIDE DEF old
    <3> QED BY <3>2 DEF Range, Distinct
  <2>2. ASSUME NEW y \in Range(s), y # s[i] PROVE y \in Range(t)
    <3>1. PICK k \in 1..Len(s) : y = s[k]
      BY DEF Range
    <3>2. PICK j \in 1..Len(t) : k = old(j)
      BY <3>1, <2>2, <1>3
    <3>3. y = t[j]
      BY <3>1, <3>2, <1>2
    <3> QED BY <3>3 DEF Range
  <2> QED BY <2>1, <2>2
<1>6. Distinct(t)
  <2> SUFFICES ASSUME NEW j \in 1..Len(t), NEW k \in 1..Len(t), t[j] = t[k]
               PROVE  j = k
    BY DEF Distinct
  <2>1. old(j) = old(k)
    BY <1>2 DEF Distinct
  <2> QED BY <2>1, <1>1
<1> QED BY <1>4, <1>5, <1>6

(* Taking the first element.  *)
LEMMA TailElements ==
  ASSUME NEW S, NEW s \in Seq(S), s # <<>>, Distinct(s)
  PROVE  /\ Tail(s) \in Seq(S)
         /\ Head(s) \in Range(s)
         /\ Head(s) \in S
         /\ Range(Tail(s)) = Range(s) \ {Head(s)}
         /\ Distinct(Tail(s))
<1> DEFINE one == 1
           t == Tail(s)
<1>1. /\ one \in 1..Len(s)
      /\ Head(s) = s[one]
      /\ Head(s) \in S
  OBVIOUS
<1>2. t \in Seq(S) /\ IsWithout(t, s, one)
  BY DEF IsWithout
<1> HIDE DEF one, t
<1>3. /\ s[one] \in Range(s)
      /\ Range(t) = Range(s) \ {s[one]}
      /\ Distinct(t)
  BY <1>1, <1>2, RemoveElement
<1> QED BY <1>1, <1>2, <1>3 DEF t

-----------------------------------------------------------------------------
(* Each action preserves IInv.  *)

(* process() of a synchronous request.  *)
LEMMA ProcessSyncPreserves ==
  ASSUME IInv, NEW h \in Handlers, NEW r \in Requests, ProcessSync(h, r)
  PROVE  IInv'
<1> USE DEF IInv, ProcessSync, backendVars
<1>1. h \in Callers
  BY DEF Callers
<1>2. TypeOK'
  BY <1>1 DEF TypeOK, TaskIds, Outcomes, CallerStates
<1>3. CallerOK' /\ CallersDiffer'
  BY <1>1 DEF TypeOK, CallerOK, CallersDiffer, TaskIds
<1>4. QueueOK' /\ ResponseMatches'
  BY DEF TypeOK, QueueOK, ResponseMatches
<1>5. \A i : Expected(i) => Expected(i)'
  BY <1>1 DEF TypeOK, Expected
<1>6. TasksExpected' /\ ExecutorsExpected'
  BY <1>5 DEF TasksExpected, ExecutorsExpected, InTaskDone
<1>7. ResponseComing'
  BY <1>1 DEF TypeOK, ResponseComing
<1>8. DescriptorOwned'
  BY <1>1 DEF TypeOK, DescriptorOwned, TaskIds
<1>9. ResponseOK' /\ TasksOK' /\ ExecutorOK' /\ BackendOK'
  BY DEF ResponseOK, TasksOK, TaskIds, ExecutorOK, InTaskDone, BackendOK
<1> QED BY <1>2, <1>3, <1>4, <1>6, <1>7, <1>8, <1>9

(* process() of an asynchronous request: it was not in the queue.  *)
LEMMA ProcessAsyncPreserves ==
  ASSUME IInv, NEW h \in Handlers, NEW r \in Requests, ProcessAsync(h, r)
  PROVE  IInv'
<1> USE DEF IInv, ProcessAsync, backendVars
<1>1. r \notin Range(theAsyncQueue)
  BY DEF QueueOK
<1>2. PICK o \in {"error", "queued"} : outcome' = [outcome EXCEPT ![r] = o]
  OBVIOUS
<1>3. /\ theAsyncQueue' \in Seq(Requests)
      /\ Distinct(theAsyncQueue')
      /\ \A x \in Range(theAsyncQueue') :
           \/ x \in Range(theAsyncQueue)
           \/ x = r /\ outcome'[r] = "queued"
  <2>1. CASE AsyncWorkers = {}
    BY <2>1 DEF TypeOK, QueueOK
  <2>2. CASE AsyncWorkers # {}
    <3>1. /\ theAsyncQueue \in Seq(Requests) /\ Distinct(theAsyncQueue)
          /\ theAsyncQueue' = Append(theAsyncQueue, r)
          /\ outcome' = [outcome EXCEPT ![r] = "queued"]
      BY <2>2 DEF TypeOK, QueueOK
    <3>2. outcome'[r] = "queued"
      BY <3>1 DEF TypeOK
    <3> QED BY <1>1, <3>1, <3>2, AppendElements
  <2> QED BY <2>1, <2>2
<1>4. TypeOK' /\ QueueOK'
  BY <1>1, <1>2, <1>3 DEF TypeOK, TaskIds, Outcomes, QueueOK
<1>5. CallerOK' /\ ResponseMatches'
  BY <1>2 DEF TypeOK, CallerOK, TaskIds, ResponseMatches
<1>6. DescriptorOwned'
  BY <1>2 DEF TypeOK, DescriptorOwned, TaskIds
<1>7. CallersDiffer' /\ ResponseOK' /\ TasksOK' /\ ExecutorOK' /\ BackendOK'
  BY DEF CallersDiffer, ResponseOK, TasksOK, TaskIds, ExecutorOK, InTaskDone,
         BackendOK
<1>8. TasksExpected' /\ ExecutorsExpected' /\ ResponseComing'
  BY DEF TasksExpected, ExecutorsExpected, InTaskDone, Expected,
         ResponseComing
<1> QED BY <1>4, <1>5, <1>6, <1>7, <1>8

(* AsyncWorker takes a request that nobody else executes.  *)
LEMMA PopRequestPreserves ==
  ASSUME IInv, NEW w \in AsyncWorkers, PopRequest(w)
  PROVE  IInv'
<1> DEFINE r == Head(theAsyncQueue)
<1> USE DEF IInv, PopRequest, backendVars
<1>1. w \in Callers
  BY DEF Callers
<1>2. /\ r \in Requests
      /\ outcome[r] = "queued"
      /\ Tail(theAsyncQueue) \in Seq(Requests)
      /\ Range(Tail(theAsyncQueue)) = Range(theAsyncQueue) \ {r}
      /\ Distinct(Tail(theAsyncQueue))
  BY TailElements DEF TypeOK, QueueOK
<1>3. /\ caller' = [caller EXCEPT ![w] =
                      [pc |-> "submit", req |-> r, id |-> 0]]
      /\ outcome' = [outcome EXCEPT ![r] = "running"]
      /\ theAsyncQueue' = Tail(theAsyncQueue)
      /\ caller[w].pc = "idle"
      /\ UNCHANGED <<backend, theNextId, tasks, taskRequest, computerMutex,
                     theDescriptors, executor, answer>>
  OBVIOUS
<1> HIDE DEF r, PopRequest
<1>4. TypeOK'
  BY <1>1, <1>2, <1>3 DEF TypeOK, TaskIds, Outcomes, CallerStates
<1>5. CallerOK' /\ CallersDiffer'
  BY <1>1, <1>2, <1>3 DEF TypeOK, CallerOK, CallersDiffer, TaskIds
<1>6. QueueOK'
  <2>1. \A x \in Range(theAsyncQueue) : x \in Requests
    BY DEF TypeOK, Range
  <2> QED BY <1>2, <1>3, <2>1 DEF TypeOK, QueueOK
<1>7. ResponseMatches'
  BY <1>2, <1>3 DEF TypeOK, ResponseMatches
<1>8. \A i : Expected(i) => Expected(i)'
  BY <1>1, <1>3 DEF TypeOK, Expected
<1>9. TasksExpected' /\ ExecutorsExpected'
  BY <1>3, <1>8 DEF TasksExpected, ExecutorsExpected, InTaskDone
<1>10. ResponseComing'
  BY <1>1, <1>3 DEF TypeOK, ResponseComing
<1>11. DescriptorOwned'
  BY <1>1, <1>2, <1>3 DEF TypeOK, DescriptorOwned, TaskIds
<1>12. ResponseOK' /\ TasksOK' /\ ExecutorOK' /\ BackendOK'
  BY <1>3 DEF ResponseOK, TasksOK, TaskIds, ExecutorOK, InTaskDone, BackendOK
<1> QED BY <1>4, <1>5, <1>6, <1>7, <1>9, <1>10, <1>11, <1>12

(* realExecution: the new task has an identifier nobody has.  *)
LEMMA RealExecutionPreserves ==
  ASSUME IInv, NEW c \in Callers, RealExecution(c)
  PROVE  IInv'
<1> USE DEF IInv, RealExecution
<1>1. caller[c].req \in Requests
  BY DEF CallerOK
<1>2. /\ theNextId \in Nat \ {0}
      /\ theNextId \notin TaskIds
      /\ TaskIds' = TaskIds \cup {theNextId}
      /\ theNextId' \in Nat \ {0}
  BY DEF TypeOK, TaskIds
<1>3. /\ tasks' \in Seq(Nat \ {0})
      /\ Range(tasks') = Range(tasks) \cup {theNextId}
      /\ Distinct(tasks')
  <2>1. theNextId \notin Range(tasks)
    BY <1>2 DEF TasksOK
  <2> QED BY <1>2, <2>1, AppendElements DEF TypeOK, TasksOK
<1>4. /\ taskRequest' \in Seq(Requests)
      /\ Len(taskRequest') = theNextId' - 1
      /\ taskRequest'[theNextId] = caller[c].req
      /\ \A i \in TaskIds : taskRequest'[i] = taskRequest[i]
  BY <1>1, <1>2 DEF TypeOK, TaskIds
<1>5. /\ caller' \in [Callers -> CallerStates]
      /\ caller'[c].pc = "insert"
      /\ caller'[c].id = theNextId
      /\ caller'[c].req = caller[c].req
      /\ \A x \in Callers : x # c => caller'[x] = caller[x]
  BY <1>2 DEF TypeOK, CallerStates
<1>6. TypeOK'
  BY <1>2, <1>3, <1>4, <1>5 DEF TypeOK
<1>7. CallerOK'
  <2> SUFFICES ASSUME NEW x \in Callers PROVE CallerOK!(x)'
    BY DEF CallerOK
  <2>1. CASE x = c
    BY <1>1, <1>2, <1>4, <1>5, <2>1 DEF TypeOK, CallerOK
  <2>2. CASE x # c
    <3>1. caller'[x] = caller[x]
      BY <1>5, <2>2
    <3>2. UNCHANGED <<outcome, theDescriptors, answer>>
      OBVIOUS
    <3> HIDE DEF RealExecution
    <3> QED BY <1>2, <1>4, <3>1, <3>2 DEF CallerOK
  <2> QED BY <2>1, <2>2
<1>8. CallersDiffer'
  BY <1>2, <1>5 DEF TypeOK, CallerOK, CallersDiffer
<1>9. ResponseOK' /\ TasksOK' /\ ExecutorOK'
  <2>1. ResponseOK'
    BY <1>4 DEF TypeOK, ResponseOK
  <2>2. TasksOK'
    BY <1>2, <1>3 DEF TasksOK
  <2>3. ExecutorOK'
    BY <1>2, <1>3 DEF ExecutorOK, InTaskDone
  <2> QED BY <2>1, <2>2, <2>3
<1>10. \A i : i = theNextId \/ Expected(i) => Expected(i)'
  BY <1>5 DEF Expected
<1>11. TasksExpected' /\ ExecutorsExpected'
  BY <1>3, <1>10 DEF TasksExpected, ExecutorsExpected, InTaskDone
<1>12. ResponseComing'
  BY <1>3, <1>5 DEF ResponseComing
<1>13. DescriptorOwned'
  BY <1>4, <1>5 DEF TypeOK, DescriptorOwned
<1>14. QueueOK' /\ BackendOK' /\ ResponseMatches'
  BY DEF QueueOK, BackendOK, ResponseMatches
<1> QED BY <1>6, <1>7, <1>8, <1>9, <1>11, <1>12, <1>13, <1>14

(* A thread is done with its request: it has failed, or the callback       *)
(* server has received the response.                                       *)
LEMMA RequestEndsPreserves ==
  ASSUME IInv, NEW c \in Callers, NEW o \in {"error", "dropped", "calledback"},
         caller[c].pc \in {"submit", "blocked", "callback"},
         caller[c].pc = "blocked" => theDescriptors[caller[c].id].theDone,
         o = "calledback" => caller[c].pc = "callback",
         caller' = [caller EXCEPT ![c] = Idle],
         outcome' = [outcome EXCEPT ![caller[c].req] = o],
         UNCHANGED <<backendVars, theDescriptors, theAsyncQueue, executor,
                     answer>>
  PROVE  IInv'
<1> DEFINE r == caller[c].req
<1> USE DEF IInv, backendVars
<1>1. r \in Requests /\ outcome[r] = "running"
  BY DEF CallerOK
<1>2. /\ caller' \in [Callers -> CallerStates]
      /\ caller'[c].pc = "idle"
      /\ \A x \in Callers : x # c => caller'[x] = caller[x]
  BY DEF TypeOK, Idle, CallerStates
<1>3. /\ outcome' \in [Requests -> Outcomes]
      /\ outcome'[r] = o
      /\ \A q \in Requests : q # r => outcome'[q] = outcome[q]
  BY <1>1 DEF TypeOK, Outcomes
<1>4. TypeOK'
  BY <1>2, <1>3 DEF TypeOK, TaskIds
<1>5. CallerOK' /\ CallersDiffer'
  BY <1>1, <1>2, <1>3 DEF CallerOK, CallersDiffer, TaskIds
<1>6. QueueOK'
  <2>1. Range(theAsyncQueue) \subseteq Requests
    BY DEF TypeOK, Range
  <2>2. r \notin Range(theAsyncQueue)
    BY <1>1 DEF QueueOK
  <2> QED BY <1>3, <2>1, <2>2 DEF QueueOK
<1>7. \A i : Expected(i) => Expected(i)'
  BY <1>2 DEF Expected
<1>8. TasksExpected' /\ ExecutorsExpected'
  BY <1>7 DEF TasksExpected, ExecutorsExpected, InTaskDone
<1>9. ResponseMatches'
  BY <1>1, <1>3 DEF ResponseMatches, CallerOK
<1>10. ResponseComing'
  BY <1>2 DEF ResponseComing
<1>11. DescriptorOwned'
  <2> SUFFICES ASSUME NEW i \in DOMAIN theDescriptors,
                      ~\E x \in Callers : /\ caller'[x].pc = "blocked"
                                          /\ caller'[x].id = i
               PROVE  /\ theDescriptors[i].theDone
                      /\ outcome'[taskRequest[i]] \in {"error", "dropped"}
    BY DEF DescriptorOwned
  <2>1. taskRequest[i] \in Requests
    BY DEF TypeOK, TaskIds
  <2>2. CASE caller[c].pc = "blocked" /\ caller[c].id = i
    BY <1>3, <2>2 DEF CallerOK
  <2>3. CASE ~(caller[c].pc = "blocked" /\ caller[c].id = i)
    BY <1>1, <1>2, <1>3, <2>1, <2>3 DEF DescriptorOwned
  <2> QED BY <2>2, <2>3
<1>12. ResponseOK' /\ TasksOK' /\ ExecutorOK' /\ BackendOK'
  BY DEF ResponseOK, TasksOK, TaskIds, ExecutorOK, InTaskDone, BackendOK
<1> QED BY <1>4, <1>5, <1>6, <1>8, <1>9, <1>10, <1>11, <1>12

(* blockingExecution inserts a descriptor that was not there; if the      *)
(* dispatcher sleeps it is the only one that does, and is woken up.        *)
LEMMA InsertDescriptorPreserves ==
  ASSUME IInv, NEW c \in Callers, InsertDescriptor(c)
  PROVE  IInv'
<1> DEFINE id == caller[c].id
           new == [theDone |-> FALSE, theResponse |-> None]
<1> USE DEF IInv
<1>1. /\ caller[c].pc = "insert"
      /\ id \in TaskIds
      /\ id \notin DOMAIN theDescriptors
  BY DEF InsertDescriptor, CallerOK
<1>2. /\ DOMAIN theDescriptors' = DOMAIN theDescriptors \cup {id}
      /\ theDescriptors'[id] = new
      /\ \A i \in DOMAIN theDescriptors :
           theDescriptors'[i] = theDescriptors[i]
  BY <1>1 DEF InsertDescriptor
<1>3. /\ caller' \in [Callers -> CallerStates]
      /\ caller'[c].pc = "blocked"
      /\ caller'[c].id = id
      /\ caller'[c].req = caller[c].req
      /\ \A x \in Callers : x # c => caller'[x] = caller[x]
  BY DEF InsertDescriptor, TypeOK, CallerStates
<1>4. /\ executor' \in [Executors -> ExecutorStates]
      /\ \A e \in Executors :
           /\ executor'[e].id = executor[e].id
           /\ \/ executor'[e].pc = executor[e].pc
              \/ executor[e].pc = "asleep" /\ executor'[e].pc = "taskDone"
      /\ \A e \in Executors :
           executor[e].pc = "asleep" =>
             \E f \in Executors : /\ executor[f].pc = "asleep"
                                  /\ executor'[f].pc = "taskDone"
  <2>1. CASE Asleep = {} /\ UNCHANGED executor
    BY <2>1 DEF Asleep, TypeOK
  <2>2. ASSUME NEW f \in Asleep,
               executor' = [executor EXCEPT ![f].pc = "taskDone"]
        PROVE  <1>4!:
    BY <2>2 DEF Asleep, TypeOK, ExecutorStates
  <2> QED BY <2>1, <2>2 DEF InsertDescriptor, NotifyOneExecutor
<1>5. UNCHANGED <<backend, theNextId, tasks, taskRequest, computerMutex,
                  theAsyncQueue, outcome, answer>>
  BY DEF InsertDescriptor, backendVars
<1> HIDE DEF id
<1>6. TypeOK'
  <2>1. new \in [theDone : BOOLEAN, theResponse : Requests \cup {None}]
    OBVIOUS
  <2> HIDE DEF new
  <2>2. \A i \in DOMAIN theDescriptors' :
          theDescriptors'[i] \in [theDone : BOOLEAN,
                                  theResponse : Requests \cup {None}]
    BY <1>2, <2>1 DEF TypeOK
  <2> QED BY <1>1, <1>2, <1>3, <1>4, <1>5, <2>2 DEF TypeOK, TaskIds
<1>7. CallerOK' /\ CallersDiffer'
  BY <1>1, <1>2, <1>3, <1>5 DEF CallerOK, CallersDiffer, TaskIds, id
<1>8. ResponseOK'
  BY <1>2, <1>5 DEF ResponseOK
<1>9. \A e \in Executors : InTaskDone(e)' <=> InTaskDone(e)
  BY <1>4 DEF InTaskDone
<1>10. ExecutorOK'
  BY <1>4, <1>5, <1>9 DEF ExecutorOK, TaskIds
<1>11. \A i : Expected(i) => Expected(i)'
  BY <1>2, <1>3 DEF Expected, id
<1>12. TasksExpected' /\ ExecutorsExpected'
  BY <1>4, <1>5, <1>9, <1>11 DEF TasksExpected, ExecutorsExpected
<1>13. BackendOK'
  <2>1. Dispatcher \in Executors /\ HttpWorkers \subseteq Executors
    BY DEF Executors
  <2>2. executor[Dispatcher].pc = "asleep" =>
          executor'[Dispatcher].pc = "taskDone"
    BY <1>4, <2>1 DEF BackendOK, Executors
  <2> QED BY <1>4, <1>5, <2>1, <2>2 DEF BackendOK
<1>14. ResponseComing'
  BY <1>1, <1>2, <1>3, <1>4, <1>5 DEF ResponseComing, id
<1>15. DescriptorOwned'
  BY <1>1, <1>2, <1>3, <1>5 DEF DescriptorOwned
<1>16. QueueOK' /\ TasksOK' /\ ResponseMatches'
  BY <1>5 DEF QueueOK, TasksOK, TaskIds, ResponseMatches
<1> QED BY <1>6, <1>7, <1>8, <1>10, <1>12, <1>13, <1>14, <1>15, <1>16

(* blockingExecution erases a descriptor nobody else needs.  *)
LEMMA CollectResponsePreserves ==
  ASSUME IInv, NEW c \in Callers, CollectResponse(c)
  PROVE  IInv'
<1> DEFINE id == caller[c].id
           r == caller[c].req
<1> USE DEF IInv
<1>1. /\ caller[c].pc = "blocked"
      /\ id \in DOMAIN theDescriptors
      /\ theDescriptors[id].theDone
      /\ theDescriptors[id].theResponse = r
      /\ r \in Requests
      /\ outcome[r] = "running"
  BY DEF CollectResponse, CallerOK, ResponseOK
<1>2. /\ DOMAIN theDescriptors' = DOMAIN theDescriptors \ {id}
      /\ \A i \in DOMAIN theDescriptors' :
           theDescriptors'[i] = theDescriptors[i]
  BY DEF CollectResponse, WithoutDescriptor
<1>3. /\ answer' \in [Requests -> Requests \cup {None}]
      /\ answer'[r] = r
      /\ \A q \in Requests : q # r => answer'[q] = answer[q]
  BY <1>1 DEF CollectResponse, TypeOK
<1>4. /\ caller' \in [Callers -> CallerStates]
      /\ \/ caller'[c].pc = "idle" /\ outcome' = [outcome EXCEPT ![r] = "ok"]
         \/ /\ caller'[c].pc = "callback" /\ caller'[c].req = r
            /\ outcome' = outcome
      /\ \A x \in Callers : x # c => caller'[x] = caller[x]
  <2>1. CASE c \in Handlers
    <3>1. /\ caller' = [caller EXCEPT ![c] = Idle]
          /\ outcome' = [outcome EXCEPT ![r] = "ok"]
      BY <2>1 DEF CollectResponse
    <3> QED BY <3>1 DEF TypeOK, Idle, CallerStates
  <2>2. CASE c \notin Handlers
    <3>1. caller' = [caller EXCEPT ![c].pc = "callback"] /\ outcome' = outcome
      BY <2>2 DEF CollectResponse
    <3> QED BY <3>1 DEF TypeOK, CallerStates
  <2> QED BY <2>1, <2>2
<1>5. UNCHANGED <<backend, theNextId, tasks, taskRequest, computerMutex,
                  theAsyncQueue, executor>>
  BY DEF CollectResponse, backendVars
<1>6. /\ outcome' \in [Requests -> Outcomes]
      /\ outcome'[r] \in {"running", "ok"}
      /\ caller'[c].pc # "idle" => outcome'[r] = "running"
      /\ \A q \in Requests : q # r => outcome'[q] = outcome[q]
  <2>1. CASE caller'[c].pc = "idle" /\ outcome' = [outcome EXCEPT ![r] = "ok"]
    BY <1>1, <2>1 DEF TypeOK, Outcomes
  <2>2. CASE outcome' = outcome
    BY <1>1, <2>2 DEF TypeOK
  <2> QED BY <1>4, <2>1, <2>2
<1>7. TypeOK'
  BY <1>2, <1>3, <1>4, <1>5, <1>6 DEF TypeOK, TaskIds
<1>8. CallerOK' /\ CallersDiffer'
  <2>1. CallerOK'
    <3> SUFFICES ASSUME NEW x \in Callers PROVE CallerOK!(x)'
      BY DEF CallerOK
    <3>1. CASE x = c
      BY <1>1, <1>3, <1>4, <1>6, <3>1
    <3>2. CASE x # c
      BY <1>1, <1>2, <1>3, <1>4, <1>5, <1>6, <3>2
         DEF CallerOK, CallersDiffer, TaskIds
    <3> QED BY <3>1, <3>2
  <2>2. CallersDiffer'
    BY <1>1, <1>4 DEF CallersDiffer
  <2> QED BY <2>1, <2>2
<1>9. QueueOK'
  <2>1. Range(theAsyncQueue) \subseteq Requests
    BY DEF TypeOK, Range
  <2>2. r \notin Range(theAsyncQueue)
    BY <1>1 DEF QueueOK
  <2> QED BY <1>5, <1>6, <2>1, <2>2 DEF QueueOK
<1>10. \A i : Expected(i) => Expected(i)'
  BY <1>1, <1>2, <1>4 DEF Expected
<1>11. TasksExpected' /\ ExecutorsExpected'
  BY <1>5, <1>10 DEF TasksExpected, ExecutorsExpected, InTaskDone
<1>12. ResponseOK' /\ BackendOK'
  BY <1>2, <1>5 DEF ResponseOK, BackendOK
<1>13. ResponseMatches'
  BY <1>3, <1>6 DEF ResponseMatches
<1>14. ResponseComing'
  BY <1>1, <1>2, <1>4, <1>5 DEF ResponseComing, CallersDiffer
<1>15. DescriptorOwned'
  <2> SUFFICES ASSUME NEW i \in DOMAIN theDescriptors'
               PROVE  DescriptorOwned!(i)'
    BY DEF DescriptorOwned
  <2>1. taskRequest[i] \in Requests
    BY <1>2 DEF TypeOK, TaskIds
  <2> QED BY <1>1, <1>2, <1>4, <1>5, <1>6, <2>1 DEF DescriptorOwned
<1>16. TasksOK' /\ ExecutorOK'
  BY <1>5 DEF TasksOK, TaskIds, ExecutorOK, InTaskDone
<1> QED BY <1>7, <1>8, <1>9, <1>11, <1>12, <1>13, <1>14, <1>15, <1>16

(* A thread of the back-end takes a task and enters taskDone.  *)
LEMMA DeliverPreserves ==
  ASSUME IInv, NEW e \in Executors, NEW i \in 1..Len(tasks), Deliver(e, i),
         executor[e].pc \in {"idle", "locked"},
         e = Dispatcher => backend = "sim",
         e \in HttpWorkers => backend = "http",
         UNCHANGED <<backend, theNextId, taskRequest, computerMutex,
                     theDescriptors, theAsyncQueue, caller, outcome, answer>>
  PROVE  IInv'
<1> DEFINE id == tasks[i]
<1> USE DEF IInv
<1>1. /\ tasks' \in Seq(Nat \ {0})
      /\ id \in Range(tasks)
      /\ Range(tasks') = Range(tasks) \ {id}
      /\ Distinct(tasks')
  <2> DEFINE S == Nat \ {0}
  <2>1. tasks \in Seq(S) /\ Distinct(tasks) /\ Len(tasks) \in Nat
    BY DEF TypeOK, TasksOK
  <2>2. tasks' \in Seq(S) /\ IsWithout(tasks', tasks, i)
    BY <2>1 DEF Deliver, IsWithout
  <2>3. tasks' \in Seq(Nat \ {0})
    BY <2>2
  <2> HIDE DEF S
  <2> QED BY <2>1, <2>2, <2>3, RemoveElement
<1>2. id \in TaskIds /\ id \in Nat \ {0}
  BY <1>1 DEF TasksOK, TypeOK, TaskIds
<1>3. /\ executor' \in [Executors -> ExecutorStates]
      /\ executor'[e].pc = "taskDone" /\ executor'[e].id = id
      /\ \A f \in Executors : f # e => executor'[f] = executor[f]
  BY <1>2 DEF Deliver, TypeOK, ExecutorStates
<1> HIDE DEF id
<1>4. executor[e].id = 0
  BY DEF ExecutorOK, InTaskDone
<1>5. TypeOK'
  BY <1>1, <1>3 DEF TypeOK, TaskIds
<1>6. TasksOK'
  BY <1>1 DEF TasksOK, TaskIds
<1>7. ExecutorOK'
  <2>1. \A f \in Executors : f # e /\ InTaskDone(f) => executor[f].id # id
    BY <1>1 DEF ExecutorOK
  <2> SUFFICES ASSUME NEW f \in Executors PROVE ExecutorOK!(f)'
    BY DEF ExecutorOK
  <2>2. CASE f = e
    BY <1>1, <1>2, <1>3, <2>1, <2>2 DEF InTaskDone, TaskIds
  <2>3. CASE f # e
    BY <1>1, <1>3, <2>1, <2>3 DEF ExecutorOK, InTaskDone, TaskIds
  <2> QED BY <2>2, <2>3
<1>8. \A k : Expected(k) => Expected(k)'
  BY DEF Expected
<1>9. TasksExpected'
  BY <1>1, <1>8 DEF TasksExpected
<1>10. ExecutorsExpected'
  <2> SUFFICES ASSUME NEW f \in Executors, InTaskDone(f)'
               PROVE  Expected(executor[f].id)'
    BY DEF ExecutorsExpected
  <2>1. CASE f = e
    BY <1>1, <1>3, <1>8, <2>1 DEF TasksExpected
  <2>2. CASE f # e
    BY <1>3, <1>8, <2>2 DEF ExecutorsExpected, InTaskDone
  <2> QED BY <2>1, <2>2
<1>11. BackendOK'
  BY <1>3, EdgeComputerAssumption DEF BackendOK, Executors
<1>12. ResponseComing'
  <2> SUFFICES ASSUME NEW c \in Callers,
                      caller[c].pc \in {"insert", "blocked"}
               PROVE  ResponseComing!(c)'
    BY DEF ResponseComing
  <2>1. caller[c].id # 0
    BY DEF CallerOK, TaskIds, TypeOK
  <2> QED BY <1>1, <1>3, <1>4, <2>1 DEF ResponseComing
<1>13. CallerOK' /\ CallersDiffer' /\ QueueOK' /\ ResponseOK'
  BY DEF CallerOK, CallersDiffer, QueueOK, ResponseOK, TaskIds
<1>14. ResponseMatches' /\ DescriptorOwned'
  BY DEF ResponseMatches, DescriptorOwned
<1> QED BY <1>5, <1>6, <1>7, <1>9, <1>10, <1>11, <1>12, <1>13, <1>14

(* The dispatcher locks or releases Computer::theMutex.  *)
LEMMA DispatcherMutexPreserves ==
  ASSUME IInv, DispatcherLock \/ DispatcherUnlock
  PROVE  IInv'
<1> USE DEF IInv
<1>1. /\ executor[Dispatcher].pc \in {"idle", "locked"}
      /\ backend = "sim"
      /\ computerMutex' \in {None, Dispatcher}
      /\ UNCHANGED <<backend, theNextId, tasks, taskRequest, theDescriptors,
                     theAsyncQueue, caller, outcome, answer>>
  BY DEF DispatcherLock, DispatcherUnlock, BackendOK
<1>2. /\ executor' \in [Executors -> ExecutorStates]
      /\ executor'[Dispatcher].pc \in {"idle", "locked"}
      /\ \A e \in Executors : executor'[e].id = executor[e].id
      /\ \A e \in Executors : e # Dispatcher => executor'[e] = executor[e]
  BY DEF DispatcherLock, DispatcherUnlock, Executors, TypeOK, ExecutorStates
<1>3. TypeOK'
  BY <1>1, <1>2 DEF TypeOK, TaskIds
<1>4. \A e \in Executors : InTaskDone(e)' <=> InTaskDone(e)
  BY <1>1, <1>2 DEF InTaskDone
<1>5. ExecutorOK'
  BY <1>1, <1>2, <1>4 DEF ExecutorOK, TaskIds
<1>6. \A i : Expected(i) => Expected(i)'
  BY <1>1 DEF Expected
<1>7. TasksExpected' /\ ExecutorsExpected'
  BY <1>1, <1>2, <1>4, <1>6 DEF TasksExpected, ExecutorsExpected
<1>8. BackendOK'
  BY <1>1, <1>2, EdgeComputerAssumption DEF BackendOK, Executors
<1>9. ResponseComing'
  BY <1>1, <1>2 DEF ResponseComing
<1>10. /\ CallerOK' /\ CallersDiffer' /\ QueueOK' /\ ResponseOK' /\ TasksOK'
       /\ ResponseMatches' /\ DescriptorOwned'
  BY <1>1 DEF CallerOK, CallersDiffer, QueueOK, ResponseOK, TasksOK, TaskIds,
              ResponseMatches, DescriptorOwned
<1> QED BY <1>3, <1>5, <1>7, <1>8, <1>9, <1>10

(* taskDone stores the response; no other place has the same task.  *)
LEMMA TaskDonePreserves ==
  ASSUME IInv, NEW e \in Executors, TaskDone(e)
  PROVE  IInv'
<1> DEFINE id == executor[e].id
<1> USE DEF IInv
<1>1. /\ InTaskDone(e)
      /\ id \in DOMAIN theDescriptors
      /\ id \in TaskIds
      /\ id \notin Range(tasks)
      /\ taskRequest[id] \in Requests
  BY DEF TaskDone, InTaskDone, ExecutorOK, TypeOK, TaskIds
<1>2. /\ DOMAIN theDescriptors' = DOMAIN theDescriptors
      /\ theDescriptors'[id].theDone = TRUE
      /\ theDescriptors'[id].theResponse = taskRequest[id]
      /\ theDescriptors'[id] \in [theDone : BOOLEAN,
                                  theResponse : Requests \cup {None}]
      /\ \A i \in DOMAIN theDescriptors :
           i # id => theDescriptors'[i] = theDescriptors[i]
  BY <1>1 DEF TaskDone
<1>3. /\ executor' \in [Executors -> ExecutorStates]
      /\ executor'[e].id = 0
      /\ executor'[e].pc = IF e = Dispatcher THEN "locked" ELSE "idle"
      /\ \A f \in Executors : f # e => executor'[f] = executor[f]
  BY DEF TaskDone, TypeOK, ExecutorStates
<1>4. UNCHANGED <<backend, theNextId, tasks, taskRequest, computerMutex,
                  theAsyncQueue, caller, outcome, answer>>
  BY DEF TaskDone, backendVars
<1>5. TypeOK'
  BY <1>2, <1>3, <1>4 DEF TypeOK, TaskIds
<1>6. CallerOK' /\ ResponseOK'
  BY <1>2, <1>4 DEF CallerOK, ResponseOK, TaskIds
<1>7. ExecutorOK'
  BY <1>3, <1>4 DEF ExecutorOK, InTaskDone, TaskIds
<1>8. \A i : i # id /\ Expected(i) => Expected(i)'
  BY <1>2, <1>4 DEF Expected
<1>9. TasksExpected'
  BY <1>1, <1>4, <1>8 DEF TasksExpected
<1>10. ExecutorsExpected'
  <2> SUFFICES ASSUME NEW f \in Executors, InTaskDone(f)'
               PROVE  Expected(executor[f].id)'
    BY DEF ExecutorsExpected
  <2>1. f # e
    BY <1>3 DEF InTaskDone
  <2>2. executor'[f] = executor[f] /\ InTaskDone(f)
    BY <1>3, <2>1 DEF InTaskDone
  <2>3. executor[f].id # id
    BY <1>1, <2>1, <2>2 DEF ExecutorOK
  <2>4. Expected(executor[f].id)
    BY <2>2 DEF ExecutorsExpected
  <2> QED BY <1>2, <1>4, <2>2, <2>3, <2>4 DEF Expected
<1>11. BackendOK'
  BY <1>1, <1>2, <1>3, <1>4, EdgeComputerAssumption
     DEF BackendOK, Executors, InTaskDone
<1>12. ResponseComing'
  <2> SUFFICES ASSUME NEW c \in Callers,
                      caller[c].pc \in {"insert", "blocked"}
               PROVE  ResponseComing!(c)'
    BY <1>4 DEF ResponseComing
  <2> QED BY <1>1, <1>2, <1>3, <1>4 DEF ResponseComing
<1>13. DescriptorOwned'
  BY <1>2, <1>4 DEF DescriptorOwned
<1>14. CallersDiffer' /\ QueueOK' /\ TasksOK' /\ ResponseMatches'
  BY <1>4 DEF CallersDiffer, QueueOK, TasksOK, TaskIds, ResponseMatches
<1> QED BY <1>5, <1>6, <1>7, <1>9, <1>10, <1>11, <1>12, <1>13, <1>14

(* taskDone goes to sleep: the descriptor is not there.  *)
LEMMA TaskDoneWaitsPreserves ==
  ASSUME IInv, NEW e \in Executors, TaskDoneWaits(e)
  PROVE  IInv'
<1> USE DEF IInv
<1>1. /\ executor[e].pc = "taskDone"
      /\ executor[e].id \notin DOMAIN theDescriptors
      /\ UNCHANGED <<backend, theNextId, tasks, taskRequest, computerMutex,
                     theDescriptors, theAsyncQueue, caller, outcome, answer>>
  BY DEF TaskDoneWaits, backendVars
<1>2. /\ executor' \in [Executors -> ExecutorStates]
      /\ executor'[e].pc = "asleep"
      /\ \A f \in Executors : executor'[f].id = executor[f].id
      /\ \A f \in Executors : f # e => executor'[f].pc = executor[f].pc
  BY DEF TaskDoneWaits, TypeOK, ExecutorStates
<1>3. TypeOK'
  BY <1>1, <1>2 DEF TypeOK, TaskIds
<1>4. \A f \in Executors : InTaskDone(f)' <=> InTaskDone(f)
  BY <1>1, <1>2 DEF InTaskDone
<1>5. ExecutorOK'
  BY <1>1, <1>2, <1>4 DEF ExecutorOK, TaskIds
<1>6. \A i : Expected(i) => Expected(i)'
  BY <1>1 DEF Expected
<1>7. TasksExpected' /\ ExecutorsExpected'
  BY <1>1, <1>2, <1>4, <1>6 DEF TasksExpected, ExecutorsExpected
<1>8. BackendOK'
  BY <1>1, <1>2 DEF BackendOK, Executors
<1>9. ResponseComing'
  BY <1>1, <1>2 DEF ResponseComing
<1>10. /\ CallerOK' /\ CallersDiffer' /\ QueueOK' /\ ResponseOK' /\ TasksOK'
       /\ ResponseMatches' /\ DescriptorOwned'
  BY <1>1 DEF CallerOK, CallersDiffer, QueueOK, ResponseOK, TasksOK, TaskIds,
              ResponseMatches, DescriptorOwned
<1> QED BY <1>3, <1>5, <1>7, <1>8, <1>9, <1>10

-----------------------------------------------------------------------------
(* The invariant holds initially ...  *)
LEMMA InitIInv == Init => IInv
<1> SUFFICES ASSUME Init PROVE IInv
  OBVIOUS
<1> USE DEF Init, Idle
<1>1. TypeOK
  BY DEF TypeOK, TaskIds, Outcomes, CallerStates, ExecutorStates
<1>2. Range(tasks) = {} /\ Range(theAsyncQueue) = {}
  BY DEF Range
<1>3. \A e \in Executors : ~InTaskDone(e)
  BY DEF InTaskDone
<1>4. QueueOK /\ TasksOK /\ ExecutorOK
  BY <1>2, <1>3 DEF QueueOK, TasksOK, ExecutorOK, Distinct
<1>5. TasksExpected /\ ExecutorsExpected
  BY <1>2, <1>3 DEF TasksExpected, ExecutorsExpected
<1>6. CallerOK /\ CallersDiffer /\ ResponseOK
  BY DEF CallerOK, CallersDiffer, ResponseOK
<1>7. BackendOK
  BY DEF BackendOK, Executors
<1>8. ResponseMatches /\ ResponseComing /\ DescriptorOwned
  BY DEF ResponseMatches, ResponseComing, DescriptorOwned
<1> QED BY <1>1, <1>4, <1>5, <1>6, <1>7, <1>8 DEF IInv

(* ... every step preserves it ...  *)
LEMMA NextIInv == IInv /\ [Next]_vars => IInv'
<1> SUFFICES ASSUME IInv, [Next]_vars PROVE IInv'
  OBVIOUS
<1>1. ASSUME UNCHANGED vars PROVE IInv'
  BY <1>1 DEF vars, IInv, TypeOK, TaskIds, CallerOK, CallersDiffer, QueueOK,
              ResponseOK, TasksOK, ExecutorOK, InTaskDone, TasksExpected,
              ExecutorsExpected, Expected, BackendOK, ResponseMatches,
              ResponseComing, DescriptorOwned
<1>2. ASSUME NEW h \in Handlers, NEW r \in Requests,
             ProcessSync(h, r) \/ ProcessAsync(h, r)
      PROVE  IInv'
  BY <1>2, ProcessSyncPreserves, ProcessAsyncPreserves
<1>3. ASSUME NEW c \in Callers, CallerStep(c)
      PROVE  IInv'
  <2>1. CASE RealExecution(c)
    BY <2>1, RealExecutionPreserves
  <2>2. CASE RealExecutionThrows(c)
    BY <2>2, RequestEndsPreserves DEF RealExecutionThrows, Fail, Failure
  <2>3. CASE InsertDescriptor(c)
    BY <2>3, InsertDescriptorPreserves
  <2>4. CASE CollectResponse(c)
    BY <2>4, CollectResponsePreserves
  <2>5. CASE RemoteStatesThrow(c)
    BY <2>5, RequestEndsPreserves DEF RemoteStatesThrow, Fail, Failure
  <2> QED BY <1>3, <2>1, <2>2, <2>3, <2>4, <2>5 DEF CallerStep
<1>4. ASSUME NEW w \in AsyncWorkers, WorkerStep(w)
      PROVE  IInv'
  <2>1. w \in Callers
    BY DEF Callers
  <2>2. CASE PopRequest(w)
    BY <2>2, PopRequestPreserves
  <2>3. CASE SendCallback(w)
    BY <2>1, <2>3, RequestEndsPreserves DEF SendCallback
  <2>4. CASE CallbackThrows(w)
    BY <2>1, <2>4, RequestEndsPreserves DEF CallbackThrows, Fail, Failure
  <2> QED BY <1>4, <2>2, <2>3, <2>4 DEF WorkerStep
<1>5. ASSUME DispatcherStep PROVE IInv'
  <2>1. CASE DispatcherLock \/ DispatcherUnlock
    BY <2>1, DispatcherMutexPreserves
  <2>2. CASE DispatchCompletedTask
    <3>1. Dispatcher \in Executors /\ Dispatcher \notin HttpWorkers
      BY EdgeComputerAssumption DEF Executors
    <3>2. backend = "sim"
      BY <2>2 DEF DispatchCompletedTask, IInv, BackendOK
    <3> QED BY <2>2, <3>1, <3>2, DeliverPreserves DEF DispatchCompletedTask
  <2> QED BY <1>5, <2>1, <2>2 DEF DispatcherStep
<1>6. ASSUME NEW e \in HttpWorkers, HttpWorkerPop(e) PROVE IInv'
  <2>1. e \in Executors /\ e # Dispatcher
    BY EdgeComputerAssumption DEF Executors
  <2>2. 1 \in 1..Len(tasks)
    BY <1>6 DEF HttpWorkerPop, IInv, TypeOK
  <2> QED BY <1>6, <2>1, <2>2, DeliverPreserves DEF HttpWorkerPop
<1>7. ASSUME NEW e \in Executors, TaskDoneStep(e) PROVE IInv'
  BY <1>7, TaskDonePreserves, TaskDoneWaitsPreserves DEF TaskDoneStep
<1>8. ASSUME AllAnswered PROVE IInv'
  BY <1>1, <1>8 DEF AllAnswered
<1> QED BY <1>1, <1>2, <1>3, <1>4, <1>5, <1>6, <1>7, <1>8 DEF Next

(* ... and therefore it always holds.  *)
LEMMA SpecIInv == Spec => []IInv
BY InitIInv, NextIInv, PTL DEF Spec

(* Type correctness of an edge computer.  *)
THEOREM EdgeComputerTypeOK == Spec => []TypeOK
<1>1. IInv => TypeOK
  BY DEF IInv
<1> QED BY <1>1, SpecIInv, PTL

(* A request that is answered is answered with the response of its own     *)
(* task, whatever the order in which the back-end completes the tasks.     *)
THEOREM EdgeComputerResponseMatches == Spec => []ResponseMatches
<1>1. IInv => ResponseMatches
  BY DEF IInv
<1> QED BY <1>1, SpecIInv, PTL

(* The task of a thread that waits in blockingExecution is never lost.  *)
THEOREM EdgeComputerResponseComing == Spec => []ResponseComing
<1>1. IInv => ResponseComing
  BY DEF IInv
<1> QED BY <1>1, SpecIInv, PTL

(* No descriptor is left over but those of requests that failed.  *)
THEOREM EdgeComputerDescriptorOwned == Spec => []DescriptorOwned
<1>1. IInv => DescriptorOwned
  BY DEF IInv
<1> QED BY <1>1, SpecIInv, PTL

(* The dispatcher that sleeps in taskDone with Computer::theMutex locked   *)
(* waits for a thread that does not need the mutex: the task it has is     *)
(* expected, and its descriptor is not there.                              *)
THEOREM EdgeComputerDispatcherSleepIsShort == Spec => []DispatcherSleepIsShort
<1>1. IInv => DispatcherSleepIsShort
  <2> SUFFICES ASSUME IInv, executor[Dispatcher].pc = "asleep"
               PROVE  \E c \in Callers :
                        /\ caller[c].pc = "insert"
                        /\ caller[c].id = executor[Dispatcher].id
    BY DEF DispatcherSleepIsShort
  <2>1. Dispatcher \in Executors
    BY DEF Executors
  <2>2. Expected(executor[Dispatcher].id)
    BY <2>1 DEF IInv, ExecutorsExpected, InTaskDone
  <2>3. executor[Dispatcher].id \notin DOMAIN theDescriptors
    BY DEF IInv, BackendOK
  <2> QED BY <2>2, <2>3 DEF Expected
<1> QED BY <1>1, SpecIInv, PTL
=============================================================================
