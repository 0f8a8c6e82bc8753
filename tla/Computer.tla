------------------------------ MODULE Computer ------------------------------
(***************************************************************************)
(* Computer, Container and Processor: the simulated computer behind        *)
(* EdgeComputerSim.  Tasks run in containers, one per lambda function,     *)
(* that share the memory and the cores of their processor.  addTask and    *)
(* the dispatcher run with theMutex locked; a pass of the dispatcher is    *)
(* split in steps, during which addTask cannot run, because it calls back  *)
(* for every task that is complete.                                        *)
(***************************************************************************)
EXTENDS Container, FiniteSets, FiniteSetsExt

CONSTANTS
  NumContainers,  \* containers are numbered as in the order of theContainers
  Processors,
  NumWorkers,     \* theNumWorkers of every container
  MemTotal,       \* theMemTotal of every processor
  Cores,          \* theCores of every processor
  Requirements,   \* what lambda requests ask for: [theMemory, theOperations]
  MaxTasks,       \* bound: tasks added
  MaxElapsed      \* bound: time units between two readings of theChrono

Containers == 1..NumContainers

ASSUME ComputerAssumption ==
  /\ NumContainers \in Nat \ {0}
  /\ NumWorkers \in Nat \ {0}
  /\ MemTotal \in Nat \ {0}
  /\ Cores \in Nat \ {0}
  /\ Requirements \subseteq [theMemory : Nat, theOperations : Nat]
  /\ MaxTasks \in Nat /\ MaxElapsed \in Nat

VARIABLES
  host,        \* host[c]: the processor of container c
  theActive,   \* theActive[c]: active tasks of container c
  thePending,  \* thePending[c]: pending tasks of container c
  theMemUsed,  \* memory in use on each processor
  theRunning,  \* tasks running on each processor
  theChrono,   \* is the virtual clock running?
  theNewTask,  \* was a task added since the dispatcher last woke up?
  theNextId,   \* identifier of the next task
  cursor,      \* container the dispatcher is at, 0 when it is waiting
  called,      \* tasks for which theCallback was called
  refused,     \* tasks whose addTask threw
  left         \* left[i]: operations task i has still to run (history)

vars == <<host, theActive, thePending, theMemUsed, theRunning, theChrono,
          theNewTask, theNextId, cursor, called, refused, left>>

(* addProcessor and addContainer: the configuration, made before the first *)
(* task is added.                                                          *)
Init ==
  /\ host \in [Containers -> Processors]
  /\ theActive = [c \in Containers |-> <<>>]
  /\ thePending = [c \in Containers |-> <<>>]
  /\ theMemUsed = [p \in Processors |-> 0]
  /\ theRunning = [p \in Processors |-> 0]
  /\ theChrono = FALSE
  /\ theNewTask = FALSE
  /\ theNextId = 0
  /\ cursor = 0
  /\ called = {}
  /\ refused = {}
  /\ left = <<>>

-----------------------------------------------------------------------------
(* Processor::timeToOps: the cores are shared among the running tasks and  *)
(* the result is rounded.                                                  *)
TimeToOps(p, time) ==
  LET r == theRunning[p] IN
  IF r = 0 THEN 0 ELSE (2 * time * Min({Cores, r}) + r) \div (2 * r)

(* pause(): the active lists after the time elapsed is accounted for.  *)
Elapsed == IF theChrono THEN 0..MaxElapsed ELSE {0}

Paused(time) ==
  IF ~theChrono THEN theActive
  ELSE [c \in Containers |-> Advance(theActive[c], TimeToOps(host[c], time))]

LeftAfter(time) ==
  [i \in DOMAIN left |->
     IF ~theChrono \/ ~\E c \in Containers, k \in 1..MaxTasks :
          k <= Len(theActive[c]) /\ theActive[c][k].theId = i
     THEN left[i]
     ELSE LET c == CHOOSE c \in Containers :
                     \E k \in 1..Len(theActive[c]) : theActive[c][k].theId = i
          IN left[i] - Done(theActive[c], TimeToOps(host[c], time))]

SomeActive(active) == \E c \in Containers : active[c] # <<>>

(* Mutant: the memory in use is not taken into account.  *)
MemAlwaysAvailable(used) == MemTotal

MemAvailable(used) == MemTotal - used

(* Container::push of a task the processor can hold.  *)
Push(c, task, active) ==
  LET p == host[c] IN
  IF Len(active[c]) = NumWorkers \/ MemAvailable(theMemUsed[p]) < task.theMemory
  THEN /\ thePending' = [thePending EXCEPT ![c] = Append(@, task)]
       /\ theActive' = active
       /\ UNCHANGED <<theMemUsed, theRunning>>
  ELSE /\ theActive' = [active EXCEPT ![c] = MakeActive(@, task)]
       /\ theMemUsed' = [theMemUsed EXCEPT ![p] = @ + task.theMemory]
       /\ theRunning' = [theRunning EXCEPT ![p] = @ + 1]
       /\ UNCHANGED thePending

(* addTask: the clock is paused, the task is pushed, the clock resumes.  *)
AddTask(c, q, time) ==
  LET task == [theId |-> theNextId, theMemory |-> q.theMemory,
               theResidualOps |-> q.theOperations] IN
  /\ cursor = 0
  /\ theNextId < MaxTasks
  /\ q.theMemory <= MemTotal
  /\ Push(c, task, Paused(time))
  /\ left' = [i \in DOMAIN left \cup {theNextId} |->
                IF i = theNextId THEN q.theOperations ELSE LeftAfter(time)[i]]
  /\ theNextId' = theNextId + 1
  /\ theNewTask' = TRUE
  /\ theChrono' = SomeActive(theActive')
  /\ UNCHANGED <<host, cursor, called, refused>>

(* addTask of a request that needs more memory than the processor has:     *)
(* push throws after the clock was paused, and it is not resumed.          *)
AddTaskThrows(c, q, time) ==
  /\ cursor = 0
  /\ theNextId < MaxTasks
  /\ q.theMemory > MemTotal
  /\ theActive' = Paused(time)
  /\ left' = LeftAfter(time)
  /\ theNextId' = theNextId + 1
  /\ refused' = refused \cup {theNextId}
  /\ theChrono' = FALSE
  /\ UNCHANGED <<host, thePending, theMemUsed, theRunning, theNewTask, cursor,
                 called>>

-----------------------------------------------------------------------------
SomeReady == \E c \in Containers : Ready(theActive[c])

(* The wait lasts as long as the nearest task needs: unless the clock is   *)
(* stopped, by then some operations have been run.                         *)
TimedOut(time) ==
  theChrono => \E c \in Containers :
                 Done(theActive[c], TimeToOps(host[c], time)) > 0

(* dispatcher(): the wait ends, and the time elapsed is accounted for.     *)
DispatcherWake(time) ==
  /\ cursor = 0
  /\ theNewTask \/ SomeReady \/ TimedOut(time)
  /\ SomeActive(theActive)
  /\ theNewTask' = FALSE
  /\ theActive' = Paused(time)
  /\ left' = LeftAfter(time)
  /\ theChrono' = FALSE
  /\ cursor' = 1
  /\ UNCHANGED <<host, thePending, theMemUsed, theRunning, theNextId, called,
                 refused>>

(* Mutant: the memory of the pending tasks is not allocated.  *)
RefillUnallocated(c, active, used, running) ==
  LET after[k \in 0..Len(thePending[c])] ==
        IF k = 0 THEN [active |-> active, used |-> used, running |-> running]
        ELSE [after[k - 1] EXCEPT !.active = MakeActive(@, thePending[c][k]),
                                  !.running = @ + 1]
  IN after

(* State of container c and of its processor after the first k pending     *)
(* tasks are made active.                                                  *)
Refill(c, active, used, running) ==
  LET after[k \in 0..Len(thePending[c])] ==
        IF k = 0 THEN [active |-> active, used |-> used, running |-> running]
        ELSE LET task == thePending[c][k] IN
             [active  |-> MakeActive(after[k - 1].active, task),
              used    |-> after[k - 1].used + task.theMemory,
              running |-> after[k - 1].running + 1]
  IN after

(* Mutant: pending tasks are left alone.  *)
StopsAtOnce(c, state, k) == TRUE

(* pop() goes through the pending tasks in order, and stops at the first   *)
(* one that has no worker or not enough memory.                            *)
Stops(c, state, k) ==
  \/ k = Len(thePending[c])
  \/ Len(state.active) = NumWorkers
  \/ MemAvailable(state.used) < thePending[c][k + 1].theMemory

(* Mutant: one pending task too many is erased.  *)
StillPendingButOne(c, k) == SubSeq(thePending[c], k + 2, Len(thePending[c]))

(* The pending tasks after the first k were erased.  *)
StillPending(c, k) == SubSeq(thePending[c], k + 1, Len(thePending[c]))

(* dispatchCompletedTasks: pop() of a task with nothing left to run, its   *)
(* memory is freed, pending tasks take its place, theCallback is called.   *)
Pop(c) ==
  LET p     == host[c]
      task  == Head(theActive[c])
      after == Refill(c, Tail(theActive[c]), theMemUsed[p] - task.theMemory,
                      theRunning[p] - 1)
      k     == CHOOSE i \in 0..Len(thePending[c]) :
                 /\ Stops(c, after[i], i)
                 /\ \A j \in 0..i - 1 : ~Stops(c, after[j], j)
  IN
  /\ cursor = c
  /\ Ready(theActive[c])
  /\ theActive' = [theActive EXCEPT ![c] = after[k].active]
  /\ thePending' = [thePending EXCEPT ![c] = StillPending(c, k)]
  /\ theMemUsed' = [theMemUsed EXCEPT ![p] = after[k].used]
  /\ theRunning' = [theRunning EXCEPT ![p] = after[k].running]
  /\ called' = called \cup {task.theId}
  /\ UNCHANGED <<host, theChrono, theNewTask, theNextId, cursor, refused,
                 left>>

NextContainer(c) ==
  /\ cursor = c
  /\ ~Ready(theActive[c])
  /\ c < NumContainers
  /\ cursor' = c + 1
  /\ UNCHANGED <<host, theActive, thePending, theMemUsed, theRunning,
                 theChrono, theNewTask, theNextId, called, refused, left>>

(* The pass is over: resume() and wait again.  *)
DispatcherWait ==
  /\ cursor = NumContainers
  /\ ~Ready(theActive[NumContainers])
  /\ theChrono' = SomeActive(theActive)
  /\ cursor' = 0
  /\ UNCHANGED <<host, theActive, thePending, theMemUsed, theRunning,
                 theNewTask, theNextId, called, refused, left>>

(* No more tasks: the dispatcher only wakes up to find nothing to do.  *)
NothingToDo ==
  /\ theNextId = MaxTasks
  /\ cursor = 0
  /\ ~SomeActive(theActive)
  /\ UNCHANGED vars

-----------------------------------------------------------------------------
DispatcherPass ==
  \/ \E c \in Containers : Pop(c) \/ NextContainer(c)
  \/ DispatcherWait

Next ==
  \/ \E c \in Containers, q \in Requirements, time \in Elapsed :
       AddTask(c, q, time) \/ AddTaskThrows(c, q, time)
  \/ \E time \in Elapsed : DispatcherWake(time)
  \/ DispatcherPass
  \/ NothingToDo

(* The dispatcher thread is scheduled, and its timed waits end.  *)
Fairness ==
  /\ WF_vars(DispatcherPass)
  /\ WF_vars(\E time \in Elapsed : DispatcherWake(time))

Spec == Init /\ [][Next]_vars

FairSpec == Spec /\ Fairness

-----------------------------------------------------------------------------
Tasks == [theId : 0..MaxTasks - 1, theMemory : 0..MemTotal,
          theResidualOps : Nat]

TypeOK ==
  /\ host \in [Containers -> Processors]
  /\ theActive \in [Containers -> Seq(Tasks)]
  /\ thePending \in [Containers -> Seq(Tasks)]
  /\ theMemUsed \in [Processors -> 0..MemTotal]
  /\ theRunning \in [Processors -> 0..MaxTasks]
  /\ theChrono \in BOOLEAN /\ theNewTask \in BOOLEAN
  /\ theNextId \in 0..MaxTasks
  /\ cursor \in 0..NumContainers
  /\ called \subseteq 0..MaxTasks - 1
  /\ refused \subseteq 0..MaxTasks - 1
  /\ left \in [DOMAIN left -> Nat]

SumMemory(tasks) == Total([k \in 1..Len(tasks) |-> tasks[k].theMemory])

HostedBy(p) == {c \in Containers : host[c] = p}

(* The total over the containers of processor p.  *)
TotalOf(p, values) ==
  Total([c \in Containers |-> IF c \in HostedBy(p) THEN values[c] ELSE 0])

(* The processors' counters are the totals over the active tasks of all    *)
(* the containers they host, and no processor is ever overcommitted.       *)
MemoryAccounting ==
  \A p \in Processors :
    /\ theMemUsed[p] <= MemTotal
    /\ theMemUsed[p] = TotalOf(p, [c \in Containers |-> SumMemory(theActive[c])])
    /\ theRunning[p] = TotalOf(p, [c \in Containers |-> Len(theActive[c])])

(* The list of differences is right: the operations up to a task are those *)
(* the task has still to run, after any sequence of insertions, advances   *)
(* of the clock and completions, and none are left when it is called back. *)
ResidualExact ==
  /\ \A c \in Containers : \A k \in 1..Len(theActive[c]) :
       OpsUpTo(theActive[c])[k] = left[theActive[c][k].theId]
  /\ \A i \in called : left[i] = 0

Places(lists, i) ==
  {p \in Containers \X (1..MaxTasks) :
     p[2] <= Len(lists[p[1]]) /\ lists[p[1]][p[2]].theId = i}

(* A task is in one place: refused, called back, active or pending.  *)
TaskConserved ==
  \A i \in 0..theNextId - 1 :
    Cardinality(Places(theActive, i)) + Cardinality(Places(thePending, i))
      + Cardinality({i} \cap called) + Cardinality({i} \cap refused) = 1

Alone(c) == HostedBy(host[c]) = {c}

(* Every pending task of a container that has the processor for itself is  *)
(* eventually called back: its own pop() always serves the pending ones,   *)
(* also when the clock was left stopped by an addTask that threw.          *)
TasksComplete ==
  \A i \in 0..MaxTasks - 1 :
    (\E c \in Containers :
        Alone(c) /\ \E k \in 1..Len(thePending[c]) : thePending[c][k].theId = i)
      ~> i \in called

(* container.h: execution "is postponed until a worker is available": a    *)
(* task that is pending is started sooner or later.                        *)
PendingIsServed ==
  \A i \in 0..MaxTasks - 1 :
    (\E c \in Containers, k \in 1..MaxTasks :
        k <= Len(thePending[c]) /\ thePending[c][k].theId = i)
      ~> i \in called
=============================================================================
