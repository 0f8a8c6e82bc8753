----------------------------- MODULE ClientPool -----------------------------
(***************************************************************************)
(* EdgeClientPool: the clients a router keeps towards each destination,    *)
(* shared by the threads that forward lambda requests.  All accesses to    *)
(* the pool are made with theMutex locked, hence each critical section is  *)
(* one action; the call made on the client in between is not protected.    *)
(***************************************************************************)
EXTENDS Naturals, Sequences, FiniteSets

CONSTANTS
  Threads,       \* threads that call the pool
  Destinations,  \* end-points of the edge computers
  NoDestination, \* not an end-point: the thread is making no call
  MaxClients,    \* theMaxClients: clients per destination, 0 is unlimited
  MaxCalls,      \* bound: calls made to the pool in a behaviour
  MaxFailures    \* bound: calls that end with an exception

ASSUME ClientPoolAssumption ==
  /\ IsFiniteSet(Threads)
  /\ NoDestination \notin Destinations
  /\ MaxClients \in Nat
  /\ MaxCalls \in Nat
  /\ MaxFailures \in Nat

VARIABLES
  theFree,   \* theFree[d]: list of the idle clients of d
  theBusy,   \* theBusy[d]: number of clients of d counted as in use
  created,   \* created[d]: clients made so far for d, also gives their names
  pc,        \* where each thread is in operator()
  dest,      \* dest[t]: destination of the call t is making
  held,      \* held[t]: the client t is using (its name), 0 if none
  lost,      \* lost[d]: calls to d that ended with an exception
  calls      \* calls made so far

vars == <<theFree, theBusy, created, pc, dest, held, lost, calls>>

PcValues == {"idle", "get", "wait", "run", "release"}

Init ==
  /\ theFree = [d \in Destinations |-> <<>>]
  /\ theBusy = [d \in Destinations |-> 0]
  /\ created = [d \in Destinations |-> 0]
  /\ pc = [t \in Threads |-> "idle"]
  /\ dest = [t \in Threads |-> NoDestination]
  /\ held = [t \in Threads |-> 0]
  /\ lost = [d \in Destinations |-> 0]
  /\ calls = 0

(* The threads that are at a given point of a call to d.  *)
At(label, d) == {t \in Threads : pc[t] = label /\ dest[t] = d}

(* A thread enters operator(): it will look for a client of d.  *)
Call(t, d) ==
  /\ pc[t] = "idle"
  /\ calls < MaxCalls
  /\ calls' = calls + 1
  /\ pc' = [pc EXCEPT ![t] = "get"]
  /\ dest' = [dest EXCEPT ![t] = d]
  /\ UNCHANGED <<theFree, theBusy, created, held, lost>>

(* Mutant: one client too many.  *)
AvailableOffByOne(d) ==
  MaxClients = 0 \/ theFree[d] # <<>> \/ theBusy[d] <= MaxClients

(* The predicate the threads wait for on theAvailableCond.  *)
Available(d) ==
  \/ MaxClients = 0
  \/ theFree[d] # <<>>
  \/ theBusy[d] < MaxClients

(* getClient when the predicate is false: the thread goes to sleep.  *)
Sleep(t) ==
  /\ pc[t] = "get"
  /\ ~Available(dest[t])
  /\ pc' = [pc EXCEPT ![t] = "wait"]
  /\ UNCHANGED <<theFree, theBusy, created, dest, held, lost, calls>>

(* A condition variable may also wake up without a notification.  *)
SpuriousWakeUp(t) ==
  /\ pc[t] = "wait"
  /\ pc' = [pc EXCEPT ![t] = "get"]
  /\ UNCHANGED <<theFree, theBusy, created, dest, held, lost, calls>>

(* getClient makes a client if there is no idle one ...  *)
MakeClient(t, d) ==
  /\ theFree[d] = <<>>
  /\ created' = [created EXCEPT ![d] = @ + 1]
  /\ held' = [held EXCEPT ![t] = created[d] + 1]
  /\ UNCHANGED theFree

(* Mutant: the client taken is left in the list.  *)
ReuseClientKeepsIt(t, d) ==
  /\ theFree[d] # <<>>
  /\ held' = [held EXCEPT ![t] = Head(theFree[d])]
  /\ UNCHANGED <<theFree, created>>

(* ... and otherwise takes the one at the front of the list.  *)
ReuseClient(t, d) ==
  /\ theFree[d] # <<>>
  /\ held' = [held EXCEPT ![t] = Head(theFree[d])]
  /\ theFree' = [theFree EXCEPT ![d] = Tail(@)]
  /\ UNCHANGED created

GetClient(t) ==
  LET d == dest[t] IN
  /\ pc[t] = "get"
  /\ Available(d)
  /\ MakeClient(t, d) \/ ReuseClient(t, d)
  /\ theBusy' = [theBusy EXCEPT ![d] = @ + 1]
  /\ pc' = [pc EXCEPT ![t] = "run"]
  /\ UNCHANGED <<dest, lost, calls>>

(* The client's RunLambda returns a response, whatever its return code.  *)
RunLambda(t) ==
  /\ pc[t] = "run"
  /\ pc' = [pc EXCEPT ![t] = "release"]
  /\ UNCHANGED <<theFree, theBusy, created, dest, held, lost, calls>>

(* The client's RunLambda throws: operator() is left through the exception, *)
(* which destroys the client and skips releaseClient.                       *)
RunLambdaThrows(t) ==
  /\ pc[t] = "run"
  /\ lost[dest[t]] < MaxFailures
  /\ lost' = [lost EXCEPT ![dest[t]] = @ + 1]
  /\ held' = [held EXCEPT ![t] = 0]
  /\ pc' = [pc EXCEPT ![t] = "idle"]
  /\ dest' = [dest EXCEPT ![t] = NoDestination]
  /\ UNCHANGED <<theFree, theBusy, created, calls>>

(* Mutant: the notification is forgotten.  *)
LeaveSilently(t, d) == pc' = [pc EXCEPT ![t] = "idle"]

(* theAvailableCond.notify_one(): one of the sleeping threads, if any.  *)
LeaveAndNotifyOne(t, d) ==
  \/ /\ At("wait", d) = {}
     /\ pc' = [pc EXCEPT ![t] = "idle"]
  \/ \E w \in At("wait", d) : pc' = [pc EXCEPT ![t] = "idle", ![w] = "get"]

ReleaseClient(t) ==
  LET d == dest[t] IN
  /\ pc[t] = "release"
  /\ theFree' = [theFree EXCEPT ![d] = Append(@, held[t])]
  /\ theBusy' = [theBusy EXCEPT ![d] = @ - 1]
  /\ held' = [held EXCEPT ![t] = 0]
  /\ dest' = [dest EXCEPT ![t] = NoDestination]
  /\ LeaveAndNotifyOne(t, d)
  /\ UNCHANGED <<created, lost, calls>>

(* All the calls of the behaviour have been made and have ended.  *)
Finished ==
  /\ calls = MaxCalls
  /\ \A t \in Threads : pc[t] = "idle"
  /\ UNCHANGED vars

ThreadStep(t) ==
  \/ Sleep(t)
  \/ GetClient(t)
  \/ RunLambda(t)
  \/ RunLambdaThrows(t)
  \/ ReleaseClient(t)

Next ==
  \/ \E t \in Threads :
       \/ \E d \in Destinations : Call(t, d)
       \/ SpuriousWakeUp(t)
       \/ ThreadStep(t)
  \/ Finished

(* Every thread that can run does so, and every RPC ends.  *)
Fairness == \A t \in Threads : WF_vars(ThreadStep(t))

Spec == Init /\ [][Next]_vars

FairSpec == Spec /\ Fairness

-----------------------------------------------------------------------------
TypeOK ==
  /\ theFree \in [Destinations -> Seq(Nat)]
  /\ theBusy \in [Destinations -> Nat]
  /\ created \in [Destinations -> Nat]
  /\ pc \in [Threads -> PcValues]
  /\ dest \in [Threads -> Destinations \cup {NoDestination}]
  /\ held \in [Threads -> Nat]
  /\ lost \in [Destinations -> Nat]
  /\ calls \in Nat

(* The threads with a call to d in progress.  *)
Holders(d) == At("run", d) \cup At("release", d)

(* theBusy counts the calls in progress and, for ever, those that threw.  *)
BusyCount ==
  \A d \in Destinations : theBusy[d] = Cardinality(Holders(d)) + lost[d]

(* Every client ever made is idle in the list or accounted for by theBusy, *)
(* so that getClient never makes more than theMaxClients for a destination *)
(* however many of them are destroyed by exceptions.                       *)
ClientsBounded ==
  \A d \in Destinations :
    /\ created[d] = theBusy[d] + Len(theFree[d])
    /\ MaxClients # 0 => created[d] <= MaxClients

(* A client is never used by two calls at the same time: it is held by one *)
(* thread at most, and is not in the list of idle clients while it is.     *)
ClientExclusive ==
  \A d \in Destinations :
    /\ \A t \in Holders(d) :
         /\ \A s \in Holders(d) \ {t} : held[s] # held[t]
         /\ \A i \in 1..Len(theFree[d]) : theFree[d][i] # held[t]
    /\ \A i, j \in 1..Len(theFree[d]) :
         i # j => theFree[d][i] # theFree[d][j]

(* No wake-up is lost: while a thread sleeps waiting for a client of d,    *)
(* every client that can be taken has a thread awake that will look for    *)
(* it (notify_one in releaseClient wakes up as many as are needed).        *)
NoLostWakeUp ==
  \A d \in Destinations :
    At("wait", d) # {} =>
      MaxClients <= theBusy[d] + Cardinality(At("get", d))

(* The pool implements the bounded slots of module CallSlots.  *)
Slots == INSTANCE CallSlots WITH holders <- [d \in Destinations |-> Holders(d)]

SlotsSpec == Slots!Spec

(* Provided that fewer than theMaxClients calls to a destination end with  *)
(* an exception, every thread that calls the pool returns from it: none is *)
(* left asleep in getClient.                                               *)
CallEnds == \A t \in Threads : pc[t] = "get" ~> pc[t] = "idle"
=============================================================================
