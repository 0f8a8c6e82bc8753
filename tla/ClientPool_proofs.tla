-------------------------- MODULE ClientPool_proofs --------------------------
(***************************************************************************)
(* Proofs about EdgeClientPool for any number of threads, destinations and *)
(* clients: the accounting of the clients, the absence of lost wake-ups    *)
(* and the implementation of CallSlots.                                    *)
(***************************************************************************)
EXTENDS ClientPool, FiniteSetTheorems, TLAPS

(* A thread inside a call has the destination of that call.  *)
DestOK ==
  \A t \in Threads : dest[t] = NoDestination <=> pc[t] = "idle"

(* The accounting part of the inductive invariant.  *)
IInv == TypeOK /\ DestOK /\ BusyCount /\ ClientsBounded

(* The sets of threads at a point of operator() are finite.  *)
LEMMA FiniteAt ==
  ASSUME NEW d
  PROVE  /\ IsFiniteSet(At("get", d)) /\ IsFiniteSet(At("wait", d))
         /\ IsFiniteSet(Holders(d))
         /\ Cardinality(At("get", d)) \in Nat
         /\ Cardinality(Holders(d)) \in Nat
<1>1. /\ At("get", d) \in SUBSET Threads /\ At("wait", d) \in SUBSET Threads
      /\ Holders(d) \in SUBSET Threads
  BY DEF At, Holders
<1>2. IsFiniteSet(Threads)
  BY ClientPoolAssumption
<1> QED
  BY <1>1, <1>2, FS_Subset, FS_CardinalityType

(* Adding a thread to a finite set, or removing it, changes its size by 1. *)
LEMMA CountOne ==
  ASSUME NEW S, IsFiniteSet(S), NEW x
  PROVE  /\ x \notin S => Cardinality(S \cup {x}) = Cardinality(S) + 1
         /\ x \in S => /\ Cardinality(S \ {x}) = Cardinality(S) - 1
                       /\ Cardinality(S) >= 1
<1>1. Cardinality(S) \in Nat
  BY FS_CardinalityType
<1>2. x \notin S => Cardinality(S \cup {x}) = Cardinality(S) + 1
  BY FS_AddElement
<1>3. x \in S => Cardinality(S \ {x}) = Cardinality(S) - 1
  BY FS_RemoveElement
<1>4. x \in S => Cardinality(S) # 0
  BY FS_EmptySet
<1> QED
  BY <1>1, <1>2, <1>3, <1>4

(* The threads in the middle of a call only change when a client is taken, *)
(* given back or lost.                                                     *)
LEMMA HoldersStep ==
  ASSUME TypeOK, DestOK, NEW t \in Threads, NEW d \in Destinations
  PROVE  /\ (\E e \in Destinations : Call(t, e)) \/ Sleep(t)
              \/ SpuriousWakeUp(t) \/ RunLambda(t)
              => Holders(d)' = Holders(d)
         /\ GetClient(t) =>
              /\ t \notin Holders(d)
              /\ Holders(d)' = IF d = dest[t] THEN Holders(d) \cup {t}
                                              ELSE Holders(d)
         /\ RunLambdaThrows(t) \/ ReleaseClient(t) =>
              /\ t \in Holders(d) <=> d = dest[t]
              /\ Holders(d)' = Holders(d) \ {t}
<1>1. ASSUME NEW e \in Destinations, Call(t, e)
      PROVE  Holders(d)' = Holders(d)
  BY <1>1 DEF Call, Holders, At, TypeOK, PcValues
<1>2. Sleep(t) => Holders(d)' = Holders(d)
  BY DEF Sleep, Holders, At, TypeOK, PcValues
<1>3. SpuriousWakeUp(t) => Holders(d)' = Holders(d)
  BY DEF SpuriousWakeUp, Holders, At, TypeOK, PcValues
<1>4. RunLambda(t) => Holders(d)' = Holders(d)
  BY DEF RunLambda, Holders, At, TypeOK, PcValues
<1>5. GetClient(t) =>
        /\ t \notin Holders(d)
        /\ Holders(d)' = IF d = dest[t] THEN Holders(d) \cup {t}
                                        ELSE Holders(d)
  BY DEF GetClient, Holders, At, TypeOK, PcValues
<1>6. RunLambdaThrows(t) =>
        /\ t \in Holders(d) <=> d = dest[t]
        /\ Holders(d)' = Holders(d) \ {t}
  BY DEF RunLambdaThrows, Holders, At, TypeOK, PcValues
<1>7. ASSUME ReleaseClient(t)
      PROVE  /\ t \in Holders(d) <=> d = dest[t]
             /\ Holders(d)' = Holders(d) \ {t}
  <2>1. t \in Holders(d) <=> d = dest[t]
    BY <1>7 DEF ReleaseClient, Holders, At
  <2>2. CASE pc' = [pc EXCEPT ![t] = "idle"]
    BY <1>7, <2>2 DEF ReleaseClient, Holders, At, TypeOK, PcValues
  <2>3. CASE \E w \in At("wait", dest[t]) :
               pc' = [pc EXCEPT ![t] = "idle", ![w] = "get"]
    BY <1>7, <2>3 DEF ReleaseClient, Holders, At, TypeOK, PcValues
  <2> QED
    BY <1>7, <2>1, <2>2, <2>3 DEF ReleaseClient, LeaveAndNotifyOne
<1> QED
  BY <1>1, <1>2, <1>3, <1>4, <1>5, <1>6, <1>7

(* The accounting holds initially.  *)
LEMMA InitIInv == Init => IInv
<1> SUFFICES ASSUME Init PROVE IInv
  OBVIOUS
<1>1. TypeOK
  BY DEF Init, TypeOK, PcValues
<1>2. DestOK
  BY ClientPoolAssumption DEF Init, DestOK
<1>3. ASSUME NEW d \in Destinations PROVE Holders(d) = {}
  BY DEF Init, Holders, At
<1>4. BusyCount
  <2>1. ASSUME NEW d \in Destinations
        PROVE  theBusy[d] = Cardinality(Holders(d)) + lost[d]
    <3>1. Cardinality(Holders(d)) = 0
      BY <1>3, FS_EmptySet
    <3> QED
      BY <3>1 DEF Init
  <2> QED
    BY <2>1 DEF BusyCount
<1>5. ClientsBounded
  BY ClientPoolAssumption DEF Init, ClientsBounded
<1> QED
  BY <1>1, <1>2, <1>4, <1>5 DEF IInv

(* releaseClient decrements theBusy, which is positive then.  *)
LEMMA BusyPositive ==
  ASSUME TypeOK, BusyCount, NEW d \in Destinations, NEW t \in Holders(d)
  PROVE  theBusy[d] >= 1 /\ theBusy[d] - 1 \in Nat
<1>1. Cardinality(Holders(d)) >= 1 /\ Cardinality(Holders(d)) \in Nat
  BY FiniteAt, CountOne
<1> QED
  BY <1>1 DEF TypeOK, BusyCount

(* Every step preserves the types.  *)
LEMMA TypeStep == IInv /\ [Next]_vars => TypeOK' /\ DestOK'
<1> SUFFICES ASSUME IInv, [Next]_vars PROVE TypeOK' /\ DestOK'
  OBVIOUS
<1> USE ClientPoolAssumption DEF IInv
<1>1. CASE UNCHANGED vars
  BY <1>1 DEF vars, TypeOK, DestOK
<1>2. ASSUME NEW t \in Threads, NEW d \in Destinations, Call(t, d)
      PROVE  TypeOK' /\ DestOK'
  BY <1>2 DEF Call, TypeOK, DestOK, PcValues
<1>3. ASSUME NEW t \in Threads, Sleep(t)
      PROVE  TypeOK' /\ DestOK'
  BY <1>3 DEF Sleep, TypeOK, DestOK, PcValues
<1>4. ASSUME NEW t \in Threads, SpuriousWakeUp(t)
      PROVE  TypeOK' /\ DestOK'
  BY <1>4 DEF SpuriousWakeUp, TypeOK, DestOK, PcValues
<1>5. ASSUME NEW t \in Threads, GetClient(t)
      PROVE  TypeOK' /\ DestOK'
  <2>1. dest[t] \in Destinations
    BY <1>5 DEF GetClient, TypeOK, DestOK
  <2>2. /\ theFree' \in [Destinations -> Seq(Nat)]
        /\ held' \in [Threads -> Nat]
        /\ created' \in [Destinations -> Nat]
    <3>1. CASE MakeClient(t, dest[t])
      BY <3>1, <2>1 DEF MakeClient, TypeOK
    <3>2. CASE ReuseClient(t, dest[t])
      <4>1. /\ theFree[dest[t]] \in Seq(Nat)
            /\ theFree[dest[t]] # <<>>
        BY <3>2, <2>1 DEF ReuseClient, TypeOK
      <4>2. /\ Head(theFree[dest[t]]) \in Nat
            /\ Tail(theFree[dest[t]]) \in Seq(Nat)
        BY <4>1
      <4> QED
        BY <3>2, <4>2, <2>1 DEF ReuseClient, TypeOK
    <3> QED
      BY <1>5, <3>1, <3>2 DEF GetClient
  <2>3. /\ pc' \in [Threads -> PcValues]
        /\ theBusy' \in [Destinations -> Nat]
        /\ dest' = dest /\ lost' = lost /\ calls' = calls
        /\ DestOK'
    BY <1>5, <2>1 DEF GetClient, TypeOK, DestOK, PcValues
  <2> QED
    BY <2>2, <2>3 DEF TypeOK
<1>6. ASSUME NEW t \in Threads, RunLambda(t)
      PROVE  TypeOK' /\ DestOK'
  BY <1>6 DEF RunLambda, TypeOK, DestOK, PcValues
<1>7. ASSUME NEW t \in Threads, RunLambdaThrows(t)
      PROVE  TypeOK' /\ DestOK'
  BY <1>7 DEF RunLambdaThrows, TypeOK, DestOK, PcValues
<1>8. ASSUME NEW t \in Threads, ReleaseClient(t)
      PROVE  TypeOK' /\ DestOK'
  <2>1. dest[t] \in Destinations /\ t \in Holders(dest[t])
    BY <1>8 DEF ReleaseClient, TypeOK, DestOK, Holders, At
  <2>2. theBusy' \in [Destinations -> Nat]
    BY <1>8, <2>1, BusyPositive DEF ReleaseClient, TypeOK
  <2>3. theFree' \in [Destinations -> Seq(Nat)]
    BY <1>8, <2>1 DEF ReleaseClient, TypeOK
  <2>4. CASE pc' = [pc EXCEPT ![t] = "idle"]
    BY <1>8, <2>2, <2>3, <2>4 DEF ReleaseClient, TypeOK, DestOK, PcValues
  <2>5. CASE \E w \in At("wait", dest[t]) :
               pc' = [pc EXCEPT ![t] = "idle", ![w] = "get"]
    BY <1>8, <2>2, <2>3, <2>5 DEF ReleaseClient, TypeOK, DestOK, PcValues, At
  <2> QED
    BY <1>8, <2>4, <2>5 DEF ReleaseClient, LeaveAndNotifyOne
<1>9. CASE Finished
  BY <1>9, <1>1 DEF Finished
<1> QED
  BY <1>1, <1>2, <1>3, <1>4, <1>5, <1>6, <1>7, <1>8, <1>9
     DEF Next, ThreadStep

(* theBusy follows the calls in progress and the exceptions.  *)
LEMMA BusyStep == IInv /\ [Next]_vars => BusyCount'
<1> SUFFICES ASSUME IInv, [Next]_vars, NEW d \in Destinations
             PROVE  (theBusy[d] = Cardinality(Holders(d)) + lost[d])'
  BY DEF BusyCount
<1> USE DEF IInv
<1>0. /\ theBusy[d] = Cardinality(Holders(d)) + lost[d]
      /\ Cardinality(Holders(d)) \in Nat
      /\ IsFiniteSet(Holders(d))
      /\ theBusy[d] \in Nat /\ lost[d] \in Nat
  BY FiniteAt DEF BusyCount, TypeOK
<1>1. CASE UNCHANGED vars
  BY <1>0, <1>1 DEF vars, Holders, At
<1>2. ASSUME NEW t \in Threads,
             \/ \E e \in Destinations : Call(t, e)
             \/ Sleep(t) \/ SpuriousWakeUp(t) \/ RunLambda(t)
      PROVE  (theBusy[d] = Cardinality(Holders(d)) + lost[d])'
  <2>1. Holders(d)' = Holders(d)
    BY <1>2, HoldersStep
  <2>2. theBusy' = theBusy /\ lost' = lost
    BY <1>2 DEF Call, Sleep, SpuriousWakeUp, RunLambda
  <2> QED
    BY <1>0, <2>1, <2>2
<1>3. ASSUME NEW t \in Threads, GetClient(t)
      PROVE  (theBusy[d] = Cardinality(Holders(d)) + lost[d])'
  <2>1. /\ t \notin Holders(d)
        /\ Holders(d)' = IF d = dest[t] THEN Holders(d) \cup {t}
                                        ELSE Holders(d)
    BY <1>3, HoldersStep
  <2>2. Cardinality(Holders(d) \cup {t}) = Cardinality(Holders(d)) + 1
    BY <1>0, <2>1, CountOne
  <2>3. lost' = lost /\ theBusy' = [theBusy EXCEPT ![dest[t]] = @ + 1]
    BY <1>3 DEF GetClient
  <2>4. CASE d = dest[t]
    <3>1. theBusy'[d] = theBusy[d] + 1 /\ lost'[d] = lost[d]
      BY <2>3, <2>4 DEF TypeOK
    <3>2. Cardinality(Holders(d)') = Cardinality(Holders(d)) + 1
      BY <2>1, <2>2, <2>4
    <3> QED
      BY <1>0, <3>1, <3>2
  <2>5. CASE d # dest[t]
    <3>1. theBusy'[d] = theBusy[d] /\ lost'[d] = lost[d]
      BY <2>3, <2>5 DEF TypeOK
    <3>2. Holders(d)' = Holders(d)
      BY <2>1, <2>5
    <3> QED
      BY <1>0, <3>1, <3>2
  <2> QED
    BY <2>4, <2>5
<1>4. ASSUME NEW t \in Threads, RunLambdaThrows(t) \/ ReleaseClient(t)
      PROVE  (theBusy[d] = Cardinality(Holders(d)) + lost[d])'
  <2>1. /\ t \in Holders(d) <=> d = dest[t]
        /\ Holders(d)' = Holders(d) \ {t}
    BY <1>4, HoldersStep
  <2>2. CASE d # dest[t]
    <3>1. Holders(d)' = Holders(d)
      BY <2>1, <2>2
    <3>2. theBusy'[d] = theBusy[d] /\ lost'[d] = lost[d]
      BY <1>4, <2>2 DEF RunLambdaThrows, ReleaseClient, TypeOK
    <3> QED
      BY <1>0, <3>1, <3>2
  <2>3. CASE d = dest[t]
    <3>1. Cardinality(Holders(d)') = Cardinality(Holders(d)) - 1
      BY <1>0, <2>1, <2>3, CountOne
    <3>2. CASE RunLambdaThrows(t)
      <4>1. theBusy'[d] = theBusy[d] /\ lost'[d] = lost[d] + 1
        BY <3>2, <2>3 DEF RunLambdaThrows, TypeOK
      <4> QED
        BY <1>0, <3>1, <4>1
    <3>3. CASE ReleaseClient(t)
      <4>1. theBusy'[d] = theBusy[d] - 1 /\ lost'[d] = lost[d]
        BY <3>3, <2>3 DEF ReleaseClient, TypeOK
      <4> QED
        BY <1>0, <3>1, <4>1
    <3> QED
      BY <1>4, <3>2, <3>3
  <2> QED
    BY <2>2, <2>3
<1>5. CASE Finished
  BY <1>1, <1>5 DEF Finished
<1> QED
  BY <1>1, <1>2, <1>3, <1>4, <1>5 DEF Next, ThreadStep

(* Making a client, taking an idle one and giving it back all keep the     *)
(* number of clients made equal to those idle plus those counted as busy.  *)
LEMMA BoundedStep == IInv /\ [Next]_vars => ClientsBounded'
<1> DEFINE Bounded(d) == /\ created[d] = theBusy[d] + Len(theFree[d])
                         /\ MaxClients # 0 => created[d] <= MaxClients
<1> SUFFICES ASSUME IInv, [Next]_vars, NEW d \in Destinations
             PROVE  Bounded(d)'
  BY DEF ClientsBounded
<1> USE DEF IInv
<1>0. /\ Bounded(d)
      /\ theFree[d] \in Seq(Nat) /\ Len(theFree[d]) \in Nat
      /\ created[d] \in Nat /\ theBusy[d] \in Nat /\ MaxClients \in Nat
  BY ClientPoolAssumption DEF ClientsBounded, TypeOK
<1>1. CASE UNCHANGED <<theFree, theBusy, created>>
  BY <1>0, <1>1
<1>2. ASSUME NEW t \in Threads, GetClient(t)
      PROVE  Bounded(d)'
  <2>0. CASE d # dest[t]
    <3>1. /\ theFree'[d] = theFree[d] /\ theBusy'[d] = theBusy[d]
          /\ created'[d] = created[d]
      BY <1>2, <2>0 DEF GetClient, MakeClient, ReuseClient, TypeOK
    <3> QED
      BY <1>0, <3>1
  <2>1. CASE d = dest[t] /\ MakeClient(t, d)
    <3>1. /\ theFree'[d] = theFree[d] /\ theFree[d] = <<>>
          /\ theBusy'[d] = theBusy[d] + 1 /\ created'[d] = created[d] + 1
      BY <1>2, <2>1 DEF GetClient, MakeClient, TypeOK
    <3>2. MaxClients = 0 \/ theBusy[d] < MaxClients
      BY <1>2, <2>1, <3>1 DEF GetClient, Available
    <3>3. Len(theFree[d]) = 0
      BY <3>1
    <3> QED
      BY <1>0, <3>1, <3>2, <3>3
  <2>2. CASE d = dest[t] /\ ReuseClient(t, d)
    <3>1. /\ theFree'[d] = Tail(theFree[d]) /\ theFree[d] # <<>>
          /\ theBusy'[d] = theBusy[d] + 1 /\ created'[d] = created[d]
      BY <1>2, <2>2 DEF GetClient, ReuseClient, TypeOK
    <3>2. Len(Tail(theFree[d])) = Len(theFree[d]) - 1
      BY <1>0, <3>1
    <3> QED
      BY <1>0, <3>1, <3>2
  <2> QED
    BY <1>2, <2>0, <2>1, <2>2 DEF GetClient
<1>3. ASSUME NEW t \in Threads, ReleaseClient(t)
      PROVE  Bounded(d)'
  <2>0. CASE d # dest[t]
    <3>1. /\ theFree'[d] = theFree[d] /\ theBusy'[d] = theBusy[d]
          /\ created'[d] = created[d]
      BY <1>3, <2>0 DEF ReleaseClient, TypeOK
    <3> QED
      BY <1>0, <3>1
  <2>1. CASE d = dest[t]
    <3>1. /\ theFree'[d] = Append(theFree[d], held[t])
          /\ theBusy'[d] = theBusy[d] - 1 /\ created'[d] = created[d]
          /\ held[t] \in Nat
      BY <1>3, <2>1 DEF ReleaseClient, TypeOK
    <3>2. Len(Append(theFree[d], held[t])) = Len(theFree[d]) + 1
      BY <1>0, <3>1
    <3> QED
      BY <1>0, <3>1, <3>2
  <2> QED
    BY <2>0, <2>1
<1>4. ASSUME NEW t \in Threads,
             \/ \E e \in Destinations : Call(t, e)
             \/ Sleep(t) \/ SpuriousWakeUp(t)
             \/ RunLambda(t) \/ RunLambdaThrows(t)
      PROVE  UNCHANGED <<theFree, theBusy, created>>
  BY <1>4 DEF Call, Sleep, SpuriousWakeUp, RunLambda, RunLambdaThrows
<1>5. UNCHANGED vars \/ Finished => UNCHANGED <<theFree, theBusy, created>>
  BY DEF vars, Finished
<1> QED
  BY <1>1, <1>2, <1>3, <1>4, <1>5 DEF Next, ThreadStep

(* Type correctness and the accounting of the clients, together.  *)
LEMMA Accounting == Spec => []IInv
<1>1. IInv /\ [Next]_vars => IInv'
  BY TypeStep, BusyStep, BoundedStep DEF IInv
<1> QED
  BY InitIInv, <1>1, PTL DEF Spec

(* Every variable of the pool keeps its type, theBusy (unsigned in the     *)
(* code) included: releaseClient never decrements a counter that is 0.     *)
THEOREM PoolTypeOK == Spec => []TypeOK
<1>1. IInv => TypeOK
  BY DEF IInv
<1> QED
  BY Accounting, <1>1, PTL

(* theBusy is the number of calls in progress plus the calls that threw.   *)
THEOREM PoolBusyCount == Spec => []BusyCount
<1>1. IInv => BusyCount
  BY DEF IInv
<1> QED
  BY Accounting, <1>1, PTL

(* getClient never makes more than theMaxClients for a destination.  *)
THEOREM PoolClientsBounded == Spec => []ClientsBounded
<1>1. IInv => ClientsBounded
  BY DEF IInv
<1> QED
  BY Accounting, <1>1, PTL

(* The threads that are looking for a client, and those asleep, after each *)
(* step that changes them.                                                 *)
LEMMA GettersStep ==
  ASSUME TypeOK, NEW t \in Threads, NEW d \in Destinations
  PROVE  /\ \A e \in Destinations : Call(t, e) =>
              /\ t \notin At("get", d)
              /\ At("get", d) \subseteq At("get", d)'
              /\ At("wait", d)' = At("wait", d)
         /\ Sleep(t) =>
              /\ At("get", d)' = IF d = dest[t] THEN At("get", d) \ {t}
                                                ELSE At("get", d)
              /\ d # dest[t] => At("wait", d)' = At("wait", d)
         /\ SpuriousWakeUp(t) =>
              /\ At("get", d) \subseteq At("get", d)'
              /\ At("wait", d)' \subseteq At("wait", d)
         /\ GetClient(t) =>
              /\ t \in At("get", d) <=> d = dest[t]
              /\ At("get", d)' = At("get", d) \ {t}
              /\ At("wait", d)' = At("wait", d)
         /\ RunLambda(t) \/ RunLambdaThrows(t) =>
              /\ At("get", d)' = At("get", d)
              /\ At("wait", d)' = At("wait", d)
<1>1. ASSUME NEW e \in Destinations, Call(t, e)
      PROVE  /\ t \notin At("get", d)
             /\ At("get", d) \subseteq At("get", d)'
             /\ At("wait", d)' = At("wait", d)
  BY <1>1 DEF Call, At, TypeOK, PcValues
<1>2. ASSUME Sleep(t)
      PROVE  /\ At("get", d)' = IF d = dest[t] THEN At("get", d) \ {t}
                                               ELSE At("get", d)
             /\ d # dest[t] => At("wait", d)' = At("wait", d)
  BY <1>2 DEF Sleep, At, TypeOK, PcValues
<1>3. ASSUME SpuriousWakeUp(t)
      PROVE  /\ At("get", d) \subseteq At("get", d)'
             /\ At("wait", d)' \subseteq At("wait", d)
  BY <1>3 DEF SpuriousWakeUp, At, TypeOK, PcValues
<1>4. ASSUME GetClient(t)
      PROVE  /\ t \in At("get", d) <=> d = dest[t]
             /\ At("get", d)' = At("get", d) \ {t}
             /\ At("wait", d)' = At("wait", d)
  BY <1>4 DEF GetClient, At, TypeOK, PcValues
<1>5. ASSUME RunLambda(t) \/ RunLambdaThrows(t)
      PROVE  /\ At("get", d)' = At("get", d)
             /\ At("wait", d)' = At("wait", d)
  BY <1>5 DEF RunLambda, RunLambdaThrows, At, TypeOK, PcValues
<1> QED
  BY <1>1, <1>2, <1>3, <1>4, <1>5

(* notify_one in releaseClient: if some thread sleeps waiting for d, one   *)
(* more is awake afterwards.                                               *)
LEMMA NotifyStep ==
  ASSUME TypeOK, NEW t \in Threads, ReleaseClient(t), NEW d \in Destinations
  PROVE  /\ d # dest[t] => /\ At("get", d)' = At("get", d)
                           /\ At("wait", d)' = At("wait", d)
         /\ d = dest[t] =>
              \/ At("wait", d)' = {}
              \/ \E w \in Threads : /\ w \notin At("get", d)
                                    /\ At("get", d)' = At("get", d) \cup {w}
<1>1. CASE At("wait", dest[t]) = {} /\ pc' = [pc EXCEPT ![t] = "idle"]
  BY <1>1 DEF ReleaseClient, At, TypeOK, PcValues
<1>2. ASSUME NEW w \in At("wait", dest[t]),
             pc' = [pc EXCEPT ![t] = "idle", ![w] = "get"]
      PROVE  /\ d # dest[t] => /\ At("get", d)' = At("get", d)
                               /\ At("wait", d)' = At("wait", d)
             /\ d = dest[t] => /\ w \notin At("get", d)
                               /\ At("get", d)' = At("get", d) \cup {w}
             /\ w \in Threads
  BY <1>2 DEF ReleaseClient, At, TypeOK, PcValues
<1> QED
  BY <1>1, <1>2 DEF ReleaseClient, LeaveAndNotifyOne

(* No notification of theAvailableCond is lost.  *)
THEOREM PoolNoLostWakeUp == Spec => []NoLostWakeUp
<1> DEFINE Covered(d) == At("wait", d) # {} =>
                           MaxClients <= theBusy[d] + Cardinality(At("get", d))
<1>1. Init => NoLostWakeUp
  BY DEF Init, NoLostWakeUp, At
<1>2. IInv /\ NoLostWakeUp /\ [Next]_vars => NoLostWakeUp'
  <2> SUFFICES ASSUME IInv, NoLostWakeUp, [Next]_vars, NEW d \in Destinations
               PROVE  Covered(d)'
    BY DEF NoLostWakeUp
  <2> USE DEF IInv
  <2>0. /\ Covered(d) /\ MaxClients \in Nat /\ theBusy[d] \in Nat
        /\ IsFiniteSet(At("get", d)) /\ Cardinality(At("get", d)) \in Nat
        /\ IsFiniteSet(At("get", d)') /\ Cardinality(At("get", d)') \in Nat
    <3>1. At("get", d)' \in SUBSET Threads
      BY DEF At
    <3>2. IsFiniteSet(At("get", d)') /\ Cardinality(At("get", d)') \in Nat
      BY <3>1, ClientPoolAssumption, FS_Subset, FS_CardinalityType
    <3> QED
      BY <3>2, FiniteAt, ClientPoolAssumption DEF NoLostWakeUp, TypeOK
  <2>1. ASSUME At("get", d) \subseteq At("get", d)'
        PROVE  Cardinality(At("get", d)) <= Cardinality(At("get", d)')
    BY <2>0, <2>1, FS_Subset
  <2>2. ASSUME NEW t \in Threads, NEW e \in Destinations, Call(t, e)
        PROVE  Covered(d)'
    <3>1. /\ At("get", d) \subseteq At("get", d)'
          /\ At("wait", d)' = At("wait", d) /\ theBusy' = theBusy
      BY <2>2, GettersStep DEF Call
    <3> QED
      BY <3>1, <2>0, <2>1
  <2>3. ASSUME NEW t \in Threads, Sleep(t)
        PROVE  Covered(d)'
    <3>1. CASE d = dest[t]
      <4>1. MaxClients <= theBusy[d] /\ theBusy' = theBusy
        BY <2>0, <2>3, <3>1 DEF Sleep, Available
      <4> QED
        BY <2>0, <4>1
    <3>2. CASE d # dest[t]
      <4>1. /\ At("get", d)' = At("get", d) /\ At("wait", d)' = At("wait", d)
            /\ theBusy' = theBusy
        BY <2>3, <3>2, GettersStep DEF Sleep
      <4> QED
        BY <2>0, <4>1
    <3> QED
      BY <3>1, <3>2
  <2>4. ASSUME NEW t \in Threads, SpuriousWakeUp(t)
        PROVE  Covered(d)'
    <3>1. /\ At("get", d) \subseteq At("get", d)'
          /\ At("wait", d)' \subseteq At("wait", d) /\ theBusy' = theBusy
      BY <2>4, GettersStep DEF SpuriousWakeUp
    <3> QED
      BY <3>1, <2>0, <2>1
  <2>5. ASSUME NEW t \in Threads, GetClient(t)
        PROVE  Covered(d)'
    <3>1. /\ t \in At("get", d) <=> d = dest[t]
          /\ At("get", d)' = At("get", d) \ {t}
          /\ At("wait", d)' = At("wait", d)
      BY <2>5, GettersStep
    <3>2. CASE d = dest[t]
      <4>1. Cardinality(At("get", d)') = Cardinality(At("get", d)) - 1
        BY <2>0, <3>1, <3>2, CountOne
      <4>2. theBusy'[d] = theBusy[d] + 1
        BY <2>5, <3>2 DEF GetClient, TypeOK
      <4> QED
        BY <2>0, <3>1, <4>1, <4>2
    <3>3. CASE d # dest[t]
      <4>1. At("get", d)' = At("get", d)
        BY <3>1, <3>3
      <4>2. theBusy'[d] = theBusy[d]
        BY <2>5, <3>3 DEF GetClient, TypeOK
      <4> QED
        BY <2>0, <3>1, <4>1, <4>2
    <3> QED
      BY <3>2, <3>3
  <2>6. ASSUME NEW t \in Threads, RunLambda(t) \/ RunLambdaThrows(t)
        PROVE  Covered(d)'
    <3>1. /\ At("get", d)' = At("get", d) /\ At("wait", d)' = At("wait", d)
          /\ theBusy' = theBusy
      BY <2>6, GettersStep DEF RunLambda, RunLambdaThrows
    <3> QED
      BY <2>0, <3>1
  <2>7. ASSUME NEW t \in Threads, ReleaseClient(t)
        PROVE  Covered(d)'
    <3>1. CASE d # dest[t]
      <4>1. /\ At("get", d)' = At("get", d) /\ At("wait", d)' = At("wait", d)
            /\ theBusy'[d] = theBusy[d]
        BY <2>7, <3>1, NotifyStep DEF ReleaseClient, TypeOK
      <4> QED
        BY <2>0, <4>1
    <3>2. ASSUME d = dest[t],
                 NEW w \in Threads, w \notin At("get", d),
                 At("get", d)' = At("get", d) \cup {w}
          PROVE  Covered(d)'
      <4>1. Cardinality(At("get", d)') = Cardinality(At("get", d)) + 1
        BY <2>0, <3>2, CountOne
      <4>2. theBusy'[d] = theBusy[d] - 1
        BY <2>7, <3>2 DEF ReleaseClient, TypeOK
      <4>3. At("wait", d) # {}
        BY <2>7, <3>2 DEF ReleaseClient, LeaveAndNotifyOne, At, TypeOK
      <4> QED
        BY <2>0, <4>1, <4>2, <4>3
    <3>3. CASE At("wait", d)' = {}
      BY <3>3
    <3> QED
      BY <2>7, <3>1, <3>2, <3>3, NotifyStep
  <2>8. CASE UNCHANGED vars \/ Finished
    <3>1. theBusy' = theBusy /\ pc' = pc /\ dest' = dest
      BY <2>8 DEF vars, Finished
    <3> QED
      BY <2>0, <3>1 DEF At
  <2> QED
    BY <2>2, <2>3, <2>4, <2>5, <2>6, <2>7, <2>8 DEF Next, ThreadStep
<1> QED
  BY Accounting, <1>1, <1>2, PTL DEF Spec

(* The clients of d that are used or idle are among those made for d, and  *)
(* each of them is in one place.                                           *)
NamedOnce(d) ==
  /\ \A t \in Holders(d) : held[t] \in 1..created[d]
  /\ \A i \in 1..Len(theFree[d]) : theFree[d][i] \in 1..created[d]
  /\ \A s, t \in Holders(d) : held[s] = held[t] => s = t
  /\ \A t \in Holders(d) : \A i \in 1..Len(theFree[d]) :
       theFree[d][i] # held[t]
  /\ \A i, j \in 1..Len(theFree[d]) : theFree[d][i] = theFree[d][j] => i = j

NamedOnceAll == \A d \in Destinations : NamedOnce(d)

(* A step that takes, gives back or loses a client keeps them apart: a new *)
(* client has a name never used, the others change place.                  *)
LEMMA NamedOnceStep ==
  ASSUME IInv, NamedOnceAll, [Next]_vars, NEW d \in Destinations
  PROVE  NamedOnce(d)'
<1> USE DEF IInv
<1>0. /\ NamedOnce(d)
      /\ theFree[d] \in Seq(Nat) /\ Len(theFree[d]) \in Nat
      /\ created[d] \in Nat
      /\ held \in [Threads -> Nat]
      /\ Holders(d) \subseteq Threads
  BY DEF NamedOnceAll, TypeOK, Holders, At
<1>1. ASSUME NEW t \in Threads, GetClient(t)
      PROVE  NamedOnce(d)'
  <2>0. /\ t \notin Holders(d)
        /\ Holders(d)' = IF d = dest[t] THEN Holders(d) \cup {t} ELSE Holders(d)
    BY <1>1, HoldersStep
  <2>1. \A s \in Threads : s # t => held'[s] = held[s]
    BY <1>0, <1>1 DEF GetClient, MakeClient, ReuseClient
  <2>2. CASE d # dest[t]
    <3>1. theFree'[d] = theFree[d] /\ created'[d] = created[d]
      BY <1>1, <2>2 DEF GetClient, MakeClient, ReuseClient, TypeOK
    <3>2. Holders(d)' = Holders(d) /\ \A s \in Holders(d) : held'[s] = held[s]
      BY <1>0, <2>0, <2>1, <2>2
    <3> QED BY <1>0, <3>1, <3>2 DEF NamedOnce
  <2>3. CASE d = dest[t] /\ MakeClient(t, d)
    <3>1. /\ theFree'[d] = theFree[d]
          /\ created'[d] = created[d] + 1
          /\ held'[t] = created[d] + 1
      BY <2>3 DEF MakeClient, TypeOK
    <3>2. \A s \in Holders(d) : /\ held'[s] = held[s]
                                /\ held'[s] \in 1..created[d]
                                /\ held'[s] # held'[t]
      BY <1>0, <2>0, <2>1, <3>1 DEF NamedOnce
    <3>3. \A i \in 1..Len(theFree[d]) : theFree[d][i] # held'[t]
      BY <1>0, <3>1 DEF NamedOnce
    <3>4. /\ Holders(d)' = Holders(d) \cup {t}
          /\ 1..created[d] \subseteq 1..created'[d]
      BY <1>0, <2>0, <2>3, <3>1
    <3>5. held'[t] \in 1..created'[d]
      BY <1>0, <3>1
    <3> QED BY <1>0, <3>1, <3>2, <3>3, <3>4, <3>5 DEF NamedOnce
  <2>4. CASE d = dest[t] /\ ReuseClient(t, d)
    <3>1. /\ theFree[d] # <<>>
          /\ theFree'[d] = Tail(theFree[d])
          /\ created'[d] = created[d]
          /\ held'[t] = Head(theFree[d])
      BY <2>4 DEF ReuseClient, TypeOK
    <3>2. /\ Len(theFree'[d]) = Len(theFree[d]) - 1
          /\ held'[t] = theFree[d][1]
          /\ 1 \in 1..Len(theFree[d])
          /\ \A i \in 1..Len(theFree'[d]) :
               /\ i + 1 \in 1..Len(theFree[d])
               /\ theFree'[d][i] = theFree[d][i + 1]
      BY <1>0, <3>1
    <3>3. /\ \A i \in 1..Len(theFree'[d]) : theFree'[d][i] \in 1..created[d]
          /\ \A i, j \in 1..Len(theFree'[d]) :
               theFree'[d][i] = theFree'[d][j] => i = j
          /\ \A i \in 1..Len(theFree'[d]) : theFree'[d][i] # held'[t]
      <4>1. ASSUME NEW i \in 1..Len(theFree'[d])
            PROVE  theFree'[d][i] \in 1..created[d]
        BY <1>0, <3>2 DEF NamedOnce
      <4>2. ASSUME NEW i \in 1..Len(theFree'[d]), NEW j \in 1..Len(theFree'[d]),
                   theFree'[d][i] = theFree'[d][j]
            PROVE  i = j
        <5>1. /\ i + 1 \in 1..Len(theFree[d]) /\ j + 1 \in 1..Len(theFree[d])
              /\ theFree[d][i + 1] = theFree[d][j + 1]
          BY <3>2, <4>2
        <5>2. i + 1 = j + 1
          BY <1>0, <5>1 DEF NamedOnce
        <5> QED BY <5>2
      <4>3. ASSUME NEW i \in 1..Len(theFree'[d])
            PROVE  theFree'[d][i] # held'[t]
        <5>1. i + 1 # 1 /\ i + 1 \in 1..Len(theFree[d])
          BY <3>2
        <5>2. theFree[d][i + 1] # theFree[d][1]
          BY <1>0, <3>2, <5>1 DEF NamedOnce
        <5> QED BY <3>2, <5>2
      <4> QED BY <4>1, <4>2, <4>3
    <3>4. \A s \in Holders(d) :
            /\ held'[s] = held[s]
            /\ held[s] # held'[t]
            /\ \A i \in 1..Len(theFree'[d]) : theFree'[d][i] # held[s]
      BY <1>0, <2>0, <2>1, <3>2 DEF NamedOnce
    <3>5. held'[t] \in 1..created[d]
      BY <1>0, <3>2 DEF NamedOnce
    <3> QED BY <1>0, <2>0, <2>4, <3>1, <3>3, <3>4, <3>5 DEF NamedOnce
  <2> QED BY <1>1, <2>2, <2>3, <2>4 DEF GetClient
<1>2. ASSUME NEW t \in Threads, RunLambdaThrows(t) \/ ReleaseClient(t)
      PROVE  NamedOnce(d)'
  <2>0. /\ t \in Holders(d) <=> d = dest[t]
        /\ Holders(d)' = Holders(d) \ {t}
    BY <1>2, HoldersStep
  <2>1. created' = created /\ \A s \in Threads : s # t => held'[s] = held[s]
    BY <1>0, <1>2 DEF RunLambdaThrows, ReleaseClient
  <2>2. CASE theFree'[d] = theFree[d]
    BY <1>0, <2>0, <2>1, <2>2 DEF NamedOnce
  <2>3. CASE d = dest[t] /\ theFree'[d] = Append(theFree[d], held[t])
    <3>1. /\ Len(theFree'[d]) = Len(theFree[d]) + 1
          /\ theFree'[d][Len(theFree[d]) + 1] = held[t]
          /\ \A i \in 1..Len(theFree[d]) : theFree'[d][i] = theFree[d][i]
      BY <1>0, <2>3
    <3>2. /\ t \in Holders(d)
          /\ \A s \in Holders(d)' : /\ s \in Holders(d) /\ s # t
                                    /\ held'[s] = held[s]
      BY <1>0, <2>0, <2>1, <2>3
    <3>3. \A i \in 1..Len(theFree'[d]) :
            \/ i \in 1..Len(theFree[d]) /\ theFree'[d][i] = theFree[d][i]
            \/ i = Len(theFree[d]) + 1 /\ theFree'[d][i] = held[t]
      <4> SUFFICES ASSUME NEW i \in 1..Len(theFree'[d]),
                          i # Len(theFree[d]) + 1
                   PROVE  i \in 1..Len(theFree[d])
        BY <3>1
      <4> QED BY <1>0, <3>1
    <3>4. \A i \in 1..Len(theFree'[d]) : theFree'[d][i] \in 1..created[d]
      BY <1>0, <3>2, <3>3 DEF NamedOnce
    <3>5. ASSUME NEW i \in 1..Len(theFree'[d]), NEW j \in 1..Len(theFree'[d]),
                 theFree'[d][i] = theFree'[d][j]
          PROVE  i = j
      <4>1. \A k \in 1..Len(theFree[d]) : theFree[d][k] # held[t]
        BY <1>0, <3>2 DEF NamedOnce
      <4>2. CASE i \in 1..Len(theFree[d]) /\ j \in 1..Len(theFree[d])
        BY <1>0, <3>1, <3>5, <4>2 DEF NamedOnce
      <4> QED BY <3>3, <3>5, <4>1, <4>2
    <3>6. ASSUME NEW s \in Holders(d)', NEW i \in 1..Len(theFree'[d])
          PROVE  theFree'[d][i] # held'[s]
      BY <1>0, <3>2, <3>3 DEF NamedOnce
    <3> QED BY <1>0, <2>1, <3>2, <3>4, <3>5, <3>6 DEF NamedOnce
  <2> QED BY <1>2, <2>2, <2>3 DEF RunLambdaThrows, ReleaseClient, TypeOK
<1>3. ASSUME NEW t \in Threads,
             \/ \E e \in Destinations : Call(t, e)
             \/ Sleep(t) \/ SpuriousWakeUp(t) \/ RunLambda(t)
      PROVE  NamedOnce(d)'
  <2>1. Holders(d)' = Holders(d)
    BY <1>3, HoldersStep
  <2>2. UNCHANGED <<theFree, created, held>>
    BY <1>3 DEF Call, Sleep, SpuriousWakeUp, RunLambda
  <2> QED BY <1>0, <2>1, <2>2 DEF NamedOnce
<1>4. CASE UNCHANGED vars \/ Finished
  BY <1>0, <1>4 DEF vars, Finished, NamedOnce, Holders, At
<1> QED BY <1>1, <1>2, <1>3, <1>4 DEF Next, ThreadStep

(* No two calls ever share a client, although the calls are made without   *)
(* theMutex: a client leaves the list in getClient and goes back to it     *)
(* only in releaseClient.                                                  *)
THEOREM PoolClientExclusive == Spec => []ClientExclusive
<1>1. Init => NamedOnceAll
  BY DEF Init, NamedOnceAll, NamedOnce, Holders, At
<1>2. IInv /\ NamedOnceAll /\ [Next]_vars => NamedOnceAll'
  BY NamedOnceStep DEF NamedOnceAll
<1>3. NamedOnceAll => ClientExclusive
  BY DEF NamedOnceAll, NamedOnce, ClientExclusive
<1> QED BY Accounting, <1>1, <1>2, <1>3, PTL DEF Spec

(* The two modules count with the same operator.  *)
LEMMA SlotsCardinality == \A S : Slots!Cardinality(S) = Cardinality(S)
BY DEF Slots!Cardinality, Cardinality

(* The pool implements CallSlots: taking a client, fresh or idle, is       *)
(* acquiring a slot, releaseClient gives it back and an exception loses it.*)
THEOREM PoolImplementsSlots == Spec => SlotsSpec
<1> DEFINE H == [d \in Destinations |-> Holders(d)]
<1>1. Init => Slots!Init
  <2> SUFFICES ASSUME Init PROVE Slots!Init
    OBVIOUS
  <2>1. ASSUME NEW d \in Destinations PROVE Holders(d) = {}
    BY DEF Init, Holders, At
  <2> QED
    BY <2>1 DEF Init, Slots!Init
<1>2. IInv /\ [Next]_vars => [Slots!Next]_(Slots!slotVars)
  <2> SUFFICES ASSUME IInv, [Next]_vars
               PROVE  Slots!Next \/ UNCHANGED <<H, lost>>
    BY DEF Slots!slotVars
  <2> USE DEF IInv
  <2>1. ASSUME NEW t \in Threads,
               \/ \E e \in Destinations : Call(t, e)
               \/ Sleep(t) \/ SpuriousWakeUp(t) \/ RunLambda(t)
        PROVE  UNCHANGED <<H, lost>>
    <3>1. \A d \in Destinations : Holders(d)' = Holders(d)
      BY <2>1, HoldersStep
    <3>2. lost' = lost
      BY <2>1 DEF Call, Sleep, SpuriousWakeUp, RunLambda
    <3> QED
      BY <3>1, <3>2
  <2>2. ASSUME NEW t \in Threads, GetClient(t)
        PROVE  Slots!Acquire(t, dest[t]) /\ dest[t] \in Destinations
    <3>0. dest[t] \in Destinations
      BY <2>2 DEF GetClient, TypeOK, DestOK
    <3>1. \A d \in Destinations :
            /\ t \notin Holders(d)
            /\ Holders(d)' = IF d = dest[t] THEN Holders(d) \cup {t}
                                            ELSE Holders(d)
      BY <2>2, HoldersStep
    <3>2. H' = [H EXCEPT ![dest[t]] = @ \cup {t}]
      BY <3>0, <3>1
    <3>3. MaxClients = 0 \/ theBusy[dest[t]] < MaxClients
      <4>1. CASE theFree[dest[t]] # <<>>
        <5>1. /\ theFree[dest[t]] \in Seq(Nat) /\ theBusy[dest[t]] \in Nat
              /\ created[dest[t]] \in Nat /\ MaxClients \in Nat
          BY <3>0, ClientPoolAssumption DEF TypeOK
        <5>2. Len(theFree[dest[t]]) \in Nat /\ Len(theFree[dest[t]]) >= 1
          BY <4>1, <5>1
        <5>3. /\ created[dest[t]] = theBusy[dest[t]] + Len(theFree[dest[t]])
              /\ MaxClients # 0 => created[dest[t]] <= MaxClients
          BY <3>0 DEF ClientsBounded
        <5> QED
          BY <5>1, <5>2, <5>3
      <4> QED
        BY <2>2, <4>1 DEF GetClient, Available
    <3>4. theBusy[dest[t]] = Cardinality(Holders(dest[t])) + lost[dest[t]]
      BY <3>0 DEF BusyCount
    <3>5. lost' = lost
      BY <2>2 DEF GetClient
    <3>6. Slots!Occupied(dest[t]) = theBusy[dest[t]]
      <4>1. H[dest[t]] = Holders(dest[t])
        BY <3>0
      <4> QED
        BY <3>4, <4>1, SlotsCardinality DEF Slots!Occupied
    <3> QED
      BY <3>0, <3>1, <3>2, <3>3, <3>5, <3>6 DEF Slots!Acquire
  <2>3. ASSUME NEW t \in Threads, RunLambdaThrows(t) \/ ReleaseClient(t)
        PROVE  /\ Slots!Lose(t, dest[t]) \/ Slots!GiveBack(t, dest[t])
               /\ dest[t] \in Destinations
    <3>0. dest[t] \in Destinations
      BY <2>3 DEF RunLambdaThrows, ReleaseClient, TypeOK, DestOK
    <3>1. \A d \in Destinations : /\ t \in Holders(d) <=> d = dest[t]
                                  /\ Holders(d)' = Holders(d) \ {t}
      BY <2>3, HoldersStep
    <3>2. /\ H' = [H EXCEPT ![dest[t]] = @ \ {t}]
          /\ t \in H[dest[t]]
      <4>1. \A d \in Destinations :
              Holders(d)' = IF d = dest[t] THEN Holders(d) \ {t} ELSE Holders(d)
        BY <3>1
      <4> QED
        BY <3>0, <3>1, <4>1
    <3>3. CASE RunLambdaThrows(t)
      <4>1. lost' = [lost EXCEPT ![dest[t]] = @ + 1]
        BY <3>3 DEF RunLambdaThrows
      <4> QED
        BY <3>0, <3>2, <4>1 DEF Slots!Lose
    <3>4. CASE ReleaseClient(t)
      <4>1. lost' = lost
        BY <3>4 DEF ReleaseClient
      <4> QED
        BY <3>0, <3>2, <4>1 DEF Slots!GiveBack
    <3> QED
      BY <2>3, <3>0, <3>3, <3>4
  <2>4. CASE UNCHANGED vars \/ Finished
    <3>1. pc' = pc /\ dest' = dest /\ lost' = lost
      BY <2>4 DEF vars, Finished
    <3>2. \A d \in Destinations : Holders(d)' = Holders(d)
      BY <3>1 DEF Holders, At
    <3> QED
      BY <3>1, <3>2
  <2> QED
    BY <2>1, <2>2, <2>3, <2>4 DEF Next, ThreadStep, Slots!Next
<1> QED
  BY Accounting, <1>1, <1>2, PTL DEF Spec, SlotsSpec, Slots!Spec
==============================================================================
