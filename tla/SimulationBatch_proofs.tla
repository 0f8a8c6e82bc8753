----------------------- MODULE SimulationBatch_proofs -----------------------
(***************************************************************************)
(* The batches of simulations, for any network, traces, policies and       *)
(* workers: run() collects exactly the outcomes of its own call if none is *)
(* left of another, the last of the workers that race for the central node *)
(* leaves a best one, although several publish candidates, and a           *)
(* scenario of LambdaMuSim accounts for its apps, whatever their periods.  *)
(***************************************************************************)
EXTENDS SimulationBatch, FiniteSetTheorems, SequenceTheorems, WellFoundedInduction, TLAPS

\* A set of natural numbers that is not empty has a least element.
LEMMA NatMin ==
  ASSUME NEW S \in SUBSET Nat, S # {}
  PROVE  \E x \in S : \A y \in S : x <= y
<1> DEFINE R == OpToRel(<, Nat)
<1>1. IsWellFoundedOn(R, Nat)
  BY NatLessThanWellFounded
<1>2. PICK x \in S : \A y \in S : ~ (<<y, x>> \in R)
  <2> HIDE DEF R
  <2> QED BY <1>1, WFMin
<1>3. R = {p \in Nat \X Nat : p[1] < p[2]}
  BY DEF OpToRel
<1> HIDE DEF R
<1>4. \A y \in S : ~ (y < x)
  BY <1>2, <1>3
<1> QED
  BY <1>4, x \in Nat

\* A finite set of natural numbers that is not empty has a greatest element.
LEMMA NatMax ==
  ASSUME NEW S \in SUBSET Nat, IsFiniteSet(S), S # {}
  PROVE  \E x \in S : \A y \in S : y <= x
<1> DEFINE Bad == {n \in Nat : \E T \in SUBSET S : /\ T # {} /\ Cardinality(T) = n
                                                   /\ ~ \E x \in T : \A y \in T : y <= x}
<1>1. SUFFICES Bad = {}
  BY FS_CardinalityType DEF Bad
<1>2. SUFFICES ASSUME Bad # {} PROVE FALSE
  OBVIOUS
<1>3. PICK n \in Bad : \A m \in Bad : n <= m
  <2>1. Bad \in SUBSET Nat OBVIOUS
  <2> HIDE DEF Bad
  <2> QED BY <1>2, <2>1, NatMin
<1>4. PICK T \in SUBSET S : /\ T # {} /\ Cardinality(T) = n
                            /\ ~ \E x \in T : \A y \in T : y <= x
  BY <1>3 DEF Bad
<1>5. PICK a \in T : TRUE
  BY <1>4
<1>6. a \in Nat
  OBVIOUS
<1>7. T \ {a} # {}
  BY <1>4, <1>6
<1>8. IsFiniteSet(T) /\ IsFiniteSet(T \ {a})
  BY FS_Subset
<1>9. Cardinality(T \ {a}) = n - 1 /\ n \in Nat /\ Cardinality(T \ {a}) \in Nat
  BY <1>4, <1>8, FS_RemoveElement, FS_CardinalityType
<1>10. Cardinality(T \ {a}) \notin Bad
  <2> HIDE DEF Bad
  <2> QED BY <1>3, <1>9
<1>11. PICK x \in T \ {a} : \A y \in T \ {a} : y <= x
  BY <1>7, <1>9, <1>10
<1>12. CASE x <= a
  <2>1. \A y \in T : y \in Nat BY <1>4
  <2>2. \A y \in T : y <= a BY <1>11, <1>12, <1>6, <2>1
  <2> QED BY <2>2, <1>4
<1>13. CASE a <= x
  <2>1. \A y \in T : y <= x BY <1>11, <1>13
  <2> QED BY <2>1, <1>4
<1> QED
  BY <1>12, <1>13, <1>6
-----------------------------------------------------------------------------
(***************************************************************************)
(* Sets of numbers in ascending order.                                     *)
\* What is computed from each element of a finite set is finite.
LEMMA FiniteImage ==
  ASSUME NEW S, IsFiniteSet(S), NEW f
  PROVE  IsFiniteSet({f[x] : x \in S})
<1>1. PICK h : h = [x \in S |-> f[x]]
  OBVIOUS
<1>2. PICK T : T = {f[x] : x \in S}
  OBVIOUS
<1>3. h \in Surjection(S, T)
  BY <1>1, <1>2 DEF Surjection
<1> QED
  BY <1>2, <1>3, FS_Surjection

-----------------------------------------------------------------------------
(***************************************************************************)
(* The transfer times are natural numbers.                                 *)
(***************************************************************************)
LinkCost(x) == IF x \in Net.links THEN Net.txCost[x] ELSE 0

\* The recursive function in CostOf, up to paths of k elements.
AddsOne(f, s) ==
  IF s = {} THEN 0 ELSE LinkCost(CHOOSE x \in s : TRUE) + f[s \ {CHOOSE x \in s : TRUE}]
Adds(f, S, k) == f = [s \in {u \in SUBSET S : Cardinality(u) <= k} |-> AddsOne(f, s)]

LEMMA AddsExists ==
  ASSUME NEW S, IsFiniteSet(S), NEW n \in Nat
  PROVE  \E f : Adds(f, S, n)
<1> DEFINE Small(k) == {u \in SUBSET S : Cardinality(u) <= k}
           Bad == {m \in Nat : ~ \E f : Adds(f, S, m)}
<1>0. \A u \in SUBSET S : IsFiniteSet(u) /\ Cardinality(u) \in Nat
  BY FS_Subset, FS_CardinalityType
<1>1. SUFFICES ASSUME Bad # {} PROVE FALSE
  OBVIOUS
<1>2. PICK m \in Bad : \A k \in Bad : m <= k
  <2>1. Bad \in SUBSET Nat OBVIOUS
  <2> HIDE DEF Bad
  <2> QED BY <1>1, <2>1, NatMin
<1>3. m \in Nat /\ ~ \E f : Adds(f, S, m)
  OBVIOUS
<1>4. CASE m = 0
  <2>1. PICK f : f = [s \in Small(0) |-> 0]
    OBVIOUS
  <2>2. \A s \in Small(0) : s = {}
    BY <1>0, FS_EmptySet
  <2>3. Adds(f, S, 0)
    BY <2>1, <2>2 DEF Adds, AddsOne
  <2> QED
    BY <1>3, <1>4, <2>3
<1>5. CASE m # 0
  <2>1. m - 1 \in Nat /\ ~ (m <= m - 1)
    BY <1>3, <1>5
  <2>2. m - 1 \notin Bad
    <3> HIDE DEF Bad
    <3> QED BY <2>1, <1>2
  <2>3. PICK f : Adds(f, S, m - 1)
    BY <2>1, <2>2
  <2>4. PICK t : t = [s \in Small(m) |-> AddsOne(f, s)]
    OBVIOUS
  <2>5. \A s \in Small(m - 1) : s \in Small(m) /\ f[s] = AddsOne(f, s)
    BY <2>3, <1>0, <1>3 DEF Adds
  <2>6. \A s \in Small(m) : s # {} => s \ {CHOOSE x \in s : TRUE} \in Small(m - 1)
    <3> TAKE s \in Small(m)
    <3> HAVE s # {}
    <3>1. PICK x : x = CHOOSE y \in s : TRUE
      OBVIOUS
    <3>2. x \in s
      BY <3>1
    <3>3. Cardinality(s \ {x}) = Cardinality(s) - 1
      BY <3>2, <1>0, FS_RemoveElement
    <3> QED
      BY <3>1, <3>3, <1>0, <1>3
  <2>7. \A s \in Small(m - 1) : t[s] = f[s]
    BY <2>4, <2>5
  <2>8. \A s \in Small(m) : t[s] = AddsOne(t, s)
    <3> TAKE s \in Small(m)
    <3>1. t[s] = AddsOne(f, s)
      BY <2>4
    <3> QED
      BY <3>1, <2>6, <2>7 DEF AddsOne
  <2>9. Adds(t, S, m)
    <3>1. t = [s \in Small(m) |-> t[s]] BY <2>4
    <3> QED BY <3>1, <2>8 DEF Adds
  <2> QED
    BY <2>9, <1>3
<1> QED
  BY <1>4, <1>5


LEMMA LinkCostNat == \A x : LinkCost(x) \in Nat
BY NetAssumption DEF ValidNetwork, LinkCost

LEMMA CostOfNat ==
  ASSUME NEW S, IsFiniteSet(S)
  PROVE  CostOf(S) \in Nat
<1>0. \A u \in SUBSET S : IsFiniteSet(u) /\ Cardinality(u) \in Nat /\ Cardinality(u) <= Cardinality(S)
  BY FS_Subset, FS_CardinalityType
<1>1. PICK t : t = CHOOSE iter : iter = [s \in SUBSET S |->
                     IF s = {} THEN 0 ELSE LinkCost(CHOOSE x \in s : TRUE) + iter[s \ {CHOOSE x \in s : TRUE}]]
  OBVIOUS
<1>2. CostOf(S) = t[S]
  BY <1>1 DEF CostOf, LinkCost, MapThenSumSet, MapThenFoldSet
<1>3. \E f : f = [s \in SUBSET S |->
               IF s = {} THEN 0 ELSE LinkCost(CHOOSE x \in s : TRUE) + f[s \ {CHOOSE x \in s : TRUE}]]
  <2>1. Cardinality(S) \in Nat
    BY FS_CardinalityType
  <2>2. PICK f : Adds(f, S, Cardinality(S))
    BY <2>1, AddsExists
  <2>3. {u \in SUBSET S : Cardinality(u) <= Cardinality(S)} = SUBSET S
    BY <1>0
  <2> QED
    BY <2>2, <2>3 DEF Adds, AddsOne
<1>4. \A s \in SUBSET S : t[s] = AddsOne(t, s)
  BY <1>1, <1>3 DEF AddsOne
<1> DEFINE Bad == {n \in Nat : \E u \in SUBSET S : Cardinality(u) = n /\ t[u] \notin Nat}
<1>5. Bad = {}
  <2>1. SUFFICES ASSUME Bad # {} PROVE FALSE
    OBVIOUS
  <2>2. PICK n \in Bad : \A m \in Bad : n <= m
    <3>1. Bad \in SUBSET Nat OBVIOUS
    <3> HIDE DEF Bad
    <3> QED BY <2>1, <3>1, NatMin
  <2>3. PICK u \in SUBSET S : Cardinality(u) = n /\ t[u] \notin Nat
    BY <2>2 DEF Bad
  <2>4. u # {}
    <3>1. t[{}] = 0
      BY <1>4 DEF AddsOne
    <3> QED
      BY <2>3, <3>1
  <2>5. PICK x : x = CHOOSE y \in u : TRUE
    OBVIOUS
  <2>6. x \in u /\ t[u] = LinkCost(x) + t[u \ {x}]
    BY <2>4, <2>5, <1>4 DEF AddsOne
  <2>7. Cardinality(u \ {x}) = n - 1 /\ n \in Nat /\ n - 1 \in Nat
    <3>1. IsFiniteSet(u) /\ Cardinality(u \ {x}) \in Nat
      BY <1>0
    <3>2. Cardinality(u \ {x}) = Cardinality(u) - 1
      BY <3>1, <2>6, FS_RemoveElement
    <3> QED
      BY <2>3, <3>1, <3>2
  <2>8. n - 1 \notin Bad
    <3> HIDE DEF Bad
    <3> QED BY <2>2, <2>7
  <2>9. t[u \ {x}] \in Nat
    BY <2>7, <2>8
  <2> QED
    BY <2>3, <2>6, <2>9, LinkCostNat
<1> QED
  BY <1>0, <1>2, <1>5

LEMMA NetworkFinite ==
  /\ IsFiniteSet(Elements) /\ Cardinality(Elements) \in Nat
  /\ IsFiniteSet(ToSet(Net.processing))
  /\ Len(Net.processing) \in Nat /\ DOMAIN Net.processing = 1 .. Len(Net.processing)
<1>1. PICK P : P = {{x[1], x[2]} : x \in Net.edges}
  OBVIOUS
<1>2. IsFiniteSet(P)
  <2>1. PICK f : f = [x \in Net.edges |-> {x[1], x[2]}]
    OBVIOUS
  <2>2. P = {f[x] : x \in Net.edges}
    BY <1>1, <2>1
  <2> QED
    BY <2>2, NetAssumption, FiniteImage
<1>3. \A T \in P : IsFiniteSet(T)
  <2>1. \A a, b : IsFiniteSet({a} \cup {b})
    BY FS_Singleton, FS_Union
  <2>2. \A a, b : {a, b} = {a} \cup {b}
    OBVIOUS
  <2> TAKE T \in P
  <2>3. PICK x \in Net.edges : T = {x[1], x[2]}
    BY <1>1
  <2>4. PICK a, b : T = {a, b}
    BY <2>3
  <2>5. IsFiniteSet({a} \cup {b})
    BY <2>1
  <2>6. T = {a} \cup {b}
    BY <2>2, <2>4
  <2> QED
    BY <2>5, <2>6
<1>4. IsFiniteSet(Elements)
  BY <1>1, <1>2, <1>3, FS_UNION DEF Elements
<1>5. Len(Net.processing) \in Nat /\ DOMAIN Net.processing = 1 .. Len(Net.processing)
  BY NetAssumption
<1>6. IsFiniteSet(DOMAIN Net.processing)
  BY <1>5, FS_Interval
<1> QED
  BY <1>4, <1>5, <1>6, FiniteImage, FS_CardinalityType DEF ToSet

LEMMA BetweenFinite ==
  ASSUME NEW src, NEW dst
  PROVE  IsFiniteSet(Between(src, dst))
<1>1. PICK hop : Between(src, dst) = {hop[k] : k \in 1 .. Cardinality(Elements)} \ {src, dst}
  <2>1. PICK hop : hop = CHOOSE h : h = [k \in 0 .. Cardinality(Elements) |->
                                           IF k = 0 THEN src ELSE dijkstra(dst)[h[k - 1]]]
    OBVIOUS
  <2>2. Between(src, dst) = {hop[k] : k \in 1 .. Cardinality(Elements)} \ {src, dst}
    BY <2>1 DEF Between
  <2> QED
    BY <2>2
<1>2. IsFiniteSet({hop[k] : k \in 1 .. Cardinality(Elements)})
  <2>1. IsFiniteSet(1 .. Cardinality(Elements))
    BY NetworkFinite, FS_Interval
  <2> QED
    BY <2>1, FiniteImage
<1> QED
  BY <1>1, <1>2, FS_Difference

\* The worst transfer time of a candidate is a number.
LEMMA WorstNat ==
  ASSUME NEW n \in ToSet(Net.processing)
  PROVE  Worst(n) \in Nat
<1> DEFINE P == ToSet(Net.processing)
           From == {txTime(cacheEntry, n, t, 1) : t \in P}
           To == {txTime(cacheEntry, t, n, 1) : t \in P}
<1>1. \A s, t \in P : txTime(cacheEntry, s, t, 1) \in Nat
  <2> SUFFICES ASSUME NEW s \in P, NEW t \in P PROVE txTime(cacheEntry, s, t, 1) \in Nat
    OBVIOUS
  <2>1. CostOf(Between(s, t)) \in Nat
    BY BetweenFinite, CostOfNat
  <2>2. cacheEntry[s][t].tx = CostOf(Between(s, t))
    BY DEF cacheEntry
  <2> QED
    BY <2>1, <2>2 DEF txTime
<1>2. IsFiniteSet(From)
  <2>1. PICK f : f = [t \in P |-> txTime(cacheEntry, n, t, 1)]
    OBVIOUS
  <2>2. From = {f[t] : t \in P}
    BY <2>1
  <2> HIDE DEF From, P
  <2> QED
    BY <2>2, NetworkFinite, FiniteImage DEF P
<1>3. IsFiniteSet(To)
  <2>1. PICK f : f = [t \in P |-> txTime(cacheEntry, t, n, 1)]
    OBVIOUS
  <2>2. To = {f[t] : t \in P}
    BY <2>1
  <2> HIDE DEF To, P
  <2> QED
    BY <2>2, NetworkFinite, FiniteImage DEF P
<1>4. PICK U : U = From \cup To
  OBVIOUS
<1>5. IsFiniteSet(U)
  <2> HIDE DEF From, To
  <2> QED BY <1>2, <1>3, <1>4, FS_Union
<1>6. U \in SUBSET Nat /\ U # {}
  BY <1>1, <1>4
<1>7. \E x \in U : \A y \in U : x >= y
  <2>1. PICK x \in U : \A y \in U : y <= x
    BY <1>5, <1>6, NatMax
  <2>2. \A y \in U : x >= y
    BY <2>1, <1>6
  <2> QED
    BY <2>2
<1>8. Max(U) \in U
  BY <1>7 DEF Max
<1> QED
  BY <1>4, <1>6, <1>8 DEF Worst

-----------------------------------------------------------------------------
(***************************************************************************)
(* The inductive invariant.                                                *)
(***************************************************************************)
Fields == {"at", "id", "placed", "centrals", "k", "worst"}
Where == {"waiting", "popped", "central", "searching", "publishing", "scenario", "good", "thrown", "ended"}
Free == {"waiting", "ended"}
Working(w) == worker[w].at \notin Free
OnIt(i) == \E w \in Workers : Working(w) /\ worker[w].id = i
AllOnIt == {i \in DOMAIN descs : OnIt(i)}
InQueue(i) == \E p \in DOMAIN queueIn : queueIn[p] = i
Thrown == \E p \in DOMAIN queueOut : ~ queueOut[p]
Searching(w) == worker[w].at \in {"searching", "publishing"}

(* what RunCollects says of the results of a simulation *)
Done(i) ==
  /\ Placed(i).good
  /\ \A k \in DOMAIN Net.processing : data[i].load[k] = Placed(i).load[Net.processing[k]]
  /\ Len(data[i].jobs) = Len(scenario.jobs)

(* a simulation is of one worker *)
WorkersInv ==
  /\ DOMAIN worker = Workers
  /\ \A w \in Workers :
       /\ DOMAIN worker[w] = Fields /\ worker[w].at \in Where
       /\ worker[w].k \in Nat /\ worker[w].worst \in Nat
       /\ Working(w) => worker[w].id \in DOMAIN descs
       /\ ~ Working(w) => worker[w].id = 0
  /\ \A v, w \in Workers : Working(v) /\ Working(w) /\ worker[v].id = worker[w].id => v = w

(* a simulation is in the queue once, or of a worker, or has an outcome *)
QueuesInv ==
  /\ Len(descs) \in Nat /\ DOMAIN descs = 1 .. Len(descs)
  /\ queueIn \in Seq(DOMAIN descs) /\ queueOut \in Seq(BOOLEAN)
  /\ \A p, q \in DOMAIN queueIn : queueIn[p] = queueIn[q] => p = q
  /\ \A p \in DOMAIN queueIn : ~ OnIt(queueIn[p])
  /\ closed => main \in {"returned", "bailed"}
  /\ main = "waiting" => counter = Cardinality(AllOnIt) + Len(queueIn) + Len(queueOut)
  /\ main \in {"out", "returned"} =>
       queueIn = <<>> /\ queueOut = <<>> /\ \A i \in DOMAIN descs : ~ OnIt(i)

(* the results are good, or are still to be computed, or run() will bail out *)
DataInv ==
  tool = "statesim" =>
    /\ DOMAIN data = DOMAIN descs
    /\ main # "out" => Len(scenario.jobs) \in Nat /\ DOMAIN scenario.jobs = 1 .. Len(scenario.jobs)
    /\ \A w \in Workers :
         /\ worker[w].at # "scenario"
         /\ worker[w].at \in {"central", "searching", "publishing"} =>
              worker[w].placed = Placed(worker[w].id) /\ Placed(worker[w].id).good
         /\ worker[w].at = "good" => Done(worker[w].id)
    /\ main = "waiting" => \A i \in DOMAIN descs : InQueue(i) \/ OnIt(i) \/ Done(i) \/ Thrown
    /\ main = "returned" => \A i \in DOMAIN descs : Done(i)

(* the central node is a best one, or a worker that searches is going to   *)
(* replace it, or it is the best that this worker has met                  *)
Best == \A i \in DOMAIN Net.processing : Worst(central) <= Worst(Net.processing[i])
BestSeen(w) == \A i \in 1 .. (worker[w].k - 1) : worker[w].worst <= Worst(Net.processing[i])
Leads(w) ==
  \/ worker[w].at = "publishing"
  \/ worker[w].at = "searching" /\ worker[w].worst = Worst(central)
CentralInv ==
  /\ central = None \/ central \in ToSet(Net.processing)
  /\ \A w \in Workers : worker[w].at = "searching" => worker[w].k \in 1 .. (Len(Net.processing) + 1)
  /\ \A w \in Workers : worker[w].at = "publishing" =>
       worker[w].k \in 1 .. Len(Net.processing) /\ worker[w].worst = Worst(Net.processing[worker[w].k])
  /\ \A w \in Workers : Searching(w) => BestSeen(w)
  /\ central = None => \A w \in Workers : worker[w].at = "searching" => worker[w].k = 1
  /\ central # None => Best \/ \E w \in Workers : Leads(w)

IInv == WorkersInv /\ QueuesInv /\ DataInv /\ CentralInv

LEMMA IdleFacts ==
  /\ DOMAIN Idle = Fields /\ Idle.at = "waiting" /\ Idle.id = 0 /\ Idle.k = 0 /\ Idle.worst = 0
BY DEF Idle, Fields

LEMMA InitIInv == Init => IInv
<1> SUFFICES ASSUME Init PROVE IInv
  OBVIOUS
<1>1. \A w \in Workers : worker[w] = Idle
  BY DEF Init
<1>2. WorkersInv
  BY <1>1, IdleFacts DEF Init, WorkersInv, Working, Free, Where
<1>3. \A w \in Workers : ~ Working(w) /\ worker[w].at = "waiting"
  BY <1>1, IdleFacts DEF Working, Free
<1>4. \A i : ~ OnIt(i)
  BY <1>3 DEF OnIt
<1>5. Len(descs) = 0 /\ DOMAIN descs = 1 .. 0 /\ queueIn = <<>> /\ queueOut = <<>> /\ main = "out" /\ ~ closed
  BY DEF Init
<1>6. QueuesInv
  BY <1>4, <1>5 DEF QueuesInv
<1>7. DataInv
  BY <1>3, <1>5 DEF Init, DataInv
<1>8. CentralInv
  BY <1>3 DEF Init, CentralInv, Searching
<1> QED
  BY <1>2, <1>6, <1>7, <1>8 DEF IInv

-----------------------------------------------------------------------------
(***************************************************************************)
(* A step of a worker that stays on its simulation.                        *)
(***************************************************************************)
Keeps(w, rec) ==
  /\ Working(w) /\ worker' = [worker EXCEPT ![w] = rec]
  /\ DOMAIN rec = Fields /\ rec.at \in Where \ Free /\ rec.id = worker[w].id
  /\ rec.k \in Nat /\ rec.worst \in Nat
  /\ UNCHANGED <<main, counter, queueIn, queueOut, closed, descs>>

LEMMA KeepsWorkers ==
  ASSUME WorkersInv, NEW w \in Workers, NEW rec, Keeps(w, rec)
  PROVE  WorkersInv' /\ \A i : OnIt(i)' <=> OnIt(i)
<1>1. worker'[w] = rec /\ DOMAIN worker' = Workers /\ \A v \in Workers \ {w} : worker'[v] = worker[v]
  BY DEF WorkersInv, Keeps
<1>2. \A v \in Workers : (Working(v)' <=> Working(v)) /\ worker'[v].id = worker[v].id
  BY <1>1 DEF Working, Keeps, Free
<1>3. \A i : OnIt(i)' <=> OnIt(i)
  BY <1>2 DEF OnIt
<1>4. \A v \in Workers :
       /\ DOMAIN worker'[v] = Fields /\ worker'[v].at \in Where
       /\ worker'[v].k \in Nat /\ worker'[v].worst \in Nat
  BY <1>1 DEF WorkersInv, Keeps
<1>5. descs' = descs
  BY DEF Keeps
<1> QED
  BY <1>1, <1>2, <1>3, <1>4, <1>5 DEF WorkersInv

LEMMA KeepsQueues ==
  ASSUME WorkersInv, QueuesInv, NEW w \in Workers, NEW rec, Keeps(w, rec)
  PROVE  QueuesInv'
<1>1. \A i : OnIt(i)' <=> OnIt(i)
  BY KeepsWorkers
<1>2. UNCHANGED <<main, counter, queueIn, queueOut, closed, descs>>
  BY DEF Keeps
<1>3. AllOnIt' = AllOnIt
  BY <1>1, <1>2 DEF AllOnIt
<1> QED
  BY <1>1, <1>2, <1>3 DEF QueuesInv

LEMMA KeepsData ==
  ASSUME WorkersInv, QueuesInv, DataInv, NEW w \in Workers, NEW rec, Keeps(w, rec),
         tool' = tool, scenario' = scenario,
         tool = "statesim" =>
           /\ data' = data \/ \E d : data' = [data EXCEPT ![worker[w].id] = d]
           /\ rec.at # "scenario"
           /\ rec.at \in {"central", "searching", "publishing"} =>
                rec.placed = Placed(rec.id) /\ Placed(rec.id).good
           /\ rec.at = "good" => Done(rec.id)'
  PROVE  DataInv'
<1> SUFFICES ASSUME tool = "statesim" PROVE DataInv'
  BY DEF DataInv
<1>1. worker'[w] = rec /\ DOMAIN worker' = Workers /\ \A v \in Workers \ {w} : worker'[v] = worker[v]
  BY DEF WorkersInv, Keeps
<1>2. UNCHANGED <<main, queueIn, queueOut, descs>> /\ rec.id = worker[w].id /\ Working(w)
  BY DEF Keeps
<1>3. \A i : OnIt(i)' <=> OnIt(i)
  BY KeepsWorkers
<1>4. \A i : Placed(i)' = Placed(i)
  BY <1>2 DEF Placed
<1>5. \A i \in DOMAIN descs : i # worker[w].id => data'[i] = data[i]
  BY DEF DataInv
<1>6. \A i \in DOMAIN descs : i # worker[w].id /\ Done(i) => Done(i)'
  BY <1>4, <1>5 DEF Done
<1>7. OnIt(worker[w].id) /\ worker[w].id \in DOMAIN descs
  BY <1>2 DEF OnIt, WorkersInv
<1>8. DOMAIN data' = DOMAIN descs'
  BY <1>2 DEF DataInv
<1>9. ASSUME NEW v \in Workers
      PROVE  (/\ worker[v].at # "scenario"
              /\ worker[v].at \in {"central", "searching", "publishing"} =>
                   worker[v].placed = Placed(worker[v].id) /\ Placed(worker[v].id).good
              /\ worker[v].at = "good" => Done(worker[v].id))'
  <2>1. CASE v = w
    BY <2>1, <1>1, <1>4
  <2>2. CASE v # w
    <3>1. worker'[v] = worker[v]
      BY <2>2, <1>1
    <3>2. worker[v].at = "good" => Done(worker[v].id) /\ worker[v].id \in DOMAIN descs /\ Working(v)
      BY DEF DataInv, WorkersInv, Working, Free
    <3>3. worker[v].at = "good" => worker[v].id # worker[w].id
      BY <3>2, <2>2, <1>2 DEF WorkersInv
    <3>4. worker[v].at = "good" => Done(worker[v].id)'
      <4>1. PICK i : i = worker[v].id
        OBVIOUS
      <4>2. worker[v].at = "good" => Done(i)'
        BY <4>1, <3>2, <3>3, <1>6
      <4> QED
        BY <4>1, <4>2, <3>1
    <3>5. worker[v].at # "scenario" /\ (worker[v].at \in {"central", "searching", "publishing"} =>
              worker[v].placed = Placed(worker[v].id) /\ Placed(worker[v].id).good)
      BY DEF DataInv
    <3> QED
      BY <3>1, <3>4, <3>5, <1>4
  <2> QED
    BY <2>1, <2>2
<1>10. main = "waiting" => \A i \in DOMAIN descs : (InQueue(i) \/ OnIt(i) \/ Done(i) \/ Thrown)'
  <2> SUFFICES ASSUME main = "waiting", NEW i \in DOMAIN descs
               PROVE  InQueue(i)' \/ OnIt(i)' \/ Done(i)' \/ Thrown'
    OBVIOUS
  <2>1. InQueue(i)' = InQueue(i) /\ Thrown' = Thrown
    BY <1>2 DEF InQueue, Thrown
  <2>2. InQueue(i) \/ OnIt(i) \/ Done(i) \/ Thrown
    BY DEF DataInv
  <2> QED
    BY <2>1, <2>2, <1>3, <1>6, <1>7
<1>11. main # "returned"
  BY <1>7 DEF QueuesInv
<1>12. main # "out" => Len(scenario'.jobs) \in Nat /\ DOMAIN scenario'.jobs = 1 .. Len(scenario'.jobs)
  BY DEF DataInv
<1> QED
  BY <1>2, <1>8, <1>9, <1>10, <1>11, <1>12 DEF DataInv

\* The steps of workers that do not search for the central node.
LEMMA CentralKept ==
  ASSUME WorkersInv, CentralInv, NEW w \in Workers, NEW rec, worker' = [worker EXCEPT ![w] = rec],
         central' = central, ~ Searching(w), rec.at \notin {"searching", "publishing"}
  PROVE  CentralInv'
<1>1. worker'[w] = rec /\ \A v \in Workers \ {w} : worker'[v] = worker[v]
  BY DEF WorkersInv
<1>2. \A v \in Workers : (Searching(v)' <=> Searching(v)) /\ (Searching(v) => worker'[v] = worker[v])
  BY <1>1 DEF Searching
<1>3. \A v \in Workers : /\ worker'[v].at = "searching" => worker[v].at = "searching" /\ worker'[v] = worker[v]
                         /\ worker'[v].at = "publishing" => worker[v].at = "publishing" /\ worker'[v] = worker[v]
  BY <1>1
<1>4. \A v \in Workers : (Leads(v) => Leads(v)') /\ (Searching(v)' => (BestSeen(v)' <=> BestSeen(v)))
  BY <1>1, <1>2 DEF Leads, BestSeen, Searching
<1>5. Best' <=> Best
  BY DEF Best
<1> QED
  BY <1>2, <1>3, <1>4, <1>5 DEF CentralInv

-----------------------------------------------------------------------------
(***************************************************************************)
(* The simulations.                                                        *)
(***************************************************************************)
LEMMA PerformanceFacts ==
  ASSUME NEW s, NEW placed, NEW policy, NEW centrals,
         Len(s.jobs) \in Nat, DOMAIN s.jobs = 1 .. Len(s.jobs)
  PROVE  /\ Len(performance(s, placed, policy, centrals).jobs) = Len(s.jobs)
         /\ \A k \in DOMAIN Net.processing :
              performance(s, placed, policy, centrals).load[k] = placed.load[Net.processing[k]]
<1>1. PICK f : f = performance(s, placed, policy, centrals).jobs
  OBVIOUS
<1>2. PICK n \in Nat : n = Len(s.jobs)
  OBVIOUS
<1>3. f = [j \in 1 .. n |->
             JobStat(s.cache, placed, policy, s.jobs[j], s.clients[j], placed.node[j],
                     [t \in DOMAIN s.jobs[j].tasks |-> centrals[NumTasks(s.jobs, j - 1) + t]])]
  BY <1>1, <1>2 DEF performance
<1>4. Len(f) = n
  BY <1>3
<1>5. \A k \in DOMAIN Net.processing :
        performance(s, placed, policy, centrals).load[k] = placed.load[Net.processing[k]]
  BY DEF performance
<1> QED
  BY <1>1, <1>2, <1>4, <1>5

\* The results that performance() gives for the placement of a simulation.
LEMMA ResultsDone ==
  ASSUME NEW i \in DOMAIN data, Placed(i).good,
         NEW policy, NEW centrals, Len(scenario.jobs) \in Nat,
         DOMAIN scenario.jobs = 1 .. Len(scenario.jobs), UNCHANGED <<scenario, descs>>,
         data' = [data EXCEPT ![i] = performance(scenario, Placed(i), policy, centrals)]
  PROVE  Done(i)'
<1>1. data'[i] = performance(scenario, Placed(i), policy, centrals)
  OBVIOUS
<1>2. Placed(i)' = Placed(i)
  BY DEF Placed
<1>3. PICK d : d = performance(scenario, Placed(i), policy, centrals)
  OBVIOUS
<1>4. /\ Len(d.jobs) = Len(scenario.jobs)
      /\ \A k \in DOMAIN Net.processing : d.load[k] = Placed(i).load[Net.processing[k]]
  BY <1>3, PerformanceFacts
<1> QED
  BY <1>1, <1>2, <1>3, <1>4 DEF Done

\* A worker that works was started by a call of run().
LEMMA WorksInRun ==
  ASSUME IInv, NEW w \in Workers, Working(w)
  PROVE  /\ worker[w].id \in DOMAIN descs /\ DOMAIN worker[w] = Fields
         /\ main \in {"out", "returned"} => FALSE
         /\ tool = "statesim" =>
              /\ DOMAIN data = DOMAIN descs
              /\ Len(scenario.jobs) \in Nat /\ DOMAIN scenario.jobs = 1 .. Len(scenario.jobs)
<1>1. worker[w].id \in DOMAIN descs /\ DOMAIN worker[w] = Fields
  BY DEF IInv, WorkersInv
<1>2. OnIt(worker[w].id)
  BY DEF OnIt
<1>3. main \in {"out", "returned"} => FALSE
  BY <1>1, <1>2 DEF IInv, QueuesInv
<1> QED
  BY <1>1, <1>3 DEF IInv, DataInv

LEMMA KeepsIInv ==
  ASSUME IInv, NEW w \in Workers, NEW rec, Keeps(w, rec), CentralInv',
         tool' = tool, scenario' = scenario,
         tool = "statesim" =>
           /\ data' = data \/ \E d : data' = [data EXCEPT ![worker[w].id] = d]
           /\ rec.at # "scenario"
           /\ rec.at \in {"central", "searching", "publishing"} =>
                rec.placed = Placed(rec.id) /\ Placed(rec.id).good
           /\ rec.at = "good" => Done(rec.id)'
  PROVE  IInv'
<1>1. WorkersInv /\ QueuesInv /\ DataInv
  BY DEF IInv
<1>2. WorkersInv'
  BY <1>1, KeepsWorkers
<1>3. QueuesInv'
  BY <1>1, KeepsQueues
<1>4. DataInv'
  BY <1>1, KeepsData
<1> QED
  BY <1>2, <1>3, <1>4 DEF IInv

LEMMA AllocateStep ==
  ASSUME IInv, NEW w \in Workers, Allocate(w)
  PROVE  IInv'
<1> DEFINE id == worker[w].id
           desc == descs[id]
           placed == allocateTasks(scenario, desc.alloc)
           empty == [t \in 1 .. NumTasks(scenario.jobs, Len(scenario.jobs)) |-> Net.processing[1]]
<1>1. /\ tool = "statesim" /\ worker[w].at = "popped"
      /\ UNCHANGED <<tool, runs, main, counter, queueIn, queueOut, closed, descs, scenario, central>>
  BY DEF Allocate
<1>2. Working(w) /\ ~ Searching(w)
  BY <1>1 DEF Working, Free, Searching
<1>3. /\ id \in DOMAIN descs /\ DOMAIN worker[w] = Fields /\ DOMAIN data = DOMAIN descs
      /\ Len(scenario.jobs) \in Nat /\ DOMAIN scenario.jobs = 1 .. Len(scenario.jobs)
  BY <1>1, <1>2, WorksInRun
<1>4. worker[w].k \in Nat /\ worker[w].worst \in Nat /\ WorkersInv /\ CentralInv
  BY DEF IInv, WorkersInv
<1>5. placed = Placed(id)
  BY DEF Placed
<1>6. PICK rec :
        /\ worker' = [worker EXCEPT ![w] = rec]
        /\ \/ /\ rec = [worker[w] EXCEPT !.at = "thrown"] /\ data' = data
           \/ /\ rec = [worker[w] EXCEPT !.at = "central", !.placed = placed] /\ data' = data
              /\ placed.good
           \/ /\ rec = [worker[w] EXCEPT !.at = "good"] /\ placed.good
              /\ data' = [data EXCEPT ![id] = performance(scenario, placed, desc.exec, empty)]
  <2> HIDE DEF placed, empty
  <2>1. CASE ~ placed.good
    BY <2>1 DEF Allocate, Set, placed, empty
  <2>2. CASE placed.good /\ desc.exec = "UnchainedInEdge"
    BY <2>2 DEF Allocate, Set, placed, empty
  <2>3. CASE placed.good /\ desc.exec # "UnchainedInEdge"
    BY <2>3 DEF Allocate, Set, placed, empty
  <2> QED
    BY <2>1, <2>2, <2>3
<1> HIDE DEF placed, empty
<1>7. /\ DOMAIN rec = Fields /\ rec.at \in {"thrown", "central", "good"} /\ rec.id = id
      /\ rec.k = worker[w].k /\ rec.worst = worker[w].worst
      /\ rec.at = "central" => rec.placed = placed /\ placed.good
  BY <1>3, <1>6 DEF Fields
<1>8. Keeps(w, rec)
  BY <1>1, <1>2, <1>4, <1>6, <1>7 DEF Keeps, Where, Free
<1>9. CentralInv'
  BY <1>1, <1>2, <1>4, <1>6, <1>7, CentralKept
<1>10. rec.at = "good" => Done(rec.id)'
  <2> SUFFICES ASSUME rec.at = "good" PROVE Done(rec.id)'
    OBVIOUS
  <2>1. rec # [worker[w] EXCEPT !.at = "thrown"]
    BY <1>3 DEF Fields
  <2>2. rec # [worker[w] EXCEPT !.at = "central", !.placed = placed]
    BY <1>3 DEF Fields
  <2>3. placed.good /\ data' = [data EXCEPT ![id] = performance(scenario, placed, desc.exec, empty)]
    BY <1>6, <2>1, <2>2
  <2> HIDE DEF id
  <2> QED
    BY <2>3, <1>1, <1>3, <1>5, <1>7, ResultsDone
<1>11. data' = data \/ \E d : data' = [data EXCEPT ![id] = d]
  BY <1>6
<1> QED
  BY <1>1, <1>5, <1>7, <1>8, <1>9, <1>10, <1>11, KeepsIInv

LEMMA PerformInEdgeStep ==
  ASSUME IInv, NEW w \in Workers, PerformInEdge(w)
  PROVE  IInv'
<1> DEFINE id == worker[w].id
<1>1. /\ worker[w].at = "central"
      /\ UNCHANGED <<tool, runs, main, counter, queueIn, queueOut, closed, descs, scenario, central>>
      /\ worker' = [worker EXCEPT ![w] = [worker[w] EXCEPT !.at = "good"]]
      /\ data' = [data EXCEPT ![id] =
                    performance(scenario, worker[w].placed, "UnchainedInEdge", worker[w].centrals)]
  BY DEF PerformInEdge, Set
<1>2. Working(w) /\ ~ Searching(w)
  BY <1>1 DEF Working, Free, Searching
<1>3. /\ id \in DOMAIN descs /\ DOMAIN worker[w] = Fields
      /\ tool = "statesim" =>
           /\ DOMAIN data = DOMAIN descs
           /\ Len(scenario.jobs) \in Nat /\ DOMAIN scenario.jobs = 1 .. Len(scenario.jobs)
  BY <1>1, <1>2, WorksInRun
<1>4. worker[w].k \in Nat /\ worker[w].worst \in Nat /\ WorkersInv /\ CentralInv
  BY DEF IInv, WorkersInv
<1>5. tool = "statesim" => worker[w].placed = Placed(id) /\ Placed(id).good
  BY <1>1 DEF IInv, DataInv
<1>6. PICK rec : rec = [worker[w] EXCEPT !.at = "good"]
  OBVIOUS
<1>7. /\ DOMAIN rec = Fields /\ rec.at = "good" /\ rec.id = id
      /\ rec.k = worker[w].k /\ rec.worst = worker[w].worst
  BY <1>3, <1>6 DEF Fields
<1>8. Keeps(w, rec)
  BY <1>1, <1>2, <1>4, <1>6, <1>7 DEF Keeps, Where, Free
<1>9. CentralInv'
  BY <1>1, <1>2, <1>4, <1>6, <1>7, CentralKept
<1>10. tool = "statesim" => Done(rec.id)'
  <2> HIDE DEF id
  <2> QED
    BY <1>1, <1>3, <1>5, <1>7, ResultsDone
<1> QED
  BY <1>1, <1>7, <1>8, <1>9, <1>10, KeepsIInv

LEMMA StartScenarioStep ==
  ASSUME IInv, NEW w \in Workers, StartScenario(w)
  PROVE  IInv'
<1>1. /\ worker[w].at = "popped" /\ tool = "lambdamusim"
      /\ UNCHANGED <<tool, runs, main, counter, queueIn, queueOut, closed, descs, scenario, central>>
      /\ worker' = [worker EXCEPT ![w] = [worker[w] EXCEPT !.at = "scenario"]]
  BY DEF StartScenario, Set
<1>2. Working(w) /\ ~ Searching(w)
  BY <1>1 DEF Working, Free, Searching
<1>3. DOMAIN worker[w] = Fields
  BY <1>2, WorksInRun
<1>4. worker[w].k \in Nat /\ worker[w].worst \in Nat /\ WorkersInv /\ CentralInv
  BY DEF IInv, WorkersInv
<1>6. PICK rec : rec = [worker[w] EXCEPT !.at = "scenario"]
  OBVIOUS
<1>7. /\ DOMAIN rec = Fields /\ rec.at = "scenario" /\ rec.id = worker[w].id
      /\ rec.k = worker[w].k /\ rec.worst = worker[w].worst
  BY <1>3, <1>6 DEF Fields
<1>8. Keeps(w, rec)
  BY <1>1, <1>2, <1>4, <1>6, <1>7 DEF Keeps, Where, Free
<1>9. CentralInv'
  BY <1>1, <1>2, <1>4, <1>6, <1>7, CentralKept
<1> QED
  BY <1>1, <1>8, <1>9, KeepsIInv

LEMMA EndScenarioStep ==
  ASSUME IInv, NEW w \in Workers, EndScenario(w)
  PROVE  IInv'
<1>1. /\ worker[w].at = "scenario"
      /\ UNCHANGED <<tool, runs, main, counter, queueIn, queueOut, closed, descs, scenario, central>>
  BY DEF EndScenario
<1>2. Working(w) /\ ~ Searching(w)
  BY <1>1 DEF Working, Free, Searching
<1>3. DOMAIN worker[w] = Fields
  BY <1>2, WorksInRun
<1>4. worker[w].k \in Nat /\ worker[w].worst \in Nat /\ WorkersInv /\ CentralInv
  BY DEF IInv, WorkersInv
<1>5. tool # "statesim"
  BY <1>1 DEF IInv, DataInv
<1>6. PICK rec : /\ worker' = [worker EXCEPT ![w] = rec]
                 /\ rec = [worker[w] EXCEPT !.at = IF phase = "done" THEN "good" ELSE "thrown"]
  BY DEF EndScenario, Set
<1>7. /\ DOMAIN rec = Fields /\ rec.at \in {"good", "thrown"} /\ rec.id = worker[w].id
      /\ rec.k = worker[w].k /\ rec.worst = worker[w].worst
  BY <1>3, <1>6 DEF Fields
<1>8. Keeps(w, rec)
  BY <1>1, <1>2, <1>4, <1>6, <1>7 DEF Keeps, Where, Free
<1>9. CentralInv'
  BY <1>1, <1>2, <1>4, <1>6, <1>7, CentralKept
<1> QED
  BY <1>1, <1>5, <1>8, <1>9, KeepsIInv

-----------------------------------------------------------------------------
(***************************************************************************)
(* The search for the central node.                                        *)
(***************************************************************************)
\* A step of central() for a worker: what is left to show is CentralInv.
Searches(w, rec) ==
  /\ worker[w].at \in {"central", "searching", "publishing"} /\ rec.at \in {"central", "searching", "publishing"}
  /\ worker' = [worker EXCEPT ![w] = rec] /\ DOMAIN rec = Fields /\ rec.id = worker[w].id
  /\ rec.placed = worker[w].placed /\ rec.k \in Nat /\ rec.worst \in Nat
  /\ UNCHANGED <<tool, main, counter, queueIn, queueOut, closed, descs, scenario, data>>

LEMMA SearchStep ==
  ASSUME IInv, NEW w \in Workers, NEW rec, Searches(w, rec), CentralInv'
  PROVE  IInv'
<1>1. Keeps(w, rec)
  BY DEF Searches, Keeps, Working, Free, Where
<1>2. tool = "statesim" => worker[w].placed = Placed(worker[w].id) /\ Placed(worker[w].id).good
  BY DEF IInv, DataInv, Searches
<1>3. /\ tool' = tool /\ scenario' = scenario /\ data' = data /\ rec.at \in {"central", "searching", "publishing"}
      /\ rec.id = worker[w].id /\ rec.placed = worker[w].placed
  BY DEF Searches
<1> QED
  BY <1>1, <1>2, <1>3, KeepsIInv

LEMMA CallCentralStep ==
  ASSUME IInv, NEW w \in Workers, CallCentral(w)
  PROVE  IInv'
<1>1. /\ worker[w].at = "central"
      /\ UNCHANGED <<tool, runs, main, counter, queueIn, queueOut, closed, descs, scenario, data, central>>
  BY DEF CallCentral
<1>2. ~ Searching(w)
  BY <1>1 DEF Searching
<1>3. DOMAIN worker[w] = Fields /\ worker[w].k \in Nat /\ worker[w].worst \in Nat /\ WorkersInv /\ CentralInv
  BY DEF IInv, WorkersInv
<1>4. CASE central # None
  <2>1. PICK rec : rec = [worker[w] EXCEPT !.at = "central", !.centrals = Append(@, central), !.k = 0]
    OBVIOUS
  <2>2. worker' = [worker EXCEPT ![w] = rec]
    BY <1>4, <2>1 DEF CallCentral, Set, Found
  <2>3. /\ DOMAIN rec = Fields /\ rec.at = "central" /\ rec.id = worker[w].id
        /\ rec.placed = worker[w].placed /\ rec.k = 0 /\ rec.worst = worker[w].worst
    BY <1>3, <2>1 DEF Fields
  <2>4. CentralInv'
    BY <1>1, <1>2, <1>3, <2>2, <2>3, CentralKept
  <2>5. Searches(w, rec)
    BY <1>1, <1>3, <2>2, <2>3 DEF Searches
  <2> QED
    BY <2>4, <2>5, SearchStep
<1>5. CASE central = None
  <2>1. PICK rec : rec = [worker[w] EXCEPT !.at = "searching", !.k = 1, !.worst = 0]
    OBVIOUS
  <2>2. worker' = [worker EXCEPT ![w] = rec]
    BY <1>5, <2>1 DEF CallCentral, Set
  <2>3. /\ DOMAIN rec = Fields /\ rec.at = "searching" /\ rec.id = worker[w].id
        /\ rec.placed = worker[w].placed /\ rec.k = 1 /\ rec.worst = 0
    BY <1>3, <2>1 DEF Fields
  <2>4. worker'[w] = rec /\ \A v \in Workers \ {w} : worker'[v] = worker[v]
    BY <1>3, <2>2 DEF WorkersInv
  <2>5. 1 \in 1 .. (Len(Net.processing) + 1)
    BY NetworkFinite
  <2>6. CentralInv'
    <3>1. central' = None
      BY <1>1, <1>5
    <3>2. BestSeen(w)'
      <4>1. \A i : i \notin 1 .. (1 - 1)
        OBVIOUS
      <4> QED
        BY <4>1, <2>3, <2>4 DEF BestSeen
    <3>3. \A v \in Workers \ {w} : Searching(v)' => BestSeen(v)'
      BY <1>3, <2>4 DEF CentralInv, Searching, BestSeen
    <3> QED
      BY <1>3, <1>5, <2>3, <2>4, <2>5, <3>1, <3>2, <3>3 DEF CentralInv
  <2>7. Searches(w, rec)
    BY <1>1, <1>3, <2>2, <2>3 DEF Searches
  <2> QED
    BY <2>6, <2>7, SearchStep
<1> QED
  BY <1>4, <1>5

LEMMA CentralFoundStep ==
  ASSUME IInv, NEW w \in Workers, CentralFound(w)
  PROVE  IInv'
<1>1. /\ worker[w].at = "searching" /\ worker[w].k > Len(Net.processing)
      /\ UNCHANGED <<tool, runs, main, counter, queueIn, queueOut, closed, descs, scenario, data, central>>
  BY DEF CentralFound
<1>3. DOMAIN worker[w] = Fields /\ worker[w].k \in Nat /\ worker[w].worst \in Nat /\ WorkersInv /\ CentralInv
  BY DEF IInv, WorkersInv
<1>4. PICK rec : rec = [worker[w] EXCEPT !.at = "central", !.centrals = Append(@, central), !.k = 0]
  OBVIOUS
<1>5. worker' = [worker EXCEPT ![w] = rec]
  BY <1>4 DEF CentralFound, Set, Found
<1>6. /\ DOMAIN rec = Fields /\ rec.at = "central" /\ rec.id = worker[w].id
      /\ rec.placed = worker[w].placed /\ rec.k = 0 /\ rec.worst = worker[w].worst
  BY <1>3, <1>4 DEF Fields
<1>7. worker'[w] = rec /\ \A v \in Workers \ {w} : worker'[v] = worker[v]
  BY <1>3, <1>5 DEF WorkersInv
<1>8. \A v \in Workers : Searching(v)' => v # w /\ Searching(v) /\ worker'[v] = worker[v]
  BY <1>6, <1>7 DEF Searching
<1>9. Best' <=> Best
  BY <1>1 DEF Best
<1>10. central # None /\ Leads(w) => Best
  <2> SUFFICES ASSUME Leads(w), NEW i \in DOMAIN Net.processing
               PROVE  Worst(central) <= Worst(Net.processing[i])
    BY DEF Best
  <2>1. i \in 1 .. (worker[w].k - 1)
    BY <1>1, <1>3, NetworkFinite
  <2>2. BestSeen(w) /\ worker[w].worst = Worst(central)
    BY <1>1, <1>3 DEF CentralInv, Searching, Leads
  <2> QED
    BY <2>1, <2>2 DEF BestSeen
<1>11. CentralInv'
  <2>1. \A v \in Workers : /\ worker'[v].at = "searching" => worker[v].at = "searching" /\ worker'[v] = worker[v]
                           /\ worker'[v].at = "publishing" => worker[v].at = "publishing" /\ worker'[v] = worker[v]
    BY <1>8 DEF Searching
  <2>2. \A v \in Workers : Searching(v)' => BestSeen(v)'
    BY <1>3, <1>8 DEF CentralInv, BestSeen
  <2>3. \A v \in Workers \ {w} : Leads(v) => Leads(v)'
    BY <1>1, <1>7 DEF Leads
  <2>4. central # None => Best' \/ \E v \in Workers : Leads(v)'
    BY <1>3, <1>9, <1>10, <2>3 DEF CentralInv
  <2> QED
    BY <1>1, <1>3, <2>1, <2>2, <2>4 DEF CentralInv
<1>12. Searches(w, rec)
  BY <1>1, <1>3, <1>5, <1>6 DEF Searches
<1> QED
  BY <1>11, <1>12, SearchStep

\* A candidate that is compared is one of the processing nodes.
LEMMA CandidateFacts ==
  ASSUME WorkersInv, CentralInv, NEW w \in Workers, Searching(w), worker[w].k <= Len(Net.processing)
  PROVE  /\ worker[w].k \in 1 .. Len(Net.processing)
         /\ worker[w].k + 1 \in 1 .. (Len(Net.processing) + 1)
         /\ Net.processing[worker[w].k] \in ToSet(Net.processing) \ {None}
         /\ \A i \in 1 .. worker[w].k : Worst(Net.processing[i]) \in Nat
         /\ \A i \in 1 .. worker[w].k : i = worker[w].k \/ i \in 1 .. (worker[w].k - 1)
<1>1. PICK j, m : j = worker[w].k /\ m = Len(Net.processing)
  OBVIOUS
<1>2. m \in Nat /\ DOMAIN Net.processing = 1 .. m
  BY <1>1, NetworkFinite
<1>3. j \in 1 .. m
  BY <1>1, <1>2 DEF CentralInv, Searching
<1>4. j + 1 \in 1 .. (m + 1) /\ \A i \in 1 .. j : i \in 1 .. m /\ (i = j \/ i \in 1 .. (j - 1))
  BY <1>2, <1>3
<1>5. \A i \in 1 .. m : Worst(Net.processing[i]) \in Nat
  BY <1>2, WorstNat DEF ToSet
<1>6. Net.processing[j] \in ToSet(Net.processing) \ {None}
  BY <1>2, <1>3, BatchAssumption DEF ToSet
<1> QED
  BY <1>1, <1>3, <1>4, <1>5, <1>6

LEMMA CompareStep ==
  ASSUME IInv, NEW w \in Workers, Compare(w)
  PROVE  IInv'
<1> DEFINE k == worker[w].k
           n == Net.processing[k]
<1>1. /\ worker[w].at = "searching" /\ k <= Len(Net.processing)
      /\ UNCHANGED <<tool, runs, main, counter, queueIn, queueOut, closed, descs, scenario, data, central>>
  BY DEF Compare
<1>2. DOMAIN worker[w] = Fields /\ k \in Nat /\ worker[w].worst \in Nat /\ WorkersInv /\ CentralInv
  BY DEF IInv, WorkersInv
<1>3. Searching(w)
  BY <1>1 DEF Searching
<1>4. /\ k \in 1 .. Len(Net.processing) /\ k + 1 \in 1 .. (Len(Net.processing) + 1)
      /\ Worst(n) \in Nat
      /\ \A i \in 1 .. k : Worst(Net.processing[i]) \in Nat
      /\ \A i \in 1 .. k : i = k \/ i \in 1 .. (k - 1)
  BY <1>1, <1>2, <1>3, CandidateFacts
<1>5. \A i \in 1 .. (k - 1) : worker[w].worst <= Worst(Net.processing[i])
  BY <1>2, <1>3 DEF CentralInv, BestSeen
<1>6. Best' <=> Best
  BY <1>1 DEF Best
<1> HIDE DEF n
<1>7. CASE central = None \/ Worst(n) < worker[w].worst
  <2>1. PICK rec : rec = [worker[w] EXCEPT !.at = "publishing", !.worst = Worst(n)]
    OBVIOUS
  <2>2. worker' = [worker EXCEPT ![w] = rec]
    BY <1>7, <2>1 DEF Compare, Set, n
  <2>3. /\ DOMAIN rec = Fields /\ rec.at = "publishing" /\ rec.id = worker[w].id
        /\ rec.placed = worker[w].placed /\ rec.k = k /\ rec.worst = Worst(n)
    BY <1>2, <2>1 DEF Fields
  <2>4. worker'[w] = rec /\ \A v \in Workers \ {w} : worker'[v] = worker[v]
    BY <1>2, <2>2 DEF WorkersInv
  <2>5. \A i \in 1 .. (k - 1) : Worst(n) <= Worst(Net.processing[i])
    <3>1. CASE central = None
      <4>1. k = 1
        BY <1>1, <1>2, <3>1 DEF CentralInv
      <4> QED
        BY <4>1
    <3>2. CASE Worst(n) < worker[w].worst
      <4> TAKE i \in 1 .. (k - 1)
      <4>1. i \in 1 .. k
        BY <1>2
      <4>2. Worst(Net.processing[i]) \in Nat /\ worker[w].worst <= Worst(Net.processing[i])
        BY <4>1, <1>4, <1>5
      <4> QED
        BY <4>2, <3>2, <1>2, <1>4
    <3> QED
      BY <1>7, <3>1, <3>2
  <2>6. CentralInv'
    <3>1. BestSeen(w)'
      BY <2>3, <2>4, <2>5 DEF BestSeen
    <3>2. \A v \in Workers \ {w} : Searching(v)' => BestSeen(v)'
      BY <1>2, <2>4 DEF CentralInv, Searching, BestSeen
    <3>3. Leads(w)'
      BY <2>3, <2>4 DEF Leads
    <3>4. \A v \in Workers : worker'[v].at = "publishing" =>
            worker'[v].k \in 1 .. Len(Net.processing) /\ worker'[v].worst = Worst(Net.processing[worker'[v].k])
      BY <1>2, <1>4, <2>3, <2>4 DEF CentralInv, n
    <3>5. \A v \in Workers : worker'[v].at = "searching" => v # w /\ worker'[v] = worker[v]
      BY <2>3, <2>4
    <3> QED
      BY <1>1, <1>2, <3>1, <3>2, <3>3, <3>4, <3>5 DEF CentralInv
  <2>7. Searches(w, rec)
    BY <1>1, <1>2, <1>4, <2>2, <2>3 DEF Searches
  <2> QED
    BY <2>6, <2>7, SearchStep
<1>8. CASE ~ (central = None \/ Worst(n) < worker[w].worst)
  <2>1. PICK rec : rec = [worker[w] EXCEPT !.k = @ + 1]
    OBVIOUS
  <2>2. worker' = [worker EXCEPT ![w] = rec]
    BY <1>8, <2>1 DEF Compare, Set, n
  <2>3. /\ DOMAIN rec = Fields /\ rec.at = "searching" /\ rec.id = worker[w].id
        /\ rec.placed = worker[w].placed /\ rec.k = k + 1 /\ rec.worst = worker[w].worst
    BY <1>1, <1>2, <2>1 DEF Fields
  <2>4. worker'[w] = rec /\ \A v \in Workers \ {w} : worker'[v] = worker[v]
    BY <1>2, <2>2 DEF WorkersInv
  <2>5. \A i \in 1 .. k : worker[w].worst <= Worst(Net.processing[i])
    <3>1. worker[w].worst <= Worst(n)
      BY <1>2, <1>4, <1>8
    <3> QED
      BY <3>1, <1>4, <1>5 DEF n
  <2>6. CentralInv'
    <3>1. BestSeen(w)'
      <4>1. rec.k - 1 = k
        BY <1>2, <2>3
      <4> QED
        BY <4>1, <2>3, <2>4, <2>5 DEF BestSeen
    <3>2. \A v \in Workers \ {w} : Searching(v)' => BestSeen(v)'
      BY <1>2, <2>4 DEF CentralInv, Searching, BestSeen
    <3>3. \A v \in Workers : Leads(v) => Leads(v)'
      BY <1>1, <2>3, <2>4 DEF Leads
    <3>4. \A v \in Workers : worker'[v].at = "publishing" => v # w /\ worker'[v] = worker[v]
      BY <2>3, <2>4
    <3>5. \A v \in Workers : worker'[v].at = "searching" => worker'[v].k \in 1 .. (Len(Net.processing) + 1)
      BY <1>2, <1>4, <2>3, <2>4 DEF CentralInv
    <3> QED
      BY <1>1, <1>2, <1>6, <1>8, <3>1, <3>2, <3>3, <3>4, <3>5 DEF CentralInv
  <2>7. Searches(w, rec)
    BY <1>1, <1>2, <2>2, <2>3 DEF Searches
  <2> QED
    BY <2>6, <2>7, SearchStep
<1> QED
  BY <1>7, <1>8

LEMMA PublishStep ==
  ASSUME IInv, NEW w \in Workers, Publish(w)
  PROVE  IInv'
<1> DEFINE k == worker[w].k
           n == Net.processing[k]
<1>1. /\ worker[w].at = "publishing" /\ central' = n
      /\ UNCHANGED <<tool, runs, main, counter, queueIn, queueOut, closed, descs, scenario, data>>
  BY DEF Publish
<1>2. DOMAIN worker[w] = Fields /\ k \in Nat /\ worker[w].worst \in Nat /\ WorkersInv /\ CentralInv
  BY DEF IInv, WorkersInv
<1>3. Searching(w) /\ k \in 1 .. Len(Net.processing) /\ worker[w].worst = Worst(n)
  BY <1>1, <1>2 DEF CentralInv, Searching
<1>4. /\ k + 1 \in 1 .. (Len(Net.processing) + 1) /\ n \in ToSet(Net.processing) \ {None}
      /\ Worst(n) \in Nat
      /\ \A i \in 1 .. k : i = k \/ i \in 1 .. (k - 1)
  <2>1. k <= Len(Net.processing)
    BY <1>3, NetworkFinite
  <2> QED
    BY <2>1, <1>2, <1>3, CandidateFacts
<1>5. \A i \in 1 .. k : worker[w].worst <= Worst(Net.processing[i])
  <2>1. \A i \in 1 .. (k - 1) : worker[w].worst <= Worst(Net.processing[i])
    BY <1>2, <1>3 DEF CentralInv, BestSeen
  <2>2. worker[w].worst <= Worst(n)
    BY <1>3, <1>4
  <2> QED
    BY <2>1, <2>2, <1>4
<1> HIDE DEF n
<1>6. PICK rec : rec = [worker[w] EXCEPT !.at = "searching", !.k = @ + 1]
  OBVIOUS
<1>7. worker' = [worker EXCEPT ![w] = rec]
  BY <1>6 DEF Publish, Set
<1>8. /\ DOMAIN rec = Fields /\ rec.at = "searching" /\ rec.id = worker[w].id
      /\ rec.placed = worker[w].placed /\ rec.k = k + 1 /\ rec.worst = worker[w].worst
  BY <1>2, <1>6 DEF Fields
<1>9. worker'[w] = rec /\ \A v \in Workers \ {w} : worker'[v] = worker[v]
  BY <1>2, <1>7 DEF WorkersInv
<1>10. CentralInv'
  <2>1. BestSeen(w)'
    <3>1. rec.k - 1 = k
      BY <1>2, <1>8
    <3> QED
      BY <3>1, <1>5, <1>8, <1>9 DEF BestSeen
  <2>2. \A v \in Workers \ {w} : Searching(v)' => BestSeen(v)'
    BY <1>2, <1>9 DEF CentralInv, Searching, BestSeen
  <2>3. Leads(w)'
    BY <1>1, <1>3, <1>8, <1>9 DEF Leads
  <2>4. \A v \in Workers : worker'[v].at = "publishing" => v # w /\ worker'[v] = worker[v]
    BY <1>8, <1>9
  <2>5. \A v \in Workers : worker'[v].at = "searching" => worker'[v].k \in 1 .. (Len(Net.processing) + 1)
    BY <1>2, <1>4, <1>8, <1>9 DEF CentralInv
  <2> QED
    BY <1>1, <1>2, <1>4, <2>1, <2>2, <2>3, <2>4, <2>5 DEF CentralInv
<1>11. Searches(w, rec)
  BY <1>1, <1>2, <1>7, <1>8 DEF Searches
<1> QED
  BY <1>10, <1>11, SearchStep

-----------------------------------------------------------------------------
(***************************************************************************)
(* The queues.                                                             *)
(***************************************************************************)
LEMMA OnItFinite ==
  ASSUME QueuesInv
  PROVE  IsFiniteSet(AllOnIt) /\ Cardinality(AllOnIt) \in Nat
<1>1. IsFiniteSet(DOMAIN descs)
  BY FS_Interval DEF QueuesInv
<1>2. AllOnIt \in SUBSET DOMAIN descs
  BY DEF AllOnIt
<1> QED
  BY <1>1, <1>2, FS_Subset, FS_CardinalityType

\* A sequence without its first element.
LEMMA TailFacts ==
  ASSUME NEW S, NEW s \in Seq(S), s # <<>>
  PROVE  /\ Tail(s) \in Seq(S) /\ Len(s) \in Nat \ {0} /\ Len(Tail(s)) = Len(s) - 1
         /\ Head(s) = s[1] /\ Head(s) \in S
         /\ \A p \in DOMAIN Tail(s) : p + 1 \in DOMAIN s /\ Tail(s)[p] = s[p + 1] /\ p \in Nat \ {0}
         /\ \A p \in DOMAIN s : p # 1 => p - 1 \in DOMAIN Tail(s) /\ Tail(s)[p - 1] = s[p]
<1>1. Len(s) \in Nat \ {0} /\ DOMAIN s = 1 .. Len(s)
  BY EmptySeq
<1>2. Tail(s) \in Seq(S) /\ Len(Tail(s)) = Len(s) - 1 /\ Head(s) \in S
  BY HeadTailProperties
<1>3. DOMAIN Tail(s) = 1 .. (Len(s) - 1)
  BY <1>2
<1>4. \A p \in 1 .. (Len(s) - 1) : Tail(s)[p] = s[p + 1]
  BY <1>1, HeadTailProperties
<1>5. Head(s) = s[1]
  OBVIOUS
<1>6. \A p \in DOMAIN Tail(s) : p + 1 \in DOMAIN s /\ p \in Nat \ {0}
  BY <1>1, <1>3
<1>7. \A p \in DOMAIN s : p # 1 => p - 1 \in 1 .. (Len(s) - 1) /\ p = (p - 1) + 1
  BY <1>1
<1> QED
  BY <1>1, <1>2, <1>3, <1>4, <1>5, <1>6, <1>7

\* A worker that has nothing to do afterwards.
Leaves(w, rec) ==
  /\ worker' = [worker EXCEPT ![w] = rec] /\ DOMAIN rec = Fields /\ rec.at \in Free
  /\ rec.id = 0 /\ rec.k = 0 /\ rec.worst = 0
  /\ UNCHANGED <<descs, scenario, tool, data>>

LEMMA LeavesWorkers ==
  ASSUME WorkersInv, NEW w \in Workers, NEW rec, Leaves(w, rec)
  PROVE  /\ WorkersInv'
         /\ \A j : OnIt(j)' <=> OnIt(j) /\ ~ (Working(w) /\ j = worker[w].id)
<1>1. worker'[w] = rec /\ DOMAIN worker' = Workers /\ \A v \in Workers \ {w} : worker'[v] = worker[v]
  BY DEF WorkersInv, Leaves
<1>2. ~ Working(w)' /\ \A v \in Workers \ {w} : Working(v)' <=> Working(v)
  BY <1>1 DEF Working, Leaves
<1>3. \A v \in Workers :
       /\ DOMAIN worker'[v] = Fields /\ worker'[v].at \in Where
       /\ worker'[v].k \in Nat /\ worker'[v].worst \in Nat
  BY <1>1 DEF WorkersInv, Leaves, Free, Where
<1>4. \A v \in Workers : /\ Working(v)' => worker'[v].id \in DOMAIN descs'
                         /\ ~ Working(v)' => worker'[v].id = 0
  BY <1>1, <1>2 DEF WorkersInv, Leaves
<1>5. \A v, u \in Workers : Working(v)' /\ Working(u)' /\ worker'[v].id = worker'[u].id => v = u
  BY <1>1, <1>2 DEF WorkersInv
<1>6. WorkersInv'
  BY <1>1, <1>3, <1>4, <1>5 DEF WorkersInv
<1>7. ASSUME NEW j PROVE OnIt(j)' <=> OnIt(j) /\ ~ (Working(w) /\ j = worker[w].id)
  <2>1. OnIt(j)' => \E v \in Workers \ {w} : Working(v) /\ worker[v].id = j
    BY <1>1, <1>2 DEF OnIt
  <2>2. (\E v \in Workers \ {w} : Working(v) /\ worker[v].id = j) => OnIt(j)'
    BY <1>1, <1>2 DEF OnIt
  <2>3. (\E v \in Workers \ {w} : Working(v) /\ worker[v].id = j) <=> OnIt(j) /\ ~ (Working(w) /\ j = worker[w].id)
    BY DEF OnIt, WorkersInv
  <2> QED
    BY <2>1, <2>2, <2>3
<1> QED
  BY <1>6, <1>7

\* What DataInv says of the workers.
Locals(w) ==
  /\ worker[w].at # "scenario"
  /\ worker[w].at \in {"central", "searching", "publishing"} =>
       worker[w].placed = Placed(worker[w].id) /\ Placed(worker[w].id).good
  /\ worker[w].at = "good" => Done(worker[w].id)

LEMMA LocalsKept ==
  ASSUME DataInv, tool = "statesim", NEW v \in Workers, worker'[v] = worker[v],
         UNCHANGED <<descs, scenario, data>>
  PROVE  Locals(v)'
<1>1. \A i : Placed(i)' = Placed(i)
  BY DEF Placed
<1>2. \A i : Done(i)' <=> Done(i)
  BY <1>1 DEF Done
<1>3. Locals(v)
  BY DEF DataInv, Locals
<1> QED
  BY <1>1, <1>2, <1>3 DEF Locals

LEMMA TellOutcomeStep ==
  ASSUME IInv, NEW w \in Workers, TellOutcome(w)
  PROVE  IInv'
<1>1. /\ worker[w].at \in {"good", "thrown"}
      /\ UNCHANGED <<tool, runs, main, counter, queueIn, closed, descs, scenario, data, central>>
  BY DEF TellOutcome
<1>2. PICK i : i = worker[w].id
  OBVIOUS
<1>3. Working(w) /\ ~ Searching(w) /\ OnIt(i)
  BY <1>1, <1>2 DEF Working, Free, Searching, OnIt
<1>4. i \in DOMAIN descs /\ main \notin {"out", "returned"}
  BY <1>2, <1>3, WorksInRun
<1>5. WorkersInv /\ QueuesInv /\ DataInv /\ CentralInv
  BY DEF IInv
<1>6. PICK rec : /\ worker' = [worker EXCEPT ![w] = rec]
                 /\ \/ closed /\ rec = [Idle EXCEPT !.at = "ended"] /\ queueOut' = queueOut
                    \/ ~ closed /\ rec = Idle /\ queueOut' = Append(queueOut, worker[w].at = "good")
  BY DEF TellOutcome, Set
<1>7. DOMAIN rec = Fields /\ rec.at \in Free /\ rec.id = 0 /\ rec.k = 0 /\ rec.worst = 0
  BY <1>6, IdleFacts DEF Fields, Free
<1>8. Leaves(w, rec)
  BY <1>1, <1>6, <1>7 DEF Leaves
<1>9. WorkersInv'
  BY <1>5, <1>8, LeavesWorkers
<1>10. \A j : OnIt(j)' <=> OnIt(j) /\ j # i
  BY <1>2, <1>3, <1>5, <1>8, LeavesWorkers
<1>11. CentralInv'
  BY <1>1, <1>3, <1>5, <1>6, <1>7, CentralKept DEF Free
<1>12. closed => main # "waiting"
  BY <1>5 DEF QueuesInv
<1>13. PICK good \in BOOLEAN : good = (worker[w].at = "good")
  OBVIOUS
<1>14. queueOut \in Seq(BOOLEAN) /\ queueOut' \in Seq(BOOLEAN)
  <2>1. queueOut' = queueOut \/ queueOut' = Append(queueOut, good)
    BY <1>6, <1>13
  <2>2. queueOut \in Seq(BOOLEAN)
    BY <1>5 DEF QueuesInv
  <2>3. Append(queueOut, good) \in Seq(BOOLEAN)
    BY <2>2, AppendProperties
  <2> QED
    BY <2>1, <2>2, <2>3
<1>15. QueuesInv'
  <2>1. main = "waiting" => counter' = Cardinality(AllOnIt') + Len(queueIn') + Len(queueOut')
    <3> SUFFICES ASSUME main = "waiting" PROVE counter' = Cardinality(AllOnIt') + Len(queueIn') + Len(queueOut')
      OBVIOUS
    <3>1. AllOnIt' = AllOnIt \ {i} /\ i \in AllOnIt
      BY <1>1, <1>3, <1>4, <1>10 DEF AllOnIt
    <3>2. IsFiniteSet(AllOnIt) /\ Cardinality(AllOnIt) \in Nat
      BY <1>5, OnItFinite
    <3>3. Cardinality(AllOnIt') = Cardinality(AllOnIt) - 1
      BY <3>1, <3>2, FS_RemoveElement
    <3>4. Len(queueOut') = Len(queueOut) + 1 /\ Len(queueOut) \in Nat
      BY <1>6, <1>12, <1>14
    <3>5. Len(queueIn) \in Nat
      BY <1>5 DEF QueuesInv
    <3>6. counter = Cardinality(AllOnIt) + Len(queueIn) + Len(queueOut)
      BY <1>5 DEF QueuesInv
    <3>7. counter' = counter /\ queueIn' = queueIn
      BY <1>1
    <3>8. PICK x, y, z : x = Cardinality(AllOnIt) /\ y = Len(queueIn) /\ z = Len(queueOut)
      OBVIOUS
    <3>9. x \in Nat /\ y \in Nat /\ z \in Nat /\ counter = x + y + z
      BY <3>2, <3>4, <3>5, <3>6, <3>8
    <3>10. Cardinality(AllOnIt') = x - 1 /\ Len(queueOut') = z + 1 /\ Len(queueIn') = y
      BY <3>3, <3>4, <3>7, <3>8
    <3>11. (x - 1) + y + (z + 1) = x + y + z
      BY <3>9
    <3> QED
      BY <3>7, <3>9, <3>10, <3>11
  <2>2. \A p \in DOMAIN queueIn' : ~ OnIt(queueIn[p])'
    <3> TAKE p \in DOMAIN queueIn'
    <3>1. PICK j : j = queueIn[p]
      OBVIOUS
    <3>2. ~ OnIt(j)
      BY <3>1, <1>1, <1>5 DEF QueuesInv
    <3>3. ~ OnIt(j)'
      BY <3>2, <1>10
    <3> QED
      BY <3>1, <3>3, <1>1
  <2> QED
    BY <1>1, <1>4, <1>5, <1>14, <2>1, <2>2 DEF QueuesInv
<1>16. DataInv'
  <2> SUFFICES ASSUME tool = "statesim" PROVE DataInv'
    BY <1>1 DEF DataInv
  <2>1. worker'[w] = rec /\ \A v \in Workers \ {w} : worker'[v] = worker[v]
    BY <1>5, <1>6 DEF WorkersInv
  <2>2. Locals(w)'
    BY <2>1, <1>7 DEF Locals, Free
  <2>3. \A v \in Workers : Locals(v)'
    BY <2>1, <2>2, <1>1, <1>5, LocalsKept
  <2>4. \A j : Done(j)' <=> Done(j)
    BY <1>1 DEF Done, Placed
  <2>5. main = "waiting" => \A j \in DOMAIN descs : (InQueue(j) \/ OnIt(j) \/ Done(j) \/ Thrown)'
    <3> SUFFICES ASSUME main = "waiting", NEW j \in DOMAIN descs
                 PROVE  InQueue(j)' \/ OnIt(j)' \/ Done(j)' \/ Thrown'
      OBVIOUS
    <3>1. queueOut' = Append(queueOut, good)
      BY <1>6, <1>12, <1>13
    <3>2. Thrown => Thrown'
      BY <3>1, <1>14 DEF Thrown
    <3>3. ~ good => Thrown'
      <4>1. Len(queueOut) + 1 \in DOMAIN queueOut' /\ queueOut'[Len(queueOut) + 1] = good
        BY <3>1, <1>14
      <4> QED
        BY <4>1 DEF Thrown
    <3>4. good => Done(i)
      BY <1>2, <1>5, <1>13 DEF DataInv
    <3>5. InQueue(j) \/ OnIt(j) \/ Done(j) \/ Thrown
      BY <1>5 DEF DataInv
    <3>6. InQueue(j) => InQueue(j)'
      BY <1>1 DEF InQueue
    <3> QED
      BY <3>2, <3>3, <3>4, <3>5, <3>6, <2>4, <1>10
  <2> QED
    BY <2>3, <2>5, <1>1, <1>4, <1>5 DEF DataInv, Locals
<1> QED
  BY <1>9, <1>11, <1>15, <1>16 DEF IInv

LEMMA PopSimulationStep ==
  ASSUME IInv, NEW w \in Workers, PopSimulation(w)
  PROVE  IInv'
<1>1. /\ worker[w].at = "waiting"
      /\ UNCHANGED <<tool, runs, main, counter, queueOut, closed, descs, scenario, data, central>>
  BY DEF PopSimulation
<1>2. ~ Working(w) /\ ~ Searching(w)
  BY <1>1 DEF Working, Free, Searching
<1>3. WorkersInv /\ QueuesInv /\ DataInv /\ CentralInv
  BY DEF IInv
<1>4. \A j : Done(j)' <=> Done(j)
  BY <1>1 DEF Done, Placed
<1>5. CASE queueIn = <<>>
  <2>1. PICK rec : rec = [Idle EXCEPT !.at = "ended"] /\ worker' = [worker EXCEPT ![w] = rec] /\ queueIn' = queueIn
    BY <1>5 DEF PopSimulation, Set
  <2>2. DOMAIN rec = Fields /\ rec.at = "ended" /\ rec.id = 0 /\ rec.k = 0 /\ rec.worst = 0
    BY <2>1, IdleFacts DEF Fields
  <2>3. Leaves(w, rec)
    BY <1>1, <2>1, <2>2 DEF Leaves, Free
  <2>4. WorkersInv' /\ \A j : OnIt(j)' <=> OnIt(j)
    BY <1>2, <1>3, <2>3, LeavesWorkers
  <2>5. CentralInv'
    BY <1>1, <1>2, <1>3, <2>1, <2>2, CentralKept
  <2>6. AllOnIt' = AllOnIt
    BY <1>1, <2>4 DEF AllOnIt
  <2>7. QueuesInv'
    BY <1>1, <1>3, <1>5, <2>1, <2>4, <2>6 DEF QueuesInv
  <2>8. worker'[w] = rec /\ \A v \in Workers \ {w} : worker'[v] = worker[v]
    BY <1>3, <2>1 DEF WorkersInv
  <2>9. Locals(w)'
    BY <2>2, <2>8 DEF Locals
  <2>10. tool = "statesim" => \A v \in Workers : Locals(v)'
    BY <2>8, <2>9, <1>1, <1>3, LocalsKept
  <2>11. \A j : InQueue(j)' <=> InQueue(j)
    BY <2>1 DEF InQueue
  <2>12. Thrown' <=> Thrown
    BY <1>1 DEF Thrown
  <2>13. DataInv'
    BY <1>1, <1>3, <1>4, <2>4, <2>10, <2>11, <2>12 DEF DataInv, Locals
  <2> QED
    BY <2>4, <2>5, <2>7, <2>13 DEF IInv
<1>6. CASE queueIn # <<>>
  <2>1. PICK i : i = Head(queueIn)
    OBVIOUS
  <2>2. PICK rec : rec = [Idle EXCEPT !.at = "popped", !.id = i]
    OBVIOUS
  <2>0. queueIn' = Tail(queueIn) /\ Popped(w, i)
    BY <1>6, <2>1 DEF PopSimulation
  <2>4. DOMAIN rec = Fields /\ rec.at = "popped" /\ rec.id = i /\ rec.k = 0 /\ rec.worst = 0
    BY <2>2, IdleFacts DEF Fields
  <2>5. PICK S : S = DOMAIN descs
    OBVIOUS
  <2>6. queueIn \in Seq(S)
    BY <1>3, <2>5 DEF QueuesInv
  <2>7. /\ queueIn' \in Seq(S) /\ Len(queueIn) \in Nat \ {0} /\ Len(queueIn') = Len(queueIn) - 1
        /\ i = queueIn[1] /\ i \in S
        /\ \A p \in DOMAIN queueIn' : p + 1 \in DOMAIN queueIn /\ queueIn'[p] = queueIn[p + 1] /\ p \in Nat \ {0}
        /\ \A p \in DOMAIN queueIn : p # 1 => p - 1 \in DOMAIN queueIn' /\ queueIn'[p - 1] = queueIn[p]
    BY <1>6, <2>0, <2>1, <2>6, TailFacts
  <2>8. 1 \in DOMAIN queueIn
    BY <2>6, <2>7
  <2>9. ~ OnIt(i)
    BY <1>3, <2>7, <2>8 DEF QueuesInv
  <2>3. worker' = [worker EXCEPT ![w] = rec]
    <3>1. i # 0
      BY <1>3, <2>5, <2>7 DEF QueuesInv
    <3>2. On(i) = {}
      BY <2>9, <3>1, <1>3 DEF On, OnIt, WorkersInv
    <3> QED
      BY <2>0, <2>2, <2>5, <2>7, <3>2, <1>3 DEF Popped, WorkersInv
  <2>10. worker'[w] = rec /\ DOMAIN worker' = Workers /\ \A v \in Workers \ {w} : worker'[v] = worker[v]
    BY <1>3, <2>3 DEF WorkersInv
  <2>11. Working(w)' /\ \A v \in Workers \ {w} : Working(v)' <=> Working(v)
    BY <2>4, <2>10 DEF Working, Free
  <2>12. \A j : OnIt(j)' <=> OnIt(j) \/ j = i
    BY <1>2, <2>4, <2>10, <2>11 DEF OnIt
  <2>13. WorkersInv'
    <3>1. \A v \in Workers :
            /\ DOMAIN worker'[v] = Fields /\ worker'[v].at \in Where
            /\ worker'[v].k \in Nat /\ worker'[v].worst \in Nat
      BY <1>3, <2>4, <2>10 DEF WorkersInv, Where
    <3>2. \A v \in Workers : /\ Working(v)' => worker'[v].id \in DOMAIN descs'
                             /\ ~ Working(v)' => worker'[v].id = 0
      BY <1>1, <1>3, <2>4, <2>5, <2>7, <2>10, <2>11 DEF WorkersInv
    <3>3. \A v \in Workers \ {w} : Working(v) => worker[v].id # i
      BY <2>9 DEF OnIt
    <3>4. \A v, u \in Workers : Working(v)' /\ Working(u)' /\ worker'[v].id = worker'[u].id => v = u
      BY <1>3, <2>4, <2>10, <2>11, <3>3 DEF WorkersInv
    <3> QED
      BY <2>10, <3>1, <3>2, <3>4 DEF WorkersInv
  <2>14. CentralInv'
    BY <1>1, <1>2, <1>3, <2>3, <2>4, CentralKept
  <2>15. main \notin {"out", "returned"}
    BY <1>3, <1>6 DEF QueuesInv
  <2>16. QueuesInv'
    <3>1. main = "waiting" => counter' = Cardinality(AllOnIt') + Len(queueIn') + Len(queueOut')
      <4>1. AllOnIt' = AllOnIt \cup {i} /\ i \notin AllOnIt
        BY <1>1, <2>5, <2>7, <2>9, <2>12 DEF AllOnIt
      <4>2. IsFiniteSet(AllOnIt) /\ Cardinality(AllOnIt) \in Nat
        BY <1>3, OnItFinite
      <4>3. Cardinality(AllOnIt') = Cardinality(AllOnIt) + 1
        BY <4>1, <4>2, FS_AddElement
      <4>4. Len(queueOut) \in Nat
        BY <1>3 DEF QueuesInv
      <4>5. main = "waiting" => counter = Cardinality(AllOnIt) + Len(queueIn) + Len(queueOut)
        BY <1>3 DEF QueuesInv
      <4> QED
        BY <4>2, <4>3, <4>4, <4>5, <1>1, <2>7
    <3>2. \A p, q \in DOMAIN queueIn' : queueIn'[p] = queueIn'[q] => p = q
      <4> SUFFICES ASSUME NEW p \in DOMAIN queueIn', NEW q \in DOMAIN queueIn', queueIn'[p] = queueIn'[q]
                   PROVE  p = q
        OBVIOUS
      <4>1. p + 1 = q + 1
        BY <1>3, <2>7 DEF QueuesInv
      <4> QED
        BY <4>1, <2>7
    <3>3. ASSUME NEW p \in DOMAIN queueIn' PROVE ~ OnIt(queueIn[p])'
      <4>1. PICK j : j = queueIn'[p]
        OBVIOUS
      <4>2. p + 1 \in DOMAIN queueIn /\ j = queueIn[p + 1] /\ p + 1 # 1
        BY <2>7, <4>1
      <4>3. ~ OnIt(j) /\ j # i
        BY <1>3, <2>7, <2>8, <4>2 DEF QueuesInv
      <4>4. ~ OnIt(j)'
        BY <4>3, <2>12
      <4> QED
        BY <4>1, <4>4
    <3> QED
      BY <1>1, <1>3, <2>5, <2>7, <2>15, <3>1, <3>2, <3>3 DEF QueuesInv
  <2>17. DataInv'
    <3> SUFFICES ASSUME tool = "statesim" PROVE DataInv'
      BY <1>1 DEF DataInv
    <3>1. Locals(w)'
      BY <2>4, <2>10 DEF Locals
    <3>2. \A v \in Workers : Locals(v)'
      BY <3>1, <2>10, <1>1, <1>3, LocalsKept
    <3>3. \A j : InQueue(j) => InQueue(j)' \/ OnIt(j)'
      <4> SUFFICES ASSUME NEW j, NEW p \in DOMAIN queueIn, queueIn[p] = j PROVE InQueue(j)' \/ OnIt(j)'
        BY DEF InQueue
      <4>1. CASE p = 1
        BY <4>1, <2>7, <2>12
      <4>2. CASE p # 1
        <5>1. p - 1 \in DOMAIN queueIn' /\ queueIn'[p - 1] = j
          BY <4>2, <2>7
        <5> QED
          BY <5>1 DEF InQueue
      <4> QED
        BY <4>1, <4>2
    <3>4. Thrown' <=> Thrown
      BY <1>1 DEF Thrown
    <3>5. main = "waiting" => \A j \in DOMAIN descs : (InQueue(j) \/ OnIt(j) \/ Done(j) \/ Thrown)'
      BY <1>3, <1>4, <2>12, <3>3, <3>4 DEF DataInv
    <3> QED
      BY <3>2, <3>5, <1>1, <1>3, <2>15 DEF DataInv, Locals
  <2> QED
    BY <2>13, <2>14, <2>16, <2>17 DEF IInv
<1> QED
  BY <1>5, <1>6

-----------------------------------------------------------------------------
(***************************************************************************)
(* run() and the destructor.                                               *)
(***************************************************************************)
IsList(s) == Len(s) \in Nat /\ DOMAIN s = 1 .. Len(s)

LEMMA ListOf ==
  ASSUME NEW n \in Nat, NEW s, DOMAIN s = 1 .. n, s = [i \in DOMAIN s |-> s[i]]
  PROVE  IsList(s) /\ Len(s) = n
<1>1. s = [i \in 1 .. n |-> s[i]]
  OBVIOUS
<1>2. Len(s) = n
  BY <1>1
<1> QED
  BY <1>2 DEF IsList

LEMMA SelectedList ==
  ASSUME NEW seq, NEW set, IsFiniteSet(set)
  PROVE  IsList(Selected(seq, set))
<1>1. PICK n : n = Cardinality(set)
  OBVIOUS
<1>2. n \in Nat
  BY <1>1, FS_CardinalityType
<1>3. PICK s : s = Selected(seq, set)
  OBVIOUS
<1>4. DOMAIN s = 1 .. n /\ s = [i \in DOMAIN s |-> s[i]]
  BY <1>1, <1>3 DEF Selected
<1> QED
  BY <1>2, <1>3, <1>4, ListOf

\* The jobs of a scenario are a list, as those of the trace are.
LEMMA ScenarioJobs ==
  ASSUME NEW s \in Scenarios
  PROVE  IsList(s.jobs)
<1>1. PICK trace \in Traces : \E jobs \in selectJobs(loadJobs(trace), NumJobs) : s.jobs = jobs
  BY DEF Scenarios
<1>2. PICK all : all = loadJobs(trace)
  OBVIOUS
<1>3. IsList(all)
  <2>1. PICK set : set = {j \in DOMAIN trace : LoadJob(trace[j]).stateSizes # <<>>}
    OBVIOUS
  <2>2. IsFiniteSet(DOMAIN trace)
    BY BatchAssumption
  <2>3. IsFiniteSet(set)
    BY <2>1, <2>2, FS_Subset
  <2>4. PICK seq : seq = [j \in DOMAIN trace |-> LoadJob(trace[j])]
    OBVIOUS
  <2>5. all = Selected(seq, set)
    BY <1>2, <2>1, <2>4 DEF loadJobs
  <2> QED
    BY <2>3, <2>5, SelectedList
<1>4. s.jobs \in selectJobs(all, NumJobs)
  BY <1>1, <1>2
<1>5. CASE s.jobs = all
  BY <1>3, <1>5
<1>6. CASE s.jobs # all
  <2>1. PICK set \in SUBSET DOMAIN all : s.jobs = Selected(all, set)
    BY <1>4, <1>6 DEF selectJobs
  <2>2. IsFiniteSet(DOMAIN all)
    BY <1>3, FS_Interval DEF IsList
  <2>3. IsFiniteSet(set)
    BY <2>2, FS_Subset
  <2> QED
    BY <2>1, <2>3, SelectedList
<1> QED
  BY <1>5, <1>6

LEMMA FactorialList ==
  ASSUME NEW p \in Policies
  PROVE  IsList(FullFactorial(p))
<1>1. PICK a \in Nat, b \in Nat : a = Len(p.alloc) /\ b = Len(p.exec)
  BY BatchAssumption
<1>2. PICK n : n = a * b
  OBVIOUS
<1>3. n \in Nat
  BY <1>2
<1>4. PICK s : s = FullFactorial(p)
  OBVIOUS
<1>5. DOMAIN s = 1 .. n /\ s = [i \in DOMAIN s |-> s[i]]
  BY <1>1, <1>2, <1>4 DEF FullFactorial
<1> QED
  BY <1>3, <1>4, <1>5, ListOf

LEMMA RunStep ==
  ASSUME IInv, run, NothingLeft
  PROVE  IInv'
<1>1. /\ ~ closed /\ main' = "waiting" /\ counter' = Len(descs')
      /\ central' = None /\ UNCHANGED <<tool, queueOut, closed>>
  BY DEF run
<1>2. WorkersInv /\ QueuesInv /\ DataInv /\ CentralInv
  BY DEF IInv
<1>3. \A w \in Workers : ~ Working(w) /\ worker[w].at \in {"waiting", "ended"}
  BY DEF NothingLeft, Working, Free
<1>4. queueOut = <<>> /\ queueIn = <<>>
  BY DEF NothingLeft
<1>0. DOMAIN worker' = Workers /\ \A w \in Workers : worker'[w] = worker[w]
  BY <1>3 DEF run, Astray
<1>5. \A w \in Workers : (~ Working(w) /\ ~ Searching(w))' /\ worker'[w].at \in {"waiting", "ended"}
  BY <1>0, <1>3 DEF Working, Searching, Free
<1>6. \A i : ~ OnIt(i)'
  BY <1>5 DEF OnIt
<1>7. IsList(descs')
  <2>1. CASE tool = "statesim"
    BY <2>1, FactorialList DEF run
  <2>2. CASE tool # "statesim"
    <3>1. descs' = <<[alloc |-> "none", exec |-> "none"]>>
      BY <2>2 DEF run
    <3> QED
      BY <3>1 DEF IsList
  <2> QED
    BY <2>1, <2>2
<1>8. PICK n \in Nat : n = Len(descs') /\ DOMAIN descs' = 1 .. n
  BY <1>7 DEF IsList
<1>9. queueIn' = [i \in 1 .. n |-> i]
  <2>1. queueIn' = <<>> \o [i \in 1 .. n |-> i]
    BY <1>4, <1>8 DEF run
  <2>2. [i \in 1 .. n |-> i] \in Seq(1 .. n)
    OBVIOUS
  <2>3. PICK q : q = [i \in 1 .. n |-> i]
    OBVIOUS
  <2>4. <<>> \o q = q
    BY <2>2, <2>3, ConcatEmptySeq
  <2> QED
    BY <2>1, <2>3, <2>4
<1>10. Len(queueIn') = n /\ DOMAIN queueIn' = 1 .. n /\ queueIn' \in Seq(1 .. n)
  BY <1>9
<1>11. WorkersInv'
  BY <1>0, <1>2, <1>3, <1>5 DEF WorkersInv
<1>12. CentralInv'
  BY <1>1, <1>5 DEF CentralInv
<1>13. QueuesInv'
  <2>1. AllOnIt' = {}
    BY <1>6 DEF AllOnIt
  <2>2. Cardinality(AllOnIt') = 0
    BY <2>1, FS_EmptySet
  <2>3. counter' = Cardinality(AllOnIt') + Len(queueIn') + Len(queueOut')
    BY <1>1, <1>4, <1>8, <1>10, <2>2
  <2>4. \A p \in DOMAIN queueIn' : ~ OnIt(queueIn[p])'
    BY <1>5 DEF OnIt
  <2>5. queueOut' \in Seq(BOOLEAN)
    BY <1>1, <1>4
  <2>6. \A p, q \in DOMAIN queueIn' : queueIn'[p] = queueIn'[q] => p = q
    BY <1>9, <1>10
  <2> QED
    BY <1>1, <1>8, <1>10, <2>3, <2>4, <2>5, <2>6 DEF QueuesInv
<1>14. DataInv'
  <2> SUFFICES ASSUME tool = "statesim" PROVE DataInv'
    BY <1>1 DEF DataInv
  <2>1. DOMAIN data' = DOMAIN descs'
    BY DEF run
  <2>2. Len(scenario'.jobs) \in Nat /\ DOMAIN scenario'.jobs = 1 .. Len(scenario'.jobs)
    <3>1. scenario' \in Scenarios
      BY DEF run
    <3> QED
      BY <3>1, ScenarioJobs DEF IsList
  <2>3. \A w \in Workers : Locals(w)'
    BY <1>5 DEF Locals, Working, Free
  <2>4. \A i \in DOMAIN descs' : InQueue(i)'
    BY <1>8, <1>9, <1>10 DEF InQueue
  <2> QED
    BY <1>1, <2>1, <2>2, <2>3, <2>4 DEF DataInv, Locals
<1> QED
  BY <1>11, <1>12, <1>13, <1>14 DEF IInv

\* Steps that change nothing the workers see.
LEMMA SameWorkers ==
  ASSUME IInv, UNCHANGED <<tool, queueIn, descs, scenario, data, central, worker>>
  PROVE  /\ WorkersInv' /\ CentralInv'
         /\ \A i : (OnIt(i)' <=> OnIt(i)) /\ (Done(i)' <=> Done(i)) /\ (InQueue(i)' <=> InQueue(i))
         /\ AllOnIt' = AllOnIt /\ (tool = "statesim" => \A w \in Workers : Locals(w)')
<1>1. \A w : (Working(w)' <=> Working(w)) /\ (Searching(w)' <=> Searching(w))
  BY DEF Working, Searching
<1>2. \A i : (OnIt(i)' <=> OnIt(i)) /\ (Done(i)' <=> Done(i)) /\ (InQueue(i)' <=> InQueue(i))
  BY <1>1 DEF OnIt, Done, Placed, InQueue
<1>3. AllOnIt' = AllOnIt
  BY <1>2 DEF AllOnIt
<1>4. WorkersInv'
  BY <1>1 DEF IInv, WorkersInv
<1>5. (Best' <=> Best) /\ \A w : Leads(w)' <=> Leads(w)
  BY <1>1 DEF Best, Leads
<1>6. CentralInv'
  <2>1. \A w : BestSeen(w)' <=> BestSeen(w)
    BY DEF BestSeen
  <2> QED
    BY <1>1, <1>5, <2>1 DEF IInv, CentralInv
<1>7. tool = "statesim" => \A w \in Workers : Locals(w)'
  BY LocalsKept DEF IInv
<1> QED
  BY <1>2, <1>3, <1>4, <1>6, <1>7

LEMMA PopOutcomeStep ==
  ASSUME IInv, PopOutcome
  PROVE  IInv'
<1>1. /\ main = "waiting" /\ queueOut # <<>> /\ queueOut' = Tail(queueOut)
      /\ UNCHANGED <<tool, runs, queueIn, closed, descs, scenario, data, central, worker>>
  BY DEF PopOutcome
<1>2. QueuesInv /\ DataInv
  BY DEF IInv
<1>3. /\ WorkersInv' /\ CentralInv'
      /\ \A i : (OnIt(i)' <=> OnIt(i)) /\ (Done(i)' <=> Done(i)) /\ (InQueue(i)' <=> InQueue(i))
      /\ AllOnIt' = AllOnIt /\ (tool = "statesim" => \A w \in Workers : Locals(w)')
  BY <1>1, SameWorkers
<1>4. /\ queueOut' \in Seq(BOOLEAN) /\ Len(queueOut) \in Nat \ {0} /\ Len(queueOut') = Len(queueOut) - 1
      /\ Head(queueOut) = queueOut[1] /\ Head(queueOut) \in BOOLEAN
      /\ \A p \in DOMAIN queueOut : p # 1 => p - 1 \in DOMAIN queueOut' /\ queueOut'[p - 1] = queueOut[p]
  <2>1. queueOut \in Seq(BOOLEAN)
    BY <1>2 DEF QueuesInv
  <2> QED
    BY <1>1, <2>1, TailFacts
<1>5. /\ counter = Cardinality(AllOnIt) + Len(queueIn) + Len(queueOut) /\ ~ closed
      /\ Cardinality(AllOnIt) \in Nat /\ Len(queueIn) \in Nat /\ IsFiniteSet(AllOnIt)
  BY <1>1, <1>2, OnItFinite DEF QueuesInv
<1>6. Head(queueOut) => (Thrown => Thrown')
  BY <1>4 DEF Thrown
<1>7. \A p \in DOMAIN queueIn' : ~ OnIt(queueIn[p])'
  <2> TAKE p \in DOMAIN queueIn'
  <2>1. PICK j : j = queueIn[p]
    OBVIOUS
  <2>2. ~ OnIt(j)
    BY <2>1, <1>1, <1>2 DEF QueuesInv
  <2> QED
    BY <2>1, <2>2, <1>1, <1>3
<1>8. CASE ~ Head(queueOut)
  <2>1. main' = "bailed"
    BY <1>8 DEF PopOutcome
  <2>2. QueuesInv'
    BY <1>1, <1>2, <1>4, <1>7, <2>1 DEF QueuesInv
  <2>3. DataInv'
    BY <1>1, <1>2, <1>3, <2>1 DEF DataInv, Locals
  <2> QED
    BY <1>3, <2>2, <2>3 DEF IInv
<1>9. CASE Head(queueOut) /\ counter # 1
  <2>1. main' = "waiting" /\ counter' = counter - 1
    BY <1>9 DEF PopOutcome
  <2>2. counter' = Cardinality(AllOnIt') + Len(queueIn') + Len(queueOut')
    BY <1>1, <1>3, <1>4, <1>5, <2>1
  <2>3. QueuesInv'
    BY <1>1, <1>2, <1>4, <1>5, <1>7, <2>1, <2>2 DEF QueuesInv
  <2>4. tool = "statesim" => \A i \in DOMAIN descs : (InQueue(i) \/ OnIt(i) \/ Done(i) \/ Thrown)'
    BY <1>1, <1>2, <1>3, <1>6, <1>9 DEF DataInv
  <2>5. DataInv'
    BY <1>1, <1>2, <1>3, <2>1, <2>4 DEF DataInv, Locals
  <2> QED
    BY <1>3, <2>3, <2>5 DEF IInv
<1>10. CASE Head(queueOut) /\ counter = 1
  <2>1. main' = "returned"
    BY <1>10 DEF PopOutcome
  <2>2. Cardinality(AllOnIt) = 0 /\ Len(queueIn) = 0 /\ Len(queueOut) = 1
    <3>1. PICK a \in Nat, b \in Nat, c \in Nat \ {0} :
            a = Cardinality(AllOnIt) /\ b = Len(queueIn) /\ c = Len(queueOut)
      BY <1>4, <1>5
    <3>2. a + b + c = 1
      BY <3>1, <1>5, <1>10
    <3>3. a = 0 /\ b = 0 /\ c = 1
      BY <3>2
    <3> QED
      BY <3>1, <3>3
  <2>3. AllOnIt = {}
    BY <1>5, <2>2, FS_EmptySet
  <2>4. \A i \in DOMAIN descs : ~ OnIt(i)
    BY <2>3 DEF AllOnIt
  <2>5. queueIn = <<>>
    <3>1. queueIn \in Seq(DOMAIN descs)
      BY <1>2 DEF QueuesInv
    <3> QED
      BY <3>1, <2>2
  <2>6. queueOut' = <<>>
    BY <1>4, <2>2
  <2>7. ~ Thrown
    <3>1. DOMAIN queueOut = {1}
      BY <1>2, <2>2 DEF QueuesInv
    <3>2. queueOut[1]
      BY <1>4, <1>10
    <3> QED
      BY <3>1, <3>2 DEF Thrown
  <2>8. \A i : ~ InQueue(i)
    BY <2>5 DEF InQueue
  <2>9. tool = "statesim" => \A i \in DOMAIN descs : Done(i)'
    BY <1>1, <1>2, <1>3, <2>4, <2>7, <2>8 DEF DataInv
  <2>10. QueuesInv'
    BY <1>1, <1>2, <1>3, <1>4, <1>5, <1>7, <2>1, <2>4, <2>5, <2>6 DEF QueuesInv
  <2>11. DataInv'
    BY <1>1, <1>2, <1>3, <2>1, <2>9 DEF DataInv, Locals
  <2> QED
    BY <1>3, <2>10, <2>11 DEF IInv
<1> QED
  BY <1>4, <1>8, <1>9, <1>10

\* Steps of the scenario of a worker, of the destructor, and none.
LEMMA OtherStep ==
  ASSUME IInv, UNCHANGED <<tool, main, counter, queueIn, queueOut, descs, scenario, data, central, worker>>,
         closed' = closed \/ main \in {"returned", "bailed"}
  PROVE  IInv'
<1>1. /\ WorkersInv' /\ CentralInv'
      /\ \A i : (OnIt(i)' <=> OnIt(i)) /\ (Done(i)' <=> Done(i)) /\ (InQueue(i)' <=> InQueue(i))
      /\ AllOnIt' = AllOnIt /\ (tool = "statesim" => \A w \in Workers : Locals(w)')
  BY SameWorkers
<1>2. QueuesInv /\ DataInv
  BY DEF IInv
<1>3. \A p \in DOMAIN queueIn' : ~ OnIt(queueIn[p])'
  <2> TAKE p \in DOMAIN queueIn'
  <2>1. PICK j : j = queueIn[p]
    OBVIOUS
  <2>2. ~ OnIt(j)
    BY <2>1, <1>2 DEF QueuesInv
  <2> QED
    BY <2>1, <2>2, <1>1
<1>4. QueuesInv'
  BY <1>1, <1>2, <1>3 DEF QueuesInv
<1>5. Thrown' <=> Thrown
  BY DEF Thrown
<1>6. DataInv'
  BY <1>1, <1>2, <1>5 DEF DataInv, Locals
<1> QED
  BY <1>1, <1>4, <1>6 DEF IInv

\* No worker is astray.
LEMMA NoStray ==
  ASSUME IInv, NEW w \in Workers
  PROVE  ~ Stray(w)
BY DEF IInv, WorkersInv, Where, Stray

LEMMA NextIInv ==
  ASSUME IInv, [Next]_vars, run => NothingLeft
  PROVE  IInv'
<1>1. CASE run
  BY <1>1, RunStep
<1>2. CASE PopOutcome
  BY <1>2, PopOutcomeStep
<1>3. CASE Destroy
  BY <1>3, OtherStep DEF Destroy
<1>4. CASE UNCHANGED vars
  BY <1>4, OtherStep DEF vars, batchVars
<1>5. ASSUME NEW w \in Workers, RunScenario(w) PROVE IInv'
  BY <1>5, OtherStep DEF RunScenario, batchVars
<1>6. ASSUME NEW w \in Workers,
             \/ PopSimulation(w) \/ Allocate(w) \/ CallCentral(w) \/ Compare(w) \/ Publish(w)
             \/ CentralFound(w) \/ PerformInEdge(w) \/ StartScenario(w) \/ EndScenario(w) \/ TellOutcome(w)
      PROVE  IInv'
  BY <1>6, PopSimulationStep, AllocateStep, CallCentralStep, CompareStep, PublishStep, CentralFoundStep,
     PerformInEdgeStep, StartScenarioStep, EndScenarioStep, TellOutcomeStep
<1> QED
  BY <1>1, <1>2, <1>3, <1>4, <1>5, <1>6, NoStray DEF Next

(* it holds as long as no call of run() finds anything left of another *)
CleanInv == clean => IInv

LEMMA BatchInductive == Spec => []CleanInv
<1>1. Init => CleanInv
  BY InitIInv DEF CleanInv
<1>2. CleanInv /\ [Next]_vars => CleanInv'
  <2> SUFFICES ASSUME CleanInv, [Next]_vars, clean' PROVE IInv'
    BY DEF CleanInv
  <2>1. clean /\ (run => NothingLeft)
    <3>1. CASE run
      BY <3>1 DEF run
    <3>3. CASE ~ run
      BY <3>3 DEF Next, vars, batchVars, PopOutcome, Destroy, PopSimulation, Allocate, CallCentral,
         Compare, Publish, CentralFound, PerformInEdge, Stray, StartScenario, RunScenario, EndScenario,
         TellOutcome
    <3> QED
      BY <3>1, <3>3
  <2> QED
    BY <2>1, NextIInv DEF CleanInv
<1> QED
  BY <1>1, <1>2, PTL DEF Spec

LEMMA CollectsFromIInv ==
  ASSUME CleanInv, clean
  PROVE  RunCollects
<1>0. IInv
  BY DEF CleanInv
<1>1. WorkersInv /\ QueuesInv /\ DataInv /\ CentralInv
  BY <1>0 DEF IInv
<1>2. \A i \in DOMAIN descs : Busy(i) <=> OnIt(i)
  <2> SUFFICES ASSUME NEW i \in DOMAIN descs PROVE Busy(i) <=> OnIt(i)
    OBVIOUS
  <2>1. i # 0
    BY <1>1 DEF QueuesInv
  <2> QED
    BY <2>1, <1>1 DEF Busy, OnIt, WorkersInv, Working, Free
<1>3. {i \in DOMAIN descs : Busy(i)} = AllOnIt
  BY <1>2 DEF AllOnIt
<1>4. main = "waiting" => Outstanding = counter
  BY <1>1, <1>3 DEF QueuesInv, Outstanding
<1>5. main = "returned" => queueIn = <<>> /\ queueOut = <<>> /\ \A i \in DOMAIN descs : ~ Busy(i)
  BY <1>1, <1>2 DEF QueuesInv
<1>6. main = "returned" /\ tool = "statesim" => \A i \in DOMAIN descs : Done(i)
  BY <1>1 DEF DataInv
<1>7. ASSUME central # None, \A w \in Workers : worker[w].at \notin {"searching", "publishing"}
      PROVE  Worst(central) = Worst(Center)
  <2>1. Best /\ central \in ToSet(Net.processing)
    BY <1>1, <1>7 DEF CentralInv, Leads
  <2>2. \A m \in ToSet(Net.processing) : Worst(central) <= Worst(m)
    BY <2>1 DEF Best, ToSet
  <2>3. Center \in ToSet(Net.processing) /\ \A m \in ToSet(Net.processing) : Worst(Center) <= Worst(m)
    BY <2>1, <2>2 DEF Center
  <2>4. Worst(central) \in Nat /\ Worst(Center) \in Nat
    BY <2>1, <2>3, WorstNat
  <2>5. Worst(central) <= Worst(Center) /\ Worst(Center) <= Worst(central)
    BY <2>1, <2>2, <2>3
  <2> QED
    BY <2>4, <2>5
<1> QED
  BY <1>4, <1>5, <1>6, <1>7 DEF RunCollects, Done

\* As long as no call of run() of Simulation found anything left of a call that has
\* bailed out: run() counts exactly the outcomes still to come, in whatever order the
\* workers end; when it returns, the results are those of its own call; and the workers
\* that race on theCentral, several of which may find it null and publish, leave a node
\* of least worst transfer time once none of them searches.
THEOREM SimulationBatchRunCollects == Spec => []RunCollects
<1>1. CleanInv => RunCollects
  BY CollectsFromIInv DEF RunCollects
<1> QED
  BY <1>1, BatchInductive, PTL

-----------------------------------------------------------------------------
(***************************************************************************)
(* Induction on numbers and on finite sets, with a set for the predicate.  *)
(***************************************************************************)
\* Induction up to a number.
LEMMA CountUp ==
  ASSUME NEW n \in Nat, NEW G, 0 \in G, \A k \in 0 .. (n - 1) : k \in G => k + 1 \in G
  PROVE  n \in G
<1> DEFINE Bad == {k \in 0 .. n : k \notin G}
<1>1. SUFFICES ASSUME Bad # {} PROVE FALSE
  <2>1. n \in 0 .. n OBVIOUS
  <2> QED BY <2>1
<1>2. PICK m \in Bad : \A k \in Bad : m <= k
  <2>1. Bad \in SUBSET Nat OBVIOUS
  <2> HIDE DEF Bad
  <2> QED BY <1>1, <2>1, NatMin
<1>3. m \in 0 .. n /\ m \notin G /\ m # 0
  OBVIOUS
<1>4. m - 1 \in 0 .. (n - 1) /\ m - 1 \in 0 .. n /\ ~ (m <= m - 1) /\ (m - 1) + 1 = m
  BY <1>3
<1>5. m - 1 \notin Bad
  <2> HIDE DEF Bad
  <2> QED BY <1>2, <1>4
<1>6. m - 1 \in G
  BY <1>4, <1>5
<1> QED
  BY <1>3, <1>4, <1>6

\* Induction on the parts of a finite set, one element at a time.
LEMMA FillSet ==
  ASSUME NEW S, IsFiniteSet(S), NEW G, {} \in G,
         \A T \in SUBSET S : \A x \in S \ T : T \in G => T \cup {x} \in G
  PROVE  S \in G
<1> DEFINE H == {k \in Nat : \A T \in SUBSET S : Cardinality(T) = k => T \in G}
<1>1. Cardinality(S) \in Nat
  BY FS_CardinalityType
<1>2. 0 \in H
  <2>1. \A T \in SUBSET S : Cardinality(T) = 0 => T = {}
    BY FS_EmptySet, FS_Subset
  <2> QED
    BY <2>1
<1>3. ASSUME NEW k \in 0 .. (Cardinality(S) - 1), k \in H PROVE k + 1 \in H
  <2>1. k \in Nat /\ k + 1 \in Nat
    BY <1>1
  <2> SUFFICES ASSUME NEW T \in SUBSET S, Cardinality(T) = k + 1 PROVE T \in G
    BY <2>1
  <2>2. IsFiniteSet(T)
    BY FS_Subset
  <2>3. T # {}
    <3>1. Cardinality({}) = 0 /\ k + 1 # 0
      BY <2>1, FS_EmptySet
    <3> QED
      BY <3>1
  <2>4. PICK x \in T : TRUE
    BY <2>3
  <2>5. PICK U : U = T \ {x}
    OBVIOUS
  <2>6. Cardinality(U) = k
    <3>1. Cardinality(U) = Cardinality(T) - 1
      BY <2>2, <2>4, <2>5, FS_RemoveElement
    <3> QED
      BY <3>1, <2>1
  <2>7. U \in SUBSET S /\ x \in S \ U /\ T = U \cup {x}
    BY <2>4, <2>5
  <2>8. U \in G
    BY <1>3, <2>6, <2>7
  <2> QED
    BY <2>7, <2>8
<1>4. Cardinality(S) \in H
  <2> HIDE DEF H
  <2> QED BY <1>1, <1>2, <1>3, CountUp
<1> QED
  BY <1>4

\* A recursive function on 0..n, computed with functions that keep to a set.
Steps(step, n, X) == step \in [1 .. n -> [X -> X]]

\* A recursive function on the numbers up to n exists.
LEMMA RecExists ==
  ASSUME NEW n \in Nat, NEW X, NEW base \in X, NEW step, Steps(step, n, X)
  PROVE  \E f \in [0 .. n -> X] : f[0] = base /\ \A k \in 1 .. n : f[k] = step[k][f[k - 1]]
<1>0. step \in [1 .. n -> [X -> X]]
  BY DEF Steps
<1> DEFINE Upto(f, m) == f \in [0 .. m -> X] /\ f[0] = base
                           /\ \A k \in 1 .. m : f[k] = step[k][f[k - 1]]
           G == {m \in Nat : m <= n => \E f : Upto(f, m)}
<1>1. 0 \in G
  <2>1. PICK f : f = [k \in 0 .. 0 |-> base]
    OBVIOUS
  <2>2. Upto(f, 0)
    BY <2>1
  <2> QED
    BY <2>2
<1>2. ASSUME NEW m \in 0 .. (n - 1), m \in G PROVE m + 1 \in G
  <2>1. m \in Nat /\ m <= n /\ m + 1 \in 1 .. n
    OBVIOUS
  <2>2. PICK f : Upto(f, m)
    BY <2>1, <1>2
  <2>3. PICK g : g = [k \in 0 .. (m + 1) |-> IF k = m + 1 THEN step[m + 1][f[m]] ELSE f[k]]
    OBVIOUS
  <2>4. \A k \in 0 .. (m + 1) : k # m + 1 => k \in 0 .. m
    BY <2>1
  <2>5. \A k \in 0 .. m : g[k] = f[k] /\ f[k] \in X
    BY <2>1, <2>2, <2>3
  <2>6. m \in 0 .. m /\ 0 \in 0 .. m /\ m + 1 \in 0 .. (m + 1)
    BY <2>1
  <2>7. g[m + 1] = step[m + 1][f[m]] /\ step[m + 1][f[m]] \in X
    BY <2>1, <2>3, <2>5, <2>6, <1>0
  <2>8. g \in [0 .. (m + 1) -> X]
    BY <2>3, <2>4, <2>5, <2>7
  <2>9. \A k \in 1 .. (m + 1) : g[k] = step[k][g[k - 1]]
    <3> TAKE k \in 1 .. (m + 1)
    <3>1. CASE k = m + 1
      BY <3>1, <2>1, <2>5, <2>6, <2>7
    <3>2. CASE k # m + 1
      <4>1. k \in 1 .. m /\ k \in 0 .. m /\ k - 1 \in 0 .. m
        BY <3>2, <2>1
      <4> QED
        BY <4>1, <2>2, <2>5
    <3> QED
      BY <3>1, <3>2
  <2>10. Upto(g, m + 1)
    BY <2>2, <2>5, <2>6, <2>8, <2>9
  <2> HIDE DEF Upto
  <2> QED
    BY <2>1, <2>10
<1>3. n \in G
  <2> HIDE DEF G
  <2> QED BY <1>1, <1>2, CountUp
<1> QED
  BY <1>3

-----------------------------------------------------------------------------
(***************************************************************************)
(* Sums over a finite set.                                                 *)
(***************************************************************************)
Total(f, S) == SumFunctionOnSet(f, S)

\* The recursive function in SumFunctionOnSet.
PlusOne(t, f, s) ==
  IF s = {} THEN 0 ELSE f[CHOOSE x \in s : TRUE] + t[s \ {CHOOSE x \in s : TRUE}]
Totals(t, f, S) == t = [s \in SUBSET S |-> PlusOne(t, f, s)]

\* The recursive function of a sum over the parts of a finite set exists.
LEMMA TotalsExist ==
  ASSUME NEW f, NEW S, IsFiniteSet(S)
  PROVE  \E t : Totals(t, f, S)
<1> DEFINE Small(k) == {u \in SUBSET S : Cardinality(u) <= k}
           Upto(t, k) == t = [s \in Small(k) |-> PlusOne(t, f, s)]
           G == {k \in Nat : \E t : Upto(t, k)}
<1>0. \A u \in SUBSET S : IsFiniteSet(u) /\ Cardinality(u) \in Nat /\ Cardinality(u) <= Cardinality(S)
  BY FS_Subset, FS_CardinalityType
<1>1. Cardinality(S) \in Nat
  BY FS_CardinalityType
<1>2. 0 \in G
  <2>1. PICK t : t = [s \in Small(0) |-> 0]
    OBVIOUS
  <2>2. \A s \in Small(0) : s = {}
    BY <1>0, FS_EmptySet
  <2>3. Upto(t, 0)
    BY <2>1, <2>2 DEF PlusOne
  <2> QED
    BY <2>3
<1>3. ASSUME NEW k \in 0 .. (Cardinality(S) - 1), k \in G PROVE k + 1 \in G
  <2>1. k \in Nat /\ k + 1 \in Nat /\ k <= k + 1
    BY <1>1
  <2>2. PICK t : Upto(t, k)
    BY <1>3
  <2>3. PICK v : v = [s \in Small(k + 1) |-> PlusOne(t, f, s)]
    OBVIOUS
  <2>4. \A s \in Small(k) : s \in Small(k + 1) /\ t[s] = PlusOne(t, f, s)
    BY <2>1, <2>2, <1>0
  <2>5. \A s \in Small(k + 1) : s # {} => s \ {CHOOSE x \in s : TRUE} \in Small(k)
    <3> TAKE s \in Small(k + 1)
    <3> HAVE s # {}
    <3>1. PICK x : x = CHOOSE y \in s : TRUE
      OBVIOUS
    <3>2. x \in s
      BY <3>1
    <3>3. Cardinality(s \ {x}) = Cardinality(s) - 1
      BY <3>2, <1>0, FS_RemoveElement
    <3> QED
      BY <3>1, <3>3, <1>0, <2>1
  <2>6. \A s \in Small(k) : v[s] = t[s]
    BY <2>3, <2>4
  <2>7. \A s \in Small(k + 1) : v[s] = PlusOne(v, f, s)
    <3> TAKE s \in Small(k + 1)
    <3>1. v[s] = PlusOne(t, f, s)
      BY <2>3
    <3> QED
      BY <3>1, <2>5, <2>6 DEF PlusOne
  <2>8. Upto(v, k + 1)
    <3>1. v = [s \in Small(k + 1) |-> v[s]] BY <2>3
    <3> QED BY <3>1, <2>7
  <2> QED
    BY <2>1, <2>8
<1>4. Cardinality(S) \in G
  <2> HIDE DEF G
  <2> QED BY <1>1, <1>2, <1>3, CountUp
<1>5. PICK t : Upto(t, Cardinality(S))
  BY <1>4
<1>6. Small(Cardinality(S)) = SUBSET S
  BY <1>0
<1> QED
  BY <1>5, <1>6 DEF Totals

\* A sum is a value of that function.
LEMMA TotalIs ==
  ASSUME NEW f, NEW S, IsFiniteSet(S)
  PROVE  \E t : Totals(t, f, S) /\ Total(f, S) = t[S]
<1>1. PICK t : t = CHOOSE iter : iter = [s \in SUBSET S |->
                     IF s = {} THEN 0 ELSE f[CHOOSE x \in s : TRUE] + iter[s \ {CHOOSE x \in s : TRUE}]]
  OBVIOUS
<1>2. Total(f, S) = t[S]
  BY <1>1 DEF Total, SumFunctionOnSet, FoldFunctionOnSet, MapThenFoldSet
<1>3. \E u : u = [s \in SUBSET S |->
               IF s = {} THEN 0 ELSE f[CHOOSE x \in s : TRUE] + u[s \ {CHOOSE x \in s : TRUE}]]
  <2>1. PICK u : Totals(u, f, S)
    BY TotalsExist
  <2>2. u = [s \in SUBSET S |->
               IF s = {} THEN 0 ELSE f[CHOOSE x \in s : TRUE] + u[s \ {CHOOSE x \in s : TRUE}]]
    BY <2>1 DEF Totals, PlusOne
  <2> QED
    BY <2>2
<1>4. t = [s \in SUBSET S |->
               IF s = {} THEN 0 ELSE f[CHOOSE x \in s : TRUE] + t[s \ {CHOOSE x \in s : TRUE}]]
  BY <1>1, <1>3
<1>5. Totals(t, f, S)
  BY <1>4 DEF Totals, PlusOne
<1> QED
  BY <1>2, <1>5

\* The function is determined by what is added.
Agree(f, g, S) == \A x \in S : f[x] = g[x]

\* Sums of what agrees on a set are equal.
LEMMA TotalsAgree ==
  ASSUME NEW f, NEW g, NEW S, NEW R, IsFiniteSet(S), NEW t, NEW v, Totals(t, f, S), Totals(v, g, R),
         NEW U, U \subseteq S, U \subseteq R, Agree(f, g, U)
  PROVE  t[U] = v[U]
<1>0. \A s \in SUBSET U : IsFiniteSet(s) /\ Cardinality(s) \in Nat
  BY FS_Subset, FS_CardinalityType
<1>1. \A s \in SUBSET U : t[s] = PlusOne(t, f, s) /\ v[s] = PlusOne(v, g, s)
  BY DEF Totals
<1> DEFINE G == {k \in Nat : \A s \in SUBSET U : Cardinality(s) = k => t[s] = v[s]}
<1>2. 0 \in G
  <2>1. \A s \in SUBSET U : Cardinality(s) = 0 => s = {}
    BY <1>0, FS_EmptySet
  <2>2. t[{}] = 0 /\ v[{}] = 0
    BY <1>1 DEF PlusOne
  <2> QED
    BY <2>1, <2>2
<1>3. ASSUME NEW k \in Nat, k \in G PROVE k + 1 \in G
  <2> SUFFICES ASSUME NEW s \in SUBSET U, Cardinality(s) = k + 1 PROVE t[s] = v[s]
    OBVIOUS
  <2>1. s # {}
    <3>1. Cardinality({}) = 0 /\ k + 1 # 0
      BY FS_EmptySet
    <3> QED
      BY <3>1
  <2>2. PICK x : x = CHOOSE y \in s : TRUE
    OBVIOUS
  <2>3. x \in s /\ x \in U
    BY <2>1, <2>2
  <2>4. PICK r : r = s \ {x}
    OBVIOUS
  <2>5. Cardinality(r) = k /\ r \in SUBSET U
    <3>1. Cardinality(r) = Cardinality(s) - 1
      BY <2>3, <2>4, <1>0, FS_RemoveElement
    <3> QED
      BY <3>1, <2>4
  <2>6. t[r] = v[r]
    BY <1>3, <2>5
  <2>7. t[s] = f[x] + t[r] /\ v[s] = g[x] + v[r]
    BY <1>1, <2>1, <2>2, <2>4 DEF PlusOne
  <2> QED
    BY <2>3, <2>6, <2>7 DEF Agree
<1>4. Cardinality(U) \in Nat
  BY <1>0
<1>5. Cardinality(U) \in G
  <2>1. \A k \in 0 .. (Cardinality(U) - 1) : k \in Nat
    BY <1>4
  <2> HIDE DEF G
  <2> QED BY <1>2, <1>3, <1>4, <2>1, CountUp
<1> QED
  BY <1>5

\* A sum depends only on the terms.
LEMMA TotalSame ==
  ASSUME NEW f, NEW g, NEW S, IsFiniteSet(S), \A x \in S : f[x] = g[x]
  PROVE  Total(f, S) = Total(g, S)
<1>1. PICK t : Totals(t, f, S) /\ Total(f, S) = t[S]
  BY TotalIs
<1>2. PICK v : Totals(v, g, S) /\ Total(g, S) = v[S]
  BY TotalIs
<1>3. S \subseteq S /\ Agree(f, g, S)
  BY DEF Agree
<1>4. t[S] = v[S]
  BY <1>1, <1>2, <1>3, TotalsAgree
<1> QED
  BY <1>1, <1>2, <1>4

\* A sum, unfolded once.
LEMMA TotalRec ==
  ASSUME NEW f, NEW S, IsFiniteSet(S)
  PROVE  /\ S = {} => Total(f, S) = 0
         /\ S # {} => \E x \in S : Total(f, S) = f[x] + Total(f, S \ {x})
                                   /\ x = CHOOSE y \in S : TRUE
<1>1. PICK t : Totals(t, f, S) /\ Total(f, S) = t[S]
  BY TotalIs
<1>2. t[S] = PlusOne(t, f, S)
  BY <1>1 DEF Totals
<1>3. ASSUME S # {}
      PROVE  \E x \in S : Total(f, S) = f[x] + Total(f, S \ {x}) /\ x = CHOOSE y \in S : TRUE
  <2>1. PICK x : x = CHOOSE y \in S : TRUE
    OBVIOUS
  <2>2. x \in S
    BY <1>3, <2>1
  <2>3. PICK R : R = S \ {x}
    OBVIOUS
  <2>4. IsFiniteSet(R)
    BY <2>3, FS_Subset
  <2>5. PICK v : Totals(v, f, R) /\ Total(f, R) = v[R]
    BY <2>4, TotalIs
  <2>6. R \subseteq S /\ R \subseteq R /\ Agree(f, f, R)
    BY <2>3 DEF Agree
  <2>7. t[R] = v[R]
    BY <1>1, <2>5, <2>6, TotalsAgree
  <2>8. t[S] = f[x] + t[R]
    BY <1>2, <1>3, <2>1, <2>3 DEF PlusOne
  <2> QED
    BY <1>1, <2>1, <2>2, <2>3, <2>5, <2>7, <2>8
<1> QED
  BY <1>1, <1>2, <1>3 DEF PlusOne

\* A sum of natural numbers is one.
LEMMA TotalNat ==
  ASSUME NEW S, IsFiniteSet(S), NEW f, \A x \in S : f[x] \in Nat
  PROVE  Total(f, S) \in Nat
<1> DEFINE G == {k \in Nat : \A T \in SUBSET S : Cardinality(T) = k => Total(f, T) \in Nat}
<1>0. \A T \in SUBSET S : IsFiniteSet(T) /\ Cardinality(T) \in Nat
  BY FS_Subset, FS_CardinalityType
<1>1. 0 \in G
  <2>1. \A T \in SUBSET S : Cardinality(T) = 0 => T = {}
    BY <1>0, FS_EmptySet
  <2> QED
    BY <2>1, <1>0, TotalRec
<1>2. ASSUME NEW k \in Nat, k \in G PROVE k + 1 \in G
  <2> SUFFICES ASSUME NEW T \in SUBSET S, Cardinality(T) = k + 1 PROVE Total(f, T) \in Nat
    OBVIOUS
  <2>1. T # {}
    <3>1. Cardinality({}) = 0 /\ k + 1 # 0
      BY FS_EmptySet
    <3> QED
      BY <3>1
  <2>2. PICK x \in T : Total(f, T) = f[x] + Total(f, T \ {x})
    BY <2>1, <1>0, TotalRec
  <2>3. Cardinality(T \ {x}) = k
    <3>1. Cardinality(T \ {x}) = Cardinality(T) - 1
      BY <1>0, FS_RemoveElement
    <3> QED
      BY <3>1
  <2>4. Total(f, T \ {x}) \in Nat
    BY <1>2, <2>3
  <2> QED
    BY <2>2, <2>4
<1>3. Cardinality(S) \in G
  <2>1. Cardinality(S) \in Nat /\ \A k \in 0 .. (Cardinality(S) - 1) : k \in Nat
    BY <1>0
  <2> HIDE DEF G
  <2> QED BY <1>1, <1>2, <2>1, CountUp
<1> QED
  BY <1>3

\* Any element can be the last one that is added.
LEMMA TotalRemove ==
  ASSUME NEW S, IsFiniteSet(S), NEW f, \A x \in S : f[x] \in Nat, NEW z \in S
  PROVE  Total(f, S) = f[z] + Total(f, S \ {z})
<1> DEFINE G == {k \in Nat : \A T \in SUBSET S : Cardinality(T) = k =>
                   \A x \in T : Total(f, T) = f[x] + Total(f, T \ {x})}
<1>0. \A T \in SUBSET S : IsFiniteSet(T) /\ Cardinality(T) \in Nat /\ Total(f, T) \in Nat
  <2> TAKE T \in SUBSET S
  <2>1. IsFiniteSet(T) /\ \A x \in T : f[x] \in Nat
    BY FS_Subset
  <2> QED
    BY <2>1, TotalNat, FS_CardinalityType
<1>1. 0 \in G
  <2>1. \A T \in SUBSET S : Cardinality(T) = 0 => T = {}
    BY <1>0, FS_EmptySet
  <2> QED
    BY <2>1
<1>2. ASSUME NEW k \in Nat, k \in G PROVE k + 1 \in G
  <2> SUFFICES ASSUME NEW T \in SUBSET S, Cardinality(T) = k + 1, NEW x \in T
               PROVE  Total(f, T) = f[x] + Total(f, T \ {x})
    OBVIOUS
  <2>1. PICK c \in T : Total(f, T) = f[c] + Total(f, T \ {c}) /\ c = CHOOSE y \in T : TRUE
    BY <1>0, TotalRec
  <2>2. CASE c = x
    BY <2>1, <2>2
  <2>3. CASE c # x
    <3>1. PICK A, B, C : A = T \ {c} /\ B = T \ {x} /\ C = A \ {x}
      OBVIOUS
    <3>2. A \in SUBSET S /\ B \in SUBSET S /\ C \in SUBSET S /\ x \in A /\ c \in B /\ C = B \ {c}
      BY <2>3, <3>1
    <3>3. Cardinality(A) = k /\ Cardinality(B) = k
      <4>1. Cardinality(A) = Cardinality(T) - 1 /\ Cardinality(B) = Cardinality(T) - 1
        BY <1>0, <3>1, FS_RemoveElement
      <4> QED
        BY <4>1
    <3>4. Total(f, A) = f[x] + Total(f, C) /\ Total(f, B) = f[c] + Total(f, C)
      BY <1>2, <3>1, <3>2, <3>3
    <3>5. f[x] \in Nat /\ f[c] \in Nat /\ Total(f, C) \in Nat
      BY <1>0, <3>2
    <3> QED
      BY <2>1, <3>1, <3>4, <3>5
  <2> QED
    BY <2>2, <2>3
<1>3. Cardinality(S) \in G
  <2>1. Cardinality(S) \in Nat /\ \A k \in 0 .. (Cardinality(S) - 1) : k \in Nat
    BY <1>0
  <2> HIDE DEF G
  <2> QED BY <1>1, <1>2, <2>1, CountUp
<1> QED
  BY <1>3

\* A new term.
LEMMA TotalAdd ==
  ASSUME NEW S, IsFiniteSet(S), NEW f, \A x \in S : f[x] \in Nat, NEW z, z \notin S, f[z] \in Nat
  PROVE  Total(f, S \cup {z}) = f[z] + Total(f, S)
<1>1. PICK T : T = S \cup {z}
  OBVIOUS
<1>2. IsFiniteSet(T) /\ z \in T /\ T \ {z} = S /\ \A x \in T : f[x] \in Nat
  BY <1>1, FS_AddElement
<1> QED
  BY <1>1, <1>2, TotalRemove

\* A sum of zeros.
LEMMA TotalZero ==
  ASSUME NEW S, IsFiniteSet(S), NEW f, \A x \in S : f[x] = 0
  PROVE  Total(f, S) = 0
<1> DEFINE G == {T \in SUBSET S : Total(f, T) = 0}
<1>1. {} \in G
  BY TotalRec, FS_EmptySet
<1>2. ASSUME NEW T \in SUBSET S, NEW x \in S \ T, T \in G PROVE T \cup {x} \in G
  <2>1. IsFiniteSet(T) /\ x \notin T /\ f[x] \in Nat /\ \A y \in T : f[y] \in Nat
    BY FS_Subset
  <2>2. Total(f, T \cup {x}) = f[x] + Total(f, T)
    BY <2>1, TotalAdd
  <2> QED
    BY <1>2, <2>2
<1>3. S \in G
  <2> HIDE DEF G
  <2> QED BY <1>1, <1>2, FillSet
<1> QED
  BY <1>3

\* Sums of smaller terms are smaller, and equal only if the terms are.
LEMMA TotalLess ==
  ASSUME NEW S, IsFiniteSet(S), NEW f, NEW g, \A x \in S : f[x] \in Nat /\ g[x] \in Nat /\ f[x] <= g[x]
  PROVE  /\ Total(f, S) <= Total(g, S)
         /\ Total(f, S) = Total(g, S) => Agree(f, g, S)
<1> DEFINE G == {T \in SUBSET S : /\ Total(f, T) <= Total(g, T)
                                  /\ Total(f, T) = Total(g, T) => \A y \in T : f[y] = g[y]}
<1>1. {} \in G
  <2>1. Total(f, {}) = 0 /\ Total(g, {}) = 0
    BY TotalRec, FS_EmptySet
  <2> QED
    BY <2>1
<1>2. ASSUME NEW T \in SUBSET S, NEW x \in S \ T, T \in G PROVE T \cup {x} \in G
  <2>1. /\ IsFiniteSet(T) /\ x \notin T /\ f[x] \in Nat /\ g[x] \in Nat /\ f[x] <= g[x]
        /\ \A y \in T : f[y] \in Nat
        /\ \A y \in T : g[y] \in Nat
    BY FS_Subset
  <2>2. Total(f, T \cup {x}) = f[x] + Total(f, T) /\ Total(g, T \cup {x}) = g[x] + Total(g, T)
    BY <2>1, TotalAdd
  <2>3. Total(f, T) \in Nat /\ Total(g, T) \in Nat
    BY <2>1, TotalNat
  <2>4. Total(f, T) <= Total(g, T) /\ (Total(f, T) = Total(g, T) => \A y \in T : f[y] = g[y])
    BY <1>2
  <2>5. PICK a, b, c, d : a = f[x] /\ b = g[x] /\ c = Total(f, T) /\ d = Total(g, T)
    OBVIOUS
  <2>6. a + c <= b + d /\ (a + c = b + d => a = b /\ c = d)
    BY <2>1, <2>3, <2>4, <2>5
  <2>7. Total(f, T \cup {x}) <= Total(g, T \cup {x})
    BY <2>2, <2>5, <2>6
  <2>8. ASSUME Total(f, T \cup {x}) = Total(g, T \cup {x}), NEW y \in T \cup {x} PROVE f[y] = g[y]
    BY <2>2, <2>4, <2>5, <2>6, <2>8
  <2> QED
    BY <2>7, <2>8
<1>3. S \in G
  <2> HIDE DEF G
  <2> QED BY <1>1, <1>2, FillSet
<1> QED
  BY <1>3 DEF Agree

\* The sum over a part is at most the sum over the whole.
LEMMA TotalSubset ==
  ASSUME NEW S, IsFiniteSet(S), NEW f, \A x \in S : f[x] \in Nat, NEW R \in SUBSET S
  PROVE  Total(f, R) <= Total(f, S)
<1> DEFINE G == {T \in SUBSET (S \ R) : Total(f, R) <= Total(f, R \cup T)}
<1>0. \A T \in SUBSET S : IsFiniteSet(T) /\ Total(f, T) \in Nat
  <2> TAKE T \in SUBSET S
  <2>1. IsFiniteSet(T) /\ \A x \in T : f[x] \in Nat
    BY FS_Subset
  <2> QED
    BY <2>1, TotalNat
<1>1. {} \in G
  <2>1. R \cup {} = R /\ Total(f, R) \in Nat
    BY <1>0
  <2> QED
    BY <2>1
<1>2. ASSUME NEW T \in SUBSET (S \ R), NEW x \in (S \ R) \ T, T \in G PROVE T \cup {x} \in G
  <2>1. PICK U : U = R \cup T
    OBVIOUS
  <2>2. U \in SUBSET S /\ x \notin U /\ f[x] \in Nat /\ R \cup (T \cup {x}) = U \cup {x}
    BY <2>1
  <2>3. IsFiniteSet(U) /\ \A y \in U : f[y] \in Nat
    BY <1>0, <2>2
  <2>4. Total(f, U \cup {x}) = f[x] + Total(f, U)
    BY <2>2, <2>3, TotalAdd
  <2>5. Total(f, R) \in Nat /\ Total(f, U) \in Nat /\ Total(f, R) <= Total(f, U)
    BY <1>0, <1>2, <2>1, <2>2
  <2>6. Total(f, R) <= Total(f, U \cup {x})
    BY <2>2, <2>4, <2>5
  <2> QED
    BY <2>2, <2>6
<1>3. S \ R \in G
  <2>1. IsFiniteSet(S \ R)
    BY FS_Subset
  <2> HIDE DEF G
  <2> QED BY <1>1, <1>2, <2>1, FillSet
<1>4. R \cup (S \ R) = S
  OBVIOUS
<1> QED
  BY <1>3, <1>4

\* One term is changed.
Raised(f, g, S, z, d) == g[z] = f[z] + d /\ \A x \in S \ {z} : g[x] = f[x]

LEMMA TotalUpdate ==
  ASSUME NEW S, IsFiniteSet(S), NEW f, NEW g, \A x \in S : f[x] \in Nat, NEW z \in S, NEW d \in Nat,
         Raised(f, g, S, z, d)
  PROVE  Total(g, S) = Total(f, S) + d
<1>1. PICK R : R = S \ {z}
  OBVIOUS
<1>2. /\ IsFiniteSet(R) /\ f[z] \in Nat /\ g[z] \in Nat /\ g[z] = f[z] + d
      /\ \A x \in R : g[x] = f[x]
  BY <1>1, FS_Subset DEF Raised
<1>3. Total(g, R) = Total(f, R)
  BY <1>2, TotalSame
<1>4. \A x \in S : g[x] \in Nat
  BY <1>1, <1>2
<1>5. Total(f, S) = f[z] + Total(f, R) /\ Total(g, S) = g[z] + Total(g, R)
  BY <1>1, <1>4, TotalRemove
<1>6. Total(f, R) \in Nat
  BY <1>1, <1>2, TotalNat
<1> QED
  BY <1>2, <1>3, <1>5, <1>6

\* The terms of a sum grouped by the value of a function.
Grouped(D, E, w, n, ed) ==
  Total([e \in E |-> n[e] * Total(w, {c \in D : ed[c] = e})], E)
    = Total([c \in D |-> w[c] * n[ed[c]]], D)

LEMMA TotalGroups ==
  ASSUME NEW D, IsFiniteSet(D), NEW E, IsFiniteSet(E), NEW w, \A c \in D : w[c] \in Nat,
         NEW n, \A e \in E : n[e] \in Nat, NEW ed, \A c \in D : ed[c] \in E
  PROVE  Grouped(D, E, w, n, ed)
<1>1. PICK h : h = [c \in D |-> w[c] * n[ed[c]]]
  OBVIOUS
<1> DEFINE part(T, e) == {c \in T : ed[c] = e}
           row(T) == [e \in E |-> n[e] * Total(w, part(T, e))]
           G == {T \in SUBSET D : Total(row(T), E) = Total(h, T)}
<1>2. \A c \in D : h[c] = w[c] * n[ed[c]] /\ h[c] \in Nat
  BY <1>1
<1>3. \A T \in SUBSET D : \A e : IsFiniteSet(T) /\ IsFiniteSet(part(T, e)) /\ Total(w, part(T, e)) \in Nat
  <2> SUFFICES ASSUME NEW T \in SUBSET D, NEW e
               PROVE  IsFiniteSet(T) /\ IsFiniteSet(part(T, e)) /\ Total(w, part(T, e)) \in Nat
    OBVIOUS
  <2>1. PICK P : P = part(T, e)
    OBVIOUS
  <2>2. IsFiniteSet(T) /\ IsFiniteSet(P) /\ \A c \in P : w[c] \in Nat
    BY <2>1, FS_Subset
  <2> QED
    BY <2>1, <2>2, TotalNat
<1>4. {} \in G
  <2>1. \A e : part({}, e) = {}
    OBVIOUS
  <2>2. Total(w, {}) = 0 /\ Total(h, {}) = 0
    BY TotalRec, FS_EmptySet
  <2>3. PICK r : r = row({})
    OBVIOUS
  <2>4. \A e \in E : r[e] = 0
    BY <2>1, <2>2, <2>3
  <2>5. Total(r, E) = 0
    BY <2>4, TotalZero
  <2> QED
    BY <2>2, <2>3, <2>5
<1>5. ASSUME NEW T \in SUBSET D, NEW x \in D \ T, T \in G PROVE T \cup {x} \in G
  <2>1. PICK U, z, r, q : U = T \cup {x} /\ z = ed[x] /\ r = row(T) /\ q = row(U)
    OBVIOUS
  <2>2. U \in SUBSET D /\ z \in E /\ w[x] \in Nat /\ n[z] \in Nat /\ x \notin T
    BY <2>1
  <2>3. ASSUME NEW e \in E PROVE r[e] \in Nat
    <3>1. PICK a \in Nat, b \in Nat : a = n[e] /\ b = Total(w, part(T, e))
      BY <1>3
    <3> QED
      BY <2>1, <3>1
  <2>4. ASSUME NEW e \in E \ {z} PROVE q[e] = r[e]
    <3>1. part(U, e) = part(T, e)
      BY <2>1, <2>4
    <3> QED
      BY <2>1, <3>1
  <2>5. q[z] = r[z] + w[x] * n[z]
    <3>1. PICK P : P = part(T, z)
      OBVIOUS
    <3>2. part(U, z) = P \cup {x} /\ x \notin P /\ \A c \in P : w[c] \in Nat
      BY <2>1, <2>2, <3>1
    <3>3. IsFiniteSet(P) /\ Total(w, P) \in Nat
      BY <1>3, <3>1
    <3>4. Total(w, part(U, z)) = w[x] + Total(w, P)
      BY <2>2, <3>2, <3>3, TotalAdd
    <3>5. q[z] = n[z] * Total(w, part(U, z)) /\ r[z] = n[z] * Total(w, P)
      BY <2>1, <2>2, <3>1
    <3>6. PICK a, b, c : a = n[z] /\ b = w[x] /\ c = Total(w, P)
      OBVIOUS
    <3>7. a \in Nat /\ b \in Nat /\ c \in Nat
      BY <2>2, <3>3, <3>6
    <3>8. a * (b + c) = a * c + b * a
      BY <3>7
    <3> QED
      BY <3>4, <3>5, <3>6, <3>8
  <2>6. w[x] * n[z] \in Nat
    BY <2>2
  <2>7. Total(q, E) = Total(r, E) + w[x] * n[z]
    <3>1. PICK d \in Nat : d = w[x] * n[z]
      BY <2>6
    <3>2. Raised(r, q, E, z, d)
      BY <2>4, <2>5, <3>1 DEF Raised
    <3> QED
      BY <2>2, <2>3, <3>1, <3>2, TotalUpdate
  <2>8. Total(h, U) = w[x] * n[z] + Total(h, T)
    <3>1. h[x] = w[x] * n[z] /\ h[x] \in Nat /\ \A c \in T : h[c] \in Nat
      BY <1>2, <2>1
    <3>2. Total(h, T \cup {x}) = h[x] + Total(h, T)
      BY <1>3, <2>2, <3>1, TotalAdd
    <3> QED
      BY <2>1, <3>1, <3>2
  <2>9. Total(h, T) \in Nat /\ Total(r, E) = Total(h, T)
    <3>1. IsFiniteSet(T) /\ \A c \in T : h[c] \in Nat
      BY <1>2, <1>3
    <3> QED
      BY <1>5, <2>1, <3>1, TotalNat
  <2>10. Total(q, E) = Total(h, U)
    BY <2>6, <2>7, <2>8, <2>9
  <2> QED
    BY <2>1, <2>2, <2>10
<1>6. D \in G
  <2> HIDE DEF G
  <2> QED BY <1>4, <1>5, FillSet
<1>7. Total(row(D), E) = Total(h, D)
  BY <1>6
<1>8. row(D) = [e \in E |-> n[e] * Total(w, {c \in D : ed[c] = e})]
  OBVIOUS
<1> HIDE DEF row
<1> QED
  BY <1>1, <1>7, <1>8 DEF Grouped

-----------------------------------------------------------------------------
(***************************************************************************)
(* Sets in order.                                                          *)
(***************************************************************************)
\* A finite set in which every part has a greatest element can be enumerated in
\* ascending order.
LEMMA OrderExists ==
  ASSUME NEW S, IsFiniteSet(S), NEW R,
         \A T \in SUBSET S : T # {} => \E m \in T : \A y \in T \ {m} : <<y, m>> \in R
  PROVE  \E s \in [1..Cardinality(S) -> S] : \A i, j \in DOMAIN s : i < j => <<s[i], s[j]>> \in R
<1> DEFINE Up(s) == \A i, j \in DOMAIN s : i < j => <<s[i], s[j]>> \in R
           Ordered(T) == \E s \in [1..Cardinality(T) -> T] : Up(s)
           Bad == {n \in Nat : \E T \in SUBSET S : Cardinality(T) = n /\ ~ Ordered(T)}
<1>1. SUFFICES ASSUME Bad # {} PROVE FALSE
  <2>1. Cardinality(S) \in Nat BY FS_CardinalityType
  <2> HIDE DEF Ordered
  <2>2. Ordered(S) BY <2>1
  <2> QED BY <2>2 DEF Ordered
<1>2. PICK n \in Bad : \A m \in Bad : n <= m
  <2>1. Bad \in SUBSET Nat OBVIOUS
  <2> HIDE DEF Bad
  <2> QED BY <1>1, <2>1, NatMin
<1>3. PICK T \in SUBSET S : Cardinality(T) = n /\ ~ Ordered(T)
  BY <1>2 DEF Bad
<1>4. IsFiniteSet(T) /\ n \in Nat
  BY FS_Subset, <1>2
<1>5. T # {}
  <2>1. SUFFICES ASSUME T = {} PROVE FALSE
    OBVIOUS
  <2>2. n = 0
    BY <1>3, <2>1, FS_EmptySet
  <2>3. PICK s : s = [i \in 1..0 |-> 0]
    OBVIOUS
  <2>4. s \in [1..0 -> T] /\ Up(s)
    BY <2>3
  <2> QED
    BY <2>2, <2>4, <1>3
<1>6. PICK a \in T : \A y \in T \ {a} : <<y, a>> \in R
  BY <1>5
<1>7. PICK U : U = T \ {a}
  OBVIOUS
<1>8. Cardinality(U) = n - 1 /\ Cardinality(U) \in Nat /\ U \in SUBSET S
  BY <1>3, <1>4, <1>7, FS_RemoveElement, FS_CardinalityType
<1>9. n - 1 \notin Bad
  <2> HIDE DEF Bad
  <2> QED BY <1>2, <1>4, <1>8
<1>10. Ordered(U)
  <2> HIDE DEF Ordered
  <2> QED BY <1>8, <1>9
<1>11. PICK s \in [1..(n - 1) -> U] : Up(s)
  BY <1>8, <1>10
<1>12. PICK t : t = [i \in 1..n |-> IF i = n THEN a ELSE s[i]]
  OBVIOUS
<1>13. \A i \in 1..n : i # n => i \in 1..(n - 1)
  BY <1>4
<1>14. \A i \in 1..n : i # n => t[i] = s[i] /\ t[i] \in U /\ <<t[i], a>> \in R
  BY <1>6, <1>7, <1>11, <1>12, <1>13
<1>15. t \in [1..n -> T]
  BY <1>12, <1>14, <1>7
<1>16. Up(t)
  <2> SUFFICES ASSUME NEW i \in 1..n, NEW j \in 1..n, i < j PROVE <<t[i], t[j]>> \in R
    BY <1>15
  <2>1. i # n
    BY <1>4
  <2>2. CASE j = n
    BY <2>1, <2>2, <1>14, <1>12
  <2>3. CASE j # n
    <3>1. i \in DOMAIN s /\ j \in DOMAIN s
      BY <2>1, <2>3, <1>11, <1>13
    <3>2. <<s[i], s[j]>> \in R
      BY <3>1, <1>11
    <3> QED
      BY <3>2, <2>1, <2>3, <1>14
  <2> QED
    BY <2>2, <2>3
<1> QED
  BY <1>3, <1>15, <1>16

\* An enumeration without repetition lists all elements.
LEMMA EnumerationFacts ==
  ASSUME NEW S, IsFiniteSet(S), NEW s \in [1..Cardinality(S) -> S],
         \A i, j \in DOMAIN s : i < j => s[i] # s[j]
  PROVE  /\ s \in Seq(S) /\ Len(s) = Cardinality(S) /\ Len(s) \in Nat /\ DOMAIN s = 1..Len(s)
         /\ \A i, j \in DOMAIN s : s[i] = s[j] => i = j
         /\ \A x \in S : \E i \in DOMAIN s : s[i] = x
<1>1. PICK n : n = Cardinality(S)
  OBVIOUS
<1>2. n \in Nat /\ DOMAIN s = 1..n
  BY <1>1, FS_CardinalityType
<1>3. \A i, j \in 1..n : s[i] = s[j] => i = j
  <2> TAKE i, j \in 1..n
  <2>1. i < j \/ i = j \/ j < i
    BY <1>2
  <2> QED
    BY <2>1, <1>2
<1>4. s \in Injection(1..n, S)
  BY <1>1, <1>3 DEF Injection, IsInjective
<1>5. Cardinality(1..n) = n
  BY <1>2, FS_Interval
<1>6. s \in Surjection(1..n, S)
  BY <1>1, <1>4, <1>5, FS_Injection
<1>7. \A x \in S : \E i \in 1..n : s[i] = x
  BY <1>6 DEF Surjection
<1>8. s \in Seq(S) /\ Len(s) = n
  BY <1>1, <1>2
<1> QED
  BY <1>1, <1>2, <1>3, <1>7, <1>8

Ascending(s) == \A i, j \in DOMAIN s : i < j => s[i] < s[j]

\* Natural numbers can be enumerated in ascending order.
LEMMA AscendingExists ==
  ASSUME NEW S \in SUBSET Nat, IsFiniteSet(S)
  PROVE  \E s \in [1..Cardinality(S) -> S] : Ascending(s)
<1>1. PICK R : R = {p \in S \X S : p[1] < p[2]}
  OBVIOUS
<1>2. ASSUME NEW T \in SUBSET S, T # {} PROVE \E m \in T : \A y \in T \ {m} : <<y, m>> \in R
  <2>1. IsFiniteSet(T) /\ T \in SUBSET Nat
    BY FS_Subset
  <2>2. PICK m \in T : \A y \in T : y <= m
    BY <1>2, <2>1, NatMax
  <2>3. \A y \in T \ {m} : y < m /\ <<y, m>> \in S \X S
    BY <2>1, <2>2
  <2> QED
    BY <2>3, <1>1
<1>3. PICK s \in [1..Cardinality(S) -> S] : \A i, j \in DOMAIN s : i < j => <<s[i], s[j]>> \in R
  BY <1>2, OrderExists
<1> QED
  BY <1>1, <1>3 DEF Ascending

\* Sorted lists each element of a set once.
LEMMA SortedFacts ==
  ASSUME NEW S \in SUBSET Nat, IsFiniteSet(S)
  PROVE  /\ Sorted(S) \in Seq(S) /\ DOMAIN Sorted(S) = 1..Len(Sorted(S))
         /\ Len(Sorted(S)) = Cardinality(S) /\ Len(Sorted(S)) \in Nat
         /\ \A i \in DOMAIN Sorted(S) : Sorted(S)[i] \in S
         /\ \A i, j \in DOMAIN Sorted(S) : Sorted(S)[i] = Sorted(S)[j] => i = j
         /\ \A x \in S : \E i \in DOMAIN Sorted(S) : Sorted(S)[i] = x
         /\ \A i, j \in DOMAIN Sorted(S) : i < j => Sorted(S)[i] < Sorted(S)[j]
<1>1. PICK s : s = Sorted(S)
  OBVIOUS
<1>2. \E f \in [1..Cardinality(S) -> S] : \A i, j \in DOMAIN f : i < j => f[i] < f[j]
  BY AscendingExists DEF Ascending
<1>3. s \in [1..Cardinality(S) -> S] /\ \A i, j \in DOMAIN s : i < j => s[i] < s[j]
  BY <1>1, <1>2 DEF Sorted, SortedBy
<1>4. \A i, j \in DOMAIN s : i < j => s[i] # s[j]
  <2>1. \A i \in DOMAIN s : s[i] \in Nat
    BY <1>3
  <2> QED
    BY <2>1, <1>3
<1>5. /\ s \in Seq(S) /\ Len(s) = Cardinality(S) /\ Len(s) \in Nat /\ DOMAIN s = 1..Len(s)
      /\ \A i, j \in DOMAIN s : s[i] = s[j] => i = j
      /\ \A x \in S : \E i \in DOMAIN s : s[i] = x
  BY <1>3, <1>4, EnumerationFacts
<1>6. \A i \in DOMAIN s : s[i] \in S
  BY <1>3
<1> QED
  BY <1>1, <1>3, <1>5, <1>6

\* Sorted, for a sequence that is named.
LEMMA SortedIs ==
  ASSUME NEW S \in SUBSET Nat, IsFiniteSet(S), NEW s, s = Sorted(S)
  PROVE  /\ s \in Seq(Nat) /\ DOMAIN s = 1 .. Cardinality(S) /\ Len(s) = Cardinality(S)
         /\ \A i \in DOMAIN s : s[i] \in S
         /\ \A i, j \in DOMAIN s : s[i] = s[j] => i = j
         /\ \A x \in S : \E i \in DOMAIN s : s[i] = x
         /\ ToSet(s) = S
<1>1. /\ Sorted(S) \in Seq(S) /\ DOMAIN Sorted(S) = 1 .. Len(Sorted(S))
      /\ Len(Sorted(S)) = Cardinality(S)
      /\ \A i \in DOMAIN Sorted(S) : Sorted(S)[i] \in S
      /\ \A i, j \in DOMAIN Sorted(S) : Sorted(S)[i] = Sorted(S)[j] => i = j
      /\ \A x \in S : \E i \in DOMAIN Sorted(S) : Sorted(S)[i] = x
  BY SortedFacts
<1>2. Seq(S) \subseteq Seq(Nat)
  BY SeqMonotonic
<1>3. ToSet(s) = S
  BY <1>1 DEF ToSet
<1> QED
  BY <1>1, <1>2, <1>3

Lists(s, n, S) ==
  /\ DOMAIN s = 1 .. n /\ \A i \in 1 .. n : s[i] \in S
  /\ \A i, j \in 1 .. n : s[i] = s[j] => i = j
  /\ \A x \in S : \E i \in 1 .. n : s[i] = x

\* Sorted enumerates a set.
LEMMA SortedLists ==
  ASSUME NEW S \in SUBSET Nat, IsFiniteSet(S), NEW s, s = Sorted(S), NEW n, n = Cardinality(S)
  PROVE  Lists(s, n, S)
BY SortedFacts DEF Lists

\* Selected lists exactly the elements at the given positions.
LEMMA SelectedFacts ==
  ASSUME NEW seq, IsList(seq), NEW set \in SUBSET DOMAIN seq
  PROVE  /\ IsList(Selected(seq, set)) /\ Len(Selected(seq, set)) = Cardinality(set)
         /\ \A k \in DOMAIN Selected(seq, set) : \E j \in set : Selected(seq, set)[k] = seq[j]
         /\ \A j \in set : \E k \in DOMAIN Selected(seq, set) : Selected(seq, set)[k] = seq[j]
<1>1. DOMAIN seq = 1 .. Len(seq) /\ Len(seq) \in Nat
  BY DEF IsList
<1>2. IsFiniteSet(set) /\ set \in SUBSET Nat
  <2>1. IsFiniteSet(1 .. Len(seq)) /\ set \in SUBSET (1 .. Len(seq))
    BY <1>1, FS_Interval
  <2> QED
    BY <2>1, FS_Subset
<1>3. PICK s, t, n : s = Sorted(set) /\ t = Selected(seq, set) /\ n = Cardinality(set)
  OBVIOUS
<1>4. /\ n \in Nat /\ DOMAIN s = 1 .. n
      /\ \A i \in 1 .. n : s[i] \in set
      /\ \A x \in set : \E i \in 1 .. n : s[i] = x
  BY <1>2, <1>3, SortedFacts
<1>5. t = [k \in 1 .. n |-> seq[s[k]]]
  BY <1>3 DEF Selected
<1>6. DOMAIN t = 1 .. n /\ t = [k \in DOMAIN t |-> t[k]]
  BY <1>5
<1>7. IsList(t) /\ Len(t) = n
  BY <1>4, <1>6, ListOf
<1>8. \A k \in 1 .. n : \E j \in set : t[k] = seq[j]
  BY <1>4, <1>5
<1>9. \A j \in set : \E k \in 1 .. n : t[k] = seq[j]
  BY <1>4, <1>5
<1> QED
  BY <1>3, <1>6, <1>7, <1>8, <1>9

\* The least of what is computed from some numbers, the first of them if equal.
LEMMA LeastBy ==
  ASSUME NEW S \in SUBSET Nat, S # {}, NEW f, \A x \in S : f[x] \in Nat
  PROVE  \E x \in S : \A y \in S : f[x] < f[y] \/ (f[x] = f[y] /\ x <= y)
<1>1. PICK V : V = {f[x] : x \in S}
  OBVIOUS
<1>2. V \in SUBSET Nat /\ V # {}
  BY <1>1
<1>3. PICK v \in V : \A u \in V : v <= u
  BY <1>2, NatMin
<1>4. PICK T : T = {x \in S : f[x] = v}
  OBVIOUS
<1>5. T \in SUBSET Nat /\ T # {}
  BY <1>1, <1>3, <1>4
<1>6. PICK x \in T : \A y \in T : x <= y
  BY <1>5, NatMin
<1>7. x \in S /\ f[x] = v
  BY <1>4
<1>8. ASSUME NEW y \in S PROVE f[x] < f[y] \/ (f[x] = f[y] /\ x <= y)
  <2>1. f[y] \in V /\ v <= f[y] /\ v \in Nat /\ f[y] \in Nat
    BY <1>1, <1>2, <1>3
  <2>2. CASE f[y] = v
    BY <2>2, <1>4, <1>6, <1>7
  <2>3. CASE f[y] # v
    BY <2>1, <2>3, <1>7
  <2> QED
    BY <2>2, <2>3
<1> QED
  BY <1>7, <1>8

\* Integer division rounds down.
LEMMA DivFacts ==
  ASSUME NEW x \in Nat, NEW d \in Nat \ {0}
  PROVE  x \div d \in Nat /\ d * (x \div d) <= x
OBVIOUS

\* The part of the containers that is left by alpha.
LEMMA PartFacts ==
  ASSUME NEW x \in Nat, NEW p \in Nat, NEW q \in Nat \ {0}, p <= q
  PROVE  (x * p) \div q \in Nat /\ (x * p) \div q <= x
<1>1. PICK y : y = x * p
  OBVIOUS
<1>2. y \in Nat
  BY <1>1
<1>3. PICK z : z = y \div q
  OBVIOUS
<1>4. z \in Nat /\ q * z <= y
  BY <1>2, <1>3, DivFacts
<1>5. y <= x * q
  BY <1>1
<1>6. z <= x
  <2>1. SUFFICES ASSUME ~ (z <= x) PROVE FALSE
    OBVIOUS
  <2>2. PICK r \in Nat : z = x + 1 + r
    <3>1. z - x - 1 \in Nat /\ z = x + 1 + (z - x - 1)
      BY <2>1, <1>4
    <3> QED
      BY <3>1
  <2>3. q * z = q * x + q + q * r
    BY <2>2
  <2>4. q * r >= 0 /\ q >= 1 /\ q * x = x * q
    BY <2>2
  <2> QED
    BY <2>3, <2>4, <1>4, <1>5, <1>2
<1> QED
  BY <1>1, <1>3, <1>4, <1>6

-----------------------------------------------------------------------------
(***************************************************************************)
(* Nodes, brokers and the costs between them.                              *)
(***************************************************************************)
\* The edge nodes are nodes of the network with containers and a capacity.
LEMMA EdgesFacts ==
  /\ IsList(EdgeNodes) /\ Len(EdgeNodes) \in Nat /\ Len(EdgeNodes) > 0
  /\ \A k \in 1 .. Len(EdgeNodes) : EdgeNodes[k] \in ToSet(Net.processing)
  /\ \A k \in 1 .. Len(EdgeNodes) : Net.containers[EdgeNodes[k]] \in Nat /\ Net.capacity[EdgeNodes[k]] \in Nat
  /\ IsFiniteSet(Edges) /\ CLOUD \in Edges
  /\ \A e \in Edges : e # CLOUD => e \in 1 .. Len(EdgeNodes)
<1>1. PICK P : P = {k \in DOMAIN Net.processing : Net.processing[k] \notin ToSet(Net.clients)}
  OBVIOUS
<1>2. EdgeNodes = Selected(Net.processing, P)
  BY <1>1 DEF EdgeNodes
<1>3. IsList(Net.processing) /\ P \in SUBSET DOMAIN Net.processing
  BY <1>1, NetworkFinite DEF IsList
<1>4. PICK s, n : s = EdgeNodes /\ n = Len(EdgeNodes)
  OBVIOUS
<1>5. /\ IsList(s) /\ DOMAIN s = 1 .. n /\ n \in Nat
      /\ \A k \in DOMAIN s : \E j \in P : s[k] = Net.processing[j]
  BY <1>2, <1>3, <1>4, SelectedFacts DEF IsList
<1>6. \A k \in 1 .. n : s[k] \in ToSet(Net.processing)
  BY <1>1, <1>5 DEF ToSet
<1>7. n # 0
  <2>1. SUFFICES ASSUME n = 0 PROVE FALSE
    OBVIOUS
  <2>2. PICK c : c = Cardinality(P)
    OBVIOUS
  <2>3. c = n
    BY <1>2, <1>3, <1>4, <2>2, SelectedFacts
  <2>4. s = [k \in 1 .. c |-> Net.processing[Sorted(P)[k]]]
    BY <1>2, <1>4, <2>2 DEF Selected
  <2>5. s \in Seq({1}) /\ Len(s) = 0
    BY <2>1, <2>3, <2>4
  <2>6. s = <<>>
    BY <2>5, EmptySeq
  <2> QED
    BY <2>6, <1>4, LambdaMuAssumption
<1>8. n > 0
  BY <1>5, <1>7
<1>9. \A k \in 1 .. n : Net.containers[s[k]] \in Nat /\ Net.capacity[s[k]] \in Nat
  <2>1. \A k \in 1 .. n : s[k] \in ToSet(s)
    BY <1>5 DEF ToSet
  <2> QED
    BY <2>1, <1>4, LambdaMuAssumption
<1>10. Edges = 0 .. n /\ CLOUD = 0
  BY <1>4 DEF Edges, CLOUD
<1>11. IsFiniteSet(Edges) /\ CLOUD \in Edges /\ \A e \in Edges : e # CLOUD => e \in 1 .. n
  BY <1>5, <1>10, FS_Interval
<1> QED
  BY <1>4, <1>5, <1>6, <1>8, <1>9, <1>11

\* The brokers are nodes of the network.
LEMMA BrokersFacts ==
  /\ IsFiniteSet(Brokers) /\ Brokers # {}
  /\ \A b \in Brokers : Net.clients[b] \in ToSet(Net.processing)
<1>1. PICK n \in Nat : n = Len(Net.clients)
  BY NetAssumption
<1>2. Brokers = 1 .. n
  BY <1>1, NetAssumption DEF Brokers
<1>3. n # 0
  BY <1>1, NetAssumption, LambdaMuAssumption, EmptySeq
<1>4. \A b \in Brokers : Net.clients[b] \in ToSet(Net.clients)
  BY DEF Brokers, ToSet
<1>5. ToSet(Net.clients) \subseteq ToSet(Net.processing)
  BY NetAssumption DEF ValidNetwork
<1>6. 1 \in 1 .. n /\ IsFiniteSet(1 .. n)
  BY <1>3, FS_Interval
<1>7. Brokers # {} /\ IsFiniteSet(Brokers)
  BY <1>2, <1>6
<1> QED
  BY <1>4, <1>5, <1>7

\* The hops between two nodes are a number.
LEMMA HopsNat ==
  ASSUME NEW src \in ToSet(Net.processing), NEW dst \in ToSet(Net.processing)
  PROVE  hops(cacheEntry, src, dst) \in Nat
<1>1. IsFiniteSet(Between(src, dst))
  BY BetweenFinite
<1>2. IsFiniteSet(Between(src, dst) \cap Net.links)
  BY <1>1, FS_Intersection
<1>3. Cardinality(Between(src, dst) \cap Net.links) \in Nat
  BY <1>2, FS_CardinalityType
<1>4. hops(cacheEntry, src, dst) = Cardinality(Between(src, dst) \cap Net.links)
  BY DEF hops, cacheEntry
<1> QED
  BY <1>3, <1>4

\* The costs of the constructor: one for each broker and edge.
LEMMA NetworkCostsType == NetworkCosts \in [Brokers -> [Edges -> Nat]]
<1>1. PICK B, N : B = Brokers /\ N = DOMAIN EdgeNodes
  OBVIOUS
<1>2. /\ IsFiniteSet(B) /\ B # {} /\ IsFiniteSet(N) /\ N # {}
      /\ \A e \in Edges : e # CLOUD => e \in N
  <2>1. PICK n \in Nat : n = Len(EdgeNodes) /\ n > 0 /\ N = 1 .. n
    BY <1>1, EdgesFacts DEF IsList
  <2>2. IsFiniteSet(N) /\ 1 \in N
    BY <2>1, FS_Interval
  <2> QED
    BY <2>1, <2>2, <1>1, EdgesFacts, BrokersFacts
<1>3. \A b \in B, e \in N : hops(cacheEntry, Net.clients[b], EdgeNodes[e]) \in Nat
  BY <1>1, HopsNat, BrokersFacts, EdgesFacts DEF IsList
<1>4. PICK h : h = [p \in B \X N |-> hops(cacheEntry, Net.clients[p[1]], EdgeNodes[p[2]])]
  OBVIOUS
<1>5. PICK V : V = {hops(cacheEntry, Net.clients[p[1]], EdgeNodes[p[2]]) : p \in B \X N}
  OBVIOUS
<1>6. V = {h[p] : p \in B \X N}
  BY <1>4, <1>5
<1>7. IsFiniteSet(B \X N)
  BY <1>2, FS_Product
<1>8. IsFiniteSet(V)
  BY <1>6, <1>7, FiniteImage
<1>9. V \in SUBSET Nat
  BY <1>3, <1>5
<1>10. V # {}
  <2>1. PICK b \in B, e \in N : TRUE
    BY <1>2
  <2>2. h[<<b, e>>] \in V
    BY <1>6, <2>1
  <2> QED
    BY <2>2
<1>11. PICK x \in V : \A y \in V : y <= x
  BY <1>8, <1>9, <1>10, NatMax
<1>12. x \in Nat /\ \A y \in V : x >= y
  BY <1>9, <1>11
<1>13. Max(V) \in V
  BY <1>12 DEF Max
<1>14. PICK far \in Nat : far = Max(V)
  BY <1>9, <1>13
<1>15. Conf.cloudFactor * far \in Nat
  <2>1. PICK c \in Nat : c = Conf.cloudFactor
    BY LambdaMuAssumption DEF ValidConf
  <2> QED
    BY <2>1
<1>16. PICK n : n = [b \in B |-> [e \in Edges |->
        IF e = CLOUD THEN Conf.cloudFactor * far ELSE hops(cacheEntry, Net.clients[b], EdgeNodes[e])]]
  OBVIOUS
<1>17. NetworkCosts = n
  BY <1>1, <1>5, <1>14, <1>16 DEF NetworkCosts
<1>18. \A b \in B : \A e \in Edges : n[b][e] \in Nat
  BY <1>2, <1>3, <1>15, <1>16
<1> QED
  BY <1>1, <1>16, <1>17, <1>18

\* What a class of apps and the arguments are.
LEMMA ConfFacts ==
  /\ Conf.alpha[1] \in Nat /\ Conf.alpha[2] \in Nat \ {0} /\ Conf.alpha[1] <= Conf.alpha[2]
  /\ Conf.beta[1] \in Nat \ {0} /\ Conf.beta[2] \in Nat \ {0} /\ Conf.beta[1] <= Conf.beta[2]
  /\ Conf.localCost \in Nat /\ Conf.remoteCost \in Nat /\ Conf.epoch \in Nat /\ Conf.duration \in Nat
BY LambdaMuAssumption DEF checkArgs, ValidConf

CloudOK(c) == c.containers \in Nat /\ c.capacity \in Nat

\* No more containers are used than an edge has.
LEMMA EdgeCapacities ==
  ASSUME CloudOK(cloud), NEW e \in Edges
  PROVE  /\ numContainers(e) \in Nat /\ capacity(e) \in Nat
         /\ usable(e) \in Nat /\ usable(e) <= numContainers(e)
<1>1. numContainers(e) \in Nat /\ capacity(e) \in Nat
  BY EdgesFacts DEF CloudOK, numContainers, capacity
<1>2. PICK x, p, q : x = numContainers(e) /\ p = Conf.alpha[1] /\ q = Conf.alpha[2]
  OBVIOUS
<1>3. (x * p) \div q \in Nat /\ (x * p) \div q <= x
  BY <1>1, <1>2, ConfFacts, PartFacts
<1>4. usable(e) = IF e = CLOUD THEN x ELSE (x * p) \div q
  BY <1>2 DEF usable
<1> QED
  BY <1>1, <1>2, <1>3, <1>4

-----------------------------------------------------------------------------
(***************************************************************************)
(* Apps.                                                                   *)
(***************************************************************************)
AppSet == [broker : Brokers, type : {"lambda", "mu"}, rate : Nat, exchange : Nat, storage : Nat,
           edge : Edges, weights : {<<>>} \cup [Edges -> Nat]]
AppsOK == networkCost \in [Brokers -> [Edges -> Nat]] /\ \E n \in Nat : apps \in [1 .. n -> AppSet]

EvenBeta == Conf.beta[2] % Conf.beta[1] = 0
Local == (Conf.beta[1] * capacity(CLOUD)) \div Conf.beta[2]

\* The apps of a type, and their number.
LEMMA AppFacts ==
  ASSUME AppsOK
  PROVE  /\ IsFiniteSet(Apps) /\ Apps \in SUBSET Nat
         /\ \A a \in Apps : apps[a] \in AppSet
         /\ \A t : /\ OfType(apps, t) \in SUBSET Apps /\ IsFiniteSet(OfType(apps, t))
                   /\ OfType(apps, t) \in SUBSET Nat /\ Cardinality(OfType(apps, t)) \in Nat
<1>1. PICK n \in Nat : apps \in [1 .. n -> AppSet]
  BY DEF AppsOK
<1>2. Apps = 1 .. n /\ IsFiniteSet(1 .. n)
  BY <1>1, FS_Interval DEF Apps
<1>3. \A t : OfType(apps, t) \in SUBSET Apps
  BY DEF OfType, Apps
<1>4. \A t : IsFiniteSet(OfType(apps, t))
  BY <1>2, <1>3, FS_Subset
<1> QED
  BY <1>1, <1>2, <1>3, <1>4, FS_CardinalityType

-----------------------------------------------------------------------------
(***************************************************************************)
(* The containers left to lambda-apps.                                     *)
(***************************************************************************)
ContSet == [edge : Edges, capacity : Nat, local : BOOLEAN]
ContainersOK(cs) ==
  /\ IsList(cs) /\ 1 \in DOMAIN cs /\ \A c \in DOMAIN cs : cs[c] \in ContSet
  /\ cs[1].capacity = Local

\* The containers left to the lambda-apps, when the mu-apps have theirs.
LEMMA ContainersFacts ==
  ASSUME CloudOK(cloud), NEW ms \in [Edges -> Seq(Nat)], \A e \in Edges : Len(ms[e]) <= usable(e),
         Len(ms[CLOUD]) + 1 <= numContainers(CLOUD)
  PROVE  ContainersOK(Containers(ms))
<1> DEFINE free(e) == numContainers(e) - Len(ms[e])
           each(e) == (Conf.beta[1] * capacity(e)) \div Conf.beta[2]
           group(e, number, local) == [edge |-> e, capacity |-> number * each(e), local |-> local]
<1>1. \A e \in Edges : each(e) \in Nat
  <2> TAKE e \in Edges
  <2>1. PICK x \in Nat, y \in Nat, d \in Nat \ {0} : x = Conf.beta[1] /\ y = capacity(e) /\ d = Conf.beta[2]
    BY ConfFacts, EdgeCapacities
  <2>2. PICK p : p = x * y
    OBVIOUS
  <2>3. p \in Nat
    BY <2>2
  <2>4. p \div d \in Nat
    BY <2>3, DivFacts
  <2> QED
    BY <2>1, <2>2, <2>4
<1>2. \A e \in Edges : free(e) \in Nat
  <2> TAKE e \in Edges
  <2>1. PICK l, u, c : l = Len(ms[e]) /\ u = usable(e) /\ c = numContainers(e)
    OBVIOUS
  <2>2. ms[e] \in Seq(Nat)
    OBVIOUS
  <2>3. l \in Nat
    BY <2>1, <2>2
  <2>4. u \in Nat /\ c \in Nat /\ u <= c /\ l <= u
    BY <2>1, EdgeCapacities
  <2>5. c - l \in Nat
    BY <2>3, <2>4
  <2> QED
    BY <2>1, <2>5
<1>3. free(CLOUD) - 1 \in Nat
  <2>1. PICK l, c : l = Len(ms[CLOUD]) /\ c = numContainers(CLOUD)
    OBVIOUS
  <2>2. ms[CLOUD] \in Seq(Nat)
    BY EdgesFacts
  <2>3. l \in Nat /\ c \in Nat /\ l + 1 <= c
    BY <2>1, <2>2, EdgesFacts, EdgeCapacities
  <2> QED
    BY <2>1, <2>3
<1> HIDE DEF free, each
<1>4. \A e \in Edges, k \in Nat, l \in BOOLEAN : group(e, k, l) \in ContSet
  <2> TAKE e \in Edges, k \in Nat, l \in BOOLEAN
  <2>1. PICK x \in Nat : x = each(e)
    BY <1>1
  <2>2. k * x \in Nat
    OBVIOUS
  <2> QED
    BY <2>1, <2>2 DEF ContSet
<1>5. PICK c1, c2, rest, N : /\ c1 = group(CLOUD, 1, TRUE) /\ c2 = group(CLOUD, free(CLOUD) - 1, FALSE)
                          /\ N = Len(EdgeNodes)
                          /\ rest = [e \in 1 .. N |-> group(e, free(e), FALSE)]
  OBVIOUS
<1>6. CLOUD \in Edges /\ N \in Nat /\ \A e \in 1 .. N : e \in Edges
  BY <1>5, EdgesFacts DEF Edges, CLOUD
<1>7. c1 \in ContSet /\ c2 \in ContSet
  BY <1>3, <1>4, <1>5, <1>6
<1>8. \A e \in 1 .. N : rest[e] \in ContSet
  BY <1>2, <1>4, <1>5, <1>6
<1>9. rest \in Seq(ContSet)
  BY <1>5, <1>6, <1>8
<1>10. <<c1, c2>> \in Seq(ContSet) /\ Len(<<c1, c2>>) = 2 /\ <<c1, c2>>[1] = c1
  BY <1>7
<1>11. PICK cs : cs = <<c1, c2>> \o rest
  OBVIOUS
<1>12. cs \in Seq(ContSet) /\ Len(cs) = 2 + Len(rest) /\ Len(rest) \in Nat
  BY <1>9, <1>10, <1>11, ConcatProperties
<1>13. cs[1] = c1
  BY <1>9, <1>10, <1>11, ConcatProperties
<1>14. IsList(cs) /\ 1 \in DOMAIN cs /\ \A c \in DOMAIN cs : cs[c] \in ContSet
  BY <1>12 DEF IsList
<1>15. c1.capacity = Local
  <2>1. PICK x \in Nat : x = each(CLOUD)
    BY <1>1, <1>6
  <2>2. 1 * x = x
    OBVIOUS
  <2> QED
    BY <1>5, <2>1, <2>2 DEF Local, each
<1>16. Containers(ms) = cs
  BY <1>5, <1>11 DEF Containers, free, each
<1> QED
  BY <1>13, <1>14, <1>15, <1>16 DEF ContainersOK

\* The cost of a unit of an app on a container is a number.
LEMMA LambdaAppCostNat ==
  ASSUME AppsOK, NEW a \in Apps, NEW c \in ContSet
  PROVE  LambdaAppCost(a, c) \in Nat
<1>1. apps[a] \in AppSet
  BY AppFacts
<1>2. PICK n \in Nat, x \in Nat, l \in Nat, s \in Nat :
        /\ n = networkCost[apps[a].broker][c.edge] /\ x = apps[a].exchange /\ s = apps[a].storage
        /\ l = IF c.local THEN Conf.localCost ELSE Conf.remoteCost
  <2>1. networkCost[apps[a].broker][c.edge] \in Nat
    <3>1. PICK b \in Brokers, e \in Edges : b = apps[a].broker /\ e = c.edge
      BY <1>1 DEF AppSet, ContSet
    <3>2. networkCost[b] \in [Edges -> Nat]
      BY DEF AppsOK
    <3> QED
      BY <3>1, <3>2
  <2>2. apps[a].exchange \in Nat /\ apps[a].storage \in Nat
    BY <1>1 DEF AppSet
  <2> QED
    BY <2>1, <2>2, ConfFacts
<1>3. n * x \in Nat /\ l * s \in Nat
  OBVIOUS
<1>4. LambdaAppCost(a, c) = n * x + l * s
  BY <1>2 DEF LambdaAppCost
<1> QED
  BY <1>3, <1>4

-----------------------------------------------------------------------------
(***************************************************************************)
(* The greedy assignment of requests to containers.                        *)
(***************************************************************************)
AccSet(as, D) == [weights : [as -> [D -> Nat]], left : [D -> Nat]]

\* From acc to new, r requests of app a are given to containers if there is room.
Given(acc, new, a, r, as, D) ==
  /\ \A b \in as \ {a} : new.weights[b] = acc.weights[b]
  /\ Total(acc.left, D) >= r =>
       /\ Total(new.weights[a], D) = Total(acc.weights[a], D) + r
       /\ Total(acc.left, D) = Total(new.left, D) + r

\* One request goes to one container, if any has room.
LEMMA GreedyUnitFacts ==
  ASSUME AppsOK, NEW cs, ContainersOK(cs), NEW as \in SUBSET Apps, NEW a \in as,
         NEW acc \in AccSet(as, DOMAIN cs)
  PROVE  /\ GreedyUnit(acc, a, cs) \in AccSet(as, DOMAIN cs)
         /\ Given(acc, GreedyUnit(acc, a, cs), a, 1, as, DOMAIN cs)
<1>1. PICK D : D = DOMAIN cs
  OBVIOUS
<1>2. IsFiniteSet(D) /\ D \in SUBSET Nat
  <2>1. Len(cs) \in Nat /\ D = 1 .. Len(cs)
    BY <1>1 DEF ContainersOK, IsList
  <2> QED
    BY <2>1, FS_Interval
<1>3. PICK open : open = {c \in D : acc.left[c] > 0}
  OBVIOUS
<1>4. PICK new : new = GreedyUnit(acc, a, cs)
  OBVIOUS
<1>5. acc.left \in [D -> Nat] /\ acc.weights \in [as -> [D -> Nat]] /\ acc.weights[a] \in [D -> Nat]
  BY <1>1 DEF AccSet
<1>6. CASE open = {}
  <2>1. new = acc
    BY <1>1, <1>3, <1>4, <1>6 DEF GreedyUnit
  <2>2. \A c \in D : acc.left[c] = 0
    BY <1>3, <1>5, <1>6
  <2>3. Total(acc.left, D) = 0
    BY <1>2, <2>2, TotalZero
  <2>4. Given(acc, new, a, 1, as, D)
    BY <2>1, <2>3 DEF Given
  <2> QED
    BY <1>1, <1>4, <2>1, <2>4
<1>7. CASE open # {}
  <2>1. PICK f : f = [c \in D |-> LambdaAppCost(a, cs[c])]
    OBVIOUS
  <2>2. \A c \in D : f[c] \in Nat
    <3>1. \A c \in D : cs[c] \in ContSet
      BY <1>1 DEF ContainersOK
    <3>2. a \in Apps
      OBVIOUS
    <3> QED
      BY <2>1, <3>1, <3>2, LambdaAppCostNat
  <2>3. open \in SUBSET Nat /\ \A c \in open : f[c] \in Nat
    BY <1>2, <1>3, <2>2
  <2>4. \E c \in open : \A d \in open : f[c] < f[d] \/ (f[c] = f[d] /\ c <= d)
    BY <1>7, <2>3, LeastBy
  <2>5. PICK best : best = CHOOSE c \in open : \A d \in open :
                      \/ LambdaAppCost(a, cs[c]) < LambdaAppCost(a, cs[d])
                      \/ LambdaAppCost(a, cs[c]) = LambdaAppCost(a, cs[d]) /\ c <= d
    OBVIOUS
  <2>6. \E c \in open : \A d \in open :
                      \/ LambdaAppCost(a, cs[c]) < LambdaAppCost(a, cs[d])
                      \/ LambdaAppCost(a, cs[c]) = LambdaAppCost(a, cs[d]) /\ c <= d
    <3>1. \A c \in open : f[c] = LambdaAppCost(a, cs[c])
      BY <1>3, <2>1
    <3> QED
      BY <2>4, <3>1
  <2>7. best \in open
    BY <2>5, <2>6
  <2>8. best \in D /\ acc.left[best] > 0
    BY <1>3, <2>7
  <2>9. new = [weights |-> [acc.weights EXCEPT ![a][best] = @ + 1],
               left |-> [acc.left EXCEPT ![best] = @ - 1]]
    BY <1>1, <1>3, <1>4, <1>7, <2>5 DEF GreedyUnit
  <2>10. /\ new.weights = [acc.weights EXCEPT ![a][best] = @ + 1]
         /\ new.left = [acc.left EXCEPT ![best] = @ - 1]
         /\ new = [weights |-> new.weights, left |-> new.left]
    BY <2>9
  <2>11. PICK wa, wb, la, lb : wa = acc.weights[a] /\ wb = new.weights[a] /\ la = acc.left /\ lb = new.left
    OBVIOUS
  <2>12. wb = [wa EXCEPT ![best] = @ + 1] /\ lb = [la EXCEPT ![best] = @ - 1]
    <3>1. PICK W, V : W = acc.weights /\ V = new.weights
      OBVIOUS
    <3>2. V = [W EXCEPT ![a][best] = @ + 1] /\ W \in [as -> [D -> Nat]]
      BY <1>5, <2>10, <3>1
    <3>3. V[a] = [W[a] EXCEPT ![best] = @ + 1]
      BY <3>2
    <3> QED
      BY <2>10, <2>11, <3>1, <3>3
  <2>13. wa \in [D -> Nat] /\ la \in [D -> Nat] /\ la[best] > 0
    BY <1>5, <2>8, <2>11
  <2>14. wb \in [D -> Nat] /\ lb \in [D -> Nat]
    BY <2>8, <2>12, <2>13
  <2>15. new.weights \in [as -> [D -> Nat]] /\ \A b \in as \ {a} : new.weights[b] = acc.weights[b]
    BY <1>5, <2>10, <2>11, <2>14
  <2>16. new \in AccSet(as, D)
    BY <2>10, <2>11, <2>14, <2>15 DEF AccSet
  <2>17. Total(wb, D) = Total(wa, D) + 1
    <3>1. Raised(wa, wb, D, best, 1)
      BY <2>8, <2>12, <2>13 DEF Raised
    <3>2. \A c \in D : wa[c] \in Nat
      BY <2>13
    <3> QED
      BY <1>2, <2>8, <3>1, <3>2, TotalUpdate
  <2>18. Total(la, D) = Total(lb, D) + 1
    <3>1. Raised(lb, la, D, best, 1)
      BY <2>8, <2>12, <2>13 DEF Raised
    <3>2. \A c \in D : lb[c] \in Nat
      BY <2>14
    <3> QED
      BY <1>2, <2>8, <3>1, <3>2, TotalUpdate
  <2>19. Given(acc, new, a, 1, as, D)
    BY <2>11, <2>15, <2>17, <2>18 DEF Given
  <2> QED
    BY <1>1, <1>4, <2>16, <2>19
<1> QED
  BY <1>6, <1>7

\* The sums of what the greedy solver keeps are numbers.
LEMMA AccTotals ==
  ASSUME NEW D, IsFiniteSet(D), NEW as, NEW acc \in AccSet(as, D)
  PROVE  Total(acc.left, D) \in Nat /\ \A a \in as : Total(acc.weights[a], D) \in Nat
<1>1. \A c \in D : acc.left[c] \in Nat
  BY DEF AccSet
<1>2. \A a \in as : \A c \in D : acc.weights[a][c] \in Nat
  BY DEF AccSet
<1>3. ASSUME NEW a \in as PROVE Total(acc.weights[a], D) \in Nat
  <2>1. \A c \in D : acc.weights[a][c] \in Nat
    BY <1>2
  <2> QED
    BY <2>1, TotalNat
<1> QED
  BY <1>1, <1>3, TotalNat

\* One more request given.
LEMMA GivenTrans ==
  ASSUME NEW D, IsFiniteSet(D), NEW as, NEW a \in as, NEW r \in Nat, NEW x \in AccSet(as, D),
         NEW y \in AccSet(as, D), NEW z \in AccSet(as, D), Given(x, y, a, r, as, D), Given(y, z, a, 1, as, D)
  PROVE  Given(x, z, a, r + 1, as, D)
<1>1. /\ Total(x.left, D) \in Nat /\ Total(y.left, D) \in Nat /\ Total(z.left, D) \in Nat
      /\ Total(x.weights[a], D) \in Nat /\ Total(y.weights[a], D) \in Nat
      /\ Total(z.weights[a], D) \in Nat
  BY AccTotals
<1>2. \A b \in as \ {a} : z.weights[b] = x.weights[b]
  BY DEF Given
<1>3. ASSUME Total(x.left, D) >= r + 1
      PROVE  /\ Total(z.weights[a], D) = Total(x.weights[a], D) + (r + 1)
             /\ Total(x.left, D) = Total(z.left, D) + (r + 1)
  <2>1. Total(x.left, D) >= r
    BY <1>1, <1>3
  <2>2. Total(y.weights[a], D) = Total(x.weights[a], D) + r /\ Total(x.left, D) = Total(y.left, D) + r
    BY <2>1 DEF Given
  <2>3. Total(y.left, D) >= 1
    BY <1>1, <1>3, <2>2
  <2>4. Total(z.weights[a], D) = Total(y.weights[a], D) + 1 /\ Total(y.left, D) = Total(z.left, D) + 1
    BY <2>3 DEF Given
  <2> QED
    BY <1>1, <2>2, <2>4
<1> QED
  BY <1>2, <1>3 DEF Given

\* All the requests of an app are given, if there is room for them.
LEMMA GreedyAppFacts ==
  ASSUME AppsOK, NEW cs, ContainersOK(cs), NEW as \in SUBSET Apps, NEW a \in as,
         NEW acc \in AccSet(as, DOMAIN cs)
  PROVE  /\ GreedyApp(acc, a, cs) \in AccSet(as, DOMAIN cs)
         /\ Given(acc, GreedyApp(acc, a, cs), a, apps[a].rate, as, DOMAIN cs)
<1>1. PICK D, X, r : D = DOMAIN cs /\ X = AccSet(as, D) /\ r = apps[a].rate
  OBVIOUS
<1>2. r \in Nat
  BY <1>1, AppFacts DEF AppSet
<1>3. \A x \in X : GreedyUnit(x, a, cs) \in X /\ Given(x, GreedyUnit(x, a, cs), a, 1, as, D)
  BY <1>1, GreedyUnitFacts
<1>4. PICK step : step = [k \in 1 .. r |-> [x \in X |-> GreedyUnit(x, a, cs)]]
  OBVIOUS
<1>5. Steps(step, r, X)
  BY <1>3, <1>4 DEF Steps
<1>6. acc \in X
  BY <1>1
<1>7. PICK f \in [0 .. r -> X] : f[0] = acc /\ \A k \in 1 .. r : f[k] = step[k][f[k - 1]]
  BY <1>2, <1>5, <1>6, RecExists
<1>8. f = [u \in 0 .. r |-> IF u = 0 THEN acc ELSE GreedyUnit(f[u - 1], a, cs)]
  <2>1. ASSUME NEW k \in 0 .. r, k # 0 PROVE f[k] = GreedyUnit(f[k - 1], a, cs)
    <3>1. k \in 1 .. r /\ k - 1 \in 0 .. r
      BY <1>2, <2>1
    <3> QED
      BY <3>1, <1>4, <1>7
  <2>2. \A k \in 0 .. r : f[k] = IF k = 0 THEN acc ELSE GreedyUnit(f[k - 1], a, cs)
    BY <2>1, <1>7
  <2>3. f = [u \in 0 .. r |-> f[u]]
    BY <1>7
  <2> QED
    BY <2>2, <2>3
<1>9. PICK t : t = CHOOSE after : after = [u \in 0 .. apps[a].rate |->
                     IF u = 0 THEN acc ELSE GreedyUnit(after[u - 1], a, cs)]
  OBVIOUS
<1>10. t = [u \in 0 .. r |-> IF u = 0 THEN acc ELSE GreedyUnit(t[u - 1], a, cs)]
  BY <1>1, <1>8, <1>9
<1>11. GreedyApp(acc, a, cs) = t[r]
  BY <1>1, <1>9 DEF GreedyApp
<1>12. IsFiniteSet(D)
  <2>1. Len(cs) \in Nat /\ D = 1 .. Len(cs)
    BY <1>1 DEF ContainersOK, IsList
  <2> QED
    BY <2>1, FS_Interval
<1> DEFINE G == {k \in Nat : k <= r => t[k] \in X /\ Given(acc, t[k], a, k, as, D)}
<1>13. 0 \in G
  <2>1. t[0] = acc
    BY <1>2, <1>10
  <2>2. Total(acc.left, D) \in Nat /\ Total(acc.weights[a], D) \in Nat
    BY <1>1, <1>12, AccTotals
  <2>3. Given(acc, acc, a, 0, as, D)
    BY <2>2 DEF Given
  <2> QED
    BY <2>1, <2>3, <1>6
<1>14. ASSUME NEW k \in 0 .. (r - 1), k \in G PROVE k + 1 \in G
  <2>1. k \in Nat /\ k <= r /\ k + 1 \in 0 .. r /\ k + 1 # 0 /\ (k + 1) - 1 = k /\ k + 1 \in Nat
    BY <1>2
  <2>2. t[k] \in X /\ Given(acc, t[k], a, k, as, D)
    BY <1>14, <2>1
  <2>3. t[k + 1] = GreedyUnit(t[k], a, cs)
    BY <1>10, <2>1
  <2>4. t[k + 1] \in X /\ Given(t[k], t[k + 1], a, 1, as, D)
    BY <1>3, <2>2, <2>3
  <2>5. Given(acc, t[k + 1], a, k + 1, as, D)
    BY <1>1, <1>6, <1>12, <2>1, <2>2, <2>4, GivenTrans
  <2> QED
    BY <2>1, <2>4, <2>5
<1>15. r \in G
  <2> HIDE DEF G
  <2> QED BY <1>2, <1>13, <1>14, CountUp
<1>16. t[r] \in X /\ Given(acc, t[r], a, r, as, D)
  <2>1. r <= r
    BY <1>2
  <2>2. \A k \in G : k <= r => t[k] \in X /\ Given(acc, t[k], a, k, as, D)
    OBVIOUS
  <2> QED
    BY <1>15, <2>1, <2>2
<1> QED
  BY <1>1, <1>11, <1>16

Served(w, as, cs) ==
  /\ w \in [as -> [DOMAIN cs -> Nat]]
  /\ SumRates(apps, as) <= cs[1].capacity => \A a \in as : Total(w[a], DOMAIN cs) = apps[a].rate

\* A sum of rates, and of capacities.
LEMMA RatesFacts ==
  ASSUME AppsOK, NEW as \in SUBSET Apps
  PROVE  /\ IsFiniteSet(as) /\ as \in SUBSET Nat /\ Cardinality(as) \in Nat
         /\ \A a \in as : apps[a].rate \in Nat
         /\ \A T \in SUBSET as : IsFiniteSet(T) /\ Total([a \in as |-> apps[a].rate], T) \in Nat
         /\ SumRates(apps, as) = Total([a \in as |-> apps[a].rate], as)
<1>1. IsFiniteSet(as) /\ as \in SUBSET Nat
  BY AppFacts, FS_Subset
<1>2. \A a \in as : apps[a].rate \in Nat
  BY AppFacts DEF AppSet
<1>3. PICK f : f = [a \in as |-> apps[a].rate]
  OBVIOUS
<1>4. \A T \in SUBSET as : IsFiniteSet(T) /\ \A a \in T : f[a] \in Nat
  BY <1>1, <1>2, <1>3, FS_Subset
<1>5. \A T \in SUBSET as : IsFiniteSet(T) /\ Total(f, T) \in Nat
  BY <1>4, TotalNat
<1>6. SumRates(apps, as) = Total(f, as)
  BY <1>3 DEF SumRates, SumFunction, Total
<1> QED
  BY <1>1, <1>2, <1>3, <1>5, <1>6, FS_CardinalityType

\* The containers have room for at least what the first one holds.
LEMMA ContainersTotal ==
  ASSUME NEW cs, ContainersOK(cs), NEW f, \A c \in DOMAIN cs : f[c] = cs[c].capacity
  PROVE  /\ IsFiniteSet(DOMAIN cs) /\ \A c \in DOMAIN cs : cs[c].capacity \in Nat
         /\ Total(f, DOMAIN cs) \in Nat /\ cs[1].capacity \in Nat /\ cs[1].capacity <= Total(f, DOMAIN cs)
<1>1. IsFiniteSet(DOMAIN cs)
  <2>1. Len(cs) \in Nat /\ DOMAIN cs = 1 .. Len(cs)
    BY DEF ContainersOK, IsList
  <2> QED
    BY <2>1, FS_Interval
<1>2. \A c \in DOMAIN cs : cs[c].capacity \in Nat
  BY DEF ContainersOK, ContSet
<1>3. PICK D : D = DOMAIN cs
  OBVIOUS
<1>4. 1 \in D /\ \A c \in D : f[c] \in Nat
  BY <1>2, <1>3 DEF ContainersOK
<1>5. IsFiniteSet(D) /\ IsFiniteSet(D \ {1}) /\ \A c \in D \ {1} : f[c] \in Nat
  BY <1>1, <1>3, <1>4, FS_Subset
<1>6. Total(f, D) = f[1] + Total(f, D \ {1})
  BY <1>4, <1>5, TotalRemove
<1>7. Total(f, D) \in Nat
  BY <1>4, <1>5, TotalNat
<1>8. Total(f, D \ {1}) \in Nat
  BY <1>5, TotalNat
<1> QED
  BY <1>1, <1>2, <1>3, <1>4, <1>6, <1>7, <1>8

\* The greedy solver serves all the requests that the local container could hold.
LEMMA SolveGreedyFacts ==
  ASSUME AppsOK, NEW cs, ContainersOK(cs), NEW as \in SUBSET Apps
  PROVE  Served(solveGreedy(as, cs), as, cs)
<1>1. PICK D, X, N, s, rate : /\ D = DOMAIN cs /\ X = AccSet(as, D) /\ N = Cardinality(as)
                              /\ s = Sorted(as) /\ rate = [a \in as |-> apps[a].rate]
  OBVIOUS
<1>2. /\ IsFiniteSet(as) /\ as \in SUBSET Nat /\ N \in Nat
      /\ \A T \in SUBSET as : IsFiniteSet(T) /\ Total(rate, T) \in Nat
      /\ \A a \in as : rate[a] \in Nat /\ rate[a] = apps[a].rate
      /\ SumRates(apps, as) = Total(rate, as)
  BY <1>1, RatesFacts
<1>3. /\ DOMAIN s = 1 .. N /\ \A i \in 1 .. N : s[i] \in as
      /\ \A i, j \in 1 .. N : s[i] = s[j] => i = j
      /\ \A x \in as : \E i \in 1 .. N : s[i] = x
  <2>1. as \in SUBSET Nat /\ IsFiniteSet(as) /\ s = Sorted(as) /\ N = Cardinality(as)
    BY <1>1, <1>2
  <2>2. Lists(s, N, as)
    BY <2>1, SortedLists
  <2> QED
    BY <2>2 DEF Lists
<1>4. PICK start : start = [weights |-> [a \in as |-> [c \in DOMAIN cs |-> 0]],
                            left |-> [c \in DOMAIN cs |-> cs[c].capacity]]
  OBVIOUS
<1>5. /\ IsFiniteSet(D) /\ \A c \in D : start.left[c] = cs[c].capacity /\ cs[c].capacity \in Nat
      /\ Total(start.left, D) \in Nat /\ cs[1].capacity <= Total(start.left, D)
      /\ cs[1].capacity \in Nat
  <2>1. \A c \in DOMAIN cs : start.left[c] = cs[c].capacity
    BY <1>4
  <2> QED
    BY <1>1, <2>1, ContainersTotal
<1>6. start \in X
  BY <1>1, <1>4, <1>5 DEF AccSet
<1>7. \A a \in as : Total(start.weights[a], D) = 0
  <2> TAKE a \in as
  <2>1. PICK z : z = start.weights[a]
    OBVIOUS
  <2>2. \A c \in D : z[c] = 0
    BY <1>1, <1>4, <2>1
  <2> QED
    BY <1>5, <2>1, <2>2, TotalZero
<1>8. \A x \in X : \A k \in 1 .. N : /\ GreedyApp(x, s[k], cs) \in X
                                     /\ Given(x, GreedyApp(x, s[k], cs), s[k], rate[s[k]], as, D)
  BY <1>1, <1>2, <1>3, GreedyAppFacts
<1>9. PICK step : step = [k \in 1 .. N |-> [x \in X |-> GreedyApp(x, s[k], cs)]]
  OBVIOUS
<1>10. Steps(step, N, X)
  BY <1>8, <1>9 DEF Steps
<1>11. PICK f \in [0 .. N -> X] : f[0] = start /\ \A k \in 1 .. N : f[k] = step[k][f[k - 1]]
  <2>1. N \in Nat
    BY <1>2
  <2> QED
    BY <2>1, <1>6, <1>10, RecExists
<1>12. f = [k \in 0 .. N |-> IF k = 0 THEN start ELSE GreedyApp(f[k - 1], s[k], cs)]
  <2>1. ASSUME NEW k \in 0 .. N, k # 0 PROVE f[k] = GreedyApp(f[k - 1], s[k], cs)
    <3>1. k \in 1 .. N /\ k - 1 \in 0 .. N
      BY <1>2, <2>1
    <3> QED
      BY <3>1, <1>9, <1>11
  <2>2. \A k \in 0 .. N : f[k] = IF k = 0 THEN start ELSE GreedyApp(f[k - 1], s[k], cs)
    BY <2>1, <1>11
  <2>3. f = [k \in 0 .. N |-> f[k]]
    BY <1>11
  <2> QED
    BY <2>2, <2>3
<1>13. PICK t : t = CHOOSE after : after = [k \in 0 .. Cardinality(as) |->
                     IF k = 0 THEN start ELSE GreedyApp(after[k - 1], Sorted(as)[k], cs)]
  OBVIOUS
<1>14. t = [k \in 0 .. N |-> IF k = 0 THEN start ELSE GreedyApp(t[k - 1], s[k], cs)]
  BY <1>1, <1>12, <1>13
<1>15. solveGreedy(as, cs) = t[N].weights
  BY <1>1, <1>4, <1>13 DEF solveGreedy
<1> DEFINE First(k) == {s[i] : i \in 1 .. k}
           Ok(k) == /\ t[k] \in X
                    /\ Total(rate, as) <= cs[1].capacity =>
                         /\ Total(start.left, D) = Total(t[k].left, D) + Total(rate, First(k))
                         /\ \A a \in First(k) : Total(t[k].weights[a], D) = rate[a]
                         /\ \A a \in as \ First(k) : Total(t[k].weights[a], D) = 0
           G == {k \in Nat : k <= N => Ok(k)}
<1>16. 0 \in G
  <2>1. t[0] = start
    BY <1>2, <1>14
  <2>2. First(0) = {}
    OBVIOUS
  <2>3. Total(rate, {}) = 0
    BY TotalRec, FS_EmptySet
  <2>4. Total(start.left, D) = Total(start.left, D) + 0
    BY <1>5
  <2>5. as \ {} = as
    OBVIOUS
  <2>6. Ok(0)
    BY <2>1, <2>2, <2>3, <2>4, <2>5, <1>6, <1>7
  <2> HIDE DEF Ok
  <2> QED
    BY <2>6
<1>17. ASSUME NEW k \in 0 .. (N - 1), k \in G PROVE k + 1 \in G
  <2>1. /\ k \in Nat /\ k <= N /\ k + 1 \in 0 .. N /\ k + 1 # 0 /\ (k + 1) - 1 = k /\ k + 1 \in Nat
        /\ k + 1 \in 1 .. N
    BY <1>2
  <2>2. Ok(k)
    BY <1>17, <2>1
  <2>3. PICK a, x, y : a = s[k + 1] /\ x = t[k] /\ y = t[k + 1]
    OBVIOUS
  <2>4. y = GreedyApp(x, a, cs)
    BY <1>14, <2>1, <2>3
  <2>5. a \in as /\ x \in X /\ y \in X /\ Given(x, y, a, rate[a], as, D)
    <3>1. a \in as /\ x \in X
      BY <1>3, <2>1, <2>2, <2>3
    <3>2. /\ GreedyApp(x, s[k + 1], cs) \in X
          /\ Given(x, GreedyApp(x, s[k + 1], cs), s[k + 1], rate[s[k + 1]], as, D)
      BY <1>8, <2>1, <3>1
    <3> QED
      BY <3>1, <3>2, <2>3, <2>4
  <2>6. PICK F, H : F = First(k) /\ H = First(k + 1)
    OBVIOUS
  <2>7. \A i \in 1 .. (k + 1) : i # k + 1 => i \in 1 .. k
    BY <2>1
  <2>8. \A i \in 1 .. k : i \in 1 .. (k + 1) /\ i \in 1 .. N /\ i # k + 1
    <3>1. N \in Nat
      BY <1>2
    <3> QED
      BY <2>1, <3>1
  <2>9. H = F \cup {a} /\ a \notin F /\ F \in SUBSET as /\ H \in SUBSET as
    <3>1. k + 1 \in 1 .. (k + 1)
      BY <2>1
    <3>2. H \subseteq F \cup {a}
      BY <2>3, <2>6, <2>7
    <3>3. F \cup {a} \subseteq H
      BY <2>3, <2>6, <2>8, <3>1
    <3>4. a \notin F
      <4>1. SUFFICES ASSUME NEW i \in 1 .. k, s[i] = a PROVE FALSE
        BY <2>6
      <4>2. i \in 1 .. N /\ i # k + 1
        BY <2>8
      <4> QED
        <5>1. s[i] = s[k + 1] => i = k + 1
          BY <1>3, <2>1, <4>2
        <5> QED
          BY <2>3, <4>1, <4>2, <5>1
    <3>5. F \in SUBSET as
      <4>1. ASSUME NEW b \in F PROVE b \in as
        <5>1. PICK i \in 1 .. k : s[i] = b
          BY <2>6
        <5> QED
          BY <1>3, <2>8, <5>1
      <4> QED
        BY <4>1
    <3> QED
      BY <3>2, <3>3, <3>4, <3>5, <2>5
  <2>10. ASSUME Total(rate, as) <= cs[1].capacity
         PROVE  /\ Total(start.left, D) = Total(y.left, D) + Total(rate, H)
                /\ \A b \in H : Total(y.weights[b], D) = rate[b]
                /\ \A b \in as \ H : Total(y.weights[b], D) = 0
    <3>1. /\ Total(start.left, D) = Total(x.left, D) + Total(rate, F)
          /\ \A b \in F : Total(x.weights[b], D) = rate[b]
          /\ \A b \in as \ F : Total(x.weights[b], D) = 0
      BY <2>2, <2>3, <2>6, <2>10
    <3>2. Total(rate, H) = rate[a] + Total(rate, F)
      <4>1. IsFiniteSet(F) /\ (\A b \in F : rate[b] \in Nat) /\ rate[a] \in Nat
        BY <1>2, <2>5, <2>9
      <4> QED
        BY <4>1, <2>9, TotalAdd
    <3>3. Total(rate, H) <= Total(rate, as)
      <4>1. \A b \in as : rate[b] \in Nat
        BY <1>2
      <4> QED
        BY <4>1, <1>2, <2>9, TotalSubset
    <3>4. PICK p, q, u, v, r, m : /\ p = Total(x.left, D) /\ q = Total(y.left, D) /\ u = Total(rate, F)
                                  /\ v = Total(rate, as) /\ r = rate[a] /\ m = Total(start.left, D)
      OBVIOUS
    <3>5. p \in Nat /\ q \in Nat
      BY <3>4, <1>1, <1>5, <2>5, AccTotals
    <3>6. u \in Nat /\ v \in Nat /\ r \in Nat /\ m \in Nat
      BY <3>4, <1>2, <1>5, <2>5, <2>9
    <3>7. m = p + u /\ r + u <= v /\ v <= m
      <4>1. PICK c : c = cs[1].capacity
        OBVIOUS
      <4>2. c \in Nat /\ c <= m /\ v <= c
        BY <1>5, <2>10, <3>4, <4>1
      <4>3. v <= m
        BY <4>2, <3>6
      <4> QED
        BY <3>1, <3>2, <3>3, <3>4, <4>3
    <3>8. p >= r
      BY <3>5, <3>6, <3>7
    <3>9. Total(y.weights[a], D) = Total(x.weights[a], D) + r /\ p = q + r
      BY <2>5, <3>4, <3>8 DEF Given
    <3>10. m = q + (r + u)
      BY <3>5, <3>6, <3>7, <3>9
    <3>11. Total(x.weights[a], D) = 0
      BY <3>1, <2>5, <2>9
    <3>12. Total(y.weights[a], D) = rate[a]
      BY <3>4, <3>6, <3>9, <3>11
    <3>13. \A b \in as \ {a} : y.weights[b] = x.weights[b]
      BY <2>5 DEF Given
    <3>14. \A b \in H : Total(y.weights[b], D) = rate[b]
      BY <2>9, <3>1, <3>12, <3>13
    <3>15. \A b \in as \ H : Total(y.weights[b], D) = 0
      BY <2>9, <3>1, <3>13
    <3> QED
      BY <3>2, <3>4, <3>10, <3>14, <3>15
  <2>11. Ok(k + 1)
    BY <2>3, <2>5, <2>6, <2>10
  <2> QED
    BY <2>1, <2>11
<1>18. N \in G
  <2> HIDE DEF G
  <2> QED BY <1>2, <1>16, <1>17, CountUp
<1>19. Ok(N)
  <2>1. N <= N
    BY <1>2
  <2>2. \A k \in G : k <= N => Ok(k)
    OBVIOUS
  <2> HIDE DEF G, Ok
  <2> QED
    BY <1>18, <2>1, <2>2
<1>20. First(N) = as
  <2>1. PICK F : F = First(N)
    OBVIOUS
  <2>2. ASSUME NEW a \in as PROVE a \in F
    <3>1. PICK i \in 1 .. N : s[i] = a
      BY <1>3
    <3> QED
      BY <2>1, <3>1
  <2>3. ASSUME NEW a \in F PROVE a \in as
    <3>1. PICK i \in 1 .. N : s[i] = a
      BY <2>1
    <3> QED
      BY <1>3, <3>1
  <2> QED
    BY <2>1, <2>2, <2>3
<1>21. PICK w : w = t[N].weights
  OBVIOUS
<1>22. w \in [as -> [D -> Nat]]
  BY <1>1, <1>19, <1>21 DEF AccSet
<1>23. Total(rate, as) <= cs[1].capacity => \A a \in as : Total(w[a], D) = rate[a]
  BY <1>19, <1>20, <1>21
<1>24. Served(w, as, cs)
  BY <1>1, <1>2, <1>22, <1>23 DEF Served
<1> QED
  BY <1>15, <1>21, <1>24

\* So does any maximum flow.
LEMMA SolveRandomFacts ==
  ASSUME AppsOK, NEW cs, ContainersOK(cs), NEW as \in SUBSET Apps, NEW w \in solveRandom(as, cs)
  PROVE  Served(w, as, cs)
<1>1. PICK D, rate, cap : /\ D = DOMAIN cs /\ rate = [a \in as |-> apps[a].rate]
                          /\ cap = [c \in D |-> cs[c].capacity]
  OBVIOUS
<1> DEFINE splits(r) == {s \in [DOMAIN cs -> 0 .. r] : SumFunction(s) <= r}
<1>2. PICK most : most = Min({SumFunction(rate), SumFunction(cap)})
  OBVIOUS
<1>3. /\ w \in [as -> UNION {splits(r) : r \in {apps[a].rate : a \in as}}]
      /\ \A a \in as : w[a] \in splits(apps[a].rate)
      /\ FlowSize(w) = most
  <2>1. /\ w \in [as -> UNION {{s \in [DOMAIN cs -> 0 .. r] : SumFunction(s) <= r} :
                                r \in {apps[a].rate : a \in as}}]
        /\ \A a \in as : w[a] \in {s \in [DOMAIN cs -> 0 .. apps[a].rate] : SumFunction(s) <= apps[a].rate}
        /\ FlowSize(w) = Min({SumFunction([a \in as |-> apps[a].rate]),
                             SumFunction([c \in DOMAIN cs |-> cs[c].capacity])})
    BY DEF solveRandom
  <2>2. FlowSize(w) = most
    BY <1>1, <1>2, <2>1
  <2> QED
    BY <2>1, <2>2
<1>4. /\ IsFiniteSet(as) /\ \A a \in as : rate[a] \in Nat /\ rate[a] = apps[a].rate
      /\ SumRates(apps, as) = Total(rate, as) /\ Total(rate, as) \in Nat
  BY <1>1, RatesFacts
<1>5. IsFiniteSet(D) /\ Total(cap, D) \in Nat /\ cs[1].capacity \in Nat /\ cs[1].capacity <= Total(cap, D)
  <2>1. \A c \in DOMAIN cs : cap[c] = cs[c].capacity
    BY <1>1
  <2> QED
    BY <1>1, <2>1, ContainersTotal
<1>6. \A a \in as : /\ w[a] \in [D -> Nat] /\ Total(w[a], D) \in Nat /\ Total(w[a], D) <= rate[a]
  <2> TAKE a \in as
  <2>1. PICK v, r : v = w[a] /\ r = rate[a]
    OBVIOUS
  <2>2. v \in [D -> 0 .. r] /\ SumFunction(v) <= r /\ r \in Nat
    <3>1. v \in [DOMAIN cs -> 0 .. r] /\ SumFunction(v) <= r
      BY <1>3, <1>4, <2>1
    <3> QED
      BY <1>1, <1>4, <2>1, <3>1
  <2>3. v \in [D -> Nat] /\ \A c \in D : v[c] \in Nat
    BY <2>2
  <2>4. SumFunction(v) = Total(v, D)
    BY <2>3 DEF SumFunction, Total
  <2> QED
    BY <1>5, <2>1, <2>2, <2>3, <2>4, TotalNat
<1>7. DOMAIN w = as /\ w = [a \in as |-> w[a]]
  BY <1>3
<1>8. w \in [as -> [D -> Nat]]
  BY <1>6, <1>7
<1>9. ASSUME Total(rate, as) <= cs[1].capacity PROVE \A a \in as : Total(w[a], D) = rate[a]
  <2>1. SumFunction(rate) = Total(rate, as) /\ SumFunction(cap) = Total(cap, D)
    BY <1>1 DEF SumFunction, Total
  <2>2. PICK A \in Nat, B \in Nat : A = Total(rate, as) /\ B = Total(cap, D)
    BY <1>4, <1>5
  <2>3. A <= B
    <3>1. PICK c : c = cs[1].capacity
      OBVIOUS
    <3>2. c \in Nat /\ A <= c /\ c <= B
      BY <1>5, <1>9, <2>2, <3>1
    <3> QED
      BY <3>2
  <2>4. most = A
    <3>1. most = Min({A, B})
      BY <1>2, <2>1, <2>2
    <3>2. A \in {A, B} /\ \A y \in {A, B} : A <= y
      BY <2>3
    <3>3. \A x \in {A, B} : (\A y \in {A, B} : x <= y) => x = A
      BY <2>3
    <3> QED
      BY <3>1, <3>2, <3>3 DEF Min
  <2>5. PICK g : g = [a \in as |-> Total(w[a], D)]
    OBVIOUS
  <2>6. g = [a \in DOMAIN w |-> SumFunction(w[a])]
    <3>1. \A a \in as : SumFunction(w[a]) = Total(w[a], D)
      <4> TAKE a \in as
      <4>1. PICK v : v = w[a]
        OBVIOUS
      <4>2. DOMAIN v = D
        BY <1>6, <4>1
      <4> QED
        BY <4>1, <4>2 DEF SumFunction, Total
    <3> QED
      BY <1>7, <2>5, <3>1
  <2>7. FlowSize(w) = Total(g, as)
    <3>1. FlowSize(w) = SumFunction(g)
      BY <2>6 DEF FlowSize
    <3>2. DOMAIN g = as
      BY <2>5
    <3> QED
      BY <3>1, <3>2 DEF SumFunction, Total
  <2>8. \A a \in as : g[a] \in Nat /\ rate[a] \in Nat /\ g[a] <= rate[a]
    BY <1>4, <1>6, <2>5
  <2>9. Total(g, as) = Total(rate, as)
    BY <1>3, <2>2, <2>4, <2>7
  <2>10. Agree(g, rate, as)
    BY <1>4, <2>8, <2>9, TotalLess
  <2> QED
    BY <2>5, <2>10 DEF Agree
<1>10. Total(rate, as) <= cs[1].capacity => \A a \in as : Total(w[a], D) = apps[a].rate
  BY <1>4, <1>9
<1> QED
  BY <1>1, <1>4, <1>8, <1>10 DEF Served

\* So does every solver.
LEMMA LambdaSolutionsFacts ==
  ASSUME AppsOK, algorithms \in Algorithms, NEW cs, ContainersOK(cs), NEW as \in SUBSET Apps,
         NEW w \in LambdaSolutions(as, cs)
  PROVE  Served(w, as, cs)
<1>1. algorithms[2] \in {"random", "greedy", "mcfp"}
  BY LambdaMuAssumption DEF LambdaAlgorithms
<1>2. CASE algorithms[2] = "greedy"
  <2>1. w = solveGreedy(as, cs)
    BY <1>2 DEF LambdaSolutions
  <2> QED
    BY <2>1, SolveGreedyFacts
<1>3. CASE algorithms[2] = "random"
  <2>1. w \in solveRandom(as, cs)
    BY <1>3 DEF LambdaSolutions
  <2> QED
    BY <2>1, SolveRandomFacts
<1>4. CASE algorithms[2] = "mcfp"
  <2>1. w \in solveRandom(as, cs)
    BY <1>4 DEF LambdaSolutions
  <2> QED
    BY <2>1, SolveRandomFacts
<1> QED
  BY <1>1, <1>2, <1>3, <1>4

\* The weights of the nodes are those of the containers.
LEMMA WeightsFacts ==
  ASSUME NEW cs, ContainersOK(cs), NEW v \in [DOMAIN cs -> Nat], NEW n \in [Edges -> Nat]
  PROVE  /\ WeightsOf(v, cs) \in [Edges -> Nat]
         /\ Total(WeightsOf(v, cs), Edges) = Total(v, DOMAIN cs)
         /\ Total([e \in Edges |-> n[e] * WeightsOf(v, cs)[e]], Edges)
              = Total([c \in DOMAIN cs |-> v[c] * n[cs[c].edge]], DOMAIN cs)
<1>1. PICK D, ed, W : D = DOMAIN cs /\ ed = [c \in D |-> cs[c].edge] /\ W = WeightsOf(v, cs)
  OBVIOUS
<1>2. IsFiniteSet(D) /\ \A c \in D : ed[c] \in Edges /\ ed[c] = cs[c].edge
  <2>1. Len(cs) \in Nat /\ D = 1 .. Len(cs)
    BY <1>1 DEF ContainersOK, IsList
  <2>2. IsFiniteSet(D)
    BY <2>1, FS_Interval
  <2> QED
    BY <1>1, <2>2 DEF ContainersOK, ContSet
<1>3. \A c \in D : v[c] \in Nat
  BY <1>1
<1>4. \A e \in Edges : {c \in DOMAIN cs : cs[c].edge = e} = {c \in D : ed[c] = e}
  BY <1>1, <1>2
<1>5. W = [e \in Edges |-> Total(v, {c \in D : ed[c] = e})]
  BY <1>1, <1>4 DEF WeightsOf, Total
<1>6. \A e \in Edges : Total(v, {c \in D : ed[c] = e}) \in Nat
  <2> TAKE e \in Edges
  <2>1. PICK P : P = {c \in D : ed[c] = e}
    OBVIOUS
  <2>2. IsFiniteSet(P) /\ \A c \in P : v[c] \in Nat
    BY <1>2, <1>3, <2>1, FS_Subset
  <2> QED
    BY <2>1, <2>2, TotalNat
<1>7. W \in [Edges -> Nat]
  BY <1>5, <1>6
<1>8. IsFiniteSet(Edges)
  BY EdgesFacts
<1>9. ASSUME NEW m \in [Edges -> Nat]
      PROVE  Total([e \in Edges |-> m[e] * W[e]], Edges) = Total([c \in D |-> v[c] * m[ed[c]]], D)
  <2>1. \A e \in Edges : m[e] \in Nat
    OBVIOUS
  <2>2. Total([e \in Edges |-> m[e] * Total(v, {c \in D : ed[c] = e})], Edges)
          = Total([c \in D |-> v[c] * m[ed[c]]], D)
    <3>1. IsFiniteSet(D) /\ \A c \in D : ed[c] \in Edges
      BY <1>2
    <3>2. PICK E : E = Edges
      OBVIOUS
    <3>3. IsFiniteSet(E) /\ (\A e \in E : m[e] \in Nat) /\ \A c \in D : ed[c] \in E
      BY <1>8, <2>1, <3>1, <3>2
    <3>4. Grouped(D, E, v, m, ed)
      BY <1>2, <1>3, <3>3, TotalGroups
    <3>5. Total([e \in E |-> m[e] * Total(v, {c \in D : ed[c] = e})], E)
            = Total([c \in D |-> v[c] * m[ed[c]]], D)
      BY <3>4 DEF Grouped
    <3> QED
      BY <3>2, <3>5
  <2>3. [e \in Edges |-> m[e] * Total(v, {c \in D : ed[c] = e})] = [e \in Edges |-> m[e] * W[e]]
    BY <1>5
  <2> QED
    BY <2>2, <2>3
<1>10. Total(W, Edges) = Total(v, D)
  <2>1. PICK m : m = [e \in Edges |-> 1]
    OBVIOUS
  <2>2. m \in [Edges -> Nat]
    BY <2>1
  <2>3. PICK f, g : f = [e \in Edges |-> m[e] * W[e]] /\ g = [c \in D |-> v[c] * m[ed[c]]]
    OBVIOUS
  <2>4. \A e \in Edges : f[e] = W[e]
    BY <2>1, <2>3, <1>7
  <2>5. \A c \in D : g[c] = v[c]
    BY <2>1, <2>3, <1>2, <1>3
  <2>6. Total(f, Edges) = Total(g, D)
    BY <1>9, <2>2, <2>3
  <2>7. Total(f, Edges) = Total(W, Edges) /\ Total(g, D) = Total(v, D)
    BY <1>2, <1>8, <2>4, <2>5, TotalSame
  <2> QED
    BY <2>6, <2>7
<1>11. [c \in D |-> v[c] * n[ed[c]]] = [c \in DOMAIN cs |-> v[c] * n[cs[c].edge]]
  BY <1>1, <1>2
<1> QED
  BY <1>1, <1>7, <1>9, <1>10, <1>11

-----------------------------------------------------------------------------
(***************************************************************************)
(* Both assignments.                                                       *)
(***************************************************************************)
ListsFor(as, ms) ==
  /\ ms \in [Edges -> Seq(Nat)]
  /\ \A e \in Edges : /\ Len(ms[e]) <= usable(e)
                      /\ ToSet(ms[e]) = {a \in OfType(as, "mu") : as[a].edge = e}
                      /\ Len(ms[e]) = Cardinality(ToSet(ms[e]))

UnitApp(x) == x.rate = 1 /\ x.exchange = 1 /\ x.storage = 0
LambdaCostOf(x) == Total([e \in Edges |-> networkCost[x.broker][e] * x.weights[e]], Edges)
MuCostOf(x) == networkCost[x.broker][x.edge]
AllUnit(as) == \A a \in DOMAIN as : UnitApp(as[a]) /\ (as[a].type = "lambda" => as[a].weights # <<>>)
CostsFor(as, cst) ==
  AllUnit(as) =>
    /\ cst.mu = Total([a \in OfType(as, "mu") |-> MuCostOf(as[a])], OfType(as, "mu"))
    /\ cst.lambda = Total([a \in OfType(as, "lambda") |-> LambdaCostOf(as[a])], OfType(as, "lambda"))

\* The lists of the edges are those of the assignment of the mu-apps.
LEMMA MuListsFacts ==
  ASSUME AppsOK, CloudOK(cloud), NEW f \in MuAssignments,
         OfType(apps, "mu") = {} => ListsFor(apps, muApps),
         NEW as, OfType(as, "mu") = OfType(apps, "mu"), \A a \in OfType(apps, "mu") : as[a].edge = f[a]
  PROVE  /\ f \in [OfType(apps, "mu") -> Edges]
         /\ ListsFor(as, IF DOMAIN f = {} THEN muApps ELSE MuAppsOf(f))
<1>1. PICK M : M = OfType(apps, "mu")
  OBVIOUS
<1>2. IsFiniteSet(M) /\ M \in SUBSET Nat
  BY <1>1, AppFacts
<1>3. f \in [M -> Edges] /\ \A e \in Edges : Cardinality({a \in M : f[a] = e}) <= usable(e)
  <2>1. /\ f \in [OfType(apps, "mu") -> Edges]
        /\ \A e \in Edges : Cardinality({a \in DOMAIN f : f[a] = e}) <= usable(e)
    BY DEF MuAssignments
  <2>2. DOMAIN f = M
    BY <2>1, <1>1
  <2> QED
    BY <2>1, <2>2, <1>1
<1>4. CASE M = {}
  <2>1. DOMAIN f = {}
    BY <1>3, <1>4
  <2>2. ListsFor(as, muApps)
    <3>1. \A e : {a \in OfType(as, "mu") : as[a].edge = e} = {a \in OfType(apps, "mu") : apps[a].edge = e}
      BY <1>1, <1>4
    <3> QED
      BY <1>1, <1>4, <3>1 DEF ListsFor
  <2> QED
    BY <1>1, <1>3, <2>1, <2>2
<1>5. CASE M # {}
  <2>1. DOMAIN f = M
    BY <1>3
  <2>2. PICK ms : ms = MuAppsOf(f)
    OBVIOUS
  <2>3. ms = [e \in Edges |-> Sorted({a \in M : f[a] = e})]
    BY <2>1, <2>2 DEF MuAppsOf
  <2>4. ASSUME NEW e \in Edges
        PROVE  /\ ms[e] \in Seq(Nat) /\ Len(ms[e]) <= usable(e)
               /\ ToSet(ms[e]) = {a \in OfType(as, "mu") : as[a].edge = e}
               /\ Len(ms[e]) = Cardinality(ToSet(ms[e]))
    <3>1. PICK S, s : S = {a \in M : f[a] = e} /\ s = Sorted(S)
      OBVIOUS
    <3>2. S \in SUBSET Nat /\ IsFiniteSet(S)
      BY <1>2, <3>1, FS_Subset
    <3>3. Len(s) = Cardinality(S) /\ ToSet(s) = S /\ s \in Seq(Nat)
      BY <3>1, <3>2, SortedIs
    <3>6. S = {a \in OfType(as, "mu") : as[a].edge = e}
      BY <1>1, <3>1
    <3>7. ms[e] = s
      BY <2>3, <3>1
    <3> QED
      BY <1>3, <3>1, <3>3, <3>6, <3>7
  <2>5. ListsFor(as, ms)
    <3>1. ms \in [Edges -> Seq(Nat)]
      BY <2>3, <2>4
    <3> QED
      BY <2>4, <3>1 DEF ListsFor
  <2> QED
    BY <1>1, <1>3, <1>5, <2>1, <2>2, <2>5
<1> QED
  BY <1>4, <1>5

\* The cost of a flow, for apps of unit parameters.
LEMMA UnitFlow ==
  ASSUME AppsOK, NEW cs, ContainersOK(cs), NEW a \in Apps, UnitApp(apps[a]),
         NEW v \in [DOMAIN cs -> Nat], NEW x, x.broker = apps[a].broker, x.weights = WeightsOf(v, cs)
  PROVE  SumFunction([c \in DOMAIN cs |-> v[c] * LambdaAppCost(a, cs[c])]) = LambdaCostOf(x)
<1>1. PICK D, n : D = DOMAIN cs /\ n = networkCost[apps[a].broker]
  OBVIOUS
<1>2. n \in [Edges -> Nat]
  BY <1>1, AppFacts DEF AppsOK, AppSet
<1>3. ASSUME NEW c \in D PROVE LambdaAppCost(a, cs[c]) = n[cs[c].edge]
  <2>1. cs[c] \in ContSet
    BY <1>1 DEF ContainersOK
  <2>2. PICK p \in Nat : p = n[cs[c].edge]
    BY <1>2, <2>1 DEF ContSet
  <2>3. PICK l \in Nat : l = IF cs[c].local THEN Conf.localCost ELSE Conf.remoteCost
    BY ConfFacts
  <2>4. LambdaAppCost(a, cs[c]) = p * 1 + l * 0
    BY <1>1, <2>2, <2>3 DEF LambdaAppCost, UnitApp
  <2> QED
    BY <2>2, <2>4
<1>4. PICK g : g = [c \in D |-> v[c] * LambdaAppCost(a, cs[c])]
  OBVIOUS
<1>5. g = [c \in D |-> v[c] * n[cs[c].edge]]
  BY <1>3, <1>4
<1>6. SumFunction(g) = Total(g, D)
  BY <1>4 DEF SumFunction, Total
<1>7. Total(g, D) = Total([e \in Edges |-> n[e] * WeightsOf(v, cs)[e]], Edges)
  BY <1>1, <1>2, <1>5, WeightsFacts
<1>8. LambdaCostOf(x) = Total([e \in Edges |-> n[e] * WeightsOf(v, cs)[e]], Edges)
  BY <1>1 DEF LambdaCostOf
<1> QED
  BY <1>1, <1>4, <1>6, <1>7, <1>8

\* The cost of an assignment of mu-apps of unit parameters.
LEMMA UnitMu ==
  ASSUME AppsOK, NEW f \in [OfType(apps, "mu") -> Edges], NEW as, OfType(as, "mu") = OfType(apps, "mu"),
         \A a \in OfType(apps, "mu") : UnitApp(apps[a]) /\ as[a].edge = f[a] /\ as[a].broker = apps[a].broker
  PROVE  MuAssignmentCost(f) = Total([a \in OfType(as, "mu") |-> MuCostOf(as[a])], OfType(as, "mu"))
<1>1. PICK M : M = OfType(apps, "mu")
  OBVIOUS
<1>2. PICK g : g = [a \in M |-> MuCostOf(as[a])]
  OBVIOUS
<1>3. DOMAIN f = M /\ f \in [M -> Edges]
  BY <1>1
<1>4. ASSUME NEW a \in M PROVE apps[a].rate * networkCost[apps[a].broker][f[a]] * apps[a].exchange = g[a]
  <2>1. apps[a] \in AppSet
    BY <1>1, AppFacts
  <2>2. PICK b \in Brokers : b = apps[a].broker
    BY <2>1 DEF AppSet
  <2>3. PICK p \in Nat : p = networkCost[b][f[a]]
    BY <1>3 DEF AppsOK
  <2>4. g[a] = p
    BY <1>1, <1>2, <2>2, <2>3 DEF MuCostOf
  <2>5. apps[a].rate = 1 /\ apps[a].exchange = 1
    BY <1>1 DEF UnitApp
  <2>6. 1 * p * 1 = p
    OBVIOUS
  <2> QED
    BY <2>2, <2>3, <2>4, <2>5, <2>6
<1>5. g = [a \in DOMAIN f |-> apps[a].rate * networkCost[apps[a].broker][f[a]] * apps[a].exchange]
  BY <1>2, <1>3, <1>4
<1>6. MuAssignmentCost(f) = SumFunction(g)
  BY <1>5 DEF MuAssignmentCost
<1>7. SumFunction(g) = Total(g, M)
  BY <1>2 DEF SumFunction, Total
<1> QED
  BY <1>1, <1>2, <1>6, <1>7

SameApp(y, x) ==
  /\ y.broker = x.broker /\ y.type = x.type /\ y.rate = x.rate
  /\ y.exchange = x.exchange /\ y.storage = x.storage

\* What both assignments leave: all the apps are served, within the containers.
Assigns(bs, ms, cst) ==
  /\ bs \in [Apps -> AppSet]
  /\ \A a \in Apps :
       /\ SameApp(bs[a], apps[a])
       /\ apps[a].type = "mu" => bs[a].weights = apps[a].weights
       /\ apps[a].type = "lambda" => bs[a].weights \in [Edges -> Nat]
       /\ apps[a].type = "lambda" /\ EvenBeta => Total(bs[a].weights, Edges) = bs[a].rate
  /\ ListsFor(bs, ms)
  /\ CostsFor(bs, cst)

\* Both assignments of an epoch, with the lists, the weights and the costs.
LEMMA AssignFacts ==
  ASSUME AppsOK, CloudOK(cloud), algorithms \in Algorithms,
         OfType(apps, "mu") = {} => ListsFor(apps, muApps),
         Cardinality(OfType(apps, "mu")) + 1 <= numContainers(CLOUD),
         EvenBeta => SumRates(apps, OfType(apps, "lambda")) <= Local, Assign
  PROVE  Assigns(apps', muApps', costs')
<1>1. PICK L, M : L = OfType(apps, "lambda") /\ M = OfType(apps, "mu")
  OBVIOUS
<1>2. /\ L \in SUBSET Apps /\ M \in SUBSET Apps /\ IsFiniteSet(L) /\ IsFiniteSet(M)
      /\ \A a \in Apps : apps[a] \in AppSet
      /\ \A a \in Apps : apps[a].type = "lambda" <=> a \in L
      /\ \A a \in Apps : apps[a].type = "mu" <=> a \in M
      /\ \A a \in Apps : apps[a].type \in {"lambda", "mu"}
  <2>1. \A a \in Apps : apps[a].type \in {"lambda", "mu"}
    BY AppFacts DEF AppSet
  <2>2. \A a \in Apps : (apps[a].type = "lambda" <=> a \in L) /\ (apps[a].type = "mu" <=> a \in M)
    BY <1>1 DEF OfType, Apps
  <2> QED
    BY <1>1, <2>1, <2>2, AppFacts
<1>3. PICK f \in MuAssignments :
        LET mus == IF DOMAIN f = {} THEN muApps ELSE MuAppsOf(f)
            cs == Containers(mus)
            mu == MuAssignmentCost(f)
        IN /\ muApps' = mus
           /\ IF L = {}
                THEN apps' = Assigned(f) /\ costs' = [lambda |-> 0, mu |-> mu]
                ELSE \E w \in LambdaSolutions(L, cs) :
                       /\ apps' = [a \in Apps |->
                            IF a \in L THEN [apps[a] EXCEPT !.weights = WeightsOf(w[a], cs)]
                                       ELSE Assigned(f)[a]]
                       /\ costs' = [lambda |-> FlowCost(w, cs), mu |-> mu]
  BY <1>1 DEF Assign
<1>4. PICK ms, cs, mu : /\ ms = IF DOMAIN f = {} THEN muApps ELSE MuAppsOf(f)
                        /\ cs = Containers(ms) /\ mu = MuAssignmentCost(f)
  OBVIOUS
<1>5. PICK bs, cst : bs = apps' /\ cst = costs'
  OBVIOUS
<1>6. muApps' = ms
  BY <1>3, <1>4
<1>7. \A as : OfType(as, "mu") = M /\ (\A a \in M : as[a].edge = f[a]) =>
                 f \in [M -> Edges] /\ ListsFor(as, ms)
  BY <1>1, <1>4, MuListsFacts
<1>8. PICK g : g = Assigned(f)
  OBVIOUS
<1>9. f \in [M -> Edges]
  <2>1. f \in [OfType(apps, "mu") -> Edges]
    BY DEF MuAssignments
  <2> QED
    BY <1>1, <2>1
<1>10. /\ g = [a \in Apps |-> IF a \in M THEN [apps[a] EXCEPT !.edge = f[a]] ELSE apps[a]]
       /\ \A a \in Apps : g[a] \in AppSet /\ SameApp(g[a], apps[a]) /\ g[a].weights = apps[a].weights
       /\ \A a \in M : g[a].edge = f[a]
  <2>1. g = [a \in Apps |-> IF a \in M THEN [apps[a] EXCEPT !.edge = f[a]] ELSE apps[a]]
    BY <1>8, <1>9 DEF Assigned
  <2>2. \A a \in M : f[a] \in Edges
    BY <1>9
  <2>3. ASSUME NEW a \in Apps
        PROVE  /\ g[a] \in AppSet /\ SameApp(g[a], apps[a]) /\ g[a].weights = apps[a].weights
               /\ a \in M => g[a].edge = f[a]
    <3>1. apps[a] \in AppSet
      BY <1>2
    <3>2. CASE a \in M
      <4>1. g[a] = [apps[a] EXCEPT !.edge = f[a]]
        BY <2>1, <3>2
      <4> QED
        BY <3>1, <3>2, <4>1, <2>2 DEF AppSet, SameApp
    <3>3. CASE a \notin M
      <4>1. g[a] = apps[a]
        BY <2>1, <3>3
      <4> QED
        BY <3>1, <3>3, <4>1 DEF SameApp
    <3> QED
      BY <3>2, <3>3
  <2> QED
    BY <2>1, <2>3, <1>2
<1>11. ASSUME NEW as, DOMAIN as = Apps, \A a \in Apps : SameApp(as[a], apps[a]),
              \A a \in M : as[a].edge = f[a]
       PROVE  OfType(as, "mu") = M /\ OfType(as, "lambda") = L /\ ListsFor(as, ms)
  <2>1. OfType(as, "mu") = M /\ OfType(as, "lambda") = L
    BY <1>1, <1>11 DEF OfType, Apps, SameApp
  <2> QED
    BY <2>1, <1>7, <1>11
<1>12. \A a \in Apps : SameApp(apps[a], apps[a])
  BY DEF SameApp
<1>13. ListsFor(g, ms) /\ DOMAIN g = Apps
  BY <1>10, <1>11
<1>14. ContainersOK(cs)
  <2>1. ms \in [Edges -> Seq(Nat)] /\ \A e \in Edges : Len(ms[e]) <= usable(e)
    BY <1>13 DEF ListsFor
  <2>2. OfType(g, "mu") = M
    BY <1>10, <1>11, <1>13
  <2>3. PICK T : T = ToSet(ms[CLOUD])
    OBVIOUS
  <2>4. T \in SUBSET M /\ Len(ms[CLOUD]) = Cardinality(T)
    BY <1>13, <2>2, <2>3, EdgesFacts DEF ListsFor
  <2>5. Cardinality(T) <= Cardinality(M) /\ Cardinality(T) \in Nat /\ Cardinality(M) \in Nat
    BY <1>2, <2>4, FS_Subset, FS_CardinalityType
  <2>6. PICK x, y, z : x = Cardinality(T) /\ y = Cardinality(M) /\ z = numContainers(CLOUD)
    OBVIOUS
  <2>7. z \in Nat /\ y + 1 <= z
    BY <1>1, <2>6, EdgesFacts, EdgeCapacities
  <2>8. x + 1 <= z
    BY <2>5, <2>6, <2>7
  <2> QED
    BY <1>4, <2>1, <2>4, <2>6, <2>8, ContainersFacts
<1>15. CASE L = {}
  <2>1. bs = g /\ cst = [lambda |-> 0, mu |-> mu]
    BY <1>3, <1>4, <1>5, <1>8, <1>15
  <2>2. CostsFor(g, cst)
    <3> SUFFICES ASSUME AllUnit(g)
                 PROVE  /\ cst.mu = Total([a \in OfType(g, "mu") |-> MuCostOf(g[a])], OfType(g, "mu"))
                        /\ cst.lambda = Total([a \in OfType(g, "lambda") |-> LambdaCostOf(g[a])],
                                              OfType(g, "lambda"))
      BY DEF CostsFor
    <3>1. OfType(g, "mu") = M /\ OfType(g, "lambda") = L
      BY <1>10, <1>11, <1>13
    <3>2. \A h : Total(h, {}) = 0
      BY TotalRec, FS_EmptySet
    <3>3. \A a \in M : UnitApp(apps[a]) /\ g[a].edge = f[a] /\ g[a].broker = apps[a].broker
      BY <1>2, <1>10, <1>13 DEF AllUnit, UnitApp, SameApp
    <3>4. mu = Total([a \in OfType(g, "mu") |-> MuCostOf(g[a])], OfType(g, "mu"))
      BY <1>1, <1>4, <1>9, <3>1, <3>3, UnitMu
    <3> QED
      BY <1>15, <2>1, <3>1, <3>2, <3>4
  <2>3. bs \in [Apps -> AppSet]
    BY <2>1, <1>10
  <2> QED
    BY <1>2, <1>5, <1>6, <1>10, <1>13, <1>15, <2>1, <2>2, <2>3 DEF Assigns
<1>16. CASE L # {}
  <2>1. PICK w \in LambdaSolutions(L, cs) :
          /\ bs = [a \in Apps |-> IF a \in L THEN [apps[a] EXCEPT !.weights = WeightsOf(w[a], cs)]
                                  ELSE g[a]]
          /\ cst = [lambda |-> FlowCost(w, cs), mu |-> mu]
    BY <1>3, <1>4, <1>5, <1>8, <1>16
  <2>2. PICK D : D = DOMAIN cs
    OBVIOUS
  <2>3. Served(w, L, cs)
    BY <1>2, <1>14, LambdaSolutionsFacts
  <2>4. w \in [L -> [D -> Nat]]
    BY <2>2, <2>3 DEF Served
  <2>5. EvenBeta => \A a \in L : Total(w[a], D) = apps[a].rate
    <3>1. EvenBeta => SumRates(apps, L) <= cs[1].capacity
      BY <1>1, <1>14 DEF ContainersOK
    <3> QED
      BY <2>2, <2>3, <3>1 DEF Served
  <2>6. \A a \in L : WeightsOf(w[a], cs) \in [Edges -> Nat] /\ Total(WeightsOf(w[a], cs), Edges) = Total(w[a], D)
    <3> TAKE a \in L
    <3>1. PICK v : v = w[a]
      OBVIOUS
    <3>2. v \in [DOMAIN cs -> Nat]
      BY <2>2, <2>4, <3>1
    <3>3. PICK n : n = [e \in Edges |-> 0]
      OBVIOUS
    <3>4. n \in [Edges -> Nat]
      BY <3>3
    <3> QED
      BY <1>14, <2>2, <3>1, <3>2, <3>4, WeightsFacts
  <2>7. ASSUME NEW a \in L
        PROVE  /\ bs[a] \in AppSet /\ SameApp(bs[a], apps[a])
               /\ bs[a].weights = WeightsOf(w[a], cs)
    <3>1. apps[a] \in AppSet
      BY <1>2
    <3>2. bs[a] = [apps[a] EXCEPT !.weights = WeightsOf(w[a], cs)]
      BY <1>2, <2>1, <2>7
    <3>3. PICK W \in [Edges -> Nat] : W = WeightsOf(w[a], cs)
      BY <2>6
    <3>4. bs[a] = [apps[a] EXCEPT !.weights = W]
      BY <3>2, <3>3
    <3>5. bs[a] \in AppSet /\ bs[a].weights = W
      BY <3>1, <3>4 DEF AppSet
    <3>6. SameApp(bs[a], apps[a])
      BY <3>1, <3>4 DEF AppSet, SameApp
    <3> QED
      BY <3>3, <3>5, <3>6
  <2>8. \A a \in Apps \ L : bs[a] = g[a]
    BY <2>1
  <2>9. bs \in [Apps -> AppSet] /\ DOMAIN bs = Apps
    <3>1. \A a \in Apps : bs[a] \in AppSet
      BY <2>7, <2>8, <1>10
    <3> QED
      BY <2>1, <3>1
  <2>10. \A a \in Apps : SameApp(bs[a], apps[a])
    BY <2>7, <2>8, <1>10
  <2>11. \A a \in M : a \notin L /\ a \in Apps /\ bs[a] = g[a]
    <3>1. \A a \in M : a \notin L /\ a \in Apps
      BY <1>2
    <3> QED
      BY <2>8, <3>1
  <2>12. \A a \in M : bs[a].edge = f[a] /\ bs[a].weights = apps[a].weights
    BY <1>10, <2>11
  <2>13. OfType(bs, "mu") = M /\ OfType(bs, "lambda") = L /\ ListsFor(bs, ms)
    BY <1>11, <2>9, <2>10, <2>12
  <2>14. \A a \in L : /\ bs[a].weights \in [Edges -> Nat]
                      /\ EvenBeta => Total(bs[a].weights, Edges) = bs[a].rate
    <3>1. \A a \in L : bs[a].rate = apps[a].rate
      BY <2>7 DEF SameApp
    <3> QED
      BY <2>5, <2>6, <2>7, <3>1
  <2>15. CostsFor(bs, cst)
    <3> SUFFICES ASSUME AllUnit(bs)
                 PROVE  /\ cst.mu = Total([a \in OfType(bs, "mu") |-> MuCostOf(bs[a])], OfType(bs, "mu"))
                        /\ cst.lambda = Total([a \in OfType(bs, "lambda") |-> LambdaCostOf(bs[a])],
                                              OfType(bs, "lambda"))
      BY DEF CostsFor
    <3>1. \A a \in Apps : UnitApp(apps[a])
      <4>1. \A a \in Apps : UnitApp(bs[a])
        BY <2>9 DEF AllUnit
      <4> QED
        BY <4>1, <2>10 DEF UnitApp, SameApp
    <3>2. \A a \in M : UnitApp(apps[a]) /\ bs[a].edge = f[a] /\ bs[a].broker = apps[a].broker
      BY <3>1, <2>10, <2>11, <2>12 DEF SameApp
    <3>3. mu = Total([a \in OfType(bs, "mu") |-> MuCostOf(bs[a])], OfType(bs, "mu"))
      BY <1>1, <1>4, <1>9, <2>13, <3>2, UnitMu
    <3>4. PICK h : h = [a \in L |-> LambdaCostOf(bs[a])]
      OBVIOUS
    <3>5. ASSUME NEW a \in L
          PROVE  SumFunction([c \in DOMAIN cs |-> w[a][c] * LambdaAppCost(a, cs[c])]) = h[a]
      <4>1. PICK v, x : v = w[a] /\ x = bs[a]
        OBVIOUS
      <4>2. a \in Apps /\ v \in [DOMAIN cs -> Nat]
        BY <1>2, <2>2, <2>4, <4>1
      <4>3. x.broker = apps[a].broker /\ x.weights = WeightsOf(v, cs)
        BY <2>7, <4>1 DEF SameApp
      <4>4. SumFunction([c \in DOMAIN cs |-> v[c] * LambdaAppCost(a, cs[c])]) = LambdaCostOf(x)
        BY <1>14, <3>1, <4>2, <4>3, UnitFlow
      <4> QED
        BY <3>4, <4>1, <4>4
    <3>6. h = [a \in DOMAIN w |-> SumFunction([c \in DOMAIN cs |-> w[a][c] * LambdaAppCost(a, cs[c])])]
      <4>1. DOMAIN w = L
        BY <2>4
      <4> QED
        BY <3>4, <3>5, <4>1
    <3>7. FlowCost(w, cs) = SumFunction(h)
      BY <3>6 DEF FlowCost
    <3>8. SumFunction(h) = Total(h, L)
      BY <3>4 DEF SumFunction, Total
    <3> QED
      BY <2>1, <2>13, <3>3, <3>4, <3>7, <3>8
  <2> QED
    BY <1>2, <1>5, <1>6, <2>9, <2>10, <2>12, <2>13, <2>14, <2>15 DEF Assigns
<1> QED
  BY <1>15, <1>16

-----------------------------------------------------------------------------
(***************************************************************************)
(* The differential list of the pool.                                      *)
(***************************************************************************)
Entries(A) == [app : A, remaining : Nat]
PoolOK(p, A) ==
  /\ p \in Seq(Entries(A)) /\ Len(p) = Cardinality(A)
  /\ \A a \in A : \E k \in 1 .. Len(p) : p[k].app = a

Inserted(r, s, i, e, S) ==
  /\ r \in Seq(S) /\ Len(r) = Len(s) + 1 /\ r[i] = e
  /\ \A k \in 1 .. Len(s) : r[IF k < i THEN k ELSE k + 1] = s[k]

\* An element is inserted in a list: the others keep their order.
LEMMA InsertAtFacts ==
  ASSUME NEW S, NEW s \in Seq(S), NEW i \in 1 .. (Len(s) + 1), NEW e \in S
  PROVE  Inserted(InsertAt(s, i, e), s, i, e, S)
<1>0. PICK r : r = InsertAt(s, i, e)
  OBVIOUS
<1>1. PICK n \in Nat : n = Len(s) /\ DOMAIN s = 1 .. n
  OBVIOUS
<1>2. PICK p, q : p = SubSeq(s, 1, i - 1) /\ q = SubSeq(s, i, n)
  OBVIOUS
<1>3. i \in Int /\ i - 1 \in Int /\ 1 <= i /\ i <= n + 1
  BY <1>1
<1>4. p \in Seq(S) /\ Len(p) = i - 1 /\ \A k \in 1 .. (i - 1) : p[k] = s[k]
  <2>1. \A k \in 1 .. (i - 1) : s[k] \in S
    BY <1>1, <1>3
  <2>2. /\ p \in Seq(S) /\ Len(p) = IF 1 <= i - 1 THEN (i - 1) - 1 + 1 ELSE 0
        /\ \A k \in 1 .. ((i - 1) - 1 + 1) : p[k] = s[1 + k - 1]
    BY <1>2, <1>3, <2>1, SubSeqProperties
  <2>3. \A k \in 1 .. (i - 1) : k \in 1 .. ((i - 1) - 1 + 1) /\ 1 + k - 1 = k
    BY <1>3
  <2> QED
    BY <1>3, <2>2, <2>3
<1>5. q \in Seq(S) /\ Len(q) = n - i + 1 /\ \A k \in 1 .. (n - i + 1) : q[k] = s[i + k - 1]
  <2>1. \A k \in i .. n : s[k] \in S
    BY <1>1, <1>3
  <2>2. /\ q \in Seq(S) /\ Len(q) = IF i <= n THEN n - i + 1 ELSE 0
        /\ \A k \in 1 .. (n - i + 1) : q[k] = s[i + k - 1]
    BY <1>2, <1>3, <2>1, SubSeqProperties
  <2>4. Len(q) = n - i + 1
    <3>1. CASE i <= n
      BY <3>1, <2>2
    <3>2. CASE ~ (i <= n)
      <4>1. n - i + 1 = 0
        BY <3>2, <1>1, <1>3
      <4> QED
        BY <3>2, <4>1, <2>2
    <3> QED
      BY <3>1, <3>2
  <2> QED
    BY <2>2, <2>4
<1>6. PICK u : u = p \o <<e>>
  OBVIOUS
<1>7. u \in Seq(S) /\ Len(u) = i /\ u[i] = e /\ \A k \in 1 .. (i - 1) : u[k] = s[k]
  <2>1. <<e>> \in Seq(S) /\ Len(<<e>>) = 1 /\ <<e>>[1] = e
    OBVIOUS
  <2>2. /\ u \in Seq(S) /\ Len(u) = Len(p) + 1
        /\ \A k \in 1 .. (Len(p) + 1) : u[k] = IF k <= Len(p) THEN p[k] ELSE <<e>>[k - Len(p)]
    BY <1>4, <1>6, <2>1, ConcatProperties
  <2>3. i \in 1 .. (Len(p) + 1) /\ ~ (i <= Len(p)) /\ i - Len(p) = 1
    BY <1>3, <1>4
  <2>4. \A k \in 1 .. (i - 1) : k \in 1 .. (Len(p) + 1) /\ k <= Len(p)
    BY <1>3, <1>4
  <2> QED
    BY <1>3, <1>4, <2>1, <2>2, <2>3, <2>4
<1>8. r = u \o q
  BY <1>0, <1>1, <1>2, <1>6 DEF InsertAt
<1>9. /\ r \in Seq(S) /\ Len(r) = n + 1
      /\ \A k \in 1 .. (n + 1) : r[k] = IF k <= i THEN u[k] ELSE q[k - i]
  <2>1. /\ r \in Seq(S) /\ Len(r) = Len(u) + Len(q)
        /\ \A k \in 1 .. (Len(u) + Len(q)) : r[k] = IF k <= Len(u) THEN u[k] ELSE q[k - Len(u)]
    <3>1. u \in Seq(S) /\ q \in Seq(S)
      BY <1>5, <1>7
    <3> QED
      BY <3>1, <1>8, ConcatProperties
  <2>2. Len(u) + Len(q) = n + 1
    BY <1>1, <1>3, <1>5, <1>7
  <2> QED
    BY <1>7, <2>1, <2>2
<1>10. r[i] = e
  BY <1>3, <1>7, <1>9
<1>11. ASSUME NEW k \in 1 .. n PROVE r[IF k < i THEN k ELSE k + 1] = s[k]
  <2>1. CASE k < i
    <3>1. k \in 1 .. (n + 1) /\ k <= i /\ k \in 1 .. (i - 1)
      BY <1>1, <1>3, <2>1
    <3> QED
      BY <2>1, <3>1, <1>7, <1>9
  <2>2. CASE ~ (k < i)
    <3>1. k + 1 \in 1 .. (n + 1) /\ ~ (k + 1 <= i) /\ (k + 1) - i \in 1 .. (n - i + 1)
          /\ i + ((k + 1) - i) - 1 = k
      BY <1>1, <1>3, <2>2
    <3> QED
      BY <2>2, <3>1, <1>5, <1>9
  <2> QED
    BY <2>1, <2>2
<1> QED
  BY <1>0, <1>1, <1>9, <1>10, <1>11 DEF Inserted

\* The sums of the list up to each element, as InsertDesc computes them.
Sums(end, list) ==
  end = [k \in 0 .. Len(list) |-> IF k = 0 THEN 0 ELSE end[k - 1] + list[k].remaining]

\* The times at which the elements end are numbers, and each is the sum so far.
LEMMA SumsExist ==
  ASSUME NEW A, NEW list \in Seq(Entries(A)), NEW end, end = CHOOSE e : Sums(e, list)
  PROVE  /\ end[0] = 0 /\ \A k \in 0 .. Len(list) : end[k] \in Nat
         /\ \A k \in 1 .. Len(list) : end[k] = end[k - 1] + list[k].remaining
<1>1. PICK n \in Nat : n = Len(list) /\ DOMAIN list = 1 .. n
  OBVIOUS
<1>2. \A k \in 1 .. n : list[k].remaining \in Nat
  <2> TAKE k \in 1 .. n
  <2>1. list[k] \in Entries(A)
    BY <1>1
  <2> QED
    BY <2>1 DEF Entries
<1>3. PICK step : step = [k \in 1 .. n |-> [x \in Nat |-> x + list[k].remaining]]
  OBVIOUS
<1>4. Steps(step, n, Nat)
  <2>1. \A k \in 1 .. n : \A x \in Nat : x + list[k].remaining \in Nat
    BY <1>2
  <2> QED
    BY <1>3, <2>1 DEF Steps
<1>5. PICK f \in [0 .. n -> Nat] : f[0] = 0 /\ \A k \in 1 .. n : f[k] = step[k][f[k - 1]]
  <2>1. PICK X, base : X = Nat /\ base = 0
    OBVIOUS
  <2>2. base \in X /\ Steps(step, n, X)
    BY <1>4, <2>1
  <2>3. \E f \in [0 .. n -> X] : f[0] = base /\ \A k \in 1 .. n : f[k] = step[k][f[k - 1]]
    BY <2>2, RecExists
  <2> QED
    BY <2>1, <2>3
<1>6. \A k \in 1 .. n : k - 1 \in 0 .. n /\ k \in 0 .. n
  BY <1>1
<1>7. \A k \in 1 .. n : f[k] = f[k - 1] + list[k].remaining
  BY <1>3, <1>5, <1>6
<1>8. Sums(f, list)
  <2>1. \A k \in 0 .. n : f[k] = IF k = 0 THEN 0 ELSE f[k - 1] + list[k].remaining
    BY <1>5, <1>7
  <2>2. f = [k \in 0 .. n |-> f[k]]
    BY <1>5
  <2> QED
    BY <1>1, <2>1, <2>2 DEF Sums
<1>9. Sums(end, list)
  BY <1>8
<1>10. /\ end[0] = 0 /\ \A k \in 1 .. n : end[k] = end[k - 1] + list[k].remaining
  <2>1. \A k \in 0 .. n : end[k] = IF k = 0 THEN 0 ELSE end[k - 1] + list[k].remaining
    BY <1>1, <1>9 DEF Sums
  <2> QED
    BY <1>1, <1>6, <2>1
<1> DEFINE G == {k \in 0 .. n : end[k] \in Nat}
<1>11. ASSUME NEW m \in 0 .. n PROVE m \in G
  <2>1. 0 \in G
    BY <1>10
  <2>2. ASSUME NEW k \in 0 .. (m - 1), k \in G PROVE k + 1 \in G
    <3>1. k + 1 \in 1 .. n /\ (k + 1) - 1 = k /\ k + 1 \in 0 .. n
      OBVIOUS
    <3>2. end[k + 1] = end[k] + list[k + 1].remaining
      BY <3>1, <1>10
    <3>3. PICK x, y : x = end[k] /\ y = list[k + 1].remaining
      OBVIOUS
    <3>4. x \in Nat /\ y \in Nat
      BY <1>2, <2>2, <3>1, <3>3
    <3>5. x + y \in Nat
      BY <3>4
    <3>6. end[k + 1] \in Nat
      BY <3>2, <3>3, <3>5
    <3> QED
      BY <3>1, <3>6
  <2>3. m \in Nat
    OBVIOUS
  <2> HIDE DEF G
  <2> QED
    BY <2>1, <2>2, <2>3, CountUp
<1> QED
  BY <1>1, <1>10, <1>11

DescIn(r, list, d, A) ==
  /\ r \in Seq(Entries(A)) /\ Len(r) = Len(list) + 1
  /\ \E j \in 1 .. Len(r) : r[j].app = d.app
  /\ \A k \in 1 .. Len(list) : \E j \in 1 .. Len(r) : r[j].app = list[k].app

\* The parts of an insertion: when the elements end, which element is split,
\* and the list with the new element before it.
EndsOf(list) == CHOOSE e : Sums(e, list)
SplitAt(list, d, end) == Min({k \in DOMAIN list : d.remaining <= end[k]} \cup {Len(list) + 1})
Insertion(list, d, at, left) ==
  InsertAt([k \in DOMAIN list |->
              IF k = at THEN [list[k] EXCEPT !.remaining = @ - left] ELSE list[k]],
           at, [d EXCEPT !.remaining = left])

LEMMA InsertDescParts ==
  ASSUME NEW list, NEW d
  PROVE  InsertDesc(list, d)
           = Insertion(list, d, SplitAt(list, d, EndsOf(list)),
                      d.remaining - EndsOf(list)[SplitAt(list, d, EndsOf(list)) - 1])
BY DEF InsertDesc, Insertion, SplitAt, EndsOf, Sums

\* A differential list has all of its apps, and the new one, after an insertion.
LEMMA InsertDescFacts ==
  ASSUME NEW A, NEW list \in Seq(Entries(A)), NEW d \in Entries(A)
  PROVE  DescIn(InsertDesc(list, d), list, d, A)
<1>0. PICK r : r = InsertDesc(list, d)
  OBVIOUS
<1>1. PICK n \in Nat : n = Len(list) /\ DOMAIN list = 1 .. n
  OBVIOUS
<1>2. PICK end : end = CHOOSE e : Sums(e, list)
  OBVIOUS
<1>3. /\ end[0] = 0 /\ \A k \in 0 .. n : end[k] \in Nat
      /\ \A k \in 1 .. n : end[k] = end[k - 1] + list[k].remaining
  BY <1>1, <1>2, SumsExist
<1>4. PICK C, at, left : /\ C = {k \in DOMAIN list : d.remaining <= end[k]} \cup {Len(list) + 1}
                         /\ at = Min(C) /\ left = d.remaining - end[at - 1]
  OBVIOUS
<1>5. at \in C /\ \A k \in C : at <= k
  <2>1. C \in SUBSET Nat /\ C # {}
    BY <1>1, <1>4
  <2>2. PICK m \in C : \A k \in C : m <= k
    BY <2>1, NatMin
  <2> QED
    BY <1>4, <2>2 DEF Min
<1>6. at \in 1 .. (n + 1) /\ at - 1 \in 0 .. n
  BY <1>1, <1>4, <1>5
<1>7. d.remaining \in Nat /\ d.app \in A /\ \A k \in 1 .. n : list[k] \in Entries(A) /\ list[k].remaining \in Nat
  <2>1. \A k \in 1 .. n : list[k] \in Entries(A)
    BY <1>1
  <2> QED
    BY <2>1 DEF Entries
<1>8. end[at - 1] \in Nat /\ end[at - 1] <= d.remaining
  <2>1. end[at - 1] \in Nat
    BY <1>3, <1>6
  <2>2. CASE at = 1
    BY <2>2, <1>3, <1>7
  <2>3. CASE at # 1
    <3>1. at - 1 \in 1 .. n /\ ~ (at <= at - 1)
      BY <1>6, <2>3
    <3>2. at - 1 \notin C
      BY <1>5, <3>1
    <3>3. ~ (d.remaining <= end[at - 1])
      BY <1>1, <1>4, <3>1, <3>2
    <3> QED
      BY <1>7, <2>1, <3>3
  <2> QED
    BY <2>1, <2>2, <2>3
<1>9. left \in Nat
  BY <1>4, <1>7, <1>8
<1>10. at \in 1 .. n => list[at].remaining - left \in Nat
  <2> SUFFICES ASSUME at \in 1 .. n PROVE list[at].remaining - left \in Nat
    OBVIOUS
  <2>1. at # n + 1
    BY <1>1
  <2>2. d.remaining <= end[at]
    BY <1>1, <1>4, <1>5, <2>1
  <2>3. end[at] = end[at - 1] + list[at].remaining /\ list[at].remaining \in Nat
    BY <1>3, <1>7
  <2>4. PICK x, y, z, w : x = end[at] /\ y = end[at - 1] /\ z = list[at].remaining /\ w = d.remaining
    OBVIOUS
  <2>5. y \in Nat /\ z \in Nat /\ w \in Nat /\ x = y + z /\ w <= x /\ y <= w
    BY <1>7, <1>8, <2>2, <2>3, <2>4
  <2>6. left = w - y
    BY <1>4, <2>4
  <2>7. z - (w - y) \in Nat
    BY <2>5
  <2> QED
    BY <2>4, <2>6, <2>7
<1>11. PICK s, e : /\ s = [k \in DOMAIN list |->
                              IF k = at THEN [list[k] EXCEPT !.remaining = @ - left] ELSE list[k]]
                   /\ e = [d EXCEPT !.remaining = left]
  OBVIOUS
<1>12. e \in Entries(A) /\ e.app = d.app
  BY <1>9, <1>11 DEF Entries
<1>13. \A k \in 1 .. n : s[k] \in Entries(A) /\ s[k].app = list[k].app
  <2> TAKE k \in 1 .. n
  <2>1. CASE k = at
    <3>1. s[k] = [list[k] EXCEPT !.remaining = @ - left]
      BY <1>1, <1>11, <2>1
    <3>2. list[k] \in Entries(A) /\ list[k].remaining - left \in Nat
      BY <1>7, <1>10, <2>1
    <3> QED
      BY <3>1, <3>2 DEF Entries
  <2>2. CASE k # at
    BY <1>1, <1>7, <1>11, <2>2
  <2> QED
    BY <2>1, <2>2
<1>14. s \in Seq(Entries(A)) /\ Len(s) = n
  <2>1. DOMAIN s = 1 .. n
    BY <1>1, <1>11
  <2>2. s \in [1 .. n -> Entries(A)]
    BY <1>11, <1>13, <2>1
  <2> QED
    BY <2>2
<1>15. r = InsertAt(s, at, e)
  <2>1. end = EndsOf(list)
    BY <1>2 DEF EndsOf
  <2>2. at = SplitAt(list, d, end)
    BY <1>4 DEF SplitAt
  <2>3. r = Insertion(list, d, at, left)
    BY <1>0, <1>4, <2>1, <2>2, InsertDescParts
  <2>4. Insertion(list, d, at, left) = InsertAt(s, at, e)
    BY <1>11 DEF Insertion
  <2> QED
    BY <2>3, <2>4
<1>16. /\ r \in Seq(Entries(A)) /\ Len(r) = n + 1 /\ r[at] = e
       /\ \A k \in 1 .. n : r[IF k < at THEN k ELSE k + 1] = s[k]
  <2>1. PICK E : E = Entries(A)
    OBVIOUS
  <2>2. s \in Seq(E) /\ at \in 1 .. (Len(s) + 1) /\ e \in E
    BY <1>6, <1>12, <1>14, <2>1
  <2>3. Inserted(r, s, at, e, E)
    BY <1>15, <2>2, InsertAtFacts
  <2> QED
    BY <1>14, <2>1, <2>3 DEF Inserted
<1>17. \A k \in 1 .. n : \E j \in 1 .. (n + 1) : r[j].app = list[k].app
  <2> TAKE k \in 1 .. n
  <2>1. PICK j : j = IF k < at THEN k ELSE k + 1
    OBVIOUS
  <2>2. j \in 1 .. (n + 1)
    BY <1>1, <2>1
  <2>3. r[j] = s[k]
    BY <1>16, <2>1
  <2> QED
    BY <1>13, <2>2, <2>3
<1> QED
  BY <1>0, <1>1, <1>6, <1>12, <1>16, <1>17 DEF DescIn

\* The first element of the pool.
LEMMA PoolHead ==
  ASSUME NEW A, PoolOK(pool, A), Cardinality(A) \in Nat \ {0}
  PROVE  /\ Head(pool) = pool[1] /\ Head(pool) \in Entries(A) /\ NextTransition = pool[1].remaining
         /\ NextTransition \in Nat /\ Head(pool).app \in A
         /\ Len(pool) \in Nat \ {0} /\ DOMAIN pool = 1 .. Len(pool)
<1>1. PICK E : E = Entries(A)
  OBVIOUS
<1>2. pool \in Seq(E) /\ Len(pool) \in Nat \ {0}
  BY <1>1 DEF PoolOK
<1>3. Head(pool) = pool[1] /\ pool[1] \in E /\ DOMAIN pool = 1 .. Len(pool)
  BY <1>2
<1>4. pool[1].remaining \in Nat /\ pool[1].app \in A
  BY <1>1, <1>3 DEF Entries
<1> QED
  BY <1>1, <1>2, <1>3, <1>4 DEF NextTransition

\* Time passes, up to the next transition.
LEMMA AdvanceTimeFacts ==
  ASSUME NEW A, PoolOK(pool, A), Cardinality(A) \in Nat \ {0}, NEW t \in Nat, t <= NextTransition
  PROVE  PoolOK(AdvanceTime(t), A)
<1>1. PICK E, p, n : E = Entries(A) /\ p = AdvanceTime(t) /\ n = Len(pool)
  OBVIOUS
<1>2. /\ n \in Nat \ {0} /\ DOMAIN pool = 1 .. n /\ pool[1] \in E /\ pool[1].remaining \in Nat
      /\ t <= pool[1].remaining /\ pool \in Seq(E)
  BY <1>1, PoolHead DEF PoolOK
<1>3. p = [pool EXCEPT ![1].remaining = @ - t]
  BY <1>1 DEF AdvanceTime
<1>4. \A k \in 1 .. n : pool[k] \in E
  BY <1>2
<1>5. \A k \in 1 .. n : p[k] \in E /\ p[k].app = pool[k].app
  <2> TAKE k \in 1 .. n
  <2>1. CASE k = 1
    <3>1. p[k] = [pool[1] EXCEPT !.remaining = @ - t]
      BY <1>2, <1>3, <2>1
    <3>2. pool[1].remaining - t \in Nat
      BY <1>2
    <3> QED
      BY <2>1, <3>1, <3>2, <1>1, <1>2 DEF Entries
  <2>2. CASE k # 1
    BY <1>2, <1>3, <1>4, <2>2
  <2> QED
    BY <2>1, <2>2
<1>6. DOMAIN p = 1 .. n /\ p = [k \in DOMAIN p |-> p[k]]
  BY <1>2, <1>3
<1>7. p \in [1 .. n -> E]
  BY <1>5, <1>6
<1>8. p \in Seq(E) /\ Len(p) = n
  BY <1>2, <1>7
<1>9. n = Cardinality(A) /\ \A a \in A : \E k \in 1 .. n : pool[k].app = a
  BY <1>1 DEF PoolOK
<1>10. \A a \in A : \E k \in 1 .. n : p[k].app = a
  BY <1>5, <1>9
<1> QED
  BY <1>1, <1>8, <1>9, <1>10 DEF PoolOK

\* The first app of the pool is put back with its next period.
LEMMA AdvancePoolFacts ==
  ASSUME NEW A, PoolOK(pool, A), Cardinality(A) \in Nat \ {0}, NEW pos,
         pos[Head(pool).app].period[pos[Head(pool).app].index] \in Nat
  PROVE  PoolOK(AdvancePool(pos), A)
<1>1. PICK E, s, n, d, r, list :
        /\ E = Entries(A) /\ s = Head(pool) /\ n = Len(pool) /\ list = Tail(pool)
        /\ d = [s EXCEPT !.remaining = @ + pos[s.app].period[pos[s.app].index]]
        /\ r = AdvancePool(pos)
  OBVIOUS
<1>2. n \in Nat \ {0} /\ DOMAIN pool = 1 .. n /\ s = pool[1] /\ s \in E /\ pool \in Seq(E)
  BY <1>1, PoolHead DEF PoolOK
<1>3. d \in E /\ d.app = s.app
  <2>1. s.remaining \in Nat /\ s.app \in A
    BY <1>1, <1>2 DEF Entries
  <2>2. PICK x \in Nat : x = pos[s.app].period[pos[s.app].index]
    BY <1>1
  <2>3. s.remaining + x \in Nat
    BY <2>1
  <2> QED
    BY <1>1, <1>2, <2>1, <2>2, <2>3 DEF Entries
<1>4. list \in Seq(E) /\ Len(list) = n - 1 /\ \A k \in 1 .. (n - 1) : list[k] = pool[k + 1]
  <2>1. pool # <<>>
    BY <1>1, <1>2
  <2>2. /\ list \in Seq(E) /\ Len(list) = Len(pool) - 1
        /\ \A k \in 1 .. Len(list) : list[k] = pool[k + 1]
    BY <1>1, <1>2, <2>1, HeadTailProperties
  <2> QED
    BY <1>1, <2>2
<1>5. r = InsertDesc(list, d)
  BY <1>1 DEF AdvancePool
<1>6. /\ r \in Seq(Entries(A)) /\ Len(r) = Len(list) + 1
      /\ \E j \in 1 .. Len(r) : r[j].app = d.app
      /\ \A k \in 1 .. Len(list) : \E j \in 1 .. Len(r) : r[j].app = list[k].app
  <2>1. list \in Seq(Entries(A)) /\ d \in Entries(A)
    BY <1>1, <1>3, <1>4
  <2>2. DescIn(r, list, d, A)
    BY <1>5, <2>1, InsertDescFacts
  <2> QED
    BY <2>2 DEF DescIn
<1>7. Len(r) = n
  BY <1>2, <1>4, <1>6
<1>8. n = Cardinality(A) /\ \A a \in A : \E k \in 1 .. n : pool[k].app = a
  BY <1>1 DEF PoolOK
<1>9. ASSUME NEW a \in A PROVE \E j \in 1 .. n : r[j].app = a
  <2>1. PICK k \in 1 .. n : pool[k].app = a
    BY <1>8
  <2>2. CASE k = 1
    BY <1>2, <1>3, <1>6, <1>7, <2>1, <2>2
  <2>3. CASE k # 1
    <3>1. k - 1 \in 1 .. (n - 1) /\ (k - 1) + 1 = k
      BY <1>2, <2>3
    <3>2. list[k - 1] = pool[k]
      BY <1>4, <3>1
    <3>3. \E j \in 1 .. n : r[j].app = list[k - 1].app
      BY <1>4, <1>6, <1>7, <3>1
    <3> QED
      BY <2>1, <3>2, <3>3
  <2> QED
    BY <2>2, <2>3
<1> QED
  BY <1>1, <1>6, <1>7, <1>8, <1>9 DEF PoolOK

\* The order of the entries when the pool is made.
Sooner(x, y) == x.remaining < y.remaining \/ (x.remaining = y.remaining /\ x.app < y.app)

\* The order of the pool is total.
LEMMA SoonerIf ==
  ASSUME NEW y \in [app : Nat, remaining : Nat], NEW m \in [app : Nat, remaining : Nat], y # m,
         y.remaining <= m.remaining, y.remaining = m.remaining => y.app <= m.app
  PROVE  Sooner(y, m)
<1>1. PICK a \in Nat, b \in Nat, c \in Nat, d \in Nat :
        a = y.app /\ b = y.remaining /\ c = m.app /\ d = m.remaining
  OBVIOUS
<1>2. y = [app |-> a, remaining |-> b] /\ m = [app |-> c, remaining |-> d]
  BY <1>1
<1>3. ~ (a = c /\ b = d)
  BY <1>2
<1>4. b <= d /\ (b = d => a <= c)
  BY <1>1
<1>5. b < d \/ (b = d /\ a < c)
  BY <1>3, <1>4
<1> QED
  BY <1>1, <1>5 DEF Sooner

\* The entries, from the first to the last to end.
LEMMA SoonerOrder ==
  ASSUME NEW E \in SUBSET [app : Nat, remaining : Nat], IsFiniteSet(E), NEW s,
         s = SortedBy(E, LAMBDA x, y : \/ x.remaining < y.remaining
                                       \/ x.remaining = y.remaining /\ x.app < y.app)
  PROVE  s \in [1 .. Cardinality(E) -> E] /\ \A i, j \in DOMAIN s : i < j => Sooner(s[i], s[j])
<1>1. PICK R : R = {p \in E \X E : Sooner(p[1], p[2])}
  OBVIOUS
<1>2. ASSUME NEW T \in SUBSET E, T # {} PROVE \E m \in T : \A y \in T \ {m} : <<y, m>> \in R
  <2>1. IsFiniteSet(T) /\ \A x \in T : x.remaining \in Nat /\ x.app \in Nat
    BY FS_Subset
  <2>2. PICK h : h = [x \in T |-> x.remaining]
    OBVIOUS
  <2>3. PICK V : V = {h[x] : x \in T}
    OBVIOUS
  <2>4. IsFiniteSet(V) /\ V # {} /\ V \in SUBSET Nat
    <3>1. IsFiniteSet(T)
      BY <2>1
    <3>2. IsFiniteSet({h[x] : x \in T})
      BY <3>1, FiniteImage
    <3> QED
      BY <1>2, <2>1, <2>2, <2>3, <3>2
  <2>5. PICK v \in V : \A u \in V : u <= v
    BY <2>4, NatMax
  <2>6. PICK U : U = {x \in T : x.remaining = v}
    OBVIOUS
  <2>7. PICK g : g = [x \in U |-> x.app]
    OBVIOUS
  <2>8. PICK W : W = {g[x] : x \in U}
    OBVIOUS
  <2>9. IsFiniteSet(U) /\ U # {} /\ \A x \in U : x.app \in Nat
    BY <2>1, <2>2, <2>3, <2>6, FS_Subset
  <2>10. IsFiniteSet(W) /\ W # {} /\ W \in SUBSET Nat
    <3>1. IsFiniteSet(U)
      BY <2>9
    <3>2. IsFiniteSet({g[x] : x \in U})
      BY <3>1, FiniteImage
    <3> QED
      BY <2>7, <2>8, <2>9, <3>2
  <2>11. PICK w \in W : \A u \in W : u <= w
    BY <2>10, NatMax
  <2>12. PICK m \in U : m.app = w
    BY <2>7, <2>8
  <2>13. ASSUME NEW y \in T \ {m} PROVE Sooner(y, m)
    <3>1. /\ y.remaining \in Nat /\ m.remaining = v /\ y.remaining <= v /\ v \in Nat
          /\ y.app \in Nat /\ m.app \in Nat /\ m \in T
      <4>1. m \in T /\ y \in T /\ m.remaining = v
        BY <2>6
      <4>2. y.remaining \in V /\ v \in Nat
        BY <2>2, <2>3, <2>4, <4>1
      <4> QED
        BY <2>1, <2>5, <4>1, <4>2
    <3>2. y.remaining = m.remaining => y.app <= m.app
      <4> HAVE y.remaining = m.remaining
      <4>1. y \in U
        BY <2>6, <3>1
      <4> QED
        BY <4>1, <2>7, <2>8, <2>11, <2>12
    <3>3. /\ y \in [app : Nat, remaining : Nat] /\ m \in [app : Nat, remaining : Nat] /\ y # m
          /\ y.remaining <= m.remaining
      BY <3>1
    <3> QED
      BY <3>2, <3>3, SoonerIf
  <2>14. m \in T
    BY <2>6
  <2> QED
    BY <1>1, <2>13, <2>14
<1>3. PICK t \in [1 .. Cardinality(E) -> E] : \A i, j \in DOMAIN t : i < j => <<t[i], t[j]>> \in R
  BY <1>2, OrderExists
<1>4. \A i, j \in DOMAIN t : i < j => Sooner(t[i], t[j])
  BY <1>1, <1>3
<1>5. s = CHOOSE q \in [1 .. Cardinality(E) -> E] : \A i, j \in DOMAIN q : i < j => Sooner(q[i], q[j])
  BY DEF SortedBy, Sooner
<1> QED
  BY <1>3, <1>4, <1>5

\* The pool made from the first periods has all the apps.
LEMMA AppPoolFacts ==
  ASSUME NEW n \in Nat, NEW pos, DOMAIN pos = 1 .. n,
         \A a \in 1 .. n : pos[a].period[pos[a].index] \in Nat
  PROVE  PoolOK(AppPool(pos), 1 .. n)
<1>1. PICK A, g : A = 1 .. n /\ g = [a \in A |-> [app |-> a, remaining |-> pos[a].period[pos[a].index]]]
  OBVIOUS
<1>2. PICK E : E = {[app |-> a, remaining |-> pos[a].period[pos[a].index]] : a \in DOMAIN pos}
  OBVIOUS
<1>3. \A a \in A : g[a] \in Entries(A) /\ g[a].app = a
  BY <1>1 DEF Entries
<1>4. E = {g[a] : a \in A}
  BY <1>1, <1>2
<1>5. E \in SUBSET Entries(A) /\ A \in SUBSET Nat
  BY <1>1, <1>3, <1>4
<1>6. IsFiniteSet(A) /\ Cardinality(A) = n /\ IsFiniteSet(E)
  <2>1. IsFiniteSet(A) /\ Cardinality(A) = n
    BY <1>1, FS_Interval
  <2>2. IsFiniteSet({g[a] : a \in A})
    BY <2>1, FiniteImage
  <2> QED
    BY <1>4, <2>1, <2>2
<1>7. Cardinality(E) = n
  <2>1. g \in [A -> E] /\ \A a, b \in A : g[a] = g[b] => a = b
    <3>1. g \in [A -> E]
      BY <1>1, <1>4
    <3>2. ASSUME NEW a \in A, NEW b \in A, g[a] = g[b] PROVE a = b
      BY <1>3, <3>2
    <3> QED
      BY <3>1, <3>2
  <2>2. \A x \in E : \E a \in A : g[a] = x
    BY <1>4
  <2>3. g \in Bijection(A, E)
    BY <2>1, <2>2 DEF Bijection, Injection, IsInjective, Surjection
  <2> QED
    BY <1>6, <2>3, FS_Bijection DEF ExistsBijection
<1>8. PICK s : s = SortedBy(E, LAMBDA x, y : \/ x.remaining < y.remaining
                                             \/ x.remaining = y.remaining /\ x.app < y.app)
  OBVIOUS
<1>9. s \in [1 .. n -> E] /\ \A i, j \in DOMAIN s : i < j => Sooner(s[i], s[j])
  <2>1. E \in SUBSET [app : Nat, remaining : Nat]
    BY <1>5 DEF Entries
  <2> QED
    BY <1>6, <1>7, <1>8, <2>1, SoonerOrder
<1>10. \A i \in 1 .. n : s[i] \in Entries(A) /\ s[i].app \in Nat /\ s[i].remaining \in Nat
  <2> TAKE i \in 1 .. n
  <2>1. s[i] \in Entries(A)
    BY <1>5, <1>9
  <2> QED
    BY <1>1, <2>1 DEF Entries
<1>11. \A x \in E : \E i \in 1 .. n : s[i] = x
  <2>1. \A i, j \in DOMAIN s : i < j => s[i] # s[j]
    BY <1>9, <1>10 DEF Sooner
  <2>2. PICK m : m = Cardinality(E) /\ s \in [1 .. Cardinality(E) -> E]
    BY <1>7, <1>9
  <2>3. \A x \in E : \E i \in DOMAIN s : s[i] = x
    BY <1>6, <2>1, <2>2, EnumerationFacts
  <2> QED
    BY <1>9, <2>3
<1>12. PICK p : p = AppPool(pos)
  OBVIOUS
<1>13. p = [k \in DOMAIN s |-> IF k = 1 THEN s[1]
                               ELSE [s[k] EXCEPT !.remaining = @ - s[k - 1].remaining]]
  BY <1>2, <1>8, <1>12 DEF AppPool, Differential
<1>14. \A k \in 1 .. n : p[k] \in Entries(A) /\ p[k].app = s[k].app
  <2> TAKE k \in 1 .. n
  <2>1. CASE k = 1
    BY <1>9, <1>10, <1>13, <2>1
  <2>2. CASE k # 1
    <3>1. k - 1 \in 1 .. n /\ k - 1 < k
      BY <2>2
    <3>2. Sooner(s[k - 1], s[k])
      BY <1>9, <3>1
    <3>3. s[k].remaining \in Nat /\ s[k - 1].remaining \in Nat
      BY <1>10, <3>1
    <3>4. s[k - 1].remaining <= s[k].remaining
      BY <3>2, <3>3 DEF Sooner
    <3>5. s[k].remaining - s[k - 1].remaining \in Nat
      BY <3>3, <3>4
    <3>6. p[k] = [s[k] EXCEPT !.remaining = @ - s[k - 1].remaining]
      BY <1>9, <1>13, <2>2
    <3> QED
      BY <1>10, <3>5, <3>6 DEF Entries
  <2> QED
    BY <2>1, <2>2
<1>15. p \in [1 .. n -> Entries(A)]
  BY <1>9, <1>13, <1>14
<1>16. p \in Seq(Entries(A)) /\ Len(p) = n
  BY <1>15
<1>17. ASSUME NEW a \in A PROVE \E k \in 1 .. n : p[k].app = a
  <2>1. g[a] \in E
    BY <1>4
  <2>2. PICK k \in 1 .. n : s[k] = g[a]
    BY <1>11, <2>1
  <2> QED
    BY <1>3, <1>14, <2>2
<1> QED
  BY <1>1, <1>6, <1>12, <1>16, <1>17 DEF PoolOK

-----------------------------------------------------------------------------
(***************************************************************************)
(* The migration of an app.                                                *)
(***************************************************************************)
\* A set gains an element, and a sum its term.
LEMMA TotalGain ==
  ASSUME NEW S, IsFiniteSet(S), NEW f, NEW g, NEW z, z \notin S, g[z] \in Nat,
         \A x \in S : f[x] \in Nat, \A x \in S : g[x] = f[x]
  PROVE  Total(g, S \cup {z}) = Total(f, S) + g[z]
<1>1. \A x \in S : g[x] \in Nat
  OBVIOUS
<1>2. Total(g, S \cup {z}) = g[z] + Total(g, S)
  BY <1>1, TotalAdd
<1>3. Total(g, S) = Total(f, S)
  BY TotalSame
<1>4. Total(f, S) \in Nat
  BY TotalNat
<1> QED
  BY <1>2, <1>3, <1>4

Less(g, R, f, S, v) == Total(g, R) = Total(f, S) - v

\* A set loses an element, and a sum its term.
LEMMA TotalLoss ==
  ASSUME NEW S, IsFiniteSet(S), NEW f, NEW g, NEW z \in S,
         \A x \in S : f[x] \in Nat, Agree(g, f, S \ {z})
  PROVE  Less(g, S \ {z}, f, S, f[z])
<1>1. PICK R : R = S \ {z}
  OBVIOUS
<1>2. IsFiniteSet(R) /\ (\A x \in R : g[x] = f[x]) /\ (\A x \in R : f[x] \in Nat) /\ f[z] \in Nat
  BY <1>1, FS_Subset DEF Agree
<1>3. Total(f, S) = f[z] + Total(f, R)
  BY <1>1, TotalRemove
<1>4. Total(g, R) = Total(f, R)
  BY <1>2, TotalSame
<1>5. Total(f, R) \in Nat
  BY <1>2, TotalNat
<1> QED
  BY <1>1, <1>2, <1>3, <1>4, <1>5 DEF Less

\* The costs of an app are numbers.
LEMMA CostsNat ==
  ASSUME AppsOK, NEW x \in AppSet
  PROVE  /\ MuCostOf(x) \in Nat
         /\ x.weights \in [Edges -> Nat] => LambdaCostOf(x) \in Nat
         /\ networkCost[x.broker] \in [Edges -> Nat]
<1>1. PICK n : n = networkCost[x.broker]
  OBVIOUS
<1>2. n \in [Edges -> Nat]
  BY <1>1 DEF AppsOK, AppSet
<1>3. MuCostOf(x) \in Nat
  BY <1>1, <1>2 DEF MuCostOf, AppSet
<1>4. ASSUME x.weights \in [Edges -> Nat] PROVE LambdaCostOf(x) \in Nat
  <2>1. PICK w \in [Edges -> Nat] : w = x.weights
    BY <1>4
  <2>2. PICK g : g = [e \in Edges |-> n[e] * w[e]]
    OBVIOUS
  <2>3. \A e \in Edges : g[e] \in Nat
    <3> TAKE e \in Edges
    <3>1. PICK p \in Nat, q \in Nat : p = n[e] /\ q = w[e]
      BY <1>2
    <3>2. p * q \in Nat
      OBVIOUS
    <3> QED
      BY <2>2, <3>1, <3>2
  <2>4. Total(g, Edges) \in Nat
    BY <2>3, EdgesFacts, TotalNat
  <2> QED
    BY <1>1, <2>1, <2>2, <2>4 DEF LambdaCostOf
<1> QED
  BY <1>1, <1>2, <1>3, <1>4

\* All requests sent to the cloud.
LEMMA CloudWeights ==
  ASSUME NEW r \in Nat, NEW n \in [Edges -> Nat], NEW w,
         w = [d \in Edges |-> IF d = CLOUD THEN r ELSE 0]
  PROVE  /\ w \in [Edges -> Nat] /\ Total(w, Edges) = r
         /\ Total([e \in Edges |-> n[e] * w[e]], Edges) = n[CLOUD] * r
<1>1. w \in [Edges -> Nat]
  OBVIOUS
<1>2. PICK R : R = Edges \ {CLOUD}
  OBVIOUS
<1>3. IsFiniteSet(Edges) /\ IsFiniteSet(R) /\ CLOUD \in Edges
  BY <1>2, EdgesFacts, FS_Subset
<1>4. \A e \in R : w[e] = 0
  BY <1>2
<1>5. Total(w, R) = 0
  BY <1>3, <1>4, TotalZero
<1>6. Total(w, Edges) = w[CLOUD] + Total(w, R)
  <2>1. \A e \in Edges : w[e] \in Nat
    BY <1>1
  <2> QED
    BY <1>2, <1>3, <2>1, TotalRemove
<1>7. w[CLOUD] = r
  BY <1>3
<1>8. PICK g : g = [e \in Edges |-> n[e] * w[e]]
  OBVIOUS
<1>9. \A e \in R : g[e] = 0
  <2> TAKE e \in R
  <2>1. PICK p \in Nat : p = n[e]
    BY <1>2
  <2>2. p * 0 = 0
    OBVIOUS
  <2> QED
    BY <1>2, <1>4, <1>8, <2>1, <2>2
<1>10. g[CLOUD] = n[CLOUD] * r /\ n[CLOUD] * r \in Nat
  <2>1. PICK p \in Nat : p = n[CLOUD]
    BY <1>3
  <2>2. p * r \in Nat
    OBVIOUS
  <2> QED
    BY <1>3, <1>7, <1>8, <2>1, <2>2
<1>11. Total(g, R) = 0
  BY <1>3, <1>9, TotalZero
<1>12. \A e \in Edges : g[e] \in Nat
  BY <1>2, <1>9, <1>10
<1>13. Total(g, Edges) = g[CLOUD] + Total(g, R)
  BY <1>2, <1>3, <1>12, TotalRemove
<1> QED
  BY <1>1, <1>5, <1>6, <1>7, <1>8, <1>10, <1>11, <1>13

\* One app a is replaced by x.
Replaced(bs, a, x) == bs = [b \in Apps |-> IF b = a THEN x ELSE apps[b]]

\* The apps of a type after one is replaced.
LEMMA ReplacedTypes ==
  ASSUME AppsOK, NEW a \in Apps, NEW x, NEW bs, Replaced(bs, a, x), NEW t
  PROVE  OfType(bs, t) = IF x.type = t THEN OfType(apps, t) \cup {a} ELSE OfType(apps, t) \ {a}
<1>1. \A b : b \in OfType(bs, t) <=> b \in Apps /\ (IF b = a THEN x.type = t ELSE apps[b].type = t)
  BY DEF OfType, Replaced
<1>2. \A b : b \in OfType(apps, t) <=> b \in Apps /\ apps[b].type = t
  BY DEF OfType, Apps
<1> QED
  BY <1>1, <1>2

\* The costs that are added and subtracted are those of the app.
LEMMA CostsToMu ==
  ASSUME AppsOK, CostsFor(apps, costs), NEW a \in Apps, apps[a].type = "lambda",
         \A b \in Apps : apps[b].type = "lambda" => apps[b].weights \in [Edges -> Nat],
         NEW x \in AppSet, x.type = "mu", UnitApp(x) => UnitApp(apps[a]),
         NEW bs, Replaced(bs, a, x), NEW cst,
         cst.mu = costs.mu + MuCostOf(x), cst.lambda = costs.lambda - LambdaCostOf(apps[a])
  PROVE  CostsFor(bs, cst)
<1>1. PICK L, M : L = OfType(apps, "lambda") /\ M = OfType(apps, "mu")
  OBVIOUS
<1>2. OfType(bs, "mu") = M \cup {a} /\ OfType(bs, "lambda") = L \ {a}
  BY <1>1, ReplacedTypes
<1>3. /\ a \in L /\ a \notin M /\ IsFiniteSet(L) /\ IsFiniteSet(M)
      /\ \A b \in L \ {a} : bs[b] = apps[b] /\ b \in Apps
      /\ \A b \in M : bs[b] = apps[b] /\ b \in Apps
      /\ \A b \in L : b \in Apps /\ apps[b].type = "lambda"
  <2>1. IsFiniteSet(L) /\ IsFiniteSet(M)
    BY <1>1, AppFacts
  <2> QED
    BY <1>1, <2>1 DEF OfType, Apps, Replaced
<1> SUFFICES ASSUME AllUnit(bs)
             PROVE  /\ cst.mu = Total([b \in OfType(bs, "mu") |-> MuCostOf(bs[b])], OfType(bs, "mu"))
                    /\ cst.lambda = Total([b \in OfType(bs, "lambda") |-> LambdaCostOf(bs[b])],
                                          OfType(bs, "lambda"))
  BY DEF CostsFor
<1>4. AllUnit(apps)
  <2>1. ASSUME NEW b \in Apps
        PROVE  UnitApp(apps[b]) /\ (apps[b].type = "lambda" => apps[b].weights # <<>>)
    <3>1. apps[b].type = "lambda" => apps[b].weights # <<>>
      <4> HAVE apps[b].type = "lambda"
      <4>1. DOMAIN apps[b].weights = Edges /\ Edges # {}
        BY EdgesFacts
      <4> QED
        BY <4>1
    <3>2. UnitApp(bs[b])
      BY <2>1 DEF AllUnit, Replaced
    <3>3. UnitApp(apps[b])
      BY <3>2 DEF Replaced
    <3> QED
      BY <3>1, <3>3
  <2> QED
    BY <2>1 DEF AllUnit, Apps
<1>5. PICK f, g, h, k : /\ f = [b \in M |-> MuCostOf(apps[b])]
                        /\ g = [b \in M \cup {a} |-> MuCostOf(bs[b])]
                        /\ h = [b \in L |-> LambdaCostOf(apps[b])]
                        /\ k = [b \in L \ {a} |-> LambdaCostOf(bs[b])]
  OBVIOUS
<1>6. costs.mu = Total(f, M) /\ costs.lambda = Total(h, L)
  BY <1>1, <1>4, <1>5 DEF CostsFor
<1>7. Total(g, M \cup {a}) = Total(f, M) + g[a]
  <2>1. \A b \in M : f[b] \in Nat
    <3> TAKE b \in M
    <3>1. apps[b] \in AppSet
      BY <1>3, AppFacts
    <3> QED
      BY <1>5, <3>1, CostsNat
  <2>2. \A b \in M : g[b] = f[b]
    BY <1>3, <1>5
  <2>3. g[a] \in Nat
    BY <1>5, CostsNat DEF Replaced
  <2> QED
    BY <1>3, <2>1, <2>2, <2>3, TotalGain
<1>8. g[a] = MuCostOf(x)
  BY <1>5 DEF Replaced
<1>9. Total(k, L \ {a}) = Total(h, L) - h[a]
  <2>1. \A b \in L : h[b] \in Nat
    <3> TAKE b \in L
    <3>1. apps[b] \in AppSet /\ apps[b].weights \in [Edges -> Nat]
      BY <1>3, AppFacts
    <3> QED
      BY <1>5, <3>1, CostsNat
  <2>2. Agree(k, h, L \ {a})
    BY <1>3, <1>5 DEF Agree
  <2> QED
    <3>1. IsFiniteSet(L) /\ a \in L
      BY <1>3
    <3>2. Less(k, L \ {a}, h, L, h[a])
      BY <2>1, <2>2, <3>1, TotalLoss
    <3> QED
      BY <3>2 DEF Less
<1>10. h[a] = LambdaCostOf(apps[a])
  BY <1>3, <1>5
<1> QED
  BY <1>2, <1>5, <1>6, <1>7, <1>8, <1>9, <1>10

\* The same for an app that goes back to lambda.
LEMMA CostsToLambda ==
  ASSUME AppsOK, CostsFor(apps, costs), NEW a \in Apps, apps[a].type = "mu",
         \A b \in Apps : apps[b].type = "lambda" => apps[b].weights \in [Edges -> Nat],
         NEW x \in AppSet, x.type = "lambda", x.weights \in [Edges -> Nat],
         UnitApp(x) => UnitApp(apps[a]),
         NEW bs, Replaced(bs, a, x), NEW cst,
         cst.mu = costs.mu - MuCostOf(apps[a]), cst.lambda = costs.lambda + LambdaCostOf(x)
  PROVE  CostsFor(bs, cst)
<1>1. PICK L, M : L = OfType(apps, "lambda") /\ M = OfType(apps, "mu")
  OBVIOUS
<1>2. OfType(bs, "mu") = M \ {a} /\ OfType(bs, "lambda") = L \cup {a}
  BY <1>1, ReplacedTypes
<1>3. /\ a \in M /\ a \notin L /\ IsFiniteSet(L) /\ IsFiniteSet(M)
      /\ \A b \in M \ {a} : bs[b] = apps[b] /\ b \in Apps
      /\ \A b \in L : bs[b] = apps[b] /\ b \in Apps /\ apps[b].type = "lambda"
      /\ \A b \in M : b \in Apps
  <2>1. IsFiniteSet(L) /\ IsFiniteSet(M)
    BY <1>1, AppFacts
  <2> QED
    BY <1>1, <2>1 DEF OfType, Apps, Replaced
<1> SUFFICES ASSUME AllUnit(bs)
             PROVE  /\ cst.mu = Total([b \in OfType(bs, "mu") |-> MuCostOf(bs[b])], OfType(bs, "mu"))
                    /\ cst.lambda = Total([b \in OfType(bs, "lambda") |-> LambdaCostOf(bs[b])],
                                          OfType(bs, "lambda"))
  BY DEF CostsFor
<1>4. AllUnit(apps)
  <2>1. ASSUME NEW b \in Apps
        PROVE  UnitApp(apps[b]) /\ (apps[b].type = "lambda" => apps[b].weights # <<>>)
    <3>1. apps[b].type = "lambda" => apps[b].weights # <<>>
      <4> HAVE apps[b].type = "lambda"
      <4>1. DOMAIN apps[b].weights = Edges /\ Edges # {}
        BY EdgesFacts
      <4> QED
        BY <4>1
    <3>2. UnitApp(bs[b])
      BY <2>1 DEF AllUnit, Replaced
    <3>3. UnitApp(apps[b])
      BY <3>2 DEF Replaced
    <3> QED
      BY <3>1, <3>3
  <2> QED
    BY <2>1 DEF AllUnit, Apps
<1>5. PICK f, g, h, k : /\ f = [b \in M |-> MuCostOf(apps[b])]
                        /\ g = [b \in M \ {a} |-> MuCostOf(bs[b])]
                        /\ h = [b \in L |-> LambdaCostOf(apps[b])]
                        /\ k = [b \in L \cup {a} |-> LambdaCostOf(bs[b])]
  OBVIOUS
<1>6. costs.mu = Total(f, M) /\ costs.lambda = Total(h, L)
  BY <1>1, <1>4, <1>5 DEF CostsFor
<1>7. Total(g, M \ {a}) = Total(f, M) - f[a]
  <2>1. \A b \in M : f[b] \in Nat
    <3> TAKE b \in M
    <3>1. apps[b] \in AppSet
      BY <1>3, AppFacts
    <3> QED
      BY <1>5, <3>1, CostsNat
  <2>2. Agree(g, f, M \ {a})
    BY <1>3, <1>5 DEF Agree
  <2> QED
    <3>1. IsFiniteSet(M) /\ a \in M
      BY <1>3
    <3>2. Less(g, M \ {a}, f, M, f[a])
      BY <2>1, <2>2, <3>1, TotalLoss
    <3> QED
      BY <3>2 DEF Less
<1>8. f[a] = MuCostOf(apps[a])
  BY <1>3, <1>5
<1>9. Total(k, L \cup {a}) = Total(h, L) + k[a]
  <2>1. \A b \in L : h[b] \in Nat
    <3> TAKE b \in L
    <3>1. apps[b] \in AppSet /\ apps[b].weights \in [Edges -> Nat]
      BY <1>3, AppFacts
    <3> QED
      BY <1>5, <3>1, CostsNat
  <2>2. \A b \in L : k[b] = h[b]
    BY <1>3, <1>5
  <2>3. k[a] \in Nat
    BY <1>5, CostsNat DEF Replaced
  <2> QED
    <3>1. IsFiniteSet(L) /\ a \notin L
      BY <1>3
    <3> QED
      BY <2>1, <2>2, <2>3, <3>1, TotalGain
<1>10. k[a] = LambdaCostOf(x)
  BY <1>5 DEF Replaced
<1> QED
  BY <1>2, <1>5, <1>6, <1>7, <1>8, <1>9, <1>10

\* A list without repetitions: its elements and length.
Once(t, S, R, n) == t \in Seq(S) /\ ToSet(t) = R /\ Len(t) = n /\ Len(t) = Cardinality(ToSet(t))

\* A list without repetitions, from which an element is left out.
LEMMA LeftOut ==
  ASSUME NEW S, NEW s \in Seq(S), Len(s) = Cardinality(ToSet(s)), NEW a \in ToSet(s), NEW t,
         t = Selected(s, {k \in DOMAIN s : s[k] # a})
  PROVE  Once(t, S, ToSet(s) \ {a}, Len(s) - 1)
<1>1. PICK n \in Nat : n = Len(s) /\ DOMAIN s = 1 .. n
  OBVIOUS
<1>2. PICK T, K : T = ToSet(s) /\ K = {k \in DOMAIN s : s[k] # a}
  OBVIOUS
<1>3. s \in Surjection(1 .. n, T)
  <2>1. T = {s[k] : k \in 1 .. n}
    BY <1>1, <1>2 DEF ToSet
  <2>2. s \in [1 .. n -> S]
    BY <1>1
  <2>3. s \in [1 .. n -> T]
    BY <2>1, <2>2
  <2>4. \A x \in T : \E k \in 1 .. n : s[k] = x
    BY <2>1
  <2> QED
    BY <2>3, <2>4 DEF Surjection
<1>4. IsFiniteSet(1 .. n) /\ Cardinality(1 .. n) = n
  BY <1>1, FS_Interval
<1>5. IsFiniteSet(T) /\ s \in Injection(1 .. n, T)
  BY <1>1, <1>2, <1>3, <1>4, FS_Surjection
<1>6. PICK p \in 1 .. n : s[p] = a
  BY <1>1 DEF ToSet
<1>7. \A k \in 1 .. n : s[k] = a => k = p
  BY <1>5, <1>6 DEF Injection, IsInjective
<1>8. K = (1 .. n) \ {p}
  BY <1>1, <1>2, <1>6, <1>7
<1>9. Cardinality(K) = n - 1
  BY <1>4, <1>8, FS_RemoveElement
<1>10. IsList(s) /\ K \in SUBSET DOMAIN s
  BY <1>1, <1>2 DEF IsList
<1>11. /\ IsList(t) /\ Len(t) = n - 1
       /\ \A k \in DOMAIN t : \E j \in K : t[k] = s[j]
       /\ \A j \in K : \E k \in DOMAIN t : t[k] = s[j]
  <2>1. t = Selected(s, K)
    BY <1>2
  <2>2. PICK q : q = Selected(s, K)
    OBVIOUS
  <2>3. /\ IsList(Selected(s, K)) /\ Len(Selected(s, K)) = Cardinality(K)
        /\ \A k \in DOMAIN Selected(s, K) : \E j \in K : Selected(s, K)[k] = s[j]
        /\ \A j \in K : \E k \in DOMAIN Selected(s, K) : Selected(s, K)[k] = s[j]
    BY <1>10, SelectedFacts
  <2> QED
    BY <1>9, <2>1, <2>3
<1>12. DOMAIN t = 1 .. (n - 1) /\ n - 1 \in Nat
  BY <1>11 DEF IsList
<1>13. ToSet(t) = T \ {a}
  <2>1. ToSet(t) = {t[k] : k \in DOMAIN t} /\ T = {s[k] : k \in DOMAIN s}
    BY <1>2 DEF ToSet
  <2>2. \A x : x \in ToSet(t) => x \in T \ {a}
    BY <1>2, <1>11, <2>1
  <2>3. ASSUME NEW x \in T \ {a} PROVE x \in ToSet(t)
    <3>1. PICK j \in DOMAIN s : s[j] = x
      BY <2>1
    <3>2. j \in K
      BY <1>2, <3>1
    <3> QED
      BY <1>11, <2>1, <3>1, <3>2
  <2> QED
    BY <2>2, <2>3
<1>14. t \in Seq(S)
  <2>1. \A k \in DOMAIN t : t[k] \in S
    <3>1. \A j \in K : s[j] \in S
      BY <1>1, <1>2
    <3> QED
      BY <1>11, <3>1
  <2>2. t = [k \in DOMAIN t |-> t[k]]
    BY DEF Selected
  <2>3. t \in [1 .. (n - 1) -> S]
    BY <1>12, <2>1, <2>2
  <2> QED
    BY <1>12, <2>3
<1>15. Cardinality(T \ {a}) = Cardinality(T) - 1
  BY <1>2, <1>5, FS_RemoveElement
<1> QED
  BY <1>1, <1>2, <1>11, <1>13, <1>14, <1>15 DEF Once

\* A list to which an element that it does not have is added.
LEMMA PutIn ==
  ASSUME NEW s \in Seq(Nat), Len(s) = Cardinality(ToSet(s)), NEW a \in Nat, a \notin ToSet(s), NEW t,
         t = Append(s, a)
  PROVE  Once(t, Nat, ToSet(s) \cup {a}, Len(s) + 1)
<1>1. PICK n \in Nat : n = Len(s) /\ DOMAIN s = 1 .. n
  OBVIOUS
<1>2. /\ t \in Seq(Nat) /\ Len(t) = n + 1 /\ t[n + 1] = a
      /\ \A k \in 1 .. n : t[k] = s[k]
  BY <1>1, AppendProperties
<1>3. DOMAIN t = 1 .. (n + 1)
  BY <1>2
<1>4. PICK T : T = ToSet(s)
  OBVIOUS
<1>5. ToSet(t) = T \cup {a}
  <2>1. ToSet(t) = {t[k] : k \in 1 .. (n + 1)} /\ T = {s[k] : k \in 1 .. n}
    BY <1>1, <1>3, <1>4 DEF ToSet
  <2>2. \A k \in 1 .. (n + 1) : k = n + 1 \/ k \in 1 .. n
    BY <1>1
  <2>3. \A x : x \in ToSet(t) => x \in T \cup {a}
    BY <1>2, <2>1, <2>2
  <2>4. \A x \in T : x \in ToSet(t)
    <3> TAKE x \in T
    <3>1. PICK k \in 1 .. n : s[k] = x
      BY <2>1
    <3>2. k \in 1 .. (n + 1)
      BY <1>1
    <3> QED
      BY <1>2, <2>1, <3>1, <3>2
  <2>5. a \in ToSet(t)
    <3>1. n + 1 \in 1 .. (n + 1)
      BY <1>1
    <3> QED
      BY <1>2, <2>1, <3>1
  <2> QED
    BY <2>3, <2>4, <2>5
<1>6. IsFiniteSet(T)
  <2>1. IsFiniteSet(1 .. n)
    BY FS_Interval
  <2>2. IsFiniteSet({s[k] : k \in 1 .. n})
    BY <2>1, FiniteImage
  <2> QED
    BY <1>1, <1>4, <2>2 DEF ToSet
<1>7. Cardinality(T \cup {a}) = Cardinality(T) + 1
  BY <1>4, <1>6, FS_AddElement
<1> QED
  BY <1>1, <1>2, <1>4, <1>5, <1>7 DEF Once

\* Some edge has room, as the cloud has a container more than there are apps.
LEMMA LeastCostEdgeFacts ==
  ASSUME AppsOK, CloudOK(cloud), ListsFor(apps, muApps), NEW a \in Apps,
         Cardinality(Apps) + 1 <= numContainers(CLOUD)
  PROVE  LeastCostEdge(a) \in Edges /\ usable(LeastCostEdge(a)) > Len(muApps[LeastCostEdge(a)])
<1>1. PICK free : free = {e \in Edges : usable(e) > Len(muApps[e])}
  OBVIOUS
<1>2. CLOUD \in free
  <2>1. PICK T : T = ToSet(muApps[CLOUD])
    OBVIOUS
  <2>2. T \in SUBSET Apps /\ Len(muApps[CLOUD]) = Cardinality(T)
    BY <2>1, EdgesFacts, AppFacts DEF ListsFor
  <2>3. Cardinality(T) <= Cardinality(Apps) /\ Cardinality(T) \in Nat /\ Cardinality(Apps) \in Nat
    BY <2>2, AppFacts, FS_Subset, FS_CardinalityType
  <2>4. usable(CLOUD) = numContainers(CLOUD) /\ numContainers(CLOUD) \in Nat
    BY EdgesFacts, EdgeCapacities DEF usable
  <2>5. PICK x, y, z : x = Cardinality(T) /\ y = Cardinality(Apps) /\ z = numContainers(CLOUD)
    OBVIOUS
  <2>6. z > x
    BY <2>3, <2>4, <2>5
  <2> QED
    BY <1>1, <2>2, <2>4, <2>5, <2>6, EdgesFacts
<1>3. PICK n : n = networkCost[apps[a].broker]
  OBVIOUS
<1>4. n \in [Edges -> Nat]
  <2>1. apps[a] \in AppSet
    BY AppFacts
  <2> QED
    BY <1>3, <2>1, CostsNat
<1>5. free \in SUBSET Nat /\ free # {} /\ \A x \in free : n[x] \in Nat
  <2>1. Edges \in SUBSET Nat
    BY EdgesFacts DEF Edges, CLOUD
  <2> QED
    BY <1>1, <1>2, <1>4, <2>1
<1>6. \E e \in free : \A d \in free : n[e] < n[d] \/ (n[e] = n[d] /\ e <= d)
  BY <1>5, LeastBy
<1>7. LeastCostEdge(a) = CHOOSE e \in free : \A d \in free : n[e] < n[d] \/ (n[e] = n[d] /\ e <= d)
  BY <1>1, <1>3 DEF LeastCostEdge, muCost
<1>8. LeastCostEdge(a) \in free
  BY <1>6, <1>7
<1> QED
  BY <1>1, <1>8

\* The lists of the edges after the migration of an app.
LEMMA ListsToMu ==
  ASSUME AppsOK, CloudOK(cloud), ListsFor(apps, muApps), NEW a \in Apps, apps[a].type = "lambda",
         NEW e \in Edges, usable(e) > Len(muApps[e]),
         NEW x, x.type = "mu", x.edge = e, NEW bs, Replaced(bs, a, x),
         NEW ms, ms = [muApps EXCEPT ![e] = Append(@, a)]
  PROVE  ListsFor(bs, ms)
<1>1. PICK M : M = OfType(apps, "mu")
  OBVIOUS
<1>2. /\ OfType(bs, "mu") = M \cup {a} /\ a \notin M /\ a \in Nat /\ M \in SUBSET Apps
      /\ bs[a].edge = e /\ \A b \in M : bs[b].edge = apps[b].edge
  <2>1. OfType(bs, "mu") = M \cup {a}
    BY <1>1, ReplacedTypes
  <2>2. a \notin M /\ M \in SUBSET Apps
    BY <1>1 DEF OfType, Apps
  <2>3. a \in Nat
    BY AppFacts
  <2> QED
    BY <2>1, <2>2, <2>3 DEF Replaced
<1>3. /\ muApps \in [Edges -> Seq(Nat)]
      /\ \A d \in Edges : /\ Len(muApps[d]) <= usable(d)
                          /\ ToSet(muApps[d]) = {b \in M : apps[b].edge = d}
                          /\ Len(muApps[d]) = Cardinality(ToSet(muApps[d]))
  BY <1>1 DEF ListsFor
<1>4. PICK s, t : s = muApps[e] /\ t = Append(s, a)
  OBVIOUS
<1>5. s \in Seq(Nat) /\ Len(s) = Cardinality(ToSet(s)) /\ a \notin ToSet(s)
  BY <1>2, <1>3, <1>4
<1>6. /\ t \in Seq(Nat) /\ ToSet(t) = ToSet(s) \cup {a} /\ Len(t) = Len(s) + 1
      /\ Len(t) = Cardinality(ToSet(t))
  <2>1. s \in Seq(Nat) /\ Len(s) = Cardinality(ToSet(s)) /\ a \notin ToSet(s) /\ a \in Nat
    BY <1>2, <1>5
  <2>2. Once(t, Nat, ToSet(s) \cup {a}, Len(s) + 1)
    BY <1>4, <2>1, PutIn
  <2> QED
    BY <2>2 DEF Once
<1>7. ms[e] = t /\ (\A d \in Edges \ {e} : ms[d] = muApps[d]) /\ ms \in [Edges -> Seq(Nat)]
  BY <1>3, <1>4, <1>6
<1>8. ASSUME NEW d \in Edges
      PROVE  /\ Len(ms[d]) <= usable(d)
             /\ ToSet(ms[d]) = {b \in OfType(bs, "mu") : bs[b].edge = d}
             /\ Len(ms[d]) = Cardinality(ToSet(ms[d]))
  <2>1. CASE d = e
    <3>1. Len(t) <= usable(e)
      <4>1. PICK u, l : u = usable(e) /\ l = Len(s)
        OBVIOUS
      <4>2. u \in Nat /\ l \in Nat /\ u > l
        BY <1>4, <1>5, <4>1, EdgeCapacities
      <4> QED
        BY <1>6, <4>1, <4>2
    <3>2. ToSet(s) = {b \in M : apps[b].edge = e}
      BY <1>3, <1>4
    <3>3. {b \in OfType(bs, "mu") : bs[b].edge = e} = ToSet(s) \cup {a}
      BY <1>2, <3>2
    <3> QED
      BY <1>6, <1>7, <2>1, <3>1, <3>3
  <2>2. CASE d # e
    <3>1. {b \in OfType(bs, "mu") : bs[b].edge = d} = {b \in M : apps[b].edge = d}
      BY <1>2, <2>2
    <3> QED
      BY <1>3, <1>7, <2>2, <3>1
  <2> QED
    BY <2>1, <2>2
<1> QED
  BY <1>7, <1>8 DEF ListsFor

\* The same for an app that goes back to lambda.
LEMMA ListsToLambda ==
  ASSUME AppsOK, CloudOK(cloud), ListsFor(apps, muApps), NEW a \in Apps, apps[a].type = "mu",
         NEW e \in Edges, e = apps[a].edge,
         NEW x, x.type = "lambda", NEW bs, Replaced(bs, a, x),
         NEW ms, ms = [muApps EXCEPT ![e] = Selected(@, {k \in DOMAIN @ : @[k] # a})]
  PROVE  ListsFor(bs, ms)
<1>1. PICK M : M = OfType(apps, "mu")
  OBVIOUS
<1>2. /\ OfType(bs, "mu") = M \ {a} /\ a \in M /\ \A b \in M \ {a} : bs[b].edge = apps[b].edge
  <2>1. OfType(bs, "mu") = M \ {a}
    BY <1>1, ReplacedTypes
  <2>2. a \in M /\ M \in SUBSET Apps
    BY <1>1 DEF OfType, Apps
  <2> QED
    BY <2>1, <2>2 DEF Replaced
<1>3. /\ muApps \in [Edges -> Seq(Nat)]
      /\ \A d \in Edges : /\ Len(muApps[d]) <= usable(d)
                          /\ ToSet(muApps[d]) = {b \in M : apps[b].edge = d}
                          /\ Len(muApps[d]) = Cardinality(ToSet(muApps[d]))
  BY <1>1 DEF ListsFor
<1>4. PICK s, t : s = muApps[e] /\ t = Selected(s, {k \in DOMAIN s : s[k] # a})
  OBVIOUS
<1>5. s \in Seq(Nat) /\ Len(s) = Cardinality(ToSet(s)) /\ a \in ToSet(s)
  BY <1>2, <1>3, <1>4
<1>6. /\ t \in Seq(Nat) /\ ToSet(t) = ToSet(s) \ {a} /\ Len(t) = Len(s) - 1
      /\ Len(t) = Cardinality(ToSet(t))
  <2>1. Once(t, Nat, ToSet(s) \ {a}, Len(s) - 1)
    BY <1>4, <1>5, LeftOut
  <2> QED
    BY <2>1 DEF Once
<1>7. ms[e] = t /\ (\A d \in Edges \ {e} : ms[d] = muApps[d]) /\ ms \in [Edges -> Seq(Nat)]
  BY <1>3, <1>4, <1>6
<1>8. ASSUME NEW d \in Edges
      PROVE  /\ Len(ms[d]) <= usable(d)
             /\ ToSet(ms[d]) = {b \in OfType(bs, "mu") : bs[b].edge = d}
             /\ Len(ms[d]) = Cardinality(ToSet(ms[d]))
  <2>1. CASE d = e
    <3>1. Len(t) <= usable(e)
      <4>1. PICK u, l : u = usable(e) /\ l = Len(s)
        OBVIOUS
      <4>2. u \in Nat /\ l \in Nat /\ l <= u
        BY <1>3, <1>4, <1>5, <4>1, EdgeCapacities
      <4> QED
        BY <1>6, <4>1, <4>2
    <3>2. ToSet(s) = {b \in M : apps[b].edge = e}
      BY <1>3, <1>4
    <3>3. {b \in OfType(bs, "mu") : bs[b].edge = e} = ToSet(s) \ {a}
      BY <1>2, <3>2
    <3> QED
      BY <1>6, <1>7, <2>1, <3>1, <3>3
  <2>2. CASE d # e
    <3>1. {b \in OfType(bs, "mu") : bs[b].edge = d} = {b \in M : apps[b].edge = d}
      BY <1>2, <2>2
    <3> QED
      BY <1>3, <1>7, <2>2, <3>1
  <2> QED
    BY <2>1, <2>2
<1> QED
  BY <1>7, <1>8 DEF ListsFor

-----------------------------------------------------------------------------
(***************************************************************************)
(* The invariant of dynamic(): the apps and their assignments.             *)
(***************************************************************************)
Serve(x) == x.weights \in [Edges -> Nat] /\ (EvenBeta => Total(x.weights, Edges) = x.rate)
AllServed(as) == \A a \in DOMAIN as : as[a].type = "lambda" => Serve(as[a])
NoWeights(as) == \A a \in DOMAIN as : as[a].type = "mu" => as[a].weights = <<>>
Room == Cardinality(Apps) + 1 <= numContainers(CLOUD) /\ (EvenBeta => SumRates(apps, Apps) <= Local)
AccountsInv ==
  /\ AppsOK /\ CloudOK(cloud) /\ Room /\ ListsFor(apps, muApps) /\ NoWeights(apps)
  /\ numLambda = Cardinality(OfType(apps, "lambda")) /\ CostsFor(apps, costs)

\* What does not change with the network and the cloud.
LEMMA SameCloud ==
  ASSUME UNCHANGED <<networkCost, cloud>>
  PROVE  /\ \A e : usable(e)' = usable(e) /\ numContainers(e)' = numContainers(e)
         /\ Local' = Local /\ CloudOK(cloud)' = CloudOK(cloud)
         /\ ListsFor(apps', muApps') => ListsFor(apps, muApps)'
         /\ CostsFor(apps', costs') => CostsFor(apps, costs)'
<1>1. \A e : usable(e)' = usable(e) /\ numContainers(e)' = numContainers(e)
  BY DEF usable, numContainers
<1>2. Local' = Local /\ CloudOK(cloud)' = CloudOK(cloud)
  BY DEF Local, capacity, CloudOK
<1>3. ListsFor(apps', muApps') => ListsFor(apps, muApps)'
  BY <1>1 DEF ListsFor
<1>4. \A x : LambdaCostOf(x)' = LambdaCostOf(x) /\ MuCostOf(x)' = MuCostOf(x)
  BY DEF LambdaCostOf, MuCostOf
<1>5. CostsFor(apps', costs') => CostsFor(apps, costs)'
  BY <1>4 DEF CostsFor
<1> QED
  BY <1>1, <1>2, <1>3, <1>5

\* All the apps have the broker and the rate they had.
LEMMA SameRates ==
  ASSUME AppsOK, Room, UNCHANGED <<networkCost, cloud>>, apps' \in [Apps -> AppSet],
         \A a \in Apps : apps'[a].rate = apps[a].rate
  PROVE  AppsOK' /\ Room' /\ Apps' = Apps
<1>1. Apps' = Apps
  BY DEF Apps
<1>2. AppsOK'
  <2>1. PICK n \in Nat : apps \in [1 .. n -> AppSet]
    BY DEF AppsOK
  <2>2. Apps = 1 .. n
    BY <2>1 DEF Apps
  <2>3. apps' \in [1 .. n -> AppSet]
    BY <2>2
  <2> QED
    BY <2>3 DEF AppsOK
<1>3. SumRates(apps, Apps)' = SumRates(apps, Apps)
  <2>1. [a \in Apps |-> apps'[a].rate] = [a \in Apps |-> apps[a].rate]
    OBVIOUS
  <2> QED
    BY <1>1, <2>1 DEF SumRates
<1>4. numContainers(CLOUD)' = numContainers(CLOUD) /\ Local' = Local
  BY SameCloud
<1> QED
  BY <1>1, <1>2, <1>3, <1>4 DEF Room

\* The invariant after an app is replaced, when lists and costs follow.
LEMMA MigratedInv ==
  ASSUME AccountsInv, AllServed(apps), NEW a \in Apps, UNCHANGED <<networkCost, cloud>>,
         NEW x \in AppSet, x.rate = apps[a].rate, Replaced(apps', a, x),
         x.type = "mu" => x.weights = <<>>, x.type = "lambda" => Serve(x),
         ListsFor(apps', muApps'), CostsFor(apps', costs'),
         numLambda' = Cardinality(OfType(apps', "lambda"))
  PROVE  AccountsInv' /\ AllServed(apps') /\ Apps' = Apps
<1>1. \A b \in Apps : apps[b] \in AppSet
  BY AppFacts DEF AccountsInv
<1>2. DOMAIN apps' = Apps /\ apps'[a] = x /\ \A b \in Apps \ {a} : apps'[b] = apps[b]
  BY DEF Replaced
<1>3. PICK n \in Nat : apps \in [1 .. n -> AppSet]
  BY DEF AccountsInv, AppsOK
<1>4. apps' \in [Apps -> AppSet]
  BY <1>1 DEF Replaced
<1>5. \A b \in Apps : apps'[b].rate = apps[b].rate
  BY <1>2
<1>6. AppsOK' /\ Room' /\ Apps' = Apps
  BY <1>4, <1>5, SameRates DEF AccountsInv
<1>7. NoWeights(apps') /\ AllServed(apps')
  <2>1. \A b \in Apps : apps[b].type = "mu" => apps[b].weights = <<>>
    BY DEF AccountsInv, NoWeights, Apps
  <2>2. \A b \in Apps : apps[b].type = "lambda" => Serve(apps[b])
    BY DEF AllServed, Apps
  <2> QED
    BY <1>2, <2>1, <2>2 DEF NoWeights, AllServed
<1>8. ListsFor(apps, muApps)' /\ CostsFor(apps, costs)' /\ CloudOK(cloud)'
  BY SameCloud DEF AccountsInv
<1> QED
  BY <1>6, <1>7, <1>8 DEF AccountsInv, NoWeights

\* migrateLambdaToMu keeps the accounts.
LEMMA ToMuStep ==
  ASSUME AccountsInv, AllServed(apps), NEW a \in Apps, apps[a].type = "lambda", migrateLambdaToMu(a),
         UNCHANGED <<networkCost, cloud>>
  PROVE  /\ AccountsInv' /\ AllServed(apps') /\ Apps' = Apps
         /\ apps'[a].type = "mu" /\ \A b \in Apps \ {a} : apps'[b].type = apps[b].type
<1>0. AppsOK /\ CloudOK(cloud) /\ Room /\ ListsFor(apps, muApps) /\ CostsFor(apps, costs)
  BY DEF AccountsInv
<1>1. PICK e, y, x : /\ e = LeastCostEdge(a) /\ y = apps[a]
                     /\ x = [y EXCEPT !.edge = e, !.weights = <<>>, !.type = "mu"]
  OBVIOUS
<1>2. e \in Edges /\ usable(e) > Len(muApps[e])
  BY <1>0, <1>1, LeastCostEdgeFacts DEF Room
<1>3. y \in AppSet /\ y.type = "lambda" /\ y.weights \in [Edges -> Nat]
  BY <1>0, <1>1, AppFacts DEF AllServed, Serve, Apps
<1>4. /\ x \in AppSet /\ x.edge = e /\ x.weights = <<>> /\ x.type = "mu"
      /\ x.broker = y.broker /\ x.rate = y.rate /\ x.exchange = y.exchange /\ x.storage = y.storage
  BY <1>1, <1>2, <1>3 DEF AppSet
<1>5. Replaced(apps', a, x)
  <2>1. apps' = [apps EXCEPT ![a].edge = e, ![a].weights = <<>>, ![a].type = "mu"]
    BY <1>1 DEF migrateLambdaToMu
  <2>2. PICK n \in Nat : apps \in [1 .. n -> AppSet]
    BY <1>0 DEF AppsOK
  <2>3. apps' = [apps EXCEPT ![a] = x]
    BY <1>1, <2>1, <2>2 DEF Apps
  <2>4. apps = [b \in Apps |-> apps[b]]
    BY <2>2 DEF Apps
  <2> QED
    BY <2>3, <2>4 DEF Replaced
<1>6. ListsFor(apps', muApps')
  <2>1. muApps' = [muApps EXCEPT ![e] = Append(@, a)]
    BY <1>1 DEF migrateLambdaToMu
  <2> QED
    BY <1>0, <1>2, <1>4, <1>5, <2>1, ListsToMu
<1>7. CostsFor(apps', costs')
  <2>1. lambdaCost(a) = LambdaCostOf(y)
    BY <1>1 DEF lambdaCost, LambdaCostOf, SumFunction, Total
  <2>2. muCost(a, e) = MuCostOf(x)
    BY <1>1, <1>4 DEF muCost, MuCostOf
  <2>3. costs'.mu = costs.mu + MuCostOf(x) /\ costs'.lambda = costs.lambda - LambdaCostOf(apps[a])
    BY <1>1, <2>1, <2>2 DEF migrateLambdaToMu
  <2>4. UnitApp(x) => UnitApp(apps[a])
    BY <1>1, <1>4 DEF UnitApp
  <2>5. \A b \in Apps : apps[b].type = "lambda" => apps[b].weights \in [Edges -> Nat]
    BY DEF AllServed, Serve, Apps
  <2> QED
    BY <1>0, <1>4, <1>5, <2>3, <2>4, <2>5, CostsToMu
<1>8. numLambda' = Cardinality(OfType(apps', "lambda"))
  <2>1. PICK L : L = OfType(apps, "lambda")
    OBVIOUS
  <2>2. OfType(apps', "lambda") = L \ {a} /\ a \in L /\ IsFiniteSet(L)
    <3>1. OfType(apps', "lambda") = L \ {a}
      BY <1>0, <1>4, <1>5, <2>1, ReplacedTypes
    <3> QED
      BY <1>0, <2>1, <3>1, AppFacts DEF OfType, Apps
  <2>3. numLambda' = Cardinality(L) - 1
    BY <2>1 DEF migrateLambdaToMu, AccountsInv
  <2> QED
    BY <2>2, <2>3, FS_RemoveElement
<1>9. AccountsInv' /\ AllServed(apps') /\ Apps' = Apps
  BY <1>1, <1>4, <1>5, <1>6, <1>7, <1>8, MigratedInv
<1> QED
  BY <1>4, <1>5, <1>9 DEF Replaced

\* migrateMuToLambda keeps the accounts.
LEMMA ToLambdaStep ==
  ASSUME AccountsInv, AllServed(apps), NEW a \in Apps, apps[a].type = "mu", migrateMuToLambda(a),
         UNCHANGED <<networkCost, cloud>>
  PROVE  /\ AccountsInv' /\ AllServed(apps') /\ Apps' = Apps
         /\ apps'[a].type = "lambda" /\ \A b \in Apps \ {a} : apps'[b].type = apps[b].type
<1>0. AppsOK /\ CloudOK(cloud) /\ Room /\ ListsFor(apps, muApps) /\ CostsFor(apps, costs)
  BY DEF AccountsInv
<1>1. PICK e, y, all, x : /\ e = apps[a].edge /\ y = apps[a]
                          /\ all = [d \in Edges |-> IF d = CLOUD THEN apps[a].rate ELSE 0]
                          /\ x = [y EXCEPT !.weights = all, !.type = "lambda"]
  OBVIOUS
<1>2. y \in AppSet /\ y.type = "mu" /\ e \in Edges /\ y.rate \in Nat
  BY <1>0, <1>1, AppFacts DEF AppSet
<1>3. PICK n \in [Edges -> Nat] : n = networkCost[y.broker]
  BY <1>0, <1>2, CostsNat
<1>4. /\ all \in [Edges -> Nat] /\ Total(all, Edges) = y.rate
      /\ Total([d \in Edges |-> n[d] * all[d]], Edges) = n[CLOUD] * y.rate
  <2>1. PICK r \in Nat : r = y.rate
    BY <1>2
  <2>2. all = [d \in Edges |-> IF d = CLOUD THEN r ELSE 0]
    BY <1>1, <2>1
  <2>3. /\ all \in [Edges -> Nat] /\ Total(all, Edges) = r
        /\ Total([d \in Edges |-> n[d] * all[d]], Edges) = n[CLOUD] * r
    BY <2>2, CloudWeights
  <2> QED
    BY <2>1, <2>3
<1>5. /\ x \in AppSet /\ x.weights = all /\ x.type = "lambda"
      /\ x.broker = y.broker /\ x.rate = y.rate /\ x.exchange = y.exchange /\ x.storage = y.storage
  BY <1>1, <1>2, <1>4 DEF AppSet
<1>6. Serve(x)
  BY <1>4, <1>5 DEF Serve
<1>7. Replaced(apps', a, x)
  <2>1. apps' = [apps EXCEPT ![a].weights = all, ![a].type = "lambda"]
    BY <1>1 DEF migrateMuToLambda
  <2>2. PICK m \in Nat : apps \in [1 .. m -> AppSet]
    BY <1>0 DEF AppsOK
  <2>3. apps' = [apps EXCEPT ![a] = x]
    BY <1>1, <2>1, <2>2 DEF Apps
  <2>4. apps = [b \in Apps |-> apps[b]]
    BY <2>2 DEF Apps
  <2> QED
    BY <2>3, <2>4 DEF Replaced
<1>8. ListsFor(apps', muApps')
  <2>1. muApps' = [muApps EXCEPT ![e] = Selected(@, {k \in DOMAIN @ : @[k] # a})]
    BY <1>1 DEF migrateMuToLambda
  <2> QED
    BY <1>0, <1>1, <1>2, <1>5, <1>7, <2>1, ListsToLambda
<1>9. CostsFor(apps', costs')
  <2>1. LambdaCostOf(x) = n[CLOUD] * y.rate
    <3>1. LambdaCostOf(x) = Total([d \in Edges |-> n[d] * all[d]], Edges)
      BY <1>3, <1>5 DEF LambdaCostOf
    <3> QED
      BY <3>1, <1>4
  <2>2. muCost(a, e) = MuCostOf(y)
    BY <1>1 DEF muCost, MuCostOf
  <2>3. costs'.mu = costs.mu - MuCostOf(apps[a]) /\ costs'.lambda = costs.lambda + LambdaCostOf(x)
    BY <1>1, <1>3, <2>1, <2>2 DEF migrateMuToLambda
  <2>4. UnitApp(x) => UnitApp(apps[a])
    BY <1>1, <1>5 DEF UnitApp
  <2>5. \A b \in Apps : apps[b].type = "lambda" => apps[b].weights \in [Edges -> Nat]
    BY DEF AllServed, Serve, Apps
  <2>6. x.weights \in [Edges -> Nat]
    BY <1>4, <1>5
  <2> QED
    BY <1>0, <1>5, <1>7, <2>3, <2>4, <2>5, <2>6, CostsToLambda
<1>10. numLambda' = Cardinality(OfType(apps', "lambda"))
  <2>1. PICK L : L = OfType(apps, "lambda")
    OBVIOUS
  <2>2. OfType(apps', "lambda") = L \cup {a} /\ a \notin L /\ IsFiniteSet(L)
    <3>1. OfType(apps', "lambda") = L \cup {a}
      BY <1>0, <1>5, <1>7, <2>1, ReplacedTypes
    <3> QED
      BY <1>0, <2>1, <3>1, AppFacts DEF OfType, Apps
  <2>3. numLambda' = Cardinality(L) + 1
    BY <2>1 DEF migrateMuToLambda, AccountsInv
  <2> QED
    BY <2>2, <2>3, FS_AddElement
<1>11. AccountsInv' /\ AllServed(apps') /\ Apps' = Apps
  BY <1>1, <1>5, <1>6, <1>7, <1>8, <1>9, <1>10, MigratedInv
<1> QED
  BY <1>5, <1>7, <1>11 DEF Replaced

-----------------------------------------------------------------------------
(***************************************************************************)
(* The periods of the apps.                                                *)
(***************************************************************************)
PosSet == {x \in [period : Periods, index : Nat] : x.index \in 1 .. Len(x.period)}
Odd(x) == x.index % 2 = 1
PositionsOK(pos, as) ==
  DOMAIN pos = DOMAIN as /\ \A a \in DOMAIN as : pos[a] \in PosSet /\ (as[a].type = "lambda" <=> Odd(pos[a]))

\* The periods of an app alternate, as their number is even.
LEMMA TurnedFacts ==
  ASSUME NEW x \in PosSet
  PROVE  /\ Turned(x) \in PosSet /\ (Odd(Turned(x)) <=> ~ Odd(x))
         /\ x.period[x.index] \in Nat
<1>1. PICK p, i, n : p \in Periods /\ i \in Nat /\ p = x.period /\ i = x.index /\ n = Len(p)
  BY DEF PosSet
<1>2. p \in Seq(Nat) /\ n \in Nat /\ n > 0 /\ n % 2 = 0 /\ i \in 1 .. n
  BY <1>1, LambdaMuAssumption DEF PosSet
<1>3. PICK j : j = IF i = n THEN 1 ELSE i + 1
  OBVIOUS
<1>4. j \in 1 .. n /\ (j % 2 = 1 <=> ~ (i % 2 = 1))
  BY <1>2, <1>3
<1>5. Turned(x) = [period |-> p, index |-> j]
  BY <1>1, <1>3 DEF PosSet, Turned
<1>6. Turned(x) \in PosSet
  BY <1>1, <1>4, <1>5, <1>2 DEF PosSet
<1>7. Odd(Turned(x)) <=> ~ Odd(x)
  BY <1>1, <1>4, <1>5 DEF Odd
<1> QED
  BY <1>1, <1>2, <1>6, <1>7

-----------------------------------------------------------------------------
(***************************************************************************)
(* The invariants of dynamic() and of snapshot(), and what they leave.     *)
(***************************************************************************)
TimesOK ==
  Cardinality(Apps) \in Nat \ {0} /\ PoolOK(pool, Apps) /\ clock \in Nat /\ nextEpoch \in Nat
Fresh ==
  /\ nextEpoch = 0 /\ clock = 0 /\ optimize
  /\ \A a \in Apps : apps[a].type = "lambda" /\ apps[a].weights = <<>>
DynInv == AccountsInv /\ PositionsOK(position, apps) /\ TimesOK /\ (Fresh \/ AllServed(apps))
SnapInv ==
  /\ AppsOK /\ CloudOK(cloud) /\ NoWeights(apps) /\ position = <<>>
  /\ OfType(apps, "mu") = {} => ListsFor(apps, muApps)
  /\ Cardinality(OfType(apps, "mu")) + 1 <= numContainers(CLOUD)
  /\ EvenBeta => SumRates(apps, OfType(apps, "lambda")) <= Local
  /\ numLambda = Cardinality(OfType(apps, "lambda"))
DoneInv ==
  /\ AppsOK /\ CloudOK(cloud) /\ ListsFor(apps, muApps) /\ NoWeights(apps) /\ CostsFor(apps, costs)
  /\ numLambda = Cardinality(OfType(apps, "lambda"))
  /\ \A a \in Apps : apps[a].type = "lambda" =>
       Serve(apps[a]) \/ (apps[a].weights = <<>> /\ clock = 0)
  /\ position # <<>> => PositionsOK(position, apps) /\ PoolOK(pool, Apps)

\* dynamic() may end at any time.
LEMMA DynDone ==
  ASSUME DynInv
  PROVE  DoneInv
<1>1. AccountsInv /\ PositionsOK(position, apps) /\ PoolOK(pool, Apps)
  BY DEF DynInv, TimesOK
<1>2. \A a \in Apps : apps[a].type = "lambda" =>
        Serve(apps[a]) \/ (apps[a].weights = <<>> /\ clock = 0)
  BY DEF DynInv, Fresh, AllServed, Apps
<1> QED
  BY <1>1, <1>2 DEF DoneInv, AccountsInv

\* What the scenario accounts for, from the invariant.
LEMMA Accounted ==
  ASSUME DoneInv
  PROVE  ListsExact /\ PeriodsFollowed /\ RequestsServed /\ CostsCurrent
<1>1. AppsOK /\ \A a \in Apps : apps[a] \in AppSet
  BY AppFacts DEF DoneInv
<1>2. ListsExact
  BY DEF DoneInv, ListsFor, ListsExact
<1>3. PeriodsFollowed
  <2>1. numLambda = Cardinality(OfType(apps, "lambda"))
    BY DEF DoneInv
  <2> SUFFICES ASSUME position # <<>>
               PROVE  /\ \A a \in Apps : apps[a].type = "lambda" <=> position[a].index % 2 = 1
                      /\ \A k \in DOMAIN pool : pool[k].remaining >= 0
                      /\ {pool[k].app : k \in DOMAIN pool} = Apps /\ Len(pool) = Cardinality(Apps)
    BY <2>1 DEF PeriodsFollowed
  <2>2. \A a \in Apps : apps[a].type = "lambda" <=> position[a].index % 2 = 1
    BY DEF DoneInv, PositionsOK, Odd, Apps
  <2>3. PICK A : A = Apps
    OBVIOUS
  <2>4. PICK n \in Nat : n = Len(pool) /\ DOMAIN pool = 1 .. n /\ n = Cardinality(A)
    BY <2>3 DEF DoneInv, PoolOK
  <2>5. \A k \in 1 .. n : pool[k] \in Entries(A)
    BY <2>3, <2>4 DEF DoneInv, PoolOK
  <2>6. \A k \in 1 .. n : pool[k].app \in A /\ pool[k].remaining \in Nat
    BY <2>5 DEF Entries
  <2>7. \A a \in A : \E k \in 1 .. n : pool[k].app = a
    BY <2>3, <2>4 DEF DoneInv, PoolOK
  <2>8. {pool[k].app : k \in 1 .. n} = A
    BY <2>6, <2>7
  <2>9. \A k \in 1 .. n : pool[k].remaining >= 0
    BY <2>6
  <2> QED
    BY <2>2, <2>3, <2>4, <2>8, <2>9
<1>4. RequestsServed
  <2>1. \A x : SumFunction(x.weights) = Total(x.weights, DOMAIN x.weights)
    BY DEF SumFunction, Total
  <2>2. ASSUME NEW a \in Apps
        PROVE  IF apps[a].type = "mu" THEN apps[a].weights = <<>>
               ELSE \/ apps[a].weights = <<>> /\ clock = 0
                    \/ /\ apps[a].weights \in [Edges -> Nat]
                       /\ Conf.beta[2] % Conf.beta[1] = 0 => SumFunction(apps[a].weights) = apps[a].rate
    <3>1. PICK x \in AppSet : x = apps[a]
      BY <1>1
    <3>2. x.type = "mu" => x.weights = <<>>
      BY <3>1 DEF DoneInv, NoWeights, Apps
    <3>3. x.type # "mu" => Serve(x) \/ (x.weights = <<>> /\ clock = 0)
      BY <3>1 DEF DoneInv, AppSet
    <3>4. Serve(x) => x.weights \in [Edges -> Nat] /\ (EvenBeta => SumFunction(x.weights) = x.rate)
      <4> SUFFICES ASSUME Serve(x)
                   PROVE  x.weights \in [Edges -> Nat] /\ (EvenBeta => SumFunction(x.weights) = x.rate)
        OBVIOUS
      <4>1. x.weights \in [Edges -> Nat] /\ DOMAIN x.weights = Edges
        BY DEF Serve
      <4>2. SumFunction(x.weights) = Total(x.weights, Edges)
        BY <2>1, <4>1
      <4> QED
        BY <4>1, <4>2 DEF Serve
    <3> QED
      BY <3>1, <3>2, <3>3, <3>4 DEF EvenBeta
  <2> QED
    BY <2>2 DEF RequestsServed
<1>5. CostsCurrent
  <2>1. (\A a \in Apps : Unit(a) /\ (apps[a].type = "lambda" => apps[a].weights # <<>>)) => AllUnit(apps)
    BY DEF Unit, AllUnit, UnitApp, Apps
  <2>2. SumFunction([a \in OfType(apps, "mu") |-> muCost(a, apps[a].edge)])
          = Total([a \in OfType(apps, "mu") |-> MuCostOf(apps[a])], OfType(apps, "mu"))
    BY DEF SumFunction, Total, muCost, MuCostOf
  <2>3. \A a : lambdaCost(a) = LambdaCostOf(apps[a])
    BY DEF lambdaCost, LambdaCostOf, SumFunction, Total
  <2>4. SumFunction([a \in OfType(apps, "lambda") |-> lambdaCost(a)])
          = Total([a \in OfType(apps, "lambda") |-> LambdaCostOf(apps[a])], OfType(apps, "lambda"))
    BY <2>3 DEF SumFunction, Total
  <2> QED
    BY <2>1, <2>2, <2>4 DEF CostsCurrent, CostsFor, DoneInv
<1> QED
  BY <1>2, <1>3, <1>4, <1>5

\* The capacity of the local container is a number.
LEMMA LocalNat ==
  ASSUME CloudOK(cloud)
  PROVE  Local \in Nat
<1>1. PICK b, d, c : b = Conf.beta[1] /\ d = Conf.beta[2] /\ c = capacity(CLOUD)
  OBVIOUS
<1>2. b \in Nat /\ d \in Nat \ {0} /\ c \in Nat
  BY <1>1, ConfFacts, EdgeCapacities, EdgesFacts
<1>3. PICK x \in Nat : x = b * c
  BY <1>2
<1>4. x \div d \in Nat
  BY <1>2, DivFacts
<1> QED
  BY <1>1, <1>3, <1>4 DEF Local

-----------------------------------------------------------------------------
(***************************************************************************)
(* The steps of dynamic() and of snapshot().                               *)
(***************************************************************************)
\* Both assignments keep what identifies the apps, and serve all of them.
LEMMA AssignDone ==
  ASSUME AppsOK, CloudOK(cloud), algorithms \in Algorithms, NoWeights(apps),
         OfType(apps, "mu") = {} => ListsFor(apps, muApps),
         Cardinality(OfType(apps, "mu")) + 1 <= numContainers(CLOUD),
         EvenBeta => SumRates(apps, OfType(apps, "lambda")) <= Local, Assign,
         UNCHANGED <<networkCost, cloud>>
  PROVE  /\ apps' \in [Apps -> AppSet] /\ Apps' = Apps /\ AppsOK'
         /\ \A a \in Apps : apps'[a].type = apps[a].type /\ apps'[a].rate = apps[a].rate
         /\ OfType(apps', "lambda") = OfType(apps, "lambda")
         /\ ListsFor(apps, muApps)' /\ CostsFor(apps, costs)' /\ CloudOK(cloud)'
         /\ AllServed(apps') /\ NoWeights(apps')
<1>1. Assigns(apps', muApps', costs')
  BY AssignFacts
<1>2. apps' \in [Apps -> AppSet] /\ DOMAIN apps' = Apps
  BY <1>1 DEF Assigns
<1>3. AppsOK'
  <2>1. PICK n \in Nat : apps \in [1 .. n -> AppSet]
    BY DEF AppsOK
  <2>2. apps' \in [1 .. n -> AppSet]
    BY <1>2, <2>1 DEF Apps
  <2> QED
    BY <2>2 DEF AppsOK
<1>4. \A a \in Apps : apps'[a].type = apps[a].type /\ apps'[a].rate = apps[a].rate
  BY <1>1 DEF Assigns, SameApp
<1>5. OfType(apps', "lambda") = OfType(apps, "lambda")
  BY <1>2, <1>4 DEF OfType, Apps
<1>6. ListsFor(apps, muApps)' /\ CostsFor(apps, costs)' /\ CloudOK(cloud)'
  <2>1. ListsFor(apps', muApps') /\ CostsFor(apps', costs')
    BY <1>1 DEF Assigns
  <2> QED
    BY <2>1, SameCloud
<1>7. AllServed(apps')
  BY <1>1, <1>2, <1>4 DEF Assigns, AllServed, Serve
<1>8. NoWeights(apps')
  <2>1. \A a \in Apps : apps[a].type = "mu" => apps[a].weights = <<>>
    BY DEF NoWeights, Apps
  <2> QED
    BY <1>1, <1>2, <1>4, <2>1 DEF Assigns, NoWeights
<1> QED
  BY <1>2, <1>3, <1>4, <1>5, <1>6, <1>7, <1>8 DEF Apps

\* dynamic(): an epoch in which the apps are assigned again.
LEMMA NewEpochStep ==
  ASSUME DynInv, algorithms \in Algorithms, NewEpoch
  PROVE  DynInv'
<1>0. /\ AccountsInv /\ AppsOK /\ CloudOK(cloud) /\ Room /\ ListsFor(apps, muApps) /\ NoWeights(apps)
      /\ PositionsOK(position, apps) /\ TimesOK
  BY DEF DynInv, AccountsInv
<1>1. /\ Assign /\ pool' = AdvanceTime(nextEpoch) /\ clock' = clock + nextEpoch
      /\ nextEpoch' = Conf.epoch /\ nextEpoch <= NextTransition
      /\ UNCHANGED <<networkCost, cloud, position, numLambda>>
  BY DEF NewEpoch, InEpoch
<1>2. Cardinality(OfType(apps, "mu")) + 1 <= numContainers(CLOUD)
  <2>1. OfType(apps, "mu") \subseteq Apps /\ IsFiniteSet(Apps)
    BY <1>0, AppFacts
  <2>2. PICK i, j, k : i = Cardinality(OfType(apps, "mu")) /\ j = Cardinality(Apps) /\ k = numContainers(CLOUD)
    OBVIOUS
  <2>3. i \in Nat /\ j \in Nat /\ i <= j
    BY <2>1, <2>2, FS_Subset, FS_CardinalityType
  <2>4. k \in Nat /\ j + 1 <= k
    BY <1>0, <2>2, EdgeCapacities, EdgesFacts DEF Room
  <2> QED
    BY <2>2, <2>3, <2>4
<1>3. EvenBeta => SumRates(apps, OfType(apps, "lambda")) <= Local
  <2>1. PICK L \in SUBSET Apps : L = OfType(apps, "lambda")
    BY <1>0, AppFacts
  <2>2. PICK f, g : f = [a \in L |-> apps[a].rate] /\ g = [a \in Apps |-> apps[a].rate]
    OBVIOUS
  <2>3. /\ IsFiniteSet(Apps) /\ IsFiniteSet(L) /\ \A a \in Apps : g[a] \in Nat
        /\ SumRates(apps, Apps) = Total(g, Apps) /\ SumRates(apps, L) = Total(f, L)
        /\ Total(g, Apps) \in Nat /\ Total(f, L) \in Nat
    <3>1. /\ IsFiniteSet(Apps) /\ \A a \in Apps : apps[a].rate \in Nat
          /\ SumRates(apps, Apps) = Total(g, Apps) /\ Total(g, Apps) \in Nat
      BY <1>0, <2>2, RatesFacts
    <3>2. SumRates(apps, L) = Total(f, L) /\ Total(f, L) \in Nat /\ IsFiniteSet(L)
      BY <1>0, <2>2, RatesFacts
    <3> QED
      BY <2>2, <3>1, <3>2
  <2>4. Total(f, L) = Total(g, L)
    BY <2>2, <2>3, TotalSame
  <2>5. Total(g, L) <= Total(g, Apps)
    BY <2>3, TotalSubset
  <2>6. ASSUME EvenBeta PROVE SumRates(apps, L) <= Local
    <3>1. PICK s, t, l : s = SumRates(apps, L) /\ t = SumRates(apps, Apps) /\ l = Local
      OBVIOUS
    <3>2. s <= t /\ s \in Nat /\ t \in Nat
      BY <2>3, <2>4, <2>5, <3>1
    <3>3. t <= l
      BY <1>0, <2>6, <3>1 DEF Room
    <3>4. l \in Nat
      BY <1>0, <3>1, LocalNat
    <3> QED
      BY <3>1, <3>2, <3>3, <3>4
  <2> QED
    BY <2>1, <2>6
<1>4. /\ apps' \in [Apps -> AppSet] /\ Apps' = Apps
      /\ \A a \in Apps : apps'[a].type = apps[a].type /\ apps'[a].rate = apps[a].rate
      /\ OfType(apps', "lambda") = OfType(apps, "lambda")
      /\ ListsFor(apps, muApps)' /\ CostsFor(apps, costs)' /\ CloudOK(cloud)'
      /\ AllServed(apps') /\ NoWeights(apps')
  BY <1>0, <1>1, <1>2, <1>3, AssignDone
<1>5. AppsOK' /\ Room'
  BY <1>0, <1>1, <1>4, SameRates
<1>6. numLambda' = Cardinality(OfType(apps', "lambda"))
  BY <1>1, <1>4 DEF DynInv, AccountsInv
<1>7. AccountsInv'
  BY <1>4, <1>5, <1>6 DEF AccountsInv, OfType, NoWeights
<1>8. PositionsOK(position, apps)'
  <2>1. DOMAIN apps = Apps /\ DOMAIN apps' = Apps
    BY <1>4 DEF Apps
  <2> QED
    BY <1>0, <1>1, <1>4, <2>1 DEF PositionsOK
<1>9. TimesOK'
  <2>1. PoolOK(pool', Apps)
    BY <1>0, <1>1, AdvanceTimeFacts DEF TimesOK
  <2>2. clock' \in Nat /\ nextEpoch' \in Nat
    BY <1>0, <1>1, ConfFacts DEF TimesOK
  <2> QED
    BY <1>0, <1>4, <2>1, <2>2 DEF TimesOK
<1> QED
  BY <1>4, <1>7, <1>8, <1>9 DEF DynInv, AllServed

\* The apps and what is accounted of them stay.
LEMMA SameAccounts ==
  ASSUME UNCHANGED <<networkCost, cloud, apps, muApps, numLambda, costs>>
  PROVE  /\ AccountsInv => AccountsInv'
         /\ Apps' = Apps
         /\ DynInv /\ (TimesOK /\ PositionsOK(position, apps))' /\ (Fresh' \/ AllServed(apps)) => DynInv'
         /\ SnapInv /\ UNCHANGED position => SnapInv'
         /\ DoneInv /\ UNCHANGED <<position, pool, clock>> => DoneInv'
<1>1. Apps' = Apps /\ \A t : OfType(apps, t)' = OfType(apps, t)
  BY DEF Apps, OfType
<1>2. /\ AppsOK => AppsOK'
      /\ CloudOK(cloud) => CloudOK(cloud)'
      /\ ListsFor(apps, muApps) => ListsFor(apps, muApps)'
      /\ CostsFor(apps, costs) => CostsFor(apps, costs)'
      /\ NoWeights(apps) => NoWeights(apps)'
      /\ AllServed(apps) => AllServed(apps)'
      /\ Local' = Local /\ numContainers(CLOUD)' = numContainers(CLOUD)
  <2>1. /\ Local' = Local /\ numContainers(CLOUD)' = numContainers(CLOUD) /\ CloudOK(cloud)' = CloudOK(cloud)
        /\ ListsFor(apps', muApps') => ListsFor(apps, muApps)'
        /\ CostsFor(apps', costs') => CostsFor(apps, costs)'
    BY SameCloud
  <2>2. AppsOK => AppsOK'
    BY DEF AppsOK
  <2>3. apps' = apps /\ muApps' = muApps /\ costs' = costs
    OBVIOUS
  <2>4. ListsFor(apps, muApps) => ListsFor(apps', muApps')
    BY <2>3
  <2>5. CostsFor(apps, costs) => CostsFor(apps', costs')
    BY <2>3
  <2> QED
    BY <2>1, <2>2, <2>3, <2>4, <2>5 DEF NoWeights, AllServed
<1>3. \A S : SumRates(apps, S)' = SumRates(apps, S)
  BY DEF SumRates
<1>4. Room => Room'
  BY <1>1, <1>2, <1>3 DEF Room
<1>5. AccountsInv => AccountsInv'
  BY <1>1, <1>2, <1>4 DEF AccountsInv
<1>6. DynInv /\ (TimesOK /\ PositionsOK(position, apps))' /\ (Fresh' \/ AllServed(apps)) => DynInv'
  BY <1>2, <1>5 DEF DynInv
<1>7. SnapInv /\ UNCHANGED position => SnapInv'
  BY <1>1, <1>2, <1>3 DEF SnapInv
<1>8. DoneInv /\ UNCHANGED <<position, pool, clock>> => DoneInv'
  BY <1>1, <1>2 DEF DoneInv
<1> QED
  BY <1>1, <1>5, <1>6, <1>7, <1>8

\* dynamic(): an epoch in which nothing has changed.
LEMMA SkipEpochStep ==
  ASSUME DynInv, SkipEpoch
  PROVE  DynInv'
<1>1. /\ ~ optimize /\ pool' = AdvanceTime(nextEpoch) /\ clock' = clock + nextEpoch
      /\ nextEpoch' = Conf.epoch /\ nextEpoch <= NextTransition
      /\ UNCHANGED <<networkCost, cloud, apps, muApps, position, numLambda, costs>>
  BY DEF SkipEpoch, InEpoch
<1>2. PositionsOK(position, apps) /\ TimesOK /\ AllServed(apps) /\ Apps' = Apps
  BY <1>1 DEF DynInv, Fresh, Apps
<1>3. PositionsOK(position, apps)'
  BY <1>1, <1>2 DEF PositionsOK
<1>4. TimesOK'
  <2>1. PoolOK(pool', Apps)
    BY <1>1, <1>2, AdvanceTimeFacts DEF TimesOK
  <2>2. clock' \in Nat /\ nextEpoch' \in Nat
    BY <1>1, <1>2, ConfFacts DEF TimesOK
  <2> QED
    BY <1>2, <2>1, <2>2 DEF TimesOK
<1> QED
  BY <1>1, <1>2, <1>3, <1>4, SameAccounts

\* dynamic(): an app changes its period, and is migrated.
LEMMA TransitionStep ==
  ASSUME DynInv, Transition
  PROVE  DynInv'
<1>1. PICK a, pos : a = Head(pool).app /\ pos = [position EXCEPT ![a] = Turned(@)]
  OBVIOUS
<1>2. /\ position' = pos /\ pool' = AdvancePool(pos) /\ nextEpoch > NextTransition
      /\ clock' = clock + NextTransition /\ nextEpoch' = nextEpoch - NextTransition
      /\ IF apps[a].type = "lambda" THEN migrateLambdaToMu(a) ELSE migrateMuToLambda(a)
      /\ UNCHANGED <<networkCost, cloud>>
  BY <1>1 DEF Transition
<1>3. AccountsInv /\ AppsOK /\ PositionsOK(position, apps) /\ TimesOK
  BY DEF DynInv, AccountsInv
<1>4. a \in Apps /\ NextTransition \in Nat
  BY <1>1, <1>3, PoolHead DEF TimesOK
<1>5. AllServed(apps)
  BY <1>2, <1>3, <1>4 DEF DynInv, Fresh, TimesOK
<1>6. apps[a] \in AppSet /\ apps[a].type \in {"lambda", "mu"}
  BY <1>3, <1>4, AppFacts DEF AppSet
<1>7. /\ AccountsInv' /\ AllServed(apps') /\ Apps' = Apps
      /\ (apps'[a].type = "lambda") <=> ~ (apps[a].type = "lambda")
      /\ \A b \in Apps \ {a} : apps'[b].type = apps[b].type
  <2>1. CASE apps[a].type = "lambda"
    BY <1>2, <1>3, <1>4, <1>5, <2>1, ToMuStep
  <2>2. CASE apps[a].type = "mu"
    BY <1>2, <1>3, <1>4, <1>5, <2>2, ToLambdaStep
  <2> QED
    BY <1>6, <2>1, <2>2
<1>8. \A b \in Apps : position[b] \in PosSet /\ (apps[b].type = "lambda" <=> Odd(position[b]))
  BY <1>3 DEF PositionsOK, Apps
<1>9. DOMAIN position = Apps
  BY <1>3 DEF PositionsOK, Apps
<1>10. Turned(position[a]) \in PosSet /\ (Odd(Turned(position[a])) <=> ~ Odd(position[a]))
  BY <1>4, <1>8, TurnedFacts
<1>11. DOMAIN pos = Apps /\ pos[a] = Turned(position[a]) /\ \A b \in Apps \ {a} : pos[b] = position[b]
  BY <1>1, <1>4, <1>9
<1>12. \A b \in Apps : pos[b] \in PosSet /\ (apps'[b].type = "lambda" <=> Odd(pos[b]))
  BY <1>7, <1>8, <1>10, <1>11
<1>13. PositionsOK(position, apps)'
  BY <1>2, <1>7, <1>11, <1>12 DEF PositionsOK, Apps
<1>14. PoolOK(pool', Apps)
  <2>1. pos[a].period[pos[a].index] \in Nat
    BY <1>4, <1>12, TurnedFacts
  <2> QED
    BY <1>1, <1>2, <1>3, <2>1, AdvancePoolFacts DEF TimesOK
<1>15. clock' \in Nat /\ nextEpoch' \in Nat
  BY <1>2, <1>3, <1>4 DEF TimesOK
<1>16. TimesOK'
  BY <1>3, <1>7, <1>14, <1>15 DEF TimesOK
<1> QED
  BY <1>7, <1>13, <1>16 DEF DynInv, AllServed

\* snapshot(): both assignments.
LEMMA EndSnapshotStep ==
  ASSUME SnapInv, algorithms \in Algorithms, EndSnapshot
  PROVE  DoneInv'
<1>1. Assign /\ UNCHANGED <<networkCost, cloud, position, clock, numLambda>>
  BY DEF EndSnapshot
<1>2. /\ apps' \in [Apps -> AppSet] /\ Apps' = Apps /\ AppsOK'
      /\ OfType(apps', "lambda") = OfType(apps, "lambda")
      /\ ListsFor(apps, muApps)' /\ CostsFor(apps, costs)' /\ CloudOK(cloud)'
      /\ AllServed(apps') /\ NoWeights(apps')
  BY <1>1, AssignDone DEF SnapInv
<1>3. \A b \in Apps' : apps'[b].type = "lambda" => Serve(apps'[b])
  BY <1>2 DEF AllServed
<1>4. numLambda' = Cardinality(OfType(apps', "lambda")) /\ position' = <<>>
  BY <1>1, <1>2 DEF SnapInv
<1> QED
  BY <1>2, <1>3, <1>4 DEF DoneInv, OfType, NoWeights, Serve

-----------------------------------------------------------------------------
(***************************************************************************)
(* The start of dynamic() and of snapshot().                               *)
(***************************************************************************)
\* Division by a factor is exact.
LEMMA DivExact ==
  ASSUME NEW x \in Nat, NEW d \in Nat \ {0}
  PROVE  (x * d) \div d = x
OBVIOUS

\* A number without remainder is a multiple.
LEMMA DivByFactor ==
  ASSUME NEW d \in Nat, NEW b \in Nat \ {0}, d % b = 0
  PROVE  d = (d \div b) * b /\ d \div b \in Nat
OBVIOUS

\* The cloud is made for the containers and the rates of its apps.
LEMMA CloudOfFacts ==
  ASSUME NEW n \in Nat, NEW r \in Nat, cloud' = CloudOf(n, r)
  PROVE  /\ CloudOK(cloud)' /\ numContainers(CLOUD)' = n /\ (EvenBeta => Local' = r)
         /\ \A e \in Edges : usable(e)' \in Nat
<1>1. PICK b, d, v : b = Conf.beta[1] /\ d = Conf.beta[2] /\ v = (r * d) \div b
  OBVIOUS
<1>2. b \in Nat \ {0} /\ d \in Nat \ {0}
  BY <1>1, ConfFacts
<1>3. cloud'.containers = n /\ cloud'.capacity = v
  BY <1>1 DEF CloudOf
<1>4. v \in Nat
  <2>1. PICK y \in Nat : y = r * d
    BY <1>2
  <2> QED
    BY <1>1, <1>2, <2>1, DivFacts
<1>5. ASSUME EvenBeta PROVE Local' = r
  <2>1. PICK q \in Nat : q = d \div b /\ d = q * b
    BY <1>1, <1>2, <1>5, DivByFactor DEF EvenBeta
  <2>2. r * d = (r * q) * b
    BY <1>2, <2>1
  <2>3. PICK y \in Nat : y = r * q
    BY <2>1
  <2>4. v = y
    BY <1>1, <1>2, <2>2, <2>3, DivExact
  <2>5. b * v = r * d
    BY <1>2, <2>2, <2>3, <2>4
  <2>6. (b * v) \div d = r
    BY <1>2, <2>5, DivExact
  <2>7. Local' = (b * v) \div d
    BY <1>1, <1>3 DEF Local, capacity, CLOUD
  <2> QED
    BY <2>6, <2>7
<1>6. \A e \in Edges : usable(e)' \in Nat
  <2> TAKE e \in Edges
  <2>1. PICK m : m = numContainers(e)'
    OBVIOUS
  <2>2. m \in Nat
    BY <1>3, <2>1, EdgesFacts DEF numContainers
  <2>3. PICK p, q : p = Conf.alpha[1] /\ q = Conf.alpha[2]
    OBVIOUS
  <2>4. (m * p) \div q \in Nat
    BY <2>2, <2>3, ConfFacts, PartFacts
  <2>5. usable(e)' = IF e = CLOUD THEN m ELSE (m * p) \div q
    BY <2>1, <2>3 DEF usable
  <2> QED
    BY <2>2, <2>4, <2>5
<1>7. numContainers(CLOUD)' = n
  BY <1>3 DEF numContainers
<1> QED
  BY <1>3, <1>4, <1>5, <1>6, <1>7 DEF CloudOK

\* The apps of a new scenario: the first ones are lambda-apps.
LEMMA NewAppsFacts ==
  ASSUME NEW n \in Nat, NEW k \in 0 .. n, NEW as \in NewApps(n, k)
  PROVE  /\ as \in [1 .. n -> AppSet]
         /\ \A a \in 1 .. n : as[a].weights = <<>> /\ (as[a].type = "lambda" <=> a <= k)
         /\ OfType(as, "lambda") = 1 .. k /\ OfType(as, "mu") = (k + 1) .. n
         /\ SumRates(as, 1 .. k) \in Nat
<1>1. PICK x \in [1 .. n -> Brokers \X AppClasses] :
        as = [a \in 1 .. n |-> App(x[a][1], x[a][2], IF a <= k THEN "lambda" ELSE "mu")]
  BY DEF NewApps
<1>2. ASSUME NEW a \in 1 .. n
      PROVE  /\ as[a] \in AppSet /\ as[a].weights = <<>>
             /\ as[a].type = IF a <= k THEN "lambda" ELSE "mu"
  <2>1. PICK b, c, t : b = x[a][1] /\ c = x[a][2] /\ t = IF a <= k THEN "lambda" ELSE "mu"
    OBVIOUS
  <2>2. x[a] \in Brokers \X AppClasses
    OBVIOUS
  <2>3. b \in Brokers /\ c \in AppClasses /\ t \in {"lambda", "mu"}
    BY <2>1, <2>2
  <2>4. c.rate \in Nat /\ c.exchange \in Nat /\ c.storage \in Nat
    BY <2>3, LambdaMuAssumption
  <2>5. as[a] = App(b, c, t)
    BY <1>1, <2>1
  <2>6. /\ App(b, c, t) \in AppSet /\ App(b, c, t).weights = <<>> /\ App(b, c, t).type = t
    BY <2>3, <2>4, EdgesFacts DEF App, AppSet
  <2> QED
    BY <2>1, <2>5, <2>6
<1>3. as \in [1 .. n -> AppSet]
  <2>1. DOMAIN as = 1 .. n /\ as = [a \in 1 .. n |-> as[a]]
    BY <1>1
  <2> QED
    BY <1>2, <2>1
<1>4. OfType(as, "lambda") = 1 .. k /\ OfType(as, "mu") = (k + 1) .. n
  <2>1. \A a \in 1 .. n : (as[a].type = "lambda" <=> a <= k) /\ (as[a].type = "mu" <=> ~ (a <= k))
    BY <1>2
  <2>2. DOMAIN as = 1 .. n
    BY <1>3
  <2>3. OfType(as, "lambda") = {a \in 1 .. n : a <= k} /\ OfType(as, "mu") = {a \in 1 .. n : ~ (a <= k)}
    BY <2>1, <2>2 DEF OfType
  <2>4. k \in Nat /\ k <= n
    OBVIOUS
  <2>5. \A a : a \in 1 .. k <=> a \in 1 .. n /\ a <= k
    BY <2>4
  <2>6. \A a : a \in (k + 1) .. n <=> a \in 1 .. n /\ ~ (a <= k)
    BY <2>4
  <2>7. {a \in 1 .. n : a <= k} = 1 .. k
    BY <2>5
  <2>8. {a \in 1 .. n : ~ (a <= k)} = (k + 1) .. n
    BY <2>6
  <2> QED
    BY <2>3, <2>7, <2>8
<1>5. SumRates(as, 1 .. k) \in Nat
  <2>1. PICK f : f = [a \in 1 .. k |-> as[a].rate]
    OBVIOUS
  <2>2. ASSUME NEW a \in 1 .. k PROVE as[a].rate \in Nat
    <3>1. a \in 1 .. n
      OBVIOUS
    <3>2. PICK y \in AppSet : y = as[a]
      BY <1>3, <3>1
    <3> QED
      BY <3>2 DEF AppSet
  <2>3. \A a \in 1 .. k : f[a] \in Nat
    BY <2>1, <2>2
  <2>4. PICK S : S = 1 .. k
    OBVIOUS
  <2>5. IsFiniteSet(S)
    BY <2>4, FS_Interval
  <2>6. Total(f, S) \in Nat
    BY <2>3, <2>4, <2>5, TotalNat
  <2> QED
    BY <2>1, <2>4, <2>6 DEF SumRates, SumFunction, Total
<1> QED
  BY <1>2, <1>3, <1>4, <1>5

\* All the apps start in an odd period of their trace, a lambda period.
LEMMA PositionsFacts ==
  ASSUME NEW n \in Nat, NEW pos \in Positions(n)
  PROVE  /\ DOMAIN pos = 1 .. n /\ \A a \in 1 .. n : pos[a] \in PosSet /\ Odd(pos[a])
         /\ PoolOK(AppPool(pos), 1 .. n)
<1>1. DOMAIN pos = 1 .. n
  BY DEF Positions
<1>2. ASSUME NEW a \in 1 .. n PROVE pos[a] \in PosSet /\ Odd(pos[a])
  <2>1. pos[a] \in UNION {{[period |-> p, index |-> i] : i \in {k \in DOMAIN p : k % 2 = 1}} : p \in Periods}
    BY DEF Positions
  <2>2. PICK p \in Periods : pos[a] \in {[period |-> p, index |-> i] : i \in {k \in DOMAIN p : k % 2 = 1}}
    BY <2>1
  <2>3. PICK i \in DOMAIN p : i % 2 = 1 /\ pos[a] = [period |-> p, index |-> i]
    BY <2>2
  <2>4. p \in Seq(Nat)
    BY LambdaMuAssumption
  <2>5. i \in Nat /\ i \in 1 .. Len(p)
    BY <2>3, <2>4
  <2> QED
    BY <2>3, <2>5 DEF PosSet, Odd
<1>3. \A a \in 1 .. n : pos[a].period[pos[a].index] \in Nat
  BY <1>2, TurnedFacts
<1>4. PoolOK(AppPool(pos), 1 .. n)
  BY <1>1, <1>3, AppPoolFacts
<1> QED
  BY <1>1, <1>2, <1>4

\* No app is in a mu period: the lists of the edges are empty.
LEMMA NoListsFacts ==
  ASSUME muApps' = NoMuApps, OfType(apps, "mu")' = {}, \A e \in Edges : usable(e)' \in Nat
  PROVE  ListsFor(apps, muApps)'
<1>1. muApps' = [e \in Edges |-> <<>>]
  BY DEF NoMuApps
<1>2. muApps' \in [Edges -> Seq(Nat)]
  BY <1>1
<1>3. ASSUME NEW e \in Edges
      PROVE  /\ Len(muApps'[e]) <= usable(e)'
             /\ ToSet(muApps'[e]) = {a \in OfType(apps, "mu")' : apps'[a].edge = e}
             /\ Len(muApps'[e]) = Cardinality(ToSet(muApps'[e]))
  <2>1. muApps'[e] = <<>> /\ Len(<<>>) = 0 /\ ToSet(<<>>) = {}
    BY <1>1 DEF ToSet
  <2>2. {a \in OfType(apps, "mu")' : apps'[a].edge = e} = {}
    OBVIOUS
  <2>3. Cardinality({}) = 0
    BY FS_EmptySet
  <2>4. PICK s, u : s = muApps'[e] /\ u = usable(e)'
    OBVIOUS
  <2>5. u \in Nat /\ 0 <= u
    BY <2>4
  <2>6. Len(s) = 0 /\ ToSet(s) = {} /\ Cardinality(ToSet(s)) = 0
    BY <2>1, <2>3, <2>4
  <2> QED
    BY <2>2, <2>4, <2>5, <2>6
<1> QED
  BY <1>2, <1>3 DEF ListsFor

\* dynamic(): the apps, the cloud and the pool are made.
LEMMA StartDynamicStep ==
  ASSUME networkCost \in [Brokers -> [Edges -> Nat]], StartDynamic
  PROVE  networkCost' = networkCost /\ algorithms' = algorithms /\ phase' \in {"thrown", "dynamic"}
         /\ (phase' = "dynamic" => DynInv')
<1>1. PICK n \in 0 .. MaxApps : \E bs \in NewApps(n, n), ps \in Positions(n) :
    /\ phase = "none"
    /\ apps' = bs /\ muApps' = NoMuApps
    /\ cloud' = CloudOf(1 + n, SumRates(bs, 1 .. n))
    /\ position' = ps /\ pool' = IF n = 0 THEN <<>> ELSE AppPool(ps)
    /\ clock' = 0 /\ nextEpoch' = 0 /\ optimize' = TRUE /\ numLambda' = n
    /\ costs' = NoCosts
    /\ phase' = IF n = 0 THEN "thrown" ELSE "dynamic"
    /\ UNCHANGED <<algorithms, networkCost>>
  BY DEF StartDynamic
<1>2. PICK as \in NewApps(n, n), pos \in Positions(n) :
    /\ apps' = as /\ muApps' = NoMuApps
    /\ cloud' = CloudOf(1 + n, SumRates(as, 1 .. n))
    /\ position' = pos /\ pool' = IF n = 0 THEN <<>> ELSE AppPool(pos)
    /\ clock' = 0 /\ nextEpoch' = 0 /\ optimize' = TRUE /\ numLambda' = n
    /\ costs' = NoCosts
    /\ phase' = IF n = 0 THEN "thrown" ELSE "dynamic"
    /\ UNCHANGED <<algorithms, networkCost>>
  BY <1>1
<1> SUFFICES ASSUME phase' = "dynamic" PROVE DynInv'
  BY <1>2
<1>3. n \in Nat /\ n > 0 /\ n \in 0 .. n
  BY <1>2, LambdaMuAssumption
<1>4. /\ as \in [1 .. n -> AppSet]
      /\ \A a \in 1 .. n : as[a].weights = <<>> /\ (as[a].type = "lambda" <=> a <= n)
      /\ OfType(as, "lambda") = 1 .. n /\ OfType(as, "mu") = (n + 1) .. n
      /\ SumRates(as, 1 .. n) \in Nat
  BY <1>3, NewAppsFacts
<1>5. PICK r \in Nat : r = SumRates(as, 1 .. n)
  BY <1>4
<1>6. /\ CloudOK(cloud)' /\ numContainers(CLOUD)' = 1 + n /\ (EvenBeta => Local' = r)
      /\ \A e \in Edges : usable(e)' \in Nat
  <2>1. cloud' = CloudOf(1 + n, r) /\ 1 + n \in Nat
    BY <1>2, <1>3, <1>5
  <2> QED
    BY <2>1, CloudOfFacts
<1>7. Apps' = 1 .. n /\ Cardinality(1 .. n) = n
  BY <1>2, <1>3, <1>4, FS_Interval DEF Apps
<1>8. AppsOK'
  BY <1>2, <1>3, <1>4 DEF AppsOK
<1>9. Room'
  <2>1. SumRates(apps, Apps)' = r
    BY <1>2, <1>5, <1>7 DEF SumRates
  <2>2. numContainers(CLOUD)' = n + 1
    BY <1>3, <1>6
  <2>3. EvenBeta => (SumRates(apps, Apps) <= Local)'
    <3>1. r <= r
      OBVIOUS
    <3> QED
      BY <1>6, <2>1, <3>1
  <2>4. Cardinality(Apps)' = n /\ n + 1 <= n + 1
    BY <1>3, <1>7
  <2> QED
    BY <2>2, <2>3, <2>4 DEF Room, EvenBeta
<1>10. /\ OfType(apps, "mu")' = {} /\ OfType(apps, "lambda")' = 1 .. n
       /\ \A a \in 1 .. n : apps'[a].type = "lambda" /\ apps'[a].weights = <<>>
  <2>1. OfType(apps, "mu")' = OfType(as, "mu") /\ OfType(apps, "lambda")' = OfType(as, "lambda")
    BY <1>2 DEF OfType
  <2>2. (n + 1) .. n = {} /\ \A a \in 1 .. n : a <= n
    BY <1>3
  <2> QED
    BY <1>2, <1>4, <2>1, <2>2
<1>11. ListsFor(apps, muApps)'
  BY <1>2, <1>6, <1>10, NoListsFacts
<1>12. NoWeights(apps)'
  BY <1>7, <1>10 DEF NoWeights, Apps
<1>13. CostsFor(apps, costs)'
  <2>1. 1 \in 1 .. n
    BY <1>3
  <2>2. ~ AllUnit(apps)'
    BY <1>7, <1>10, <2>1 DEF AllUnit, Apps
  <2> QED
    BY <2>2 DEF CostsFor, AllUnit
<1>14. numLambda' = Cardinality(OfType(apps, "lambda")')
  BY <1>2, <1>7, <1>10
<1>15. AccountsInv'
  BY <1>6, <1>8, <1>9, <1>11, <1>12, <1>13, <1>14 DEF AccountsInv
<1>16. /\ DOMAIN pos = 1 .. n /\ \A a \in 1 .. n : pos[a] \in PosSet /\ Odd(pos[a])
       /\ PoolOK(AppPool(pos), 1 .. n)
  BY <1>3, PositionsFacts
<1>17. PositionsOK(position, apps)'
  BY <1>2, <1>7, <1>10, <1>16 DEF PositionsOK, Apps
<1>18. TimesOK'
  <2>1. pool' = AppPool(pos)
    BY <1>2, <1>3
  <2> QED
    BY <1>2, <1>3, <1>7, <1>16, <2>1 DEF TimesOK
<1>19. Fresh'
  BY <1>2, <1>7, <1>10 DEF Fresh
<1> QED
  BY <1>15, <1>17, <1>18, <1>19 DEF DynInv

\* snapshot(): the apps and the cloud are made.
LEMMA StartSnapshotStep ==
  ASSUME networkCost \in [Brokers -> [Edges -> Nat]], StartSnapshot
  PROVE  networkCost' = networkCost /\ algorithms' = algorithms /\ phase' = "snapshot" /\ SnapInv'
<1>1. PICK n \in 0 .. MaxApps : \E i \in 0 .. n : \E bs \in NewApps(n, i) :
    /\ apps' = bs /\ muApps' = NoMuApps
    /\ cloud' = CloudOf(1 + n - i, SumRates(bs, 1 .. i))
    /\ numLambda' = i /\ phase' = "snapshot" /\ pool' = <<>> /\ position' = <<>>
    /\ UNCHANGED <<algorithms, networkCost>>
  BY DEF StartSnapshot
<1>2. PICK k \in 0 .. n : \E bs \in NewApps(n, k) :
    /\ apps' = bs /\ muApps' = NoMuApps
    /\ cloud' = CloudOf(1 + n - k, SumRates(bs, 1 .. k))
    /\ numLambda' = k /\ phase' = "snapshot" /\ pool' = <<>> /\ position' = <<>>
    /\ UNCHANGED <<algorithms, networkCost>>
  BY <1>1
<1>3. PICK as \in NewApps(n, k) :
    /\ apps' = as /\ muApps' = NoMuApps
    /\ cloud' = CloudOf(1 + n - k, SumRates(as, 1 .. k))
    /\ numLambda' = k /\ phase' = "snapshot" /\ pool' = <<>> /\ position' = <<>>
    /\ UNCHANGED <<algorithms, networkCost>>
  BY <1>2
<1>4. n \in Nat /\ k \in Nat /\ k <= n
  BY LambdaMuAssumption
<1>5. /\ as \in [1 .. n -> AppSet]
      /\ \A a \in 1 .. n : as[a].weights = <<>> /\ (as[a].type = "lambda" <=> a <= k)
      /\ OfType(as, "lambda") = 1 .. k /\ OfType(as, "mu") = (k + 1) .. n
      /\ SumRates(as, 1 .. k) \in Nat
  BY <1>4, NewAppsFacts
<1>6. PICK r \in Nat : r = SumRates(as, 1 .. k)
  BY <1>5
<1>7. PICK m \in Nat : m = 1 + n - k
  BY <1>4
<1>8. /\ CloudOK(cloud)' /\ numContainers(CLOUD)' = m /\ (EvenBeta => Local' = r)
      /\ \A e \in Edges : usable(e)' \in Nat
  <2>1. cloud' = CloudOf(m, r)
    BY <1>3, <1>6, <1>7
  <2> QED
    BY <2>1, CloudOfFacts
<1>9. AppsOK'
  BY <1>3, <1>4, <1>5 DEF AppsOK
<1>10. /\ OfType(apps, "mu")' = (k + 1) .. n /\ OfType(apps, "lambda")' = 1 .. k
       /\ DOMAIN apps' = 1 .. n /\ \A a \in 1 .. n : apps'[a].weights = <<>>
  BY <1>3, <1>5 DEF OfType
<1>11. Cardinality(1 .. k) = k /\ Cardinality((k + 1) .. n) = n - k
  <2>1. Cardinality(1 .. k) = k
    BY <1>4, FS_Interval
  <2>2. PICK i \in Nat : i = k + 1
    BY <1>4
  <2>3. Cardinality(i .. n) = IF i > n THEN 0 ELSE n - i + 1
    BY <1>4, <2>2, FS_Interval
  <2> QED
    BY <1>4, <2>1, <2>2, <2>3
<1>12. OfType(apps, "mu")' = {} => ListsFor(apps, muApps)'
  BY <1>3, <1>8, NoListsFacts
<1>13. NoWeights(apps)'
  BY <1>10 DEF NoWeights
<1>14. Cardinality(OfType(apps, "mu")') + 1 <= numContainers(CLOUD)'
  BY <1>4, <1>7, <1>8, <1>10, <1>11
<1>15. EvenBeta => SumRates(apps, OfType(apps, "lambda"))' <= Local'
  <2>1. SumRates(apps, OfType(apps, "lambda"))' = r
    BY <1>3, <1>6, <1>10 DEF SumRates
  <2>2. r <= r
    OBVIOUS
  <2> QED
    BY <1>8, <2>1, <2>2
<1>16. numLambda' = Cardinality(OfType(apps, "lambda")')
  BY <1>3, <1>10, <1>11
<1>17. SnapInv'
  BY <1>3, <1>8, <1>9, <1>12, <1>13, <1>14, <1>15, <1>16 DEF SnapInv
<1> QED
  BY <1>3, <1>17

-----------------------------------------------------------------------------
(***************************************************************************)
(* All the scenarios of the batches.                                       *)
(***************************************************************************)
SInv ==
  /\ networkCost \in [Brokers -> [Edges -> Nat]] /\ algorithms \in Algorithms
  /\ phase = "dynamic" => DynInv
  /\ phase = "snapshot" => SnapInv
  /\ phase = "done" => DoneInv

\* The invariant of all the scenarios holds at first,
LEMMA InitSInv ==
  ASSUME Init
  PROVE  SInv
<1>1. networkCost = NetworkCosts /\ phase = "none" /\ algorithms = CHOOSE x \in Algorithms : TRUE
  BY DEF Init, ScenarioInit
<1>2. algorithms \in Algorithms
  BY <1>1, LambdaMuAssumption
<1> QED
  BY <1>1, <1>2, NetworkCostsType DEF SInv

\* is kept by the steps of the batch that do not move a scenario,
LEMMA SameSInv ==
  ASSUME SInv, UNCHANGED scenarioVars
  PROVE  SInv'
<1>1. UNCHANGED <<algorithms, networkCost, cloud, apps, muApps, pool, position, clock, nextEpoch,
                  optimize, numLambda, costs, phase>>
  BY DEF scenarioVars
<1>2. Apps' = Apps
  BY <1>1 DEF Apps
<1>3. TimesOK => TimesOK'
  BY <1>1, <1>2 DEF TimesOK
<1>4. PositionsOK(position, apps) => PositionsOK(position, apps)'
  BY <1>1 DEF PositionsOK
<1>5. Fresh => Fresh'
  BY <1>1, <1>2 DEF Fresh
<1>6. DynInv => DynInv'
  BY <1>1, <1>3, <1>4, <1>5, SameAccounts DEF DynInv
<1>7. (SnapInv => SnapInv') /\ (DoneInv => DoneInv')
  BY <1>1, SameAccounts
<1> QED
  BY <1>1, <1>6, <1>7 DEF SInv

\* by the steps of a scenario,
LEMMA StepSInv ==
  ASSUME SInv, ScenarioStep
  PROVE  SInv'
<1>1. networkCost' = networkCost /\ algorithms' = algorithms
  BY DEF ScenarioStep, NewEpoch, SkipEpoch, Transition, EndDynamic, EndSnapshot
<1>2. CASE NewEpoch
  BY <1>1, <1>2, NewEpochStep DEF SInv, NewEpoch, InEpoch
<1>3. CASE SkipEpoch
  BY <1>1, <1>3, SkipEpochStep DEF SInv, SkipEpoch, InEpoch
<1>4. CASE Transition
  BY <1>1, <1>4, TransitionStep DEF SInv, Transition
<1>5. CASE EndDynamic
  <2>1. DoneInv
    BY <1>5, DynDone DEF SInv, EndDynamic
  <2>2. DoneInv' /\ phase' = "done"
    BY <1>5, <2>1, SameAccounts DEF EndDynamic
  <2> QED
    BY <1>1, <2>2 DEF SInv
<1>6. CASE EndSnapshot
  BY <1>1, <1>6, EndSnapshotStep DEF SInv, EndSnapshot
<1> QED
  BY <1>2, <1>3, <1>4, <1>5, <1>6 DEF ScenarioStep

\* and so by all the steps.
LEMMA NextSInv ==
  ASSUME SInv, [Next]_vars
  PROVE  SInv'
<1>1. \/ UNCHANGED scenarioVars \/ NewScenario \/ ScenarioStep \/ StartDynamic \/ StartSnapshot
  <2>1. CASE run
    BY <2>1 DEF run
  <2>2. CASE PopOutcome \/ Destroy \/ UNCHANGED vars
    BY <2>2 DEF PopOutcome, Destroy, vars
  <2>3. ASSUME NEW w \in Workers, RunScenario(w) \/ StartScenario(w)
        PROVE  ScenarioStep \/ StartDynamic \/ StartSnapshot
    BY <2>3 DEF RunScenario, StartScenario
  <2>4. ASSUME NEW w \in Workers,
               \/ PopSimulation(w) \/ Allocate(w) \/ CallCentral(w) \/ Compare(w) \/ Publish(w)
               \/ CentralFound(w) \/ PerformInEdge(w) \/ Stray(w) \/ EndScenario(w) \/ TellOutcome(w)
        PROVE  UNCHANGED scenarioVars
    BY <2>4 DEF PopSimulation, Allocate, CallCentral, Compare, Publish, CentralFound, PerformInEdge, Stray,
                EndScenario, TellOutcome
  <2> QED
    BY <2>1, <2>2, <2>3, <2>4 DEF Next
<1>2. CASE UNCHANGED scenarioVars
  BY <1>2, SameSInv
<1>3. CASE NewScenario
  BY <1>3 DEF SInv, NewScenario
<1>4. CASE ScenarioStep
  BY <1>4, StepSInv
<1>5. CASE StartDynamic
  <2>1. networkCost' = networkCost /\ algorithms' = algorithms /\ phase' \in {"thrown", "dynamic"}
        /\ (phase' = "dynamic" => DynInv')
    BY <1>5, StartDynamicStep DEF SInv
  <2> QED
    BY <2>1 DEF SInv
<1>6. CASE StartSnapshot
  <2>1. networkCost' = networkCost /\ algorithms' = algorithms /\ phase' = "snapshot" /\ SnapInv'
    BY <1>6, StartSnapshotStep DEF SInv
  <2> QED
    BY <2>1 DEF SInv
<1> QED
  BY <1>1, <1>2, <1>3, <1>4, <1>5, <1>6

\* Whatever the sequence of epochs and transitions (dynamic, snapshot and the
\* migrations of lambdamusim/scenario.cpp): the edges list the apps assigned to them,
\* within the containers left by alpha; the apps follow the periods of their traces;
\* every request of a lambda-app is served once assigned, if no capacity is rounded
\* away; and the costs kept by differences are those of the assignment.
THEOREM SimulationBatchAppsAccounted == Spec => []AppsAccounted
<1>1. Init => SInv
  BY InitSInv
<1>2. SInv /\ [Next]_vars => SInv'
  BY NextSInv
<1>3. SInv => AppsAccounted
  <2> SUFFICES ASSUME SInv, phase \in {"dynamic", "done"}
               PROVE  ListsExact /\ PeriodsFollowed /\ RequestsServed /\ CostsCurrent
    BY DEF AppsAccounted
  <2>1. DoneInv
    BY DynDone DEF SInv
  <2> QED
    BY <2>1, Accounted
<1> QED
  BY <1>1, <1>2, <1>3, PTL DEF Spec
=============================================================================
