----------------------- MODULE LambdaProcessor_proofs -----------------------
(***************************************************************************)
(* Proofs about the nodes that forward requests, for all sets of nodes,    *)
(* computers, lambdas, requests, commands and scenarios.                   *)
(*                                                                         *)
(* First the operators of ForwardingEntries and PtimeEstimators: each      *)
(* keeps an entry coherent, and what it does to the set of destinations.   *)
(* Then the specification: the calls below the innermost one of a request  *)
(* wait for their answer, a call that has selected a destination finds it  *)
(* in its table unless it was withdrawn or has failed, and one that        *)
(* handles a failure has a cause.                                          *)
(*                                                                         *)
(* Induction over lists is done by way of the least index at which a claim *)
(* would fail, lemma NatMin.                                               *)
(***************************************************************************)
EXTENDS LambdaProcessor, FiniteSetTheorems, SequenceTheorems, WellFoundedInduction, TLAPS

Positive == Weights \ {0}

EntryElements == [d : Ends, w : Positive, final : BOOLEAN]

EntryTypes == {"least-impedance", "round-robin", "proportional-fairness", "random"}

ListOK(list) ==
  /\ list \in Seq(EntryElements)
  /\ \A i, j \in DOMAIN list : list[i].d = list[j].d => i = j

Dests(list) == {list[i].d : i \in DOMAIN list}

CacheElements ==
  [w : Positive, timer : {"never", "running", "expired"}, deficit : Int, probing : BOOLEAN]

LeastImpedanceOK(list, min) ==
  IF list = <<>> THEN min = None
  ELSE \E k \in DOMAIN list :
         min = list[k].d /\ \A j \in DOMAIN list : list[k].w <= list[j].w

RoundRobinOK(list, aux) ==
  /\ aux = [cache |-> aux.cache, queue |-> aux.queue]
  /\ aux.cache \in [Dests(list) -> CacheElements]
  /\ aux.queue \subseteq Dests(list)
  /\ \A i \in DOMAIN list : aux.cache[list[i].d].w = list[i].w
  /\ \A d \in Dests(list) : good(aux.cache, d) => d \in aux.queue

AuxOK(type, list, aux) ==
  /\ type = "least-impedance" => LeastImpedanceOK(list, aux)
  /\ type = "round-robin" => RoundRobinOK(list, aux)
  /\ type = "proportional-fairness" => aux = Dests(list)
  /\ type = "random" => aux = InvSum(list)

EntryOK(e) ==
  /\ e = [type |-> e.type, list |-> e.list, aux |-> e.aux]
  /\ e.type \in EntryTypes
  /\ ListOK(e.list)
  /\ AuxOK(e.type, e.list, e.aux)

TableOK(t) ==
  /\ DOMAIN t \subseteq Lambdas
  /\ \A l \in DOMAIN t : EntryOK(t[l])

\* The tables of an estimator follow the table of the base class.
EstimatorOK(kind, t, e) ==
  /\ IsEstimator(e, Lambdas, Ends)
  /\ e.util.computers = e.util.table
  /\ kind.estimator = "rtt" => e.rtt = fullTable(t) /\ e.util.table = {}
  /\ kind.estimator = "util" => e.rtt = fullTable(t) /\ e.util.table = fullTable(t)
  /\ kind.estimator = "delay" => e.util.table = fullTable(t)

TablesOK ==
  /\ DOMAIN tab = Nodes /\ \A n \in Nodes : DOMAIN tab[n] = Tables
  /\ \A n \in Nodes, i \in Tables : TableOK(tab[n][i])
  /\ DOMAIN est = Nodes
  /\ \A n \in Nodes : IF IsRouter(n) THEN IsEstimator(est[n], Lambdas, Ends)
                      ELSE EstimatorOK(conf[n], tab[n][1], est[n])

RestOK ==
  /\ conf \in [Nodes -> Kinds]
  /\ estimates \in [Nodes -> SUBSET Requests]
  /\ latencies \in [Nodes -> [Tables -> SUBSET (Lambdas \X Ends)]]
  /\ balancing \in [Nodes -> [Tables -> SUBSET (Lambdas \X Ends)]]
  /\ answer \in [Requests -> LambdaResponses]
  /\ command \in [Nodes -> EdgeRouterConf \cup {None}]
  /\ \A n \in Nodes : command[n] # None /\ ~ IsRouter(n) => command[n].i = 1
  /\ sent \in 0..MaxCommands
  /\ failed \subseteq Ends
  /\ withdrawn \in [Nodes -> SUBSET Ends]

\* c, t, f and w are the values of conf, tab, failed and withdrawn.  The
\* destination x.d of a call is still where it was found, ...
Found(x, c, t) ==
  IF c[x.node].node = "router"
  THEN Knows(t[x.node][IF x.forward THEN 2 ELSE 1], x.l, x.d)
  ELSE c[x.node].estimator # "probe" => Knows(t[x.node][1], x.l, x.d)

\* ... or there is a reason why it is not.
Caused(x, f, w) == x.d \in f \cup w[x.node]

\* A call has no destination yet; it has one that it calls or has called.
Early == {"arrive", "select"}
Calling == {"getClient", "call", "success"}

FrameOK(x, c, t, f, w) ==
  /\ x \in LambdaRequests
  /\ x.pc \in Calling => x.d \in Ends /\ (Found(x, c, t) \/ Caused(x, f, w))
  /\ x.pc \in {"failure", "failure2", "tell"} => Caused(x, f, w)

StackOK(s, c, t, f, w) ==
  /\ s \in Seq(LambdaRequests)
  /\ \A k \in 1..Len(s) : FrameOK(s[k], c, t, f, w)
  /\ \A k \in 1..(Len(s) - 1) : s[k].pc = "call"
  /\ Len(s) <= MaxHops + 2
  /\ s # <<>> /\ s[Len(s)].pc \notin Early => Len(s) <= MaxHops + 1

StacksOK ==
  DOMAIN stack = Requests /\ \A q \in Requests : StackOK(stack[q], conf, tab, failed, withdrawn)

ToldOK == told \subseteq Nodes \X Ends /\ PurgeHasCause

IInv == TablesOK /\ RestOK /\ StacksOK /\ ToldOK
-----------------------------------------------------------------------------
\* A set of natural numbers that is not empty has a least element.
LEMMA NatMin ==
  ASSUME NEW S \in SUBSET Nat, S # {}
  PROVE  \E x \in S : \A y \in S : x <= y
<1> DEFINE R == OpToRel(<, Nat)
<1>1. IsWellFoundedOn(R, Nat)
  BY NatLessThanWellFounded
<1>2. PICK x \in S : \A y \in S : ~ (<<y, x>> \in R)
  <2> HIDE DEF R
  <2> QED BY <1>1, WFMin
<1>3. R = {p \in Nat \X Nat : p[1] < p[2]}
  BY DEF OpToRel
<1> HIDE DEF R
<1>4. \A y \in S : ~ (y < x)
  BY <1>2, <1>3
<1> QED
  BY <1>4, x \in Nat

\* A finite set of integers that is not empty has a least element.
LEMMA FiniteIntMin ==
  ASSUME NEW S \in SUBSET Int, IsFiniteSet(S), S # {}
  PROVE  \E x \in S : \A y \in S : x <= y
<1> DEFINE Bad == {n \in Nat : \E T \in SUBSET S : /\ T # {} /\ Cardinality(T) = n
                                                   /\ ~ \E x \in T : \A y \in T : x <= y}
<1>1. SUFFICES Bad = {}
  BY FS_CardinalityType DEF Bad
<1>2. SUFFICES ASSUME Bad # {} PROVE FALSE
  OBVIOUS
<1>3. PICK n \in Bad : \A m \in Bad : n <= m
  <2>1. Bad \in SUBSET Nat OBVIOUS
  <2> HIDE DEF Bad
  <2> QED BY <1>2, <2>1, NatMin
<1>4. PICK T \in SUBSET S : /\ T # {} /\ Cardinality(T) = n
                            /\ ~ \E x \in T : \A y \in T : x <= y
  BY <1>3 DEF Bad
<1>5. PICK a \in T : TRUE
  BY <1>4
<1>6. a \in Int
  OBVIOUS
<1>7. T \ {a} # {}
  BY <1>4, <1>6
<1>8. IsFiniteSet(T) /\ IsFiniteSet(T \ {a})
  BY FS_Subset
<1>9. Cardinality(T \ {a}) = n - 1 /\ n \in Nat /\ Cardinality(T \ {a}) \in Nat
  BY <1>4, <1>8, FS_RemoveElement, FS_CardinalityType
<1>10. Cardinality(T \ {a}) \notin Bad
  <2> HIDE DEF Bad
  <2> QED BY <1>3, <1>9
<1>11. PICK x \in T \ {a} : \A y \in T \ {a} : x <= y
  BY <1>7, <1>9, <1>10
<1>12. CASE a <= x
  <2>1. \A y \in T : y \in Int BY <1>4
  <2>2. \A y \in T : a <= y BY <1>11, <1>12, <1>6, <2>1
  <2> QED BY <2>2, <1>4
<1>13. CASE x <= a
  <2>1. \A y \in T : x <= y BY <1>11, <1>13
  <2> QED BY <2>1, <1>4
<1> QED
  BY <1>12, <1>13, <1>6

-----------------------------------------------------------------------------
(***************************************************************************)
(* Lists of destinations.                                                  *)
(***************************************************************************)
LEMMA ListFacts ==
  ASSUME NEW list, ListOK(list)
  PROVE  /\ list \in Seq(EntryElements) /\ Len(list) \in Nat /\ DOMAIN list = 1..Len(list)
         /\ \A k \in DOMAIN list : /\ list[k] \in EntryElements
                                   /\ list[k].d \in Ends /\ list[k].w \in Nat \ {0}
                                   /\ list[k].w \in Positive
                                   /\ list[k].d # None
                                   /\ Index(list, list[k].d) = k
         /\ \A i, j \in DOMAIN list : list[i].d = list[j].d => i = j
         /\ Dests(list) \subseteq Ends
         /\ \A d \in Dests(list) : \E k \in DOMAIN list : list[k].d = d
<1>1. /\ list \in Seq(EntryElements) /\ Len(list) \in Nat /\ DOMAIN list = 1..Len(list)
      /\ \A k \in DOMAIN list : list[k] \in EntryElements
      /\ \A i, j \in DOMAIN list : list[i].d = list[j].d => i = j
  BY DEF ListOK
<1>2. \A x \in EntryElements : /\ x.d \in Ends /\ x.w \in Positive /\ x.w \in Nat \ {0}
                               /\ x.d # None
  BY BoundsAssumption, NamesAssumption DEF EntryElements, Positive
<1>3. \A k \in DOMAIN list : Index(list, list[k].d) = k
  <2>1. SUFFICES ASSUME NEW k \in DOMAIN list PROVE Index(list, list[k].d) = k
    OBVIOUS
  <2>2. \E i \in DOMAIN list : list[i].d = list[k].d
    OBVIOUS
  <2>3. /\ Index(list, list[k].d) \in DOMAIN list
        /\ list[Index(list, list[k].d)].d = list[k].d
    BY <2>2 DEF Index
  <2> QED
    BY <2>3, <1>1
<1> QED
  BY <1>1, <1>2, <1>3 DEF Dests

LEMMA EntryFacts ==
  ASSUME NEW e, EntryOK(e)
  PROVE  /\ ListOK(e.list)
         /\ Elements(e) = {e.list[k] : k \in DOMAIN e.list}
         /\ Destinations(e) = Dests(e.list)
         /\ \A k \in DOMAIN e.list : Element(e, e.list[k].d) = e.list[k]
<1>1. ListOK(e.list)
  BY DEF EntryOK
<1>2. Elements(e) = {e.list[k] : k \in DOMAIN e.list}
  BY DEF Elements, Range
<1>3. Destinations(e) = Dests(e.list)
  BY <1>2 DEF Destinations, Dests
<1>4. ASSUME NEW k \in DOMAIN e.list PROVE Element(e, e.list[k].d) = e.list[k]
  <2>1. \E x \in Elements(e) : x.d = e.list[k].d
    BY <1>2
  <2>2. /\ Element(e, e.list[k].d) \in Elements(e)
        /\ Element(e, e.list[k].d).d = e.list[k].d
    BY <2>1 DEF Element
  <2> QED
    BY <2>2, <1>2, <1>1, ListFacts
<1> QED
  BY <1>1, <1>2, <1>3, <1>4

LEMMA EmptyList == ListOK(<<>>) /\ Dests(<<>>) = {}
  BY DEF ListOK, Dests

LEMMA AppendList ==
  ASSUME NEW list, ListOK(list), NEW x \in EntryElements, x.d \notin Dests(list)
  PROVE  /\ ListOK(Append(list, x))
         /\ Dests(Append(list, x)) = Dests(list) \cup {x.d}
         /\ Len(Append(list, x)) = Len(list) + 1
         /\ \A k \in DOMAIN list : Append(list, x)[k] = list[k]
         /\ Append(list, x)[Len(list) + 1] = x
<1> DEFINE new == Append(list, x)
<1>1. /\ list \in Seq(EntryElements) /\ Len(list) \in Nat /\ DOMAIN list = 1..Len(list)
      /\ \A i, j \in DOMAIN list : list[i].d = list[j].d => i = j
  BY ListFacts
<1>2. /\ new \in Seq(EntryElements) /\ Len(new) = Len(list) + 1
      /\ DOMAIN new = 1..(Len(list) + 1)
      /\ \A k \in DOMAIN list : new[k] = list[k]
      /\ new[Len(list) + 1] = x
  BY <1>1
<1> HIDE DEF new
<1>3. DOMAIN new = DOMAIN list \cup {Len(list) + 1}
  BY <1>1, <1>2
<1>4. Dests(new) = Dests(list) \cup {x.d}
  <2>1. PICK m : m = Len(list) + 1
    OBVIOUS
  <2>2. \A i \in DOMAIN new : (i \in DOMAIN list /\ new[i] = list[i]) \/ new[i] = x
    BY <1>2, <1>3
  <2>3. \A i \in DOMAIN list : i \in DOMAIN new /\ new[i] = list[i]
    BY <1>2, <1>3
  <2>4. m \in DOMAIN new /\ new[m] = x
    BY <1>2, <1>3, <2>1
  <2> QED
    BY <2>2, <2>3, <2>4 DEF Dests
<1>5. \A i, j \in DOMAIN new : new[i].d = new[j].d => i = j
  BY <1>1, <1>2, <1>3 DEF Dests
<1> QED
  BY <1>2, <1>4, <1>5 DEF new, ListOK

LEMMA ReplaceList ==
  ASSUME NEW list, ListOK(list), NEW k \in DOMAIN list, NEW x \in EntryElements,
         x.d = list[k].d
  PROVE  LET new == [list EXCEPT ![k] = x]
         IN /\ ListOK(new) /\ Dests(new) = Dests(list)
            /\ Len(new) = Len(list) /\ DOMAIN new = DOMAIN list
            /\ new[k] = x /\ \A j \in DOMAIN list \ {k} : new[j] = list[j]
<1> DEFINE new == [list EXCEPT ![k] = x]
<1>1. /\ list \in Seq(EntryElements) /\ Len(list) \in Nat /\ DOMAIN list = 1..Len(list)
      /\ \A i, j \in DOMAIN list : list[i].d = list[j].d => i = j
  BY ListFacts
<1>2. /\ new \in Seq(EntryElements) /\ Len(new) = Len(list)
      /\ DOMAIN new = DOMAIN list
      /\ new[k] = x /\ \A j \in DOMAIN list \ {k} : new[j] = list[j]
  BY <1>1
<1> HIDE DEF new
<1>3. \A j \in DOMAIN list : new[j].d = list[j].d
  BY <1>2
<1>4. Dests(new) = Dests(list)
  BY <1>2, <1>3 DEF Dests
<1>5. ListOK(new)
  BY <1>1, <1>2, <1>3 DEF ListOK
<1> QED
  BY <1>2, <1>4, <1>5 DEF new

LEMMA RemoveList ==
  ASSUME NEW list, ListOK(list), NEW k \in DOMAIN list
  PROVE  LET new == RemoveAt(list, k)
         IN /\ ListOK(new) /\ Dests(new) = Dests(list) \ {list[k].d}
            /\ Len(new) = Len(list) - 1
            /\ \A j \in 1..(k - 1) : new[j] = list[j]
            /\ \A j \in k..(Len(list) - 1) : new[j] = list[j + 1]
<1> DEFINE new == RemoveAt(list, k)
<1>1. /\ list \in Seq(EntryElements) /\ Len(list) \in Nat /\ DOMAIN list = 1..Len(list)
      /\ \A i, j \in DOMAIN list : list[i].d = list[j].d => i = j
  BY ListFacts
<1>2. PICK n : n = Len(list)
  OBVIOUS
<1>3. n \in Nat /\ k \in 1..n
  BY <1>1, <1>2
<1>4. /\ SubSeq(list, 1, k - 1) \in Seq(EntryElements) /\ Len(SubSeq(list, 1, k - 1)) = k - 1
      /\ \A j \in 1..(k - 1) : SubSeq(list, 1, k - 1)[j] = list[j]
  BY <1>1, <1>2, <1>3
<1>5. /\ SubSeq(list, k + 1, n) \in Seq(EntryElements) /\ Len(SubSeq(list, k + 1, n)) = n - k
      /\ \A j \in 1..(n - k) : SubSeq(list, k + 1, n)[j] = list[k + j]
  <2>1. /\ k + 1 \in Int /\ n \in Int /\ n - (k + 1) + 1 = n - k
        /\ (IF k + 1 <= n THEN n - (k + 1) + 1 ELSE 0) = n - k
        /\ \A j \in (k + 1)..n : j \in 1..n
        /\ \A j \in 1..(n - k) : (k + 1) + j - 1 = k + j
    BY <1>3
  <2>2. \A j \in (k + 1)..n : list[j] \in EntryElements
    BY <2>1, <1>1, <1>2
  <2>3. PICK rest : rest = SubSeq(list, k + 1, n)
    OBVIOUS
  <2>4. /\ rest \in Seq(EntryElements) /\ Len(rest) = IF k + 1 <= n THEN n - (k + 1) + 1 ELSE 0
        /\ \A j \in 1..(n - (k + 1) + 1) : rest[j] = list[(k + 1) + j - 1]
    BY <2>1, <2>2, <2>3, SubSeqProperties
  <2> QED
    BY <2>1, <2>3, <2>4
<1>6. new = SubSeq(list, 1, k - 1) \o SubSeq(list, k + 1, n)
  BY <1>2 DEF RemoveAt
<1>7. PICK a, b : a = SubSeq(list, 1, k - 1) /\ b = SubSeq(list, k + 1, n)
  OBVIOUS
<1> HIDE DEF new
<1>8. /\ new \in Seq(EntryElements) /\ Len(new) = n - 1
      /\ \A j \in 1..(k - 1) : new[j] = a[j]
      /\ \A j \in k..(n - 1) : new[j] = b[j - (k - 1)]
  <2>1. /\ a \in Seq(EntryElements) /\ Len(a) = k - 1
        /\ b \in Seq(EntryElements) /\ Len(b) = n - k /\ new = a \o b
    BY <1>4, <1>5, <1>6, <1>7
  <2>2. PICK p : p = k - 1
    OBVIOUS
  <2>3. p \in Nat /\ p < n /\ k = p + 1
    BY <1>3, <2>2
  <2>4. PICK m : m = n - k
    OBVIOUS
  <2>5. m \in Nat /\ Len(b) = m /\ Len(a) = p
    BY <2>1, <2>2, <2>4, <1>3
  <2>6. a \o b \in Seq(EntryElements) /\ Len(a \o b) = p + m
    BY <2>1, <2>3, <2>5, ConcatProperties
  <2>7. \A j \in 1..(p + m) : (a \o b)[j] = IF j <= p THEN a[j] ELSE b[j - p]
    BY <2>1, <2>3, <2>5
  <2>8. p + m = n - 1 /\ k - 1 = p
    BY <2>2, <2>4, <1>3
  <2> QED
    BY <2>1, <2>3, <2>6, <2>7, <2>8, <1>3
<1>9. /\ \A j \in 1..(k - 1) : new[j] = list[j]
      /\ \A j \in k..(n - 1) : new[j] = list[j + 1]
  <2>1. /\ \A j \in 1..(k - 1) : a[j] = list[j]
        /\ \A j \in 1..(n - k) : b[j] = list[k + j]
    BY <1>4, <1>5, <1>7
  <2>2. \A j \in k..(n - 1) : j - (k - 1) \in 1..(n - k) /\ k + (j - (k - 1)) = j + 1
    BY <1>3
  <2> QED
    BY <2>1, <2>2, <1>8
<1>10. DOMAIN new = 1..(n - 1)
  BY <1>8
<1>11. \A j \in DOMAIN new :
         \E i \in DOMAIN list \ {k} : /\ new[j] = list[i]
                                      /\ i = IF j < k THEN j ELSE j + 1
  BY <1>9, <1>10, <1>3, <1>2, <1>1
<1>12. \A i \in DOMAIN list \ {k} : \E j \in DOMAIN new : new[j] = list[i]
  <2> TAKE i \in DOMAIN list \ {k}
  <2>1. CASE i < k
    BY <2>1, <1>9, <1>10, <1>3, <1>2, <1>1
  <2>2. CASE i > k
    <3>1. i - 1 \in k..(n - 1) /\ i - 1 \in DOMAIN new /\ (i - 1) + 1 = i
      BY <2>2, <1>10, <1>3, <1>2, <1>1
    <3> QED
      BY <3>1, <1>9
  <2> QED
    BY <2>1, <2>2, <1>3, <1>2, <1>1
<1>13. Dests(new) = Dests(list) \ {list[k].d}
  BY <1>11, <1>12, <1>1 DEF Dests
<1>14. \A i, j \in DOMAIN new : new[i].d = new[j].d => i = j
  BY <1>11, <1>10, <1>1, <1>3
<1>15. ListOK(new)
  BY <1>8, <1>14 DEF ListOK
<1> QED
  BY <1>2, <1>8, <1>9, <1>13, <1>15 DEF new

-----------------------------------------------------------------------------
(***************************************************************************)
(* EntryLeastImpedance: the minimum is kept by each update.                *)
(***************************************************************************)
LEMMA LeastWeightOK ==
  ASSUME NEW list, ListOK(list)
  PROVE  LeastImpedanceOK(list, LeastWeight(list))
<1>1. CASE list = <<>>
  BY <1>1 DEF LeastImpedanceOK, LeastWeight
<1>2. CASE list # <<>>
  <2>1. /\ list \in Seq(EntryElements) /\ Len(list) \in Nat /\ DOMAIN list = 1..Len(list)
        /\ \A k \in DOMAIN list : list[k].w \in Nat
    BY ListFacts
  <2>2. 1 \in DOMAIN list
    BY <1>2, <2>1
  <2> DEFINE weights == {list[k].w : k \in DOMAIN list}
             least(i) == \A j \in DOMAIN list : list[i].w <= list[j].w
             places == {i \in DOMAIN list : least(i)}
             first(i) == least(i) /\ \A j \in 1..(i - 1) : list[j].w > list[i].w
  <2>3. PICK w \in weights : \A v \in weights : w <= v
    <3>1. weights \in SUBSET Nat /\ weights # {} BY <2>1, <2>2
    <3> HIDE DEF weights
    <3> QED BY <3>1, NatMin
  <2>4. PICK i \in places : \A j \in places : i <= j
    <3>1. places # {} BY <2>3
    <3>2. places \in SUBSET Nat BY <2>1
    <3> HIDE DEF places
    <3> QED BY <3>1, <3>2, NatMin
  <2>5. first(i)
    <3>1. least(i) /\ i \in DOMAIN list OBVIOUS
    <3>2. ASSUME NEW j \in 1..(i - 1), ~ (list[j].w > list[i].w) PROVE FALSE
      <4>1. j \in DOMAIN list /\ j < i BY <2>1, <3>1
      <4>2. list[j].w <= list[i].w BY <3>2, <4>1, <3>1, <2>1
      <4>3. \A k \in DOMAIN list : list[j].w <= list[k].w
        BY <4>1, <4>2, <3>1, <2>1
      <4> QED BY <4>1, <4>3, <2>4, <2>1
    <3> QED BY <3>1, <3>2
  <2>6. PICK k : k = CHOOSE j \in DOMAIN list : first(j)
    OBVIOUS
  <2>7. k \in DOMAIN list /\ first(k)
    BY <2>5, <2>6
  <2>8. LeastWeight(list) = list[k].d
    BY <1>2, <2>6 DEF LeastWeight
  <2> QED
    BY <1>2, <2>7, <2>8 DEF LeastImpedanceOK
<1> QED
  BY <1>1, <1>2

LEMMA LeastImpedanceChange ==
  ASSUME NEW list, ListOK(list), NEW min, LeastImpedanceOK(list, min),
         NEW k \in DOMAIN list, NEW x \in EntryElements, x.d = list[k].d
  PROVE  LET new == [list EXCEPT ![k] = x]
         IN LeastImpedanceOK(new, LI_updateWeight(new, min, list[k].w, x.w))
<1>1. PICK new : new = [list EXCEPT ![k] = x]
  OBVIOUS
<1>2. /\ ListOK(new) /\ DOMAIN new = DOMAIN list
      /\ new[k] = x /\ \A j \in DOMAIN list \ {k} : new[j] = list[j]
  BY <1>1, ReplaceList
<1>3. list # <<>> /\ new # <<>>
  BY <1>2
<1>4. PICK m \in DOMAIN list :
        min = list[m].d /\ \A j \in DOMAIN list : list[m].w <= list[j].w
  BY <1>3 DEF LeastImpedanceOK
<1>5. new[m].d = min /\ Index(new, min) = m
  <2>1. new[m].d = min
    BY <1>2, <1>4
  <2> QED
    BY <2>1, <1>2, <1>4, ListFacts
<1>6. \A j \in DOMAIN list : list[j].w \in Nat /\ new[j].w \in Nat
  BY <1>2, ListFacts
<1>7. CASE x.w <= new[m].w \/ list[k].w = new[m].w
  <2>1. LI_updateWeight(new, min, list[k].w, x.w) = LeastWeight(new)
    BY <1>7, <1>5 DEF LI_updateWeight
  <2> QED
    BY <2>1, <1>2, LeastWeightOK, <1>1
<1>8. CASE ~ (x.w <= new[m].w \/ list[k].w = new[m].w)
  <2>1. LI_updateWeight(new, min, list[k].w, x.w) = min
    BY <1>8, <1>5 DEF LI_updateWeight
  <2>2. m # k
    BY <1>8, <1>2, <1>6
  <2>3. \A j \in DOMAIN new : new[m].w <= new[j].w
    BY <2>2, <1>2, <1>4, <1>6, <1>8
  <2> QED
    BY <2>1, <2>3, <1>3, <1>2, <1>5, <1>1, <1>4 DEF LeastImpedanceOK
<1> QED
  BY <1>7, <1>8

LEMMA LeastImpedanceAdd ==
  ASSUME NEW list, ListOK(list), NEW min, LeastImpedanceOK(list, min),
         NEW x \in EntryElements, x.d \notin Dests(list)
  PROVE  LET new == Append(list, x)
         IN LeastImpedanceOK(new, LI_updateAddDest(new, min, x.w))
<1>1. PICK new : new = Append(list, x)
  OBVIOUS
<1>2. /\ ListOK(new) /\ Len(new) = Len(list) + 1
      /\ \A j \in DOMAIN list : new[j] = list[j]
      /\ new[Len(list) + 1] = x
  BY <1>1, AppendList
<1>3. /\ Len(list) \in Nat /\ DOMAIN list = 1..Len(list) /\ DOMAIN new = 1..(Len(list) + 1)
      /\ new # <<>>
      /\ \A j \in DOMAIN new : new[j].w \in Nat
  BY <1>2, ListFacts
<1>4. CASE list = <<>>
  <2>1. LI_updateAddDest(new, min, x.w) = new[1].d
    BY <1>4 DEF LI_updateAddDest, LeastImpedanceOK
  <2>2. DOMAIN new = {1}
    BY <1>3, <1>4
  <2> QED
    BY <2>1, <2>2, <1>3, <1>1 DEF LeastImpedanceOK
<1>5. CASE list # <<>>
  <2>1. PICK m \in DOMAIN list :
          min = list[m].d /\ \A j \in DOMAIN list : list[m].w <= list[j].w
    BY <1>5 DEF LeastImpedanceOK
  <2>2. min # None
    BY <2>1, ListFacts
  <2>3. m \in DOMAIN new /\ new[m] = list[m] /\ Index(new, min) = m
    <3>1. m \in DOMAIN new /\ new[m] = list[m]
      BY <1>2, <1>3
    <3> QED
      BY <3>1, <2>1, <1>2, ListFacts
  <2>4. CASE x.w < new[m].w
    <3>1. LI_updateAddDest(new, min, x.w) = LeastWeight(new)
      BY <2>2, <2>3, <2>4 DEF LI_updateAddDest
    <3> QED
      BY <3>1, <1>1, <1>2, LeastWeightOK
  <2>5. CASE ~ (x.w < new[m].w)
    <3>1. LI_updateAddDest(new, min, x.w) = min
      BY <2>2, <2>3, <2>5 DEF LI_updateAddDest
    <3>2. \A j \in DOMAIN new : new[m].w <= new[j].w
      <4> TAKE j \in DOMAIN new
      <4>1. j \in DOMAIN list \/ j = Len(list) + 1
        BY <1>3
      <4>2. x.w \in Nat /\ new[m].w \in Nat
        BY <1>2, <1>3, <2>3
      <4> QED
        BY <4>1, <4>2, <2>1, <2>3, <2>5, <1>2
    <3> QED
      BY <3>1, <3>2, <1>1, <1>3, <2>1, <2>3 DEF LeastImpedanceOK
  <2> QED
    BY <2>4, <2>5
<1> QED
  BY <1>4, <1>5

LEMMA LeastImpedanceRemove ==
  ASSUME NEW list, ListOK(list), NEW min, LeastImpedanceOK(list, min),
         NEW k \in DOMAIN list
  PROVE  LET new == RemoveAt(list, k)
         IN LeastImpedanceOK(new, LI_updateDelDest(new, min, list[k].d, list[k].w))
<1>1. PICK new : new = RemoveAt(list, k)
  OBVIOUS
<1>2. ListOK(new) /\ Dests(new) = Dests(list) \ {list[k].d}
  BY <1>1, RemoveList
<1>3. list # <<>>
  OBVIOUS
<1>4. PICK m \in DOMAIN list :
        min = list[m].d /\ \A j \in DOMAIN list : list[m].w <= list[j].w
  BY <1>3 DEF LeastImpedanceOK
<1>5. CASE min = list[k].d \/ new[Index(new, min)].w = list[k].w
  <2>1. LI_updateDelDest(new, min, list[k].d, list[k].w) = LeastWeight(new)
    BY <1>5 DEF LI_updateDelDest
  <2> QED
    BY <2>1, <1>1, <1>2, LeastWeightOK
<1>6. CASE ~ (min = list[k].d \/ new[Index(new, min)].w = list[k].w)
  <2>1. LI_updateDelDest(new, min, list[k].d, list[k].w) = min
    BY <1>6 DEF LI_updateDelDest
  <2>2. \A j \in DOMAIN new : \E i \in DOMAIN list : new[j] = list[i]
    <3>1. /\ Len(new) = Len(list) - 1
          /\ \A j \in 1..(k - 1) : new[j] = list[j]
          /\ \A j \in k..(Len(list) - 1) : new[j] = list[j + 1]
      BY <1>1, RemoveList
    <3>2. Len(list) \in Nat /\ DOMAIN list = 1..Len(list) /\ DOMAIN new = 1..Len(new)
      BY <1>2, ListFacts
    <3> TAKE j \in DOMAIN new
    <3>3. CASE j < k
      BY <3>1, <3>2, <3>3
    <3>4. CASE j >= k
      <4>1. j \in k..(Len(list) - 1) /\ j + 1 \in DOMAIN list
        BY <3>1, <3>2, <3>4
      <4> QED
        BY <4>1, <3>1
    <3> QED
      BY <3>2, <3>3, <3>4
  <2>3. min \in Dests(new)
    BY <1>2, <1>4, <1>6 DEF Dests
  <2>4. PICK i \in DOMAIN new : new[i].d = min
    BY <2>3 DEF Dests
  <2>5. new[i] = list[m]
    BY <2>2, <2>4, <1>4, ListFacts
  <2>6. \A j \in DOMAIN new : new[i].w <= new[j].w
    BY <2>2, <2>5, <1>4
  <2>7. new # <<>>
    BY <2>4
  <2> QED
    BY <2>1, <2>4, <2>6, <2>7, <1>1 DEF LeastImpedanceOK
<1> QED
  BY <1>5, <1>6

-----------------------------------------------------------------------------
(***************************************************************************)
(* EntryRoundRobin: the cache follows the list, and every good destination *)
(* is active after each update.                                            *)
(***************************************************************************)
LEMMA FiniteDests ==
  ASSUME NEW list, ListOK(list)
  PROVE  IsFiniteSet(Dests(list)) /\ Cardinality(Dests(list)) = Len(list)
<1>1. Len(list) \in Nat /\ DOMAIN list = 1..Len(list)
  BY ListFacts
<1>2. PICK f : f = [i \in 1..Len(list) |-> list[i].d]
  OBVIOUS
<1>3. f \in Bijection(1..Len(list), Dests(list))
  <2>1. f \in [1..Len(list) -> Dests(list)]
    BY <1>1, <1>2 DEF Dests
  <2>2. \A i, j \in 1..Len(list) : f[i] = f[j] => i = j
    BY <1>1, <1>2, ListFacts
  <2>3. \A d \in Dests(list) : \E i \in 1..Len(list) : f[i] = d
    BY <1>1, <1>2 DEF Dests
  <2> QED
    BY <2>1, <2>2, <2>3 DEF Bijection, Injection, Surjection, IsInjective
<1>4. ExistsBijection(1..Len(list), Dests(list))
  BY <1>3 DEF ExistsBijection
<1> QED
  BY <1>1, <1>4, FS_CountingElements, FS_NatBijection

LEMMA CacheFacts ==
  ASSUME NEW x \in CacheElements
  PROVE  /\ x.w \in Positive /\ x.w \in Nat \ {0} /\ x.deficit \in Int
         /\ x.timer \in {"never", "running", "expired"} /\ x.probing \in BOOLEAN
  BY BoundsAssumption DEF CacheElements, Positive

LEMMA minDeficitInt ==
  ASSUME NEW D, IsFiniteSet(D), NEW cache \in [D -> CacheElements], NEW queue \in SUBSET D
  PROVE  minDeficit(cache, queue) \in Int
<1>1. CASE queue = {}
  BY <1>1, NumbersAssumption DEF minDeficit
<1>2. CASE queue # {}
  <2>1. PICK S : S = {cache[d].deficit : d \in queue}
    OBVIOUS
  <2>2. S # {} /\ S \subseteq Int
    BY <1>2, <2>1, CacheFacts
  <2>3. IsFiniteSet(S)
    <3>1. IsFiniteSet(queue)
      BY FS_Subset
    <3>2. [d \in queue |-> cache[d].deficit] \in Surjection(queue, S)
      BY <2>1 DEF Surjection
    <3> QED
      BY <3>1, <3>2, FS_Surjection
  <2>4. \E x \in S : \A y \in S : x <= y
    BY <2>2, <2>3, FiniteIntMin
  <2>5. Min(S) \in S
    BY <2>4 DEF Min
  <2> QED
    BY <1>2, <2>1, <2>2, <2>5 DEF minDeficit
<1> QED
  BY <1>1, <1>2

LEMMA SameGood ==
  ASSUME NEW D, NEW a \in [D -> CacheElements], NEW b \in [D -> CacheElements],
         \A d \in D : a[d].w = b[d].w
  PROVE  \A d \in D : good(a, d) <=> good(b, d)
<1>1. {a[x].w : x \in DOMAIN a} = {b[x].w : x \in DOMAIN b} /\ DOMAIN a = DOMAIN b
  OBVIOUS
<1> QED
  BY <1>1 DEF good

LEMMA SomeGood ==
  ASSUME NEW D, D # {}, NEW cache \in [D -> CacheElements]
  PROVE  \E d \in D : good(cache, d)
<1>1. PICK S : S = {cache[x].w : x \in DOMAIN cache}
  OBVIOUS
<1>2. S # {} /\ S \subseteq Nat
  BY <1>1, CacheFacts
<1>3. \E x \in S : \A y \in S : x <= y
  BY <1>2, NatMin
<1>4. Min(S) \in S
  BY <1>3 DEF Min
<1>5. PICK d \in D : cache[d].w = Min(S)
  BY <1>1, <1>4
<1>6. Min(S) \in Nat
  BY <1>2, <1>4
<1>7. cache[d].w <= 2 * Min(S)
  BY <1>5, <1>6
<1> QED
  BY <1>1, <1>7 DEF good

LEMMA ActiveSet ==
  ASSUME NEW D, NEW cache \in [D -> CacheElements], NEW least \in Int
  PROVE  LET r == updateActiveSet(cache, least)
         IN /\ r = [cache |-> r.cache, queue |-> r.queue]
            /\ r.cache \in [D -> CacheElements]
            /\ \A d \in D : r.cache[d].w = cache[d].w
            /\ r.queue \subseteq D
            /\ \A d \in D : good(r.cache, d) => d \in r.queue
<1>1. PICK r : r = updateActiveSet(cache, least)
  OBVIOUS
<1>2. PICK c, q :
        /\ c = [d \in DOMAIN cache |->
                 IF ~ good(cache, d) /\ cache[d].timer = "expired"
                 THEN [cache[d] EXCEPT !.timer = "never", !.deficit = least, !.probing = TRUE]
                 ELSE IF good(cache, d) \/ cache[d].timer = "running"
                      THEN [cache[d] EXCEPT !.probing = FALSE]
                      ELSE cache[d]]
        /\ q = {d \in DOMAIN cache : \/ good(cache, d)
                                     \/ cache[d].timer = "never"
                                     \/ (~ good(cache, d) /\ cache[d].timer = "expired")}
  OBVIOUS
<1>3. r = [cache |-> c, queue |-> q]
  BY <1>1, <1>2 DEF updateActiveSet
<1>4. \A x \in CacheElements :
        /\ [x EXCEPT !.timer = "never", !.deficit = least, !.probing = TRUE] \in CacheElements
        /\ [x EXCEPT !.timer = "never", !.deficit = least, !.probing = TRUE].w = x.w
        /\ [x EXCEPT !.probing = FALSE] \in CacheElements
        /\ [x EXCEPT !.probing = FALSE].w = x.w
  BY DEF CacheElements
<1>5. c \in [D -> CacheElements] /\ \A d \in D : c[d].w = cache[d].w
  BY <1>2, <1>4
<1>6. q \subseteq D /\ \A d \in D : good(cache, d) => d \in q
  BY <1>2
<1>7. \A d \in D : good(c, d) => d \in q
  BY <1>5, <1>6, SameGood
<1> QED
  BY <1>1, <1>3, <1>5, <1>6, <1>7

LEMMA RoundRobinChange ==
  ASSUME NEW list, ListOK(list), NEW aux, RoundRobinOK(list, aux),
         NEW k \in DOMAIN list, NEW x \in EntryElements, x.d = list[k].d
  PROVE  RoundRobinOK([list EXCEPT ![k] = x], RR_updateWeight(aux, x.d, x.w))
<1>1. PICK new, D, cache : /\ new = [list EXCEPT ![k] = x]
                           /\ D = Dests(list) /\ cache = aux.cache
  OBVIOUS
<1>2. /\ ListOK(new) /\ Dests(new) = D /\ DOMAIN new = DOMAIN list
      /\ new[k] = x /\ \A j \in DOMAIN list \ {k} : new[j] = list[j]
  BY <1>1, ReplaceList
<1>3. /\ cache \in [D -> CacheElements] /\ aux.queue \subseteq D
      /\ \A i \in DOMAIN list : cache[list[i].d].w = list[i].w
      /\ IsFiniteSet(D) /\ x.d \in D /\ x.w \in Positive
  BY <1>1, FiniteDests DEF RoundRobinOK, Dests, EntryElements
<1>4. PICK least : least = minDeficit(cache, aux.queue)
  OBVIOUS
<1>5. least \in Int
  BY <1>3, <1>4, minDeficitInt
<1>6. PICK weighted : weighted = [cache EXCEPT ![x.d].w = x.w, ![x.d].timer = "running"]
  OBVIOUS
<1>7. /\ weighted \in [D -> CacheElements]
      /\ weighted[x.d].w = x.w /\ \A d \in D \ {x.d} : weighted[d] = cache[d]
  <2>1. cache[x.d] \in CacheElements
    BY <1>3
  <2>2. PICK y : y = [cache[x.d] EXCEPT !.w = x.w, !.timer = "running"]
    OBVIOUS
  <2>3. y \in CacheElements /\ y.w = x.w
    BY <1>3, <2>1, <2>2 DEF CacheElements
  <2>4. weighted = [cache EXCEPT ![x.d] = y]
    BY <1>3, <1>6, <2>1, <2>2 DEF CacheElements
  <2> QED
    BY <2>3, <2>4, <1>3
<1>8. PICK shifted :
        shifted = [d \in DOMAIN weighted |-> [weighted[d] EXCEPT !.deficit = @ - least]]
  OBVIOUS
<1>9. /\ shifted \in [D -> CacheElements]
      /\ \A d \in D : shifted[d].w = weighted[d].w
  <2>1. \A y \in CacheElements : /\ [y EXCEPT !.deficit = @ - least] \in CacheElements
                                 /\ [y EXCEPT !.deficit = @ - least].w = y.w
    BY <1>5 DEF CacheElements
  <2> QED
    BY <1>7, <1>8, <2>1
<1>10. minDeficit(shifted, aux.queue) \in Int
  BY <1>3, <1>9, minDeficitInt
<1>11. PICK r : r = updateActiveSet(shifted, minDeficit(shifted, aux.queue))
  OBVIOUS
<1>12. r = RR_updateWeight(aux, x.d, x.w)
  <2>1. /\ weighted = [aux.cache EXCEPT ![x.d].w = x.w, ![x.d].timer = "running"]
        /\ least = minDeficit(aux.cache, aux.queue)
    BY <1>1, <1>4, <1>6
  <2> QED
    BY <2>1, <1>8, <1>11, Zenon DEF RR_updateWeight
<1>13. /\ r = [cache |-> r.cache, queue |-> r.queue]
       /\ r.cache \in [D -> CacheElements]
       /\ \A d \in D : r.cache[d].w = shifted[d].w
       /\ r.queue \subseteq D
       /\ \A d \in D : good(r.cache, d) => d \in r.queue
  BY <1>9, <1>10, <1>11, ActiveSet
<1>14. ASSUME NEW i \in DOMAIN new PROVE r.cache[new[i].d].w = new[i].w
  <2>1. new[i].d \in D
    BY <1>2 DEF Dests
  <2>2. CASE i = k
    BY <2>1, <2>2, <1>2, <1>7, <1>9, <1>13
  <2>3. CASE i # k
    <3>1. new[i] = list[i] /\ list[i].d # x.d
      BY <2>3, <1>2, ListFacts
    <3> QED
      BY <2>1, <3>1, <1>2, <1>3, <1>7, <1>9, <1>13
  <2> QED
    BY <2>2, <2>3
<1> QED
  BY <1>1, <1>2, <1>12, <1>13, <1>14 DEF RoundRobinOK

\* After destinations were added or erased: the cache is the one of a list that
\* had the same destinations, or others.
LEMMA RoundRobinList ==
  ASSUME NEW list, ListOK(list), NEW aux, RoundRobinOK(list, aux), NEW new, ListOK(new)
  PROVE  RoundRobinOK(new, updateList(new, aux))
<1>1. CASE new = <<>>
  <2>1. updateList(new, aux) = [cache |-> <<>>, queue |-> {}]
    BY <1>1 DEF updateList
  <2>2. Dests(new) = {} /\ DOMAIN new = {}
    BY <1>1, EmptyList
  <2>3. <<>> \in [{} -> CacheElements]
    OBVIOUS
  <2> QED
    BY <2>1, <2>2, <2>3 DEF RoundRobinOK
<1>2. CASE new # <<>>
  <2>1. PICK D : D = Dests(new)
    OBVIOUS
  <2>2. PICK least : least = minDeficit(aux.cache, aux.queue)
    OBVIOUS
  <2>3. least \in Int
    BY <2>2, FiniteDests, minDeficitInt DEF RoundRobinOK
  <2>4. PICK cache : cache = [d \in {new[i].d : i \in DOMAIN new} |->
                       IF d \in DOMAIN aux.cache
                       THEN [aux.cache[d] EXCEPT !.w = new[Index(new, d)].w]
                       ELSE CacheElement(new[Index(new, d)].w, least)]
    OBVIOUS
  <2>5. updateList(new, aux) = updateActiveSet(cache, least)
    BY <1>2, <2>2, <2>4 DEF updateList
  <2>6. \A d \in D : new[Index(new, d)].w \in Positive
    BY <2>1, ListFacts
  <2>7. \A y \in CacheElements, w \in Positive :
          [y EXCEPT !.w = w] \in CacheElements /\ [y EXCEPT !.w = w].w = w
    BY DEF CacheElements
  <2>8. \A w \in Positive :
          CacheElement(w, least) \in CacheElements /\ CacheElement(w, least).w = w
    BY <2>3 DEF CacheElements, CacheElement
  <2>9. \A d \in DOMAIN aux.cache : aux.cache[d] \in CacheElements
    BY DEF RoundRobinOK
  <2>10. /\ cache \in [D -> CacheElements]
         /\ \A d \in D : cache[d].w = new[Index(new, d)].w
    <3>1. cache = [d \in D |-> IF d \in DOMAIN aux.cache
                               THEN [aux.cache[d] EXCEPT !.w = new[Index(new, d)].w]
                               ELSE CacheElement(new[Index(new, d)].w, least)]
      BY <2>1, <2>4 DEF Dests
    <3>2. ASSUME NEW d \in D
          PROVE  cache[d] \in CacheElements /\ cache[d].w = new[Index(new, d)].w
      <4>1. CASE d \in DOMAIN aux.cache
        BY <4>1, <3>1, <2>6, <2>7, <2>9
      <4>2. CASE d \notin DOMAIN aux.cache
        BY <4>2, <3>1, <2>6, <2>8
      <4> QED
        BY <4>1, <4>2
    <3> QED
      BY <3>1, <3>2
  <2>11. PICK r : r = updateActiveSet(cache, least)
    OBVIOUS
  <2>12. /\ r = [cache |-> r.cache, queue |-> r.queue]
         /\ r.cache \in [D -> CacheElements]
         /\ \A d \in D : r.cache[d].w = cache[d].w
         /\ r.queue \subseteq D
         /\ \A d \in D : good(r.cache, d) => d \in r.queue
    BY <2>3, <2>10, <2>11, ActiveSet
  <2>13. \A i \in DOMAIN new : new[i].d \in D /\ Index(new, new[i].d) = i
    BY <2>1, ListFacts DEF Dests
  <2> QED
    BY <2>1, <2>5, <2>10, <2>11, <2>12, <2>13 DEF RoundRobinOK
<1> QED
  BY <1>1, <1>2

-----------------------------------------------------------------------------
(***************************************************************************)
(* EntryRandom: theInvSum stays the sum of the inverse weights.            *)
(***************************************************************************)
InverseWeight(x) == Unit \div x.w

\* s[i] is the sum of the first i inverse weights of the list.
IsSum(s, list) ==
  /\ s \in [0..Len(list) -> Int]
  /\ s[0] = 0
  /\ \A i \in 1..Len(list) : s[i] = s[i - 1] + InverseWeight(list[i])

LEMMA InverseInt ==
  ASSUME NEW list, ListOK(list), NEW i \in DOMAIN list
  PROVE  InverseWeight(list[i]) \in Int
  BY ListFacts, NumbersAssumption DEF InverseWeight

LEMMA SumOfList ==
  ASSUME NEW list, ListOK(list)
  PROVE  \E s : IsSum(s, list) /\ InvSum(list) = s[Len(list)]
<1>1. PICK n : n = Len(list)
  OBVIOUS
<1>2. n \in Nat /\ DOMAIN list = 1..n
  BY <1>1, ListFacts
<1> DEFINE Sum(s, m) == s = [i \in 0..m |-> IF i = 0 THEN 0 ELSE s[i - 1] + Unit \div list[i].w]
           Ints(s, m) == s \in [0..m -> Int]
           Bad == {m \in 0..n : ~ \E s : Sum(s, m) /\ Ints(s, m)}
<1>3. Bad = {}
  <2>1. SUFFICES ASSUME Bad # {} PROVE FALSE
    OBVIOUS
  <2>2. PICK m \in Bad : \A j \in Bad : m <= j
    <3>1. Bad \in SUBSET Nat BY <1>2
    <3> HIDE DEF Bad
    <3> QED BY <2>1, <3>1, NatMin
  <2>3. m \in 0..n /\ m \in Nat /\ ~ \E s : Sum(s, m) /\ Ints(s, m)
    BY <1>2
  <2>4. CASE m = 0
    <3>1. PICK s : s = [i \in 0..0 |-> 0]
      OBVIOUS
    <3>2. Sum(s, 0) /\ Ints(s, 0)
      BY <3>1
    <3> QED
      BY <2>3, <2>4, <3>2
  <2>5. CASE m # 0
    <3>1. m - 1 \in 0..n /\ m - 1 \notin Bad
      <4>1. m - 1 \in 0..n /\ ~ (m <= m - 1) BY <2>3, <2>5, <1>2
      <4> HIDE DEF Bad
      <4> QED BY <4>1, <2>2
    <3>2. PICK s : Sum(s, m - 1) /\ Ints(s, m - 1)
      BY <3>1
    <3>3. PICK t : t = [i \in 0..m |-> IF i = m THEN s[m - 1] + Unit \div list[m].w ELSE s[i]]
      OBVIOUS
    <3>4. Unit \div list[m].w \in Int
      BY <2>3, <2>5, <1>2, InverseInt DEF InverseWeight
    <3>5. \A i \in 0..m : i # m => i \in 0..(m - 1) /\ i - 1 # m
      BY <2>3
    <3>6. Ints(t, m)
      BY <3>2, <3>3, <3>4, <3>5, <2>3, <2>5
    <3>7. \A i \in 0..m : t[i] = IF i = 0 THEN 0 ELSE t[i - 1] + Unit \div list[i].w
      <4> TAKE i \in 0..m
      <4>1. CASE i = m
        BY <4>1, <3>3, <2>3, <2>5
      <4>2. CASE i # m /\ i = 0
        BY <4>2, <3>2, <3>3, <3>5
      <4>3. CASE i # m /\ i # 0
        <5>1. i \in 0..(m - 1) /\ i - 1 \in 0..m /\ i - 1 # m
          BY <4>3, <2>3
        <5>2. t[i] = s[i] /\ t[i - 1] = s[i - 1]
          BY <5>1, <4>3, <3>3
        <5>3. s[i] = s[i - 1] + Unit \div list[i].w
          BY <5>1, <4>3, <3>2
        <5> QED
          BY <5>2, <5>3, <4>3
      <4> QED
        BY <4>1, <4>2, <4>3
    <3>8. Sum(t, m)
      <4>1. t = [i \in 0..m |-> t[i]] BY <3>3
      <4> QED BY <4>1, <3>7
    <3> QED
      BY <2>3, <3>6, <3>8
  <2> QED
    BY <2>4, <2>5
<1>4. \E s : Sum(s, n) /\ Ints(s, n)
  <2>1. n \in 0..n BY <1>2
  <2>2. n \notin Bad BY <1>3
  <2> HIDE DEF Sum, Ints
  <2> QED BY <2>1, <2>2
<1>5. PICK t : t = CHOOSE s : s = [i \in 0..Len(list) |->
                               IF i = 0 THEN 0 ELSE s[i - 1] + Unit \div list[i].w]
  OBVIOUS
<1>6. Sum(t, n)
  BY <1>1, <1>4, <1>5
<1>7. InvSum(list) = t[Len(list)]
  BY <1>5 DEF InvSum
<1>8. PICK s : Sum(s, n) /\ Ints(s, n)
  BY <1>4
<1>9. \A i \in 0..n : t[i] = s[i]
  <2> DEFINE Differ == {i \in 0..n : t[i] # s[i]}
  <2>1. SUFFICES ASSUME Differ # {} PROVE FALSE
    OBVIOUS
  <2>2. PICK m \in Differ : \A j \in Differ : m <= j
    <3>1. Differ \in SUBSET Nat BY <1>2
    <3> HIDE DEF Differ
    <3> QED BY <2>1, <3>1, NatMin
  <2>3. m \in 0..n /\ t[m] # s[m]
    OBVIOUS
  <2>4. t[m] = IF m = 0 THEN 0 ELSE t[m - 1] + Unit \div list[m].w
    BY <1>6, <2>3
  <2>5. s[m] = IF m = 0 THEN 0 ELSE s[m - 1] + Unit \div list[m].w
    BY <1>8, <2>3
  <2>6. m # 0
    BY <2>3, <2>4, <2>5
  <2>7. m - 1 \in 0..n /\ ~ (m <= m - 1)
    BY <2>3, <2>6, <1>2
  <2>8. t[m - 1] = s[m - 1]
    BY <2>2, <2>7
  <2> QED
    BY <2>3, <2>4, <2>5, <2>6, <2>8
<1>10. IsSum(t, list)
  <2>1. t \in [0..n -> Int]
    <3>1. t = [i \in 0..n |-> t[i]] BY <1>6
    <3> QED BY <3>1, <1>8, <1>9
  <2>2. \A i \in 0..n : t[i] = IF i = 0 THEN 0 ELSE t[i - 1] + Unit \div list[i].w
    BY <1>6
  <2> QED
    BY <1>1, <1>2, <2>1, <2>2 DEF IsSum, InverseWeight
<1> QED
  BY <1>7, <1>10

\* Two lists that agree up to p have the same sums up to p.
AgreeUpTo(a, b, p) ==
  /\ Len(a) \in Nat /\ Len(b) \in Nat /\ p \in Nat /\ p <= Len(a) /\ p <= Len(b)
  /\ \A i \in 1..p : a[i].w = b[i].w

LEMMA SamePrefix ==
  ASSUME NEW a, NEW b, NEW s, NEW t, IsSum(s, a), IsSum(t, b), NEW p, AgreeUpTo(a, b, p)
  PROVE  \A i \in 0..p : s[i] = t[i]
<1> USE DEF AgreeUpTo
<1> DEFINE Differ == {i \in 0..p : t[i] # s[i]}
<1>1. SUFFICES ASSUME Differ # {} PROVE FALSE
  OBVIOUS
<1>2. PICK m \in Differ : \A j \in Differ : m <= j
  <2>1. Differ \in SUBSET Nat OBVIOUS
  <2> HIDE DEF Differ
  <2> QED BY <1>1, <2>1, NatMin
<1>3. m \in 0..p /\ t[m] # s[m]
  OBVIOUS
<1>4. m # 0
  BY <1>3 DEF IsSum
<1>5. m - 1 \in 0..p /\ ~ (m <= m - 1) /\ m \in 1..p /\ m \in 1..Len(a) /\ m \in 1..Len(b)
  BY <1>3, <1>4
<1>6. t[m - 1] = s[m - 1]
  BY <1>2, <1>5
<1>7. s[m] = s[m - 1] + InverseWeight(a[m]) /\ t[m] = t[m - 1] + InverseWeight(b[m])
  BY <1>5 DEF IsSum
<1>8. InverseWeight(a[m]) = InverseWeight(b[m])
  BY <1>5 DEF InverseWeight
<1> QED
  BY <1>3, <1>6, <1>7, <1>8

\* Two lists that agree from p on, the second one shifted by h: the difference of
\* their sums stays what it is at p.
AgreeAfter(a, b, p, h) ==
  /\ Len(b) = Len(a) + h /\ p <= Len(a)
  /\ \A i \in (p + 1)..Len(a) : a[i].w = b[i + h].w

LEMMA SameSuffix ==
  ASSUME NEW a, NEW b, NEW s, NEW t, IsSum(s, a), IsSum(t, b),
         ListOK(a), Len(b) \in Nat, NEW h \in Nat, NEW p \in Nat, AgreeAfter(a, b, p, h)
  PROVE  t[Len(b)] - s[Len(a)] = t[p + h] - s[p]
<1>1. PICK n : n = Len(a)
  OBVIOUS
<1> DEFINE Same(i) == t[i + h] - s[i] = t[p + h] - s[p]
           Differ == {i \in p..n : ~ Same(i)}
<1>2. n \in Nat /\ p \in 0..n /\ n \in p..n /\ n + h = Len(b) /\ DOMAIN a = 1..n
  BY <1>1, ListFacts DEF AgreeAfter
<1>3. ASSUME Differ # {} PROVE FALSE
  <2>1. PICK m \in Differ : \A j \in Differ : m <= j
    <3>1. Differ \in SUBSET Nat BY <1>2
    <3> HIDE DEF Differ
    <3> QED BY <1>3, <3>1, NatMin
  <2>2. m \in p..n /\ ~ Same(m)
    OBVIOUS
  <2>3. m # p
    BY <2>2
  <2>4. /\ m - 1 \in p..n /\ ~ (m <= m - 1) /\ m \in (p + 1)..n /\ m \in 1..n
        /\ m + h \in 1..Len(b) /\ (m + h) - 1 = (m - 1) + h
        /\ m \in 0..n /\ m - 1 \in 0..n /\ m + h \in 0..Len(b) /\ (m - 1) + h \in 0..Len(b)
    BY <2>2, <2>3, <1>2
  <2>5. m - 1 \notin Differ
    <3> HIDE DEF Differ
    <3> QED BY <2>1, <2>4
  <2>6. Same(m - 1)
    BY <2>4, <2>5
  <2>7. s[m] = s[m - 1] + InverseWeight(a[m]) /\ t[m + h] = t[(m - 1) + h] + InverseWeight(b[m + h])
    <3>1. t[m + h] = t[(m + h) - 1] + InverseWeight(b[m + h])
      BY <2>4 DEF IsSum
    <3> QED
      BY <3>1, <2>4, <1>1 DEF IsSum
  <2>8. InverseWeight(a[m]) = InverseWeight(b[m + h]) /\ InverseWeight(a[m]) \in Int
    BY <2>4, <1>1, <1>2, InverseInt DEF InverseWeight, AgreeAfter
  <2>9. s[m - 1] \in Int /\ t[(m - 1) + h] \in Int
    BY <2>4, <1>1 DEF IsSum
  <2>10. t[m + h] - s[m] = t[(m - 1) + h] - s[m - 1]
    <3>1. PICK u, v, x, y, z : /\ u = s[m] /\ v = s[m - 1] /\ x = t[m + h] /\ y = t[(m - 1) + h]
                               /\ z = InverseWeight(a[m])
      OBVIOUS
    <3>2. v \in Int /\ y \in Int /\ z \in Int /\ u = v + z /\ x = y + z
      BY <3>1, <2>7, <2>8, <2>9
    <3>3. x - u = y - v
      BY <3>2
    <3> QED
      BY <3>1, <3>3
  <2> QED
    BY <2>2, <2>6, <2>10
<1>4. Same(n)
  BY <1>2, <1>3
<1> QED
  BY <1>1, <1>2, <1>4

LEMMA InvSumInt ==
  ASSUME NEW list, ListOK(list)
  PROVE  InvSum(list) \in Int
<1>1. PICK s : IsSum(s, list) /\ InvSum(list) = s[Len(list)]
  BY SumOfList
<1> QED
  BY <1>1, ListFacts DEF IsSum

LEMMA InvSumEmpty == InvSum(<<>>) = 0
<1>1. PICK s : IsSum(s, <<>>) /\ InvSum(<<>>) = s[Len(<<>>)]
  BY SumOfList, EmptyList
<1> QED
  BY <1>1 DEF IsSum

LEMMA InvSumAdd ==
  ASSUME NEW list, ListOK(list), NEW x \in EntryElements, x.d \notin Dests(list)
  PROVE  InvSum(Append(list, x)) = Random_updateAddDest(InvSum(list), x.w)
<1>1. PICK new, n : new = Append(list, x) /\ n = Len(list)
  OBVIOUS
<1>2. /\ ListOK(new) /\ Len(new) = n + 1 /\ new[n + 1] = x /\ n \in Nat /\ DOMAIN list = 1..n
      /\ \A i \in DOMAIN list : new[i] = list[i]
  BY <1>1, AppendList, ListFacts
<1>3. PICK s : IsSum(s, list) /\ InvSum(list) = s[n]
  BY <1>1, SumOfList
<1>4. PICK t : IsSum(t, new) /\ InvSum(new) = t[n + 1]
  BY <1>2, SumOfList
<1>5. t[n] = s[n]
  <2>1. \A i \in 1..n : list[i].w = new[i].w
    BY <1>2
  <2>2. n \in Nat /\ Len(list) \in Nat /\ Len(new) \in Nat /\ n <= Len(list) /\ n <= Len(new)
    BY <1>1, <1>2
  <2>3. IsSum(s, list) /\ IsSum(t, new)
    BY <1>3, <1>4
  <2>4. \A i \in 0..n : s[i] = t[i]
    <3>1. AgreeUpTo(list, new, n)
      BY <2>1, <2>2 DEF AgreeUpTo
    <3> QED
      BY <3>1, <2>3, SamePrefix
  <2> QED
    BY <2>4, <1>2
<1>6. t[n + 1] = t[n] + InverseWeight(new[n + 1])
  <2>1. n + 1 \in 1..Len(new) /\ (n + 1) - 1 = n
    BY <1>2
  <2> QED
    BY <2>1, <1>4 DEF IsSum
<1> QED
  BY <1>1, <1>2, <1>3, <1>4, <1>5, <1>6 DEF Random_updateAddDest, InverseWeight

LEMMA InvSumChange ==
  ASSUME NEW list, ListOK(list), NEW k \in DOMAIN list, NEW x \in EntryElements,
         x.d = list[k].d
  PROVE  InvSum([list EXCEPT ![k] = x]) = Random_updateWeight(InvSum(list), list[k].w, x.w)
<1>1. PICK new, n : new = [list EXCEPT ![k] = x] /\ n = Len(list)
  OBVIOUS
<1>2. /\ ListOK(new) /\ Len(new) = n /\ new[k] = x /\ n \in Nat
      /\ DOMAIN list = 1..n /\ DOMAIN new = 1..n
      /\ \A i \in DOMAIN list \ {k} : new[i] = list[i]
  <2>1. /\ ListOK(new) /\ Len(new) = n /\ new[k] = x /\ DOMAIN new = DOMAIN list
        /\ \A i \in DOMAIN list \ {k} : new[i] = list[i]
    BY <1>1, ReplaceList
  <2> QED
    BY <1>1, <2>1, ListFacts
<1>3. PICK s : IsSum(s, list) /\ InvSum(list) = s[n]
  BY <1>1, SumOfList
<1>4. PICK t : IsSum(t, new) /\ InvSum(new) = t[n]
  BY <1>2, SumOfList
<1>5. PICK p : p = k - 1
  OBVIOUS
<1>6. p \in Nat /\ p <= n /\ k \in Nat /\ k <= n /\ k \in 1..n /\ p \in 0..n
  BY <1>2, <1>5
<1>7. s[p] = t[p]
  <2>1. \A i \in 1..p : list[i].w = new[i].w
    BY <1>2, <1>5, <1>6
  <2>2. \A i \in 0..p : s[i] = t[i]
    <3>1. Len(list) \in Nat /\ Len(new) \in Nat /\ p <= Len(list) /\ p <= Len(new)
      BY <1>1, <1>2, <1>6
    <3>2. IsSum(s, list) /\ IsSum(t, new) /\ p \in Nat
      BY <1>3, <1>4, <1>6
    <3>3. AgreeUpTo(list, new, p)
      BY <2>1, <3>1, <3>2 DEF AgreeUpTo
    <3> QED
      BY <3>2, <3>3, SamePrefix
  <2> QED
    BY <2>2, <1>6
<1>8. t[n] - s[n] = t[k] - s[k]
  <2>1. \A i \in (k + 1)..n : list[i].w = new[i].w /\ i + 0 = i
    BY <1>2, <1>6
  <2>2. PICK h \in Nat : h = 0
    OBVIOUS
  <2>3. \A i \in (k + 1)..Len(list) : list[i].w = new[i + h].w
    BY <2>1, <2>2, <1>1
  <2>4. Len(new) = Len(list) + h /\ Len(new) \in Nat
    BY <1>1, <1>2, <2>2
  <2>5. IsSum(s, list) /\ IsSum(t, new) /\ k \in Nat /\ k <= Len(list)
    BY <1>1, <1>3, <1>4, <1>6
  <2>6. AgreeAfter(list, new, k, h)
    BY <2>3, <2>4, <2>5 DEF AgreeAfter
  <2>7. t[Len(new)] - s[Len(list)] = t[k + h] - s[k]
    <3>1. /\ IsSum(s, list) /\ IsSum(t, new) /\ ListOK(list) /\ Len(new) \in Nat /\ h \in Nat
          /\ k \in Nat /\ AgreeAfter(list, new, k, h)
      BY <2>4, <2>5, <2>6
    <3> HIDE <2>2
    <3> QED BY <3>1, SameSuffix
  <2>8. k + h = k
    BY <1>6, <2>2
  <2> QED
    BY <2>7, <2>8, <1>1, <1>2
<1>9. s[k] = s[p] + InverseWeight(list[k]) /\ t[k] = t[p] + InverseWeight(x)
  BY <1>1, <1>2, <1>3, <1>4, <1>5, <1>6 DEF IsSum
<1>10. /\ InverseWeight(list[k]) \in Int /\ InverseWeight(x) \in Int
       /\ s[p] \in Int /\ s[n] \in Int /\ t[n] \in Int
  <2>1. InverseWeight(new[k]) \in Int
    BY <1>2, InverseInt
  <2>2. InverseWeight(list[k]) \in Int
    BY InverseInt
  <2> QED
    BY <2>1, <2>2, <1>1, <1>2, <1>3, <1>4, <1>6 DEF IsSum
<1>11. t[n] = s[n] + InverseWeight(x) - InverseWeight(list[k])
  <2>1. PICK a, b, c, e, f : /\ a = s[p] /\ b = s[n] /\ c = t[n]
                             /\ e = InverseWeight(list[k]) /\ f = InverseWeight(x)
    OBVIOUS
  <2>2. /\ a \in Int /\ b \in Int /\ c \in Int /\ e \in Int /\ f \in Int
        /\ c - b = (a + f) - (a + e)
    BY <2>1, <1>7, <1>8, <1>9, <1>10
  <2>3. c = b + f - e
    BY <2>2
  <2> QED
    BY <2>1, <2>3
<1> QED
  BY <1>1, <1>3, <1>4, <1>11 DEF Random_updateWeight, InverseWeight

LEMMA InvSumRemove ==
  ASSUME NEW list, ListOK(list), NEW k \in DOMAIN list
  PROVE  InvSum(RemoveAt(list, k)) = Random_updateDelDest(InvSum(list), list[k].w)
<1>1. PICK new, n : new = RemoveAt(list, k) /\ n = Len(list)
  OBVIOUS
<1>2. /\ ListOK(new) /\ Len(new) = n - 1 /\ n \in Nat /\ DOMAIN list = 1..n
      /\ \A i \in 1..(k - 1) : new[i] = list[i]
      /\ \A i \in k..(n - 1) : new[i] = list[i + 1]
  BY <1>1, RemoveList, ListFacts
<1>3. PICK s : IsSum(s, new) /\ InvSum(new) = s[n - 1]
  BY <1>2, SumOfList
<1>4. PICK t : IsSum(t, list) /\ InvSum(list) = t[n]
  BY <1>1, SumOfList
<1>5. PICK p : p = k - 1
  OBVIOUS
<1>6. /\ p \in Nat /\ p <= n /\ p <= n - 1 /\ k \in Nat /\ k <= n /\ k \in 1..n
      /\ p \in 0..(n - 1) /\ n - 1 \in Nat /\ p + 1 = k /\ n = (n - 1) + 1
  BY <1>2, <1>5
<1>7. s[p] = t[p]
  <2>1. \A i \in 1..p : new[i].w = list[i].w
    BY <1>2, <1>5
  <2>2. Len(new) \in Nat /\ Len(list) \in Nat /\ p <= Len(new) /\ p <= Len(list)
    BY <1>1, <1>2, <1>6
  <2>3. \A i \in 0..p : s[i] = t[i]
    <3>1. AgreeUpTo(new, list, p)
      BY <2>1, <2>2, <1>6 DEF AgreeUpTo
    <3> QED
      BY <3>1, <1>3, <1>4, SamePrefix
  <2> QED
    BY <2>3, <1>6
<1>8. t[n] - s[n - 1] = t[k] - s[p]
  <2>1. \A i \in (p + 1)..Len(new) : new[i].w = list[i + 1].w
    BY <1>2, <1>6
  <2>2. Len(list) = Len(new) + 1 /\ Len(list) \in Nat /\ p <= Len(new)
    BY <1>1, <1>2, <1>6
  <2>3. t[Len(list)] - s[Len(new)] = t[p + 1] - s[p]
    <3>1. IsSum(s, new) /\ IsSum(t, list) /\ p \in Nat /\ ListOK(new) /\ 1 \in Nat
      BY <1>2, <1>3, <1>4, <1>6
    <3>2. AgreeAfter(new, list, p, 1)
      BY <2>1, <2>2 DEF AgreeAfter
    <3> QED
      BY <2>2, <3>1, <3>2, SameSuffix
  <2> QED
    BY <2>3, <1>1, <1>2, <1>6
<1>9. t[k] = t[p] + InverseWeight(list[k])
  BY <1>1, <1>4, <1>5, <1>6 DEF IsSum
<1>10. InverseWeight(list[k]) \in Int /\ t[p] \in Int /\ s[n - 1] \in Int /\ t[n] \in Int
  <2>1. InverseWeight(list[k]) \in Int
    BY InverseInt
  <2>2. p \in 0..n /\ n \in 0..n /\ n - 1 \in 0..(n - 1)
    BY <1>6, <1>2
  <2> QED
    BY <2>1, <2>2, <1>1, <1>2, <1>3, <1>4 DEF IsSum
<1>11. s[n - 1] = t[n] - InverseWeight(list[k])
  <2>1. PICK a, b, c, e : /\ a = t[p] /\ b = s[n - 1] /\ c = t[n]
                          /\ e = InverseWeight(list[k])
    OBVIOUS
  <2>2. /\ a \in Int /\ b \in Int /\ c \in Int /\ e \in Int
        /\ c - b = (a + e) - a
    BY <2>1, <1>7, <1>8, <1>9, <1>10
  <2>3. b = c - e
    BY <2>2
  <2> QED
    BY <2>1, <2>3
<1> QED
  BY <1>1, <1>3, <1>4, <1>11 DEF Random_updateDelDest, InverseWeight

-----------------------------------------------------------------------------
(***************************************************************************)
(* Entries: every operation keeps them coherent.                           *)
(***************************************************************************)
Updated(e, list, aux) == [e EXCEPT !.list = list, !.aux = aux]

LEMMA RecordOK ==
  ASSUME NEW e, EntryOK(e), NEW list, ListOK(list), NEW aux, AuxOK(e.type, list, aux)
  PROVE  EntryOK(Updated(e, list, aux)) /\ Destinations(Updated(e, list, aux)) = Dests(list)
<1>1. PICK r : r = Updated(e, list, aux)
  OBVIOUS
<1>2. e = [type |-> e.type, list |-> e.list, aux |-> e.aux] /\ e.type \in EntryTypes
  BY DEF EntryOK
<1>3. r = [type |-> e.type, list |-> list, aux |-> aux]
  BY <1>1, <1>2 DEF Updated
<1>4. r.type = e.type /\ r.list = list /\ r.aux = aux
  BY <1>3
<1>5. EntryOK(r)
  BY <1>2, <1>3, <1>4 DEF EntryOK
<1>6. Destinations(r) = Dests(list)
  BY <1>4, <1>5, EntryFacts
<1> QED
  BY <1>1, <1>5, <1>6

LEMMA ReplaceElementOK ==
  ASSUME NEW e, EntryOK(e), NEW x \in EntryElements, x.d \in Destinations(e)
  PROVE  /\ EntryOK(ReplaceElement(e, x.d, x))
         /\ Destinations(ReplaceElement(e, x.d, x)) = Destinations(e)
<1>1. ListOK(e.list) /\ Destinations(e) = Dests(e.list)
  BY EntryFacts
<1>2. PICK k \in DOMAIN e.list : e.list[k].d = x.d
  BY <1>1, ListFacts
<1>3. Index(e.list, x.d) = k /\ Element(e, x.d) = e.list[k]
  BY <1>1, <1>2, ListFacts, EntryFacts
<1>4. PICK list : list = [e.list EXCEPT ![k] = x]
  OBVIOUS
<1>5. ListOK(list) /\ Dests(list) = Dests(e.list)
  BY <1>1, <1>2, <1>4, ReplaceList
<1>6. PICK aux : aux = updateWeight(e, list, x.d, e.list[k].w, x.w)
  OBVIOUS
<1>7. ReplaceElement(e, x.d, x) = Updated(e, list, aux)
  BY <1>3, <1>4, <1>6 DEF ReplaceElement, Updated
<1>8. AuxOK(e.type, list, aux)
  <2>1. CASE e.type = "least-impedance"
    <3>1. aux = LI_updateWeight(list, e.aux, e.list[k].w, x.w)
      BY <2>1, <1>6 DEF updateWeight
    <3>2. LeastImpedanceOK(e.list, e.aux)
      BY <2>1 DEF EntryOK, AuxOK
    <3>3. LeastImpedanceOK(list, aux)
      BY <3>1, <3>2, <1>1, <1>2, <1>4, LeastImpedanceChange
    <3> QED
      BY <2>1, <3>3 DEF AuxOK
  <2>2. CASE e.type = "round-robin"
    <3>1. aux = RR_updateWeight(e.aux, x.d, x.w)
      BY <2>2, <1>6 DEF updateWeight
    <3>2. RoundRobinOK(e.list, e.aux)
      BY <2>2 DEF EntryOK, AuxOK
    <3>3. RoundRobinOK(list, aux)
      BY <3>1, <3>2, <1>1, <1>2, <1>4, RoundRobinChange
    <3> QED
      BY <2>2, <3>3 DEF AuxOK
  <2>3. CASE e.type = "proportional-fairness"
    BY <2>3, <1>5, <1>6 DEF updateWeight, EntryOK, AuxOK
  <2>4. CASE e.type = "random"
    <3>1. aux = Random_updateWeight(e.aux, e.list[k].w, x.w)
      BY <2>4, <1>6 DEF updateWeight
    <3>2. e.aux = InvSum(e.list)
      BY <2>4 DEF EntryOK, AuxOK
    <3>3. aux = InvSum(list)
      BY <3>1, <3>2, <1>1, <1>2, <1>4, InvSumChange
    <3> QED
      BY <2>4, <3>3 DEF AuxOK
  <2> QED
    BY <2>1, <2>2, <2>3, <2>4 DEF EntryOK, EntryTypes
<1> QED
  BY <1>1, <1>5, <1>7, <1>8, RecordOK

LEMMA AddDestinationOK ==
  ASSUME NEW e, EntryOK(e), NEW x \in EntryElements, x.d \notin Destinations(e)
  PROVE  LET list == Append(e.list, x)
             r == Updated(e, list, updateAddDest(e, list, x.d, x.w))
         IN EntryOK(r) /\ Destinations(r) = Destinations(e) \cup {x.d}
<1>1. ListOK(e.list) /\ Destinations(e) = Dests(e.list)
  BY EntryFacts
<1>2. PICK list : list = Append(e.list, x)
  OBVIOUS
<1>3. ListOK(list) /\ Dests(list) = Dests(e.list) \cup {x.d}
  BY <1>1, <1>2, AppendList
<1>4. PICK aux : aux = updateAddDest(e, list, x.d, x.w)
  OBVIOUS
<1>5. AuxOK(e.type, list, aux)
  <2>1. CASE e.type = "least-impedance"
    <3>1. aux = LI_updateAddDest(list, e.aux, x.w)
      BY <2>1, <1>4 DEF updateAddDest
    <3>2. LeastImpedanceOK(e.list, e.aux)
      BY <2>1 DEF EntryOK, AuxOK
    <3>3. LeastImpedanceOK(list, aux)
      BY <3>1, <3>2, <1>1, <1>2, LeastImpedanceAdd
    <3> QED
      BY <2>1, <3>3 DEF AuxOK
  <2>2. CASE e.type = "round-robin"
    <3>1. aux = updateList(list, e.aux)
      BY <2>2, <1>4 DEF updateAddDest
    <3>2. RoundRobinOK(e.list, e.aux)
      BY <2>2 DEF EntryOK, AuxOK
    <3>3. RoundRobinOK(list, aux)
      BY <3>1, <3>2, <1>1, <1>3, RoundRobinList
    <3> QED
      BY <2>2, <3>3 DEF AuxOK
  <2>3. CASE e.type = "proportional-fairness"
    BY <2>3, <1>3, <1>4 DEF updateAddDest, EntryOK, AuxOK
  <2>4. CASE e.type = "random"
    <3>1. aux = Random_updateAddDest(e.aux, x.w)
      BY <2>4, <1>4 DEF updateAddDest
    <3>2. e.aux = InvSum(e.list)
      BY <2>4 DEF EntryOK, AuxOK
    <3>3. aux = InvSum(list)
      BY <3>1, <3>2, <1>1, <1>2, InvSumAdd
    <3> QED
      BY <2>4, <3>3 DEF AuxOK
  <2> QED
    BY <2>1, <2>2, <2>3, <2>4 DEF EntryOK, EntryTypes
<1> QED
  BY <1>1, <1>2, <1>3, <1>4, <1>5, RecordOK

LEMMA ChangeDestinationOK ==
  ASSUME NEW e, EntryOK(e), NEW d \in Ends, NEW w \in Positive, NEW final \in BOOLEAN
  PROVE  /\ EntryOK(ChangeDestination(e, d, w, final))
         /\ Destinations(ChangeDestination(e, d, w, final)) = Destinations(e) \cup {d}
<1>1. PICK x : x = [d |-> d, w |-> w, final |-> final]
  OBVIOUS
<1>2. x \in EntryElements /\ x.d = d /\ x.w = w
  BY <1>1 DEF EntryElements
<1>3. CASE d \in Destinations(e)
  <2>1. ChangeDestination(e, d, w, final) = ReplaceElement(e, d, x)
    BY <1>1, <1>3 DEF ChangeDestination
  <2>2. EntryOK(ReplaceElement(e, x.d, x)) /\ Destinations(ReplaceElement(e, x.d, x)) = Destinations(e)
    BY <1>2, <1>3, ReplaceElementOK
  <2> QED
    BY <2>1, <2>2, <1>2, <1>3
<1>4. CASE d \notin Destinations(e)
  <2>1. ChangeDestination(e, d, w, final) =
          Updated(e, Append(e.list, x), updateAddDest(e, Append(e.list, x), x.d, x.w))
    BY <1>1, <1>2, <1>4 DEF ChangeDestination, Updated
  <2> QED
    BY <2>1, <1>2, <1>4, AddDestinationOK
<1> QED
  BY <1>3, <1>4

LEMMA ChangeWeightOK ==
  ASSUME NEW e, EntryOK(e), NEW d \in Destinations(e), NEW w \in Positive
  PROVE  EntryOK(ChangeWeight(e, d, w)) /\ Destinations(ChangeWeight(e, d, w)) = Destinations(e)
<1>1. PICK x : x = [Element(e, d) EXCEPT !.w = w]
  OBVIOUS
<1>2. PICK k \in DOMAIN e.list : e.list[k].d = d
  BY EntryFacts, ListFacts
<1>3. Element(e, d) = e.list[k] /\ e.list[k] \in EntryElements
  BY <1>2, EntryFacts, ListFacts
<1>4. x \in EntryElements /\ x.d = d
  BY <1>1, <1>2, <1>3 DEF EntryElements
<1>5. ChangeWeight(e, d, w) = ReplaceElement(e, x.d, x)
  BY <1>1, <1>4 DEF ChangeWeight
<1> QED
  BY <1>4, <1>5, ReplaceElementOK

LEMMA RemoveDestinationOK ==
  ASSUME NEW e, EntryOK(e), NEW d
  PROVE  /\ EntryOK(RemoveDestination(e, d))
         /\ Destinations(RemoveDestination(e, d)) = Destinations(e) \ {d}
<1>1. CASE d \notin Destinations(e)
  BY <1>1 DEF RemoveDestination
<1>2. CASE d \in Destinations(e)
  <2>1. ListOK(e.list) /\ Destinations(e) = Dests(e.list)
    BY EntryFacts
  <2>2. PICK k \in DOMAIN e.list : e.list[k].d = d
    BY <1>2, <2>1, ListFacts
  <2>3. Index(e.list, d) = k /\ Element(e, d) = e.list[k]
    BY <2>1, <2>2, ListFacts, EntryFacts
  <2>4. PICK list : list = RemoveAt(e.list, k)
    OBVIOUS
  <2>5. ListOK(list) /\ Dests(list) = Dests(e.list) \ {d}
    BY <2>1, <2>2, <2>4, RemoveList
  <2>6. PICK aux : aux = updateDelDest(e, list, d, e.list[k].w)
    OBVIOUS
  <2>7. RemoveDestination(e, d) = Updated(e, list, aux)
    BY <1>2, <2>3, <2>4, <2>6 DEF RemoveDestination, Updated
  <2>8. AuxOK(e.type, list, aux)
    <3>1. CASE e.type = "least-impedance"
      <4>1. aux = LI_updateDelDest(list, e.aux, e.list[k].d, e.list[k].w)
        BY <3>1, <2>2, <2>6 DEF updateDelDest
      <4>2. LeastImpedanceOK(e.list, e.aux)
        BY <3>1 DEF EntryOK, AuxOK
      <4>3. LeastImpedanceOK(list, aux)
        BY <4>1, <4>2, <2>1, <2>4, LeastImpedanceRemove
      <4> QED
        BY <3>1, <4>3 DEF AuxOK
    <3>2. CASE e.type = "round-robin"
      <4>1. aux = updateList(list, e.aux)
        BY <3>2, <2>6 DEF updateDelDest
      <4>2. RoundRobinOK(e.list, e.aux)
        BY <3>2 DEF EntryOK, AuxOK
      <4>3. RoundRobinOK(list, aux)
        BY <4>1, <4>2, <2>1, <2>5, RoundRobinList
      <4> QED
        BY <3>2, <4>3 DEF AuxOK
    <3>3. CASE e.type = "proportional-fairness"
      BY <3>3, <2>5, <2>6 DEF updateDelDest, EntryOK, AuxOK
    <3>4. CASE e.type = "random"
      <4>1. aux = Random_updateDelDest(e.aux, e.list[k].w)
        BY <3>4, <2>6 DEF updateDelDest
      <4>2. e.aux = InvSum(e.list)
        BY <3>4 DEF EntryOK, AuxOK
      <4>3. aux = InvSum(list)
        BY <4>1, <4>2, <2>1, <2>4, InvSumRemove
      <4> QED
        BY <3>4, <4>3 DEF AuxOK
    <3> QED
      BY <3>1, <3>2, <3>3, <3>4 DEF EntryOK, EntryTypes
  <2> QED
    BY <2>1, <2>5, <2>7, <2>8, RecordOK
<1> QED
  BY <1>1, <1>2

LEMMA NewEntryOK ==
  ASSUME NEW type \in EntryTypes
  PROVE  EntryOK(NewEntry(type)) /\ Destinations(NewEntry(type)) = {}
<1>1. PICK e : e = NewEntry(type)
  OBVIOUS
<1>2. /\ e = [type |-> e.type, list |-> e.list, aux |-> e.aux]
      /\ e.type = type /\ e.list = <<>>
  BY <1>1 DEF NewEntry
<1>3. AuxOK(type, <<>>, e.aux)
  <2>1. CASE type = "least-impedance"
    BY <2>1, <1>1 DEF NewEntry, AuxOK, LeastImpedanceOK
  <2>2. CASE type = "round-robin"
    <3>1. e.aux = [cache |-> <<>>, queue |-> {}]
      BY <2>2, <1>1 DEF NewEntry
    <3>2. <<>> \in [{} -> CacheElements] /\ DOMAIN <<>> = {}
      OBVIOUS
    <3>3. RoundRobinOK(<<>>, e.aux)
      BY <3>1, <3>2, EmptyList DEF RoundRobinOK
    <3> QED
      BY <2>2, <3>3 DEF AuxOK
  <2>3. CASE type = "proportional-fairness"
    BY <2>3, <1>1, EmptyList DEF NewEntry, AuxOK
  <2>4. CASE type = "random"
    BY <2>4, <1>1, InvSumEmpty DEF NewEntry, AuxOK
  <2> QED
    BY <2>1, <2>2, <2>3, <2>4 DEF EntryTypes
<1>4. EntryOK(e)
  BY <1>2, <1>3, EmptyList DEF EntryOK
<1>5. Destinations(e) = Dests(<<>>)
  BY <1>2, <1>4, EntryFacts
<1> QED
  BY <1>1, <1>4, <1>5, EmptyList

LEMMA RoundRobinCache ==
  ASSUME NEW e, EntryOK(e), e.type = "round-robin",
         NEW d \in DOMAIN e.aux.cache, NEW y \in CacheElements, y.w = e.aux.cache[d].w,
         NEW r, r = [e EXCEPT !.aux.cache[d] = y]
  PROVE  EntryOK(r) /\ Destinations(r) = Destinations(e)
<1>1. RoundRobinOK(e.list, e.aux) /\ ListOK(e.list) /\ Destinations(e) = Dests(e.list)
  BY EntryFacts DEF EntryOK, AuxOK
<1>2. PICK D, cache, queue : D = Dests(e.list) /\ cache = e.aux.cache /\ queue = e.aux.queue
  OBVIOUS
<1>3. /\ cache \in [D -> CacheElements] /\ queue \subseteq D /\ d \in D
      /\ e.aux = [cache |-> cache, queue |-> queue]
      /\ e = [type |-> e.type, list |-> e.list, aux |-> e.aux]
  BY <1>1, <1>2 DEF RoundRobinOK, EntryOK
<1>4. PICK new : new = [cache EXCEPT ![d] = y]
  OBVIOUS
<1>5. new \in [D -> CacheElements] /\ \A x \in D : new[x].w = cache[x].w
  BY <1>2, <1>3, <1>4
<1>6. PICK aux : aux = [cache |-> new, queue |-> queue]
  OBVIOUS
<1>7. aux.cache = new /\ aux.queue = queue
  BY <1>6
<1>8. r = Updated(e, e.list, aux)
  <2>1. r = [e EXCEPT !.aux = [e.aux EXCEPT !.cache = [e.aux.cache EXCEPT ![d] = y]]]
    OBVIOUS
  <2>2. [e.aux EXCEPT !.cache = new] = aux
    BY <1>3, <1>6
  <2>3. r = [e EXCEPT !.aux = aux]
    BY <2>1, <2>2, <1>2, <1>4
  <2> QED
    BY <2>3, <1>3 DEF Updated
<1>9. \A x \in D : good(new, x) <=> good(cache, x)
  BY <1>3, <1>5, SameGood
<1>10. \A i \in DOMAIN e.list : e.list[i].d \in D
  BY <1>2 DEF Dests
<1>11. RoundRobinOK(e.list, aux)
  <2>1. \A i \in DOMAIN e.list : new[e.list[i].d].w = e.list[i].w
    BY <1>1, <1>2, <1>5, <1>10 DEF RoundRobinOK
  <2>2. \A x \in D : good(new, x) => x \in queue
    BY <1>1, <1>2, <1>9 DEF RoundRobinOK
  <2> QED
    BY <2>1, <2>2, <1>2, <1>3, <1>5, <1>6, <1>7 DEF RoundRobinOK
<1>12. AuxOK(e.type, e.list, aux)
  BY <1>11 DEF AuxOK
<1> QED
  BY <1>1, <1>8, <1>12, RecordOK

LEMMA AfterSelectionOK ==
  ASSUME NEW e, EntryOK(e), NEW d \in Destinations(e)
  PROVE  EntryOK(AfterSelection(e, d)) /\ Destinations(AfterSelection(e, d)) = Destinations(e)
<1>1. CASE e.type # "round-robin"
  BY <1>1 DEF AfterSelection
<1>2. CASE e.type = "round-robin"
  <2>1. RoundRobinOK(e.list, e.aux) /\ Destinations(e) = Dests(e.list)
    BY <1>2, EntryFacts DEF EntryOK, AuxOK
  <2>2. d \in DOMAIN e.aux.cache /\ e.aux.cache[d] \in CacheElements
    BY <2>1 DEF RoundRobinOK
  <2>3. PICK x : x = e.aux.cache[d]
    OBVIOUS
  <2>4. PICK f : f = Increase(x.deficit, x.w)
    OBVIOUS
  <2>5. f \in Int /\ x \in CacheElements
    BY <2>2, <2>3, <2>4, CacheFacts, NumbersAssumption DEF Increase
  <2>6. PICK y : y = [x EXCEPT !.deficit = f]
    OBVIOUS
  <2>7. y \in CacheElements /\ y.w = x.w
    BY <2>5, <2>6 DEF CacheElements
  <2>8. AfterSelection(e, d) = [e EXCEPT !.aux.cache[d] = y]
    BY <1>2, <2>3, <2>4, <2>6 DEF AfterSelection
  <2> QED
    BY <1>2, <2>2, <2>3, <2>7, <2>8, RoundRobinCache
<1> QED
  BY <1>1, <1>2

LEMMA ExpireTimerOK ==
  ASSUME NEW e, EntryOK(e), e.type = "round-robin", NEW d \in DOMAIN e.aux.cache
  PROVE  EntryOK(ExpireTimer(e, d)) /\ Destinations(ExpireTimer(e, d)) = Destinations(e)
<1>1. PICK x, y : x = e.aux.cache[d] /\ y = [x EXCEPT !.timer = "expired"]
  OBVIOUS
<1>2. x \in CacheElements
  BY <1>1 DEF EntryOK, AuxOK, RoundRobinOK
<1>3. y \in CacheElements /\ y.w = x.w
  BY <1>1, <1>2 DEF CacheElements
<1>4. ExpireTimer(e, d) = [e EXCEPT !.aux.cache[d] = y]
  BY <1>1 DEF ExpireTimer
<1>5. y.w = e.aux.cache[d].w
  BY <1>1, <1>3
<1> QED
  BY <1>3, <1>4, <1>5, RoundRobinCache

\* Only destinations of the entry are returned.
LEMMA SelectableOK ==
  ASSUME NEW e, EntryOK(e)
  PROVE  Selectable(e) \subseteq Destinations(e)
<1>1. ListOK(e.list) /\ Destinations(e) = Dests(e.list)
  BY EntryFacts
<1>2. CASE e.type = "least-impedance"
  <2>1. LeastImpedanceOK(e.list, e.aux) /\ Selectable(e) = {e.aux} \ {None}
    BY <1>2 DEF EntryOK, AuxOK, Selectable, LI_select
  <2>2. e.aux = None \/ e.aux \in Dests(e.list)
    BY <2>1 DEF LeastImpedanceOK, Dests
  <2> QED
    BY <1>1, <2>1, <2>2
<1>3. CASE e.type = "round-robin"
  BY <1>1, <1>3 DEF EntryOK, AuxOK, RoundRobinOK, Selectable, RR_select
<1>4. CASE e.type = "proportional-fairness"
  BY <1>4 DEF Selectable, PF_select
<1>5. CASE e.type = "random"
  <2>1. PICK n : n = Len(e.list)
    OBVIOUS
  <2>2. n \in Nat /\ DOMAIN e.list = 1..n
    BY <1>1, <2>1, ListFacts
  <2> DEFINE Stops(r) == {n} \cup {i \in 1..(n - 1) : r <= InvSum(SubSeq(e.list, 1, i))}
  <2>3. Selectable(e) = IF n <= 1 THEN Destinations(e)
                        ELSE {e.list[Min(Stops(r))].d : r \in 0..(e.aux - 1)}
    BY <1>5, <2>1 DEF Selectable, Random_select
  <2>4. ASSUME NEW r, ~ (n <= 1) PROVE Min(Stops(r)) \in 1..n
    <3>1. PICK S : S = Stops(r)
      OBVIOUS
    <3>2. S \subseteq 1..n /\ S # {}
      BY <3>1, <2>2, <2>4
    <3>3. \E x \in S : \A y \in S : x <= y
      BY <3>2, <2>2, NatMin
    <3>4. Min(S) \in S
      BY <3>3 DEF Min
    <3> QED
      BY <3>1, <3>2, <3>4
  <2> HIDE DEF Stops
  <2>5. CASE n <= 1
    BY <2>3, <2>5
  <2>6. CASE ~ (n <= 1)
    <3>1. Selectable(e) = {e.list[Min(Stops(r))].d : r \in 0..(e.aux - 1)}
      BY <2>3, <2>6
    <3>2. \A r \in 0..(e.aux - 1) : e.list[Min(Stops(r))].d \in Dests(e.list)
      BY <2>4, <2>6, <2>2 DEF Dests
    <3> QED
      BY <3>1, <3>2, <1>1
  <2> QED
    BY <2>5, <2>6
<1> QED
  BY <1>2, <1>3, <1>4, <1>5 DEF EntryOK, EntryTypes

\* What the invariant says of an entry is what SelectionCoherent asks of it.
LEMMA CoherentEntry ==
  ASSUME NEW e, EntryOK(e)
  PROVE  EntryCoherent(e)
<1>1. /\ ListOK(e.list) /\ Destinations(e) = Dests(e.list)
      /\ Elements(e) = {e.list[k] : k \in DOMAIN e.list}
      /\ \A k \in DOMAIN e.list : Element(e, e.list[k].d) = e.list[k]
  BY EntryFacts
<1>2. Cardinality(Destinations(e)) = Len(e.list)
  BY <1>1, FiniteDests
<1>3. ASSUME e.type = "least-impedance"
      PROVE  IF e.list = <<>> THEN e.aux = None
             ELSE /\ e.aux \in Destinations(e)
                  /\ \A x \in Elements(e) : Element(e, e.aux).w <= x.w
  <2>1. LeastImpedanceOK(e.list, e.aux)
    BY <1>3 DEF EntryOK, AuxOK
  <2>2. CASE e.list = <<>>
    BY <2>1, <2>2 DEF LeastImpedanceOK
  <2>3. CASE e.list # <<>>
    <3>1. PICK k \in DOMAIN e.list :
            e.aux = e.list[k].d /\ \A j \in DOMAIN e.list : e.list[k].w <= e.list[j].w
      BY <2>1, <2>3 DEF LeastImpedanceOK
    <3>2. Element(e, e.aux) = e.list[k]
      BY <3>1, <1>1
    <3> QED
      BY <2>3, <3>1, <3>2, <1>1 DEF Dests
  <2> QED
    BY <2>2, <2>3
<1>4. ASSUME e.type = "round-robin"
      PROVE  /\ DOMAIN e.aux.cache = Destinations(e)
             /\ \A x \in Elements(e) : e.aux.cache[x.d].w = x.w
             /\ e.aux.queue \subseteq Destinations(e)
             /\ {x.d : x \in {y \in Elements(e) : good(e.aux.cache, y.d)}} \subseteq e.aux.queue
             /\ e.list # <<>> => e.aux.queue # {}
  <2>1. RoundRobinOK(e.list, e.aux)
    BY <1>4 DEF EntryOK, AuxOK
  <2>2. e.aux.cache \in [Dests(e.list) -> CacheElements]
    BY <2>1 DEF RoundRobinOK
  <2>3. e.list # <<>> => e.aux.queue # {}
    <3>1. SUFFICES ASSUME e.list # <<>> PROVE e.aux.queue # {}
      OBVIOUS
    <3>2. 1 \in DOMAIN e.list
      BY <3>1, <1>1, ListFacts
    <3>3. Dests(e.list) # {}
      BY <3>2 DEF Dests
    <3>4. \E d \in Dests(e.list) : good(e.aux.cache, d)
      BY <2>2, <3>3, SomeGood
    <3> QED
      BY <2>1, <3>4 DEF RoundRobinOK
  <2>4. \A x \in Elements(e) : e.aux.cache[x.d].w = x.w
    BY <2>1, <1>1 DEF RoundRobinOK
  <2>5. {x.d : x \in {y \in Elements(e) : good(e.aux.cache, y.d)}} \subseteq e.aux.queue
    BY <2>1, <1>1 DEF RoundRobinOK, Dests
  <2> QED
    BY <2>1, <2>2, <2>3, <2>4, <2>5, <1>1 DEF RoundRobinOK
<1>5. e.type = "proportional-fairness" => e.aux = Destinations(e)
  BY <1>1 DEF EntryOK, AuxOK
<1>6. e.type = "random" => e.aux = InvSum(e.list)
  BY DEF EntryOK, AuxOK
<1> QED
  BY <1>2, <1>3, <1>4, <1>5, <1>6 DEF EntryCoherent

-----------------------------------------------------------------------------
(***************************************************************************)
(* Tables: what each operation does to the pairs that are known.           *)
(***************************************************************************)
LEMMA FullTable ==
  ASSUME NEW t
  PROVE  /\ \A l, d : <<l, d>> \in fullTable(t) <=> Knows(t, l, d)
         /\ \A p \in fullTable(t) : p = <<p[1], p[2]>>
         /\ \A l, d : d \in all(fullTable(t), l) <=> Knows(t, l, d)
         /\ TableOK(t) => fullTable(t) \subseteq Lambdas \X Ends
<1>1. \A p \in fullTable(t) : /\ p = <<p[1], p[2]>>
                              /\ p[1] \in DOMAIN t /\ p[2] \in Destinations(t[p[1]])
  BY DEF fullTable
<1>2. \A l, d : <<l, d>> \in fullTable(t) <=> Knows(t, l, d)
  <2> TAKE l, d
  <2>1. ASSUME <<l, d>> \in fullTable(t) PROVE Knows(t, l, d)
    <3>1. PICK x \in DOMAIN t : <<l, d>> \in {x} \X Destinations(t[x])
      BY <2>1 DEF fullTable
    <3>2. l = x /\ d \in Destinations(t[x])
      BY <3>1
    <3> QED
      BY <3>2 DEF Knows
  <2>2. ASSUME Knows(t, l, d) PROVE <<l, d>> \in fullTable(t)
    BY <2>2 DEF Knows, fullTable
  <2> QED
    BY <2>1, <2>2
<1>3. \A l, d : d \in all(fullTable(t), l) <=> Knows(t, l, d)
  <2> TAKE l, d
  <2>1. ASSUME d \in all(fullTable(t), l) PROVE Knows(t, l, d)
    <3>1. PICK p \in fullTable(t) : p[1] = l /\ p[2] = d
      BY <2>1 DEF all
    <3> QED
      BY <3>1, <1>1 DEF Knows
  <2>2. ASSUME Knows(t, l, d) PROVE d \in all(fullTable(t), l)
    <3>1. <<l, d>> \in fullTable(t)
      BY <2>2, <1>2
    <3>2. PICK p \in fullTable(t) : p = <<l, d>>
      BY <3>1
    <3>3. p[1] = l /\ p[2] = d
      BY <3>2
    <3> QED
      BY <3>3 DEF all
  <2> QED
    BY <2>1, <2>2
<1>4. ASSUME TableOK(t) PROVE fullTable(t) \subseteq Lambdas \X Ends
  <2> SUFFICES ASSUME NEW p \in fullTable(t) PROVE p \in Lambdas \X Ends
    OBVIOUS
  <2>1. p[1] \in Lambdas /\ EntryOK(t[p[1]])
    BY <1>1, <1>4 DEF TableOK
  <2>2. p[2] \in Ends
    BY <2>1, <1>1, EntryFacts, ListFacts
  <2> QED
    BY <1>1, <2>1, <2>2
<1> QED
  BY <1>1, <1>2, <1>3, <1>4

LEMMA EmptyTable == TableOK(<<>>) /\ (\A l, d : ~ Knows(<<>>, l, d)) /\ fullTable(<<>>) = {}
<1>1. DOMAIN <<>> = {}
  OBVIOUS
<1> QED
  BY <1>1 DEF TableOK, Knows, fullTable

\* A table that differs from another one in the entry of one lambda.
LEMMA PutEntry ==
  ASSUME NEW t, TableOK(t), NEW l \in Lambdas, NEW e, EntryOK(e),
         NEW new, DOMAIN new = DOMAIN t \cup {l}, new[l] = e,
         \A x \in DOMAIN t \ {l} : new[x] = t[x]
  PROVE  /\ TableOK(new)
         /\ \A x, y : Knows(new, x, y) <=> IF x = l THEN y \in Destinations(e) ELSE Knows(t, x, y)
<1>1. TableOK(new)
  BY DEF TableOK
<1> QED
  BY <1>1 DEF Knows

LEMMA TableChangeOK ==
  ASSUME NEW t, TableOK(t), NEW type \in EntryTypes, NEW l \in Lambdas, NEW d \in Ends,
         NEW w \in Weights, NEW final \in BOOLEAN
  PROVE  /\ TableOK(TableChange(t, type, l, d, w, final))
         /\ \A x, y : Knows(TableChange(t, type, l, d, w, final), x, y) <=>
                        Knows(t, x, y) \/ (x = l /\ y = d /\ w # 0)
<1>1. PICK e, f, new : /\ e = EntryOf(t, type, l)
                       /\ f = IF w = 0 THEN e ELSE ChangeDestination(e, d, w, final)
                       /\ new = WithEntry(t, l, f)
  OBVIOUS
<1>2. TableChange(t, type, l, d, w, final) = new
  BY <1>1 DEF TableChange
<1>3. EntryOK(e) /\ \A y : y \in Destinations(e) <=> Knows(t, l, y)
  BY <1>1, NewEntryOK DEF EntryOf, TableOK, Knows
<1>4. /\ EntryOK(f)
      /\ \A y : y \in Destinations(f) <=> y \in Destinations(e) \/ (y = d /\ w # 0)
  <2>1. CASE w = 0
    BY <2>1, <1>1, <1>3
  <2>2. CASE w # 0
    <3>1. w \in Positive
      BY <2>2 DEF Positive
    <3> QED
      BY <2>2, <3>1, <1>1, <1>3, ChangeDestinationOK
  <2> QED
    BY <2>1, <2>2
<1>5. DOMAIN new = DOMAIN t \cup {l} /\ new[l] = f /\ \A x \in DOMAIN t \ {l} : new[x] = t[x]
  BY <1>1 DEF WithEntry
<1>6. /\ TableOK(new)
      /\ \A x, y : Knows(new, x, y) <=> IF x = l THEN y \in Destinations(f) ELSE Knows(t, x, y)
  BY <1>4, <1>5, PutEntry
<1> QED
  BY <1>2, <1>3, <1>4, <1>6

\* An entry is replaced by one with the same destinations.
LEMMA SameDestinations ==
  ASSUME NEW t, TableOK(t), NEW l \in DOMAIN t, NEW e, EntryOK(e),
         Destinations(e) = Destinations(t[l])
  PROVE  /\ TableOK([t EXCEPT ![l] = e])
         /\ \A x, y : Knows([t EXCEPT ![l] = e], x, y) <=> Knows(t, x, y)
<1>1. PICK new : new = [t EXCEPT ![l] = e]
  OBVIOUS
<1>2. /\ DOMAIN new = DOMAIN t /\ new[l] = e /\ l \in Lambdas
      /\ \A x \in DOMAIN t \ {l} : new[x] = t[x]
  BY <1>1 DEF TableOK
<1>3. TableOK(new)
  BY <1>2 DEF TableOK
<1>4. \A x, y : Knows(new, x, y) <=> Knows(t, x, y)
  BY <1>2 DEF Knows
<1> QED
  BY <1>1, <1>3, <1>4

LEMMA TableChangeWeightOK ==
  ASSUME NEW t, TableOK(t), NEW l, NEW d, Knows(t, l, d), NEW w \in Positive
  PROVE  /\ TableOK(TableChangeWeight(t, l, d, w))
         /\ \A x, y : Knows(TableChangeWeight(t, l, d, w), x, y) <=> Knows(t, x, y)
<1>1. l \in DOMAIN t /\ d \in Destinations(t[l]) /\ EntryOK(t[l])
  BY DEF Knows, TableOK
<1>2. PICK e : e = ChangeWeight(t[l], d, w)
  OBVIOUS
<1>3. EntryOK(e) /\ Destinations(e) = Destinations(t[l])
  BY <1>1, <1>2, ChangeWeightOK
<1>4. TableChangeWeight(t, l, d, w) = [t EXCEPT ![l] = e]
  BY <1>2 DEF TableChangeWeight
<1>5. /\ TableOK([t EXCEPT ![l] = e])
      /\ \A x, y : Knows([t EXCEPT ![l] = e], x, y) <=> Knows(t, x, y)
  BY <1>1, <1>3, SameDestinations
<1> QED
  BY <1>4, <1>5

LEMMA WithoutLambdaOK ==
  ASSUME NEW t, TableOK(t), NEW l
  PROVE  /\ TableOK(WithoutLambda(t, l))
         /\ \A x, y : Knows(WithoutLambda(t, l), x, y) <=> Knows(t, x, y) /\ x # l
  BY DEF WithoutLambda, TableOK, Knows

LEMMA TableRemoveOK ==
  ASSUME NEW t, TableOK(t), NEW l, NEW d
  PROVE  /\ TableOK(TableRemove(t, l, d))
         /\ \A x, y : Knows(TableRemove(t, l, d), x, y) <=> Knows(t, x, y) /\ ~ (x = l /\ y = d)
<1>1. CASE l \notin DOMAIN t
  BY <1>1 DEF TableRemove, Knows
<1>2. CASE l \in DOMAIN t
  <2>1. PICK e : e = RemoveDestination(t[l], d)
    OBVIOUS
  <2>2. l \in Lambdas /\ EntryOK(t[l])
    BY <1>2 DEF TableOK
  <2>3. EntryOK(e) /\ Destinations(e) = Destinations(t[l]) \ {d}
    BY <2>1, <2>2, RemoveDestinationOK
  <2>4. CASE e.list = <<>>
    <3>1. TableRemove(t, l, d) = WithoutLambda(t, l)
      BY <1>2, <2>1, <2>4 DEF TableRemove
    <3>2. Destinations(e) = {}
      BY <2>3, <2>4, EntryFacts, EmptyList
    <3>3. \A y : Knows(t, l, y) => y = d
      BY <2>3, <3>2 DEF Knows
    <3> QED
      BY <3>1, <3>3, WithoutLambdaOK
  <2>5. CASE e.list # <<>>
    <3>1. PICK new : new = [t EXCEPT ![l] = e]
      OBVIOUS
    <3>2. TableRemove(t, l, d) = new
      BY <1>2, <2>1, <2>5, <3>1 DEF TableRemove
    <3>3. DOMAIN new = DOMAIN t \cup {l} /\ new[l] = e /\ \A x \in DOMAIN t \ {l} : new[x] = t[x]
      BY <1>2, <3>1
    <3>4. /\ TableOK(new)
          /\ \A x, y : Knows(new, x, y) <=>
                         IF x = l THEN y \in Destinations(e) ELSE Knows(t, x, y)
      BY <2>2, <2>3, <3>3, PutEntry
    <3>5. \A y : y \in Destinations(e) <=> Knows(t, l, y) /\ y # d
      BY <1>2, <2>3 DEF Knows
    <3> QED
      BY <3>2, <3>4, <3>5
  <2> QED
    BY <2>4, <2>5
<1> QED
  BY <1>1, <1>2

LEMMA TableSelectionOK ==
  ASSUME NEW t, TableOK(t), NEW l, NEW d \in TableSelectable(t, l)
  PROVE  /\ Knows(t, l, d)
         /\ TableOK([t EXCEPT ![l] = AfterSelection(t[l], d)])
         /\ \A x, y : Knows([t EXCEPT ![l] = AfterSelection(t[l], d)], x, y) <=> Knows(t, x, y)
<1>1. l \in DOMAIN t /\ d \in Selectable(t[l]) /\ EntryOK(t[l])
  BY DEF TableSelectable, TableOK
<1>2. d \in Destinations(t[l])
  BY <1>1, SelectableOK
<1>3. PICK e : e = AfterSelection(t[l], d)
  OBVIOUS
<1>4. EntryOK(e) /\ Destinations(e) = Destinations(t[l])
  BY <1>1, <1>2, <1>3, AfterSelectionOK
<1>5. Knows(t, l, d)
  BY <1>1, <1>2 DEF Knows
<1> QED
  BY <1>1, <1>3, <1>4, <1>5, SameDestinations

LEMMA TableTimerOK ==
  ASSUME NEW t, TableOK(t), NEW l \in DOMAIN t, t[l].type = "round-robin",
         NEW d \in DOMAIN t[l].aux.cache
  PROVE  /\ TableOK([t EXCEPT ![l] = ExpireTimer(t[l], d)])
         /\ \A x, y : Knows([t EXCEPT ![l] = ExpireTimer(t[l], d)], x, y) <=> Knows(t, x, y)
<1>1. EntryOK(t[l])
  BY DEF TableOK
<1>2. PICK e : e = ExpireTimer(t[l], d)
  OBVIOUS
<1>3. EntryOK(e) /\ Destinations(e) = Destinations(t[l])
  BY <1>1, <1>2, ExpireTimerOK
<1> QED
  BY <1>2, <1>3, SameDestinations

LEMMA SameFullTable ==
  ASSUME NEW t, NEW u, \A l, d : Knows(t, l, d) <=> Knows(u, l, d)
  PROVE  fullTable(t) = fullTable(u)
<1>1. ASSUME NEW a, NEW b, \A l, d : Knows(a, l, d) <=> Knows(b, l, d)
      PROVE  fullTable(a) \subseteq fullTable(b)
  <2> SUFFICES ASSUME NEW p \in fullTable(a) PROVE p \in fullTable(b)
    OBVIOUS
  <2>1. PICK l, d : p = <<l, d>>
    BY FullTable
  <2> QED
    BY <2>1, <1>1, FullTable
<1> QED
  BY <1>1

-----------------------------------------------------------------------------
(***************************************************************************)
(* Estimators: their tables follow theTable of the base class.             *)
(***************************************************************************)
LEMMA EstimatorType ==
  ASSUME NEW e, IsEstimator(e, Lambdas, Ends)
  PROVE  /\ e.rtt \subseteq Lambdas \X Ends /\ e.probe \subseteq Lambdas \X Ends
         /\ e.util.table \subseteq Lambdas \X Ends /\ e.util.computers \subseteq Lambdas \X Ends
         /\ e = [rtt |-> e.rtt, util |-> e.util, probe |-> e.probe]
         /\ e.util = [table |-> e.util.table, computers |-> e.util.computers]
  BY DEF IsEstimator, RttEstimator, UtilEstimator, DestinationTable

LEMMA EstimatorRecord ==
  ASSUME NEW r \in SUBSET (Lambdas \X Ends), NEW t \in SUBSET (Lambdas \X Ends),
         NEW c \in SUBSET (Lambdas \X Ends), NEW p \in SUBSET (Lambdas \X Ends)
  PROVE  LET e == [rtt |-> r, util |-> [table |-> t, computers |-> c], probe |-> p]
         IN IsEstimator(e, Lambdas, Ends)
  BY DEF IsEstimator, RttEstimator, UtilEstimator, DestinationTable

\* The pairs that are added or removed.
Pairs(l, ds) == {l} \X ds

LEMMA AddedTo ==
  ASSUME NEW t, NEW u, NEW l, NEW d, NEW p, p = Pairs(l, {d}),
         \A x, y : Knows(u, x, y) <=> Knows(t, x, y) \/ (x = l /\ y = d)
  PROVE  fullTable(u) = fullTable(t) \cup p
<1>1. p = {<<l, d>>}
  BY DEF Pairs
<1>2. ASSUME NEW z \in fullTable(u) PROVE z \in fullTable(t) \cup {<<l, d>>}
  <2>1. PICK x, y : z = <<x, y>>
    BY FullTable
  <2> QED
    BY <2>1, FullTable
<1>3. ASSUME NEW z \in fullTable(t) \cup {<<l, d>>} PROVE z \in fullTable(u)
  <2>1. PICK x, y : z = <<x, y>>
    BY FullTable
  <2>2. CASE z = <<l, d>>
    BY <2>2, FullTable
  <2>3. CASE z \in fullTable(t)
    BY <2>1, <2>3, FullTable
  <2> QED
    BY <2>2, <2>3
<1> QED
  BY <1>1, <1>2, <1>3

LEMMA RemovedFrom ==
  ASSUME NEW t, NEW u, NEW l, NEW ds,
         \A x, y : Knows(u, x, y) <=> Knows(t, x, y) /\ ~ (x = l /\ y \in ds)
  PROVE  fullTable(u) = fullTable(t) \ Pairs(l, ds)
<1>1. \A x, y : <<x, y>> \in Pairs(l, ds) <=> x = l /\ y \in ds
  BY DEF Pairs
<1>2. ASSUME NEW p \in fullTable(u) PROVE p \in fullTable(t) \ Pairs(l, ds)
  <2>1. PICK x, y : p = <<x, y>>
    BY FullTable
  <2> QED
    BY <2>1, <1>1, FullTable
<1>3. ASSUME NEW p \in fullTable(t) \ Pairs(l, ds) PROVE p \in fullTable(u)
  <2>1. PICK x, y : p = <<x, y>>
    BY FullTable
  <2> QED
    BY <2>1, <1>1, FullTable
<1> QED
  BY <1>2, <1>3

\* e with other tables.
Estimator(r, t, c, p) == [rtt |-> r, util |-> [table |-> t, computers |-> c], probe |-> p]

\* The table that is added to or removed from is one of those of the class.
UsesRtt(kind) == kind.estimator \in {"rtt", "util"}
UsesUtil(kind) == kind.estimator \in {"util", "delay"}
UsesProbe(kind) == kind.estimator = "probe"

Added(kind, e, p, a) ==
  /\ a = Estimator(a.rtt, a.util.table, a.util.computers, a.probe)
  /\ a.rtt = IF UsesRtt(kind) THEN e.rtt \cup p ELSE e.rtt
  /\ a.util.table = IF UsesUtil(kind) THEN e.util.table \cup p ELSE e.util.table
  /\ a.util.computers = IF UsesUtil(kind) THEN e.util.computers \cup p ELSE e.util.computers
  /\ a.probe = IF UsesProbe(kind) THEN e.probe \cup p ELSE e.probe

Removed(kind, e, p, r) ==
  /\ r = Estimator(r.rtt, r.util.table, r.util.computers, r.probe)
  /\ r.rtt = IF UsesRtt(kind) THEN e.rtt \ p ELSE e.rtt
  /\ r.util.table = IF UsesUtil(kind) THEN e.util.table \ p ELSE e.util.table
  /\ r.util.computers = IF UsesUtil(kind) THEN e.util.computers \ p ELSE e.util.computers
  /\ r.probe = IF UsesProbe(kind) THEN e.probe \cup p ELSE e.probe

LEMMA EstimatorTables ==
  ASSUME NEW kind \in DispatcherKinds, NEW e, IsEstimator(e, Lambdas, Ends), NEW l, NEW ds
  PROVE  /\ Added(kind, e, Pairs(l, ds), privateAdd(kind.estimator, e, l, ds))
         /\ Removed(kind, e, Pairs(l, ds), privateRemove(kind.estimator, e, l, ds))
<1>0. PICK p, a, r : /\ p = Pairs(l, ds)
                     /\ a = privateAdd(kind.estimator, e, l, ds)
                     /\ r = privateRemove(kind.estimator, e, l, ds)
  OBVIOUS
<1>1. \A rt, tb, c, pr : /\ Estimator(rt, tb, c, pr).rtt = rt
                        /\ Estimator(rt, tb, c, pr).util.table = tb
                        /\ Estimator(rt, tb, c, pr).util.computers = c
                        /\ Estimator(rt, tb, c, pr).probe = pr
  BY DEF Estimator
<1>2. PICK u, tb, c : u = e.util /\ tb = e.util.table /\ c = e.util.computers
  OBVIOUS
<1>3. u = [table |-> tb, computers |-> c] /\ e = [rtt |-> e.rtt, util |-> u, probe |-> e.probe]
  BY <1>2, EstimatorType
<1>4. PICK ua, ur : ua = UtilEstimator_add(u, l, ds) /\ ur = UtilEstimator_remove(u, l, ds)
  OBVIOUS
<1>5. /\ ua = [table |-> tb \cup p, computers |-> c \cup p]
      /\ ur = [table |-> tb \ p, computers |-> c \ p]
  BY <1>0, <1>2, <1>4 DEF UtilEstimator_add, UtilEstimator_remove, add, remove, Pairs
<1>6. ASSUME kind.estimator = "rtt" PROVE Added(kind, e, p, a) /\ Removed(kind, e, p, r)
  <2>1. a = [e EXCEPT !.rtt = e.rtt \cup p] /\ r = [e EXCEPT !.rtt = e.rtt \ p]
    BY <1>0, <1>6 DEF privateAdd, privateRemove, PtimeEstimator, PtimeEstimatorRtt, add, remove, Pairs
  <2>2. UsesRtt(kind) /\ ~ UsesUtil(kind) /\ ~ UsesProbe(kind)
    BY <1>6 DEF UsesRtt, UsesUtil, UsesProbe
  <2>3. /\ a = [rtt |-> e.rtt \cup p, util |-> u, probe |-> e.probe]
        /\ r = [rtt |-> e.rtt \ p, util |-> u, probe |-> e.probe]
    BY <2>1, <1>3
  <2>4. a = Estimator(e.rtt \cup p, tb, c, e.probe) /\ r = Estimator(e.rtt \ p, tb, c, e.probe)
    BY <2>3, <1>3 DEF Estimator
  <2> QED
    BY <2>2, <2>4, <1>1, <1>2 DEF Added, Removed
<1>7. ASSUME kind.estimator = "util" PROVE Added(kind, e, p, a) /\ Removed(kind, e, p, r)
  <2>1. /\ a = [e EXCEPT !.util = ua, !.rtt = e.rtt \cup p]
        /\ r = [e EXCEPT !.util = ur, !.rtt = e.rtt \ p]
    BY <1>0, <1>2, <1>4, <1>7
       DEF privateAdd, privateRemove, PtimeEstimator, PtimeEstimatorUtil, add, remove, Pairs
  <2>2. UsesRtt(kind) /\ UsesUtil(kind) /\ ~ UsesProbe(kind)
    BY <1>7 DEF UsesRtt, UsesUtil, UsesProbe
  <2>3. /\ a = Estimator(e.rtt \cup p, tb \cup p, c \cup p, e.probe)
        /\ r = Estimator(e.rtt \ p, tb \ p, c \ p, e.probe)
    BY <2>1, <1>3, <1>5 DEF Estimator
  <2> QED
    BY <2>2, <2>3, <1>1, <1>2 DEF Added, Removed
<1>8. ASSUME kind.estimator = "delay" PROVE Added(kind, e, p, a) /\ Removed(kind, e, p, r)
  <2>1. a = [e EXCEPT !.util = ua] /\ r = [e EXCEPT !.util = ur]
    BY <1>0, <1>2, <1>4, <1>8 DEF privateAdd, privateRemove, PtimeEstimator, PtimeEstimatorDelay
  <2>2. ~ UsesRtt(kind) /\ UsesUtil(kind) /\ ~ UsesProbe(kind)
    BY <1>8 DEF UsesRtt, UsesUtil, UsesProbe
  <2>3. /\ a = Estimator(e.rtt, tb \cup p, c \cup p, e.probe)
        /\ r = Estimator(e.rtt, tb \ p, c \ p, e.probe)
    BY <2>1, <1>3, <1>5 DEF Estimator
  <2> QED
    BY <2>2, <2>3, <1>1, <1>2 DEF Added, Removed
<1>9. ASSUME kind.estimator = "probe" PROVE Added(kind, e, p, a) /\ Removed(kind, e, p, r)
  <2>1. a = [e EXCEPT !.probe = e.probe \cup p] /\ r = [e EXCEPT !.probe = e.probe \cup p]
    BY <1>0, <1>9 DEF privateAdd, privateRemove, PtimeEstimator, PtimeEstimatorProbe, add, Pairs
  <2>2. ~ UsesRtt(kind) /\ ~ UsesUtil(kind) /\ UsesProbe(kind)
    BY <1>9 DEF UsesRtt, UsesUtil, UsesProbe
  <2>3. /\ a = Estimator(e.rtt, tb, c, e.probe \cup p)
        /\ r = Estimator(e.rtt, tb, c, e.probe \cup p)
    <3>1. /\ a = [rtt |-> e.rtt, util |-> u, probe |-> e.probe \cup p]
          /\ r = [rtt |-> e.rtt, util |-> u, probe |-> e.probe \cup p]
      BY <2>1, <1>3
    <3> QED
      BY <3>1, <1>3 DEF Estimator
  <2> QED
    BY <2>2, <2>3, <1>1, <1>2 DEF Added, Removed
<1>10. kind.estimator \in {"rtt", "util", "delay", "probe"}
  BY DEF DispatcherKinds
<1> QED
  BY <1>0, <1>6, <1>7, <1>8, <1>9, <1>10

\* When the tables of the class are what the table of the base class is.
LEMMA EstimatorFollows ==
  ASSUME NEW kind \in DispatcherKinds, NEW t,
         NEW r \in SUBSET (Lambdas \X Ends), NEW u \in SUBSET (Lambdas \X Ends),
         NEW p \in SUBSET (Lambdas \X Ends),
         UsesRtt(kind) => r = fullTable(t), UsesUtil(kind) => u = fullTable(t),
         kind.estimator = "rtt" => u = {}
  PROVE  EstimatorOK(kind, t, Estimator(r, u, u, p))
<1>1. IsEstimator(Estimator(r, u, u, p), Lambdas, Ends)
  BY EstimatorRecord DEF Estimator
<1>2. PICK e : e = Estimator(r, u, u, p)
  OBVIOUS
<1>3. e.rtt = r /\ e.util.table = u /\ e.util.computers = u
  BY <1>2 DEF Estimator
<1> QED
  BY <1>1, <1>2, <1>3 DEF EstimatorOK, UsesRtt, UsesUtil

LEMMA EstimatorAddOK ==
  ASSUME NEW kind \in DispatcherKinds, NEW t, NEW e, EstimatorOK(kind, t, e),
         NEW l \in Lambdas, NEW d \in Ends, NEW u,
         \A x, y : Knows(u, x, y) <=> Knows(t, x, y) \/ (x = l /\ y = d)
  PROVE  EstimatorOK(kind, u, privateAdd(kind.estimator, e, l, {d}))
<1>1. PICK p : p = Pairs(l, {d})
  OBVIOUS
<1>2. p \in SUBSET (Lambdas \X Ends)
  BY <1>1 DEF Pairs
<1>3. fullTable(u) = fullTable(t) \cup p
  BY <1>1, AddedTo
<1>4. IsEstimator(e, Lambdas, Ends) /\ e.util.computers = e.util.table
  BY DEF EstimatorOK
<1>5. /\ e.rtt \in SUBSET (Lambdas \X Ends) /\ e.probe \in SUBSET (Lambdas \X Ends)
      /\ e.util.table \in SUBSET (Lambdas \X Ends)
  BY <1>4, EstimatorType
<1>6. PICK a, r, c, b : /\ a = privateAdd(kind.estimator, e, l, {d})
                        /\ r = a.rtt /\ c = a.util.table /\ b = a.probe
  OBVIOUS
<1>7. /\ a = Estimator(r, c, c, b)
      /\ r = IF UsesRtt(kind) THEN e.rtt \cup p ELSE e.rtt
      /\ c = IF UsesUtil(kind) THEN e.util.table \cup p ELSE e.util.table
      /\ b = IF UsesProbe(kind) THEN e.probe \cup p ELSE e.probe
  <2>1. Added(kind, e, p, a)
    BY <1>1, <1>4, <1>6, EstimatorTables
  <2> QED
    BY <2>1, <1>4, <1>6 DEF Added
<1>8. /\ r \in SUBSET (Lambdas \X Ends) /\ c \in SUBSET (Lambdas \X Ends)
      /\ b \in SUBSET (Lambdas \X Ends)
  BY <1>2, <1>5, <1>7
<1>9. /\ UsesRtt(kind) => r = fullTable(u)
      /\ UsesUtil(kind) => c = fullTable(u)
      /\ kind.estimator = "rtt" => c = {}
  BY <1>3, <1>7 DEF EstimatorOK, UsesRtt, UsesUtil
<1>10. EstimatorOK(kind, u, Estimator(r, c, c, b))
  BY <1>8, <1>9, EstimatorFollows
<1> QED
  BY <1>6, <1>7, <1>10

LEMMA EstimatorRemoveOK ==
  ASSUME NEW kind \in DispatcherKinds, NEW t, NEW e, EstimatorOK(kind, t, e),
         NEW l \in Lambdas, NEW ds \in SUBSET Ends, NEW u,
         \A x, y : Knows(u, x, y) <=> Knows(t, x, y) /\ ~ (x = l /\ y \in ds)
  PROVE  EstimatorOK(kind, u, privateRemove(kind.estimator, e, l, ds))
<1>1. PICK p : p = Pairs(l, ds)
  OBVIOUS
<1>2. p \in SUBSET (Lambdas \X Ends)
  BY <1>1 DEF Pairs
<1>3. fullTable(u) = fullTable(t) \ p
  BY <1>1, RemovedFrom
<1>4. IsEstimator(e, Lambdas, Ends) /\ e.util.computers = e.util.table
  BY DEF EstimatorOK
<1>5. /\ e.rtt \in SUBSET (Lambdas \X Ends) /\ e.probe \in SUBSET (Lambdas \X Ends)
      /\ e.util.table \in SUBSET (Lambdas \X Ends)
  BY <1>4, EstimatorType
<1>6. PICK a, r, c, b : /\ a = privateRemove(kind.estimator, e, l, ds)
                        /\ r = a.rtt /\ c = a.util.table /\ b = a.probe
  OBVIOUS
<1>7. /\ a = Estimator(r, c, c, b)
      /\ r = IF UsesRtt(kind) THEN e.rtt \ p ELSE e.rtt
      /\ c = IF UsesUtil(kind) THEN e.util.table \ p ELSE e.util.table
      /\ b = IF UsesProbe(kind) THEN e.probe \cup p ELSE e.probe
  <2>1. Removed(kind, e, p, a)
    BY <1>1, <1>4, <1>6, EstimatorTables
  <2> QED
    BY <2>1, <1>4, <1>6 DEF Removed
<1>8. /\ r \in SUBSET (Lambdas \X Ends) /\ c \in SUBSET (Lambdas \X Ends)
      /\ b \in SUBSET (Lambdas \X Ends)
  BY <1>2, <1>5, <1>7
<1>9. /\ UsesRtt(kind) => r = fullTable(u)
      /\ UsesUtil(kind) => c = fullTable(u)
      /\ kind.estimator = "rtt" => c = {}
  BY <1>3, <1>7 DEF EstimatorOK, UsesRtt, UsesUtil
<1>10. EstimatorOK(kind, u, Estimator(r, c, c, b))
  BY <1>8, <1>9, EstimatorFollows
<1> QED
  BY <1>6, <1>7, <1>10

\* An estimator whose table did not change.
LEMMA EstimatorSame ==
  ASSUME NEW kind, NEW t, NEW e, EstimatorOK(kind, t, e), NEW u,
         \A x, y : Knows(u, x, y) <=> Knows(t, x, y)
  PROVE  EstimatorOK(kind, u, e)
<1>1. fullTable(u) = fullTable(t)
  BY SameFullTable
<1> QED
  BY <1>1 DEF EstimatorOK

LEMMA NoEstimatesOK ==
  ASSUME NEW kind
  PROVE  EstimatorOK(kind, <<>>, NoEstimates) /\ IsEstimator(NoEstimates, Lambdas, Ends)
<1>1. IsEstimator(NoEstimates, Lambdas, Ends)
  BY EstimatorRecord DEF NoEstimates
<1> QED
  BY <1>1, EmptyTable DEF EstimatorOK, NoEstimates

\* The destinations an estimator may return, and whether it finds a pair.
LEMMA EstimatorSelects ==
  ASSUME NEW kind \in DispatcherKinds, NEW t, NEW e, EstimatorOK(kind, t, e), NEW l, NEW d
  PROVE  /\ kind.estimator # "probe" =>
              /\ PtimeEstimator(kind.estimator, e, l, {}).candidates = all(fullTable(t), l)
              /\ PtimeEstimator(kind.estimator, e, l, {d}).processSuccess <=> Knows(t, l, d)
         /\ kind.estimator = "probe" =>
              /\ PtimeEstimator(kind.estimator, e, l, {}).candidates \subseteq Ends
              /\ PtimeEstimator(kind.estimator, e, l, {d}).processSuccess
<1>1. IsEstimator(e, Lambdas, Ends)
  BY DEF EstimatorOK
<1>2. {l} \X {d} \subseteq fullTable(t) <=> Knows(t, l, d)
  <2>1. ({l} \X {d} \subseteq fullTable(t)) <=> <<l, d>> \in fullTable(t)
    OBVIOUS
  <2> QED
    BY <2>1, FullTable
<1>3. CASE kind.estimator = "rtt"
  <2>1. PtimeEstimator(kind.estimator, e, l, {}).candidates = rtts(e, l)
    BY <1>3 DEF PtimeEstimator, PtimeEstimatorRtt
  <2>2. PtimeEstimator(kind.estimator, e, l, {d}).processSuccess <=> ({l} \X {d} \subseteq e.rtt)
    BY <1>3 DEF PtimeEstimator, PtimeEstimatorRtt, RttEstimator_measured, find
  <2> QED
    BY <2>1, <2>2, <1>2, <1>3 DEF rtts, EstimatorOK
<1>4. CASE kind.estimator = "util"
  <2>1. PtimeEstimator(kind.estimator, e, l, {}).candidates = all(e.rtt, l) \cap all(e.util.table, l)
    BY <1>4 DEF PtimeEstimator, PtimeEstimatorUtil, best, rtts
  <2>2. PtimeEstimator(kind.estimator, e, l, {d}).processSuccess <=>
          (({l} \X {d} \subseteq e.util.table) /\ ({l} \X {d} \subseteq e.rtt))
    BY <1>4 DEF PtimeEstimator, PtimeEstimatorUtil, RttEstimator_measured, UtilEstimator_measured, find
  <2> QED
    BY <2>1, <2>2, <1>2, <1>4 DEF EstimatorOK
<1>5. CASE kind.estimator = "delay"
  <2>1. PtimeEstimator(kind.estimator, e, l, {}).candidates = all(e.util.table, l)
    BY <1>5 DEF PtimeEstimator, PtimeEstimatorDelay, smallestPtime
  <2>2. PtimeEstimator(kind.estimator, e, l, {d}).processSuccess <=>
          ({l} \X {d} \subseteq e.util.table)
    BY <1>5 DEF PtimeEstimator, PtimeEstimatorDelay, UtilEstimator_measured, find
  <2> QED
    BY <2>1, <2>2, <1>2, <1>5 DEF EstimatorOK
<1>6. CASE kind.estimator = "probe"
  <2>1. PtimeEstimator(kind.estimator, e, l, {}).candidates = all(e.probe, l)
    BY <1>6 DEF PtimeEstimator, PtimeEstimatorProbe
  <2>2. PtimeEstimator(kind.estimator, e, l, {d}).processSuccess
    BY <1>6 DEF PtimeEstimator, PtimeEstimatorProbe
  <2>3. all(e.probe, l) \subseteq Ends
    <3>1. e.probe \subseteq Lambdas \X Ends
      BY <1>1, EstimatorType
    <3> QED
      BY <3>1 DEF all
  <2> QED
    BY <2>1, <2>2, <2>3, <1>6
<1> QED
  BY <1>3, <1>4, <1>5, <1>6 DEF DispatcherKinds

-----------------------------------------------------------------------------
(***************************************************************************)
(* Stacks of calls.                                                        *)
(***************************************************************************)
\* A destination leaves a table only for a reason.
Kept(t, f, w, t2, f2, w2) ==
  /\ f \subseteq f2 /\ \A n \in Nodes : w[n] \subseteq w2[n]
  /\ \A n \in Nodes, i \in Tables : \A l, d :
       Knows(t[n][i], l, d) => Knows(t2[n][i], l, d) \/ d \in f2 \cup w2[n]

LEMMA FrameKept ==
  ASSUME NEW x, NEW c, NEW t, NEW f, NEW w, NEW t2, NEW f2, NEW w2,
         FrameOK(x, c, t, f, w), Kept(t, f, w, t2, f2, w2)
  PROVE  FrameOK(x, c, t2, f2, w2)
<1>1. x.node \in Nodes /\ x \in LambdaRequests
  BY DEF FrameOK, LambdaRequests
<1>2. Caused(x, f, w) => Caused(x, f2, w2)
  BY <1>1 DEF Kept, Caused
<1>3. Found(x, c, t) => Found(x, c, t2) \/ Caused(x, f2, w2)
  BY <1>1 DEF Kept, Caused, Found, Tables
<1> QED
  BY <1>1, <1>2, <1>3 DEF FrameOK

LEMMA StackKept ==
  ASSUME NEW s, NEW c, NEW t, NEW f, NEW w, NEW t2, NEW f2, NEW w2,
         StackOK(s, c, t, f, w), Kept(t, f, w, t2, f2, w2)
  PROVE  StackOK(s, c, t2, f2, w2)
  BY FrameKept DEF StackOK

LEMMA StackTop ==
  ASSUME NEW s, NEW c, NEW t, NEW f, NEW w, StackOK(s, c, t, f, w), s # <<>>
  PROVE  /\ Len(s) \in Nat \ {0} /\ Len(s) \in DOMAIN s /\ Last(s) = s[Len(s)]
         /\ FrameOK(s[Len(s)], c, t, f, w) /\ s[Len(s)] \in LambdaRequests
         /\ s[Len(s)].pc \notin Early => Len(s) <= MaxHops + 1
<1>1. s \in Seq(LambdaRequests)
  BY DEF StackOK
<1>2. Len(s) \in Nat \ {0} /\ Len(s) \in 1..Len(s) /\ DOMAIN s = 1..Len(s)
  BY <1>1
<1> QED
  BY <1>1, <1>2 DEF StackOK, Last

LEMMA StackSet ==
  ASSUME NEW s, NEW c, NEW t, NEW f, NEW w, StackOK(s, c, t, f, w), s # <<>>,
         NEW x, FrameOK(x, c, t, f, w), x.pc \notin Early => Len(s) <= MaxHops + 1,
         NEW new, new = [s EXCEPT ![Len(s)] = x]
  PROVE  StackOK(new, c, t, f, w)
<1>1. s \in Seq(LambdaRequests) /\ x \in LambdaRequests
  BY DEF StackOK, FrameOK
<1>2. PICK n : n = Len(s)
  OBVIOUS
<1>3. n \in Nat \ {0}
  BY <1>1, <1>2
<1>4. /\ new \in Seq(LambdaRequests) /\ Len(new) = n /\ new[n] = x
      /\ \A k \in 1..(n - 1) : new[k] = s[k]
  BY <1>1, <1>2, <1>3
<1>5. \A k \in 1..n : FrameOK(new[k], c, t, f, w)
  <2> TAKE k \in 1..n
  <2>1. CASE k = n
    BY <2>1, <1>4
  <2>2. CASE k \in 1..(n - 1)
    BY <2>2, <1>2, <1>3, <1>4 DEF StackOK
  <2> QED
    BY <2>1, <2>2, <1>3
<1>6. \A k \in 1..(n - 1) : new[k].pc = "call"
  BY <1>2, <1>4 DEF StackOK
<1> QED
  BY <1>2, <1>3, <1>4, <1>5, <1>6 DEF StackOK

LEMMA StackPush ==
  ASSUME NEW s, NEW c, NEW t, NEW f, NEW w, StackOK(s, c, t, f, w), s # <<>>,
         s[Len(s)].pc = "call", NEW x, FrameOK(x, c, t, f, w), x.pc \in Early
  PROVE  StackOK(Append(s, x), c, t, f, w)
<1>1. s \in Seq(LambdaRequests) /\ x \in LambdaRequests
  BY DEF StackOK, FrameOK
<1>2. PICK n, new : n = Len(s) /\ new = Append(s, x)
  OBVIOUS
<1>3. n \in Nat \ {0} /\ n <= MaxHops + 1
  BY <1>1, <1>2 DEF StackOK, Early
<1>4. /\ new \in Seq(LambdaRequests) /\ Len(new) = n + 1 /\ new[n + 1] = x
      /\ \A k \in 1..n : new[k] = s[k]
  BY <1>1, <1>2, <1>3
<1>5. \A k \in 1..(n + 1) : FrameOK(new[k], c, t, f, w)
  <2> TAKE k \in 1..(n + 1)
  <2>1. CASE k = n + 1
    BY <2>1, <1>4
  <2>2. CASE k \in 1..n
    BY <2>2, <1>2, <1>4 DEF StackOK
  <2> QED
    BY <2>1, <2>2, <1>3
<1>6. \A k \in 1..n : new[k].pc = "call"
  <2> TAKE k \in 1..n
  <2>1. k = n \/ k \in 1..(n - 1)
    BY <1>3
  <2> QED
    BY <2>1, <1>2, <1>4 DEF StackOK
<1>7. Len(new) - 1 = n /\ Len(new) <= MaxHops + 2
  BY <1>3, <1>4, BoundsAssumption
<1>8. new[Len(new)].pc \in Early
  BY <1>4
<1>9. StackOK(new, c, t, f, w)
  BY <1>4, <1>5, <1>6, <1>7, <1>8 DEF StackOK
<1> QED
  BY <1>2, <1>9

LEMMA StackPop ==
  ASSUME NEW s, NEW c, NEW t, NEW f, NEW w, StackOK(s, c, t, f, w), s # <<>>
  PROVE  /\ StackOK(Front(s), c, t, f, w)
         /\ Front(s) # <<>> =>
              /\ Front(s)[Len(Front(s))].pc = "call"
              /\ Front(s)[Len(Front(s))].d \in Ends
<1>1. s \in Seq(LambdaRequests)
  BY DEF StackOK
<1>2. PICK n, new : n = Len(s) /\ new = Front(s)
  OBVIOUS
<1>3. n \in Nat \ {0}
  BY <1>1, <1>2
<1>4. new = SubSeq(s, 1, n - 1)
  BY <1>2 DEF Front
<1>5. /\ new \in Seq(LambdaRequests) /\ Len(new) = n - 1
      /\ \A k \in 1..(n - 1) : new[k] = s[k]
  BY <1>1, <1>2, <1>3, <1>4
<1>6. \A k \in 1..(n - 1) : FrameOK(new[k], c, t, f, w) /\ new[k].pc = "call"
  BY <1>2, <1>3, <1>5 DEF StackOK
<1>7. n <= MaxHops + 2 /\ n - 1 <= MaxHops + 1 /\ n - 1 <= MaxHops + 2
  BY <1>2, <1>3, BoundsAssumption DEF StackOK
<1>8. \A k \in 1..((n - 1) - 1) : k \in 1..(n - 1)
  BY <1>3
<1>9. StackOK(new, c, t, f, w)
  BY <1>5, <1>6, <1>7, <1>8 DEF StackOK
<1>10. ASSUME new # <<>> PROVE new[Len(new)].pc = "call" /\ new[Len(new)].d \in Ends
  <2>1. Len(new) \in 1..(n - 1)
    BY <1>3, <1>5, <1>10
  <2>2. FrameOK(new[Len(new)], c, t, f, w) /\ new[Len(new)].pc = "call"
    BY <2>1, <1>6
  <2> QED
    BY <2>2 DEF FrameOK, Calling
<1> QED
  BY <1>2, <1>9, <1>10

-----------------------------------------------------------------------------
(***************************************************************************)
(* Steps: one table of one node is replaced, one request moves.            *)
(***************************************************************************)
LEMMA TablesStep ==
  ASSUME TablesOK, conf' = conf, NEW n \in Nodes, NEW i \in Tables, NEW t, TableOK(t),
         tab' = [tab EXCEPT ![n][i] = t], DOMAIN est' = Nodes,
         \A m \in Nodes \ {n} : est'[m] = est[m],
         IsRouter(n) => IsEstimator(est'[n], Lambdas, Ends),
         ~ IsRouter(n) => EstimatorOK(conf[n], IF i = 1 THEN t ELSE tab[n][1], est'[n])
  PROVE  TablesOK'
<1>1. /\ DOMAIN tab' = Nodes /\ DOMAIN tab'[n] = Tables /\ tab'[n][i] = t
      /\ \A m \in Nodes \ {n} : tab'[m] = tab[m]
      /\ \A j \in Tables \ {i} : tab'[n][j] = tab[n][j]
  BY DEF TablesOK
<1>2. \A m \in Nodes : DOMAIN tab'[m] = Tables
  BY <1>1 DEF TablesOK
<1>3. \A m \in Nodes, j \in Tables : TableOK(tab'[m][j])
  <2> TAKE m \in Nodes, j \in Tables
  <2>1. CASE m # n
    BY <2>1, <1>1 DEF TablesOK
  <2>2. CASE m = n /\ j # i
    BY <2>2, <1>1 DEF TablesOK
  <2>3. CASE m = n /\ j = i
    BY <2>3, <1>1
  <2> QED
    BY <2>1, <2>2, <2>3
<1>4. ASSUME NEW m \in Nodes
      PROVE  IF conf'[m].node = "router" THEN IsEstimator(est'[m], Lambdas, Ends)
             ELSE EstimatorOK(conf'[m], tab'[m][1], est'[m])
  <2>1. CASE m # n
    <3>1. est'[m] = est[m] /\ tab'[m] = tab[m] /\ conf'[m] = conf[m]
      BY <2>1, <1>1
    <3> QED
      BY <3>1 DEF TablesOK, IsRouter
  <2>2. CASE m = n
    <3>1. tab'[n][1] = IF i = 1 THEN t ELSE tab[n][1]
      BY <1>1 DEF Tables
    <3> QED
      BY <2>2, <3>1 DEF IsRouter
  <2> QED
    BY <2>1, <2>2
<1> QED
  BY <1>1, <1>2, <1>3, <1>4 DEF TablesOK, IsRouter

\* A table that no estimator follows.
LEMMA RouterStep ==
  ASSUME TablesOK, conf' = conf, est' = est, NEW n \in Nodes, NEW i \in Tables,
         IsRouter(n) \/ i = 2, NEW t, TableOK(t), tab' = [tab EXCEPT ![n][i] = t]
  PROVE  TablesOK'
<1>1. (IsRouter(n) => IsEstimator(est'[n], Lambdas, Ends)) /\ DOMAIN est' = Nodes
  BY DEF TablesOK
<1>2. ~ IsRouter(n) => EstimatorOK(conf[n], IF i = 1 THEN t ELSE tab[n][1], est'[n])
  BY DEF TablesOK
<1> QED
  BY <1>1, <1>2, TablesStep

\* The estimator has no reason to change: the table knows the same destinations.
LEMMA SameStep ==
  ASSUME TablesOK, conf' = conf, est' = est, NEW n \in Nodes, NEW i \in Tables,
         NEW t, TableOK(t), tab' = [tab EXCEPT ![n][i] = t],
         \A x, y : Knows(t, x, y) <=> Knows(tab[n][i], x, y)
  PROVE  TablesOK'
<1>1. DOMAIN est' = Nodes /\ (IsRouter(n) => IsEstimator(est'[n], Lambdas, Ends))
  BY DEF TablesOK
<1>2. ASSUME ~ IsRouter(n)
      PROVE  EstimatorOK(conf[n], IF i = 1 THEN t ELSE tab[n][1], est'[n])
  <2>1. EstimatorOK(conf[n], tab[n][1], est[n])
    BY <1>2 DEF TablesOK
  <2>2. PICK u : u = IF i = 1 THEN t ELSE tab[n][1]
    OBVIOUS
  <2>3. \A x, y : Knows(u, x, y) <=> Knows(tab[n][1], x, y)
    BY <2>2
  <2>4. EstimatorOK(conf[n], u, est[n])
    BY <2>1, <2>3, EstimatorSame
  <2> QED
    BY <2>2, <2>4
<1> QED
  BY <1>1, <1>2, TablesStep

LEMMA TablesSame == TablesOK /\ conf' = conf /\ tables' = tables => TablesOK'
  BY DEF TablesOK, tables, IsRouter

\* What a step forgets in a table has a cause.
LEMMA KeptStep ==
  ASSUME TablesOK, NEW n \in Nodes, NEW i \in Tables, NEW t, NEW t2, t2 = [tab EXCEPT ![n][i] = t],
         NEW f, NEW w, failed \subseteq f, \A m \in Nodes : withdrawn[m] \subseteq w[m],
         \A x, y : Knows(tab[n][i], x, y) => Knows(t, x, y) \/ y \in f \cup w[n]
  PROVE  Kept(tab, failed, withdrawn, t2, f, w)
<1>1. /\ t2[n][i] = t
      /\ \A m \in Nodes \ {n} : t2[m] = tab[m]
      /\ \A j \in Tables \ {i} : t2[n][j] = tab[n][j]
  BY DEF TablesOK
<1> QED
  BY <1>1 DEF Kept

LEMMA KeptSame ==
  ASSUME NEW f, NEW w, failed \subseteq f, \A m \in Nodes : withdrawn[m] \subseteq w[m]
  PROVE  Kept(tab, failed, withdrawn, tab, f, w)
  BY DEF Kept

LEMMA StacksStep ==
  ASSUME StacksOK, conf' = conf, Kept(tab, failed, withdrawn, tab', failed', withdrawn'),
         NEW q \in Requests, NEW s, stack' = [stack EXCEPT ![q] = s],
         StackOK(s, conf, tab', failed', withdrawn')
  PROVE  StacksOK'
<1>1. DOMAIN stack' = Requests /\ stack'[q] = s /\ \A r \in Requests \ {q} : stack'[r] = stack[r]
  BY DEF StacksOK
<1>2. ASSUME NEW r \in Requests PROVE StackOK(stack'[r], conf, tab', failed', withdrawn')
  <2>1. CASE r = q
    BY <2>1, <1>1
  <2>2. CASE r # q
    <3>1. StackOK(stack[r], conf, tab, failed, withdrawn)
      BY DEF StacksOK
    <3>2. StackOK(stack[r], conf, tab', failed', withdrawn')
      BY <3>1, StackKept
    <3> QED
      BY <3>2, <2>2, <1>1
  <2> QED
    BY <2>1, <2>2
<1> QED
  BY <1>1, <1>2 DEF StacksOK

LEMMA StacksSame ==
  ASSUME StacksOK, conf' = conf, Kept(tab, failed, withdrawn, tab', failed', withdrawn'),
         stack' = stack
  PROVE  StacksOK'
<1>1. ASSUME NEW r \in Requests PROVE StackOK(stack[r], conf, tab', failed', withdrawn')
  <2>1. StackOK(stack[r], conf, tab, failed, withdrawn)
    BY DEF StacksOK
  <2> QED
    BY <2>1, StackKept
<1> QED
  BY <1>1 DEF StacksOK

\* The innermost call of q goes on as x.
LEMMA TopStep ==
  ASSUME StacksOK, conf' = conf, Kept(tab, failed, withdrawn, tab', failed', withdrawn'),
         NEW q \in Requests, stack[q] # <<>>, NEW x,
         FrameOK(x, conf, tab', failed', withdrawn'),
         x.pc \notin Early => Len(stack[q]) <= MaxHops + 1,
         NEW s, s = [stack[q] EXCEPT ![Len(stack[q])] = x], stack' = [stack EXCEPT ![q] = s]
  PROVE  StacksOK'
<1>1. StackOK(stack[q], conf, tab, failed, withdrawn)
  BY DEF StacksOK
<1>2. StackOK(stack[q], conf, tab', failed', withdrawn')
  BY <1>1, StackKept
<1>3. StackOK(s, conf, tab', failed', withdrawn')
  BY <1>2, StackSet
<1> QED
  BY <1>3, StacksStep

LEMMA ContinueStep ==
  ASSUME StacksOK, conf' = conf, Kept(tab, failed, withdrawn, tab', failed', withdrawn'),
         NEW q \in Requests, stack[q] # <<>>, Top(q).pc \notin Early, NEW pc \in Pcs,
         pc \in {"call", "success"} => Top(q).pc \in Calling,
         pc \in {"call", "success", "failure", "failure2", "tell"},
         pc \notin {"call", "success"} => Caused(Top(q), failed', withdrawn'),
         Continue(q, pc)
  PROVE  StacksOK'
<1>1. StackOK(stack[q], conf, tab, failed, withdrawn)
  BY DEF StacksOK
<1>2. PICK s, x : s = stack[q] /\ x = s[Len(s)]
  OBVIOUS
<1>3. /\ Len(s) \in DOMAIN s /\ Top(q) = x /\ x \in LambdaRequests
      /\ FrameOK(x, conf, tab, failed, withdrawn) /\ (x.pc \notin Early => Len(s) <= MaxHops + 1)
  BY <1>1, <1>2, StackTop DEF Top
<1>4. PICK y : y = [x EXCEPT !.pc = pc]
  OBVIOUS
<1>5. y \in LambdaRequests /\ y.pc = pc /\ y.d = x.d /\ y.node = x.node /\ y.l = x.l /\ y.forward = x.forward
  BY <1>3, <1>4 DEF LambdaRequests
<1>6. FrameOK(x, conf, tab', failed', withdrawn')
  BY <1>3, FrameKept
<1>7. FrameOK(y, conf, tab', failed', withdrawn')
  BY <1>3, <1>5, <1>6 DEF FrameOK, Found, Caused, Calling
<1>8. PICK s2 : s2 = [s EXCEPT ![Len(s)] = y]
  OBVIOUS
<1>9. stack' = [stack EXCEPT ![q] = s2]
  BY <1>2, <1>4, <1>8, <1>3 DEF Continue, StacksOK
<1>10. s2 = [stack[q] EXCEPT ![Len(stack[q])] = y] /\ (y.pc \notin Early => Len(stack[q]) <= MaxHops + 1)
  BY <1>2, <1>3, <1>8
<1> QED
  BY <1>7, <1>9, <1>10, TopStep

LEMMA ReturnStep ==
  ASSUME StacksOK, conf' = conf, withdrawn' = withdrawn,
         Kept(tab, failed, withdrawn, tab', failed, withdrawn),
         failed \subseteq Ends, answer \in [Requests -> LambdaResponses],
         NEW q \in Requests, stack[q] # <<>>, NEW ok \in BOOLEAN, Return(q, ok)
  PROVE  /\ StacksOK' /\ failed \subseteq failed' /\ failed' \subseteq Ends
         /\ answer' \in [Requests -> LambdaResponses]
<1>1. StackOK(stack[q], conf, tab, failed, withdrawn)
  BY DEF StacksOK
<1>2. PICK calls : calls = Front(stack[q])
  OBVIOUS
<1>3. /\ StackOK(calls, conf, tab, failed, withdrawn)
      /\ calls # <<>> => calls[Len(calls)].pc = "call" /\ calls[Len(calls)].d \in Ends
  BY <1>1, <1>2, StackPop
<1>4. CASE calls = <<>>
  <2>1. /\ stack' = [stack EXCEPT ![q] = calls] /\ failed' = failed
        /\ answer' = [answer EXCEPT ![q] = IF ok THEN "OK" ELSE "error"]
    BY <1>2, <1>4 DEF Return
  <2>2. StackOK(calls, conf, tab', failed', withdrawn')
    BY <1>3, <2>1, StackKept
  <2>3. StacksOK'
    BY <2>1, <2>2, StacksStep
  <2> QED
    BY <2>1, <2>3 DEF LambdaResponses
<1>5. CASE calls # <<>>
  <2>1. PICK x : x = calls[Len(calls)]
    OBVIOUS
  <2>2. /\ Len(calls) \in DOMAIN calls /\ Last(calls) = x /\ x \in LambdaRequests
        /\ FrameOK(x, conf, tab, failed, withdrawn) /\ Len(calls) <= MaxHops + 1
        /\ x.pc = "call" /\ x.d \in Ends
    BY <1>3, <1>5, <2>1, StackTop DEF Early
  <2>3. PICK y : y = [x EXCEPT !.pc = IF ok THEN "success" ELSE "failure"]
    OBVIOUS
  <2>4. PICK s : s = [calls EXCEPT ![Len(calls)] = y]
    OBVIOUS
  <2>5. /\ stack' = [stack EXCEPT ![q] = s] /\ answer' = answer
        /\ failed' = IF ok THEN failed ELSE failed \cup {x.d}
    <3>1. [calls EXCEPT ![Len(calls)].pc = IF ok THEN "success" ELSE "failure"] = s
      BY <2>1, <2>2, <2>3, <2>4
    <3> QED
      BY <1>2, <1>5, <2>2, <3>1 DEF Return
  <2>6. Kept(tab, failed, withdrawn, tab', failed', withdrawn')
    BY <2>5 DEF Kept
  <2>7. FrameOK(x, conf, tab', failed', withdrawn') /\ StackOK(calls, conf, tab', failed', withdrawn')
    BY <2>2, <2>6, <1>3, FrameKept, StackKept
  <2>8. /\ y \in LambdaRequests /\ y.pc = IF ok THEN "success" ELSE "failure"
        /\ y.d = x.d /\ y.node = x.node /\ y.l = x.l /\ y.forward = x.forward
    BY <2>2, <2>3 DEF LambdaRequests, Pcs
  <2>9. FrameOK(y, conf, tab', failed', withdrawn')
    BY <2>2, <2>5, <2>7, <2>8 DEF FrameOK, Found, Caused, Calling
  <2>10. StackOK(s, conf, tab', failed', withdrawn')
    BY <2>2, <2>4, <2>7, <2>9, <1>5, StackSet
  <2>11. StacksOK'
    BY <2>5, <2>6, <2>10, StacksStep
  <2> QED
    BY <2>2, <2>5, <2>11
<1> QED
  BY <1>4, <1>5

-----------------------------------------------------------------------------
(***************************************************************************)
(* The initial tables, filled one command after the other.                 *)
(***************************************************************************)
FillOK(kind, s) ==
  /\ s = [tab |-> s.tab, est |-> s.est]
  /\ DOMAIN s.tab = Tables /\ TableOK(s.tab[1]) /\ TableOK(s.tab[2])
  /\ IF kind.node = "router" THEN IsEstimator(s.est, Lambdas, Ends)
     ELSE EstimatorOK(kind, s.tab[1], s.est)

FillCommands == {c \in NewCommands : c.action = "CHANGE" /\ c.w # 0}

LEMMA FillCommandType ==
  ASSUME NEW c \in FillCommands
  PROVE  c.l \in Lambdas /\ c.d \in Ends /\ c.w \in Positive /\ c.w \in Weights /\ c.w # 0 /\ c.final \in BOOLEAN
<1>1. c \in EdgeRouterConf /\ c.action = "CHANGE" /\ c.w # 0
  BY DEF FillCommands, NewCommands
<1>2. c \in [action : {"CHANGE"}, l : Lambdas, d : Ends, w : Weights, final : BOOLEAN, i : Tables]
  BY <1>1 DEF EdgeRouterConf
<1> QED
  BY <1>1, <1>2 DEF Positive

LEMMA KindFacts ==
  ASSUME NEW kind \in Kinds
  PROVE  /\ kind.node \in {"router", "dispatcher"} /\ kind.fake \in BOOLEAN
         /\ kind.node = "router" => kind \in RouterKinds /\ kind.table \in EntryTypes
         /\ kind.node # "router" => kind \in DispatcherKinds
         /\ kind.node = "dispatcher" => kind \in DispatcherKinds
         /\ "random" \in EntryTypes
  BY DEF Kinds, RouterKinds, DispatcherKinds, EntryTypes

LEMMA FillStep ==
  ASSUME NEW kind \in Kinds, NEW s, FillOK(kind, s), NEW c \in FillCommands
  PROVE  FillOK(kind, Fill(kind, s, c))
<1>1. c.l \in Lambdas /\ c.d \in Ends /\ c.w \in Weights /\ c.w # 0 /\ c.final \in BOOLEAN
  BY FillCommandType
<1>2. CASE kind.node = "dispatcher"
  <2>1. CASE Knows(s.tab[1], c.l, c.d)
    BY <2>1, <1>2 DEF Fill
  <2>2. CASE ~ Knows(s.tab[1], c.l, c.d)
    <3>1. PICK t, e : /\ t = TableChange(s.tab[1], "random", c.l, c.d, 1, c.final)
                      /\ e = privateAdd(kind.estimator, s.est, c.l, {c.d})
      OBVIOUS
    <3>2. Fill(kind, s, c) = [tab |-> [s.tab EXCEPT ![1] = t], est |-> e]
      BY <3>1, <2>2, <1>2 DEF Fill
    <3>3. TableOK(s.tab[1]) /\ TableOK(s.tab[2]) /\ EstimatorOK(kind, s.tab[1], s.est) /\ DOMAIN s.tab = Tables
      BY <1>2 DEF FillOK
    <3>4. kind \in DispatcherKinds
      BY <1>2, KindFacts
    <3>5. /\ TableOK(t)
          /\ \A x, y : Knows(t, x, y) <=> Knows(s.tab[1], x, y) \/ (x = c.l /\ y = c.d /\ 1 # 0)
      BY <3>1, <3>3, <1>1, BoundsAssumption, KindFacts, TableChangeOK
    <3>6. \A x, y : Knows(t, x, y) <=> Knows(s.tab[1], x, y) \/ (x = c.l /\ y = c.d)
      BY <3>5
    <3>7. EstimatorOK(kind, t, e)
      BY <3>1, <3>3, <3>4, <3>6, <1>1, EstimatorAddOK
    <3>8. PICK u : u = [s.tab EXCEPT ![1] = t]
      OBVIOUS
    <3>9. DOMAIN u = Tables /\ u[1] = t /\ u[2] = s.tab[2]
      BY <3>3, <3>8 DEF Tables
    <3>10. PICK r : r = [tab |-> u, est |-> e]
      OBVIOUS
    <3>11. r.tab = u /\ r.est = e
      BY <3>10
    <3>12. FillOK(kind, r)
      BY <3>10, <3>11, <3>3, <3>5, <3>7, <3>9, <1>2 DEF FillOK
    <3> QED
      BY <3>2, <3>8, <3>10, <3>12
  <2> QED
    BY <2>1, <2>2
<1>3. CASE kind.node = "router"
  <2>1. PICK u : u = [i \in Tables |-> IF i = 2 /\ ~ c.final THEN s.tab[i]
                        ELSE TableChange(s.tab[i], kind.table, c.l, c.d, c.w, c.final)]
    OBVIOUS
  <2>2. s \in [tab : {s.tab}, est : {s.est}]
    BY DEF FillOK
  <2>3. Fill(kind, s, c) = [tab |-> u, est |-> s.est]
    BY <1>3, <2>1, <2>2 DEF Fill
  <2>4. kind.table \in EntryTypes /\ TableOK(s.tab[1]) /\ TableOK(s.tab[2]) /\ IsEstimator(s.est, Lambdas, Ends)
    BY <1>3, KindFacts DEF FillOK
  <2>5. \A i \in Tables : TableOK(s.tab[i])
    BY <2>4 DEF Tables
  <2>6. \A i \in Tables : TableOK(TableChange(s.tab[i], kind.table, c.l, c.d, c.w, c.final))
    BY <2>4, <2>5, <1>1, TableChangeOK
  <2>7. DOMAIN u = Tables /\ \A i \in Tables : TableOK(u[i])
    BY <2>1, <2>5, <2>6
  <2>8. TableOK(u[1]) /\ TableOK(u[2])
    BY <2>7 DEF Tables
  <2>9. PICK r : r = [tab |-> u, est |-> s.est]
    OBVIOUS
  <2>10. r.tab = u /\ r.est = s.est
    BY <2>9
  <2>11. FillOK(kind, r)
    BY <1>3, <2>4, <2>7, <2>8, <2>9, <2>10 DEF FillOK
  <2> QED
    BY <2>3, <2>9, <2>11
<1> QED
  BY <1>2, <1>3, KindFacts

\* fill is what Filled defines recursively.
IsFill(fill, kind, changes, m) ==
  fill = [k \in 0..m |-> IF k = 0 THEN [tab |-> [i \in Tables |-> <<>>], est |-> NoEstimates]
                         ELSE Fill(kind, fill[k - 1], changes[k])]

LEMMA FillExists ==
  ASSUME NEW kind, NEW changes, NEW n \in Nat
  PROVE  \E fill : IsFill(fill, kind, changes, n)
<1> DEFINE Bad == {m \in 0..n : ~ \E fill : IsFill(fill, kind, changes, m)}
<1>1. SUFFICES Bad = {}
  <2>1. n \in 0..n
    OBVIOUS
  <2> QED
    BY <2>1
<1>2. SUFFICES ASSUME Bad # {} PROVE FALSE
  OBVIOUS
<1>3. PICK m \in Bad : \A j \in Bad : m <= j
  <2>1. Bad \in SUBSET Nat OBVIOUS
  <2> HIDE DEF Bad
  <2> QED BY <1>2, <2>1, NatMin
<1>4. m \in 0..n /\ m \in Nat /\ ~ \E fill : IsFill(fill, kind, changes, m)
  OBVIOUS
<1>5. PICK first : first = [tab |-> [i \in Tables |-> <<>>], est |-> NoEstimates]
  OBVIOUS
<1>6. m # 0
  <2>1. PICK f : f = [k \in 0..0 |-> first]
    OBVIOUS
  <2>2. f = [k \in 0..0 |-> IF k = 0 THEN first ELSE Fill(kind, f[k - 1], changes[k])]
    BY <2>1
  <2>3. IsFill(f, kind, changes, 0)
    BY <2>2, <1>5 DEF IsFill
  <2> QED
    BY <2>3, <1>4
<1>7. m - 1 \in 0..n /\ m - 1 \notin Bad
  <2>1. m - 1 \in 0..n /\ ~ (m <= m - 1) BY <1>4, <1>6
  <2> HIDE DEF Bad
  <2> QED BY <2>1, <1>3
<1>8. PICK f : IsFill(f, kind, changes, m - 1)
  BY <1>7
<1>9. PICK h : h = [k \in 0..m |-> IF k = m THEN Fill(kind, f[m - 1], changes[m]) ELSE f[k]]
  OBVIOUS
<1>10. \A k \in 0..m : h[k] = IF k = 0 THEN first ELSE Fill(kind, h[k - 1], changes[k])
  <2> TAKE k \in 0..m
  <2>1. CASE k = m
    <3>1. h[m - 1] = f[m - 1] /\ h[m] = Fill(kind, f[m - 1], changes[m])
      BY <1>4, <1>6, <1>9
    <3> QED
      BY <2>1, <3>1, <1>6
  <2>2. CASE k # m
    <3>1. k \in 0..(m - 1) /\ h[k] = f[k]
      BY <2>2, <1>4, <1>9
    <3>2. f[k] = IF k = 0 THEN first ELSE Fill(kind, f[k - 1], changes[k])
      BY <3>1, <1>5, <1>8 DEF IsFill
    <3>3. k # 0 => h[k - 1] = f[k - 1]
      BY <3>1, <1>4, <1>9
    <3> QED
      BY <3>1, <3>2, <3>3
  <2> QED
    BY <2>1, <2>2
<1>11. h = [k \in 0..m |-> IF k = 0 THEN first ELSE Fill(kind, h[k - 1], changes[k])]
  BY <1>9, <1>10
<1>12. IsFill(h, kind, changes, m)
  BY <1>11, <1>5 DEF IsFill
<1> QED
  BY <1>4, <1>12

LEMMA FilledOK ==
  ASSUME NEW kind \in Kinds, NEW changes \in Seq(FillCommands)
  PROVE  FillOK(kind, Filled(kind, changes))
<1>1. PICK n : n = Len(changes)
  OBVIOUS
<1>2. n \in Nat /\ \A k \in 1..n : changes[k] \in FillCommands
  BY <1>1
<1>3. PICK fill : fill = CHOOSE f : IsFill(f, kind, changes, n)
  OBVIOUS
<1>4. IsFill(fill, kind, changes, n)
  BY <1>2, <1>3, FillExists
<1>5. Filled(kind, changes) = fill[n]
  BY <1>1, <1>3 DEF Filled, IsFill
<1>6. /\ fill[0] = [tab |-> [i \in Tables |-> <<>>], est |-> NoEstimates]
      /\ \A k \in 1..n : fill[k] = Fill(kind, fill[k - 1], changes[k])
  <2>1. PICK first : first = [tab |-> [i \in Tables |-> <<>>], est |-> NoEstimates]
    OBVIOUS
  <2>2. \A k \in 0..n : fill[k] = IF k = 0 THEN first ELSE Fill(kind, fill[k - 1], changes[k])
    BY <2>1, <1>4 DEF IsFill
  <2>3. 0 \in 0..n /\ \A k \in 1..n : k \in 0..n /\ k # 0
    BY <1>2
  <2> QED
    BY <2>1, <2>2, <2>3
<1>7. FillOK(kind, fill[0])
  BY <1>6, EmptyTable, NoEstimatesOK DEF FillOK, Tables
<1> DEFINE Bad == {k \in 0..n : ~ FillOK(kind, fill[k])}
<1>8. Bad = {}
  <2>1. SUFFICES ASSUME Bad # {} PROVE FALSE
    OBVIOUS
  <2>2. PICK m \in Bad : \A j \in Bad : m <= j
    <3>1. Bad \in SUBSET Nat BY <1>2
    <3> HIDE DEF Bad
    <3> QED BY <2>1, <3>1, NatMin
  <2>3. m \in 0..n /\ ~ FillOK(kind, fill[m])
    OBVIOUS
  <2>4. m # 0
    BY <2>3, <1>7
  <2>5. m \in 1..n /\ m - 1 \in 0..n /\ ~ (m <= m - 1)
    BY <2>3, <2>4, <1>2
  <2>6. FillOK(kind, fill[m - 1])
    BY <2>2, <2>5
  <2>7. fill[m] = Fill(kind, fill[m - 1], changes[m]) /\ changes[m] \in FillCommands
    BY <2>5, <1>2, <1>6
  <2>8. FillOK(kind, Fill(kind, fill[m - 1], changes[m]))
    BY <2>6, <2>7, FillStep
  <2> QED
    BY <2>3, <2>7, <2>8
<1>9. FillOK(kind, fill[n])
  <2>1. n \in 0..n BY <1>2
  <2> QED BY <2>1, <1>8
<1> QED
  BY <1>5, <1>9

LEMMA InitOK == Init => IInv
<1> SUFFICES ASSUME Init PROVE IInv
  OBVIOUS
<1>1. PICK s \in Scenarios :
        /\ conf = s.conf
        /\ tab = [n \in Nodes |-> Filled(s.conf[n], s.changes[n]).tab]
        /\ est = [n \in Nodes |-> Filled(s.conf[n], s.changes[n]).est]
  BY DEF Init
<1>2. conf \in [Nodes -> Kinds] /\ \A n \in Nodes : s.changes[n] \in Seq(FillCommands)
  BY <1>1, InputsAssumption DEF IsScenario, FillCommands
<1>3. \A n \in Nodes : FillOK(conf[n], Filled(conf[n], s.changes[n]))
  BY <1>2, FilledOK
<1>4. TablesOK
  <2>1. /\ DOMAIN tab = Nodes /\ DOMAIN est = Nodes
        /\ \A n \in Nodes : /\ tab[n] = Filled(conf[n], s.changes[n]).tab
                            /\ est[n] = Filled(conf[n], s.changes[n]).est
    BY <1>1
  <2>2. \A n \in Nodes : /\ DOMAIN tab[n] = Tables /\ TableOK(tab[n][1]) /\ TableOK(tab[n][2])
                         /\ IF conf[n].node = "router" THEN IsEstimator(est[n], Lambdas, Ends)
                            ELSE EstimatorOK(conf[n], tab[n][1], est[n])
    BY <2>1, <1>3 DEF FillOK
  <2>3. \A n \in Nodes, i \in Tables : TableOK(tab[n][i])
    BY <2>2 DEF Tables
  <2> QED
    BY <2>1, <2>2, <2>3 DEF TablesOK, IsRouter
<1>5. RestOK
  BY <1>2, BoundsAssumption DEF Init, RestOK, LambdaResponses
<1>6. StacksOK
  <2>1. DOMAIN stack = Requests /\ \A q \in Requests : stack[q] = <<>>
    BY DEF Init
  <2>2. StackOK(<<>>, conf, tab, failed, withdrawn)
    BY BoundsAssumption DEF StackOK
  <2> QED
    BY <2>1, <2>2 DEF StacksOK
<1>7. ToldOK
  BY DEF Init, ToldOK, PurgeHasCause
<1> QED
  BY <1>4, <1>5, <1>6, <1>7 DEF IInv

-----------------------------------------------------------------------------
(***************************************************************************)
(* The actions.                                                            *)
(***************************************************************************)
LEMMA AtFacts ==
  ASSUME IInv, NEW q \in Requests, NEW pc, At(q, pc)
  PROVE  /\ stack[q] # <<>> /\ Top(q).pc = pc /\ Top(q) \in LambdaRequests
         /\ Top(q).node \in Nodes /\ Top(q).l \in Lambdas /\ Top(q).forward \in BOOLEAN
         /\ FrameOK(Top(q), conf, tab, failed, withdrawn)
         /\ conf[Top(q).node] \in Kinds /\ (IF Top(q).forward THEN 2 ELSE 1) \in Tables
         /\ Top(q) = stack[q][Len(stack[q])] /\ Len(stack[q]) \in DOMAIN stack[q]
         /\ Len(stack[q]) \in Nat \ {0}
         /\ pc \notin Early => Len(stack[q]) <= MaxHops + 1
<1>1. StackOK(stack[q], conf, tab, failed, withdrawn) /\ stack[q] # <<>> /\ Top(q).pc = pc
  BY DEF IInv, StacksOK, At
<1>2. /\ Top(q) = stack[q][Len(stack[q])] /\ Top(q) \in LambdaRequests
      /\ Len(stack[q]) \in DOMAIN stack[q] /\ Len(stack[q]) \in Nat \ {0}
      /\ FrameOK(Top(q), conf, tab, failed, withdrawn)
      /\ Top(q).pc \notin Early => Len(stack[q]) <= MaxHops + 1
  BY <1>1, StackTop DEF Top
<1>3. Top(q).node \in Nodes /\ Top(q).l \in Lambdas /\ Top(q).forward \in BOOLEAN
  BY <1>2 DEF LambdaRequests
<1>4. conf[Top(q).node] \in Kinds
  BY <1>3 DEF IInv, RestOK
<1> QED
  BY <1>1, <1>2, <1>3, <1>4 DEF Tables

LEMMA KnownEnds ==
  ASSUME NEW t, TableOK(t), NEW l, NEW d, Knows(t, l, d)
  PROVE  l \in Lambdas /\ d \in Ends
<1>1. <<l, d>> \in fullTable(t) /\ fullTable(t) \subseteq Lambdas \X Ends
  BY FullTable
<1> QED
  BY <1>1

LEMMA ToldSame ==
  ASSUME ToldOK, told' = told, failed \subseteq failed',
         \A n \in Nodes : withdrawn[n] \subseteq withdrawn'[n]
  PROVE  ToldOK'
<1>1. \A p \in told : p[1] \in Nodes
  BY DEF ToldOK
<1> QED
  BY <1>1 DEF ToldOK, PurgeHasCause

\* A step of process() leaves the commands alone.
LEMMA ProcessRest ==
  ASSUME RestOK, conf' = conf, environment' = environment,
         estimates' \in [Nodes -> SUBSET Requests],
         latencies' \in [Nodes -> [Tables -> SUBSET (Lambdas \X Ends)]],
         balancing' \in [Nodes -> [Tables -> SUBSET (Lambdas \X Ends)]],
         answer' \in [Requests -> LambdaResponses], failed' \subseteq Ends
  PROVE  RestOK'
  BY DEF RestOK, environment, IsRouter

LEMMA RestTypes ==
  ASSUME RestOK
  PROVE  /\ estimates \in [Nodes -> SUBSET Requests]
         /\ latencies \in [Nodes -> [Tables -> SUBSET (Lambdas \X Ends)]]
         /\ balancing \in [Nodes -> [Tables -> SUBSET (Lambdas \X Ends)]]
         /\ answer \in [Requests -> LambdaResponses] /\ failed \subseteq Ends
         /\ withdrawn \in [Nodes -> SUBSET Ends]
  BY DEF RestOK

LEMMA LoopDetectedOK ==
  ASSUME IInv, NEW q \in Requests, LoopDetected(q)
  PROVE  IInv'
<1>1. /\ conf' = conf /\ tables' = tables /\ environment' = environment /\ told' = told
      /\ withdrawn' = withdrawn /\ tab' = tab
      /\ estimates' = estimates /\ latencies' = latencies /\ balancing' = balancing
      /\ Return(q, FALSE) /\ At(q, "select")
  BY DEF LoopDetected, environment, tables, optimizer
<1>2. stack[q] # <<>>
  BY <1>1 DEF At
<1>3. TablesOK /\ RestOK /\ StacksOK /\ ToldOK
  BY DEF IInv
<1>4. Kept(tab, failed, withdrawn, tab', failed, withdrawn)
  BY <1>1, KeptSame
<1>5. failed \subseteq Ends /\ answer \in [Requests -> LambdaResponses]
  BY <1>3, RestTypes
<1>6. /\ StacksOK' /\ failed \subseteq failed' /\ failed' \subseteq Ends
      /\ answer' \in [Requests -> LambdaResponses]
  BY <1>1, <1>2, <1>3, <1>4, <1>5, ReturnStep
<1>7. RestOK'
  BY <1>1, <1>3, <1>6, RestTypes, ProcessRest
<1>8. ToldOK'
  BY <1>1, <1>3, <1>6, ToldSame
<1>9. TablesOK'
  BY <1>1, <1>3, TablesSame
<1> QED
  BY <1>6, <1>7, <1>8, <1>9 DEF IInv

LEMMA ChosenStep ==
  ASSUME StacksOK, conf' = conf, Kept(tab, failed, withdrawn, tab', failed', withdrawn'),
         NEW q \in Requests, stack[q] # <<>>, hops(q) <= MaxHops, NEW d \in Ends,
         Chosen(q, d),
         IF conf[Top(q).node].node = "router"
         THEN Knows(tab'[Top(q).node][IF Top(q).forward THEN 2 ELSE 1], Top(q).l, d)
         ELSE conf[Top(q).node].estimator # "probe" => Knows(tab'[Top(q).node][1], Top(q).l, d)
  PROVE  StacksOK'
<1>1. StackOK(stack[q], conf, tab, failed, withdrawn)
  BY DEF StacksOK
<1>2. PICK s, x : s = stack[q] /\ x = s[Len(s)]
  OBVIOUS
<1>3. Len(s) \in DOMAIN s /\ Len(s) \in Nat /\ Top(q) = x /\ x \in LambdaRequests
  BY <1>1, <1>2, StackTop DEF Top
<1>4. PICK y : y = [x EXCEPT !.pc = "getClient", !.d = d]
  OBVIOUS
<1>5. /\ y \in LambdaRequests /\ y.pc = "getClient" /\ y.d = d
      /\ y.node = x.node /\ y.l = x.l /\ y.forward = x.forward
  BY <1>3, <1>4 DEF LambdaRequests, Pcs
<1>6. FrameOK(y, conf, tab', failed', withdrawn')
  BY <1>3, <1>5 DEF FrameOK, Found, Calling
<1>7. PICK s2 : s2 = [s EXCEPT ![Len(s)] = y]
  OBVIOUS
<1>8. stack' = [stack EXCEPT ![q] = s2]
  BY <1>2, <1>4, <1>7, <1>3 DEF Chosen, StacksOK
<1>9. Len(s) <= MaxHops + 1
  BY <1>2, <1>3, BoundsAssumption DEF hops
<1>10. s2 = [stack[q] EXCEPT ![Len(stack[q])] = y] /\ (y.pc \notin Early => Len(stack[q]) <= MaxHops + 1)
  BY <1>2, <1>9, <1>7
<1> QED
  BY <1>6, <1>8, <1>10, TopStep

LEMMA SelectRouterOK ==
  ASSUME IInv, NEW q \in Requests, SelectRouter(q)
  PROVE  IInv'
<1>1. PICK n, l, i : n = Top(q).node /\ l = Top(q).l /\ i = IF Top(q).forward THEN 2 ELSE 1
  OBVIOUS
<1>2. /\ conf' = conf /\ est' = est /\ environment' = environment /\ told' = told
      /\ withdrawn' = withdrawn
      /\ estimates' = estimates /\ latencies' = latencies /\ balancing' = balancing
      /\ At(q, "select") /\ hops(q) <= MaxHops /\ IsRouter(n)
      /\ \/ Return(q, FALSE) /\ tab' = tab
         \/ \E d \in TableSelectable(tab[n][i], l) :
              /\ tab' = [tab EXCEPT ![n][i][l] = AfterSelection(@, d)]
              /\ Chosen(q, d)
              /\ answer' = answer /\ failed' = failed
  BY <1>1 DEF SelectRouter, environment, optimizer
<1>3. stack[q] # <<>> /\ n \in Nodes /\ l \in Lambdas /\ i \in Tables
  BY <1>1, <1>2, AtFacts
<1>4. TablesOK /\ RestOK /\ StacksOK /\ ToldOK
  BY DEF IInv
<1>5. failed \subseteq Ends /\ answer \in [Requests -> LambdaResponses]
  BY <1>4, RestTypes
<1>6. /\ StacksOK' /\ failed \subseteq failed' /\ failed' \subseteq Ends
      /\ answer' \in [Requests -> LambdaResponses] /\ TablesOK'
  <2>1. CASE Return(q, FALSE) /\ tab' = tab
    <3>1. Kept(tab, failed, withdrawn, tab', failed, withdrawn)
      BY <2>1, KeptSame
    <3>2. /\ StacksOK' /\ failed \subseteq failed' /\ failed' \subseteq Ends
          /\ answer' \in [Requests -> LambdaResponses]
      BY <2>1, <1>2, <1>3, <1>4, <1>5, <3>1, ReturnStep
    <3>3. tables' = tables
      BY <2>1, <1>2 DEF tables
    <3> QED
      BY <3>2, <3>3, <1>2, <1>4, TablesSame
  <2>2. ASSUME NEW d \in TableSelectable(tab[n][i], l),
               tab' = [tab EXCEPT ![n][i][l] = AfterSelection(@, d)], Chosen(q, d),
               answer' = answer /\ failed' = failed
        PROVE  StacksOK' /\ TablesOK'
    <3>1. PICK t : t = [tab[n][i] EXCEPT ![l] = AfterSelection(tab[n][i][l], d)]
      OBVIOUS
    <3>2. TableOK(tab[n][i])
      BY <1>3, <1>4 DEF TablesOK
    <3>3. /\ Knows(tab[n][i], l, d) /\ TableOK(t)
          /\ \A x, y : Knows(t, x, y) <=> Knows(tab[n][i], x, y)
      BY <3>1, <3>2, TableSelectionOK
    <3>4. tab' = [tab EXCEPT ![n][i] = t]
      BY <3>1, <2>2
    <3>5. TablesOK'
      BY <3>3, <3>4, <1>2, <1>3, <1>4, SameStep
    <3>6. Kept(tab, failed, withdrawn, tab', failed', withdrawn')
      BY <3>3, <3>4, <1>2, <1>3, <1>4, <2>2, KeptStep
    <3>7. d \in Ends
      BY <3>2, <3>3, KnownEnds
    <3>8. tab'[n][i] = t
      BY <3>4, <1>3, <1>4 DEF TablesOK
    <3>9. conf[Top(q).node].node = "router" /\ Knows(tab'[Top(q).node][IF Top(q).forward THEN 2 ELSE 1], Top(q).l, d)
      BY <3>3, <3>8, <1>1, <1>2 DEF IsRouter
    <3>10. StacksOK'
      BY <3>6, <3>7, <3>9, <2>2, <1>2, <1>3, <1>4, ChosenStep
    <3> QED
      BY <3>5, <3>10
  <2> QED
    BY <1>2, <1>5, <2>1, <2>2
<1>7. RestOK'
  BY <1>2, <1>4, <1>6, RestTypes, ProcessRest
<1>8. ToldOK'
  BY <1>2, <1>4, <1>6, ToldSame
<1> QED
  BY <1>6, <1>7, <1>8 DEF IInv

LEMMA SelectDispatcherOK ==
  ASSUME IInv, NEW q \in Requests, SelectDispatcher(q)
  PROVE  IInv'
<1>1. PICK n, l : n = Top(q).node /\ l = Top(q).l
  OBVIOUS
<1>2. /\ conf' = conf /\ tables' = tables /\ environment' = environment /\ told' = told
      /\ withdrawn' = withdrawn /\ tab' = tab
      /\ latencies' = latencies /\ balancing' = balancing
      /\ At(q, "select") /\ hops(q) <= MaxHops /\ ~ IsRouter(n)
      /\ estimates' = estimates \/ estimates' = [estimates EXCEPT ![n] = @ \cup {q}]
      /\ \/ Return(q, FALSE)
         \/ /\ \E d \in Candidates(n, l) : Chosen(q, d)
            /\ answer' = answer /\ failed' = failed
  BY <1>1 DEF SelectDispatcher, environment, optimizer, tables
<1>3. stack[q] # <<>> /\ n \in Nodes /\ l \in Lambdas /\ conf[n] \in Kinds
  BY <1>1, <1>2, AtFacts
<1>4. TablesOK /\ RestOK /\ StacksOK /\ ToldOK
  BY DEF IInv
<1>5. /\ failed \subseteq Ends /\ answer \in [Requests -> LambdaResponses]
      /\ estimates' \in [Nodes -> SUBSET Requests]
  BY <1>2, <1>3, <1>4, RestTypes
<1>6. /\ StacksOK' /\ failed \subseteq failed' /\ failed' \subseteq Ends
      /\ answer' \in [Requests -> LambdaResponses]
  <2>1. CASE Return(q, FALSE)
    <3>1. Kept(tab, failed, withdrawn, tab', failed, withdrawn)
      BY <1>2, KeptSame
    <3> QED
      BY <2>1, <1>2, <1>3, <1>4, <1>5, <3>1, ReturnStep
  <2>2. ASSUME NEW d \in Candidates(n, l), Chosen(q, d), answer' = answer /\ failed' = failed
        PROVE  StacksOK'
    <3>1. EstimatorOK(conf[n], tab[n][1], est[n]) /\ TableOK(tab[n][1]) /\ conf[n] \in DispatcherKinds
      BY <1>2, <1>3, <1>4, KindFacts DEF TablesOK, IsRouter, Tables
    <3>2. /\ conf[n].estimator # "probe" => Candidates(n, l) = all(fullTable(tab[n][1]), l)
          /\ conf[n].estimator = "probe" => Candidates(n, l) \subseteq Ends
      <4>1. PICK e, c, t : e = est[n] /\ c = conf[n] /\ t = tab[n][1]
        OBVIOUS
      <4>2. c \in DispatcherKinds /\ EstimatorOK(c, t, e)
        BY <3>1, <4>1
      <4>3. /\ c.estimator # "probe" =>
                 /\ PtimeEstimator(c.estimator, e, l, {}).candidates = all(fullTable(t), l)
                 /\ PtimeEstimator(c.estimator, e, l, {d}).processSuccess <=> Knows(t, l, d)
            /\ c.estimator = "probe" =>
                 /\ PtimeEstimator(c.estimator, e, l, {}).candidates \subseteq Ends
                 /\ PtimeEstimator(c.estimator, e, l, {d}).processSuccess
        BY <4>2, EstimatorSelects
      <4> QED
        BY <4>1, <4>3 DEF Candidates
    <3>3. conf[n].estimator # "probe" => Knows(tab[n][1], l, d)
      BY <3>2, FullTable
    <3>4. d \in Ends
      BY <3>1, <3>2, <3>3, KnownEnds
    <3>5. Kept(tab, failed, withdrawn, tab', failed', withdrawn')
      BY <1>2, <2>2, KeptSame
    <3>6. /\ conf[Top(q).node].node # "router"
          /\ conf[Top(q).node].estimator # "probe" => Knows(tab'[Top(q).node][1], Top(q).l, d)
      BY <3>3, <1>1, <1>2 DEF IsRouter
    <3> QED
      BY <3>4, <3>5, <3>6, <2>2, <1>2, <1>3, <1>4, ChosenStep
  <2> QED
    BY <1>2, <1>5, <2>1, <2>2
<1>7. RestOK'
  BY <1>2, <1>4, <1>5, <1>6, RestTypes, ProcessRest
<1>8. ToldOK'
  BY <1>2, <1>4, <1>6, ToldSame
<1>9. TablesOK'
  BY <1>2, <1>4, TablesSame
<1> QED
  BY <1>6, <1>7, <1>8, <1>9 DEF IInv

\* A thread takes the call.
LEMMA AcceptOK ==
  ASSUME IInv, NEW q \in Requests, Accept(q)
  PROVE  IInv'
<1>1. PICK s, x, y : s = stack[q] /\ x = s[Len(s)] /\ y = [x EXCEPT !.pc = "select"]
  OBVIOUS
<1>2. /\ conf' = conf /\ environment' = environment /\ tables' = tables /\ tab' = tab
      /\ withdrawn' = withdrawn /\ answer' = answer /\ failed' = failed /\ told' = told
      /\ latencies' = latencies /\ balancing' = balancing /\ estimates' = estimates
      /\ At(q, "arrive") /\ Continue(q, "select")
  BY DEF Accept, environment, optimizer, tables
<1>3. stack[q] # <<>> /\ Top(q) \in LambdaRequests /\ Top(q) = x /\ Len(s) \in DOMAIN s
  BY <1>1, <1>2, AtFacts
<1>4. TablesOK /\ RestOK /\ StacksOK /\ ToldOK
  BY DEF IInv
<1>5. PICK s2 : s2 = [s EXCEPT ![Len(s)] = y]
  OBVIOUS
<1>6. stack' = [stack EXCEPT ![q] = s2] /\ s2 = [stack[q] EXCEPT ![Len(stack[q])] = y]
  BY <1>1, <1>2, <1>3, <1>4, <1>5 DEF Continue, StacksOK
<1>7. y.pc = "select" /\ y \in LambdaRequests
  BY <1>1, <1>3 DEF LambdaRequests, Pcs
<1>8. FrameOK(y, conf, tab', failed', withdrawn') /\ y.pc \in Early
  BY <1>7 DEF FrameOK, Calling, Early
<1>9. Kept(tab, failed, withdrawn, tab', failed', withdrawn')
  BY <1>2, KeptSame
<1>10. StacksOK'
  BY <1>2, <1>3, <1>4, <1>6, <1>8, <1>9, TopStep
<1>11. RestOK'
  BY <1>2, <1>4, RestTypes, ProcessRest
<1>12. TablesOK' /\ ToldOK'
  BY <1>2, <1>4, TablesSame, ToldSame
<1> QED
  BY <1>10, <1>11, <1>12 DEF IInv

LEMMA GetClientOK ==
  ASSUME IInv, NEW q \in Requests, GetClient(q)
  PROVE  IInv'
<1>1. /\ conf' = conf /\ environment' = environment /\ tables' = tables /\ tab' = tab
      /\ withdrawn' = withdrawn /\ answer' = answer /\ failed' = failed /\ told' = told
      /\ latencies' = latencies /\ balancing' = balancing /\ estimates' = estimates
      /\ At(q, "getClient") /\ Continue(q, "call")
  BY DEF GetClient, environment, optimizer, tables
<1>2. stack[q] # <<>> /\ Top(q).pc = "getClient"
  BY <1>1, AtFacts
<1>3. TablesOK /\ RestOK /\ StacksOK /\ ToldOK
  BY DEF IInv
<1>4. Kept(tab, failed, withdrawn, tab', failed', withdrawn')
  BY <1>1, KeptSame
<1>5. StacksOK'
  BY <1>1, <1>2, <1>3, <1>4, ContinueStep DEF Pcs, Early, Calling
<1>6. RestOK'
  BY <1>1, <1>3, RestTypes, ProcessRest
<1>7. TablesOK' /\ ToldOK'
  BY <1>1, <1>3, TablesSame, ToldSame
<1> QED
  BY <1>5, <1>6, <1>7 DEF IInv

LEMMA CallComputerOK ==
  ASSUME IInv, NEW q \in Requests, CallComputer(q)
  PROVE  IInv'
<1>1. /\ conf' = conf /\ tables' = tables /\ environment' = environment /\ told' = told
      /\ withdrawn' = withdrawn /\ tab' = tab /\ answer' = answer
      /\ estimates' = estimates /\ latencies' = latencies /\ balancing' = balancing
      /\ At(q, "call")
      /\ \/ Continue(q, "success") /\ failed' = failed
         \/ Continue(q, "failure") /\ failed' = failed \cup {Top(q).d}
  BY DEF CallComputer, environment, tables, optimizer
<1>2. stack[q] # <<>> /\ Top(q).pc = "call" /\ FrameOK(Top(q), conf, tab, failed, withdrawn)
  BY <1>1, AtFacts
<1>3. TablesOK /\ RestOK /\ StacksOK /\ ToldOK
  BY DEF IInv
<1>4. Top(q).d \in Ends
  BY <1>2 DEF FrameOK, Calling
<1>5. failed \subseteq failed' /\ failed' \subseteq Ends
  BY <1>1, <1>3, <1>4, RestTypes
<1>6. Kept(tab, failed, withdrawn, tab', failed', withdrawn')
  BY <1>1, <1>5, KeptSame
<1>7. StacksOK'
  <2>1. CASE Continue(q, "success")
    BY <2>1, <1>1, <1>2, <1>3, <1>6, ContinueStep DEF Pcs, Early, Calling
  <2>2. CASE Continue(q, "failure") /\ failed' = failed \cup {Top(q).d}
    <3>1. Caused(Top(q), failed', withdrawn')
      BY <2>2 DEF Caused
    <3> QED
      BY <2>2, <3>1, <1>1, <1>2, <1>3, <1>6, ContinueStep DEF Pcs, Early
  <2> QED
    BY <1>1, <2>1, <2>2
<1>8. RestOK'
  BY <1>1, <1>3, <1>5, RestTypes, ProcessRest
<1>9. ToldOK'
  BY <1>1, <1>3, <1>5, ToldSame
<1>10. TablesOK'
  BY <1>1, <1>3, TablesSame
<1> QED
  BY <1>7, <1>8, <1>9, <1>10 DEF IInv

LEMMA CallNodeOK ==
  ASSUME IInv, NEW q \in Requests, CallNode(q)
  PROVE  IInv'
<1>1. PICK x, s : x = Frame(Top(q).d, Top(q).l, TRUE) /\ s = Append(stack[q], x)
  OBVIOUS
<1>2. /\ conf' = conf /\ tables' = tables /\ environment' = environment /\ told' = told
      /\ withdrawn' = withdrawn /\ tab' = tab /\ answer' = answer /\ failed' = failed
      /\ estimates' = estimates /\ latencies' = latencies /\ balancing' = balancing
      /\ At(q, "call") /\ Top(q).d \in Nodes
  BY DEF CallNode, environment, tables, optimizer
<1>3. stack' = [stack EXCEPT ![q] = s]
  BY <1>1 DEF CallNode
<1>4. /\ stack[q] # <<>> /\ Top(q).pc = "call" /\ Top(q) = stack[q][Len(stack[q])]
      /\ Top(q).l \in Lambdas
  BY <1>2, AtFacts
<1>5. TablesOK /\ RestOK /\ StacksOK /\ ToldOK
  BY DEF IInv
<1>6. Kept(tab, failed, withdrawn, tab', failed', withdrawn')
  BY <1>2, KeptSame
<1>7. x.pc \in Early /\ FrameOK(x, conf, tab, failed, withdrawn)
  BY <1>1, <1>2, <1>4 DEF Frame, FrameOK, LambdaRequests, Pcs, Early, Calling
<1>8. StackOK(stack[q], conf, tab, failed, withdrawn)
  BY <1>5 DEF StacksOK
<1>9. StackOK(s, conf, tab, failed, withdrawn)
  BY <1>1, <1>4, <1>7, <1>8, StackPush
<1>10. StacksOK'
  BY <1>2, <1>3, <1>5, <1>6, <1>9, StacksStep
<1>11. RestOK'
  BY <1>2, <1>5, RestTypes, ProcessRest
<1>12. ToldOK'
  BY <1>2, <1>5, ToldSame
<1>13. TablesOK'
  BY <1>2, <1>5, TablesSame
<1> QED
  BY <1>10, <1>11, <1>12, <1>13 DEF IInv

LEMMA SucceedRouterOK ==
  ASSUME IInv, NEW q \in Requests, SucceedRouter(q)
  PROVE  IInv'
<1>1. PICK n, l, d, i : n = Top(q).node /\ l = Top(q).l /\ d = Top(q).d /\ i = IF Top(q).forward THEN 2 ELSE 1
  OBVIOUS
<1>2. /\ conf' = conf /\ est' = est /\ environment' = environment /\ told' = told
      /\ withdrawn' = withdrawn
      /\ estimates' = estimates /\ balancing' = balancing
      /\ At(q, "success") /\ IsRouter(n)
  BY <1>1 DEF SucceedRouter, environment
<1>3. \/ LocalOptimizerNone(q) \/ LocalOptimizerTrivial(q, n, i, l, d)
      \/ LocalOptimizerAsync(q, n, i, l, d)
  BY <1>1 DEF SucceedRouter
<1>4. /\ stack[q] # <<>> /\ n \in Nodes /\ l \in Lambdas /\ i \in Tables
      /\ Top(q).pc = "success" /\ FrameOK(Top(q), conf, tab, failed, withdrawn)
  BY <1>1, <1>2, AtFacts
<1>5. TablesOK /\ RestOK /\ StacksOK /\ ToldOK
  BY DEF IInv
<1>6. /\ failed \subseteq Ends /\ answer \in [Requests -> LambdaResponses] /\ d \in Ends
      /\ latencies \in [Nodes -> [Tables -> SUBSET (Lambdas \X Ends)]]
  BY <1>1, <1>4, <1>5, RestTypes DEF FrameOK, Calling
<1>7. ASSUME Return(q, TRUE), tab' = tab
      PROVE  /\ StacksOK' /\ failed \subseteq failed' /\ failed' \subseteq Ends
             /\ answer' \in [Requests -> LambdaResponses] /\ TablesOK'
  <2>1. Kept(tab, failed, withdrawn, tab', failed, withdrawn)
    BY <1>7, KeptSame
  <2>2. /\ StacksOK' /\ failed \subseteq failed' /\ failed' \subseteq Ends
        /\ answer' \in [Requests -> LambdaResponses]
    BY <1>7, <1>2, <1>4, <1>5, <1>6, <2>1, ReturnStep
  <2>3. tables' = tables
    BY <1>2, <1>7 DEF tables
  <2> QED
    BY <2>2, <2>3, <1>2, <1>5, TablesSame
<1>8. /\ StacksOK' /\ failed \subseteq failed' /\ failed' \subseteq Ends
      /\ answer' \in [Requests -> LambdaResponses] /\ TablesOK'
      /\ latencies' \in [Nodes -> [Tables -> SUBSET (Lambdas \X Ends)]]
  <2>1. CASE LocalOptimizerNone(q)
    BY <2>1, <1>6, <1>7 DEF LocalOptimizerNone
  <2>2. CASE LocalOptimizerTrivial(q, n, i, l, d)
    <3>1. latencies' = [latencies EXCEPT ![n][i] = @ \cup {<<l, d>>}]
      BY <2>2 DEF LocalOptimizerTrivial
    <3>2. latencies' \in [Nodes -> [Tables -> SUBSET (Lambdas \X Ends)]]
      BY <3>1, <1>4, <1>6
    <3> QED
      BY <2>2, <3>2, <1>7 DEF LocalOptimizerTrivial
  <2>3. CASE LocalOptimizerAsync(q, n, i, l, d) /\ Knows(tab[n][i], l, d)
    <3>1. PICK w \in Weights \ {0} : tab' = [tab EXCEPT ![n][i] = TableChangeWeight(@, l, d, w)]
      BY <2>3 DEF LocalOptimizerAsync
    <3>2. Return(q, TRUE) /\ latencies' = latencies
      BY <2>3 DEF LocalOptimizerAsync
    <3>3. PICK t : t = TableChangeWeight(tab[n][i], l, d, w)
      OBVIOUS
    <3>4. tab' = [tab EXCEPT ![n][i] = t]
      BY <3>1, <3>3
    <3>5. TableOK(tab[n][i])
      BY <1>4, <1>5 DEF TablesOK
    <3>6. TableOK(t) /\ \A x, y : Knows(t, x, y) <=> Knows(tab[n][i], x, y)
      BY <2>3, <3>3, <3>5, TableChangeWeightOK DEF Positive
    <3>7. TablesOK'
      BY <3>4, <3>6, <1>2, <1>4, <1>5, SameStep
    <3>8. Kept(tab, failed, withdrawn, tab', failed, withdrawn)
      BY <3>4, <3>6, <1>4, <1>5, KeptStep
    <3>9. /\ StacksOK' /\ failed \subseteq failed' /\ failed' \subseteq Ends
          /\ answer' \in [Requests -> LambdaResponses]
      BY <3>2, <3>8, <1>2, <1>4, <1>5, <1>6, ReturnStep
    <3> QED
      BY <3>2, <3>7, <3>9, <1>6
  <2>4. CASE LocalOptimizerAsync(q, n, i, l, d) /\ ~ Knows(tab[n][i], l, d)
    <3>1. Continue(q, "failure") /\ tab' = tab /\ answer' = answer /\ failed' = failed /\ latencies' = latencies
      BY <2>4 DEF LocalOptimizerAsync
    <3>2. ~ Found(Top(q), conf, tab)
      BY <2>4, <1>1, <1>2 DEF Found, IsRouter
    <3>3. Caused(Top(q), failed', withdrawn')
      BY <3>1, <3>2, <1>2, <1>4 DEF FrameOK, Calling
    <3>4. Kept(tab, failed, withdrawn, tab', failed', withdrawn')
      BY <3>1, <1>2, KeptSame
    <3>5. StacksOK'
      BY <3>1, <3>3, <3>4, <1>2, <1>4, <1>5, ContinueStep DEF Pcs, Early, Calling
    <3>6. tables' = tables
      BY <3>1, <1>2 DEF tables
    <3> QED
      BY <3>1, <3>5, <3>6, <1>2, <1>5, <1>6, TablesSame
  <2> QED
    BY <1>3, <2>1, <2>2, <2>3, <2>4
<1>9. RestOK'
  BY <1>2, <1>5, <1>8, RestTypes, ProcessRest
<1>10. ToldOK'
  BY <1>2, <1>5, <1>8, ToldSame
<1> QED
  BY <1>8, <1>9, <1>10 DEF IInv

LEMMA SucceedDispatcherOK ==
  ASSUME IInv, NEW q \in Requests, SucceedDispatcher(q)
  PROVE  IInv'
<1>1. PICK n, l, d : n = Top(q).node /\ l = Top(q).l /\ d = Top(q).d
  OBVIOUS
<1>2. /\ conf' = conf /\ tables' = tables /\ environment' = environment /\ told' = told
      /\ withdrawn' = withdrawn /\ tab' = tab
      /\ latencies' = latencies /\ balancing' = balancing
      /\ At(q, "success") /\ ~ IsRouter(n)
      /\ estimates' = [estimates EXCEPT ![n] = @ \ {q}]
  BY <1>1 DEF SucceedDispatcher, environment, optimizer, tables
<1>3. \/ /\ ~ PtimeEstimator(conf[n].estimator, est[n], l, {d}).processSuccess
         /\ Continue(q, "failure") /\ answer' = answer /\ failed' = failed
      \/ Return(q, TRUE)
  BY <1>1 DEF SucceedDispatcher
<1>4. /\ stack[q] # <<>> /\ n \in Nodes /\ l \in Lambdas /\ conf[n] \in Kinds
      /\ Top(q).pc = "success" /\ FrameOK(Top(q), conf, tab, failed, withdrawn)
  BY <1>1, <1>2, AtFacts
<1>5. TablesOK /\ RestOK /\ StacksOK /\ ToldOK
  BY DEF IInv
<1>6. /\ failed \subseteq Ends /\ answer \in [Requests -> LambdaResponses]
      /\ estimates' \in [Nodes -> SUBSET Requests]
  BY <1>2, <1>4, <1>5, RestTypes
<1>7. /\ StacksOK' /\ failed \subseteq failed' /\ failed' \subseteq Ends
      /\ answer' \in [Requests -> LambdaResponses]
  <2>1. CASE Return(q, TRUE)
    <3>1. Kept(tab, failed, withdrawn, tab', failed, withdrawn)
      BY <1>2, KeptSame
    <3> QED
      BY <2>1, <1>2, <1>4, <1>5, <1>6, <3>1, ReturnStep
  <2>2. CASE /\ ~ PtimeEstimator(conf[n].estimator, est[n], l, {d}).processSuccess
             /\ Continue(q, "failure") /\ answer' = answer /\ failed' = failed
    <3>1. PICK e, c, t : e = est[n] /\ c = conf[n] /\ t = tab[n][1]
      OBVIOUS
    <3>2. EstimatorOK(c, t, e) /\ c \in DispatcherKinds
      BY <3>1, <1>2, <1>4, <1>5, KindFacts DEF TablesOK, IsRouter
    <3>3. /\ c.estimator # "probe" =>
               (PtimeEstimator(c.estimator, e, l, {d}).processSuccess <=> Knows(t, l, d))
          /\ c.estimator = "probe" => PtimeEstimator(c.estimator, e, l, {d}).processSuccess
      BY <3>2, EstimatorSelects
    <3>4. conf[n].estimator # "probe" /\ ~ Knows(tab[n][1], l, d)
      BY <3>1, <3>3, <2>2
    <3>5. ~ Found(Top(q), conf, tab)
      BY <3>4, <1>1, <1>2 DEF Found, IsRouter
    <3>6. Caused(Top(q), failed', withdrawn')
      BY <2>2, <3>5, <1>2, <1>4 DEF FrameOK, Calling
    <3>7. Kept(tab, failed, withdrawn, tab', failed', withdrawn')
      BY <2>2, <1>2, KeptSame
    <3>8. StacksOK'
      BY <2>2, <3>6, <3>7, <1>2, <1>4, <1>5, ContinueStep DEF Pcs, Early, Calling
    <3> QED
      BY <3>8, <2>2, <1>6
  <2> QED
    BY <1>3, <2>1, <2>2
<1>8. RestOK'
  BY <1>2, <1>5, <1>6, <1>7, RestTypes, ProcessRest
<1>9. ToldOK'
  BY <1>2, <1>5, <1>7, ToldSame
<1>10. TablesOK'
  BY <1>2, <1>5, TablesSame
<1> QED
  BY <1>7, <1>8, <1>9, <1>10 DEF IInv

\* EstimatorRemove and EstimatorChange, whatever calls them.
LEMMA EstimatorRemoveStep ==
  ASSUME TablesOK, RestOK, conf' = conf, NEW n \in Nodes, ~ IsRouter(n), NEW l \in Lambdas,
         NEW d \in Ends, EstimatorRemove(n, l, d), NEW f, NEW w, failed \subseteq f,
         \A m \in Nodes : withdrawn[m] \subseteq w[m], d \in f \cup w[n]
  PROVE  TablesOK' /\ Kept(tab, failed, withdrawn, tab', f, w)
<1>1. /\ EstimatorOK(conf[n], tab[n][1], est[n]) /\ TableOK(tab[n][1]) /\ 1 \in Tables
      /\ DOMAIN est = Nodes /\ conf[n] \in DispatcherKinds
  BY KindFacts DEF TablesOK, RestOK, IsRouter, Tables
<1>2. CASE ~ Knows(tab[n][1], l, d)
  BY <1>2, TablesSame, KeptSame DEF EstimatorRemove, tables
<1>3. CASE Knows(tab[n][1], l, d)
  <2>1. PICK t, e : t = TableRemove(tab[n][1], l, d) /\ e = privateRemove(conf[n].estimator, est[n], l, {d})
    OBVIOUS
  <2>2. tab' = [tab EXCEPT ![n][1] = t] /\ est' = [est EXCEPT ![n] = e]
    BY <1>3, <2>1 DEF EstimatorRemove
  <2>3. TableOK(t) /\ \A x, y : Knows(t, x, y) <=> Knows(tab[n][1], x, y) /\ ~ (x = l /\ y = d)
    BY <1>1, <2>1, TableRemoveOK
  <2>4. \A x, y : Knows(t, x, y) <=> Knows(tab[n][1], x, y) /\ ~ (x = l /\ y \in {d})
    BY <2>3
  <2>5. EstimatorOK(conf[n], t, e)
    BY <1>1, <2>1, <2>4, EstimatorRemoveOK
  <2>6. DOMAIN est' = Nodes /\ est'[n] = e /\ \A m \in Nodes \ {n} : est'[m] = est[m]
    BY <1>1, <2>2
  <2>7. EstimatorOK(conf[n], IF 1 = 1 THEN t ELSE tab[n][1], est'[n])
    BY <2>5, <2>6
  <2>8. TablesOK'
    BY <1>1, <2>2, <2>3, <2>6, <2>7, TablesStep
  <2>9. \A x, y : Knows(tab[n][1], x, y) => Knows(t, x, y) \/ y \in f \cup w[n]
    BY <2>3
  <2>10. Kept(tab, failed, withdrawn, tab', f, w)
    BY <1>1, <2>2, <2>9, KeptStep
  <2> QED
    BY <2>8, <2>10
<1> QED
  BY <1>2, <1>3

LEMMA FailFirstOK ==
  ASSUME IInv, NEW q \in Requests, FailFirst(q)
  PROVE  IInv'
<1>1. PICK n, l, d : n = Top(q).node /\ l = Top(q).l /\ d = Top(q).d
  OBVIOUS
<1>2. /\ conf' = conf /\ environment' = environment /\ told' = told
      /\ withdrawn' = withdrawn /\ answer' = answer /\ failed' = failed
      /\ latencies' = latencies /\ balancing' = balancing
      /\ At(q, "failure")
  BY DEF FailFirst, environment, optimizer
<1>3. \/ /\ IsRouter(n) /\ tab' = [tab EXCEPT ![n][1] = TableRemove(@, l, d)]
         /\ Continue(q, "failure2") /\ est' = est /\ estimates' = estimates
      \/ /\ ~ IsRouter(n) /\ EstimatorRemove(n, l, d)
         /\ Continue(q, "tell") /\ estimates' = [estimates EXCEPT ![n] = @ \ {q}]
  BY <1>1 DEF FailFirst
<1>4. /\ stack[q] # <<>> /\ n \in Nodes /\ l \in Lambdas
      /\ Top(q).pc = "failure" /\ FrameOK(Top(q), conf, tab, failed, withdrawn)
  BY <1>1, <1>2, AtFacts
<1>5. TablesOK /\ RestOK /\ StacksOK /\ ToldOK
  BY DEF IInv
<1>6. Caused(Top(q), failed, withdrawn) /\ Caused(Top(q), failed', withdrawn') /\ d \in failed \cup withdrawn[n]
  BY <1>1, <1>2, <1>4 DEF FrameOK, Caused
<1>7. /\ failed \subseteq Ends /\ withdrawn \in [Nodes -> SUBSET Ends]
      /\ estimates' \in [Nodes -> SUBSET Requests]
  BY <1>3, <1>5, RestTypes
<1>8. d \in Ends
  BY <1>4, <1>6, <1>7
<1>9. TablesOK' /\ StacksOK'
  <2>1. CASE IsRouter(n) /\ tab' = [tab EXCEPT ![n][1] = TableRemove(@, l, d)]
             /\ Continue(q, "failure2") /\ est' = est
    <3>1. PICK t : t = TableRemove(tab[n][1], l, d)
      OBVIOUS
    <3>2. tab' = [tab EXCEPT ![n][1] = t] /\ 1 \in Tables
      BY <2>1, <3>1 DEF Tables
    <3>3. TableOK(tab[n][1])
      BY <3>2, <1>4, <1>5 DEF TablesOK
    <3>4. TableOK(t) /\ \A x, y : Knows(t, x, y) <=> Knows(tab[n][1], x, y) /\ ~ (x = l /\ y = d)
      BY <3>1, <3>3, TableRemoveOK
    <3>5. TablesOK'
      BY <2>1, <3>2, <3>4, <1>2, <1>4, <1>5, RouterStep
    <3>6. \A x, y : Knows(tab[n][1], x, y) => Knows(t, x, y) \/ y \in failed \cup withdrawn[n]
      BY <3>4, <1>6
    <3>7. Kept(tab, failed, withdrawn, tab', failed', withdrawn')
      BY <3>2, <3>6, <1>2, <1>4, <1>5, KeptStep
    <3>8. StacksOK'
      BY <2>1, <3>7, <1>2, <1>4, <1>5, <1>6, ContinueStep DEF Pcs, Early, Calling
    <3> QED
      BY <3>5, <3>8
  <2>2. CASE ~ IsRouter(n) /\ EstimatorRemove(n, l, d) /\ Continue(q, "tell")
    <3>1. TablesOK' /\ Kept(tab, failed, withdrawn, tab', failed, withdrawn)
      BY <2>2, <1>2, <1>4, <1>5, <1>6, <1>8, EstimatorRemoveStep
    <3>2. Kept(tab, failed, withdrawn, tab', failed', withdrawn')
      BY <3>1, <1>2
    <3>3. StacksOK'
      BY <2>2, <3>2, <1>2, <1>4, <1>5, <1>6, ContinueStep DEF Pcs, Early, Calling
    <3> QED
      BY <3>1, <3>3
  <2> QED
    BY <1>3, <2>1, <2>2
<1>10. RestOK'
  BY <1>2, <1>5, <1>7, RestTypes, ProcessRest
<1>11. ToldOK'
  BY <1>2, <1>5, ToldSame
<1> QED
  BY <1>9, <1>10, <1>11 DEF IInv

LEMMA FailSecondOK ==
  ASSUME IInv, NEW q \in Requests, FailSecond(q)
  PROVE  IInv'
<1>1. PICK n, l, d : n = Top(q).node /\ l = Top(q).l /\ d = Top(q).d
  OBVIOUS
<1>2. /\ conf' = conf /\ environment' = environment /\ told' = told
      /\ withdrawn' = withdrawn /\ answer' = answer /\ failed' = failed
      /\ latencies' = latencies /\ balancing' = balancing /\ estimates' = estimates
      /\ At(q, "failure2") /\ est' = est /\ Continue(q, "tell")
      /\ tab' = [tab EXCEPT ![n][2] = TableRemove(@, l, d)]
  BY <1>1 DEF FailSecond, environment, optimizer
<1>3. /\ stack[q] # <<>> /\ n \in Nodes
      /\ Top(q).pc = "failure2" /\ FrameOK(Top(q), conf, tab, failed, withdrawn)
  BY <1>1, <1>2, AtFacts
<1>4. TablesOK /\ RestOK /\ StacksOK /\ ToldOK
  BY DEF IInv
<1>5. Caused(Top(q), failed, withdrawn) /\ Caused(Top(q), failed', withdrawn') /\ d \in failed \cup withdrawn[n]
  BY <1>1, <1>2, <1>3 DEF FrameOK, Caused
<1>6. PICK t : t = TableRemove(tab[n][2], l, d)
  OBVIOUS
<1>7. tab' = [tab EXCEPT ![n][2] = t] /\ 2 \in Tables
  BY <1>2, <1>6 DEF Tables
<1>8. TableOK(tab[n][2])
  BY <1>3, <1>4, <1>7 DEF TablesOK
<1>9. TableOK(t) /\ \A x, y : Knows(t, x, y) <=> Knows(tab[n][2], x, y) /\ ~ (x = l /\ y = d)
  BY <1>6, <1>8, TableRemoveOK
<1>10. TablesOK'
  BY <1>2, <1>3, <1>4, <1>7, <1>9, RouterStep
<1>11. \A x, y : Knows(tab[n][2], x, y) => Knows(t, x, y) \/ y \in failed \cup withdrawn[n]
  BY <1>5, <1>9
<1>12. Kept(tab, failed, withdrawn, tab', failed', withdrawn')
  BY <1>2, <1>3, <1>4, <1>7, <1>11, KeptStep
<1>13. StacksOK'
  BY <1>2, <1>3, <1>4, <1>5, <1>12, ContinueStep DEF Pcs, Early, Calling
<1>14. RestOK'
  BY <1>2, <1>4, RestTypes, ProcessRest
<1>15. ToldOK'
  BY <1>2, <1>4, ToldSame
<1> QED
  BY <1>10, <1>13, <1>14, <1>15 DEF IInv

LEMMA TellControllerOK ==
  ASSUME IInv, NEW q \in Requests, TellController(q)
  PROVE  IInv'
<1>1. PICK s, x, y : s = stack[q] /\ x = s[Len(s)] /\ y = [x EXCEPT !.pc = "select", !.d = None]
  OBVIOUS
<1>2. /\ conf' = conf /\ environment' = environment /\ tables' = tables /\ tab' = tab
      /\ withdrawn' = withdrawn /\ answer' = answer /\ failed' = failed
      /\ latencies' = latencies /\ balancing' = balancing /\ estimates' = estimates
      /\ At(q, "tell") /\ told' = told \cup {<<Top(q).node, Top(q).d>>}
  BY DEF TellController, environment, optimizer, tables
<1>3. /\ stack[q] # <<>> /\ Top(q).node \in Nodes /\ Top(q) \in LambdaRequests /\ Top(q) = x
      /\ Top(q).pc = "tell" /\ FrameOK(Top(q), conf, tab, failed, withdrawn)
      /\ Len(s) \in DOMAIN s
  BY <1>1, <1>2, AtFacts
<1>4. TablesOK /\ RestOK /\ StacksOK /\ ToldOK
  BY DEF IInv
<1>5. Top(q).d \in failed \cup withdrawn[Top(q).node]
  BY <1>3 DEF FrameOK, Caused
<1>6. Top(q).d \in Ends
  BY <1>3, <1>4, <1>5, RestTypes
<1>7. ToldOK'
  BY <1>2, <1>3, <1>4, <1>5, <1>6 DEF ToldOK, PurgeHasCause
<1>8. PICK s2 : s2 = [s EXCEPT ![Len(s)] = y]
  OBVIOUS
<1>9. stack' = [stack EXCEPT ![q] = s2] /\ s2 = [stack[q] EXCEPT ![Len(stack[q])] = y]
  BY <1>1, <1>3, <1>4, <1>8 DEF TellController, StacksOK
<1>10. y.pc = "select" /\ y \in LambdaRequests
  BY <1>1, <1>3 DEF LambdaRequests, Pcs
<1>11. FrameOK(y, conf, tab', failed', withdrawn')
  BY <1>10 DEF FrameOK, Calling
<1>12. Kept(tab, failed, withdrawn, tab', failed', withdrawn')
  BY <1>2, KeptSame
<1>13. StacksOK'
  BY <1>2, <1>3, <1>4, <1>9, <1>10, <1>11, <1>12, TopStep DEF Early
<1>14. RestOK'
  BY <1>2, <1>4, RestTypes, ProcessRest
<1>15. TablesOK'
  BY <1>2, <1>4, TablesSame
<1> QED
  BY <1>7, <1>13, <1>14, <1>15 DEF IInv

LEMMA SendOK ==
  ASSUME IInv, NEW q \in Requests, NEW a \in Arrivals, Send(q, a[1], a[2])
  PROVE  IInv'
<1>1. PICK x, s : x = Frame(a[1], a[2], FALSE) /\ s = <<x>>
  OBVIOUS
<1>2. /\ conf' = conf /\ environment' = environment /\ tables' = tables /\ tab' = tab
      /\ withdrawn' = withdrawn /\ answer' = answer /\ failed' = failed /\ told' = told
      /\ latencies' = latencies /\ balancing' = balancing /\ estimates' = estimates
      /\ stack' = [stack EXCEPT ![q] = s]
  BY <1>1 DEF Send, environment, optimizer, tables
<1>3. TablesOK /\ RestOK /\ StacksOK /\ ToldOK
  BY DEF IInv
<1>4. a[1] \in Nodes /\ a[2] \in Lambdas
  BY InputsAssumption
<1>5. x \in LambdaRequests /\ x.pc = "arrive"
  BY <1>1, <1>4 DEF Frame, LambdaRequests, Pcs
<1>6. FrameOK(x, conf, tab', failed', withdrawn')
  BY <1>5 DEF FrameOK, Calling
<1>7. s \in Seq(LambdaRequests) /\ Len(s) = 1 /\ s[1] = x
  <2>1. <<x>> \in Seq(LambdaRequests)
    BY <1>5
  <2>2. Len(<<x>>) = 1 /\ <<x>>[1] = x
    OBVIOUS
  <2> QED
    BY <1>1, <2>1, <2>2
<1>8. StackOK(s, conf, tab', failed', withdrawn')
  BY <1>5, <1>6, <1>7, BoundsAssumption DEF StackOK, Early
<1>9. Kept(tab, failed, withdrawn, tab', failed', withdrawn')
  BY <1>2, KeptSame
<1>10. StacksOK'
  BY <1>2, <1>3, <1>8, <1>9, StacksStep
<1>11. RestOK'
  BY <1>2, <1>3, RestTypes, ProcessRest
<1>12. TablesOK' /\ ToldOK'
  BY <1>2, <1>3, TablesSame, ToldSame
<1> QED
  BY <1>10, <1>11, <1>12 DEF IInv

LEMMA CommandFacts ==
  ASSUME RestOK, NEW n \in Nodes, command[n] # None
  PROVE  /\ command[n] \in EdgeRouterConf /\ command[n].i \in Tables
         /\ ~ IsRouter(n) => command[n].i = 1
         /\ command[n].action = "CHANGE" =>
              command[n] \in [action : {"CHANGE"}, l : Lambdas, d : Ends, w : Weights,
                              final : BOOLEAN, i : Tables]
         /\ command[n].action = "REMOVE" =>
              command[n] \in [action : {"REMOVE"}, l : Lambdas, d : Ends, i : Tables]
         /\ command[n].action = "FLUSH" =>
              command[n] \in [action : {"FLUSH"}, i : Tables, todo : {None} \cup SUBSET Lambdas]
<1>1. command[n] \in EdgeRouterConf /\ (~ IsRouter(n) => command[n].i = 1)
  BY DEF RestOK
<1> QED
  BY <1>1 DEF EdgeRouterConf

LEMMA CommandRest ==
  ASSUME RestOK, conf' = conf, estimates' = estimates, optimizer' = optimizer, answer' = answer,
         failed' = failed, sent' \in 0..MaxCommands, withdrawn' \in [Nodes -> SUBSET Ends],
         NEW n \in Nodes, NEW c \in EdgeRouterConf \cup {None},
         command' = [command EXCEPT ![n] = c], c # None /\ ~ IsRouter(n) => c.i = 1
  PROVE  RestOK'
<1>1. command' \in [Nodes -> EdgeRouterConf \cup {None}] /\ command'[n] = c
      /\ \A m \in Nodes \ {n} : command'[m] = command[m]
  BY DEF RestOK
<1>2. ASSUME NEW m \in Nodes, command'[m] # None, ~ (conf[m].node = "router") PROVE command'[m].i = 1
  <2>1. CASE m = n
    BY <2>1, <1>1, <1>2 DEF IsRouter
  <2>2. CASE m # n
    BY <2>2, <1>1, <1>2 DEF RestOK, IsRouter
  <2> QED
    BY <2>1, <2>2
<1> QED
  BY <1>1, <1>2 DEF RestOK, IsRouter, optimizer

LEMMA AppliedStep ==
  ASSUME RestOK, NEW n \in Nodes, command[n] # None, command[n].action \in {"CHANGE", "REMOVE"},
         Applied(n, command[n].i)
  PROVE  \E c \in EdgeRouterConf \cup {None} :
           command' = [command EXCEPT ![n] = c] /\ (c # None /\ ~ IsRouter(n) => c.i = 1)
<1>1. CASE IsRouter(n) /\ command[n].i = 1
  <2>1. PICK c : c = [command[n] EXCEPT !.i = 2]
    OBVIOUS
  <2>2. c \in EdgeRouterConf
    BY <2>1, CommandFacts DEF EdgeRouterConf, Tables
  <2>3. command' = [command EXCEPT ![n] = c]
    BY <1>1, <2>1 DEF Applied
  <2> QED
    BY <1>1, <2>2, <2>3
<1>2. CASE ~ (IsRouter(n) /\ command[n].i = 1)
  BY <1>2 DEF Applied
<1> QED
  BY <1>1, <1>2

LEMMA ConfigureOK ==
  ASSUME IInv, NEW n \in Nodes, NEW c \in Commands[n], Configure(n, c)
  PROVE  IInv'
<1>1. /\ conf' = conf /\ estimates' = estimates /\ optimizer' = optimizer /\ answer' = answer
      /\ failed' = failed /\ withdrawn' = withdrawn /\ told' = told /\ stack' = stack
      /\ tables' = tables /\ tab' = tab
      /\ command' = [command EXCEPT ![n] = c] /\ sent' = sent + 1 /\ sent < MaxCommands
  BY DEF Configure, tables
<1>2. TablesOK /\ RestOK /\ StacksOK /\ ToldOK
  BY DEF IInv
<1>3. c \in EdgeRouterConf \cup {None} /\ c.i = 1
  BY InputsAssumption DEF NewCommands
<1>4. sent' \in 0..MaxCommands /\ withdrawn' \in [Nodes -> SUBSET Ends]
  BY <1>1, <1>2, BoundsAssumption DEF RestOK
<1>5. RestOK'
  BY <1>1, <1>2, <1>3, <1>4, CommandRest
<1>6. Kept(tab, failed, withdrawn, tab', failed', withdrawn')
  BY <1>1, KeptSame
<1>7. StacksOK'
  BY <1>1, <1>2, <1>6, StacksSame
<1>8. TablesOK' /\ ToldOK'
  BY <1>1, <1>2, TablesSame, ToldSame
<1> QED
  BY <1>5, <1>7, <1>8 DEF IInv

LEMMA EstimatorChangeStep ==
  ASSUME TablesOK, RestOK, conf' = conf, NEW n \in Nodes, ~ IsRouter(n), NEW l \in Lambdas,
         NEW d \in Ends, NEW final \in BOOLEAN, EstimatorChange(n, l, d, final)
  PROVE  TablesOK' /\ Kept(tab, failed, withdrawn, tab', failed, withdrawn)
<1>1. /\ EstimatorOK(conf[n], tab[n][1], est[n]) /\ TableOK(tab[n][1]) /\ 1 \in Tables
      /\ DOMAIN est = Nodes /\ conf[n] \in DispatcherKinds /\ "random" \in EntryTypes
  BY KindFacts DEF TablesOK, RestOK, IsRouter, Tables
<1>2. CASE Knows(tab[n][1], l, d)
  BY <1>2, TablesSame, KeptSame DEF EstimatorChange, tables
<1>3. CASE ~ Knows(tab[n][1], l, d)
  <2>1. PICK t, e : /\ t = TableChange(tab[n][1], "random", l, d, 1, final)
                    /\ e = privateAdd(conf[n].estimator, est[n], l, {d})
    OBVIOUS
  <2>2. tab' = [tab EXCEPT ![n][1] = t] /\ est' = [est EXCEPT ![n] = e]
    BY <1>3, <2>1 DEF EstimatorChange
  <2>3. /\ TableOK(t)
        /\ \A x, y : Knows(t, x, y) <=> Knows(tab[n][1], x, y) \/ (x = l /\ y = d /\ 1 # 0)
    BY <1>1, <2>1, BoundsAssumption, TableChangeOK
  <2>4. \A x, y : Knows(t, x, y) <=> Knows(tab[n][1], x, y) \/ (x = l /\ y = d)
    BY <2>3
  <2>5. EstimatorOK(conf[n], t, e)
    BY <1>1, <2>1, <2>4, EstimatorAddOK
  <2>6. DOMAIN est' = Nodes /\ est'[n] = e /\ \A m \in Nodes \ {n} : est'[m] = est[m]
    BY <1>1, <2>2
  <2>7. EstimatorOK(conf[n], IF 1 = 1 THEN t ELSE tab[n][1], est'[n])
    BY <2>5, <2>6
  <2>8. TablesOK'
    BY <1>1, <2>2, <2>3, <2>6, <2>7, TablesStep
  <2>9. \A x, y : Knows(tab[n][1], x, y) => Knows(t, x, y) \/ y \in failed \cup withdrawn[n]
    BY <2>4
  <2>10. Kept(tab, failed, withdrawn, tab', failed, withdrawn)
    BY <1>1, <2>2, <2>9, KeptStep
  <2> QED
    BY <2>8, <2>10
<1> QED
  BY <1>2, <1>3

LEMMA ApplyChangeOK ==
  ASSUME IInv, NEW n \in Nodes, ApplyChange(n)
  PROVE  IInv'
<1>1. PICK c : c = command[n]
  OBVIOUS
<1>2. /\ conf' = conf /\ estimates' = estimates /\ optimizer' = optimizer /\ answer' = answer
      /\ failed' = failed /\ withdrawn' = withdrawn /\ told' = told /\ stack' = stack
      /\ sent' = sent /\ c # None /\ c.action = "CHANGE"
  BY <1>1 DEF ApplyChange
<1>3. TablesOK /\ RestOK /\ StacksOK /\ ToldOK
  BY DEF IInv
<1>4. /\ c.l \in Lambdas /\ c.d \in Ends /\ c.w \in Weights /\ c.final \in BOOLEAN /\ c.i \in Tables
  BY <1>1, <1>2, <1>3, CommandFacts
<1>5. Applied(n, c.i) \/ command' = [command EXCEPT ![n] = None]
  BY <1>1 DEF ApplyChange
<1>6. RestOK'
  <2>1. sent' \in 0..MaxCommands /\ withdrawn' \in [Nodes -> SUBSET Ends]
    BY <1>2, <1>3 DEF RestOK
  <2>2. PICK x \in EdgeRouterConf \cup {None} :
          command' = [command EXCEPT ![n] = x] /\ (x # None /\ ~ IsRouter(n) => x.i = 1)
    <3>1. CASE Applied(n, c.i)
      BY <3>1, <1>1, <1>2, <1>3, AppliedStep
    <3>2. CASE command' = [command EXCEPT ![n] = None]
      BY <3>2
    <3> QED
      BY <1>5, <3>1, <3>2
  <2> QED
    BY <1>2, <1>3, <2>1, <2>2, CommandRest
<1>7. TablesOK' /\ Kept(tab, failed, withdrawn, tab', failed, withdrawn)
  <2>1. CASE ~ IsRouter(n)
    <3>1. EstimatorChange(n, c.l, c.d, c.final)
      BY <1>1, <2>1 DEF ApplyChange
    <3> QED
      BY <2>1, <3>1, <1>2, <1>3, <1>4, EstimatorChangeStep
  <2>2. CASE IsRouter(n) /\ c.i = 2 /\ ~ c.final
    <3>1. tab' = tab /\ tables' = tables
      BY <1>1, <2>2 DEF ApplyChange, tables
    <3> QED
      BY <3>1, <1>2, <1>3, TablesSame, KeptSame
  <2>3. CASE IsRouter(n) /\ ~ (c.i = 2 /\ ~ c.final)
    <3>1. PICK i, t : i = c.i /\ t = TableChange(tab[n][i], conf[n].table, c.l, c.d, c.w, c.final)
      OBVIOUS
    <3>2. tab' = [tab EXCEPT ![n][i] = t] /\ est' = est /\ i \in Tables
      BY <1>1, <1>4, <2>3, <3>1 DEF ApplyChange
    <3>3. TableOK(tab[n][i]) /\ conf[n].table \in EntryTypes
      BY <1>3, <2>3, <3>2, KindFacts DEF TablesOK, RestOK, IsRouter
    <3>4. /\ TableOK(t)
          /\ \A x, y : Knows(t, x, y) <=> Knows(tab[n][i], x, y) \/ (x = c.l /\ y = c.d /\ c.w # 0)
      BY <1>4, <3>1, <3>3, TableChangeOK
    <3>5. TablesOK'
      BY <1>2, <1>3, <2>3, <3>2, <3>4, RouterStep
    <3>6. \A x, y : Knows(tab[n][i], x, y) => Knows(t, x, y) \/ y \in failed \cup withdrawn[n]
      BY <3>4
    <3>7. Kept(tab, failed, withdrawn, tab', failed, withdrawn)
      BY <1>3, <3>2, <3>6, KeptStep
    <3> QED
      BY <3>5, <3>7
  <2> QED
    BY <2>1, <2>2, <2>3
<1>8. Kept(tab, failed, withdrawn, tab', failed', withdrawn')
  BY <1>2, <1>7
<1>9. StacksOK'
  BY <1>2, <1>3, <1>8, StacksSame
<1>10. ToldOK'
  BY <1>2, <1>3, ToldSame
<1> QED
  BY <1>6, <1>7, <1>9, <1>10 DEF IInv

LEMMA WithdrawStep ==
  ASSUME RestOK, NEW n \in Nodes, NEW ds \in SUBSET Ends, Withdraw(n, ds)
  PROVE  /\ withdrawn' \in [Nodes -> SUBSET Ends] /\ withdrawn'[n] = withdrawn[n] \cup ds
         /\ \A m \in Nodes : withdrawn[m] \subseteq withdrawn'[m]
  BY DEF RestOK, Withdraw

LEMMA ApplyRemoveOK ==
  ASSUME IInv, NEW n \in Nodes, ApplyRemove(n)
  PROVE  IInv'
<1>1. PICK c : c = command[n]
  OBVIOUS
<1>2. /\ conf' = conf /\ estimates' = estimates /\ optimizer' = optimizer /\ answer' = answer
      /\ failed' = failed /\ told' = told /\ stack' = stack
      /\ sent' = sent /\ c # None /\ c.action = "REMOVE"
      /\ Applied(n, c.i) /\ Withdraw(n, {c.d})
  BY <1>1 DEF ApplyRemove
<1>3. TablesOK /\ RestOK /\ StacksOK /\ ToldOK
  BY DEF IInv
<1>4. c.l \in Lambdas /\ c.d \in Ends /\ c.i \in Tables
  BY <1>1, <1>2, <1>3, CommandFacts
<1>5. /\ withdrawn' \in [Nodes -> SUBSET Ends] /\ withdrawn'[n] = withdrawn[n] \cup {c.d}
      /\ \A m \in Nodes : withdrawn[m] \subseteq withdrawn'[m]
  BY <1>2, <1>3, <1>4, WithdrawStep
<1>6. RestOK'
  <2>1. sent' \in 0..MaxCommands
    BY <1>2, <1>3 DEF RestOK
  <2>2. PICK x \in EdgeRouterConf \cup {None} :
          command' = [command EXCEPT ![n] = x] /\ (x # None /\ ~ IsRouter(n) => x.i = 1)
    BY <1>1, <1>2, <1>3, AppliedStep
  <2> QED
    BY <1>2, <1>3, <1>5, <2>1, <2>2, CommandRest
<1>7. TablesOK' /\ Kept(tab, failed, withdrawn, tab', failed, withdrawn')
  <2>1. CASE ~ IsRouter(n)
    <3>1. EstimatorRemove(n, c.l, c.d)
      BY <1>1, <2>1 DEF ApplyRemove
    <3> QED
      BY <2>1, <3>1, <1>2, <1>3, <1>4, <1>5, EstimatorRemoveStep
  <2>2. CASE IsRouter(n)
    <3>1. PICK i, t : i = c.i /\ t = TableRemove(tab[n][i], c.l, c.d)
      OBVIOUS
    <3>2. tab' = [tab EXCEPT ![n][i] = t] /\ est' = est /\ i \in Tables
      BY <1>1, <1>4, <2>2, <3>1 DEF ApplyRemove
    <3>3. TableOK(tab[n][i])
      BY <1>3, <3>2 DEF TablesOK
    <3>4. TableOK(t) /\ \A x, y : Knows(t, x, y) <=> Knows(tab[n][i], x, y) /\ ~ (x = c.l /\ y = c.d)
      BY <3>1, <3>3, TableRemoveOK
    <3>5. TablesOK'
      BY <1>2, <1>3, <2>2, <3>2, <3>4, RouterStep
    <3>6. \A x, y : Knows(tab[n][i], x, y) => Knows(t, x, y) \/ y \in failed \cup withdrawn'[n]
      BY <3>4, <1>5
    <3>7. Kept(tab, failed, withdrawn, tab', failed, withdrawn')
      BY <1>3, <1>5, <3>2, <3>6, KeptStep
    <3> QED
      BY <3>5, <3>7
  <2> QED
    BY <2>1, <2>2
<1>8. Kept(tab, failed, withdrawn, tab', failed', withdrawn')
  BY <1>2, <1>7
<1>9. StacksOK'
  BY <1>2, <1>3, <1>8, StacksSame
<1>10. ToldOK'
  BY <1>2, <1>3, <1>5, ToldSame
<1> QED
  BY <1>6, <1>7, <1>9, <1>10 DEF IInv

LEMMA FlushTables ==
  ASSUME TablesOK, RestOK, conf' = conf, NEW n \in Nodes, NEW i \in Tables, NEW l \in Lambdas,
         ~ IsRouter(n) => i = 1,
         IF IsRouter(n) THEN tab' = [tab EXCEPT ![n][i] = WithoutLambda(@, l)] /\ est' = est
         ELSE EstimatorRemoveLambda(n, l),
         NEW w, \A m \in Nodes : withdrawn[m] \subseteq w[m],
         all(fullTable(tab[n][i]), l) \subseteq w[n]
  PROVE  TablesOK' /\ Kept(tab, failed, withdrawn, tab', failed, w)
<1>1. PICK t : t = WithoutLambda(tab[n][i], l)
  OBVIOUS
<1>2. TableOK(tab[n][i]) /\ conf[n] \in Kinds
  BY DEF TablesOK, RestOK
<1>3. TableOK(t) /\ \A x, y : Knows(t, x, y) <=> Knows(tab[n][i], x, y) /\ x # l
  BY <1>1, <1>2, WithoutLambdaOK
<1>4. tab' = [tab EXCEPT ![n][i] = t]
  BY <1>1 DEF EstimatorRemoveLambda
<1>5. PICK ds : ds = all(fullTable(tab[n][i]), l)
  OBVIOUS
<1>6. \A y : y \in ds <=> Knows(tab[n][i], l, y)
  BY <1>5, FullTable
<1>7. ds \in SUBSET Ends
  BY <1>2, <1>6, KnownEnds
<1>8. \A x, y : Knows(tab[n][i], x, y) => Knows(t, x, y) \/ y \in failed \cup w[n]
  BY <1>3, <1>5, <1>6
<1>9. Kept(tab, failed, withdrawn, tab', failed, w)
  BY <1>4, <1>8, KeptStep
<1>10. CASE IsRouter(n)
  BY <1>3, <1>4, <1>9, <1>10, RouterStep
<1>11. CASE ~ IsRouter(n)
  <2>1. PICK e : e = privateRemove(conf[n].estimator, est[n], l, ds)
    OBVIOUS
  <2>2. est' = [est EXCEPT ![n] = e]
    BY <1>5, <1>11, <2>1 DEF EstimatorRemoveLambda
  <2>3. /\ EstimatorOK(conf[n], tab[n][1], est[n]) /\ DOMAIN est = Nodes
        /\ conf[n] \in DispatcherKinds /\ i = 1
    BY <1>2, <1>11, KindFacts DEF TablesOK, IsRouter
  <2>4. \A x, y : Knows(t, x, y) <=> Knows(tab[n][1], x, y) /\ ~ (x = l /\ y \in ds)
    BY <1>3, <1>6, <2>3
  <2>5. EstimatorOK(conf[n], t, e)
    BY <1>7, <2>1, <2>3, <2>4, EstimatorRemoveOK
  <2>6. DOMAIN est' = Nodes /\ est'[n] = e /\ \A m \in Nodes \ {n} : est'[m] = est[m]
    BY <2>2, <2>3
  <2>7. EstimatorOK(conf[n], IF i = 1 THEN t ELSE tab[n][1], est'[n])
    BY <2>3, <2>5, <2>6
  <2>8. TablesOK'
    BY <1>3, <1>4, <1>11, <2>6, <2>7, TablesStep
  <2> QED
    BY <1>9, <2>8
<1> QED
  BY <1>10, <1>11

LEMMA ApplyFlushOK ==
  ASSUME IInv, NEW n \in Nodes, ApplyFlush(n)
  PROVE  IInv'
<1>1. PICK c : c = command[n]
  OBVIOUS
<1>2. /\ conf' = conf /\ estimates' = estimates /\ optimizer' = optimizer /\ answer' = answer
      /\ failed' = failed /\ told' = told /\ stack' = stack
      /\ sent' = sent /\ c # None /\ c.action = "FLUSH"
  BY <1>1 DEF ApplyFlush
<1>3. TablesOK /\ RestOK /\ StacksOK /\ ToldOK
  BY DEF IInv
<1>4. /\ c \in [action : {"FLUSH"}, i : Tables, todo : {None} \cup SUBSET Lambdas]
      /\ c.i \in Tables /\ (~ IsRouter(n) => c.i = 1)
      /\ sent' \in 0..MaxCommands /\ withdrawn \in [Nodes -> SUBSET Ends]
  BY <1>1, <1>2, <1>3, CommandFacts, RestTypes DEF RestOK
<1>5. \A todo : [c EXCEPT !.todo = todo] \in EdgeRouterConf <=> todo \in {None} \cup SUBSET Lambdas
  BY <1>4 DEF EdgeRouterConf
<1>6. ASSUME NEW x \in EdgeRouterConf \cup {None}, command' = [command EXCEPT ![n] = x],
             x # None /\ ~ IsRouter(n) => x.i = 1, withdrawn' \in [Nodes -> SUBSET Ends]
      PROVE  RestOK'
  BY <1>2, <1>3, <1>4, <1>6, CommandRest
<1>7. ASSUME TablesOK', Kept(tab, failed, withdrawn, tab', failed, withdrawn'), RestOK'
      PROVE  IInv'
  <2>1. Kept(tab, failed, withdrawn, tab', failed', withdrawn')
    BY <1>2, <1>7
  <2>2. StacksOK'
    BY <1>2, <1>3, <2>1, StacksSame
  <2>3. ToldOK'
    BY <1>2, <1>3, <2>1, ToldSame DEF Kept
  <2> QED
    BY <1>7, <2>2, <2>3 DEF IInv
<1>8. CASE c.todo = None /\ command' = [command EXCEPT ![n].todo = DOMAIN tab[n][c.i]]
           /\ tables' = tables /\ withdrawn' = withdrawn
  <2>1. PICK x : x = [c EXCEPT !.todo = DOMAIN tab[n][c.i]]
    OBVIOUS
  <2>2. DOMAIN tab[n][c.i] \subseteq Lambdas
    BY <1>3, <1>4 DEF TablesOK, TableOK
  <2>3. x \in EdgeRouterConf /\ x.i = c.i /\ command' = [command EXCEPT ![n] = x]
    <3>1. x \in EdgeRouterConf
      BY <1>5, <2>1, <2>2
    <3>2. x.i = c.i
      BY <1>4, <2>1
    <3>3. command' = [command EXCEPT ![n] = x]
      BY <1>1, <1>8, <2>1
    <3> QED
      BY <3>1, <3>2, <3>3
  <2>4. RestOK'
    BY <1>4, <1>6, <1>8, <2>3
  <2>5. TablesOK' /\ Kept(tab, failed, withdrawn, tab', failed, withdrawn')
    BY <1>2, <1>3, <1>8, TablesSame, KeptSame DEF tables
  <2> QED
    BY <1>7, <2>4, <2>5
<1>9. CASE /\ command' = [command EXCEPT ![n] = IF IsRouter(n) /\ c.i = 1
                            THEN [@ EXCEPT !.i = 2, !.todo = None] ELSE None]
           /\ tables' = tables /\ withdrawn' = withdrawn
  <2>1. PICK x : x = IF IsRouter(n) /\ c.i = 1 THEN [c EXCEPT !.i = 2, !.todo = None] ELSE None
    OBVIOUS
  <2>2. command' = [command EXCEPT ![n] = x]
    BY <1>1, <1>9, <2>1
  <2>3. x \in EdgeRouterConf \cup {None} /\ (x # None /\ ~ IsRouter(n) => x.i = 1)
    <3>1. CASE IsRouter(n) /\ c.i = 1
      <4>1. x = [c EXCEPT !.i = 2, !.todo = None] /\ 2 \in Tables /\ None \in {None} \cup SUBSET Lambdas
        BY <2>1, <3>1 DEF Tables
      <4>2. x \in [action : {"FLUSH"}, i : Tables, todo : {None} \cup SUBSET Lambdas]
        BY <1>4, <4>1
      <4> QED
        BY <3>1, <4>2 DEF EdgeRouterConf
    <3>2. CASE ~ (IsRouter(n) /\ c.i = 1)
      BY <2>1, <3>2
    <3> QED
      BY <3>1, <3>2
  <2>4. RestOK'
    BY <1>4, <1>6, <1>9, <2>2, <2>3
  <2>5. TablesOK' /\ Kept(tab, failed, withdrawn, tab', failed, withdrawn')
    BY <1>2, <1>3, <1>9, TablesSame, KeptSame DEF tables
  <2> QED
    BY <1>7, <2>4, <2>5
<1>10. ASSUME c.todo \notin {None, {}}, NEW l \in c.todo,
              IF IsRouter(n) THEN tab' = [tab EXCEPT ![n][c.i] = WithoutLambda(@, l)] /\ est' = est
              ELSE EstimatorRemoveLambda(n, l),
              Withdraw(n, all(fullTable(tab[n][c.i]), l)),
              command' = [command EXCEPT ![n].todo = @ \ {l}]
       PROVE  IInv'
  <2>1. PICK ds, x, i : ds = all(fullTable(tab[n][c.i]), l) /\ x = [c EXCEPT !.todo = c.todo \ {l}] /\ i = c.i
    OBVIOUS
  <2>2. c.todo \in SUBSET Lambdas /\ l \in Lambdas /\ i \in Tables
    BY <1>4, <1>10, <2>1
  <2>3. x \in EdgeRouterConf /\ x.i = c.i /\ command' = [command EXCEPT ![n] = x]
    <3>1. x \in EdgeRouterConf
      BY <1>5, <2>1, <2>2
    <3>2. x.i = c.i
      BY <1>4, <2>1
    <3>3. command' = [command EXCEPT ![n] = x]
      BY <1>1, <1>10, <2>1
    <3> QED
      BY <3>1, <3>2, <3>3
  <2>4. TableOK(tab[n][i])
    BY <1>3, <2>2 DEF TablesOK
  <2>5. \A y : y \in ds <=> Knows(tab[n][i], l, y)
    BY <2>1, FullTable
  <2>6. ds \in SUBSET Ends
    BY <2>4, <2>5, KnownEnds
  <2>7. /\ withdrawn' \in [Nodes -> SUBSET Ends] /\ withdrawn'[n] = withdrawn[n] \cup ds
        /\ \A m \in Nodes : withdrawn[m] \subseteq withdrawn'[m]
    BY <1>3, <1>10, <2>1, <2>6, WithdrawStep
  <2>8. RestOK'
    BY <1>4, <1>6, <2>3, <2>7
  <2>9. IF IsRouter(n) THEN tab' = [tab EXCEPT ![n][i] = WithoutLambda(@, l)] /\ est' = est
        ELSE EstimatorRemoveLambda(n, l)
    BY <1>10, <2>1
  <2>10. all(fullTable(tab[n][i]), l) \subseteq withdrawn'[n] /\ (~ IsRouter(n) => i = 1)
    BY <1>4, <2>1, <2>7
  <2>11. TablesOK' /\ Kept(tab, failed, withdrawn, tab', failed, withdrawn')
    BY <1>2, <1>3, <2>2, <2>7, <2>9, <2>10, FlushTables
  <2> QED
    BY <1>7, <2>8, <2>11
<1> QED
  BY <1>1, <1>8, <1>9, <1>10 DEF ApplyFlush, tables

LEMMA UpdateOK ==
  ASSUME IInv, NEW n \in Nodes, NEW i \in Tables, Update(n, i)
  PROVE  IInv'
<1>1. /\ conf' = conf /\ environment' = environment /\ tables' = tables /\ tab' = tab
      /\ withdrawn' = withdrawn /\ answer' = answer /\ failed' = failed /\ told' = told
      /\ estimates' = estimates /\ stack' = stack
      /\ balancing' = [balancing EXCEPT ![n][i] = latencies[n][i]]
      /\ latencies' = [latencies EXCEPT ![n][i] = {}]
  BY DEF Update, environment, tables
<1>2. TablesOK /\ RestOK /\ StacksOK /\ ToldOK
  BY DEF IInv
<1>3. /\ latencies' \in [Nodes -> [Tables -> SUBSET (Lambdas \X Ends)]]
      /\ balancing' \in [Nodes -> [Tables -> SUBSET (Lambdas \X Ends)]]
  BY <1>1, <1>2, RestTypes
<1>4. RestOK'
  BY <1>1, <1>2, <1>3, RestTypes, ProcessRest
<1>5. Kept(tab, failed, withdrawn, tab', failed', withdrawn')
  BY <1>1, KeptSame
<1>6. StacksOK'
  BY <1>1, <1>2, <1>5, StacksSame
<1>7. TablesOK' /\ ToldOK'
  BY <1>1, <1>2, TablesSame, ToldSame
<1> QED
  BY <1>4, <1>6, <1>7 DEF IInv

LEMMA BalanceOK ==
  ASSUME IInv, NEW n \in Nodes, NEW i \in Tables, Balance(n, i)
  PROVE  IInv'
<1>1. /\ conf' = conf /\ environment' = environment /\ est' = est
      /\ withdrawn' = withdrawn /\ answer' = answer /\ failed' = failed /\ told' = told
      /\ estimates' = estimates /\ latencies' = latencies /\ stack' = stack
  BY DEF Balance, environment
<1>2. TablesOK /\ RestOK /\ StacksOK /\ ToldOK
  BY DEF IInv
<1>3. PICK m \in balancing[n][i] :
        IF Knows(tab[n][i], m[1], m[2])
        THEN /\ \E w \in Weights \ {0} :
                  tab' = [tab EXCEPT ![n][i] = TableChangeWeight(@, m[1], m[2], w)]
             /\ balancing' = [balancing EXCEPT ![n][i] = @ \ {m}]
        ELSE balancing' = [balancing EXCEPT ![n][i] = {}] /\ tab' = tab
  BY DEF Balance
<1>4. balancing' \in [Nodes -> [Tables -> SUBSET (Lambdas \X Ends)]]
  <2>1. PICK S, b : S = Lambdas \X Ends /\ balancing' = [balancing EXCEPT ![n][i] = b]
                    /\ b \subseteq balancing[n][i]
    <3>1. PICK b : balancing' = [balancing EXCEPT ![n][i] = b] /\ b \subseteq balancing[n][i]
      <4>1. CASE Knows(tab[n][i], m[1], m[2])
        <5>1. balancing' = [balancing EXCEPT ![n][i] = balancing[n][i] \ {m}]
          BY <1>3, <4>1
        <5>2. balancing[n][i] \ {m} \subseteq balancing[n][i]
          OBVIOUS
        <5> QED
          BY <5>1, <5>2
      <4>2. CASE ~ Knows(tab[n][i], m[1], m[2])
        BY <1>3, <4>2
      <4> QED
        BY <4>1, <4>2
    <3> QED
      BY <3>1
  <2>2. balancing \in [Nodes -> [Tables -> SUBSET S]]
    BY <1>2, <2>1, RestTypes
  <2>3. b \in SUBSET S
    BY <2>1, <2>2
  <2>4. balancing' \in [Nodes -> [Tables -> SUBSET S]]
    BY <2>1, <2>2, <2>3
  <2> QED
    BY <2>1, <2>4
<1>5. TablesOK' /\ Kept(tab, failed, withdrawn, tab', failed, withdrawn)
  <2>1. CASE ~ Knows(tab[n][i], m[1], m[2])
    <3>1. tab' = tab /\ tables' = tables
      BY <1>1, <1>3, <2>1 DEF tables
    <3> QED
      BY <3>1, <1>1, <1>2, TablesSame, KeptSame
  <2>2. CASE Knows(tab[n][i], m[1], m[2])
    <3>1. PICK w \in Weights \ {0} : tab' = [tab EXCEPT ![n][i] = TableChangeWeight(@, m[1], m[2], w)]
      BY <1>3, <2>2
    <3>2. PICK t : t = TableChangeWeight(tab[n][i], m[1], m[2], w)
      OBVIOUS
    <3>3. tab' = [tab EXCEPT ![n][i] = t]
      BY <3>1, <3>2
    <3>4. TableOK(tab[n][i])
      BY <1>2 DEF TablesOK
    <3>5. TableOK(t) /\ \A x, y : Knows(t, x, y) <=> Knows(tab[n][i], x, y)
      BY <2>2, <3>2, <3>4, TableChangeWeightOK DEF Positive
    <3>6. TablesOK'
      BY <3>3, <3>5, <1>1, <1>2, SameStep
    <3>7. Kept(tab, failed, withdrawn, tab', failed, withdrawn)
      BY <3>3, <3>5, <1>2, KeptStep
    <3> QED
      BY <3>6, <3>7
  <2> QED
    BY <2>1, <2>2
<1>6. RestOK'
  BY <1>1, <1>2, <1>4, RestTypes, ProcessRest
<1>7. Kept(tab, failed, withdrawn, tab', failed', withdrawn')
  BY <1>1, <1>5
<1>8. StacksOK'
  BY <1>1, <1>2, <1>7, StacksSame
<1>9. ToldOK'
  BY <1>1, <1>2, ToldSame
<1> QED
  BY <1>5, <1>6, <1>8, <1>9 DEF IInv

LEMMA StaleTimerOK ==
  ASSUME IInv, NEW n \in Nodes, NEW i \in Tables, StaleTimer(n, i)
  PROVE  IInv'
<1>1. /\ conf' = conf /\ environment' = environment /\ est' = est
      /\ withdrawn' = withdrawn /\ answer' = answer /\ failed' = failed /\ told' = told
      /\ estimates' = estimates /\ latencies' = latencies /\ balancing' = balancing
      /\ stack' = stack
  BY DEF StaleTimer, environment, optimizer
<1>2. TablesOK /\ RestOK /\ StacksOK /\ ToldOK
  BY DEF IInv
<1>3. PICK l \in DOMAIN tab[n][i] :
        /\ tab[n][i][l].type = "round-robin"
        /\ \E d \in DOMAIN tab[n][i][l].aux.cache :
             tab' = [tab EXCEPT ![n][i][l] = ExpireTimer(@, d)]
  BY DEF StaleTimer
<1>4. PICK d \in DOMAIN tab[n][i][l].aux.cache : tab' = [tab EXCEPT ![n][i][l] = ExpireTimer(@, d)]
  BY <1>3
<1>5. PICK t : t = [tab[n][i] EXCEPT ![l] = ExpireTimer(tab[n][i][l], d)]
  OBVIOUS
<1>6. tab' = [tab EXCEPT ![n][i] = t] /\ TableOK(tab[n][i])
  BY <1>2, <1>4, <1>5 DEF TablesOK
<1>7. TableOK(t) /\ \A x, y : Knows(t, x, y) <=> Knows(tab[n][i], x, y)
  BY <1>3, <1>5, <1>6, TableTimerOK
<1>8. TablesOK'
  BY <1>1, <1>2, <1>6, <1>7, SameStep
<1>9. Kept(tab, failed, withdrawn, tab', failed, withdrawn)
  BY <1>2, <1>6, <1>7, KeptStep
<1>10. RestOK'
  BY <1>1, <1>2, RestTypes, ProcessRest
<1>11. Kept(tab, failed, withdrawn, tab', failed', withdrawn')
  BY <1>1, <1>9
<1>12. StacksOK'
  BY <1>1, <1>2, <1>11, StacksSame
<1>13. ToldOK'
  BY <1>1, <1>2, ToldSame
<1> QED
  BY <1>8, <1>10, <1>12, <1>13 DEF IInv

-----------------------------------------------------------------------------
LEMMA NextOK == IInv /\ [Next]_vars => IInv'
<1> SUFFICES ASSUME IInv, [Next]_vars PROVE IInv'
  OBVIOUS
<1>1. ASSUME NEW q \in Requests, Process(q) PROVE IInv'
  BY <1>1, AcceptOK, LoopDetectedOK, SelectRouterOK, SelectDispatcherOK,
     GetClientOK, CallComputerOK, CallNodeOK,
     SucceedRouterOK, SucceedDispatcherOK, FailFirstOK, FailSecondOK, TellControllerOK
     DEF Process
<1>2. ASSUME NEW q \in Requests, NEW a \in Arrivals, Send(q, a[1], a[2]) PROVE IInv'
  BY <1>2, SendOK
<1>3. ASSUME NEW n \in Nodes, Serve(n) PROVE IInv'
  BY <1>3, ApplyChangeOK, ApplyRemoveOK, ApplyFlushOK DEF Serve
<1>4. ASSUME NEW n \in Nodes, NEW c \in Commands[n], Configure(n, c) PROVE IInv'
  BY <1>4, ConfigureOK
<1>5. ASSUME NEW n \in Nodes, NEW i \in Tables, Update(n, i) \/ Balance(n, i) \/ StaleTimer(n, i)
      PROVE  IInv'
  BY <1>5, UpdateOK, BalanceOK, StaleTimerOK
<1>6. CASE UNCHANGED vars
  <2>1. TablesOK'
    BY <1>6, TablesSame DEF vars, tables, IInv
  <2>2. RestOK'
    BY <1>6 DEF vars, RestOK, IsRouter, IInv
  <2>3. StacksOK' /\ ToldOK'
    BY <1>6 DEF vars, StacksOK, ToldOK, PurgeHasCause, IInv
  <2> QED
    BY <2>1, <2>2, <2>3 DEF IInv
<1> QED
  BY <1>1, <1>2, <1>3, <1>4, <1>5, <1>6 DEF Next

(***************************************************************************)
(* The inductive invariant: the entries and the estimators are coherent,   *)
(* the callers of a request wait, a call has its destination in its table  *)
(* unless there is a cause, and whatever the controller was told has one.  *)
(* It holds throughout, for all commands, failures and interleavings of    *)
(* process(), Configure and the optimizers.                                *)
(***************************************************************************)
THEOREM LambdaProcessorInvariant == Spec => []IInv
  BY InitOK, NextOK, PTL DEF Spec

\* Clients are only lost, one at a time.
LostOK == lost \in [Nodes -> [Ends -> Nat]]

LEMMA LostStep == LostOK /\ [Next]_vars => LostOK'
<1> SUFFICES ASSUME LostOK, [Next]_vars PROVE LostOK'
  OBVIOUS
<1>1. ASSUME NEW q \in Requests, Process(q) PROVE LostOK'
  <2>1. CASE CallComputer(q)
    <3>1. PICK n, d : lost' = lost \/ lost' = [lost EXCEPT ![n][d] = @ + 1]
      BY <2>1 DEF CallComputer
    <3> QED
      BY <3>1 DEF LostOK
  <2>2. CASE ~ CallComputer(q)
    <3>1. lost' = lost
      BY <1>1, <2>2 DEF Process, Accept, LoopDetected, SelectRouter, SelectDispatcher, GetClient,
         CallNode, SucceedRouter, SucceedDispatcher, FailFirst, FailSecond, TellController
    <3> QED
      BY <3>1 DEF LostOK
  <2> QED
    BY <2>1, <2>2
<1>2. ASSUME NEW q \in Requests, NEW a \in Arrivals, Send(q, a[1], a[2]) PROVE LostOK'
  BY <1>2 DEF Send, LostOK
<1>3. ASSUME NEW n \in Nodes, Serve(n) PROVE LostOK'
  BY <1>3 DEF Serve, ApplyChange, ApplyRemove, ApplyFlush, LostOK
<1>4. ASSUME NEW n \in Nodes, NEW c \in Commands[n], Configure(n, c) PROVE LostOK'
  BY <1>4 DEF Configure, LostOK
<1>5. ASSUME NEW n \in Nodes, NEW i \in Tables, Update(n, i) \/ Balance(n, i) \/ StaleTimer(n, i)
      PROVE  LostOK'
  BY <1>5 DEF Update, Balance, StaleTimer, LostOK
<1>6. CASE UNCHANGED vars
  BY <1>6 DEF vars, LostOK
<1> QED
  BY <1>1, <1>2, <1>3, <1>4, <1>5, <1>6 DEF Next

LEMMA LostHolds == Spec => []LostOK
<1>1. Init => LostOK
  BY DEF Init, LostOK
<1> QED
  BY <1>1, LostStep, PTL DEF Spec

LEMMA TypeOKHolds == IInv /\ LostOK => TypeOK
<1> SUFFICES ASSUME IInv, LostOK PROVE TypeOK
  OBVIOUS
<1>1. TablesOK /\ RestOK /\ StacksOK /\ ToldOK
  BY DEF IInv
<1>2. \A n \in Nodes, i \in Tables : IsTable(tab[n][i], Lambdas, Ends, Weights \ {0})
  <2> TAKE n \in Nodes, i \in Tables
  <2>1. TableOK(tab[n][i])
    BY <1>1 DEF TablesOK
  <2> QED
    BY <2>1 DEF TableOK, EntryOK, ListOK, IsTable, EntryElements, Positive
<1>3. \A n \in Nodes : IsEstimator(est[n], Lambdas, Ends)
  BY <1>1 DEF TablesOK, EstimatorOK
<1>4. \A q \in Requests : stack[q] \in Seq(LambdaRequests)
  BY <1>1 DEF StacksOK, StackOK
<1> QED
  BY <1>1, <1>2, <1>3, <1>4 DEF TypeOK, RestOK, ToldOK, LostOK

(***************************************************************************)
(* TypeOK: no sequence of commands, purges, measurements and requests      *)
(* leaves a table with a weight that is zero or unknown, a call to an end- *)
(* point that does not exist, or a command that is not one of rpc's.       *)
(***************************************************************************)
THEOREM LambdaProcessorTypeOK == Spec => []TypeOK
  BY LambdaProcessorInvariant, LostHolds, TypeOKHolds, PTL

LEMMA CoherentHolds == IInv => SelectionCoherent
<1> SUFFICES ASSUME IInv PROVE SelectionCoherent
  OBVIOUS
<1>1. TablesOK /\ RestOK
  BY DEF IInv
<1>2. \A n \in Nodes, i \in Tables : \A l \in DOMAIN tab[n][i] : EntryCoherent(tab[n][i][l])
  BY <1>1, CoherentEntry DEF TablesOK, TableOK
<1>3. ASSUME NEW n \in Nodes, ~ IsRouter(n), conf[n].estimator # "probe"
      PROVE  /\ \A l \in Lambdas : /\ Candidates(n, l) = all(fullTable(tab[n][1]), l)
                                   /\ Disappeared(est[n], l) = {}
             /\ ComputerDescriptors(est[n]) = {p[2] : p \in est[n].util.table}
  <2>1. PICK e, c, t : e = est[n] /\ c = conf[n] /\ t = tab[n][1]
    OBVIOUS
  <2>2. EstimatorOK(c, t, e) /\ c \in DispatcherKinds
    BY <1>1, <1>3, <2>1, KindFacts DEF TablesOK, RestOK, IsRouter
  <2>3. ASSUME NEW l \in Lambdas PROVE Candidates(n, l) = all(fullTable(tab[n][1]), l)
    <3>1. /\ c.estimator # "probe" =>
               /\ PtimeEstimator(c.estimator, e, l, {}).candidates = all(fullTable(t), l)
               /\ PtimeEstimator(c.estimator, e, l, {l}).processSuccess <=> Knows(t, l, l)
          /\ c.estimator = "probe" =>
               /\ PtimeEstimator(c.estimator, e, l, {}).candidates \subseteq Ends
               /\ PtimeEstimator(c.estimator, e, l, {l}).processSuccess
      BY <2>2, EstimatorSelects
    <3> QED
      BY <1>3, <2>1, <3>1 DEF Candidates
  <2>4. e.util.computers = e.util.table
    BY <2>2 DEF EstimatorOK
  <2>5. ComputerDescriptors(e) = {p[2] : p \in e.util.table}
    BY <2>4 DEF ComputerDescriptors
  <2>6. \A l : Disappeared(e, l) = {}
    BY <2>5 DEF Disappeared, all
  <2> QED
    BY <2>1, <2>3, <2>5, <2>6
<1> QED
  BY <1>2, <1>3 DEF SelectionCoherent

(***************************************************************************)
(* SelectionCoherent: what the derived classes of Entry and PtimeEstimator *)
(* keep besides the destinations follows every change of weight, purge and *)
(* command; the entries select among their destinations, the estimators    *)
(* among those of the table.                                               *)
(***************************************************************************)
THEOREM LambdaProcessorSelectionCoherent == Spec => []SelectionCoherent
  BY LambdaProcessorInvariant, CoherentHolds, PTL

(***************************************************************************)
(* PurgeHasCause: process() withdraws a destination from the controller    *)
(* only after a call to it failed or a command removed it from the node.   *)
(***************************************************************************)
THEOREM LambdaProcessorPurgeHasCause == Spec => []PurgeHasCause
<1>1. IInv => PurgeHasCause
  BY DEF IInv, ToldOK
<1> QED
  BY <1>1, LambdaProcessorInvariant, PTL

(***************************************************************************)
(* HopsBounded: no request visits more nodes than the limit on its hops    *)
(* allows, whatever circles the tables contain.                            *)
(***************************************************************************)
THEOREM LambdaProcessorHopsBounded == Spec => []HopsBounded
<1>1. IInv => HopsBounded
  BY DEF IInv, StacksOK, StackOK, HopsBounded
<1> QED
  BY <1>1, LambdaProcessorInvariant, PTL
=============================================================================
