----------------------- MODULE EdgeController_proofs -----------------------
(***************************************************************************)
(* The controllers, for any sets of computers and routers, deployment and  *)
(* topology.  CoreInv has the tables of the flat and of the hierarchical   *)
(* controller, which are redundant, and what a handler in progress may     *)
(* still have to do; TablesInv adds the rows installed in the routers;     *)
(* EtsiInv is about the lambdas of the ETSI controller and ProxyInv about  *)
(* the contexts of the LCM proxy.  The order of scores, the sums of loads  *)
(* and the loop of table() have lemmas of their own.                       *)
(***************************************************************************)
EXTENDS EdgeController, FiniteSetTheorems, SequenceTheorems, WellFoundedInduction, TLAPS

\* A set of natural numbers that is not empty has a least element.
LEMMA NatMin ==
  ASSUME NEW S \in SUBSET Nat, S # {}
  PROVE  \E x \in S : \A y \in S : x <= y
<1> DEFINE R == OpToRel(<, Nat)
<1>1. IsWellFoundedOn(R, Nat)
  BY NatLessThanWellFounded
<1>2. PICK x \in S : \A y \in S : ~ (<<y, x>> \in R)
  <2> HIDE DEF R
  <2> QED BY <1>1, WFMin
<1>3. R = {p \in Nat \X Nat : p[1] < p[2]}
  BY DEF OpToRel
<1> HIDE DEF R
<1>4. \A y \in S : ~ (y < x)
  BY <1>2, <1>3
<1> QED
  BY <1>4, x \in Nat

\* A finite set of natural numbers that is not empty has a greatest element.
LEMMA NatMax ==
  ASSUME NEW S \in SUBSET Nat, IsFiniteSet(S), S # {}
  PROVE  \E x \in S : \A y \in S : y <= x
<1> DEFINE Bad == {n \in Nat : \E T \in SUBSET S : /\ T # {} /\ Cardinality(T) = n
                                                   /\ ~ \E x \in T : \A y \in T : y <= x}
<1>1. SUFFICES Bad = {}
  BY FS_CardinalityType DEF Bad
<1>2. SUFFICES ASSUME Bad # {} PROVE FALSE
  OBVIOUS
<1>3. PICK n \in Bad : \A m \in Bad : n <= m
  <2>1. Bad \in SUBSET Nat OBVIOUS
  <2> HIDE DEF Bad
  <2> QED BY <1>2, <2>1, NatMin
<1>4. PICK T \in SUBSET S : /\ T # {} /\ Cardinality(T) = n
                            /\ ~ \E x \in T : \A y \in T : y <= x
  BY <1>3 DEF Bad
<1>5. PICK a \in T : TRUE
  BY <1>4
<1>6. a \in Nat
  OBVIOUS
<1>7. T \ {a} # {}
  BY <1>4, <1>6
<1>8. IsFiniteSet(T) /\ IsFiniteSet(T \ {a})
  BY FS_Subset
<1>9. Cardinality(T \ {a}) = n - 1 /\ n \in Nat /\ Cardinality(T \ {a}) \in Nat
  BY <1>4, <1>8, FS_RemoveElement, FS_CardinalityType
<1>10. Cardinality(T \ {a}) \notin Bad
  <2> HIDE DEF Bad
  <2> QED BY <1>3, <1>9
<1>11. PICK x \in T \ {a} : \A y \in T \ {a} : y <= x
  BY <1>7, <1>9, <1>10
<1>12. CASE x <= a
  <2>1. \A y \in T : y \in Nat BY <1>4
  <2>2. \A y \in T : y <= a BY <1>11, <1>12, <1>6, <2>1
  <2> QED BY <2>2, <1>4
<1>13. CASE a <= x
  <2>1. \A y \in T : y <= x BY <1>11, <1>13
  <2> QED BY <2>1, <1>4
<1> QED
  BY <1>12, <1>13, <1>6
-----------------------------------------------------------------------------
(***************************************************************************)
(* Sets of numbers in ascending order.                                     *)
(***************************************************************************)
\* A finite set in which every part has a greatest element can be enumerated in
\* ascending order.
LEMMA OrderExists ==
  ASSUME NEW S, IsFiniteSet(S), NEW R,
         \A T \in SUBSET S : T # {} => \E m \in T : \A y \in T \ {m} : <<y, m>> \in R
  PROVE  \E s \in [1..Cardinality(S) -> S] : \A i, j \in DOMAIN s : i < j => <<s[i], s[j]>> \in R
<1> DEFINE Up(s) == \A i, j \in DOMAIN s : i < j => <<s[i], s[j]>> \in R
           Ordered(T) == \E s \in [1..Cardinality(T) -> T] : Up(s)
           Bad == {n \in Nat : \E T \in SUBSET S : Cardinality(T) = n /\ ~ Ordered(T)}
<1>1. SUFFICES ASSUME Bad # {} PROVE FALSE
  <2>1. Cardinality(S) \in Nat BY FS_CardinalityType
  <2> HIDE DEF Ordered
  <2>2. Ordered(S) BY <2>1
  <2> QED BY <2>2 DEF Ordered
<1>2. PICK n \in Bad : \A m \in Bad : n <= m
  <2>1. Bad \in SUBSET Nat OBVIOUS
  <2> HIDE DEF Bad
  <2> QED BY <1>1, <2>1, NatMin
<1>3. PICK T \in SUBSET S : Cardinality(T) = n /\ ~ Ordered(T)
  BY <1>2 DEF Bad
<1>4. IsFiniteSet(T) /\ n \in Nat
  BY FS_Subset, <1>2
<1>5. T # {}
  <2>1. SUFFICES ASSUME T = {} PROVE FALSE
    OBVIOUS
  <2>2. n = 0
    BY <1>3, <2>1, FS_EmptySet
  <2>3. PICK s : s = [i \in 1..0 |-> 0]
    OBVIOUS
  <2>4. s \in [1..0 -> T] /\ Up(s)
    BY <2>3
  <2> QED
    BY <2>2, <2>4, <1>3
<1>6. PICK a \in T : \A y \in T \ {a} : <<y, a>> \in R
  BY <1>5
<1>7. PICK U : U = T \ {a}
  OBVIOUS
<1>8. Cardinality(U) = n - 1 /\ Cardinality(U) \in Nat /\ U \in SUBSET S
  BY <1>3, <1>4, <1>7, FS_RemoveElement, FS_CardinalityType
<1>9. n - 1 \notin Bad
  <2> HIDE DEF Bad
  <2> QED BY <1>2, <1>4, <1>8
<1>10. Ordered(U)
  <2> HIDE DEF Ordered
  <2> QED BY <1>8, <1>9
<1>11. PICK s \in [1..(n - 1) -> U] : Up(s)
  BY <1>8, <1>10
<1>12. PICK t : t = [i \in 1..n |-> IF i = n THEN a ELSE s[i]]
  OBVIOUS
<1>13. \A i \in 1..n : i # n => i \in 1..(n - 1)
  BY <1>4
<1>14. \A i \in 1..n : i # n => t[i] = s[i] /\ t[i] \in U /\ <<t[i], a>> \in R
  BY <1>6, <1>7, <1>11, <1>12, <1>13
<1>15. t \in [1..n -> T]
  BY <1>12, <1>14, <1>7
<1>16. Up(t)
  <2> SUFFICES ASSUME NEW i \in 1..n, NEW j \in 1..n, i < j PROVE <<t[i], t[j]>> \in R
    BY <1>15
  <2>1. i # n
    BY <1>4
  <2>2. CASE j = n
    BY <2>1, <2>2, <1>14, <1>12
  <2>3. CASE j # n
    <3>1. i \in DOMAIN s /\ j \in DOMAIN s
      BY <2>1, <2>3, <1>11, <1>13
    <3>2. <<s[i], s[j]>> \in R
      BY <3>1, <1>11
    <3> QED
      BY <3>2, <2>1, <2>3, <1>14
  <2> QED
    BY <2>2, <2>3
<1> QED
  BY <1>3, <1>15, <1>16

\* An enumeration without repetition lists all elements.
LEMMA EnumerationFacts ==
  ASSUME NEW S, IsFiniteSet(S), NEW s \in [1..Cardinality(S) -> S],
         \A i, j \in DOMAIN s : i < j => s[i] # s[j]
  PROVE  /\ s \in Seq(S) /\ Len(s) = Cardinality(S) /\ Len(s) \in Nat /\ DOMAIN s = 1..Len(s)
         /\ \A i, j \in DOMAIN s : s[i] = s[j] => i = j
         /\ \A x \in S : \E i \in DOMAIN s : s[i] = x
<1>1. PICK n : n = Cardinality(S)
  OBVIOUS
<1>2. n \in Nat /\ DOMAIN s = 1..n
  BY <1>1, FS_CardinalityType
<1>3. \A i, j \in 1..n : s[i] = s[j] => i = j
  <2> TAKE i, j \in 1..n
  <2>1. i < j \/ i = j \/ j < i
    BY <1>2
  <2> QED
    BY <2>1, <1>2
<1>4. s \in Injection(1..n, S)
  BY <1>1, <1>3 DEF Injection, IsInjective
<1>5. Cardinality(1..n) = n
  BY <1>2, FS_Interval
<1>6. s \in Surjection(1..n, S)
  BY <1>1, <1>4, <1>5, FS_Injection
<1>7. \A x \in S : \E i \in 1..n : s[i] = x
  BY <1>6 DEF Surjection
<1>8. s \in Seq(S) /\ Len(s) = n
  BY <1>1, <1>2
<1> QED
  BY <1>1, <1>2, <1>3, <1>7, <1>8

Ascending(s) == \A i, j \in DOMAIN s : i < j => s[i] < s[j]

LEMMA AscendingExists ==
  ASSUME NEW S \in SUBSET Nat, IsFiniteSet(S)
  PROVE  \E s \in [1..Cardinality(S) -> S] : Ascending(s)
<1>1. PICK R : R = {p \in S \X S : p[1] < p[2]}
  OBVIOUS
<1>2. ASSUME NEW T \in SUBSET S, T # {} PROVE \E m \in T : \A y \in T \ {m} : <<y, m>> \in R
  <2>1. IsFiniteSet(T) /\ T \in SUBSET Nat
    BY FS_Subset
  <2>2. PICK m \in T : \A y \in T : y <= m
    BY <1>2, <2>1, NatMax
  <2>3. \A y \in T \ {m} : y < m /\ <<y, m>> \in S \X S
    BY <2>1, <2>2
  <2> QED
    BY <2>3, <1>1
<1>3. PICK s \in [1..Cardinality(S) -> S] : \A i, j \in DOMAIN s : i < j => <<s[i], s[j]>> \in R
  BY <1>2, OrderExists
<1> QED
  BY <1>1, <1>3 DEF Ascending

\* Sorted lists each element of a set once.
LEMMA SortedFacts ==
  ASSUME NEW S \in SUBSET Nat, IsFiniteSet(S)
  PROVE  /\ Sorted(S) \in Seq(S) /\ DOMAIN Sorted(S) = 1..Len(Sorted(S))
         /\ Len(Sorted(S)) = Cardinality(S) /\ Len(Sorted(S)) \in Nat
         /\ \A i \in DOMAIN Sorted(S) : Sorted(S)[i] \in S
         /\ \A i, j \in DOMAIN Sorted(S) : Sorted(S)[i] = Sorted(S)[j] => i = j
         /\ \A x \in S : \E i \in DOMAIN Sorted(S) : Sorted(S)[i] = x
         /\ \A i, j \in DOMAIN Sorted(S) : i < j => Sorted(S)[i] < Sorted(S)[j]
<1>1. PICK s : s = Sorted(S)
  OBVIOUS
<1>2. \E f \in [1..Cardinality(S) -> S] : \A i, j \in DOMAIN f : i < j => f[i] < f[j]
  BY AscendingExists DEF Ascending
<1>3. s \in [1..Cardinality(S) -> S] /\ \A i, j \in DOMAIN s : i < j => s[i] < s[j]
  BY <1>1, <1>2 DEF Sorted, SortedBy
<1>4. \A i, j \in DOMAIN s : i < j => s[i] # s[j]
  <2>1. \A i \in DOMAIN s : s[i] \in Nat
    BY <1>3
  <2> QED
    BY <2>1, <1>3
<1>5. /\ s \in Seq(S) /\ Len(s) = Cardinality(S) /\ Len(s) \in Nat /\ DOMAIN s = 1..Len(s)
      /\ \A i, j \in DOMAIN s : s[i] = s[j] => i = j
      /\ \A x \in S : \E i \in DOMAIN s : s[i] = x
  BY <1>3, <1>4, EnumerationFacts
<1>6. \A i \in DOMAIN s : s[i] \in S
  BY <1>3
<1> QED
  BY <1>1, <1>3, <1>5, <1>6

-----------------------------------------------------------------------------
(***************************************************************************)
(* Sequences.                                                              *)
(***************************************************************************)
\* The recursive function in FlattenSeq.
Flattens(f, seqs, m) ==
  f = [i \in 1..m |-> IF i = 1 THEN seqs[i] ELSE f[i - 1] \o seqs[i]]

LEMMA FlattenExists ==
  ASSUME NEW seqs, NEW n \in Nat
  PROVE  \E f : Flattens(f, seqs, n)
<1> DEFINE Bad == {m \in 0..n : ~ \E f : Flattens(f, seqs, m)}
<1>1. SUFFICES ASSUME Bad # {} PROVE FALSE
  <2>1. n \in 0..n OBVIOUS
  <2> QED BY <2>1
<1>2. PICK m \in Bad : \A k \in Bad : m <= k
  <2>1. Bad \in SUBSET Nat OBVIOUS
  <2> HIDE DEF Bad
  <2> QED BY <1>1, <2>1, NatMin
<1>3. m \in 0..n /\ m \in Nat /\ ~ \E f : Flattens(f, seqs, m)
  OBVIOUS
<1>4. CASE m = 0
  <2>1. PICK f : f = [i \in 1..0 |-> 0]
    OBVIOUS
  <2>2. Flattens(f, seqs, 0)
    BY <2>1 DEF Flattens
  <2> QED
    BY <1>3, <1>4, <2>2
<1>5. CASE m # 0
  <2>1. m - 1 \in 0..n /\ ~ (m <= m - 1)
    BY <1>3, <1>5
  <2>2. m - 1 \notin Bad
    <3> HIDE DEF Bad
    <3> QED BY <2>1, <1>2
  <2>3. PICK f : Flattens(f, seqs, m - 1)
    BY <2>1, <2>2
  <2>4. PICK t : t = [i \in 1..m |-> IF i = m THEN IF m = 1 THEN seqs[m] ELSE f[m - 1] \o seqs[m]
                                     ELSE f[i]]
    OBVIOUS
  <2>5. \A i \in 1..m : t[i] = IF i = 1 THEN seqs[i] ELSE t[i - 1] \o seqs[i]
    <3> TAKE i \in 1..m
    <3>1. CASE i = m
      <4>1. i # 1 => i - 1 \in 1..m /\ i - 1 # m
        BY <3>1, <1>3
      <4> QED
        BY <3>1, <4>1, <2>4
    <3>2. CASE i # m
      <4>1. i \in 1..(m - 1) /\ (i # 1 => i - 1 \in 1..m /\ i - 1 # m)
        BY <3>2, <1>3
      <4>2. f[i] = IF i = 1 THEN seqs[i] ELSE f[i - 1] \o seqs[i]
        BY <4>1, <2>3 DEF Flattens
      <4> QED
        BY <3>2, <4>1, <4>2, <2>4
    <3> QED
      BY <3>1, <3>2
  <2>6. Flattens(t, seqs, m)
    <3>1. t = [i \in 1..m |-> t[i]] BY <2>4
    <3> QED BY <3>1, <2>5 DEF Flattens
  <2> QED
    BY <2>6, <1>3
<1> QED
  BY <1>4, <1>5

\* A concatenation is empty if all sequences are, and starts as one of them.
Flat(t, seqs, S) ==
  /\ t \in Seq(S)
  /\ t = <<>> => \A j \in DOMAIN seqs : seqs[j] = <<>>
  /\ t # <<>> => \E j \in DOMAIN seqs : seqs[j] # <<>> /\ t[1] = seqs[j][1]

FlatUpTo(t, i, seqs, S) ==
  /\ t[i] \in Seq(S)
  /\ t[i] = <<>> => \A j \in 1..i : seqs[j] = <<>>
  /\ t[i] # <<>> => \E j \in 1..i : seqs[j] # <<>> /\ t[i][1] = seqs[j][1]

LEMMA FlattenFacts ==
  ASSUME NEW S, NEW seqs \in Seq(Seq(S))
  PROVE  Flat(FlattenSeq(seqs), seqs, S)
<1>1. PICK n : n = Len(seqs)
  OBVIOUS
<1>2. n \in Nat /\ DOMAIN seqs = 1..n /\ \A i \in 1..n : seqs[i] \in Seq(S)
  BY <1>1
<1>3. CASE n = 0
  <2>1. seqs = <<>>
    BY <1>1, <1>3, EmptySeq
  <2>2. FlattenSeq(seqs) = seqs
    BY <1>1, <1>3 DEF FlattenSeq
  <2>3. PICK t : t = FlattenSeq(seqs)
    OBVIOUS
  <2>4. t \in Seq(S) /\ t = <<>> /\ \A j \in DOMAIN seqs : FALSE
    BY <2>1, <2>2, <2>3, <1>2, <1>3, EmptySeq
  <2> QED
    BY <2>3, <2>4 DEF Flat
<1>4. CASE n # 0
  <2>1. PICK t : t = CHOOSE flatten : flatten = [i \in 1..Len(seqs) |->
                       IF i = 1 THEN seqs[i] ELSE flatten[i - 1] \o seqs[i]]
    OBVIOUS
  <2>2. Flattens(t, seqs, n)
    BY <2>1, <1>1, <1>2, FlattenExists DEF Flattens
  <2>3. FlattenSeq(seqs) = t[n]
    BY <2>1, <1>1, <1>4 DEF FlattenSeq
  <2>4. \A i \in 1..n : t[i] = IF i = 1 THEN seqs[i] ELSE t[i - 1] \o seqs[i]
    BY <2>2 DEF Flattens
  <2> DEFINE Bad == {i \in 1..n : ~ FlatUpTo(t, i, seqs, S)}
  <2>5. Bad = {}
    <3>1. SUFFICES ASSUME Bad # {} PROVE FALSE
      OBVIOUS
    <3>2. PICK m \in Bad : \A k \in Bad : m <= k
      <4>1. Bad \in SUBSET Nat BY <1>2
      <4> HIDE DEF Bad
      <4> QED BY <3>1, <4>1, NatMin
    <3>3. m \in 1..n /\ ~ FlatUpTo(t, m, seqs, S)
      OBVIOUS
    <3>4. CASE m = 1
      <4>1. t[1] = seqs[1] /\ \A j \in 1..1 : j = 1
        BY <3>3, <3>4, <2>4
      <4>2. seqs[1] \in Seq(S) /\ 1 \in 1..1
        BY <3>3, <3>4, <1>2
      <4>3. FlatUpTo(t, 1, seqs, S)
        BY <4>1, <4>2 DEF FlatUpTo
      <4> QED
        BY <4>3, <3>3, <3>4
    <3>5. CASE m # 1
      <4>1. /\ m - 1 \in 1..n /\ ~ (m <= m - 1) /\ m \in Nat
            /\ \A j \in 1..m : j \in 1..(m - 1) \/ j = m
            /\ \A j \in 1..(m - 1) : j \in 1..m
        BY <3>3, <3>5, <1>2
      <4>2. m - 1 \notin Bad
        <5> HIDE DEF Bad
        <5> QED BY <4>1, <3>2
      <4>3. FlatUpTo(t, m - 1, seqs, S)
        BY <4>1, <4>2
      <4>4. PICK u : u = t[m - 1]
        OBVIOUS
      <4>5. t[m] = u \o seqs[m] /\ seqs[m] \in Seq(S)
        BY <3>3, <3>5, <4>4, <2>4, <1>2
      <4>6. /\ u \in Seq(S)
            /\ u = <<>> => \A j \in 1..(m - 1) : seqs[j] = <<>>
            /\ u # <<>> => \E j \in 1..(m - 1) : seqs[j] # <<>> /\ u[1] = seqs[j][1]
        BY <4>3, <4>4 DEF FlatUpTo
      <4>7. CASE u = <<>>
        <5>1. t[m] = seqs[m]
          BY <4>5, <4>7, ConcatEmptySeq
        <5>2. m \in 1..m
          BY <4>1
        <5>3. FlatUpTo(t, m, seqs, S)
          BY <5>1, <5>2, <4>5, <4>6, <4>7, <4>1 DEF FlatUpTo
        <5> QED
          BY <5>3, <3>3
      <4>8. CASE u # <<>>
        <5>1. Len(u) \in Nat \ {0} /\ Len(seqs[m]) \in Nat
          BY <4>5, <4>6, <4>8
        <5>2. t[m] \in Seq(S) /\ t[m] # <<>> /\ t[m][1] = u[1]
          BY <4>5, <4>6, <5>1, ConcatProperties
        <5>3. PICK j \in 1..(m - 1) : seqs[j] # <<>> /\ u[1] = seqs[j][1]
          BY <4>6, <4>8
        <5>4. j \in 1..m
          BY <4>1
        <5>5. FlatUpTo(t, m, seqs, S)
          BY <5>2, <5>3, <5>4 DEF FlatUpTo
        <5> QED
          BY <5>5, <3>3
      <4> QED
        BY <4>7, <4>8
    <3> QED
      BY <3>4, <3>5
  <2>6. n \in 1..n
    BY <1>2, <1>4
  <2>7. FlatUpTo(t, n, seqs, S)
    BY <2>5, <2>6
  <2> QED
    BY <2>3, <2>7, <1>2 DEF Flat, FlatUpTo
<1> QED
  BY <1>3, <1>4

\* The first call of a stack is replaced.
LEMMA ReplaceFirst ==
  ASSUME NEW S, NEW s \in Seq(S), s # <<>>, NEW f \in S
  PROVE  LET t == <<f>> \o Tail(s)
         IN t \in Seq(S) /\ t # <<>> /\ Head(t) = f /\ Tail(t) = Tail(s)
<1>1. Tail(s) \in Seq(S) /\ <<f>> \in Seq(S) /\ Len(<<f>>) = 1 /\ <<f>>[1] = f
  BY HeadTailProperties
<1>2. PICK u : u = Tail(s)
  OBVIOUS
<1>3. PICK t : t = <<f>> \o u
  OBVIOUS
<1>4. u \in Seq(S) /\ Len(u) \in Nat
  BY <1>1, <1>2
<1>5. /\ t \in Seq(S) /\ Len(t) = 1 + Len(u)
      /\ \A i \in 1..(1 + Len(u)) : t[i] = IF i <= 1 THEN f ELSE u[i - 1]
  BY <1>1, <1>3, <1>4, ConcatProperties
<1>6. t # <<>> /\ t[1] = f
  BY <1>4, <1>5
<1>7. Head(t) = f
  BY <1>6, <1>5
<1>8. Tail(t) \in Seq(S) /\ Len(Tail(t)) = Len(u) /\ \A i \in 1..Len(u) : Tail(t)[i] = t[i + 1]
  BY <1>4, <1>5, <1>6, HeadTailProperties
<1>9. \A i \in 1..Len(u) : Tail(t)[i] = u[i]
  BY <1>4, <1>5, <1>8
<1>10. Tail(t) = u
  BY <1>4, <1>8, <1>9, SeqEqual
<1> QED
  BY <1>2, <1>3, <1>5, <1>6, <1>7, <1>10

-----------------------------------------------------------------------------
(***************************************************************************)
(* Sums over a set, and the home router of a computer.                     *)
(***************************************************************************)
\* The recursive function in MapThenSumSet, up to sets of k elements.
AddsOne(f, g, s) ==
  IF s = {} THEN 0 ELSE g[CHOOSE x \in s : TRUE] + f[s \ {CHOOSE x \in s : TRUE}]
Adds(f, g, S, k) == f = [s \in {u \in SUBSET S : Cardinality(u) <= k} |-> AddsOne(f, g, s)]

LEMMA AddsExists ==
  ASSUME NEW g, NEW S, IsFiniteSet(S), NEW n \in Nat
  PROVE  \E f : Adds(f, g, S, n)
<1> DEFINE Small(k) == {u \in SUBSET S : Cardinality(u) <= k}
           Bad == {m \in Nat : ~ \E f : Adds(f, g, S, m)}
<1>0. \A u \in SUBSET S : IsFiniteSet(u) /\ Cardinality(u) \in Nat
  BY FS_Subset, FS_CardinalityType
<1>1. SUFFICES ASSUME Bad # {} PROVE FALSE
  OBVIOUS
<1>2. PICK m \in Bad : \A k \in Bad : m <= k
  <2>1. Bad \in SUBSET Nat OBVIOUS
  <2> HIDE DEF Bad
  <2> QED BY <1>1, <2>1, NatMin
<1>3. m \in Nat /\ ~ \E f : Adds(f, g, S, m)
  OBVIOUS
<1>4. CASE m = 0
  <2>1. PICK f : f = [s \in Small(0) |-> 0]
    OBVIOUS
  <2>2. \A s \in Small(0) : s = {}
    BY <1>0, FS_EmptySet
  <2>3. Adds(f, g, S, 0)
    BY <2>1, <2>2 DEF Adds, AddsOne
  <2> QED
    BY <1>3, <1>4, <2>3
<1>5. CASE m # 0
  <2>1. m - 1 \in Nat /\ ~ (m <= m - 1)
    BY <1>3, <1>5
  <2>2. m - 1 \notin Bad
    <3> HIDE DEF Bad
    <3> QED BY <2>1, <1>2
  <2>3. PICK f : Adds(f, g, S, m - 1)
    BY <2>1, <2>2
  <2>4. PICK t : t = [s \in Small(m) |-> AddsOne(f, g, s)]
    OBVIOUS
  <2>5. \A s \in Small(m - 1) : s \in Small(m) /\ f[s] = AddsOne(f, g, s)
    BY <2>3, <1>0, <1>3 DEF Adds
  <2>6. \A s \in Small(m) : s # {} => s \ {CHOOSE x \in s : TRUE} \in Small(m - 1)
    <3> TAKE s \in Small(m)
    <3> HAVE s # {}
    <3>1. PICK x : x = CHOOSE y \in s : TRUE
      OBVIOUS
    <3>2. x \in s
      BY <3>1
    <3>3. Cardinality(s \ {x}) = Cardinality(s) - 1
      BY <3>2, <1>0, FS_RemoveElement
    <3> QED
      BY <3>1, <3>3, <1>0, <1>3
  <2>7. \A s \in Small(m - 1) : t[s] = f[s]
    BY <2>4, <2>5
  <2>8. \A s \in Small(m) : t[s] = AddsOne(t, g, s)
    <3> TAKE s \in Small(m)
    <3>1. t[s] = AddsOne(f, g, s)
      BY <2>4
    <3> QED
      BY <3>1, <2>6, <2>7 DEF AddsOne
  <2>9. Adds(t, g, S, m)
    <3>1. t = [s \in Small(m) |-> t[s]] BY <2>4
    <3> QED BY <3>1, <2>8 DEF Adds
  <2> QED
    BY <2>9, <1>3
<1> QED
  BY <1>4, <1>5

SumOver(g, S) == MapThenSumSet(LAMBDA o : g[o], S)
\* A sum over a set, computed with a function that adds one element at a time.
Sums(f, g, S) == \A s \in SUBSET S : f[s] = AddsOne(f, g, s)

LEMMA SumRec ==
  ASSUME NEW g, NEW S, IsFiniteSet(S)
  PROVE  \E f : Sums(f, g, S) /\ SumOver(g, S) = f[S]
<1>0. \A u \in SUBSET S : IsFiniteSet(u) /\ Cardinality(u) \in Nat /\ Cardinality(u) <= Cardinality(S)
  BY FS_Subset, FS_CardinalityType
<1>1. PICK t : t = CHOOSE iter : iter = [s \in SUBSET S |->
                     IF s = {} THEN 0 ELSE g[CHOOSE x \in s : TRUE] + iter[s \ {CHOOSE x \in s : TRUE}]]
  OBVIOUS
<1>2. SumOver(g, S) = t[S]
  BY <1>1 DEF SumOver, MapThenSumSet, MapThenFoldSet
<1>3. \E f : f = [s \in SUBSET S |->
               IF s = {} THEN 0 ELSE g[CHOOSE x \in s : TRUE] + f[s \ {CHOOSE x \in s : TRUE}]]
  <2>1. Cardinality(S) \in Nat
    BY FS_CardinalityType
  <2>2. PICK f : Adds(f, g, S, Cardinality(S))
    BY <2>1, AddsExists
  <2>3. {u \in SUBSET S : Cardinality(u) <= Cardinality(S)} = SUBSET S
    BY <1>0
  <2> QED
    BY <2>2, <2>3 DEF Adds, AddsOne
<1>4. t = [s \in SUBSET S |-> AddsOne(t, g, s)]
  BY <1>1, <1>3 DEF AddsOne
<1> QED
  BY <1>2, <1>4 DEF Sums

SumIn(v, g, S, D) == v \in Nat /\ v <= Cardinality(S) * D

LEMMA SumBound ==
  ASSUME NEW g, NEW S, IsFiniteSet(S), NEW D \in Nat, \A x \in S : g[x] \in 0..D
  PROVE  SumIn(SumOver(g, S), g, S, D)
<1>0. \A u \in SUBSET S : IsFiniteSet(u) /\ Cardinality(u) \in Nat /\ Cardinality(u) <= Cardinality(S)
  BY FS_Subset, FS_CardinalityType
<1>1. PICK t : Sums(t, g, S) /\ SumOver(g, S) = t[S]
  BY SumRec
<1>5. \A s \in SUBSET S : t[s] = AddsOne(t, g, s)
  BY <1>1 DEF Sums
<1> DEFINE Bad == {k \in Nat : \E s \in SUBSET S : Cardinality(s) = k /\ ~ SumIn(t[s], g, s, D)}
<1>6. Bad = {}
  <2>1. SUFFICES ASSUME Bad # {} PROVE FALSE
    OBVIOUS
  <2>2. PICK m \in Bad : \A k \in Bad : m <= k
    <3>1. Bad \in SUBSET Nat OBVIOUS
    <3> HIDE DEF Bad
    <3> QED BY <2>1, <3>1, NatMin
  <2>3. PICK s \in SUBSET S : Cardinality(s) = m /\ ~ SumIn(t[s], g, s, D)
    OBVIOUS
  <2>4. m \in Nat
    OBVIOUS
  <2>5. s # {}
    <3>1. SUFFICES ASSUME s = {} PROVE FALSE
      OBVIOUS
    <3>2. t[s] = 0 /\ Cardinality(s) = 0
      BY <3>1, <1>5, FS_EmptySet DEF AddsOne
    <3> QED
      BY <3>2, <2>3 DEF SumIn
  <2>6. PICK x : x = CHOOSE y \in s : TRUE
    OBVIOUS
  <2>7. x \in s /\ x \in S
    BY <2>5, <2>6
  <2>8. PICK u : u = s \ {x}
    OBVIOUS
  <2>9. t[s] = g[x] + t[u]
    BY <2>5, <2>6, <2>8, <1>5 DEF AddsOne
  <2>10. u \in SUBSET S /\ Cardinality(u) = m - 1 /\ Cardinality(u) \in Nat
    BY <2>3, <2>7, <2>8, <1>0, FS_RemoveElement
  <2>11. m - 1 \notin Bad
    <3> HIDE DEF Bad
    <3> QED BY <2>2, <2>4, <2>10
  <2>12. SumIn(t[u], g, u, D)
    BY <2>10, <2>11
  <2>13. PICK v, w, k : v = t[u] /\ w = g[x] /\ k = m - 1
    OBVIOUS
  <2>14. /\ v \in Nat /\ k \in Nat /\ m = k + 1 /\ v <= k * D
         /\ w \in Nat /\ w <= D
    BY <2>7, <2>10, <2>12, <2>13, <2>4 DEF SumIn
  <2>15. (k + 1) * D = k * D + D /\ k * D \in Nat
    BY <2>14
  <2>16. PICK p : p = k * D
    OBVIOUS
  <2>17. w + v <= p + D
    BY <2>14, <2>15, <2>16
  <2>18. w + v <= m * D
    BY <2>14, <2>15, <2>16, <2>17
  <2> QED
    BY <2>3, <2>9, <2>13, <2>14, <2>18 DEF SumIn
<1>7. Cardinality(S) \in Nat /\ S \in SUBSET S
  BY FS_CardinalityType
<1>8. SumIn(t[S], g, S, D)
  BY <1>6, <1>7
<1> QED
  BY <1>1, <1>8

-----------------------------------------------------------------------------
(***************************************************************************)
(* The assignment of the contexts to the computers.                        *)
(***************************************************************************)
\* The sum over a part, without one element.
LEMMA SumsStep ==
  ASSUME NEW f, NEW g, NEW S, IsFiniteSet(S), Sums(f, g, S), NEW u \in SUBSET S, u # {}
  PROVE  \E x \in u : /\ x = (CHOOSE y \in u : TRUE) /\ f[u] = g[x] + f[u \ {x}]
                      /\ Cardinality(u \ {x}) = Cardinality(u) - 1
                      /\ Cardinality(u \ {x}) \in Nat /\ Cardinality(u) \in Nat
                      /\ u \ {x} \in SUBSET S
<1>1. PICK x : x = CHOOSE y \in u : TRUE
  OBVIOUS
<1>2. x \in u
  BY <1>1
<1>3. IsFiniteSet(u)
  BY FS_Subset
<1>4. /\ Cardinality(u \ {x}) = Cardinality(u) - 1
      /\ Cardinality(u \ {x}) \in Nat /\ Cardinality(u) \in Nat
  BY <1>2, <1>3, FS_RemoveElement, FS_CardinalityType, FS_Subset
<1>5. f[u] = g[x] + f[u \ {x}]
  BY <1>1 DEF Sums, AddsOne
<1> QED
  BY <1>1, <1>2, <1>4, <1>5

LEMMA SumsNat ==
  ASSUME NEW f, NEW g, NEW S, IsFiniteSet(S), Sums(f, g, S), \A x \in S : g[x] \in Nat
  PROVE  \A u \in SUBSET S : f[u] \in Nat
<1> DEFINE Bad == {n \in Nat : \E u \in SUBSET S : Cardinality(u) = n /\ f[u] \notin Nat}
<1>1. SUFFICES Bad = {}
  BY FS_Subset, FS_CardinalityType
<1>2. SUFFICES ASSUME Bad # {} PROVE FALSE
  OBVIOUS
<1>3. PICK n \in Bad : \A m \in Bad : n <= m
  <2>1. Bad \in SUBSET Nat OBVIOUS
  <2> HIDE DEF Bad
  <2> QED BY <1>2, <2>1, NatMin
<1>4. PICK u \in SUBSET S : Cardinality(u) = n /\ f[u] \notin Nat
  BY <1>3 DEF Bad
<1>5. u # {}
  <2>1. f[{}] = 0
    BY DEF Sums, AddsOne
  <2> QED
    BY <1>4, <2>1
<1>6. PICK x \in u : /\ f[u] = g[x] + f[u \ {x}] /\ Cardinality(u \ {x}) = n - 1
                     /\ Cardinality(u \ {x}) \in Nat /\ n \in Nat /\ u \ {x} \in SUBSET S
  BY <1>4, <1>5, SumsStep
<1>7. n - 1 \notin Bad
  <2> HIDE DEF Bad
  <2> QED BY <1>3, <1>6
<1>8. f[u \ {x}] \in Nat
  BY <1>6, <1>7
<1>9. g[x] \in Nat
  OBVIOUS
<1> QED
  BY <1>4, <1>6, <1>8, <1>9

LEMMA SumNat ==
  ASSUME NEW g, NEW S, IsFiniteSet(S), \A x \in S : g[x] \in Nat
  PROVE  SumOver(g, S) \in Nat
<1>1. PICK f : Sums(f, g, S) /\ SumOver(g, S) = f[S]
  BY SumRec
<1> QED
  BY <1>1, SumsNat

\* The costs of a router for a computer are numbers.
LEMMA CostNumbers ==
  ASSUME NEW R \in SUBSET DOMAIN Topology, NEW r \in R, NEW c \in DOMAIN Topology
  PROVE  /\ MaxCost(Topology, R, r, c) \in Nat /\ AvgCost(Topology, R, r, c) \in Nat
         /\ numNodes(Topology) \in Nat
<1>1. PICK n, g : n = numNodes(Topology) /\ g = Topology[r]
  OBVIOUS
<1>2. IsFiniteSet(R) /\ n \in Nat
  BY <1>1, TopologyAssumption, FS_Subset, FS_CardinalityType DEF numNodes
<1>3. r \in DOMAIN Topology /\ \A x \in DOMAIN Topology : g[x] \in Nat
  BY <1>1, TopologyAssumption
<1> DEFINE M == {g[o] : o \in R}
<1>4. M \in SUBSET Nat /\ M # {}
  BY <1>3
<1>5. IsFiniteSet(M)
  <2>1. PICK f : f = [x \in R |-> g[x]]
    OBVIOUS
  <2>2. f \in Surjection(R, M)
    BY <2>1 DEF Surjection
  <2> HIDE DEF M
  <2> QED
    BY <2>2, <1>2, FS_Surjection
<1>6. Max(M) \in M
  <2> HIDE DEF M
  <2>1. PICK x \in M : \A y \in M : y <= x
    BY <1>4, <1>5, NatMax
  <2>2. \A y \in M : x >= y
    BY <2>1, <1>4
  <2> QED
    BY <2>2 DEF Max
<1>7. PICK m : m = Max(M)
  OBVIOUS
<1>8. m \in Nat
  BY <1>4, <1>6, <1>7
<1>9. PICK s : s = SumOver(g, R)
  OBVIOUS
<1>10. \A x \in R : g[x] \in Nat
  BY <1>3
<1>11. s \in Nat
  BY <1>2, <1>9, <1>10, SumNat
<1>12. MaxCost(Topology, R, r, c) = g[c] + m
  BY <1>1, <1>7 DEF MaxCost
<1>13. AvgCost(Topology, R, r, c) = n * g[c] + s
  BY <1>1, <1>9 DEF AvgCost, SumOver
<1>14. g[c] + m \in Nat /\ n * g[c] + s \in Nat
  BY <1>2, <1>3, <1>8, <1>11
<1> QED
  BY <1>1, <1>2, <1>12, <1>13, <1>14

\* With distances like numbers of hops the second of a pair of costs never
\* outweighs the first, n the number of nodes.
CostsIn(max, avg, n) ==
  /\ max \in Nat /\ avg \in Nat /\ n \in Nat \ {0}
  /\ max <= 2 * n /\ avg <= 2 * n * n

LEMMA CostFacts ==
  ASSUME HopCounts(Topology),
         NEW R \in SUBSET DOMAIN Topology, NEW r \in R, NEW c \in DOMAIN Topology
  PROVE  CostsIn(MaxCost(Topology, R, r, c), AvgCost(Topology, R, r, c), numNodes(Topology))
<1>1. PICK n : n = numNodes(Topology)
  OBVIOUS
<1>2. PICK g : g = Topology[r]
  OBVIOUS
<1>3. /\ IsFiniteSet(R) /\ Cardinality(R) \in Nat /\ Cardinality(R) <= n
      /\ n \in Nat /\ n # 0
  BY <1>1, TopologyAssumption, FS_Subset, FS_CardinalityType, FS_EmptySet DEF numNodes
<1>4. r \in DOMAIN Topology /\ \A x \in DOMAIN Topology : g[x] \in Nat /\ g[x] <= n
  BY <1>1, <1>2, TopologyAssumption DEF HopCounts
<1>5. g[c] \in Nat /\ g[c] <= n
  BY <1>4
<1> DEFINE M == {g[o] : o \in R}
<1>6. M \in SUBSET Nat /\ M # {} /\ \A y \in M : y <= n
  BY <1>4
<1>7. IsFiniteSet(M)
  BY <1>3, <1>6, FS_BoundedSetOfNaturals
<1>8. Max(M) \in M
  <2> HIDE DEF M
  <2>1. PICK x \in M : \A y \in M : y <= x
    BY <1>6, <1>7, NatMax
  <2>2. \A y \in M : x >= y
    BY <2>1, <1>6
  <2> QED
    BY <2>2 DEF Max
<1>9. PICK m : m = Max(M)
  OBVIOUS
<1>10. m \in Nat /\ m <= n
  BY <1>6, <1>8, <1>9
<1>11. PICK s : s = SumOver(g, R)
  OBVIOUS
<1>12. s \in Nat /\ s <= Cardinality(R) * n
  <2>1. \A x \in R : g[x] \in 0..n
    BY <1>3, <1>4
  <2>2. SumIn(SumOver(g, R), g, R, n)
    BY <2>1, <1>3, SumBound
  <2>3. SumIn(s, g, R, n)
    BY <2>2, <1>11
  <2> QED
    BY <2>3 DEF SumIn
<1>13. PICK k : k = Cardinality(R)
  OBVIOUS
<1>14. k * n <= n * n /\ n * n \in Nat /\ k * n \in Nat
  BY <1>3, <1>13
<1>15. n * g[c] <= n * n /\ n * g[c] \in Nat
  BY <1>3, <1>5
<1>16. MaxCost(Topology, R, r, c) = g[c] + m
  BY <1>2, <1>9 DEF MaxCost
<1>17. AvgCost(Topology, R, r, c) = n * g[c] + s
  BY <1>1, <1>2, <1>11 DEF AvgCost, SumOver
<1>18. g[c] + m \in Nat /\ g[c] + m <= 2 * n
  BY <1>3, <1>5, <1>10
<1>19. PICK p, q, d : p = n * n /\ q = n * g[c] /\ d = k * n
  OBVIOUS
<1>20. q + s \in Nat /\ q + s <= 2 * p
  BY <1>12, <1>13, <1>14, <1>15, <1>19
<1>21. 2 * n * n = 2 * p
  BY <1>3, <1>19
<1> QED
  BY <1>1, <1>3, <1>16, <1>17, <1>18, <1>19, <1>20, <1>21 DEF CostsIn

\* A weight larger than the second term orders pairs by their first term.
LEMMA Lexicographic ==
  ASSUME NEW w \in Nat, NEW a \in Nat, NEW b \in Nat, NEW x \in Nat, NEW y \in Nat,
         y < w, w * a + x <= w * b + y
  PROVE  a < b \/ (a = b /\ x <= y)
<1>1. CASE a < b
  BY <1>1
<1>2. CASE a = b
  <2>1. PICK p : p = w * a
    OBVIOUS
  <2>2. p \in Nat
    BY <2>1
  <2> QED
    BY <1>2, <2>1, <2>2
<1>3. CASE b < a
  <2>1. PICK d : d = a - b - 1
    OBVIOUS
  <2>2. d \in Nat /\ a = b + 1 + d
    BY <1>3, <2>1
  <2>3. w * a = w * b + w + w * d /\ w * d \in Nat /\ w * b \in Nat
    BY <2>2
  <2>4. PICK p, q : p = w * b /\ q = w * d
    OBVIOUS
  <2>5. p + w + q + x <= p + y
    BY <2>3, <2>4
  <2>6. FALSE
    BY <2>3, <2>4, <2>5
  <2> QED
    BY <2>6
<1> QED
  BY <1>1, <1>2, <1>3

ScoreOf(objective, R, c, r) == Score(Topology, objective, R, r, c)

\* findClosest() returns one of the routers, the least in score.
LEMMA ClosestFacts ==
  ASSUME NEW objective, NEW R \in SUBSET (DOMAIN Topology \cap Nat), R # {},
         NEW c \in DOMAIN Topology
  PROVE  /\ Closest(Topology, objective, R, c) \in R
         /\ \A o \in R : ScoreOf(objective, R, c, Closest(Topology, objective, R, c))
                           <= ScoreOf(objective, R, c, o)
         /\ \A o \in R : ScoreOf(objective, R, c, o) \in Nat
<1>1. \A r \in R : Score(Topology, objective, R, r, c) \in Nat
  <2> TAKE r \in R
  <2>1. PICK max, avg, n : /\ max = MaxCost(Topology, R, r, c)
                           /\ avg = AvgCost(Topology, R, r, c) /\ n = numNodes(Topology)
    OBVIOUS
  <2>2. max \in Nat /\ avg \in Nat /\ n \in Nat
    BY <2>1, CostNumbers
  <2>3. PICK w : w = 1 + 2 * n * n
    OBVIOUS
  <2>4. w \in Nat
    BY <2>2, <2>3
  <2>5. w * max + avg \in Nat /\ max + w * avg \in Nat
    BY <2>2, <2>4
  <2> QED
    BY <2>1, <2>3, <2>5 DEF Score
<1> DEFINE score(r) == Score(Topology, objective, R, r, c)
           V == {score(r) : r \in R}
           B == {r \in R : score(r) = Min(V)}
<1>2. Min(V) \in V /\ \A v \in V : Min(V) <= v
  <2>1. V \in SUBSET Nat /\ V # {}
    BY <1>1
  <2> HIDE DEF V
  <2>2. \E x \in V : \A y \in V : x <= y
    BY <2>1, NatMin
  <2> QED
    BY <2>2 DEF Min
<1>3. Min(B) \in B
  <2>1. B \in SUBSET Nat /\ B # {}
    BY <1>2
  <2> HIDE DEF B
  <2>2. \E x \in B : \A y \in B : x <= y
    BY <2>1, NatMin
  <2> QED
    BY <2>2 DEF Min
<1>4. Closest(Topology, objective, R, c) = Min(B)
  BY DEF Closest
<1> QED
  BY <1>1, <1>2, <1>3, <1>4 DEF ScoreOf

\* With such distances the least score is that of a preferred router.
LEMMA ClosestPreferred ==
  ASSUME HopCounts(Topology),
         NEW objective, NEW R \in SUBSET (DOMAIN Topology \cap Nat), R # {},
         NEW c \in DOMAIN Topology
  PROVE  Closest(Topology, objective, R, c) \in Preferred(Topology, objective, R, c)
<1>1. PICK r : r = Closest(Topology, objective, R, c)
  OBVIOUS
<1>2. r \in R /\ \A o \in R : ScoreOf(objective, R, c, r) <= ScoreOf(objective, R, c, o)
  BY <1>1, ClosestFacts
<1> DEFINE max(o) == MaxCost(Topology, R, o, c)
           avg(o) == AvgCost(Topology, R, o, c)
           first(o) == IF objective = "min-max" THEN max(o) ELSE avg(o)
           second(o) == IF objective = "min-max" THEN avg(o) ELSE max(o)
<1>3. ASSUME NEW o \in R
      PROVE  first(r) < first(o) \/ (first(r) = first(o) /\ second(r) <= second(o))
  <2>1. PICK m1, a1, m2, a2, n : /\ m1 = max(r) /\ a1 = avg(r) /\ m2 = max(o) /\ a2 = avg(o)
                                 /\ n = numNodes(Topology)
    OBVIOUS
  <2>2. CostsIn(m1, a1, n) /\ CostsIn(m2, a2, n)
    BY <2>1, <1>2, CostFacts
  <2>3. PICK w : w = 1 + 2 * n * n
    OBVIOUS
  <2>4. /\ m1 \in Nat /\ m2 \in Nat /\ a1 \in Nat /\ a2 \in Nat /\ w \in Nat
        /\ a2 < w /\ m2 < w
    <3>1. n \in Nat \ {0} /\ m2 \in Nat /\ m2 <= 2 * n /\ a2 \in Nat /\ a2 <= 2 * n * n
      BY <2>2 DEF CostsIn
    <3>2. PICK p : p = n * n
      OBVIOUS
    <3>3. p \in Nat /\ n <= p /\ 2 * n * n = 2 * p
      BY <3>1, <3>2
    <3>4. w \in Nat /\ a2 < w /\ m2 < w
      BY <3>1, <3>3, <2>3
    <3> QED
      BY <3>4, <2>2 DEF CostsIn
  <2>5. CASE objective = "min-max"
    <3>1. ScoreOf(objective, R, c, r) = w * m1 + a1 /\ ScoreOf(objective, R, c, o) = w * m2 + a2
      BY <2>1, <2>3, <2>5 DEF ScoreOf, Score
    <3>2. w * m1 + a1 <= w * m2 + a2
      BY <3>1, <1>2
    <3>3. m1 < m2 \/ (m1 = m2 /\ a1 <= a2)
      BY <3>2, <2>4, Lexicographic
    <3> QED
      BY <3>3, <2>1, <2>5
  <2>6. CASE objective # "min-max"
    <3>1. ScoreOf(objective, R, c, r) = m1 + w * a1 /\ ScoreOf(objective, R, c, o) = m2 + w * a2
      BY <2>1, <2>3, <2>6 DEF ScoreOf, Score
    <3>2. m1 + w * a1 <= m2 + w * a2
      BY <3>1, <1>2
    <3>3. w * a1 \in Nat /\ w * a2 \in Nat
      BY <2>4
    <3>4. w * a1 + m1 <= w * a2 + m2
      BY <3>2, <3>3, <2>4
    <3>5. a1 < a2 \/ (a1 = a2 /\ m1 <= m2)
      BY <3>4, <2>4, Lexicographic
    <3> QED
      BY <3>5, <2>1, <2>6
  <2> QED
    BY <2>5, <2>6
<1> QED
  BY <1>1, <1>2, <1>3 DEF Preferred

-----------------------------------------------------------------------------
(***************************************************************************)
(* The calls on the stack.                                                 *)
(***************************************************************************)
AnnounceCall(c) == [op |-> "announce", c |-> c]
LambdaCall(hook, l) == [op |-> hook, l |-> l]
ComputerCall(op, c, set) == [op |-> op, c |-> c, set |-> set]
ComputerOps == {"insert", "withdraw", "addComputer", "delComputer"}
LambdaOps == {"addLambda", "delLambda"}
HookOps == LambdaOps \cup {"addComputer", "delComputer"}

IsCall(f) ==
  \/ f.op \in ComputerOps /\ f.c \in Computers /\ f.set \in ContainerLists
  \/ f.op = "announce" /\ f.c \in Computers /\ f = AnnounceCall(f.c)
  \/ /\ f.op = "commands" /\ f.list \in Seq(CommandType) /\ f.then \in ThenType
     /\ f = Commands(f.list, f.then)
  \/ f.op \in LambdaOps /\ f.l \in Lambdas

LEMMA CallFacts ==
  ASSUME NEW f \in Calls
  PROVE  IsCall(f)
<1>1. CASE f \in [op : {"commands"}, list : Seq(CommandType), then : ThenType]
  BY <1>1 DEF IsCall, Commands
<1>2. CASE f \in [op : {"announce"}, c : Computers]
  BY <1>2 DEF IsCall, AnnounceCall
<1>3. CASE f \in [op : {"addLambda", "delLambda"}, l : Lambdas]
  BY <1>3 DEF IsCall, LambdaOps
<1>4. CASE f \in [op : {"insert", "withdraw", "addComputer", "delComputer"}, c : Computers,
                  set : ContainerLists]
  BY <1>4 DEF IsCall, ComputerOps
<1> QED
  BY <1>1, <1>2, <1>3, <1>4 DEF Calls

LEMMA CallOps ==
  ASSUME NEW f, IsCall(f)
  PROVE  /\ f.op \in ComputerOps => f.c \in Computers /\ f.set \in ContainerLists
         /\ f.op = "announce" => f.c \in Computers /\ f = AnnounceCall(f.c)
         /\ f.op = "commands" => /\ f.list \in Seq(CommandType) /\ f.then \in ThenType
                                 /\ f = Commands(f.list, f.then)
         /\ f.op \in LambdaOps => f.l \in Lambdas
         /\ f.op \in ComputerOps \cup LambdaOps \cup {"announce", "commands"}
  BY DEF IsCall, ComputerOps, LambdaOps

LEMMA CallTypes ==
  /\ \A c \in Computers : AnnounceCall(c) \in Calls /\ AnnounceCall(c).op = "announce"
  /\ \A hook \in LambdaOps, l \in Lambdas :
       LambdaCall(hook, l) \in Calls /\ LambdaCall(hook, l).op = hook
  /\ \A op \in ComputerOps, c \in Computers, set \in ContainerLists :
       ComputerCall(op, c, set) \in Calls /\ ComputerCall(op, c, set).op = op
  /\ \A list \in Seq(CommandType), then \in ThenType :
       Commands(list, then) \in Calls /\ Commands(list, then).op = "commands"
<1>1. \A c \in Computers : AnnounceCall(c) \in Calls /\ AnnounceCall(c).op = "announce"
  <2> TAKE c \in Computers
  <2>1. AnnounceCall(c) \in [op : {"announce"}, c : Computers]
    BY DEF AnnounceCall
  <2> QED
    BY <2>1 DEF Calls, AnnounceCall
<1>2. \A hook \in LambdaOps, l \in Lambdas :
        LambdaCall(hook, l) \in Calls /\ LambdaCall(hook, l).op = hook
  <2> TAKE hook \in LambdaOps, l \in Lambdas
  <2>1. LambdaCall(hook, l) \in [op : {"addLambda", "delLambda"}, l : Lambdas]
    BY DEF LambdaCall, LambdaOps
  <2> QED
    BY <2>1 DEF Calls, LambdaCall
<1>3. \A op \in ComputerOps, c \in Computers, set \in ContainerLists :
        ComputerCall(op, c, set) \in Calls /\ ComputerCall(op, c, set).op = op
  <2> TAKE op \in ComputerOps, c \in Computers, set \in ContainerLists
  <2>1. ComputerCall(op, c, set) \in
          [op : {"insert", "withdraw", "addComputer", "delComputer"}, c : Computers,
           set : ContainerLists]
    BY DEF ComputerCall, ComputerOps
  <2> QED
    BY <2>1 DEF Calls, ComputerCall
<1>4. \A list \in Seq(CommandType), then \in ThenType :
        Commands(list, then) \in Calls /\ Commands(list, then).op = "commands"
  <2> TAKE list \in Seq(CommandType), then \in ThenType
  <2>1. Commands(list, then) \in [op : {"commands"}, list : Seq(CommandType), then : ThenType]
    BY DEF Commands
  <2> QED
    BY <2>1 DEF Calls, Commands
<1> QED
  BY <1>1, <1>2, <1>3, <1>4

LEMMA ThenFacts ==
  /\ Done \in ThenType /\ Others \in ThenType /\ [op |-> "rebuild"] \in ThenType
  /\ \A c \in Computers, r \in Routers : [op |-> "home", c |-> c, router |-> r] \in ThenType
  /\ \A t \in ThenType :
       /\ t.op \in {"done", "others", "home", "rebuild"}
       /\ t.op = "done" <=> t = Done
       /\ t.op = "others" <=> t = Others
       /\ t.op = "home" => t.c \in Computers /\ t.router \in Routers
<1>1. ASSUME NEW c \in Computers, NEW r \in Routers
      PROVE  [op |-> "home", c |-> c, router |-> r] \in [op : {"home"}, c : Computers, router : Routers]
  OBVIOUS
<1>2. ASSUME NEW t \in ThenType
      PROVE  /\ t.op \in {"done", "others", "home", "rebuild"}
             /\ t.op = "done" <=> t = Done
             /\ t.op = "others" <=> t = Others
             /\ t.op = "home" => t.c \in Computers /\ t.router \in Routers
  <2>1. CASE t \in {Done, Others, [op |-> "rebuild"]}
    BY <2>1 DEF Done, Others
  <2>2. CASE t \in [op : {"home"}, c : Computers, router : Routers]
    BY <2>2 DEF Done, Others
  <2> QED
    BY <2>1, <2>2 DEF ThenType
<1> QED
  BY <1>1, <1>2 DEF ThenType

(***************************************************************************)
(* Loops over routers.                                                     *)
(***************************************************************************)
IsLoop(list, what, set, whom) ==
  /\ list \in Seq(CommandType)
  /\ \A i \in DOMAIN list : /\ list[i] = Command(what, list[i].router, set)
                            /\ list[i].router \in whom /\ list[i].what = what
                            /\ list[i].to = "table-server" /\ list[i].rows = set
  /\ \A i, j \in DOMAIN list : list[i].router = list[j].router => i = j
  /\ what = "flush" \/ set # {} => \A r \in whom : \E i \in DOMAIN list : list[i].router = r

LEMMA LoopFacts ==
  ASSUME NEW what \in {"change", "remove", "flush"}, NEW set \in SUBSET Rows,
         NEW whom \in SUBSET Routers,
         NEW order, order = Sorted(whom)
  PROVE  IsLoop([i \in DOMAIN order |-> Command(what, order[i], set)], what, set, whom)
<1>1. PICK list : list = [i \in DOMAIN order |-> Command(what, order[i], set)]
  OBVIOUS
<1>2. whom \in SUBSET Nat /\ IsFiniteSet(whom)
  BY EndsAssumption, FS_Subset DEF Ends
<1>3. /\ DOMAIN order = 1..Len(order) /\ Len(order) \in Nat
      /\ \A i \in DOMAIN order : order[i] \in whom
      /\ \A i, j \in DOMAIN order : order[i] = order[j] => i = j
      /\ \A x \in whom : \E i \in DOMAIN order : order[i] = x
  BY <1>2, SortedFacts
<1>4. \A r \in Routers : Command(what, r, set) \in CommandType
  BY DEF Command, CommandType
<1>5. list \in Seq(CommandType) /\ DOMAIN list = DOMAIN order
  <2>1. \A i \in 1..Len(order) : list[i] \in CommandType
    BY <1>1, <1>3, <1>4
  <2>2. list \in [1..Len(order) -> CommandType]
    BY <2>1, <1>1, <1>3
  <2> QED
    BY <2>2, <1>1, <1>3
<1>6. \A i \in DOMAIN order : list[i] = Command(what, order[i], set)
  BY <1>1
<1>7. \A i \in DOMAIN order : /\ list[i].router = order[i] /\ list[i].what = what
                              /\ list[i].to = "table-server" /\ list[i].rows = set
  <2>1. \A r \in Routers :
          LET cmd == Command(what, r, set)
          IN cmd.router = r /\ cmd.what = what /\ cmd.to = "table-server" /\ cmd.rows = set
    BY DEF Command
  <2> TAKE i \in DOMAIN order
  <2>2. order[i] \in Routers
    BY <1>3
  <2> QED
    BY <2>1, <2>2, <1>6
<1> QED
  BY <1>1, <1>3, <1>5, <1>6, <1>7 DEF IsLoop

LEMMA ToEachFacts ==
  ASSUME NEW what \in {"change", "remove"}, NEW set \in SUBSET Rows, NEW whom \in SUBSET Routers
  PROVE  IsLoop(ToEach(what, set, whom), what, set, whom)
<1>1. CASE set = {}
  <2>1. ToEach(what, set, whom) = <<>>
    BY <1>1 DEF ToEach
  <2>2. <<>> \in Seq(CommandType) /\ DOMAIN <<>> = {}
    OBVIOUS
  <2> QED
    BY <2>1, <2>2, <1>1 DEF IsLoop
<1>2. CASE set # {}
  BY <1>2, LoopFacts DEF ToEach
<1> QED
  BY <1>1, <1>2

LEMMA FlushFacts ==
  ASSUME NEW whom \in SUBSET Routers
  PROVE  \E list : /\ Flush(whom) = Commands(list, [op |-> "rebuild"])
                   /\ IsLoop(list, "flush", {}, whom)
<1>1. {} \in SUBSET Rows
  OBVIOUS
<1> QED
  BY <1>1, LoopFacts DEF Flush

(***************************************************************************)
(* An insertion is the last call, of a computer that the controller does   *)
(* not know.                                                               *)
(***************************************************************************)
GoodStack(s, comp, known) ==
  /\ s \in Seq(Calls)
  /\ \A i \in DOMAIN s :
       s[i].op = "insert" => i = Len(s) /\ comp[s[i].c] = {} /\ s[i].c \in known

NoInsert(p) == p \in Seq(Calls) /\ \A i \in DOMAIN p : p[i].op # "insert"

LEMMA ConcatFacts ==
  ASSUME NEW S, NEW p \in Seq(S), NEW s \in Seq(S)
  PROVE  /\ p \o s \in Seq(S) /\ Len(p \o s) = Len(p) + Len(s)
         /\ Len(p) \in Nat /\ Len(s) \in Nat
         /\ DOMAIN (p \o s) = 1..(Len(p) + Len(s)) /\ DOMAIN p = 1..Len(p) /\ DOMAIN s = 1..Len(s)
         /\ \A i \in DOMAIN (p \o s) :
              \/ i \in DOMAIN p /\ (p \o s)[i] = p[i]
              \/ i - Len(p) \in DOMAIN s /\ i \notin DOMAIN p /\ (p \o s)[i] = s[i - Len(p)]
         /\ \A i \in DOMAIN p : i \in DOMAIN (p \o s) /\ (p \o s)[i] = p[i]
         /\ \A i \in DOMAIN s : i + Len(p) \in DOMAIN (p \o s) /\ (p \o s)[i + Len(p)] = s[i]
<1>1. PICK t : t = p \o s
  OBVIOUS
<1>2. PICK m, n : m = Len(p) /\ n = Len(s)
  OBVIOUS
<1>3. m \in Nat /\ n \in Nat /\ DOMAIN p = 1..m /\ DOMAIN s = 1..n
  BY <1>2
<1>4. /\ t \in Seq(S) /\ Len(t) = m + n
      /\ \A i \in 1..(m + n) : t[i] = IF i <= m THEN p[i] ELSE s[i - m]
  BY <1>1, <1>2, ConcatProperties
<1>5. DOMAIN t = 1..(m + n)
  BY <1>4
<1>6. \A i \in 1..(m + n) : \/ i \in 1..m /\ t[i] = p[i]
                            \/ i - m \in 1..n /\ i \notin 1..m /\ t[i] = s[i - m]
  BY <1>3, <1>4
<1>7. \A i \in 1..m : i \in 1..(m + n) /\ t[i] = p[i]
  BY <1>3, <1>4
<1>8. \A i \in 1..n : i + m \in 1..(m + n) /\ t[i + m] = s[i]
  <2> TAKE i \in 1..n
  <2>1. i + m \in 1..(m + n) /\ ~ (i + m <= m) /\ (i + m) - m = i
    BY <1>3
  <2> QED
    BY <2>1, <1>4
<1> QED
  BY <1>1, <1>2, <1>3, <1>4, <1>5, <1>6, <1>7, <1>8

LEMMA TailFacts ==
  ASSUME NEW S, NEW s \in Seq(S), s # <<>>
  PROVE  /\ Head(s) \in S /\ Head(s) = s[1] /\ 1 \in DOMAIN s
         /\ Tail(s) \in Seq(S) /\ Len(Tail(s)) = Len(s) - 1 /\ Len(s) \in Nat \ {0}
         /\ DOMAIN Tail(s) = 1..(Len(s) - 1) /\ DOMAIN s = 1..Len(s)
         /\ \A i \in DOMAIN Tail(s) : i + 1 \in DOMAIN s /\ Tail(s)[i] = s[i + 1]
         /\ \A i \in DOMAIN s : i = 1 \/ (i - 1 \in DOMAIN Tail(s) /\ s[i] = Tail(s)[i - 1])
<1>1. PICK t, n : t = Tail(s) /\ n = Len(s)
  OBVIOUS
<1>2. n \in Nat /\ n # 0 /\ DOMAIN s = 1..n
  BY <1>1, EmptySeq
<1>3. /\ Head(s) \in S /\ t \in Seq(S) /\ Len(t) = n - 1
      /\ \A i \in 1..Len(t) : t[i] = s[i + 1]
  BY <1>1, HeadTailProperties
<1>4. DOMAIN t = 1..(n - 1)
  BY <1>2, <1>3
<1>5. \A i \in 1..(n - 1) : i + 1 \in 1..n
  BY <1>2
<1>6. \A i \in 1..n : i = 1 \/ (i - 1 \in 1..(n - 1) /\ (i - 1) + 1 = i)
  BY <1>2
<1>7. \A i \in 1..n : i = 1 \/ (i - 1 \in 1..(n - 1) /\ s[i] = t[i - 1])
  BY <1>3, <1>6
<1>8. Head(s) = s[1] /\ 1 \in 1..n
  BY <1>2
<1> QED
  BY <1>1, <1>2, <1>3, <1>4, <1>5, <1>7, <1>8

LEMMA PushGood ==
  ASSUME NEW p, NEW s, NEW comp, NEW known, NoInsert(p), GoodStack(s, comp, known)
  PROVE  GoodStack(p \o s, comp, known)
<1>1. p \in Seq(Calls) /\ s \in Seq(Calls)
  BY DEF NoInsert, GoodStack
<1>2. PICK t : t = p \o s
  OBVIOUS
<1>3. /\ t \in Seq(Calls) /\ Len(t) = Len(p) + Len(s) /\ Len(p) \in Nat /\ Len(s) \in Nat
      /\ \A i \in DOMAIN t :
           \/ i \in DOMAIN p /\ t[i] = p[i]
           \/ i - Len(p) \in DOMAIN s /\ i \notin DOMAIN p /\ t[i] = s[i - Len(p)]
      /\ DOMAIN t = 1..(Len(p) + Len(s))
  BY <1>1, <1>2, ConcatFacts
<1>4. ASSUME NEW i \in DOMAIN t, t[i].op = "insert"
      PROVE  i = Len(t) /\ comp[t[i].c] = {} /\ t[i].c \in known
  <2>1. i \notin DOMAIN p \/ t[i] # p[i]
    BY <1>4 DEF NoInsert
  <2>2. PICK k : k = i - Len(p)
    OBVIOUS
  <2>3. k \in DOMAIN s /\ t[i] = s[k]
    BY <2>1, <2>2, <1>3
  <2>4. k = Len(s) /\ comp[t[i].c] = {} /\ t[i].c \in known
    BY <2>3, <1>4 DEF GoodStack
  <2>5. i \in Nat
    BY <1>3
  <2> QED
    BY <2>2, <2>4, <2>5, <1>3
<1> QED
  BY <1>2, <1>3, <1>4 DEF GoodStack

LEMMA PopGood ==
  ASSUME NEW s, s # <<>>, NEW comp, NEW known, GoodStack(s, comp, known)
  PROVE  /\ Head(s) \in Calls /\ GoodStack(Tail(s), comp, known)
         /\ Head(s).op = "insert" =>
              Tail(s) = <<>> /\ comp[Head(s).c] = {} /\ Head(s).c \in known
<1>1. PICK t, n : t = Tail(s) /\ n = Len(s)
  OBVIOUS
<1>2. /\ s \in Seq(Calls) /\ Head(s) \in Calls /\ Head(s) = s[1] /\ 1 \in DOMAIN s
      /\ t \in Seq(Calls) /\ Len(t) = n - 1 /\ n \in Nat
      /\ \A i \in DOMAIN t : i + 1 \in DOMAIN s /\ t[i] = s[i + 1]
      /\ DOMAIN t = 1..(n - 1)
  BY <1>1, TailFacts DEF GoodStack
<1>3. ASSUME NEW i \in DOMAIN t, t[i].op = "insert"
      PROVE  i = Len(t) /\ comp[t[i].c] = {} /\ t[i].c \in known
  <2>1. i + 1 = n /\ comp[t[i].c] = {} /\ t[i].c \in known
    BY <1>1, <1>2, <1>3 DEF GoodStack
  <2>2. i \in Nat
    BY <1>2
  <2> QED
    BY <2>1, <2>2, <1>2
<1>4. GoodStack(t, comp, known)
  BY <1>2, <1>3 DEF GoodStack
<1>5. ASSUME Head(s).op = "insert"
      PROVE  t = <<>> /\ comp[Head(s).c] = {} /\ Head(s).c \in known
  <2>1. 1 = n /\ comp[Head(s).c] = {} /\ Head(s).c \in known
    BY <1>1, <1>2, <1>5 DEF GoodStack
  <2>2. Len(t) = 0
    BY <2>1, <1>2
  <2> QED
    BY <2>1, <2>2, <1>2, EmptySeq
<1> QED
  BY <1>1, <1>2, <1>4, <1>5

LEMMA EmptyGood ==
  ASSUME NEW comp, NEW known
  PROVE  GoodStack(<<>>, comp, known) /\ NoInsert(<<>>)
<1>1. <<>> \in Seq(Calls) /\ DOMAIN <<>> = {}
  OBVIOUS
<1> QED
  BY <1>1 DEF GoodStack, NoInsert

LEMMA OneNoInsert ==
  ASSUME NEW f \in Calls, f.op # "insert"
  PROVE  NoInsert(<<f>>)
<1>1. <<f>> \in Seq(Calls) /\ DOMAIN <<f>> = 1..1 /\ <<f>>[1] = f
  OBVIOUS
<1>2. \A i \in 1..1 : i = 1
  OBVIOUS
<1> QED
  BY <1>1, <1>2 DEF NoInsert

LEMMA ConcatNoInsert ==
  ASSUME NEW p, NEW q, NoInsert(p), NoInsert(q)
  PROVE  NoInsert(p \o q)
<1>1. p \in Seq(Calls) /\ q \in Seq(Calls)
  BY DEF NoInsert
<1> QED
  BY <1>1, ConcatFacts DEF NoInsert

LEMMA OneGood ==
  ASSUME NEW f \in Calls, NEW comp, NEW known,
         f.op = "insert" => comp[f.c] = {} /\ f.c \in known
  PROVE  GoodStack(<<f>>, comp, known)
<1>1. <<f>> \in Seq(Calls) /\ DOMAIN <<f>> = 1..1 /\ <<f>>[1] = f /\ Len(<<f>>) = 1
  OBVIOUS
<1>2. \A i \in 1..1 : i = 1
  OBVIOUS
<1> QED
  BY <1>1, <1>2 DEF GoodStack

LEMMA ReplaceGood ==
  ASSUME NEW s, s # <<>>, NEW comp, NEW known, GoodStack(s, comp, known),
         NEW f \in Calls, f.op # "insert"
  PROVE  GoodStack(<<f>> \o Tail(s), comp, known)
  BY PopGood, OneNoInsert, PushGood

\* One call for each lambda of a set.
IsForEach(p, hook, A) ==
  /\ NoInsert(p)
  /\ \A i \in DOMAIN p : p[i] = LambdaCall(hook, p[i].l) /\ p[i].l \in A /\ p[i].op = hook
  /\ \A i, j \in DOMAIN p : p[i].l = p[j].l => i = j
  /\ \A l \in A : \E i \in DOMAIN p : p[i].l = l

LEMMA ForEachFacts ==
  ASSUME NEW hook \in LambdaOps, NEW A \in SUBSET Lambdas
  PROVE  IsForEach(ForEach(hook, A), hook, A)
<1>1. PICK order : order = Sorted(A)
  OBVIOUS
<1>2. A \in SUBSET Nat /\ IsFiniteSet(A)
  BY EndsAssumption, FS_Subset
<1>3. /\ DOMAIN order = 1..Len(order) /\ Len(order) \in Nat
      /\ \A i \in DOMAIN order : order[i] \in A
      /\ \A i, j \in DOMAIN order : order[i] = order[j] => i = j
      /\ \A x \in A : \E i \in DOMAIN order : order[i] = x
  BY <1>1, <1>2, SortedFacts
<1>4. PICK p : p = ForEach(hook, A)
  OBVIOUS
<1>5. p = [i \in DOMAIN order |-> LambdaCall(hook, order[i])]
  BY <1>1, <1>4 DEF ForEach, LambdaCall
<1>6. \A l \in Lambdas : /\ LambdaCall(hook, l) \in Calls /\ LambdaCall(hook, l).l = l
                         /\ LambdaCall(hook, l).op = hook /\ hook # "insert"
  BY CallTypes DEF LambdaCall, LambdaOps
<1>7. \A i \in 1..Len(order) : /\ p[i] = LambdaCall(hook, order[i]) /\ p[i] \in Calls
                               /\ p[i].l = order[i] /\ p[i].op = hook /\ hook # "insert"
  BY <1>3, <1>5, <1>6
<1>8. p \in [1..Len(order) -> Calls]
  BY <1>3, <1>5, <1>7
<1>9. p \in Seq(Calls) /\ DOMAIN p = 1..Len(order)
  BY <1>3, <1>8
<1> QED
  BY <1>3, <1>4, <1>7, <1>9 DEF IsForEach, NoInsert

-----------------------------------------------------------------------------
(***************************************************************************)
(* The state is well formed, and theClosest is not stale.                  *)
(***************************************************************************)
\* What the controller knows of the computers.
Known(comp, lam, known) ==
  /\ comp \in [Computers -> SUBSET Lambdas]
  /\ lam = [l \in Lambdas |-> {c \in Computers : l \in comp[c]}]
  /\ \A c \in Computers : comp[c] # {} => c \in known

\* What it knows of the routers, and the tables of these.
Located(where, list) == where = [a \in Addresses |-> {r \in list : address[r] = a}]
RoutersType ==
  /\ alive \in BOOLEAN /\ routers \in SUBSET Routers
  /\ kind = "hier" /\ alive => routers \subseteq ft /\ ft \subseteq Routers /\ Located(addresses, ft)
  /\ announced \in [Routers -> [Lambdas -> SUBSET Computers]]
TablesType ==
  /\ session \in [Routers -> {"down", "starting", "running"}]
  /\ rows \in [Routers -> SUBSET Rows]

\* theClosest is not stale.
Remembered ==
  \A a \in DOMAIN closest :
    LET known == RouterAddresses(addresses)
    IN /\ a \in DOMAIN Topology /\ known # {} /\ known \subseteq DOMAIN Topology \cap Nat
       /\ closest[a] = Closest(Topology, deployment.objective, known, a)

CoreInv ==
  /\ deployment \in Deployments
  /\ Known(computers, lambdas, deployment.computers)
  /\ RoutersType /\ TablesType
  /\ DOMAIN closest \in SUBSET Addresses /\ Remembered
  /\ GoodStack(stack, computers, deployment.computers)

LEMMA CoreTypes ==
  ASSUME CoreInv, purged \in [Routers -> SUBSET Rows]
  PROVE  TypeOK
  BY DEF CoreInv, TypeOK, Known, RoutersType, Located, TablesType, GoodStack, Remembered

LEMMA DeploymentFacts ==
  ASSUME deployment \in Deployments
  PROVE  /\ kind \in {"flat", "hier", "etsi"} /\ deployment.computers \in SUBSET Computers
         /\ \A set \in deployment.offers : set \in ContainerLists
  BY EndsAssumption DEF kind

LEMMA ContainerListFacts ==
  ASSUME NEW set \in ContainerLists
  PROVE  set \in SUBSET Lambdas /\ set # {}
  BY DEF ContainerLists

LEMMA FinalRowsType ==
  ASSUME NEW c \in Computers, NEW set \in SUBSET Lambdas
  PROVE  FinalRows(c, set) \in SUBSET Rows
<1>1. ASSUME NEW l \in set PROVE Row(l, c, TRUE) \in Rows
  BY DEF Row, Rows, Ends
<1> QED
  BY <1>1 DEF FinalRows

LEMMA RouterRowsType ==
  ASSUME NEW r \in Routers, NEW set \in SUBSET Lambdas
  PROVE  {Row(l, r, FALSE) : l \in set} \in SUBSET Rows
<1>1. r \notin Computers
  BY EndsAssumption
<1>2. ASSUME NEW l \in set PROVE Row(l, r, FALSE) \in Rows
  BY <1>1 DEF Row, Rows, Ends
<1> QED
  BY <1>2

LEMMA OfferedType ==
  ASSUME computers \in [Computers -> SUBSET Lambdas]
  PROVE  Offered \in SUBSET Rows
  BY FinalRowsType DEF Offered

\* The hooks of an insertion and of a withdrawal.
LEMMA HooksNoInsert ==
  ASSUME NEW hook \in LambdaOps, NEW A \in SUBSET Lambdas,
         NEW op \in ComputerOps \ {"insert"}, NEW c \in Computers, NEW set \in ContainerLists
  PROVE  NoInsert(Hooks(ForEach(hook, A) \o <<ComputerCall(op, c, set)>>))
<1>1. NoInsert(ForEach(hook, A))
  BY ForEachFacts DEF IsForEach
<1>2. ComputerCall(op, c, set) \in Calls /\ ComputerCall(op, c, set).op # "insert"
  BY CallTypes
<1>3. NoInsert(<<ComputerCall(op, c, set)>>)
  BY <1>2, OneNoInsert
<1>4. NoInsert(ForEach(hook, A) \o <<ComputerCall(op, c, set)>>)
  BY <1>1, <1>3, ConcatNoInsert
<1> QED
  BY <1>4, EmptyGood DEF Hooks

LEMMA InsertKnown ==
  ASSUME NEW known, Known(computers, lambdas, known),
         NEW c \in Computers, computers[c] = {}, c \in known, NEW set \in ContainerLists,
         Insert(c, set, <<>>)
  PROVE  Known(computers', lambdas', known) /\ GoodStack(stack', computers', known)
<1>1. set \in SUBSET Lambdas
  BY ContainerListFacts
<1>2. /\ computers \in [Computers -> SUBSET Lambdas]
      /\ lambdas = [l \in Lambdas |-> {x \in Computers : l \in computers[x]}]
      /\ \A x \in Computers : computers[x] # {} => x \in known
  BY DEF Known
<1>3. /\ computers' = [computers EXCEPT ![c] = set]
      /\ lambdas' = [l \in Lambdas |-> IF l \in set THEN lambdas[l] \cup {c} ELSE lambdas[l]]
  BY DEF Insert
<1>4. computers' \in [Computers -> SUBSET Lambdas]
  BY <1>1, <1>2, <1>3
<1>5. \A x \in Computers : computers'[x] # {} => x \in known
  BY <1>2, <1>3
<1>6. \A l \in Lambdas : (IF l \in set THEN lambdas[l] \cup {c} ELSE lambdas[l])
                           = {x \in Computers : l \in computers'[x]}
  BY <1>2, <1>3
<1>7. Known(computers', lambdas', known)
  BY <1>3, <1>4, <1>5, <1>6 DEF Known
<1> DEFINE A == {l \in set : lambdas[l] = {}}
           H == Hooks(ForEach("addLambda", A) \o <<ComputerCall("addComputer", c, set)>>)
<1>8. stack' = H \o <<AnnounceCall(c)>> \o <<>>
  BY DEF Insert, ComputerCall, AnnounceCall
<1>9. NoInsert(H)
  <2>1. A \in SUBSET Lambdas
    BY <1>1
  <2> HIDE DEF A
  <2> QED
    BY <2>1, HooksNoInsert DEF LambdaOps, ComputerOps
<1> HIDE DEF H
<1>10. NoInsert(H \o <<AnnounceCall(c)>>)
  BY <1>9, CallTypes, OneNoInsert, ConcatNoInsert
<1>11. GoodStack(stack', computers', known)
  BY <1>8, <1>10, EmptyGood, PushGood
<1> QED
  BY <1>7, <1>11

LEMMA WithdrawKnown ==
  ASSUME NEW known, Known(computers, lambdas, known),
         NEW c \in Computers, computers[c] # {},
         NEW after, GoodStack(after, [computers EXCEPT ![c] = {}], known), Withdraw(c, after)
  PROVE  Known(computers', lambdas', known) /\ GoodStack(stack', computers', known)
<1>1. /\ computers \in [Computers -> SUBSET Lambdas]
      /\ lambdas = [l \in Lambdas |-> {x \in Computers : l \in computers[x]}]
      /\ \A x \in Computers : computers[x] # {} => x \in known
  BY DEF Known
<1>2. PICK set : set = computers[c]
  OBVIOUS
<1>3. set \in ContainerLists /\ set \in SUBSET Lambdas
  BY <1>1, <1>2 DEF ContainerLists
<1>4. /\ computers' = [computers EXCEPT ![c] = {}]
      /\ lambdas' = [l \in Lambdas |-> lambdas[l] \ {c}]
  BY DEF Withdraw
<1>5. computers' \in [Computers -> SUBSET Lambdas]
  BY <1>1, <1>4
<1>6. \A x \in Computers : computers'[x] # {} => x \in known
  BY <1>1, <1>4
<1>7. \A l \in Lambdas : lambdas[l] \ {c} = {x \in Computers : l \in computers'[x]}
  BY <1>1, <1>4
<1>8. Known(computers', lambdas', known)
  BY <1>4, <1>5, <1>6, <1>7 DEF Known
<1> DEFINE A == {l \in set : lambdas[l] = {c}}
           H == Hooks(ForEach("delLambda", A) \o <<ComputerCall("delComputer", c, set)>>)
           w == ComputerCall("withdraw", c, set)
<1>9. stack' = H \o <<w>> \o after
  BY <1>2 DEF Withdraw, ComputerCall
<1>10. NoInsert(H)
  <2>1. A \in SUBSET Lambdas
    BY <1>3
  <2> HIDE DEF A
  <2> QED
    BY <2>1, <1>3, HooksNoInsert DEF LambdaOps, ComputerOps
<1>11. w \in Calls /\ w.op # "insert"
  BY <1>3, CallTypes DEF ComputerOps
<1> HIDE DEF H, w
<1>12. NoInsert(H \o <<w>>)
  BY <1>10, <1>11, OneNoInsert, ConcatNoInsert
<1>13. GoodStack(stack', computers', known)
  BY <1>4, <1>9, <1>12, PushGood
<1> QED
  BY <1>8, <1>13

\* Steps that leave parts of the state alone.
LEMMA SameRouters ==
  ASSUME RoutersType, UNCHANGED <<deployment, alive, routers, addresses, ft, announced>>
  PROVE  RoutersType'
  BY DEF RoutersType, kind, Located

LEMMA SameTables ==
  ASSUME TablesType, UNCHANGED <<session, rows>>
  PROVE  TablesType'
  BY DEF TablesType

LEMMA SameClosest ==
  ASSUME DOMAIN closest \in SUBSET Addresses, Remembered,
         UNCHANGED <<deployment, addresses, closest>>
  PROVE  (DOMAIN closest)' \in SUBSET Addresses /\ Remembered'
<1>1. RouterAddresses(addresses)' = RouterAddresses(addresses)
  BY DEF RouterAddresses
<1> QED
  BY <1>1 DEF Remembered

LEMMA CoreOfParts ==
  ASSUME CoreInv, UNCHANGED deployment,
         Known(computers', lambdas', deployment.computers), RoutersType', TablesType',
         (DOMAIN closest)' \in SUBSET Addresses, Remembered',
         GoodStack(stack', computers', deployment.computers)
  PROVE  CoreInv'
  BY DEF CoreInv

\* A step of the handler that changes the stack only.
LEMMA CoreOfStack ==
  ASSUME CoreInv, UNCHANGED <<deployment, alive, base, addresses, closest, ft, announced, network>>,
         GoodStack(stack', computers', deployment.computers)
  PROVE  CoreInv'
<1>1. UNCHANGED <<deployment, alive, computers, lambdas, routers, addresses, closest, ft, announced,
                  session, rows>>
  BY DEF base, network
<1>2. /\ deployment \in Deployments /\ RoutersType /\ TablesType
      /\ DOMAIN closest \in SUBSET Addresses /\ Remembered
      /\ Known(computers, lambdas, deployment.computers)
  BY DEF CoreInv
<1>3. RoutersType' /\ TablesType'
  BY <1>1, <1>2, SameRouters, SameTables
<1>4. (DOMAIN closest)' \in SUBSET Addresses /\ Remembered'
  BY <1>1, <1>2, SameClosest
<1>5. Known(computers', lambdas', deployment.computers)
  BY <1>1, <1>2
<1> QED
  BY <1>1, <1>3, <1>4, <1>5, CoreOfParts

\* The stack is left alone.
LEMMA CoreSameStack ==
  ASSUME CoreInv, UNCHANGED <<deployment, alive, base, hier, stack>>, TablesType'
  PROVE  CoreInv'
<1>1. UNCHANGED <<deployment, alive, computers, lambdas, routers, addresses, closest, ft, announced,
                  stack>>
  BY DEF base, hier
<1>2. /\ deployment \in Deployments /\ RoutersType
      /\ DOMAIN closest \in SUBSET Addresses /\ Remembered
      /\ Known(computers, lambdas, deployment.computers)
      /\ GoodStack(stack, computers, deployment.computers)
  BY DEF CoreInv
<1>3. RoutersType'
  BY <1>1, <1>2, SameRouters
<1>4. (DOMAIN closest)' \in SUBSET Addresses /\ Remembered'
  BY <1>1, <1>2, SameClosest
<1>5. /\ Known(computers', lambdas', deployment.computers)
      /\ GoodStack(stack', computers', deployment.computers)
  BY <1>1, <1>2
<1> QED
  BY <1>1, <1>3, <1>4, <1>5, CoreOfParts

\* An insertion or a withdrawal.
LEMMA CoreOfKnown ==
  ASSUME CoreInv, UNCHANGED <<deployment, alive, routers, hier>>, TablesType',
         Known(computers', lambdas', deployment.computers),
         GoodStack(stack', computers', deployment.computers)
  PROVE  CoreInv'
<1>1. UNCHANGED <<deployment, alive, routers, addresses, closest, ft, announced>>
  BY DEF hier
<1>2. /\ RoutersType /\ DOMAIN closest \in SUBSET Addresses /\ Remembered
  BY DEF CoreInv
<1>3. RoutersType'
  BY <1>1, <1>2, SameRouters
<1>4. (DOMAIN closest)' \in SUBSET Addresses /\ Remembered'
  BY <1>1, <1>2, SameClosest
<1> QED
  BY <1>1, <1>3, <1>4, CoreOfParts

LEMMA CoreAnnounceComputer ==
  ASSUME CoreInv, NEW c \in Computers, NEW set, announceComputer(c, set)
  PROVE  CoreInv'
<1>1. /\ c \in deployment.computers /\ set \in ContainerLists
      /\ UNCHANGED <<deployment, alive, routers, hier, session, rows>>
  BY DeploymentFacts DEF announceComputer, CoreInv, network
<1>2. Known(computers, lambdas, deployment.computers) /\ TablesType
  BY DEF CoreInv
<1>3. TablesType'
  BY <1>1, <1>2, SameTables
<1>4. CASE computers[c] = {} /\ Insert(c, set, <<>>)
  BY <1>1, <1>2, <1>3, <1>4, InsertKnown, CoreOfKnown
<1>5. CASE computers[c] # {} /\ Withdraw(c, <<ComputerCall("insert", c, set)>>)
  <2>1. PICK f : f = ComputerCall("insert", c, set)
    OBVIOUS
  <2>2. f \in Calls /\ f.c = c
    BY <2>1, <1>1, CallTypes DEF ComputerOps, ComputerCall
  <2>3. PICK comp : comp = [computers EXCEPT ![c] = {}]
    OBVIOUS
  <2>4. comp[c] = {}
    BY <2>3, <1>2 DEF Known
  <2>5. GoodStack(<<f>>, comp, deployment.computers)
    BY <2>2, <2>4, <1>1, OneGood
  <2>6. /\ Known(computers', lambdas', deployment.computers)
        /\ GoodStack(stack', computers', deployment.computers)
    BY <2>1, <2>3, <2>5, <1>2, <1>5, WithdrawKnown
  <2> QED
    BY <2>6, <1>1, <1>3, CoreOfKnown
<1>6. \/ computers[c] = {} /\ Insert(c, set, <<>>)
      \/ computers[c] # {} /\ Withdraw(c, <<ComputerCall("insert", c, set)>>)
  BY DEF announceComputer, AddStatus, ComputerCall
<1> QED
  BY <1>4, <1>5, <1>6

LEMMA CoreRemoveComputer ==
  ASSUME CoreInv, NEW c \in Computers, removeComputer(c)
  PROVE  CoreInv'
<1>1. /\ computers[c] # {} /\ Withdraw(c, <<>>)
      /\ UNCHANGED <<deployment, alive, routers, hier, session, rows>>
  BY DEF removeComputer, network
<1>2. Known(computers, lambdas, deployment.computers) /\ TablesType
  BY DEF CoreInv
<1>3. /\ Known(computers', lambdas', deployment.computers)
      /\ GoodStack(stack', computers', deployment.computers)
  BY <1>1, <1>2, EmptyGood, WithdrawKnown
<1>4. TablesType'
  BY <1>1, <1>2, SameTables
<1> QED
  BY <1>1, <1>3, <1>4, CoreOfKnown

LEMMA CoreNetwork ==
  ASSUME CoreInv, NEW r \in Routers, Crash(r) \/ Start(r) \/ \E x \in rows[r] : Purge(r, x)
  PROVE  CoreInv'
<1>1. UNCHANGED <<deployment, alive, base, hier, stack>>
  BY DEF Crash, Start, Purge
<1>2. TablesType'
  BY DEF TablesType, CoreInv, Crash, Start, Purge
<1> QED
  BY <1>1, <1>2, CoreSameStack

LEMMA CoreProxy ==
  ASSUME CoreInv, optimizeTask \/ \E k \in DOMAIN ContextOf : CreateContext(k) \/ DeleteContext(k)
  PROVE  CoreInv'
<1>1. UNCHANGED <<deployment, alive, base, hier, stack>> /\ UNCHANGED <<session, rows>>
  BY DEF optimizeTask, CreateContext, DeleteContext, network
<1>2. TablesType'
  BY <1>1, SameTables DEF CoreInv
<1> QED
  BY <1>1, <1>2, CoreSameStack

LEMMA CoreHook ==
  ASSUME CoreInv, Hook
  PROVE  CoreInv'
<1>1. UNCHANGED <<deployment, alive, base, addresses, closest, ft, announced, network>>
  BY DEF Hook, hier
<1>2. GoodStack(stack, computers, deployment.computers) /\ stack # <<>> /\ stack' = Tail(stack)
  BY DEF CoreInv, Hook
<1>3. GoodStack(stack', computers', deployment.computers)
  BY <1>1, <1>2, PopGood DEF base
<1> QED
  BY <1>1, <1>3, CoreOfStack

LEMMA CoreAddAgain ==
  ASSUME CoreInv, AddAgain
  PROVE  CoreInv'
<1>1. PICK f : f = Head(stack)
  OBVIOUS
<1>2. /\ stack # <<>> /\ f.op = "insert" /\ Insert(f.c, f.set, Tail(stack))
      /\ UNCHANGED <<deployment, alive, routers, hier, session, rows>>
  BY <1>1 DEF AddAgain, Running, network
<1>3. /\ GoodStack(stack, computers, deployment.computers) /\ TablesType
      /\ Known(computers, lambdas, deployment.computers)
  BY DEF CoreInv
<1>4. /\ f \in Calls /\ Tail(stack) = <<>> /\ computers[f.c] = {}
      /\ f.c \in deployment.computers
  BY <1>1, <1>2, <1>3, PopGood
<1>5. f.c \in Computers /\ f.set \in ContainerLists
  BY <1>2, <1>4, CallFacts, CallOps DEF ComputerOps
<1>6. Insert(f.c, f.set, <<>>)
  BY <1>2, <1>4
<1>7. /\ Known(computers', lambdas', deployment.computers)
      /\ GoodStack(stack', computers', deployment.computers)
  BY <1>3, <1>4, <1>5, <1>6, InsertKnown
<1>8. TablesType'
  BY <1>2, <1>3, SameTables
<1> QED
  BY <1>2, <1>7, <1>8, CoreOfKnown

(***************************************************************************)
(* The loops over commands.                                                *)
(***************************************************************************)
LEMMA AppliedFacts ==
  ASSUME NEW cmd \in CommandType, NEW old \in SUBSET Rows
  PROVE  /\ Applied(cmd, old) \in SUBSET Rows
         /\ cmd.what = "change" => Applied(cmd, old) = old \cup cmd.rows
         /\ cmd.what = "remove" => Applied(cmd, old) = old \ cmd.rows
         /\ cmd.what = "flush" => Applied(cmd, old) = {}
<1>1. cmd.what \in {"change", "remove", "flush"} /\ cmd.rows \in SUBSET Rows
  BY DEF CommandType
<1>2. \A x, y \in Rows : <<x.l, x.d>> = <<y.l, y.d>> => x = y
  <2>1. \A x \in Rows : /\ x \in [l : Lambdas, d : Ends, final : BOOLEAN]
                        /\ x.final <=> x.d \in Computers
    BY DEF Rows
  <2> TAKE x, y \in Rows
  <2> HAVE <<x.l, x.d>> = <<y.l, y.d>>
  <2>2. x.l = y.l /\ x.d = y.d
    OBVIOUS
  <2>3. x.final = y.final
    BY <2>1, <2>2
  <2> QED
    BY <2>1, <2>2, <2>3
<1>3. {x \in old : \A y \in cmd.rows : <<x.l, x.d>> # <<y.l, y.d>>} = old \ cmd.rows
  <2>1. \A x \in old : (\A y \in cmd.rows : <<x.l, x.d>> # <<y.l, y.d>>) <=> x \notin cmd.rows
    <3> TAKE x \in old
    <3>1. x \in cmd.rows => ~ \A y \in cmd.rows : <<x.l, x.d>> # <<y.l, y.d>>
      OBVIOUS
    <3>2. ASSUME NEW y \in cmd.rows, <<x.l, x.d>> = <<y.l, y.d>> PROVE x \in cmd.rows
      BY <3>2, <1>1, <1>2
    <3> QED
      BY <3>1, <3>2
  <2> QED
    BY <2>1
<1>4. CASE cmd.what = "change"
  <2>1. Applied(cmd, old) = (old \ cmd.rows) \cup cmd.rows
    BY <1>3, <1>4 DEF Applied
  <2> QED
    BY <2>1, <1>1, <1>4
<1>5. CASE cmd.what = "remove"
  <2>1. Applied(cmd, old) = old \ cmd.rows
    BY <1>3, <1>5 DEF Applied
  <2> QED
    BY <2>1, <1>5
<1>6. CASE cmd.what = "flush"
  <2>1. Applied(cmd, old) = {}
    BY <1>6 DEF Applied
  <2> QED
    BY <2>1, <1>6
<1> QED
  BY <1>1, <1>4, <1>5, <1>6

\* The handler is in a loop: what is on top of the stack.
LEMMA TopCommands ==
  ASSUME CoreInv, Running("commands")
  PROVE  /\ stack # <<>> /\ GoodStack(stack, computers, deployment.computers)
         /\ Head(stack).list \in Seq(CommandType) /\ Head(stack).then \in ThenType
         /\ Head(stack) = Commands(Head(stack).list, Head(stack).then)
         /\ Head(stack).op = "commands"
<1>1. /\ stack # <<>> /\ Head(stack).op = "commands"
      /\ GoodStack(stack, computers, deployment.computers)
  BY DEF CoreInv, Running
<1>2. Head(stack) \in Calls
  BY <1>1, PopGood
<1> QED
  BY <1>1, <1>2, CallFacts, CallOps

LEMMA CommandsFields ==
  ASSUME NEW list, NEW then
  PROVE  /\ Commands(list, then).op = "commands" /\ Commands(list, then).list = list
         /\ Commands(list, then).then = then
  BY DEF Commands

LEMMA ListReplaced ==
  ASSUME NEW f, NEW list, NEW then, f = Commands(list, then)
  PROVE  [f EXCEPT !.list = Tail(@)] = Commands(Tail(list), then)
<1> DEFINE g == [f EXCEPT !.list = Tail(@)]
           h == Commands(Tail(list), then)
<1>1. f.list = list
  BY DEF Commands
<1>2. /\ DOMAIN f = {"op", "list", "then"} /\ DOMAIN h = {"op", "list", "then"}
      /\ h["op"] = "commands" /\ h["list"] = Tail(list) /\ h["then"] = then
  BY DEF Commands
<1>3. g = [x \in DOMAIN f |-> IF x = "list" THEN Tail(f.list) ELSE f[x]]
  OBVIOUS
<1>4. g["op"] = "commands" /\ g["list"] = Tail(list) /\ g["then"] = then
  BY <1>1, <1>3 DEF Commands
<1> QED
  BY <1>2, <1>3, <1>4 DEF Commands

LEMMA NextCommand ==
  ASSUME CoreInv, Sending
  PROVE  LET f == Head(stack)
             rest == Commands(Tail(f.list), f.then)
         IN /\ Head(f.list) \in CommandType /\ Tail(f.list) \in Seq(CommandType)
            /\ [f EXCEPT !.list = Tail(@)] = rest
            /\ GoodStack(<<rest>> \o Tail(stack), computers, deployment.computers)
            /\ Head(<<rest>> \o Tail(stack)) = rest /\ Tail(<<rest>> \o Tail(stack)) = Tail(stack)
            /\ <<rest>> \o Tail(stack) # <<>>
<1>1. PICK f : f = Head(stack)
  OBVIOUS
<1>2. /\ stack # <<>> /\ GoodStack(stack, computers, deployment.computers)
      /\ f.list \in Seq(CommandType) /\ f.then \in ThenType
      /\ f = Commands(f.list, f.then) /\ f.list # <<>>
  BY <1>1, TopCommands DEF Sending
<1>3. Head(f.list) \in CommandType /\ Tail(f.list) \in Seq(CommandType)
  BY <1>2, HeadTailProperties
<1>4. PICK rest : rest = Commands(Tail(f.list), f.then)
  OBVIOUS
<1>5. rest \in Calls /\ rest.op = "commands"
  BY <1>2, <1>3, <1>4, CallTypes
<1>6. [f EXCEPT !.list = Tail(@)] = rest
  <2>1. PICK list, then : list = f.list /\ then = f.then
    OBVIOUS
  <2>2. f = Commands(list, then)
    BY <1>2, <2>1
  <2>3. [f EXCEPT !.list = Tail(@)] = Commands(Tail(list), then)
    BY <2>2, ListReplaced, Zenon
  <2>4. Commands(Tail(list), then) = rest
    BY <2>1, <1>4
  <2> QED
    BY <2>3, <2>4, Zenon
<1>7. GoodStack(<<rest>> \o Tail(stack), computers, deployment.computers)
  BY <1>2, <1>5, ReplaceGood
<1>8. /\ Head(<<rest>> \o Tail(stack)) = rest /\ Tail(<<rest>> \o Tail(stack)) = Tail(stack)
      /\ <<rest>> \o Tail(stack) # <<>>
  BY <1>2, <1>5, ReplaceFirst DEF GoodStack
<1> QED
  BY <1>1, <1>3, <1>4, <1>6, <1>7, <1>8

LEMMA CoreCommandSucceeds ==
  ASSUME CoreInv, CommandSucceeds
  PROVE  CoreInv'
<1>1. PICK f, cmd : f = Head(stack) /\ cmd = Head(f.list)
  OBVIOUS
<1>2. /\ Sending /\ UNCHANGED <<deployment, alive, base, hier, session>>
      /\ rows' = [rows EXCEPT ![cmd.router] = Applied(cmd, @)]
      /\ stack' = <<[f EXCEPT !.list = Tail(@)]>> \o Tail(stack)
  BY <1>1 DEF CommandSucceeds
<1>3. cmd \in CommandType /\ GoodStack(stack', computers, deployment.computers)
  BY <1>1, <1>2, NextCommand
<1>4. TablesType
  BY DEF CoreInv
<1>5. cmd.router \in Routers /\ rows[cmd.router] \in SUBSET Rows
  BY <1>3, <1>4 DEF CommandType, TablesType
<1>6. Applied(cmd, rows[cmd.router]) \in SUBSET Rows
  BY <1>3, <1>5, AppliedFacts
<1>7. TablesType'
  BY <1>2, <1>4, <1>5, <1>6 DEF TablesType
<1>8. /\ Known(computers', lambdas', deployment.computers) /\ UNCHANGED <<routers, hier>>
      /\ computers' = computers
  BY <1>2 DEF base, CoreInv
<1> QED
  BY <1>2, <1>3, <1>7, <1>8, CoreOfKnown

(***************************************************************************)
(* Home routers.                                                           *)
(***************************************************************************)
LEMMA AddressFacts ==
  ASSUME NEW e \in Ends
  PROVE  address[e] \in Addresses /\ address[e] \in Nat
  BY EndsAssumption DEF Addresses

LEMMA LocatedFacts ==
  ASSUME NEW where, NEW list \in SUBSET Routers, Located(where, list)
  PROVE  /\ DOMAIN where = Addresses
         /\ RouterAddresses(where) = {address[r] : r \in list}
         /\ RouterAddresses(where) \in SUBSET Addresses /\ RouterAddresses(where) \in SUBSET Nat
         /\ RouterAddresses(where) = {} <=> list = {}
         /\ \A a \in RouterAddresses(where) : where[a] \in SUBSET list /\ where[a] # {}
<1>1. \A r \in list : address[r] \in Addresses /\ address[r] \in Nat
  BY AddressFacts DEF Ends
<1>2. DOMAIN where = Addresses /\ \A a \in Addresses : where[a] = {r \in list : address[r] = a}
  BY DEF Located
<1>3. RouterAddresses(where) = {address[r] : r \in list}
  BY <1>1, <1>2 DEF RouterAddresses
<1>4. \A a \in RouterAddresses(where) : where[a] \in SUBSET list /\ where[a] # {}
  BY <1>2 DEF RouterAddresses
<1>5. RouterAddresses(where) \in SUBSET Addresses /\ RouterAddresses(where) \in SUBSET Nat
  BY <1>1, <1>3
<1>6. RouterAddresses(where) = {} <=> list = {}
  BY <1>3
<1> QED
  BY <1>2, <1>3, <1>4, <1>5, <1>6

LEMMA RelocateFacts ==
  ASSUME DOMAIN closest \in SUBSET Addresses, Remembered, UNCHANGED deployment,
         NEW where, Relocate(where)
  PROVE  /\ (DOMAIN closest)' \in SUBSET Addresses /\ Remembered' /\ addresses' = where
<1>1. addresses' = where
  BY DEF Relocate
<1>2. CASE RouterAddresses(where) = RouterAddresses(addresses)
  <2>1. closest' = closest /\ RouterAddresses(addresses)' = RouterAddresses(addresses)
    BY <1>1, <1>2 DEF Relocate
  <2> QED
    BY <1>1, <2>1 DEF Remembered
<1>3. CASE RouterAddresses(where) # RouterAddresses(addresses)
  <2>1. closest' = <<>>
    BY <1>3 DEF Relocate
  <2>2. DOMAIN <<>> = {}
    OBVIOUS
  <2>3. (DOMAIN closest)' = {}
    BY <2>1, <2>2
  <2> QED
    BY <1>1, <2>3 DEF Remembered
<1> QED
  BY <1>2, <1>3

LEMMA FindClosestFacts ==
  ASSUME CoreInv, alive, kind = "hier", NEW a \in Addresses,
         RouterAddresses(addresses) # {}, ~ Throws(a)
  PROVE  LET known == RouterAddresses(addresses)
         IN /\ a \in DOMAIN Topology /\ known \subseteq DOMAIN Topology \cap Nat
            /\ findClosest(a) = Closest(Topology, deployment.objective, known, a)
            /\ findClosest(a) \in known
            /\ routerEndpoints(findClosest(a)) \in SUBSET ft
<1>1. PICK R : R = RouterAddresses(addresses)
  OBVIOUS
<1>2. Remembered /\ Located(addresses, ft) /\ ft \in SUBSET Routers
  BY DEF CoreInv, RoutersType
<1>3. R \in SUBSET Nat /\ \A x \in R : addresses[x] \in SUBSET ft
  BY <1>1, <1>2, LocatedFacts
<1>4. /\ a \in DOMAIN Topology /\ R \subseteq DOMAIN Topology \cap Nat
      /\ findClosest(a) = Closest(Topology, deployment.objective, R, a)
  <2>1. CASE a \in DOMAIN closest
    BY <2>1, <1>1, <1>2 DEF findClosest, Remembered
  <2>2. CASE a \notin DOMAIN closest
    BY <2>2, <1>1, <1>3 DEF Throws, InvalidNodes, findClosest
  <2> QED
    BY <2>1, <2>2
<1>5. findClosest(a) \in R
  BY <1>1, <1>4, ClosestFacts
<1> QED
  BY <1>1, <1>3, <1>4, <1>5 DEF routerEndpoints

LEMMA FirstHomeFacts ==
  ASSUME NEW c, NEW l, HomeOf(c, l) # {}
  PROVE  FirstHome(c, l) \in HomeOf(c, l) /\ FirstHome(c, l) \in Routers
<1>1. HomeOf(c, l) \in SUBSET Routers /\ HomeOf(c, l) \in SUBSET Nat
  BY EndsAssumption DEF HomeOf, Ends
<1>2. \E r \in HomeOf(c, l) : \A o \in HomeOf(c, l) : r <= o
  BY <1>1, NatMin
<1> QED
  BY <1>1, <1>2 DEF FirstHome

\* The commands of a removal: the first one goes to a lambda server.
Removal(list) == list \in Seq(CommandType) /\ (list # <<>> => list[1].to = "lambda-server")

LEMMA RemoveElemsFacts ==
  ASSUME NEW c \in Computers, NEW l \in Lambdas, ft \in SUBSET Routers
  PROVE  Removal(RemoveElems(c, l)) /\ (RemoveElems(c, l) = <<>> => HomeOf(c, l) = {})
<1>1. CASE HomeOf(c, l) = {}
  <2>1. RemoveElems(c, l) = <<>>
    BY <1>1 DEF RemoveElems
  <2>2. <<>> \in Seq(CommandType)
    OBVIOUS
  <2> QED
    BY <2>1, <2>2, <1>1 DEF Removal
<1>2. CASE HomeOf(c, l) # {}
  <2>1. PICK home : home = FirstHome(c, l)
    OBVIOUS
  <2>2. home \in Routers
    BY <2>1, <1>2, FirstHomeFacts
  <2>3. PICK cmd : cmd = [Command("remove", home, {Row(l, c, TRUE)}) EXCEPT !.to = "lambda-server"]
    OBVIOUS
  <2>4. {Row(l, c, TRUE)} \in SUBSET Rows
    BY DEF Row, Rows, Ends
  <2>5. cmd \in CommandType /\ cmd.to = "lambda-server"
    BY <2>2, <2>3, <2>4 DEF Command, CommandType
  <2>6. {Row(l, home, FALSE)} \in SUBSET Rows
    BY <2>2, EndsAssumption DEF Row, Rows, Ends
  <2>7. PICK others : others = IF announced[home][l] = {c}
                               THEN ToEach("remove", {Row(l, home, FALSE)}, ft \ {home}) ELSE <<>>
    OBVIOUS
  <2>8. others \in Seq(CommandType)
    <3>1. ToEach("remove", {Row(l, home, FALSE)}, ft \ {home}) \in Seq(CommandType)
      BY <2>6, ToEachFacts DEF IsLoop
    <3>2. <<>> \in Seq(CommandType)
      OBVIOUS
    <3> QED
      BY <2>7, <3>1, <3>2
  <2>9. RemoveElems(c, l) = <<cmd>> \o others
    BY <1>2, <2>1, <2>3, <2>7 DEF RemoveElems
  <2>10. <<cmd>> \in Seq(CommandType) /\ DOMAIN <<cmd>> = 1..1 /\ <<cmd>>[1] = cmd
    BY <2>5
  <2>11. PICK p, q : p = <<cmd>> /\ q = p \o others
    OBVIOUS
  <2>12. q \in Seq(CommandType) /\ 1 \in DOMAIN q /\ q[1] = cmd
    BY <2>8, <2>10, <2>11, ConcatFacts
  <2>13. q # <<>>
    BY <2>12
  <2> QED
    BY <2>5, <2>9, <2>11, <2>12, <2>13 DEF Removal
<1> QED
  BY <1>1, <1>2

LEMMA RemovalFacts ==
  ASSUME NEW c \in Computers, NEW set \in SUBSET Lambdas, ft \in SUBSET Routers,
         NEW order, order = Sorted(set), NEW list,
         list = FlattenSeq([i \in DOMAIN order |-> RemoveElems(c, order[i])])
  PROVE  Removal(list) /\ (list = <<>> => \A l \in set : HomeOf(c, l) = {})
<1>1. set \in SUBSET Nat /\ IsFiniteSet(set)
  BY EndsAssumption, FS_Subset
<1>2. /\ DOMAIN order = 1..Len(order) /\ Len(order) \in Nat
      /\ \A i \in DOMAIN order : order[i] \in set
      /\ \A x \in set : \E i \in DOMAIN order : order[i] = x
  BY <1>1, SortedFacts
<1>3. PICK seqs : seqs = [i \in DOMAIN order |-> RemoveElems(c, order[i])]
  OBVIOUS
<1>4. \A l \in set : Removal(RemoveElems(c, l)) /\ (RemoveElems(c, l) = <<>> => HomeOf(c, l) = {})
  BY RemoveElemsFacts
<1>5. \A i \in 1..Len(order) : Removal(seqs[i]) /\ (seqs[i] = <<>> => HomeOf(c, order[i]) = {})
  BY <1>2, <1>3, <1>4
<1>6. seqs \in [1..Len(order) -> Seq(CommandType)]
  BY <1>2, <1>3, <1>5 DEF Removal
<1>7. seqs \in Seq(Seq(CommandType)) /\ DOMAIN seqs = 1..Len(order)
  BY <1>2, <1>6
<1>8. Flat(list, seqs, CommandType)
  BY <1>3, <1>7, FlattenFacts
<1>9. Removal(list)
  BY <1>5, <1>7, <1>8 DEF Flat, Removal
<1>10. ASSUME list = <<>>, NEW l \in set PROVE HomeOf(c, l) = {}
  BY <1>2, <1>5, <1>7, <1>8, <1>10 DEF Flat
<1> QED
  BY <1>9, <1>10

LEMMA CorePrivateRemoveComputer ==
  ASSUME CoreInv, privateRemoveComputer
  PROVE  CoreInv'
<1>1. PICK f, c, set : f = Head(stack) /\ c = f.c /\ set = f.set
  OBVIOUS
<1>2. /\ stack # <<>> /\ alive /\ f.op = "withdraw"
      /\ GoodStack(stack, computers, deployment.computers)
      /\ UNCHANGED <<deployment, alive, base, addresses, closest, ft, network>>
  BY <1>1 DEF privateRemoveComputer, Running, CoreInv
<1>3. f \in Calls /\ GoodStack(Tail(stack), computers, deployment.computers)
  BY <1>1, <1>2, PopGood
<1>4. c \in Computers /\ set \in SUBSET Lambdas
  BY <1>1, <1>2, <1>3, CallFacts, CallOps, ContainerListFacts DEF ComputerOps
<1>5. /\ RoutersType /\ TablesType /\ DOMAIN closest \in SUBSET Addresses /\ Remembered
      /\ Known(computers, lambdas, deployment.computers)
  BY DEF CoreInv
<1>6. ASSUME NEW list \in Seq(CommandType), stack' = <<Commands(list, Done)>> \o Tail(stack)
      PROVE  GoodStack(stack', computers, deployment.computers)
  <2>1. Commands(list, Done) \in Calls /\ Commands(list, Done).op # "insert"
    BY CallTypes, ThenFacts
  <2> QED
    BY <2>1, <1>2, <1>6, ReplaceGood
<1>7. /\ announced' \in [Routers -> [Lambdas -> SUBSET Computers]]
      /\ GoodStack(stack', computers, deployment.computers)
  <2>1. CASE kind = "flat" /\ flat_privateRemoveComputer(c, set) /\ UNCHANGED announced
    <3>1. ToEach("remove", FinalRows(c, set), routers) \in Seq(CommandType)
      BY <1>4, <1>5, FinalRowsType, ToEachFacts DEF IsLoop, RoutersType
    <3> QED
      BY <3>1, <2>1, <1>5, <1>6 DEF flat_privateRemoveComputer, RoutersType
  <2>2. CASE kind = "hier" /\ hier_privateRemoveComputer(c, set)
    <3>1. PICK order, list : /\ order = Sorted(set)
                             /\ list = FlattenSeq([i \in DOMAIN order |-> RemoveElems(c, order[i])])
      OBVIOUS
    <3>2. stack' = <<Commands(list, Done)>> \o Tail(stack)
      BY <3>1, <2>2 DEF hier_privateRemoveComputer
    <3>3. ft \in SUBSET Routers
      BY <2>2, <1>2, <1>5 DEF RoutersType
    <3>4. list \in Seq(CommandType)
      BY <3>1, <3>3, <1>4, RemovalFacts DEF Removal
    <3>5. \A r \in Routers, l \in Lambdas : announced[r][l] \in SUBSET Computers
      BY <1>5 DEF RoutersType
    <3>6. announced' \in [Routers -> [Lambdas -> SUBSET Computers]]
      <4>1. announced' = [r \in Routers |-> [l \in Lambdas |->
              IF l \in set /\ HomeOf(c, l) # {} /\ r = FirstHome(c, l)
              THEN announced[r][l] \ {c} ELSE announced[r][l]]]
        BY <2>2 DEF hier_privateRemoveComputer
      <4> QED
        BY <4>1, <3>5
    <3> QED
      BY <3>2, <3>4, <3>6, <1>6
  <2>3. CASE kind = "etsi" /\ stack' = Tail(stack) /\ UNCHANGED announced
    BY <2>3, <1>3, <1>5 DEF RoutersType
  <2> QED
    BY <2>1, <2>2, <2>3, <1>1 DEF privateRemoveComputer
<1>8. RoutersType'
  BY <1>2, <1>5, <1>7 DEF RoutersType, kind, base
<1>9. TablesType' /\ (DOMAIN closest)' \in SUBSET Addresses /\ Remembered'
  BY <1>2, <1>5, SameTables, SameClosest DEF network
<1> QED
  BY <1>2, <1>5, <1>7, <1>8, <1>9, CoreOfParts DEF base

LEMMA CorePrivateAnnounceComputer ==
  ASSUME CoreInv, privateAnnounceComputer
  PROVE  CoreInv'
<1>1. PICK f, c : f = Head(stack) /\ c = f.c
  OBVIOUS
<1>2. /\ stack # <<>> /\ alive /\ f.op = "announce"
      /\ GoodStack(stack, computers, deployment.computers)
      /\ UNCHANGED <<deployment, alive, base, addresses, announced, ft, network>>
  BY <1>1 DEF privateAnnounceComputer, Running, CoreInv
<1>3. f \in Calls /\ GoodStack(Tail(stack), computers, deployment.computers)
  BY <1>1, <1>2, PopGood
<1>4. c \in Computers /\ address[c] \in Addresses
  BY <1>1, <1>2, <1>3, CallFacts, CallOps, AddressFacts DEF Ends
<1>5. /\ RoutersType /\ TablesType /\ DOMAIN closest \in SUBSET Addresses /\ Remembered
      /\ Known(computers, lambdas, deployment.computers)
  BY DEF CoreInv
<1>6. FinalRows(c, computers[c]) \in SUBSET Rows /\ routers \in SUBSET Routers
  BY <1>4, <1>5, FinalRowsType DEF Known, RoutersType
<1>7. ASSUME NEW list \in Seq(CommandType), NEW then \in ThenType,
             stack' = <<Commands(list, then)>> \o Tail(stack)
      PROVE  GoodStack(stack', computers, deployment.computers)
  <2>1. Commands(list, then) \in Calls /\ Commands(list, then).op # "insert"
    BY CallTypes
  <2> QED
    BY <2>1, <1>2, <1>7, ReplaceGood
<1>8. /\ (DOMAIN closest)' \in SUBSET Addresses /\ Remembered'
      /\ GoodStack(stack', computers, deployment.computers)
  <2>1. CASE kind = "flat" /\ flat_privateAnnounceComputer(c) /\ UNCHANGED closest
    <3>1. ToEach("change", FinalRows(c, computers[c]), routers) \in Seq(CommandType)
      BY <1>6, ToEachFacts DEF IsLoop
    <3>2. GoodStack(stack', computers, deployment.computers)
      BY <3>1, <2>1, <1>7, ThenFacts DEF flat_privateAnnounceComputer
    <3> QED
      BY <3>2, <2>1, <1>2, <1>5, SameClosest
  <2>2. CASE kind = "hier" /\ hier_privateAnnounceComputer(c)
    <3>1. CASE stack' = Tail(stack) /\ UNCHANGED closest
      BY <3>1, <1>2, <1>3, <1>5, SameClosest
    <3>2. CASE stack' = <<>> /\ UNCHANGED closest
      BY <3>2, <1>2, <1>5, SameClosest, EmptyGood
    <3>3. CASE /\ RouterAddresses(addresses) # {} /\ ~ Throws(address[c])
               /\ closest' = [x \in DOMAIN closest \cup {address[c]} |->
                                IF x = address[c] THEN findClosest(address[c]) ELSE closest[x]]
               /\ \E home \in routerEndpoints(findClosest(address[c])) :
                    stack' = <<Commands(IF home \in routers
                                        THEN ToEach("change", FinalRows(c, computers[c]), {home})
                                        ELSE <<>>,
                                        [op |-> "home", c |-> c, router |-> home])>> \o Tail(stack)
      <4>1. PICK a, to : a = address[c] /\ to = findClosest(a)
        OBVIOUS
      <4>2. /\ to = Closest(Topology, deployment.objective, RouterAddresses(addresses), a)
            /\ a \in DOMAIN Topology
            /\ RouterAddresses(addresses) \subseteq DOMAIN Topology \cap Nat
            /\ routerEndpoints(to) \in SUBSET ft /\ ft \in SUBSET Routers
        BY <4>1, <3>3, <2>2, <1>2, <1>4, <1>5, FindClosestFacts DEF RoutersType
      <4>3. PICK home \in routerEndpoints(to) :
              stack' = <<Commands(IF home \in routers
                                  THEN ToEach("change", FinalRows(c, computers[c]), {home})
                                  ELSE <<>>,
                                  [op |-> "home", c |-> c, router |-> home])>> \o Tail(stack)
        BY <3>3, <4>1
      <4>4. home \in Routers
        BY <4>2
      <4>5. /\ ToEach("change", FinalRows(c, computers[c]), {home}) \in Seq(CommandType)
            /\ <<>> \in Seq(CommandType)
        BY <4>4, <1>6, ToEachFacts DEF IsLoop
      <4>6. GoodStack(stack', computers, deployment.computers)
        BY <4>3, <4>4, <4>5, <1>4, <1>7, ThenFacts
      <4>7. closest' = [x \in DOMAIN closest \cup {a} |-> IF x = a THEN to ELSE closest[x]]
        BY <3>3, <4>1
      <4>8. /\ (DOMAIN closest)' = DOMAIN closest \cup {a} /\ closest'[a] = to
            /\ \A x \in DOMAIN closest : x # a => closest'[x] = closest[x]
        BY <4>7
      <4>9. RouterAddresses(addresses)' = RouterAddresses(addresses) /\ deployment' = deployment
        BY <1>2 DEF RouterAddresses
      <4>10. Remembered'
        BY <4>2, <4>8, <4>9, <3>3, <1>5 DEF Remembered
      <4> QED
        BY <4>1, <4>6, <4>8, <4>10, <1>4, <1>5
    <3> QED
      BY <3>1, <3>2, <3>3, <2>2 DEF hier_privateAnnounceComputer
  <2>3. CASE kind = "etsi" /\ stack' = Tail(stack) /\ UNCHANGED closest
    BY <2>3, <1>2, <1>3, <1>5, SameClosest
  <2> QED
    BY <2>1, <2>2, <2>3, <1>1 DEF privateAnnounceComputer
<1>9. RoutersType' /\ TablesType'
  BY <1>2, <1>5, SameRouters, SameTables DEF base, network
<1> QED
  BY <1>2, <1>5, <1>8, <1>9, CoreOfParts DEF base

(***************************************************************************)
(* Routers that are removed or announced.                                  *)
(***************************************************************************)
LEMMA LocatedMove ==
  ASSUME NEW where, NEW list \in SUBSET Routers, Located(where, list), NEW r \in Routers
  PROVE  /\ Located([where EXCEPT ![address[r]] = @ \ {r}], list \ {r})
         /\ Located([where EXCEPT ![address[r]] = @ \cup {r}], list \cup {r})
<1>1. where = [a \in Addresses |-> {x \in list : address[x] = a}]
  BY DEF Located
<1>2. address[r] \in Addresses
  BY AddressFacts DEF Ends
<1>3. [where EXCEPT ![address[r]] = @ \ {r}]
        = [a \in Addresses |-> {x \in list \ {r} : address[x] = a}]
  BY <1>1, <1>2
<1>4. [where EXCEPT ![address[r]] = @ \cup {r}]
        = [a \in Addresses |-> {x \in list \cup {r} : address[x] = a}]
  BY <1>1, <1>2
<1> QED
  BY <1>3, <1>4 DEF Located

\* A flush of all the tables of a list of routers.
LEMMA FlushCall ==
  ASSUME NEW whom \in SUBSET Routers
  PROVE  Flush(whom) \in Calls /\ Flush(whom).op = "commands"
<1>1. PICK list : Flush(whom) = Commands(list, [op |-> "rebuild"]) /\ IsLoop(list, "flush", {}, whom)
  BY FlushFacts
<1>2. list \in Seq(CommandType)
  BY <1>1 DEF IsLoop
<1> QED
  BY <1>1, <1>2, CallTypes, ThenFacts

LEMMA CoreCommandFails ==
  ASSUME CoreInv, CommandFails
  PROVE  CoreInv'
<1>1. PICK f, r : f = Head(stack) /\ r = Head(f.list).router
  OBVIOUS
<1>2. /\ Sending /\ alive /\ stack # <<>>
      /\ UNCHANGED <<deployment, computers, lambdas, announced, session, rows>>
      /\ routers' = routers \ {r}
  BY <1>1 DEF CommandFails, Sending, Running, network
<1>3. /\ RoutersType /\ TablesType /\ DOMAIN closest \in SUBSET Addresses /\ Remembered
      /\ Known(computers, lambdas, deployment.computers)
      /\ GoodStack(stack, computers, deployment.computers)
  BY DEF CoreInv
<1>4. r \in Routers
  BY <1>1, <1>2, NextCommand DEF CommandType
<1>5. routers' \in SUBSET Routers
  BY <1>2, <1>3 DEF RoutersType
<1>6. CASE /\ kind = "flat" /\ stack' = <<[f EXCEPT !.list = Tail(@)]>> \o Tail(stack)
           /\ UNCHANGED <<alive, addresses, closest, ft>>
  <2>1. GoodStack(stack', computers', deployment.computers)
    BY <1>1, <1>2, <1>6, NextCommand
  <2>2. RoutersType'
    BY <1>2, <1>3, <1>5, <1>6 DEF RoutersType, kind
  <2>3. TablesType' /\ (DOMAIN closest)' \in SUBSET Addresses /\ Remembered'
    BY <1>2, <1>3, <1>6, SameTables, SameClosest
  <2> QED
    BY <2>1, <2>2, <2>3, <1>2, <1>3, CoreOfParts
<1>7. CASE kind = "hier" /\ hier_privateRemoveRouter(r) /\ UNCHANGED alive
  <2>1. PICK where : where = [addresses EXCEPT ![address[r]] = @ \ {r}]
    OBVIOUS
  <2>2. /\ Relocate(where) /\ ft' = ft \ {r} /\ stack' = <<Flush(ft \ {r})>> \o Tail(stack)
    BY <2>1, <1>7 DEF hier_privateRemoveRouter
  <2>3. routers \subseteq ft /\ ft \in SUBSET Routers /\ Located(addresses, ft)
    BY <1>2, <1>3, <1>7 DEF RoutersType
  <2>4. Located(where, ft \ {r})
    BY <2>1, <2>3, <1>4, LocatedMove
  <2>5. addresses' = where /\ (DOMAIN closest)' \in SUBSET Addresses /\ Remembered'
    BY <2>2, <1>2, <1>3, RelocateFacts
  <2>6. RoutersType'
    BY <2>2, <2>3, <2>4, <2>5, <1>2, <1>3, <1>5, <1>7 DEF RoutersType, kind
  <2>7. ft \ {r} \in SUBSET Routers
    BY <2>3
  <2>8. GoodStack(stack', computers', deployment.computers)
    BY <2>2, <2>7, <1>2, <1>3, FlushCall, ReplaceGood
  <2>9. TablesType'
    BY <1>2, <1>3, SameTables
  <2> QED
    BY <2>5, <2>6, <2>8, <2>9, <1>2, <1>3, CoreOfParts
<1>8. CASE alive' \in BOOLEAN /\ stack' = <<>> /\ UNCHANGED <<addresses, closest, ft>>
  <2>1. RoutersType'
    BY <1>2, <1>3, <1>5, <1>8 DEF RoutersType, kind, Located
  <2>2. TablesType' /\ (DOMAIN closest)' \in SUBSET Addresses /\ Remembered'
    BY <1>2, <1>3, <1>8, SameTables, SameClosest
  <2> QED
    BY <2>1, <2>2, <1>2, <1>3, <1>8, EmptyGood, CoreOfParts
<1> QED
  BY <1>1, <1>6, <1>7, <1>8 DEF CommandFails

\* The computers that reset() announces again.
LEMMA RebuildFacts ==
  ASSUME NEW whom \in SUBSET Computers, NEW order, order = Sorted(whom),
         NEW p, p = [i \in DOMAIN order |-> AnnounceCall(order[i])]
  PROVE  /\ NoInsert(p)
         /\ \A i \in DOMAIN p : \E c \in whom : p[i] = AnnounceCall(c)
         /\ \A c \in whom : \E i \in DOMAIN p : p[i] = AnnounceCall(c)
<1>1. whom \in SUBSET Nat /\ IsFiniteSet(whom)
  BY EndsAssumption, FS_Subset DEF Ends
<1>2. /\ DOMAIN order = 1..Len(order) /\ Len(order) \in Nat
      /\ \A i \in DOMAIN order : order[i] \in whom
      /\ \A x \in whom : \E i \in DOMAIN order : order[i] = x
  BY <1>1, SortedFacts
<1>3. DOMAIN p = 1..Len(order) /\ \A i \in 1..Len(order) : p[i] = AnnounceCall(order[i])
  BY <1>2
<1>4. \A i \in 1..Len(order) : p[i] \in Calls /\ p[i].op # "insert"
  BY <1>2, <1>3, CallTypes
<1>5. p \in [1..Len(order) -> Calls]
  BY <1>2, <1>4
<1>6. p \in Seq(Calls)
  BY <1>2, <1>5
<1> QED
  BY <1>2, <1>3, <1>4, <1>6 DEF NoInsert

LEMMA CoreLoopEnds ==
  ASSUME CoreInv, LoopEnds
  PROVE  CoreInv'
<1>1. PICK f, then : f = Head(stack) /\ then = f.then
  OBVIOUS
<1>2. /\ Running("commands") /\ f.list = <<>>
      /\ UNCHANGED <<deployment, alive, base, addresses, closest, ft, network>>
  BY <1>1 DEF LoopEnds
<1>3. /\ RoutersType /\ TablesType /\ DOMAIN closest \in SUBSET Addresses /\ Remembered
      /\ Known(computers, lambdas, deployment.computers)
      /\ GoodStack(stack, computers, deployment.computers)
  BY DEF CoreInv
<1>4. stack # <<>> /\ then \in ThenType
  BY <1>1, <1>2, TopCommands
<1>5. GoodStack(Tail(stack), computers, deployment.computers)
  BY <1>3, <1>4, PopGood
<1>6. announced \in [Routers -> [Lambdas -> SUBSET Computers]] /\ routers \in SUBSET Routers
  BY <1>3 DEF RoutersType
<1>7. /\ announced' \in [Routers -> [Lambdas -> SUBSET Computers]]
      /\ GoodStack(stack', computers, deployment.computers)
  <2>1. CASE then \in {Done, Others} /\ stack' = Tail(stack) /\ UNCHANGED announced
    BY <2>1, <1>5, <1>6
  <2>2. CASE then.op = "home" /\ AnnounceHome(then.c, then.router)
    <3>1. PICK c, home : c = then.c /\ home = then.router
      OBVIOUS
    <3>2. c \in Computers /\ home \in Routers
      BY <3>1, <2>2, <1>4, ThenFacts
    <3>3. PICK new : new = {l \in computers[c] : announced[home][l] = {}}
      OBVIOUS
    <3>4. /\ announced' = [announced EXCEPT ![home] =
                [l \in Lambdas |-> IF l \in computers[c] THEN @[l] \cup {c} ELSE @[l]]]
          /\ stack' = <<Commands(ToEach("change", {Row(l, home, FALSE) : l \in new},
                                        routers \ {home}), Others)>> \o Tail(stack)
      BY <3>1, <3>3, <2>2 DEF AnnounceHome
    <3>5. announced' \in [Routers -> [Lambdas -> SUBSET Computers]]
      BY <3>2, <3>4, <1>6
    <3>6. new \in SUBSET Lambdas
      BY <3>2, <3>3, <1>3 DEF Known
    <3>7. {Row(l, home, FALSE) : l \in new} \in SUBSET Rows /\ routers \ {home} \in SUBSET Routers
      BY <3>2, <3>6, <1>6, RouterRowsType
    <3>8. PICK list : list = ToEach("change", {Row(l, home, FALSE) : l \in new}, routers \ {home})
      OBVIOUS
    <3>9. list \in Seq(CommandType)
      BY <3>7, <3>8, ToEachFacts DEF IsLoop
    <3>10. Commands(list, Others) \in Calls /\ Commands(list, Others).op # "insert"
      BY <3>9, CallTypes, ThenFacts
    <3> QED
      BY <3>4, <3>5, <3>8, <3>10, <1>3, <1>4, ReplaceGood
  <2>3. CASE /\ announced' = [r \in Routers |-> [l \in Lambdas |-> {}]]
             /\ LET order == Sorted({c \in Computers : computers[c] # {}})
                IN stack' = [i \in DOMAIN order |-> [op |-> "announce", c |-> order[i]]]
                              \o Tail(stack)
    <3>1. PICK whom : whom = {c \in Computers : computers[c] # {}}
      OBVIOUS
    <3>2. PICK order : order = Sorted(whom)
      OBVIOUS
    <3>3. PICK p : p = [i \in DOMAIN order |-> AnnounceCall(order[i])]
      OBVIOUS
    <3>4. stack' = p \o Tail(stack)
      BY <3>1, <3>2, <3>3, <2>3 DEF AnnounceCall
    <3>5. NoInsert(p)
      BY <3>1, <3>2, <3>3, RebuildFacts
    <3>6. announced' \in [Routers -> [Lambdas -> SUBSET Computers]]
      BY <2>3
    <3> QED
      BY <3>4, <3>5, <3>6, <1>5, PushGood
  <2> QED
    BY <2>1, <2>2, <2>3, <1>1 DEF LoopEnds
<1>8. RoutersType'
  BY <1>2, <1>3, <1>7 DEF RoutersType, kind, base
<1>9. TablesType' /\ (DOMAIN closest)' \in SUBSET Addresses /\ Remembered'
  BY <1>2, <1>3, SameTables, SameClosest DEF network
<1> QED
  BY <1>2, <1>3, <1>7, <1>8, <1>9, CoreOfParts DEF base

LEMMA CoreAnnounceRouter ==
  ASSUME CoreInv, NEW r \in Routers, announceRouter(r)
  PROVE  CoreInv'
<1>1. /\ alive /\ stack = <<>> /\ session' = [session EXCEPT ![r] = "running"]
      /\ routers' = routers \cup {r}
      /\ UNCHANGED <<deployment, computers, lambdas, announced, rows>>
  BY DEF announceRouter, Idle
<1>2. /\ RoutersType /\ TablesType /\ DOMAIN closest \in SUBSET Addresses /\ Remembered
      /\ Known(computers, lambdas, deployment.computers)
      /\ GoodStack(stack, computers, deployment.computers)
  BY DEF CoreInv
<1>3. TablesType'
  BY <1>1, <1>2 DEF TablesType
<1>4. routers' \in SUBSET Routers
  BY <1>1, <1>2 DEF RoutersType
<1>5. CASE kind # "hier" /\ UNCHANGED <<alive, addresses, closest, ft>>
  <2>1. RoutersType'
    BY <1>1, <1>2, <1>4, <1>5 DEF RoutersType, kind
  <2>2. (DOMAIN closest)' \in SUBSET Addresses /\ Remembered'
    BY <1>1, <1>2, <1>5, SameClosest
  <2>3. GoodStack(stack', computers', deployment.computers)
    <3>1. CASE stack' = stack
      BY <3>1, <1>1, <1>2
    <3>2. CASE flat_privateAnnounceRouter(r)
      <4>1. PICK list : list = ToEach("change", Offered, {r})
        OBVIOUS
      <4>2. stack' = <<Commands(list, Done)>>
        BY <4>1, <3>2 DEF flat_privateAnnounceRouter
      <4>3. Offered \in SUBSET Rows
        BY <1>2, OfferedType DEF Known
      <4>4. list \in Seq(CommandType)
        BY <4>1, <4>3, ToEachFacts DEF IsLoop
      <4>5. Commands(list, Done) \in Calls /\ Commands(list, Done).op # "insert"
        BY <4>4, CallTypes, ThenFacts
      <4> QED
        BY <4>2, <4>5, OneGood
    <3> QED
      BY <3>1, <3>2, <1>5 DEF announceRouter
  <2> QED
    BY <2>1, <2>2, <2>3, <1>1, <1>2, <1>3, CoreOfParts
<1>6. CASE kind = "hier" /\ hier_privateAnnounceRouter(r)
  <2>1. routers \subseteq ft /\ ft \in SUBSET Routers /\ Located(addresses, ft)
    BY <1>1, <1>2, <1>6 DEF RoutersType
  <2>2. CASE r \notin ft
    <3>1. PICK where : where = [addresses EXCEPT ![address[r]] = @ \cup {r}]
      OBVIOUS
    <3>2. /\ Relocate(where) /\ ft' = ft \cup {r} /\ stack' = <<Flush(ft \cup {r})>>
          /\ UNCHANGED alive
      BY <3>1, <2>2, <1>6 DEF hier_privateAnnounceRouter
    <3>3. Located(where, ft \cup {r})
      BY <3>1, <2>1, LocatedMove
    <3>4. addresses' = where /\ (DOMAIN closest)' \in SUBSET Addresses /\ Remembered'
      BY <3>2, <1>1, <1>2, RelocateFacts
    <3>5. RoutersType'
      BY <3>2, <3>3, <3>4, <2>1, <1>1, <1>2, <1>4 DEF RoutersType
    <3>6. ft \cup {r} \in SUBSET Routers
      BY <2>1
    <3>7. PICK f : f = Flush(ft \cup {r})
      OBVIOUS
    <3>8. f \in Calls /\ f.op # "insert"
      BY <3>6, <3>7, FlushCall
    <3>9. GoodStack(stack', computers', deployment.computers)
      BY <3>2, <3>7, <3>8, OneGood
    <3> QED
      BY <3>4, <3>5, <3>9, <1>1, <1>2, <1>3, CoreOfParts
  <2>3. CASE alive' = FALSE /\ UNCHANGED <<stack, addresses, closest, ft>>
    <3>1. RoutersType'
      BY <2>3, <1>1, <1>2, <1>4 DEF RoutersType
    <3>2. (DOMAIN closest)' \in SUBSET Addresses /\ Remembered'
      BY <2>3, <1>1, <1>2, SameClosest
    <3> QED
      BY <3>1, <3>2, <2>3, <1>1, <1>2, <1>3, CoreOfParts
  <2> QED
    BY <2>2, <2>3, <1>6 DEF hier_privateAnnounceRouter
<1> QED
  BY <1>5, <1>6 DEF announceRouter

LEMMA CoreInit ==
  ASSUME Init
  PROVE  CoreInv
<1>1. DOMAIN <<>> = {}
  OBVIOUS
<1>2. Known(computers, lambdas, deployment.computers)
  BY DEF Init, Known
<1>3. RoutersType
  <2>1. addresses = [a \in Addresses |-> {}] /\ ft = {} /\ routers = {} /\ alive = TRUE
    BY DEF Init
  <2>2. Located(addresses, ft)
    BY <2>1 DEF Located
  <2>3. announced \in [Routers -> [Lambdas -> SUBSET Computers]]
    BY DEF Init
  <2> QED
    BY <2>1, <2>2, <2>3 DEF RoutersType
<1>4. TablesType
  BY DEF Init, TablesType
<1>5. DOMAIN closest \in SUBSET Addresses /\ Remembered
  BY <1>1 DEF Init, Remembered
<1>6. GoodStack(stack, computers, deployment.computers)
  BY EmptyGood DEF Init
<1> QED
  BY <1>2, <1>3, <1>4, <1>5, <1>6 DEF CoreInv, Init

LEMMA CoreStutter ==
  ASSUME CoreInv, UNCHANGED vars
  PROVE  CoreInv'
<1>1. UNCHANGED <<deployment, alive, base, hier, stack>> /\ UNCHANGED <<session, rows>>
  BY DEF vars, base, hier
<1>2. TablesType'
  BY <1>1, SameTables DEF CoreInv
<1> QED
  BY <1>1, <1>2, CoreSameStack

LEMMA CoreStep ==
  ASSUME CoreInv, [Next]_vars
  PROVE  CoreInv'
<1>1. CASE Step
  BY <1>1, CoreAddAgain, CorePrivateAnnounceComputer, CorePrivateRemoveComputer,
     CoreCommandSucceeds, CoreCommandFails, CoreLoopEnds, CoreHook DEF Step
<1>2. CASE Event
  BY <1>2, CoreAnnounceComputer, CoreRemoveComputer, CoreAnnounceRouter, CoreNetwork,
     CoreProxy DEF Event
<1>3. CASE UNCHANGED vars
  BY <1>3, CoreStutter
<1> QED
  BY <1>1, <1>2, <1>3 DEF Next

LEMMA CoreAlways == Spec => []CoreInv
<1>1. Init => CoreInv
  BY CoreInit
<1>2. CoreInv /\ [Next]_vars => CoreInv'
  BY CoreStep
<1> QED
  BY <1>1, <1>2, PTL DEF Spec

(***************************************************************************)
(* The rows that routers have removed themselves.                          *)
(***************************************************************************)
PurgedInv == purged \in [Routers -> SUBSET Rows]

LEMMA PurgedStep ==
  ASSUME CoreInv, PurgedInv, [Next]_vars
  PROVE  PurgedInv'
<1>1. CASE CommandSucceeds
  <2>1. \A r \in Routers : purged'[r] \in SUBSET purged[r]
    BY <1>1 DEF CommandSucceeds, PurgedInv
  <2>2. DOMAIN purged' = Routers /\ purged' = [r \in Routers |-> purged'[r]]
    BY <1>1 DEF CommandSucceeds, PurgedInv
  <2> QED
    BY <2>1, <2>2 DEF PurgedInv
<1>2. CASE \E r \in Routers : Crash(r)
  BY <1>2 DEF Crash, PurgedInv
<1>3. CASE \E r \in Routers : \E x \in rows[r] : Purge(r, x)
  <2>1. PICK r \in Routers : \E x \in rows[r] : Purge(r, x)
    BY <1>3
  <2>2. PICK x \in rows[r] : Purge(r, x)
    BY <2>1
  <2>3. x \in Rows
    BY DEF CoreInv, TablesType
  <2> QED
    BY <2>2, <2>3 DEF Purge, PurgedInv
<1>4. CASE UNCHANGED purged
  BY <1>4 DEF PurgedInv
<1>5. CASE Step
  <2>1. Step => CommandSucceeds \/ UNCHANGED purged
    BY DEF Step, AddAgain, privateAnnounceComputer, privateRemoveComputer, CommandFails,
       LoopEnds, Hook, network
  <2> QED
    BY <2>1, <1>1, <1>4, <1>5
<1>6. CASE Event
  <2>1. UNCHANGED purged \/ (\E r \in Routers : Crash(r))
          \/ (\E r \in Routers : \E x \in rows[r] : Purge(r, x))
    BY <1>6 DEF Event, announceComputer, removeComputer, announceRouter, Start, CreateContext,
       DeleteContext, optimizeTask, network
  <2> QED
    BY <2>1, <1>2, <1>3, <1>4
<1>7. CASE UNCHANGED vars
  BY <1>7, <1>4 DEF vars
<1> QED
  BY <1>5, <1>6, <1>7 DEF Next

LEMMA PurgedAlways == Spec => []PurgedInv
<1>1. Init => PurgedInv
  BY DEF Init, PurgedInv
<1>2. CoreInv /\ PurgedInv /\ [Next]_vars => PurgedInv'
  BY PurgedStep
<1> QED
  BY <1>1, <1>2, CoreAlways, PTL DEF Spec

\* The lists of routers, the index by address, theLambdas and theComputers of
\* a controller agree at every step of its handlers, whatever routers and
\* computers do (edgecontroller.cpp, edgecontrollerhier.cpp); a router that
\* address() has left behind when it throws is in the index and in
\* theForwardingTableEndpoints only.
THEOREM EdgeControllerTypeOK == Spec => []TypeOK
<1>1. CoreInv /\ PurgedInv => TypeOK
  BY CoreTypes DEF PurgedInv
<1> QED
  BY <1>1, CoreAlways, PurgedAlways, PTL

\* theClosest is never stale, whatever the distances; and if they are like
\* numbers of hops, the weighted score orders the routers as the documented
\* pair of costs (EdgeControllerHier::findClosest).
THEOREM EdgeControllerHomeIsClosest == Spec => []HomeIsClosest
<1>1. CoreInv => HomeIsClosest
  <2>1. SUFFICES ASSUME CoreInv, NEW a \in DOMAIN closest
                 PROVE  LET known == RouterAddresses(addresses)
                        IN /\ closest[a] = Closest(Topology, deployment.objective, known, a)
                           /\ HopCounts(Topology) =>
                                closest[a] \in Preferred(Topology, deployment.objective, known, a)
    BY DEF HomeIsClosest
  <2>2. PICK known : known = RouterAddresses(addresses)
    OBVIOUS
  <2>3. /\ a \in DOMAIN Topology /\ known # {} /\ known \in SUBSET (DOMAIN Topology \cap Nat)
        /\ closest[a] = Closest(Topology, deployment.objective, known, a)
    BY <2>1, <2>2 DEF CoreInv, Remembered
  <2> QED
    BY <2>2, <2>3, ClosestPreferred
<1> QED
  BY <1>1, CoreAlways, PTL

-----------------------------------------------------------------------------
(***************************************************************************)
(* The tables of the routers.                                              *)
(***************************************************************************)
\* A router that is down has no table.
DownEmpty == \A r \in Routers : session[r] = "down" => rows[r] = {}

\* Between the rows that the controller expects in a table and those that are
\* there: none but extra are too many and, once the router was announced, none
\* but missing are lacking.
Within(r, extra, missing) ==
  /\ rows[r] \subseteq Expected(r) \cup extra
  /\ session[r] = "running" => Expected(r) \subseteq rows[r] \cup missing

\* The rows of the commands to a router that a handler has still to send.
Pending(list, what, r) ==
  UNION {list[i].rows : i \in {j \in DOMAIN list : list[j].router = r /\ list[j].what = what}}

\* A flat controller: only an insertion may be left after the first call, and
\* the commands of a loop go to different routers, that the controller knows.
OnlyInserts(s) == \A i \in DOMAIN s : s[i].op = "insert"

FlatCommands(list) ==
  /\ \A i \in DOMAIN list :
       /\ list[i].to = "table-server" /\ list[i].router \in routers
       /\ \A r \in Routers :
            \/ list[i].what = "change" /\ list[i].rows \subseteq Expected(r)
            \/ list[i].what = "remove" /\ list[i].rows \cap Expected(r) = {}
  /\ \A i, j \in DOMAIN list : list[i].router = list[j].router => i = j

FlatPhase(f) ==
  \/ /\ f.op = "announce"
     /\ \A r \in routers : Within(r, {}, FinalRows(f.c, computers[f.c]))
  \/ /\ f.op = "withdraw" /\ computers[f.c] = {}
     /\ \A r \in routers : Within(r, FinalRows(f.c, f.set), {})
  \/ /\ f.op = "commands" /\ f.then = Done /\ FlatCommands(f.list)
     /\ \A r \in routers : Within(r, Pending(f.list, "remove", r), Pending(f.list, "change", r))

FlatInv ==
  kind = "flat" =>
    /\ alive
    /\ announced = [r \in Routers |-> [l \in Lambdas |-> {}]]
    /\ \A r \in Routers \ routers : rows[r] = {}
    /\ \/ OnlyInserts(stack) /\ \A r \in routers : Within(r, {}, {})
       \/ stack # <<>> /\ OnlyInserts(Tail(stack)) /\ FlatPhase(Head(stack))

\* A hierarchical controller: computers to announce, then an insertion, may be
\* left after the first call.
LaterCall(f, comp) == (f.op = "announce" /\ comp[f.c] # {}) \/ f.op = "insert"
Later(s, comp) == \A i \in DOMAIN s : LaterCall(s[i], comp)
Awaits(s, c) == \E i \in DOMAIN s : s[i] = AnnounceCall(c)

\* A computer is at home only on known routers, and for lambdas that it has or
\* that are being withdrawn.
Homes(gone) ==
  \A c \in Computers, l \in Lambdas :
    HomeOf(c, l) # {} => /\ l \in computers[c] \/ <<c, l>> \in gone
                         /\ HomeOf(c, l) \subseteq routers

\* findClosest() cannot throw.
NoThrow ==
  routers # {} /\ ~InvalidNodes(Topology, {address[e] : e \in routers \cup deployment.computers})

\* A computer without a home has still to be announced.
Homed(s, but) ==
  NoThrow => \A c \in Computers \ but : \A l \in computers[c] :
               HomeOf(c, l) # {} \/ Awaits(s, c)

Settled(s) == Homes({}) /\ Homed(s, {}) /\ \A r \in routers : Within(r, {}, {})

\* The lambdas of a computer were withdrawn, the tables are to follow.
Withdrawing(f, s) ==
  /\ f.op = "withdraw" /\ computers[f.c] = {}
  /\ Homes({f.c} \X f.set) /\ Homed(s, {})
  /\ \A r \in routers : Within(r, {}, FinalRows(f.c, f.set))

\* The commands of a removal, if any, start with one that fails.
Removing(f, s) ==
  /\ f.op = "commands" /\ f.then.op = "done"
  /\ f.list # <<>> => f.list[1].to = "lambda-server"
  /\ f.list = <<>> => Settled(s)

\* A computer is announced to its home router.
Homing(f, s) ==
  /\ f.op = "commands" /\ f.then.op = "home"
  /\ computers[f.then.c] # {} /\ f.then.router \in routers
  /\ Homes({}) /\ Homed(s, {f.then.c})
  /\ LET set == FinalRows(f.then.c, computers[f.then.c])
     IN /\ \A i, j \in DOMAIN f.list : /\ f.list[i].what = "change" /\ f.list[i].router = f.then.router
                                       /\ f.list[i].rows = set /\ i = j
        /\ \A r \in routers :
             IF f.list = <<>> /\ r = f.then.router
             THEN /\ rows[r] \subseteq Expected(r) \cup set
                  /\ session[r] = "running" => Expected(r) \cup set \subseteq rows[r]
             ELSE Within(r, {}, {})

\* The home router is announced to the others, which the controller knows.
Spreading(f, s) ==
  /\ f.op = "commands" /\ f.then.op = "others"
  /\ Homes({}) /\ Homed(s, {})
  /\ \A i \in DOMAIN f.list :
       /\ f.list[i].what = "change" /\ f.list[i].router \in routers
       /\ f.list[i].rows \subseteq Expected(f.list[i].router)
  /\ \A r \in routers : Within(r, {}, Pending(f.list, "change", r))

\* reset(): the tables that are not empty are to be flushed.
Resetting(f) ==
  /\ f.op = "commands" /\ f.then.op = "rebuild"
  /\ \A i \in DOMAIN f.list : f.list[i].what = "flush"
  /\ \A r \in routers : rows[r] = {} \/ \E i \in DOMAIN f.list : f.list[i].router = r

HierPhase(f, s) ==
  Withdrawing(f, s) \/ Removing(f, s) \/ Homing(f, s) \/ Spreading(f, s) \/ Resetting(f)

\* The first call apart, whatever address() has left behind.  Only the ETSI
\* controller calls the virtual functions.
HierLater ==
  kind = "hier" /\ stack # <<>> =>
    Later(Tail(stack), computers) /\ Head(stack).op \notin HookOps

\* Unless address() has left a router behind, the controller and the tables
\* agree.
HierInv ==
  kind = "hier" /\ alive /\ routers = ft =>
    \/ Later(stack, computers) /\ Settled(stack)
    \/ stack # <<>> /\ Later(Tail(stack), computers) /\ HierPhase(Head(stack), Tail(stack))

TablesInv == DownEmpty /\ FlatInv /\ HierLater /\ HierInv

\* Rows and expected rows.
LEMMA RowFacts ==
  /\ \A x \in Rows : /\ x.l \in Lambdas /\ x.d \in Ends
                     /\ x.final <=> x.d \in Computers
                     /\ x.d \notin Computers => x.d \in Routers
  /\ \A x, y \in Rows : x.l = y.l /\ x.d = y.d => x = y
<1>1. \A x \in Rows : /\ x \in [l : Lambdas, d : Ends, final : BOOLEAN]
                      /\ x.final <=> x.d \in Computers
  BY DEF Rows
<1>2. ASSUME NEW x \in Rows, NEW y \in Rows, x.l = y.l, x.d = y.d
      PROVE  x = y
  <2>1. x.final = y.final
    BY <1>1, <1>2
  <2> QED
    BY <2>1, <1>1, <1>2
<1> QED
  BY <1>1, <1>2 DEF Ends

LEMMA FinalRowsFacts ==
  ASSUME NEW c \in Computers, NEW set \in SUBSET Lambdas
  PROVE  \A x \in Rows : x \in FinalRows(c, set) <=> x.d = c /\ x.l \in set
<1>1. \A l \in set : /\ Row(l, c, TRUE) \in Rows /\ Row(l, c, TRUE).l = l
                     /\ Row(l, c, TRUE).d = c
  BY DEF Row, Rows, Ends
<1>2. \A x : x \in FinalRows(c, set) <=> \E l \in set : x = Row(l, c, TRUE)
  BY DEF FinalRows
<1>3. ASSUME NEW x \in Rows, x.d = c, x.l \in set PROVE x = Row(x.l, c, TRUE)
  BY <1>1, <1>3, RowFacts
<1>4. ASSUME NEW x \in Rows, NEW l \in set, x = Row(l, c, TRUE) PROVE x.d = c /\ x.l \in set
  BY <1>1, <1>4
<1> QED
  BY <1>2, <1>3, <1>4

LEMMA RouterRowsFacts ==
  ASSUME NEW r \in Routers, NEW set \in SUBSET Lambdas
  PROVE  \A x \in Rows : x \in {Row(l, r, FALSE) : l \in set} <=> x.d = r /\ x.l \in set
<1>1. r \notin Computers
  BY EndsAssumption
<1>2. \A l \in set : /\ Row(l, r, FALSE) \in Rows /\ Row(l, r, FALSE).l = l
                     /\ Row(l, r, FALSE).d = r
  BY <1>1 DEF Row, Rows, Ends
<1>3. \A x : x \in {Row(l, r, FALSE) : l \in set} <=> \E l \in set : x = Row(l, r, FALSE)
  OBVIOUS
<1>4. ASSUME NEW x \in Rows, x.d = r, x.l \in set PROVE x = Row(x.l, r, FALSE)
  BY <1>2, <1>4, RowFacts
<1>5. ASSUME NEW x \in Rows, NEW l \in set, x = Row(l, r, FALSE) PROVE x.d = r /\ x.l \in set
  BY <1>2, <1>5
<1> QED
  BY <1>3, <1>4, <1>5

FlatExpected(x) == x.d \in Computers /\ x.l \in computers[x.d]
HierExpected(r, x) ==
  \/ x.d \in Computers /\ x.d \in announced[r][x.l]
  \/ x.d \in Routers \ {r} /\ announced[x.d][x.l] # {}

LEMMA ExpectedFacts ==
  ASSUME NEW r
  PROVE  /\ Expected(r) \in SUBSET Rows
         /\ kind = "flat" => \A x \in Rows : x \in Expected(r) <=> FlatExpected(x)
         /\ announced \in [Routers -> [Lambdas -> SUBSET Computers]] /\ kind # "flat" =>
              \A x \in Rows : x \in Expected(r) <=> HierExpected(r, x)
<1>1. Expected(r) \in SUBSET Rows
  BY DEF Expected
<1>2. ASSUME kind = "flat", NEW x \in Rows PROVE x \in Expected(r) <=> FlatExpected(x)
  BY <1>2, RowFacts DEF Expected, FlatExpected
<1>3. ASSUME announced \in [Routers -> [Lambdas -> SUBSET Computers]], kind # "flat", NEW x \in Rows
      PROVE  x \in Expected(r) <=> HierExpected(r, x)
  <2>1. /\ x.final <=> x.d \in Computers
        /\ x.d \in Computers => x.d \notin Routers
        /\ x.d \notin Computers => x.d \in Routers
    BY RowFacts, EndsAssumption
  <2>2. x \in Expected(r) <=> \/ x.final /\ x.d \in announced[r][x.l]
                              \/ ~x.final /\ x.d \in Routers \ {r} /\ announced[x.d][x.l] # {}
    BY <1>3 DEF Expected
  <2> QED
    BY <2>1, <2>2 DEF HierExpected
<1> QED
  BY <1>1, <1>2, <1>3

\* The same after a step.
LEMMA ExpectedNext ==
  ASSUME NEW r
  PROVE  /\ Expected(r)' \in SUBSET Rows
         /\ kind' = "flat" => \A x \in Rows : x \in Expected(r)' <=> FlatExpected(x)'
         /\ announced' \in [Routers -> [Lambdas -> SUBSET Computers]] /\ kind' # "flat" =>
              \A x \in Rows : x \in Expected(r)' <=> HierExpected(r, x)'
<1>1. Expected(r)' \in SUBSET Rows
  BY DEF Expected
<1>2. ASSUME kind' = "flat", NEW x \in Rows PROVE x \in Expected(r)' <=> FlatExpected(x)'
  BY <1>2, RowFacts DEF Expected, FlatExpected
<1>3. ASSUME announced' \in [Routers -> [Lambdas -> SUBSET Computers]], kind' # "flat", NEW x \in Rows
      PROVE  x \in Expected(r)' <=> HierExpected(r, x)'
  <2>1. /\ x.final <=> x.d \in Computers
        /\ x.d \in Computers => x.d \notin Routers
        /\ x.d \notin Computers => x.d \in Routers
    BY RowFacts, EndsAssumption
  <2>2. x \in Expected(r)' <=> \/ x.final /\ x.d \in announced'[r][x.l]
                               \/ ~x.final /\ x.d \in Routers \ {r} /\ announced'[x.d][x.l] # {}
    BY <1>3 DEF Expected
  <2> QED
    BY <2>1, <2>2 DEF HierExpected
<1> QED
  BY <1>1, <1>2, <1>3

LEMMA SameExpected ==
  ASSUME UNCHANGED <<deployment, computers, announced>>, NEW r
  PROVE  Expected(r)' = Expected(r)
  BY DEF Expected, kind

\* A table that is left alone, or that is lost.
LEMMA SameWithin ==
  ASSUME NEW r, NEW extra, NEW missing, Within(r, extra, missing), Expected(r)' = Expected(r),
         \/ rows'[r] = rows[r] /\ session'[r] = session[r]
         \/ rows'[r] = {} /\ session'[r] # "running"
  PROVE  Within(r, extra, missing)'
  BY DEF Within

\* The commands that are left after the first one.
LEMMA PendingRest ==
  ASSUME NEW list \in Seq(CommandType), list # <<>>, NEW what, NEW r,
         list[1].router # r \/ list[1].what # what
  PROVE  Pending(list, what, r) \subseteq Pending(Tail(list), what, r)
<1>1. PICK t : t = Tail(list)
  OBVIOUS
<1>2. \A i \in DOMAIN list : i = 1 \/ (i - 1 \in DOMAIN t /\ list[i] = t[i - 1])
  BY <1>1, TailFacts
<1>3. ASSUME NEW x \in Pending(list, what, r) PROVE x \in Pending(t, what, r)
  <2>1. PICK i \in DOMAIN list : list[i].router = r /\ list[i].what = what /\ x \in list[i].rows
    BY <1>3 DEF Pending
  <2>2. PICK j : j = i - 1
    OBVIOUS
  <2>3. j \in DOMAIN t /\ list[i] = t[j]
    BY <2>1, <2>2, <1>2
  <2> QED
    BY <2>1, <2>3 DEF Pending
<1> QED
  BY <1>1, <1>3

LEMMA PendingFirst ==
  ASSUME NEW list \in Seq(CommandType), list # <<>>, NEW what, NEW r
  PROVE  Pending(list, what, r) \subseteq Pending(Tail(list), what, r) \cup list[1].rows
<1>1. PICK t : t = Tail(list)
  OBVIOUS
<1>2. \A i \in DOMAIN list : i = 1 \/ (i - 1 \in DOMAIN t /\ list[i] = t[i - 1])
  BY <1>1, TailFacts
<1>3. ASSUME NEW x \in Pending(list, what, r), x \notin list[1].rows
      PROVE  x \in Pending(t, what, r)
  <2>1. PICK i \in DOMAIN list : list[i].router = r /\ list[i].what = what /\ x \in list[i].rows
    BY <1>3 DEF Pending
  <2>2. PICK j : j = i - 1
    OBVIOUS
  <2>3. j \in DOMAIN t /\ list[i] = t[j]
    BY <2>1, <2>2, <1>2, <1>3
  <2> QED
    BY <2>1, <2>3 DEF Pending
<1> QED
  BY <1>1, <1>3

LEMMA PendingNone ==
  ASSUME NEW what, NEW r
  PROVE  Pending(<<>>, what, r) = {}
<1>1. DOMAIN <<>> = {}
  OBVIOUS
<1> QED
  BY <1>1 DEF Pending

\* The rows of a loop are pending for each router of the loop.
LEMMA PendingLoop ==
  ASSUME NEW list, NEW what, NEW set, NEW whom, IsLoop(list, what, set, whom), NEW r \in whom
  PROVE  set \subseteq Pending(list, what, r)
<1>1. ASSUME NEW x \in set PROVE x \in Pending(list, what, r)
  <2>1. PICK i \in DOMAIN list : list[i].router = r
    BY <1>1 DEF IsLoop
  <2>2. list[i].what = what /\ list[i].rows = set
    BY <2>1 DEF IsLoop
  <2> QED
    BY <1>1, <2>1, <2>2 DEF Pending
<1> QED
  BY <1>1

\* A command that adds rows that are expected, or removes rows that are not.
LEMMA AppliedWithin ==
  ASSUME NEW list \in Seq(CommandType), list # <<>>, NEW r, rows[r] \in SUBSET Rows,
         Within(r, Pending(list, "remove", r), Pending(list, "change", r)),
         \/ list[1].what = "change" /\ list[1].rows \subseteq Expected(r)
         \/ list[1].what = "remove" /\ list[1].rows \cap Expected(r) = {},
         Expected(r)' = Expected(r), session'[r] = session[r],
         rows'[r] = IF list[1].router = r THEN Applied(list[1], rows[r]) ELSE rows[r]
  PROVE  Within(r, Pending(Tail(list), "remove", r), Pending(Tail(list), "change", r))'
<1>1. PICK t, cmd, remove, change, remove2, change2 :
        /\ t = Tail(list) /\ cmd = list[1]
        /\ remove = Pending(list, "remove", r) /\ change = Pending(list, "change", r)
        /\ remove2 = Pending(t, "remove", r) /\ change2 = Pending(t, "change", r)
  OBVIOUS
<1>2. cmd \in CommandType
  BY <1>1, TailFacts
<1>3. /\ rows[r] \subseteq Expected(r) \cup remove
      /\ session[r] = "running" => Expected(r) \subseteq rows[r] \cup change
  BY <1>1 DEF Within
<1>4. /\ cmd.router # r \/ cmd.what # "remove" => remove \subseteq remove2
      /\ cmd.router # r \/ cmd.what # "change" => change \subseteq change2
      /\ remove \subseteq remove2 \cup cmd.rows /\ change \subseteq change2 \cup cmd.rows
  BY <1>1, PendingRest, PendingFirst
<1>5. /\ rows'[r] \subseteq Expected(r) \cup remove2
      /\ session[r] = "running" => Expected(r) \subseteq rows'[r] \cup change2
  <2>1. CASE cmd.router # r
    BY <2>1, <1>1, <1>3, <1>4
  <2>2. CASE cmd.router = r /\ cmd.what = "change"
    <3>1. rows'[r] = rows[r] \cup cmd.rows /\ cmd.rows \subseteq Expected(r)
      BY <2>2, <1>1, <1>2, AppliedFacts
    <3> QED
      BY <3>1, <2>2, <1>3, <1>4
  <2>3. CASE cmd.router = r /\ cmd.what = "remove"
    <3>1. rows'[r] = rows[r] \ cmd.rows /\ cmd.rows \cap Expected(r) = {}
      BY <2>3, <1>1, <1>2, AppliedFacts
    <3> QED
      BY <3>1, <2>3, <1>3, <1>4
  <2> QED
    BY <2>1, <2>2, <2>3, <1>1
<1> QED
  BY <1>1, <1>5 DEF Within

\* A call is put on top of the others.
LEMMA PushFirst ==
  ASSUME NEW S, NEW u \in Seq(S), NEW f \in S
  PROVE  LET t == <<f>> \o u
         IN t \in Seq(S) /\ t # <<>> /\ Head(t) = f /\ Tail(t) = u
<1>1. PICK s : s = <<f>> \o u
  OBVIOUS
<1>2. <<f>> \in Seq(S) /\ Len(<<f>>) = 1 /\ <<f>>[1] = f /\ Len(u) \in Nat
  OBVIOUS
<1>3. s \in Seq(S) /\ Len(s) = 1 + Len(u)
  BY <1>1, <1>2, ConcatProperties
<1>4. s # <<>>
  BY <1>2, <1>3
<1>5. \A i \in 1..(1 + Len(u)) : s[i] = IF i <= 1 THEN f ELSE u[i - 1]
  BY <1>1, <1>2, ConcatProperties
<1>6. Head(s) = f
  BY <1>2, <1>3, <1>4, <1>5
<1>7. Tail(s) \in Seq(S) /\ Len(Tail(s)) = Len(u) /\ \A i \in 1..Len(u) : Tail(s)[i] = s[i + 1]
  BY <1>2, <1>3, <1>4, HeadTailProperties
<1>8. \A i \in 1..Len(u) : Tail(s)[i] = u[i]
  BY <1>2, <1>5, <1>7
<1>9. Tail(s) = u
  BY <1>2, <1>7, <1>8, SeqEqual
<1> QED
  BY <1>1, <1>3, <1>4, <1>6, <1>9

LEMMA OneCall ==
  ASSUME NEW f \in Calls
  PROVE  <<f>> # <<>> /\ Head(<<f>>) = f /\ Tail(<<f>>) = <<>>
<1>1. <<f>> \in Seq(Calls) /\ Len(<<f>>) = 1 /\ <<f>>[1] = f
  OBVIOUS
<1>2. <<f>> # <<>> /\ Head(<<f>>) = f
  BY <1>1
<1>3. Tail(<<f>>) \in Seq(Calls) /\ Len(Tail(<<f>>)) = 0
  BY <1>1, <1>2, HeadTailProperties
<1> QED
  BY <1>2, <1>3, EmptySeq

\* A controller that has no hooks.
LEMMA NoHooks ==
  ASSUME kind # "etsi", NEW hooks, NEW f \in Calls, NEW s \in Seq(Calls)
  PROVE  Hooks(hooks) \o <<f>> \o s = <<f>> \o s
<1>1. Hooks(hooks) = <<>>
  BY DEF Hooks
<1>2. <<f>> \in Seq(Calls)
  OBVIOUS
<1> QED
  BY <1>1, <1>2

LEMMA InsertStack ==
  ASSUME kind # "etsi", NEW c \in Computers, NEW set, Insert(c, set, <<>>)
  PROVE  /\ stack' # <<>> /\ Head(stack') = AnnounceCall(c) /\ Tail(stack') = <<>>
         /\ computers' = [computers EXCEPT ![c] = set]
<1>1. PICK f : f = AnnounceCall(c)
  OBVIOUS
<1>2. f \in Calls /\ <<>> \in Seq(Calls)
  BY <1>1, CallTypes
<1>3. PICK hooks : stack' = Hooks(hooks) \o <<f>> \o <<>>
  BY <1>1 DEF Insert, AnnounceCall
<1>4. stack' = <<f>> \o <<>>
  BY <1>2, <1>3, NoHooks
<1>5. stack' # <<>> /\ Head(stack') = f /\ Tail(stack') = <<>>
  BY <1>2, <1>4, PushFirst
<1> QED
  BY <1>1, <1>5 DEF Insert

LEMMA WithdrawStack ==
  ASSUME kind # "etsi", NEW c \in Computers, computers[c] \in ContainerLists,
         NEW after \in Seq(Calls), Withdraw(c, after)
  PROVE  /\ stack' # <<>> /\ Head(stack') = ComputerCall("withdraw", c, computers[c])
         /\ Tail(stack') = after
         /\ computers' = [computers EXCEPT ![c] = {}]
<1>1. PICK f : f = ComputerCall("withdraw", c, computers[c])
  OBVIOUS
<1>2. f \in Calls
  BY <1>1, CallTypes DEF ComputerOps
<1>3. PICK hooks : stack' = Hooks(hooks) \o <<f>> \o after
  BY <1>1 DEF Withdraw, ComputerCall
<1>4. stack' = <<f>> \o after
  BY <1>2, <1>3, NoHooks
<1>5. stack' # <<>> /\ Head(stack') = f /\ Tail(stack') = after
  BY <1>2, <1>4, PushFirst
<1> QED
  BY <1>1, <1>5 DEF Withdraw

LEMMA CallFields ==
  ASSUME NEW op, NEW c, NEW set
  PROVE  /\ ComputerCall(op, c, set).op = op /\ ComputerCall(op, c, set).c = c
         /\ ComputerCall(op, c, set).set = set
         /\ AnnounceCall(c).op = "announce" /\ AnnounceCall(c).c = c
  BY DEF ComputerCall, AnnounceCall

(***************************************************************************)
(* A flat controller.                                                      *)
(***************************************************************************)
FlatBase ==
  /\ alive
  /\ announced = [r \in Routers |-> [l \in Lambdas |-> {}]]
  /\ \A r \in Routers \ routers : rows[r] = {}

LEMMA FlatOfRest ==
  ASSUME FlatBase', OnlyInserts(stack'), \A r \in routers' : Within(r, {}, {})'
  PROVE  FlatInv'
  BY DEF FlatInv, FlatBase

LEMMA FlatOfPhase ==
  ASSUME FlatBase', stack' # <<>>, OnlyInserts(Tail(stack')), NEW f, f = Head(stack'), FlatPhase(f)'
  PROVE  FlatInv'
  BY DEF FlatInv, FlatBase

LEMMA NoInserts == OnlyInserts(<<>>)
<1>1. DOMAIN <<>> = {}
  OBVIOUS
<1> QED
  BY <1>1 DEF OnlyInserts

\* Nothing runs, or an insertion is to run.
LEMMA FlatResting ==
  ASSUME FlatInv, kind = "flat", stack = <<>> \/ Head(stack).op = "insert"
  PROVE  FlatBase /\ OnlyInserts(stack) /\ \A r \in routers : Within(r, {}, {})
  BY DEF FlatInv, FlatBase, FlatPhase

LEMMA FlatRunning ==
  ASSUME FlatInv, kind = "flat", stack # <<>>, stack \in Seq(Calls), Head(stack).op # "insert"
  PROVE  FlatBase /\ OnlyInserts(Tail(stack)) /\ FlatPhase(Head(stack))
<1>1. Head(stack) = stack[1] /\ 1 \in DOMAIN stack
  BY TailFacts
<1> QED
  BY <1>1 DEF FlatInv, FlatBase, OnlyInserts

\* An insertion.
LEMMA FlatInsert ==
  ASSUME CoreInv, kind = "flat", FlatBase, \A r \in routers : Within(r, {}, {}),
         NEW c \in Computers, computers[c] = {}, NEW set \in ContainerLists, Insert(c, set, <<>>),
         UNCHANGED <<deployment, alive, routers, announced, session, rows>>
  PROVE  FlatInv'
<1>1. /\ stack' # <<>> /\ Head(stack') = AnnounceCall(c) /\ Tail(stack') = <<>>
      /\ computers' = [computers EXCEPT ![c] = set]
  BY InsertStack
<1>2. computers \in [Computers -> SUBSET Lambdas] /\ set \in SUBSET Lambdas
  BY ContainerListFacts DEF CoreInv, Known
<1>3. computers'[c] = set /\ \A x \in Computers \ {c} : computers'[x] = computers[x]
  BY <1>1, <1>2
<1>4. ASSUME NEW r \in routers PROVE Within(r, {}, FinalRows(c, set))'
  <2>1. Expected(r) \in SUBSET Rows /\ Expected(r)' \in SUBSET Rows
    BY ExpectedFacts, ExpectedNext
  <2>2. \A x \in Rows : x \in Expected(r) <=> FlatExpected(x)
    BY ExpectedFacts
  <2>3. \A x \in Rows : x \in Expected(r)' <=> FlatExpected(x)'
    <3>1. kind' = "flat"
      BY DEF kind
    <3> QED
      BY <3>1, ExpectedNext
  <2>4. \A x \in Rows : x \in FinalRows(c, set) <=> x.d = c /\ x.l \in set
    BY <1>2, FinalRowsFacts
  <2>5. \A x \in Rows : x \in Expected(r)' <=> x \in Expected(r) \/ x \in FinalRows(c, set)
    BY <2>2, <2>3, <2>4, <1>3 DEF FlatExpected
  <2>6. Within(r, {}, {}) /\ rows'[r] = rows[r] /\ session'[r] = session[r]
    BY <1>4
  <2> QED
    BY <2>1, <2>5, <2>6 DEF Within
<1>5. PICK f : f = AnnounceCall(c)
  OBVIOUS
<1>6. f.op = "announce" /\ f.c = c
  BY <1>5, CallFields
<1>7. FlatPhase(f)'
  BY <1>3, <1>4, <1>6 DEF FlatPhase
<1>8. FlatBase'
  BY DEF FlatBase
<1> QED
  BY <1>1, <1>5, <1>7, <1>8, NoInserts, FlatOfPhase

\* A withdrawal.
LEMMA FlatWithdraw ==
  ASSUME CoreInv, kind = "flat", FlatBase, \A r \in routers : Within(r, {}, {}),
         NEW c \in Computers, computers[c] # {}, NEW after \in Seq(Calls), OnlyInserts(after),
         Withdraw(c, after), UNCHANGED <<deployment, alive, routers, announced, session, rows>>
  PROVE  FlatInv'
<1>1. PICK set : set = computers[c]
  OBVIOUS
<1>2. computers \in [Computers -> SUBSET Lambdas] /\ set \in SUBSET Lambdas /\ set \in ContainerLists
  BY <1>1 DEF CoreInv, Known, ContainerLists
<1>3. PICK f : f = ComputerCall("withdraw", c, set)
  OBVIOUS
<1>4. /\ stack' # <<>> /\ Head(stack') = f /\ Tail(stack') = after
      /\ computers' = [computers EXCEPT ![c] = {}]
  BY <1>1, <1>2, <1>3, WithdrawStack
<1>5. computers'[c] = {} /\ \A x \in Computers \ {c} : computers'[x] = computers[x]
  BY <1>2, <1>4
<1>6. ASSUME NEW r \in routers PROVE Within(r, FinalRows(c, set), {})'
  <2>1. Expected(r) \in SUBSET Rows /\ Expected(r)' \in SUBSET Rows
    BY ExpectedFacts, ExpectedNext
  <2>2. \A x \in Rows : x \in Expected(r) <=> FlatExpected(x)
    BY ExpectedFacts
  <2>3. \A x \in Rows : x \in Expected(r)' <=> FlatExpected(x)'
    <3>1. kind' = "flat"
      BY DEF kind
    <3> QED
      BY <3>1, ExpectedNext
  <2>4. \A x \in Rows : x \in FinalRows(c, set) <=> x.d = c /\ x.l \in set
    BY <1>2, FinalRowsFacts
  <2>5. \A x \in Rows : x \in Expected(r)' <=> x \in Expected(r) /\ x \notin FinalRows(c, set)
    BY <2>2, <2>3, <2>4, <1>1, <1>5 DEF FlatExpected
  <2>6. Within(r, {}, {})
    BY <1>6
  <2> QED
    BY <2>1, <2>5, <2>6 DEF Within
<1>7. f.op = "withdraw" /\ f.c = c /\ f.set = set
  BY <1>3, CallFields
<1>8. FlatPhase(f)'
  BY <1>5, <1>6, <1>7 DEF FlatPhase
<1>9. FlatBase'
  BY DEF FlatBase
<1> QED
  BY <1>4, <1>8, <1>9, FlatOfPhase

LEMMA FlatAnnounceComputer ==
  ASSUME CoreInv, FlatInv, kind = "flat", NEW c \in Computers, NEW set, announceComputer(c, set)
  PROVE  FlatInv'
<1>1. /\ set \in ContainerLists /\ stack = <<>>
      /\ UNCHANGED <<deployment, alive, routers, announced, session, rows>>
  BY DeploymentFacts DEF announceComputer, CoreInv, network, hier, Idle
<1>2. FlatBase /\ \A r \in routers : Within(r, {}, {})
  BY <1>1, FlatResting
<1>3. CASE computers[c] = {} /\ Insert(c, set, <<>>)
  BY <1>1, <1>2, <1>3, FlatInsert
<1>4. CASE computers[c] # {} /\ Withdraw(c, <<ComputerCall("insert", c, set)>>)
  <2>1. PICK f, after : f = ComputerCall("insert", c, set) /\ after = <<f>>
    OBVIOUS
  <2>2. f \in Calls /\ f.op = "insert"
    BY <2>1, <1>1, CallTypes DEF ComputerOps
  <2>3. after \in Seq(Calls) /\ \A i \in DOMAIN after : after[i] = f
    BY <2>1, <2>2
  <2>4. OnlyInserts(after)
    BY <2>2, <2>3 DEF OnlyInserts
  <2>5. Withdraw(c, after)
    BY <1>4, <2>1
  <2> QED
    BY <2>3, <2>4, <2>5, <1>1, <1>2, <1>4, FlatWithdraw
<1>5. \/ computers[c] = {} /\ Insert(c, set, <<>>)
      \/ computers[c] # {} /\ Withdraw(c, <<ComputerCall("insert", c, set)>>)
  BY DEF announceComputer, AddStatus, ComputerCall
<1> QED
  BY <1>3, <1>4, <1>5

LEMMA FlatRemoveComputer ==
  ASSUME CoreInv, FlatInv, kind = "flat", NEW c \in Computers, removeComputer(c)
  PROVE  FlatInv'
<1>1. /\ stack = <<>> /\ computers[c] # {} /\ Withdraw(c, <<>>)
      /\ UNCHANGED <<deployment, alive, routers, announced, session, rows>>
  BY DEF removeComputer, Idle, hier, network
<1>2. FlatBase /\ \A r \in routers : Within(r, {}, {})
  BY <1>1, FlatResting
<1>3. <<>> \in Seq(Calls) /\ OnlyInserts(<<>>)
  BY NoInserts
<1> QED
  BY <1>1, <1>2, <1>3, FlatWithdraw

LEMMA FlatAddAgain ==
  ASSUME CoreInv, FlatInv, kind = "flat", AddAgain
  PROVE  FlatInv'
<1>1. PICK f : f = Head(stack)
  OBVIOUS
<1>2. /\ stack # <<>> /\ f.op = "insert" /\ Insert(f.c, f.set, Tail(stack))
      /\ UNCHANGED <<deployment, alive, routers, announced, session, rows>>
  BY <1>1 DEF AddAgain, Running, network, hier
<1>3. GoodStack(stack, computers, deployment.computers)
  BY DEF CoreInv
<1>4. /\ f \in Calls /\ Tail(stack) = <<>> /\ computers[f.c] = {}
  BY <1>1, <1>2, <1>3, PopGood
<1>5. f.c \in Computers /\ f.set \in ContainerLists
  BY <1>2, <1>4, CallFacts, CallOps DEF ComputerOps
<1>6. FlatBase /\ \A r \in routers : Within(r, {}, {})
  BY <1>1, <1>2, FlatResting
<1>7. Insert(f.c, f.set, <<>>)
  BY <1>2, <1>4
<1> QED
  BY <1>2, <1>4, <1>5, <1>6, <1>7, FlatInsert

\* A loop over different routers that the controller knows.
LEMMA FlatLoop ==
  ASSUME NEW list, NEW what \in {"change", "remove"}, NEW set, NEW whom \in SUBSET routers,
         IsLoop(list, what, set, whom),
         \A r \in Routers : \/ what = "change" /\ set \subseteq Expected(r)'
                            \/ what = "remove" /\ set \cap Expected(r)' = {},
         routers \subseteq routers'
  PROVE  FlatCommands(list)'
  BY DEF IsLoop, FlatCommands

LEMMA FlatPrivateAnnounceComputer ==
  ASSUME CoreInv, FlatInv, kind = "flat", privateAnnounceComputer
  PROVE  FlatInv'
<1>1. PICK f, c, set : f = Head(stack) /\ c = f.c /\ set = FinalRows(c, computers[c])
  OBVIOUS
<1>2. /\ stack # <<>> /\ f.op = "announce" /\ GoodStack(stack, computers, deployment.computers)
      /\ UNCHANGED <<deployment, alive, computers, routers, announced, session, rows>>
      /\ flat_privateAnnounceComputer(c)
  BY <1>1 DEF privateAnnounceComputer, Running, CoreInv, base, network
<1>3. f \in Calls /\ stack \in Seq(Calls) /\ Tail(stack) \in Seq(Calls)
  BY <1>1, <1>2, PopGood DEF GoodStack
<1>4. c \in Computers /\ computers \in [Computers -> SUBSET Lambdas] /\ routers \in SUBSET Routers
  BY <1>1, <1>2, <1>3, CallFacts, CallOps DEF CoreInv, Known, RoutersType
<1>5. FlatBase /\ OnlyInserts(Tail(stack)) /\ \A r \in routers : Within(r, {}, set)
  BY <1>1, <1>2, <1>3, FlatRunning DEF FlatPhase
<1>6. set \in SUBSET Rows
  BY <1>1, <1>4, FinalRowsType
<1>7. PICK list, g : list = ToEach("change", set, routers) /\ g = Commands(list, Done)
  OBVIOUS
<1>8. IsLoop(list, "change", set, routers)
  BY <1>4, <1>6, <1>7, ToEachFacts
<1>9. g \in Calls /\ g.op = "commands" /\ g.then = Done /\ g.list = list
  BY <1>7, <1>8, CallTypes, ThenFacts, CommandsFields DEF IsLoop
<1>10. stack' = <<g>> \o Tail(stack)
  BY <1>1, <1>2, <1>7 DEF flat_privateAnnounceComputer
<1>11. stack' # <<>> /\ Head(stack') = g /\ Tail(stack') = Tail(stack)
  BY <1>3, <1>9, <1>10, PushFirst
<1>12. \A r \in Routers : Expected(r)' = Expected(r)
  BY <1>2, SameExpected
<1>13. \A r \in Routers : set \subseteq Expected(r)
  <2> TAKE r \in Routers
  <2>1. \A x \in Rows : x \in Expected(r) <=> FlatExpected(x)
    BY ExpectedFacts
  <2>2. \A x \in Rows : x \in set <=> x.d = c /\ x.l \in computers[c]
    BY <1>1, <1>4, FinalRowsFacts
  <2> QED
    BY <2>1, <2>2, <1>4, <1>6 DEF FlatExpected
<1>14. FlatCommands(list)'
  BY <1>2, <1>8, <1>12, <1>13, FlatLoop
<1>15. ASSUME NEW r \in routers'
       PROVE  Within(r, Pending(list, "remove", r), Pending(list, "change", r))'
  <2>1. r \in routers /\ r \in Routers /\ Within(r, {}, set)
    BY <1>2, <1>4, <1>5, <1>15
  <2>2. set \subseteq Pending(list, "change", r)
    BY <2>1, <1>8, PendingLoop
  <2>3. rows'[r] = rows[r] /\ session'[r] = session[r] /\ Expected(r)' = Expected(r)
    BY <2>1, <1>2, <1>12
  <2> QED
    BY <2>1, <2>2, <2>3 DEF Within
<1>16. FlatPhase(g)'
  BY <1>9, <1>14, <1>15 DEF FlatPhase
<1>17. FlatBase'
  BY <1>2, <1>5 DEF FlatBase
<1> QED
  BY <1>5, <1>11, <1>16, <1>17, FlatOfPhase

LEMMA FlatPrivateRemoveComputer ==
  ASSUME CoreInv, FlatInv, kind = "flat", privateRemoveComputer
  PROVE  FlatInv'
<1>1. PICK f, c, set : f = Head(stack) /\ c = f.c /\ set = FinalRows(c, f.set)
  OBVIOUS
<1>2. /\ stack # <<>> /\ f.op = "withdraw" /\ GoodStack(stack, computers, deployment.computers)
      /\ UNCHANGED <<deployment, alive, computers, routers, announced, session, rows>>
      /\ flat_privateRemoveComputer(c, f.set)
  BY <1>1 DEF privateRemoveComputer, Running, CoreInv, base, network
<1>3. f \in Calls /\ stack \in Seq(Calls) /\ Tail(stack) \in Seq(Calls)
  BY <1>1, <1>2, PopGood DEF GoodStack
<1>4. /\ c \in Computers /\ f.set \in SUBSET Lambdas
      /\ computers \in [Computers -> SUBSET Lambdas] /\ routers \in SUBSET Routers
  BY <1>1, <1>2, <1>3, CallFacts, CallOps, ContainerListFacts
     DEF CoreInv, Known, RoutersType, ComputerOps
<1>5. /\ FlatBase /\ OnlyInserts(Tail(stack)) /\ computers[c] = {}
      /\ \A r \in routers : Within(r, set, {})
  BY <1>1, <1>2, <1>3, FlatRunning DEF FlatPhase
<1>6. set \in SUBSET Rows
  BY <1>1, <1>4, FinalRowsType
<1>7. PICK list, g : list = ToEach("remove", set, routers) /\ g = Commands(list, Done)
  OBVIOUS
<1>8. IsLoop(list, "remove", set, routers)
  BY <1>4, <1>6, <1>7, ToEachFacts
<1>9. g \in Calls /\ g.op = "commands" /\ g.then = Done /\ g.list = list
  BY <1>7, <1>8, CallTypes, ThenFacts, CommandsFields DEF IsLoop
<1>10. stack' = <<g>> \o Tail(stack)
  BY <1>1, <1>2, <1>7 DEF flat_privateRemoveComputer
<1>11. stack' # <<>> /\ Head(stack') = g /\ Tail(stack') = Tail(stack)
  BY <1>3, <1>9, <1>10, PushFirst
<1>12. \A r \in Routers : Expected(r)' = Expected(r)
  BY <1>2, SameExpected
<1>13. \A r \in Routers : set \cap Expected(r) = {}
  <2> TAKE r \in Routers
  <2>1. \A x \in Rows : x \in Expected(r) <=> FlatExpected(x)
    BY ExpectedFacts
  <2>2. \A x \in Rows : x \in set <=> x.d = c /\ x.l \in f.set
    BY <1>1, <1>4, FinalRowsFacts
  <2> QED
    BY <2>1, <2>2, <1>5, <1>6 DEF FlatExpected
<1>14. FlatCommands(list)'
  BY <1>2, <1>8, <1>12, <1>13, FlatLoop
<1>15. ASSUME NEW r \in routers'
       PROVE  Within(r, Pending(list, "remove", r), Pending(list, "change", r))'
  <2>1. r \in routers /\ r \in Routers /\ Within(r, set, {})
    BY <1>2, <1>4, <1>5, <1>15
  <2>2. set \subseteq Pending(list, "remove", r)
    BY <2>1, <1>8, PendingLoop
  <2>3. rows'[r] = rows[r] /\ session'[r] = session[r] /\ Expected(r)' = Expected(r)
    BY <2>1, <1>2, <1>12
  <2> QED
    BY <2>1, <2>2, <2>3 DEF Within
<1>16. FlatPhase(g)'
  BY <1>9, <1>14, <1>15 DEF FlatPhase
<1>17. FlatBase'
  BY <1>2, <1>5 DEF FlatBase
<1> QED
  BY <1>5, <1>11, <1>16, <1>17, FlatOfPhase

LEMMA FlatAnnounceRouter ==
  ASSUME CoreInv, FlatInv, kind = "flat", NEW r \in Routers, announceRouter(r)
  PROVE  FlatInv'
<1>1. /\ stack = <<>> /\ session' = [session EXCEPT ![r] = "running"]
      /\ routers' = routers \cup {r} /\ flat_privateAnnounceRouter(r)
      /\ UNCHANGED <<deployment, alive, computers, announced, rows>>
  BY DEF announceRouter, Idle
<1>2. FlatBase /\ \A o \in routers : Within(o, {}, {})
  BY <1>1, FlatResting
<1>3. /\ computers \in [Computers -> SUBSET Lambdas] /\ routers \in SUBSET Routers
      /\ session \in [Routers -> {"down", "starting", "running"}]
  BY DEF CoreInv, Known, RoutersType, TablesType
<1>4. PICK list, g : list = ToEach("change", Offered, {r}) /\ g = Commands(list, Done)
  OBVIOUS
<1>5. Offered \in SUBSET Rows
  BY <1>3, OfferedType
<1>6. IsLoop(list, "change", Offered, {r})
  BY <1>4, <1>5, ToEachFacts
<1>7. g \in Calls /\ g.op = "commands" /\ g.then = Done /\ g.list = list
  BY <1>4, <1>6, CallTypes, ThenFacts, CommandsFields DEF IsLoop
<1>8. stack' # <<>> /\ Head(stack') = g /\ Tail(stack') = <<>>
  BY <1>1, <1>4, <1>7, OneCall DEF flat_privateAnnounceRouter
<1>9. \A o \in Routers : Expected(o)' = Expected(o)
  BY <1>1, SameExpected
<1>10. \A o \in Routers : Offered = Expected(o)
  <2> TAKE o \in Routers
  <2>1. Expected(o) \in SUBSET Rows /\ \A x \in Rows : x \in Expected(o) <=> FlatExpected(x)
    BY ExpectedFacts
  <2>2. \A x : x \in Offered <=> \E c \in Computers : x \in FinalRows(c, computers[c])
    BY DEF Offered
  <2>3. \A x \in Rows, c \in Computers :
          x \in FinalRows(c, computers[c]) <=> x.d = c /\ x.l \in computers[c]
    BY <1>3, FinalRowsFacts
  <2>4. \A x \in Rows : x \in Offered <=> FlatExpected(x)
    BY <2>2, <2>3 DEF FlatExpected
  <2> QED
    BY <2>1, <2>4, <1>5
<1>11. FlatCommands(list)'
  <2>1. \A i \in DOMAIN list : /\ list[i].router = r /\ list[i].what = "change"
                               /\ list[i].to = "table-server" /\ list[i].rows = Offered
    BY <1>6 DEF IsLoop
  <2>2. \A i, j \in DOMAIN list : list[i].router = list[j].router => i = j
    BY <1>6 DEF IsLoop
  <2> QED
    BY <2>1, <2>2, <1>1, <1>9, <1>10 DEF FlatCommands
<1>12. ASSUME NEW o \in routers'
       PROVE  Within(o, Pending(list, "remove", o), Pending(list, "change", o))'
  <2>1. o \in Routers /\ rows'[o] = rows[o] /\ Expected(o)' = Expected(o)
    BY <1>1, <1>3, <1>9, <1>12
  <2>2. rows[o] \subseteq Expected(o)
    BY <2>1, <1>2 DEF Within, FlatBase
  <2>3. CASE o = r
    <3>1. Offered \subseteq Pending(list, "change", r)
      BY <1>6, PendingLoop
    <3> QED
      BY <3>1, <2>1, <2>2, <2>3, <1>10 DEF Within
  <2>4. CASE o # r
    <3>1. Within(o, {}, {}) /\ session'[o] = session[o]
      BY <2>1, <2>4, <1>1, <1>2, <1>3, <1>12
    <3> QED
      BY <3>1, <2>1 DEF Within
  <2> QED
    BY <2>3, <2>4
<1>13. FlatPhase(g)'
  BY <1>7, <1>11, <1>12 DEF FlatPhase
<1>14. FlatBase'
  BY <1>1, <1>2 DEF FlatBase
<1> QED
  BY <1>8, <1>13, <1>14, NoInserts, FlatOfPhase

\* The rest of a loop.
LEMMA FlatTail ==
  ASSUME NEW list \in Seq(CommandType), list # <<>>, FlatCommands(list),
         \A r \in Routers : Expected(r)' = Expected(r), routers \ {list[1].router} \subseteq routers'
  PROVE  FlatCommands(Tail(list))'
<1>1. PICK t : t = Tail(list)
  OBVIOUS
<1>2. /\ 1 \in DOMAIN list /\ DOMAIN t = 1..(Len(list) - 1) /\ Len(list) \in Nat
      /\ \A i \in DOMAIN t : i + 1 \in DOMAIN list /\ t[i] = list[i + 1]
  BY <1>1, TailFacts
<1>3. ASSUME NEW i \in DOMAIN t PROVE t[i].router # list[1].router /\ i + 1 \in DOMAIN list
  <2>1. PICK k : k = i + 1
    OBVIOUS
  <2>2. k \in DOMAIN list /\ t[i] = list[k] /\ k # 1
    BY <2>1, <1>2
  <2>3. list[k].router # list[1].router
    BY <2>2, <1>2 DEF FlatCommands
  <2> QED
    BY <2>1, <2>2, <2>3
<1>4. ASSUME NEW i \in DOMAIN t
      PROVE  /\ t[i].to = "table-server" /\ t[i].router \in routers'
             /\ \A r \in Routers : \/ t[i].what = "change" /\ t[i].rows \subseteq Expected(r)'
                                   \/ t[i].what = "remove" /\ t[i].rows \cap Expected(r)' = {}
  BY <1>2, <1>3 DEF FlatCommands
<1>5. ASSUME NEW i \in DOMAIN t, NEW j \in DOMAIN t, t[i].router = t[j].router PROVE i = j
  <2>1. PICK k, m : k = i + 1 /\ m = j + 1
    OBVIOUS
  <2>2. k \in DOMAIN list /\ m \in DOMAIN list /\ t[i] = list[k] /\ t[j] = list[m]
    BY <2>1, <1>2
  <2>3. k = m
    BY <2>2, <1>5 DEF FlatCommands
  <2> QED
    BY <2>1, <2>3, <1>2
<1>6. FlatCommands(t)'
  BY <1>4, <1>5 DEF FlatCommands
<1> QED
  BY <1>1, <1>6

\* The loop goes on with the next command.
LEMMA SucceedsStack ==
  ASSUME CoreInv, CommandSucceeds
  PROVE  stack' = <<Commands(Tail(Head(stack).list), Head(stack).then)>> \o Tail(stack)
<1>1. Sending /\ stack' = <<[Head(stack) EXCEPT !.list = Tail(@)]>> \o Tail(stack)
  BY DEF CommandSucceeds
<1>2. [Head(stack) EXCEPT !.list = Tail(@)] = Commands(Tail(Head(stack).list), Head(stack).then)
  BY <1>1, NextCommand, Zenon
<1> QED
  BY <1>1, <1>2, Zenon

LEMMA FailsStack ==
  ASSUME CoreInv, kind = "flat", CommandFails
  PROVE  stack' = <<Commands(Tail(Head(stack).list), Head(stack).then)>> \o Tail(stack)
<1>1. Sending /\ stack' = <<[Head(stack) EXCEPT !.list = Tail(@)]>> \o Tail(stack)
  BY DEF CommandFails
<1>2. [Head(stack) EXCEPT !.list = Tail(@)] = Commands(Tail(Head(stack).list), Head(stack).then)
  BY <1>1, NextCommand, Zenon
<1> QED
  BY <1>1, <1>2, Zenon

\* The loop that a flat controller is in, and what is left of it.
FlatSends(list, g) ==
  /\ FlatBase /\ OnlyInserts(Tail(stack)) /\ FlatCommands(list)
  /\ list \in Seq(CommandType) /\ list # <<>> /\ Head(list) = list[1] /\ 1 \in DOMAIN list
  /\ \A r \in routers : Within(r, Pending(list, "remove", r), Pending(list, "change", r))
  /\ stack # <<>> /\ Tail(stack) \in Seq(Calls)
  /\ g \in Calls /\ g.op = "commands" /\ g.then = Done /\ g.list = Tail(list)

LEMMA FlatSending ==
  ASSUME CoreInv, FlatInv, kind = "flat", Sending
  PROVE  FlatSends(Head(stack).list, Commands(Tail(Head(stack).list), Head(stack).then))
<1>1. PICK f, list, t, g : /\ f = Head(stack) /\ list = f.list /\ t = Tail(list)
                           /\ g = Commands(t, f.then)
  OBVIOUS
<1>2. /\ stack # <<>> /\ f.op = "commands" /\ list # <<>> /\ stack \in Seq(Calls)
      /\ list \in Seq(CommandType)
  BY <1>1, TopCommands DEF Sending, GoodStack
<1>3. FlatBase /\ OnlyInserts(Tail(stack)) /\ FlatPhase(f)
  BY <1>1, <1>2, FlatRunning
<1>4. /\ f.then = Done /\ FlatCommands(list)
      /\ \A r \in routers : Within(r, Pending(list, "remove", r), Pending(list, "change", r))
  BY <1>1, <1>2, <1>3 DEF FlatPhase
<1>5. Head(list) = list[1] /\ 1 \in DOMAIN list /\ t \in Seq(CommandType)
  BY <1>1, <1>2, TailFacts
<1>6. Tail(stack) \in Seq(Calls)
  BY <1>2, TailFacts
<1>7. g = Commands(t, Done) /\ Done \in ThenType
  BY <1>1, <1>4, ThenFacts
<1>8. g \in Calls /\ g.op = "commands" /\ g.then = Done /\ g.list = t
  BY <1>5, <1>7, CallTypes, CommandsFields
<1>9. FlatSends(list, g)
  BY <1>1, <1>2, <1>3, <1>4, <1>5, <1>6, <1>8 DEF FlatSends
<1> QED
  BY <1>1, <1>9

LEMMA FlatCommandSucceeds ==
  ASSUME CoreInv, FlatInv, kind = "flat", CommandSucceeds
  PROVE  FlatInv'
<1>1. PICK f, list, g, cmd : /\ f = Head(stack) /\ list = f.list /\ g = Commands(Tail(list), f.then)
                             /\ cmd = list[1]
  OBVIOUS
<1>2. Sending
  BY DEF CommandSucceeds
<1>3. /\ FlatBase /\ OnlyInserts(Tail(stack)) /\ FlatCommands(list)
      /\ list \in Seq(CommandType) /\ list # <<>> /\ Head(list) = cmd /\ 1 \in DOMAIN list
      /\ \A r \in routers : Within(r, Pending(list, "remove", r), Pending(list, "change", r))
      /\ stack # <<>> /\ Tail(stack) \in Seq(Calls)
      /\ g \in Calls /\ g.op = "commands" /\ g.then = Done /\ g.list = Tail(list)
  <2>1. FlatSends(list, g)
    BY <1>1, <1>2, FlatSending
  <2> QED
    BY <2>1, <1>1 DEF FlatSends
<1>4. /\ UNCHANGED <<deployment, alive, computers, routers, announced, session>>
      /\ rows' = [rows EXCEPT ![cmd.router] = Applied(cmd, @)]
      /\ stack' = <<g>> \o Tail(stack)
  BY <1>1, <1>3, SucceedsStack DEF CommandSucceeds, base, hier
<1>5. stack' # <<>> /\ Head(stack') = g /\ Tail(stack') = Tail(stack)
  BY <1>3, <1>4, PushFirst
<1>6. \A r \in Routers : Expected(r)' = Expected(r)
  BY <1>4, SameExpected
<1>7. FlatCommands(Tail(list))'
  BY <1>3, <1>4, <1>6, FlatTail
<1>8. rows \in [Routers -> SUBSET Rows] /\ routers \in SUBSET Routers
  BY DEF CoreInv, RoutersType, TablesType
<1>9. ASSUME NEW r \in routers'
      PROVE  Within(r, Pending(Tail(list), "remove", r), Pending(Tail(list), "change", r))'
  <2>1. r \in Routers /\ r \in routers /\ rows[r] \in SUBSET Rows
    BY <1>4, <1>8, <1>9
  <2>2. rows'[r] = IF cmd.router = r THEN Applied(cmd, rows[r]) ELSE rows[r]
    BY <2>1, <1>4, <1>8
  <2>3. \/ cmd.what = "change" /\ cmd.rows \subseteq Expected(r)
        \/ cmd.what = "remove" /\ cmd.rows \cap Expected(r) = {}
    BY <2>1, <1>1, <1>3 DEF FlatCommands
  <2>4. Within(r, Pending(list, "remove", r), Pending(list, "change", r))
    BY <2>1, <1>3
  <2> QED
    BY <2>1, <2>2, <2>3, <2>4, <1>1, <1>3, <1>4, <1>6, AppliedWithin
<1>10. FlatPhase(g)'
  BY <1>3, <1>7, <1>9 DEF FlatPhase
<1>11. FlatBase'
  <2>1. cmd.router \in routers
    BY <1>1, <1>3 DEF FlatCommands
  <2> QED
    BY <2>1, <1>3, <1>4, <1>8 DEF FlatBase
<1> QED
  BY <1>3, <1>5, <1>10, <1>11, FlatOfPhase

LEMMA FlatCommandFails ==
  ASSUME CoreInv, FlatInv, DownEmpty, kind = "flat", CommandFails
  PROVE  FlatInv'
<1>1. PICK f, list, g, cmd : /\ f = Head(stack) /\ list = f.list /\ g = Commands(Tail(list), f.then)
                             /\ cmd = list[1]
  OBVIOUS
<1>2. Sending
  BY DEF CommandFails
<1>3. /\ FlatBase /\ OnlyInserts(Tail(stack)) /\ FlatCommands(list)
      /\ list \in Seq(CommandType) /\ list # <<>> /\ Head(list) = cmd /\ 1 \in DOMAIN list
      /\ \A r \in routers : Within(r, Pending(list, "remove", r), Pending(list, "change", r))
      /\ stack # <<>> /\ Tail(stack) \in Seq(Calls)
      /\ g \in Calls /\ g.op = "commands" /\ g.then = Done /\ g.list = Tail(list)
  <2>1. FlatSends(list, g)
    BY <1>1, <1>2, FlatSending
  <2> QED
    BY <2>1, <1>1 DEF FlatSends
<1>4. /\ UNCHANGED <<deployment, alive, computers, announced, session, rows>>
      /\ routers' = routers \ {cmd.router} /\ ~ Reaches(cmd)
      /\ stack' = <<g>> \o Tail(stack)
  BY <1>1, <1>3, FailsStack DEF CommandFails, network
<1>5. stack' # <<>> /\ Head(stack') = g /\ Tail(stack') = Tail(stack)
  BY <1>3, <1>4, PushFirst
<1>6. \A r \in Routers : Expected(r)' = Expected(r)
  BY <1>4, SameExpected
<1>7. FlatCommands(Tail(list))'
  BY <1>1, <1>3, <1>4, <1>6, FlatTail
<1>8. rows \in [Routers -> SUBSET Rows] /\ routers \in SUBSET Routers
  BY DEF CoreInv, RoutersType, TablesType
<1>9. cmd.router \in Routers /\ rows[cmd.router] = {}
  <2>1. cmd.to = "table-server" /\ cmd.router \in routers
    BY <1>1, <1>3 DEF FlatCommands
  <2>2. session[cmd.router] = "down"
    BY <2>1, <1>4 DEF Reaches
  <2> QED
    BY <2>1, <2>2, <1>8 DEF DownEmpty
<1>10. ASSUME NEW r \in routers'
       PROVE  Within(r, Pending(Tail(list), "remove", r), Pending(Tail(list), "change", r))'
  <2>1. r \in Routers /\ r \in routers /\ r # cmd.router
    BY <1>4, <1>8, <1>10
  <2>2. Within(r, Pending(list, "remove", r), Pending(list, "change", r))
    BY <2>1, <1>3
  <2>3. /\ Pending(list, "remove", r) \subseteq Pending(Tail(list), "remove", r)
        /\ Pending(list, "change", r) \subseteq Pending(Tail(list), "change", r)
    BY <2>1, <1>1, <1>3, PendingRest
  <2> QED
    BY <2>1, <2>2, <2>3, <1>4, <1>6 DEF Within
<1>11. FlatPhase(g)'
  BY <1>3, <1>7, <1>10 DEF FlatPhase
<1>12. FlatBase'
  BY <1>3, <1>4, <1>9 DEF FlatBase
<1> QED
  BY <1>3, <1>5, <1>11, <1>12, FlatOfPhase

LEMMA FlatLoopEnds ==
  ASSUME CoreInv, FlatInv, kind = "flat", LoopEnds
  PROVE  FlatInv'
<1>1. PICK f : f = Head(stack)
  OBVIOUS
<1>2. /\ stack # <<>> /\ stack \in Seq(Calls) /\ f.op = "commands" /\ f.list = <<>>
      /\ UNCHANGED <<deployment, alive, computers, routers, session, rows>>
  BY <1>1, TopCommands DEF LoopEnds, base, network, GoodStack
<1>3. FlatBase /\ OnlyInserts(Tail(stack)) /\ FlatPhase(f)
  BY <1>1, <1>2, FlatRunning
<1>4. f.then = Done /\ \A r \in routers : Within(r, {}, {})
  BY <1>2, <1>3, PendingNone DEF FlatPhase
<1>5. stack' = Tail(stack) /\ announced' = announced
  BY <1>1, <1>4 DEF LoopEnds, Done
<1>6. \A r \in routers' : Within(r, {}, {})'
  BY <1>2, <1>4, <1>5, SameExpected, SameWithin
<1>7. FlatBase'
  BY <1>2, <1>3, <1>5 DEF FlatBase
<1> QED
  BY <1>3, <1>5, <1>6, <1>7, FlatOfRest

\* Steps of the routers and of the proxy: tables are left alone, or lost.
LEMMA FlatSame ==
  ASSUME CoreInv, FlatInv, kind = "flat",
         UNCHANGED <<deployment, alive, computers, routers, announced, stack>>,
         \A r \in Routers : \/ rows'[r] = rows[r] /\ session'[r] = session[r]
                            \/ rows'[r] = {} /\ session'[r] # "running"
  PROVE  FlatInv'
<1>1. \A r \in routers : \A extra, missing : Within(r, extra, missing) => Within(r, extra, missing)'
  <2>1. routers \in SUBSET Routers
    BY DEF CoreInv, RoutersType
  <2> QED
    BY <2>1, SameExpected, SameWithin
<1>2. FlatBase'
  BY DEF FlatBase, FlatInv
<1>3. CASE OnlyInserts(stack) /\ \A r \in routers : Within(r, {}, {})
  BY <1>1, <1>2, <1>3, FlatOfRest
<1>4. CASE stack # <<>> /\ OnlyInserts(Tail(stack)) /\ FlatPhase(Head(stack))
  <2>1. PICK f : f = Head(stack)
    OBVIOUS
  <2>2. FlatCommands(f.list) => FlatCommands(f.list)'
    BY SameExpected DEF FlatCommands
  <2>3. FlatPhase(f)'
    BY <2>1, <2>2, <1>1, <1>4 DEF FlatPhase
  <2> QED
    BY <2>1, <2>3, <1>2, <1>4, FlatOfPhase
<1> QED
  BY <1>3, <1>4 DEF FlatInv

(***************************************************************************)
(* A hierarchical controller.                                              *)
(***************************************************************************)
LEMMA HierOfRest ==
  ASSUME NEW s, stack' = s, Later(s, computers'), Settled(s)'
  PROVE  HierInv'
  BY DEF HierInv

LEMMA HierOfPhase ==
  ASSUME stack' # <<>>, NEW f, f = Head(stack'), NEW s, s = Tail(stack'),
         Later(s, computers'), HierPhase(f, s)'
  PROVE  HierInv'
  BY DEF HierInv

\* The first call and the others.
LEMMA LaterFirst ==
  ASSUME NEW s \in Seq(Calls), s # <<>>, NEW comp
  PROVE  Later(s, comp) <=> LaterCall(Head(s), comp) /\ Later(Tail(s), comp)
<1>1. PICK t : t = Tail(s)
  OBVIOUS
<1>2. /\ Head(s) = s[1] /\ 1 \in DOMAIN s
      /\ \A i \in DOMAIN t : i + 1 \in DOMAIN s /\ t[i] = s[i + 1]
      /\ \A i \in DOMAIN s : i = 1 \/ (i - 1 \in DOMAIN t /\ s[i] = t[i - 1])
  BY <1>1, TailFacts
<1> QED
  BY <1>1, <1>2 DEF Later

LEMMA AwaitsFirst ==
  ASSUME NEW s \in Seq(Calls), s # <<>>, NEW c
  PROVE  Awaits(s, c) <=> Head(s) = AnnounceCall(c) \/ Awaits(Tail(s), c)
<1>1. PICK t : t = Tail(s)
  OBVIOUS
<1>2. /\ Head(s) = s[1] /\ 1 \in DOMAIN s
      /\ \A i \in DOMAIN t : i + 1 \in DOMAIN s /\ t[i] = s[i + 1]
      /\ \A i \in DOMAIN s : i = 1 \/ (i - 1 \in DOMAIN t /\ s[i] = t[i - 1])
  BY <1>1, TailFacts
<1> QED
  BY <1>1, <1>2 DEF Awaits

LEMMA NothingLater ==
  ASSUME NEW comp
  PROVE  Later(<<>>, comp) /\ \A c : ~ Awaits(<<>>, c)
<1>1. DOMAIN <<>> = {}
  OBVIOUS
<1> QED
  BY <1>1 DEF Later, Awaits

\* Nothing runs, or the next call is to announce or to insert a computer.
LEMMA HierResting ==
  ASSUME HierInv, kind = "hier", routers = ft, alive, stack = <<>> \/ Head(stack).op \in {"insert", "announce"}
  PROVE  Later(stack, computers) /\ Settled(stack)
  BY DEF HierInv, HierPhase, Withdrawing, Removing, Homing, Spreading, Resetting

LEMMA HierRunning ==
  ASSUME HierInv, kind = "hier", routers = ft, alive, stack # <<>>, stack \in Seq(Calls),
         Head(stack).op \notin {"insert", "announce"}
  PROVE  Later(Tail(stack), computers) /\ HierPhase(Head(stack), Tail(stack))
  BY LaterFirst DEF HierInv, LaterCall

LEMMA HierWithdrawing ==
  ASSUME NEW f, NEW s, f.op = "withdraw", HierPhase(f, s)
  PROVE  Withdrawing(f, s)
  BY DEF HierPhase, Removing, Homing, Spreading, Resetting

LEMMA HierLooping ==
  ASSUME NEW f, NEW s, f.op = "commands", HierPhase(f, s)
  PROVE  /\ f.then.op = "done" => Removing(f, s)
         /\ f.then.op = "home" => Homing(f, s)
         /\ f.then.op = "others" => Spreading(f, s)
         /\ f.then.op = "rebuild" => Resetting(f)
  BY DEF HierPhase, Withdrawing, Removing, Homing, Spreading, Resetting

\* Steps that leave the homes alone.
LEMMA SameHomes ==
  ASSUME UNCHANGED <<computers, routers, announced>>, NEW gone, Homes(gone)
  PROVE  Homes(gone)'
<1>1. \A c, l : HomeOf(c, l)' = HomeOf(c, l)
  BY DEF HomeOf
<1> QED
  BY <1>1 DEF Homes

LEMMA SameHomed ==
  ASSUME UNCHANGED <<deployment, computers, routers, announced>>, NEW s, NEW but, Homed(s, but)
  PROVE  Homed(s, but)'
<1>1. \A c, l : HomeOf(c, l)' = HomeOf(c, l)
  BY DEF HomeOf
<1>2. NoThrow' = NoThrow
  BY DEF NoThrow
<1> QED
  BY <1>1, <1>2 DEF Homed

LEMMA SameTablesWithin ==
  ASSUME UNCHANGED <<deployment, computers, routers, announced, session, rows>>,
         NEW extra, NEW missing, \A r \in routers : Within(r, extra, missing)
  PROVE  \A r \in routers' : Within(r, extra, missing)'
  BY SameExpected, SameWithin

LEMMA SameSettled ==
  ASSUME UNCHANGED <<deployment, computers, routers, announced, session, rows>>,
         NEW s, Settled(s)
  PROVE  Settled(s)'
  BY SameHomes, SameHomed, SameTablesWithin DEF Settled

\* Expected rows are those of the homes.
LEMMA HierSameExpected ==
  ASSUME kind = "hier", UNCHANGED <<deployment, announced>>, NEW r
  PROVE  Expected(r)' = Expected(r)
  BY DEF Expected, kind

\* An insertion: the computer is to be announced.
LEMMA HierInsert ==
  ASSUME CoreInv, CoreInv', kind = "hier", NEW s \in Seq(Calls), Settled(s),
         \A x : ~ Awaits(s, x),
         NEW c \in Computers, computers[c] = {}, NEW set \in ContainerLists, Insert(c, set, <<>>),
         UNCHANGED <<deployment, alive, routers, announced, session, rows>>
  PROVE  HierInv'
<1>1. /\ stack' # <<>> /\ Head(stack') = AnnounceCall(c) /\ Tail(stack') = <<>>
      /\ computers' = [computers EXCEPT ![c] = set]
  BY InsertStack
<1>2. computers \in [Computers -> SUBSET Lambdas] /\ set # {}
  BY ContainerListFacts DEF CoreInv, Known
<1>3. computers'[c] = set /\ \A x \in Computers \ {c} : computers'[x] = computers[x]
  BY <1>1, <1>2
<1>4. PICK t : t = stack'
  OBVIOUS
<1>5. t \in Seq(Calls) /\ t # <<>> /\ Head(t) = AnnounceCall(c) /\ Tail(t) = <<>>
  BY <1>1, <1>4 DEF CoreInv, GoodStack
<1>6. Later(t, computers')
  <2>1. LaterCall(AnnounceCall(c), computers')
    BY <1>2, <1>3, CallFields DEF LaterCall
  <2>2. Later(Tail(t), computers')
    BY <1>5, NothingLater
  <2> QED
    BY <2>1, <2>2, <1>5, LaterFirst
<1>7. Awaits(t, c)
  BY <1>5, AwaitsFirst
<1>8. \A x, l : HomeOf(x, l)' = HomeOf(x, l)
  BY DEF HomeOf
<1>9. Homes({})'
  BY <1>2, <1>3, <1>8 DEF Homes, Settled
<1>10. Homed(t, {})'
  <2>1. NoThrow' = NoThrow
    BY DEF NoThrow
  <2>2. Homed(s, {})
    BY DEF Settled
  <2> QED
    BY <2>1, <2>2, <1>3, <1>7, <1>8 DEF Homed
<1>11. \A r \in routers' : Within(r, {}, {})'
  BY HierSameExpected, SameWithin DEF Settled
<1>12. Settled(t)'
  BY <1>9, <1>10, <1>11 DEF Settled
<1> QED
  BY <1>4, <1>6, <1>12, HierOfRest

\* A withdrawal: the tables are to follow.
LEMMA HierWithdraw ==
  ASSUME CoreInv, kind = "hier", Settled(<<>>),
         NEW c \in Computers, computers[c] # {}, NEW after \in Seq(Calls), OnlyInserts(after),
         Withdraw(c, after), UNCHANGED <<deployment, alive, routers, announced, session, rows>>
  PROVE  HierInv'
<1>1. PICK set : set = computers[c]
  OBVIOUS
<1>2. computers \in [Computers -> SUBSET Lambdas] /\ set \in SUBSET Lambdas /\ set \in ContainerLists
  BY <1>1 DEF CoreInv, Known, ContainerLists
<1>3. PICK f : f = ComputerCall("withdraw", c, set)
  OBVIOUS
<1>4. /\ stack' # <<>> /\ Head(stack') = f /\ Tail(stack') = after
      /\ computers' = [computers EXCEPT ![c] = {}]
  BY <1>1, <1>2, <1>3, WithdrawStack
<1>5. computers'[c] = {} /\ \A x \in Computers \ {c} : computers'[x] = computers[x]
  BY <1>2, <1>4
<1>6. f.op = "withdraw" /\ f.c = c /\ f.set = set
  BY <1>3, CallFields
<1>7. Homes({}) /\ Homed(<<>>, {}) /\ \A r \in routers : Within(r, {}, {})
  BY DEF Settled
<1>8. \A x, l : HomeOf(x, l)' = HomeOf(x, l)
  BY DEF HomeOf
<1>9. Homes({c} \X set)'
  BY <1>1, <1>5, <1>7, <1>8 DEF Homes
<1>10. Homed(after, {})'
  <2>1. NoThrow' = NoThrow
    BY DEF NoThrow
  <2> QED
    BY <2>1, <1>5, <1>7, <1>8, NothingLater DEF Homed
<1>11. ASSUME NEW r \in routers' PROVE Within(r, {}, FinalRows(c, set))'
  <2>1. Within(r, {}, {}) /\ Expected(r)' = Expected(r)
    BY <1>7, <1>11, HierSameExpected
  <2> QED
    BY <2>1 DEF Within
<1>12. Withdrawing(f, after)'
  BY <1>5, <1>6, <1>9, <1>10, <1>11 DEF Withdrawing
<1>13. Later(after, computers')
  BY DEF Later, LaterCall, OnlyInserts
<1>14. HierPhase(f, after)'
  BY <1>12 DEF HierPhase
<1> QED
  BY <1>4, <1>13, <1>14, HierOfPhase

LEMMA HierAnnounceComputer ==
  ASSUME CoreInv, CoreInv', HierInv, kind = "hier", routers = ft, NEW c \in Computers, NEW set,
         announceComputer(c, set)
  PROVE  HierInv'
<1>1. /\ set \in ContainerLists /\ stack = <<>> /\ alive
      /\ UNCHANGED <<deployment, alive, routers, announced, session, rows>>
  BY DeploymentFacts DEF announceComputer, CoreInv, network, hier, Idle
<1>2. Settled(<<>>)
  BY <1>1, HierResting
<1>3. CASE computers[c] = {} /\ Insert(c, set, <<>>)
  <2>1. <<>> \in Seq(Calls) /\ \A x : ~ Awaits(<<>>, x)
    BY NothingLater
  <2> QED
    BY <2>1, <1>1, <1>2, <1>3, HierInsert
<1>4. CASE computers[c] # {} /\ Withdraw(c, <<ComputerCall("insert", c, set)>>)
  <2>1. PICK f, after : f = ComputerCall("insert", c, set) /\ after = <<f>>
    OBVIOUS
  <2>2. f \in Calls /\ f.op = "insert"
    BY <2>1, <1>1, CallTypes DEF ComputerOps
  <2>3. after \in Seq(Calls) /\ \A i \in DOMAIN after : after[i] = f
    BY <2>1, <2>2
  <2>4. OnlyInserts(after)
    BY <2>2, <2>3 DEF OnlyInserts
  <2>5. Withdraw(c, after)
    BY <1>4, <2>1
  <2> QED
    BY <2>3, <2>4, <2>5, <1>1, <1>2, <1>4, HierWithdraw
<1>5. \/ computers[c] = {} /\ Insert(c, set, <<>>)
      \/ computers[c] # {} /\ Withdraw(c, <<ComputerCall("insert", c, set)>>)
  BY DEF announceComputer, AddStatus, ComputerCall
<1> QED
  BY <1>3, <1>4, <1>5

LEMMA HierRemoveComputer ==
  ASSUME CoreInv, HierInv, kind = "hier", routers = ft, NEW c \in Computers, removeComputer(c)
  PROVE  HierInv'
<1>1. /\ stack = <<>> /\ alive /\ computers[c] # {} /\ Withdraw(c, <<>>)
      /\ UNCHANGED <<deployment, alive, routers, announced, session, rows>>
  BY DEF removeComputer, Idle, hier, network
<1>2. Settled(<<>>)
  BY <1>1, HierResting
<1>3. <<>> \in Seq(Calls) /\ OnlyInserts(<<>>)
  BY NoInserts
<1> QED
  BY <1>1, <1>2, <1>3, HierWithdraw

LEMMA HierAddAgain ==
  ASSUME CoreInv, CoreInv', HierInv, kind = "hier", routers = ft, AddAgain
  PROVE  HierInv'
<1>1. PICK f, s : f = Head(stack) /\ s = stack
  OBVIOUS
<1>2. /\ stack # <<>> /\ alive /\ f.op = "insert" /\ Insert(f.c, f.set, Tail(stack))
      /\ UNCHANGED <<deployment, alive, routers, announced, session, rows>>
  BY <1>1 DEF AddAgain, Running, network, hier
<1>3. GoodStack(stack, computers, deployment.computers) /\ s \in Seq(Calls)
  BY <1>1 DEF CoreInv, GoodStack
<1>4. /\ f \in Calls /\ Tail(stack) = <<>> /\ computers[f.c] = {}
  BY <1>1, <1>2, <1>3, PopGood
<1>5. f.c \in Computers /\ f.set \in ContainerLists
  BY <1>2, <1>4, CallFacts, CallOps DEF ComputerOps
<1>6. Settled(s)
  BY <1>1, <1>2, HierResting
<1>7. ASSUME NEW x PROVE ~ Awaits(s, x)
  <2>1. f # AnnounceCall(x)
    BY <1>2, CallFields
  <2>2. ~ Awaits(<<>>, x)
    BY NothingLater
  <2> QED
    BY <2>1, <2>2, <1>1, <1>2, <1>3, <1>4, AwaitsFirst
<1>8. Insert(f.c, f.set, <<>>)
  BY <1>2, <1>4
<1> QED
  BY <1>2, <1>3, <1>4, <1>5, <1>6, <1>7, <1>8, HierInsert

LEMMA HierPrivateAnnounceComputer ==
  ASSUME CoreInv, CoreInv', HierInv, kind = "hier", routers = ft, privateAnnounceComputer
  PROVE  HierInv'
<1>1. PICK f, c, s : f = Head(stack) /\ c = f.c /\ s = Tail(stack)
  OBVIOUS
<1>2. /\ stack # <<>> /\ alive /\ f.op = "announce"
      /\ GoodStack(stack, computers, deployment.computers)
      /\ UNCHANGED <<deployment, alive, computers, routers, addresses, announced, session, rows>>
      /\ hier_privateAnnounceComputer(c)
  BY <1>1 DEF privateAnnounceComputer, Running, CoreInv, base, network
<1>3. f \in Calls /\ stack \in Seq(Calls) /\ s \in Seq(Calls)
  BY <1>1, <1>2, PopGood DEF GoodStack
<1>4. c \in Computers /\ f = AnnounceCall(c)
  BY <1>1, <1>2, <1>3, CallFacts, CallOps
<1>5. /\ computers \in [Computers -> SUBSET Lambdas] /\ routers \in SUBSET Routers
      /\ Located(addresses, routers)
      /\ \A x \in Computers : computers[x] # {} => x \in deployment.computers
  BY <1>2 DEF CoreInv, Known, RoutersType
<1>6. Later(stack, computers) /\ Settled(stack)
  BY <1>1, <1>2, HierResting
<1>7. computers[c] # {} /\ Later(s, computers)
  BY <1>1, <1>2, <1>3, <1>6, LaterFirst DEF LaterCall
<1>8. Homes({}) /\ Homed(stack, {}) /\ \A r \in routers : Within(r, {}, {})
  BY <1>6 DEF Settled
<1>9. Homes({})' /\ \A r \in routers' : Within(r, {}, {})'
  BY <1>2, <1>8, SameHomes, SameTablesWithin
<1>10. Homed(s, {c})'
  <2>1. Homed(s, {c})
    <3>1. \A x \in Computers \ {c} : Awaits(stack, x) => Awaits(s, x)
      <4> TAKE x \in Computers \ {c}
      <4>1. f # AnnounceCall(x)
        BY <1>1, CallFields
      <4> QED
        BY <4>1, <1>1, <1>2, <1>3, AwaitsFirst
    <3> QED
      BY <3>1, <1>8 DEF Homed
  <2> QED
    BY <2>1, <1>2, SameHomed
<1>11. CASE RouterAddresses(addresses) = {} /\ stack' = Tail(stack)
  <2>1. routers = {}
    BY <1>5, <1>11, LocatedFacts
  <2>2. Homed(s, {})'
    BY <2>1, <1>2 DEF Homed, NoThrow
  <2>3. Settled(s)'
    BY <2>2, <1>9 DEF Settled
  <2> QED
    BY <2>3, <1>1, <1>2, <1>7, <1>11, HierOfRest
<1>12. CASE Throws(address[c]) /\ stack' = <<>>
  <2>1. ~ NoThrow
    <3>1. RouterAddresses(addresses) = {address[r] : r \in routers}
      BY <1>5, LocatedFacts
    <3>2. c \in deployment.computers
      BY <1>4, <1>5, <1>7
    <3>3. RouterAddresses(addresses) \cup {address[c]}
            \subseteq {address[e] : e \in routers \cup deployment.computers}
      BY <3>1, <3>2
    <3> QED
      BY <3>3, <1>12 DEF Throws, NoThrow, InvalidNodes
  <2>2. Homed(<<>>, {})'
    BY <2>1, <1>2 DEF Homed, NoThrow
  <2>3. Settled(<<>>)'
    BY <2>2, <1>9 DEF Settled
  <2> QED
    BY <2>3, <1>12, NothingLater, HierOfRest
<1>13. CASE /\ RouterAddresses(addresses) # {} /\ ~ Throws(address[c])
            /\ \E home \in routerEndpoints(findClosest(address[c])) :
                 stack' = <<Commands(IF home \in routers
                                     THEN ToEach("change", FinalRows(c, computers[c]), {home})
                                     ELSE <<>>,
                                     [op |-> "home", c |-> c, router |-> home])>> \o Tail(stack)
  <2>1. address[c] \in Addresses
    BY <1>4, AddressFacts DEF Ends
  <2>2. routerEndpoints(findClosest(address[c])) \in SUBSET routers
    BY <2>1, <1>2, <1>13, FindClosestFacts
  <2>3. PICK set : set = FinalRows(c, computers[c])
    OBVIOUS
  <2>4. PICK home \in routers :
          stack' = <<Commands(ToEach("change", set, {home}),
                              [op |-> "home", c |-> c, router |-> home])>> \o s
    BY <2>2, <2>3, <1>1, <1>13
  <2>5. PICK list, then : /\ list = ToEach("change", set, {home})
                          /\ then = [op |-> "home", c |-> c, router |-> home]
    OBVIOUS
  <2>6. set \in SUBSET Rows /\ set # {} /\ home \in Routers
    <3>1. set \in SUBSET Rows /\ home \in Routers
      BY <2>3, <2>4, <1>4, <1>5, FinalRowsType
    <3>2. PICK l : l \in computers[c]
      BY <1>7
    <3>3. Row(l, c, TRUE) \in set
      BY <3>2, <2>3 DEF FinalRows
    <3> QED
      BY <3>1, <3>3
  <2>7. IsLoop(list, "change", set, {home})
    BY <2>5, <2>6, ToEachFacts
  <2>8. then \in ThenType /\ then.op = "home" /\ then.c = c /\ then.router = home
    BY <2>5, <2>6, <1>4, ThenFacts
  <2>9. PICK g : g = Commands(list, then)
    OBVIOUS
  <2>10. g \in Calls /\ g.op = "commands" /\ g.list = list /\ g.then = then
    BY <2>7, <2>8, <2>9, CallTypes, CommandsFields DEF IsLoop
  <2>11. stack' # <<>> /\ Head(stack') = g /\ Tail(stack') = s
    BY <2>4, <2>5, <2>9, <2>10, <1>3, PushFirst
  <2>12. \A i \in DOMAIN list : /\ list[i].what = "change" /\ list[i].router = home
                                /\ list[i].rows = set
    BY <2>7 DEF IsLoop
  <2>13. \A i, j \in DOMAIN list : i = j
    BY <2>7, <2>12 DEF IsLoop
  <2>14. list # <<>>
    <3>1. \E i \in DOMAIN list : list[i].router = home
      BY <2>6, <2>7 DEF IsLoop
    <3>2. DOMAIN <<>> = {}
      OBVIOUS
    <3> QED
      BY <3>1, <3>2
  <2>15. Homing(g, s)'
    BY <2>3, <2>4, <2>8, <2>10, <2>12, <2>13, <2>14, <1>2, <1>7, <1>9, <1>10 DEF Homing
  <2>16. HierPhase(g, s)' /\ Later(s, computers')
    BY <2>15, <1>2, <1>7 DEF HierPhase
  <2> QED
    BY <2>11, <2>16, HierOfPhase
<1> QED
  BY <1>2, <1>11, <1>12, <1>13 DEF hier_privateAnnounceComputer

LEMMA HierPrivateRemoveComputer ==
  ASSUME CoreInv, HierInv, kind = "hier", routers = ft, privateRemoveComputer
  PROVE  HierInv'
<1>1. PICK f, c, set, s : f = Head(stack) /\ c = f.c /\ set = f.set /\ s = Tail(stack)
  OBVIOUS
<1>2. /\ stack # <<>> /\ alive /\ f.op = "withdraw"
      /\ GoodStack(stack, computers, deployment.computers)
      /\ UNCHANGED <<deployment, alive, computers, routers, session, rows>>
      /\ hier_privateRemoveComputer(c, set)
  BY <1>1 DEF privateRemoveComputer, Running, CoreInv, base, network
<1>3. f \in Calls /\ stack \in Seq(Calls) /\ s \in Seq(Calls)
  BY <1>1, <1>2, PopGood DEF GoodStack
<1>4. c \in Computers /\ set \in SUBSET Lambdas
  BY <1>1, <1>2, <1>3, CallFacts, CallOps, ContainerListFacts DEF ComputerOps
<1>5. /\ computers \in [Computers -> SUBSET Lambdas] /\ ft \in SUBSET Routers
      /\ announced \in [Routers -> [Lambdas -> SUBSET Computers]]
  BY <1>2 DEF CoreInv, Known, RoutersType
<1>6. Later(s, computers) /\ Withdrawing(f, s)
  BY <1>1, <1>2, <1>3, HierRunning, HierWithdrawing
<1>7. /\ computers[c] = {} /\ Homes({c} \X set) /\ Homed(s, {})
      /\ \A r \in routers : Within(r, {}, FinalRows(c, set))
  BY <1>1, <1>6 DEF Withdrawing
<1>8. PICK order, list : /\ order = Sorted(set)
                         /\ list = FlattenSeq([i \in DOMAIN order |-> RemoveElems(c, order[i])])
  OBVIOUS
<1>9. Removal(list) /\ (list = <<>> => \A l \in set : HomeOf(c, l) = {})
  BY <1>4, <1>5, <1>8, RemovalFacts
<1>10. PICK g : g = Commands(list, Done)
  OBVIOUS
<1>11. /\ g \in Calls /\ g.op = "commands" /\ g.list = list /\ g.then = Done /\ g.then.op = "done"
  BY <1>9, <1>10, CallTypes, ThenFacts, CommandsFields DEF Removal
<1>12. stack' = <<g>> \o s
  BY <1>1, <1>2, <1>8, <1>10 DEF hier_privateRemoveComputer
<1>13. stack' # <<>> /\ Head(stack') = g /\ Tail(stack') = s
  BY <1>3, <1>11, <1>12, PushFirst
<1>14. ASSUME list = <<>> PROVE Settled(s)'
  <2>1. \A l \in set : HomeOf(c, l) = {}
    BY <1>9, <1>14
  <2>2. announced' = announced
    <3>1. announced' = [r \in Routers |-> [l \in Lambdas |->
            IF l \in set /\ HomeOf(c, l) # {} /\ r = FirstHome(c, l)
            THEN announced[r][l] \ {c} ELSE announced[r][l]]]
      BY <1>2 DEF hier_privateRemoveComputer
    <3>2. announced' = [r \in Routers |-> [l \in Lambdas |-> announced[r][l]]]
      BY <2>1, <3>1
    <3> QED
      BY <3>2, <1>5
  <2>3. Homes({})
    BY <2>1, <1>7 DEF Homes
  <2>4. ASSUME NEW r \in routers PROVE Within(r, {}, {})
    <3>1. Expected(r) \in SUBSET Rows /\ \A x \in Rows : x \in Expected(r) <=> HierExpected(r, x)
      BY <1>5, ExpectedFacts
    <3>2. r \in Routers
      BY <2>4 DEF CoreInv, RoutersType
    <3>3. \A x \in Rows : x \in FinalRows(c, set) <=> x.d = c /\ x.l \in set
      BY <1>4, FinalRowsFacts
    <3>4. ASSUME NEW x \in Rows, x \in FinalRows(c, set) PROVE x \notin Expected(r)
      <4>1. x.d = c /\ x.l \in set /\ c \notin Routers
        BY <3>3, <3>4, <1>4, EndsAssumption
      <4>2. HomeOf(c, x.l) = {}
        BY <4>1, <2>1
      <4>3. c \notin announced[r][x.l]
        BY <4>2, <3>2 DEF HomeOf
      <4> QED
        BY <4>1, <4>3, <3>1 DEF HierExpected
    <3>5. Within(r, {}, FinalRows(c, set))
      BY <2>4, <1>7
    <3> QED
      BY <3>1, <3>4, <3>5 DEF Within
  <2>5. Settled(s)
    BY <2>3, <2>4, <1>7 DEF Settled
  <2> QED
    BY <2>2, <2>5, <1>2, SameSettled
<1>15. Removing(g, s)'
  BY <1>9, <1>11, <1>14 DEF Removing, Removal
<1>16. HierPhase(g, s)' /\ Later(s, computers')
  BY <1>15, <1>2, <1>6 DEF HierPhase
<1> QED
  BY <1>13, <1>16, HierOfPhase

LEMMA HierAnnounceRouter ==
  ASSUME CoreInv, HierInv, kind = "hier", routers = ft, NEW r \in Routers, announceRouter(r)
  PROVE  HierInv'
<1>1. /\ alive /\ stack = <<>> /\ routers' = routers \cup {r} /\ hier_privateAnnounceRouter(r)
  BY DEF announceRouter, Idle
<1>2. CASE alive' = FALSE
  BY <1>2 DEF HierInv
<1>3. CASE stack' = <<Flush(ft \cup {r})>>
  <2>1. PICK whom : whom = routers'
    OBVIOUS
  <2>2. whom \in SUBSET Routers /\ whom = ft \cup {r}
    BY <2>1, <1>1, <1>3 DEF CoreInv, RoutersType
  <2>3. PICK list : Flush(whom) = Commands(list, [op |-> "rebuild"]) /\ IsLoop(list, "flush", {}, whom)
    BY <2>2, FlushFacts
  <2>4. PICK g : g = Commands(list, [op |-> "rebuild"])
    OBVIOUS
  <2>5. g \in Calls /\ g.op = "commands" /\ g.list = list /\ g.then.op = "rebuild"
    BY <2>3, <2>4, CallTypes, ThenFacts, CommandsFields DEF IsLoop
  <2>6. stack' # <<>> /\ Head(stack') = g /\ Tail(stack') = <<>>
    BY <2>2, <2>3, <2>4, <2>5, <1>3, OneCall
  <2>7. Resetting(g)'
    BY <2>1, <2>3, <2>5 DEF Resetting, IsLoop
  <2>8. HierPhase(g, <<>>)' /\ Later(<<>>, computers')
    BY <2>7, NothingLater DEF HierPhase
  <2> QED
    BY <2>6, <2>8, HierOfPhase
<1> QED
  BY <1>1, <1>2, <1>3 DEF hier_privateAnnounceRouter

LEMMA HierCommandFails ==
  ASSUME CoreInv, HierLater, HierInv, kind = "hier", CommandFails
  PROVE  HierInv'
<1>1. PICK f, r, s : f = Head(stack) /\ r = Head(f.list).router /\ s = Tail(stack)
  OBVIOUS
<1>2. /\ Running("commands") /\ alive /\ stack # <<>> /\ f.op = "commands" /\ f.list # <<>>
      /\ UNCHANGED <<deployment, computers>> /\ routers' = routers \ {r}
  BY <1>1 DEF CommandFails, Sending, Running
<1>3. stack \in Seq(Calls) /\ s \in Seq(Calls) /\ f.list \in Seq(CommandType)
  BY <1>1, <1>2, TopCommands, PopGood DEF GoodStack
<1>4. Later(s, computers)
  BY <1>1, <1>2 DEF HierLater
<1>5. routers \subseteq ft /\ ft \in SUBSET Routers
  BY <1>2 DEF CoreInv, RoutersType
<1>6. CASE f.then = Others /\ alive' \in BOOLEAN /\ stack' = <<>> /\ ft' = ft
  <2>1. CASE routers = ft
    <3>1. HierPhase(f, s) /\ f.then.op = "others"
      BY <2>1, <1>1, <1>2, <1>3, <1>6, HierRunning DEF Others
    <3>2. Spreading(f, s)
      BY <3>1, <1>2, HierLooping
    <3>3. 1 \in DOMAIN f.list /\ Head(f.list) = f.list[1]
      BY <1>2, <1>3
    <3>4. r \in ft
      BY <3>2, <3>3, <2>1, <1>1 DEF Spreading
    <3> QED
      BY <3>4, <1>2, <1>6 DEF HierInv
  <2>2. CASE routers # ft
    BY <2>2, <1>2, <1>5, <1>6 DEF HierInv
  <2> QED
    BY <2>1, <2>2
<1>7. CASE hier_privateRemoveRouter(r) /\ routers' = ft'
  <2>1. PICK whom : whom = routers'
    OBVIOUS
  <2>2. whom \in SUBSET Routers /\ whom = ft \ {r}
    BY <2>1, <1>5, <1>7 DEF hier_privateRemoveRouter
  <2>3. PICK list : Flush(whom) = Commands(list, [op |-> "rebuild"]) /\ IsLoop(list, "flush", {}, whom)
    BY <2>2, FlushFacts
  <2>4. PICK g : g = Commands(list, [op |-> "rebuild"])
    OBVIOUS
  <2>5. g \in Calls /\ g.op = "commands" /\ g.list = list /\ g.then.op = "rebuild"
    BY <2>3, <2>4, CallTypes, ThenFacts, CommandsFields DEF IsLoop
  <2>6. stack' = <<g>> \o s
    BY <2>2, <2>3, <2>4, <1>1, <1>7 DEF hier_privateRemoveRouter
  <2>7. stack' # <<>> /\ Head(stack') = g /\ Tail(stack') = s
    BY <2>5, <2>6, <1>3, PushFirst
  <2>8. Resetting(g)'
    BY <2>1, <2>3, <2>5 DEF Resetting, IsLoop
  <2>9. HierPhase(g, s)' /\ Later(s, computers')
    BY <2>8, <1>2, <1>4 DEF HierPhase
  <2> QED
    BY <2>7, <2>9, HierOfPhase
<1>8. CASE routers' # ft'
  BY <1>8 DEF HierInv
<1> QED
  BY <1>1, <1>6, <1>7, <1>8 DEF CommandFails

\* The first command of a loop is carried out.
HierSends(f, list, s, t) ==
  /\ stack # <<>> /\ s \in Seq(Calls) /\ alive /\ f.op = "commands"
  /\ Later(s, computers) /\ HierPhase(f, s) /\ f.then \in ThenType
  /\ list = f.list /\ list \in Seq(CommandType) /\ list # <<>>
  /\ list[1] \in CommandType /\ Head(list) = list[1]
  /\ t = Tail(list) /\ t \in Seq(CommandType)
  /\ \A i \in DOMAIN t : i + 1 \in DOMAIN list /\ t[i] = list[i + 1]
  /\ \A i \in DOMAIN list : i = 1 \/ (i - 1 \in DOMAIN t /\ list[i] = t[i - 1])

LEMMA HierSending ==
  ASSUME CoreInv, HierInv, kind = "hier", routers = ft, Sending
  PROVE  HierSends(Head(stack), Head(stack).list, Tail(stack), Tail(Head(stack).list))
<1>1. PICK f, list, s, t : /\ f = Head(stack) /\ list = f.list /\ s = Tail(stack) /\ t = Tail(list)
  OBVIOUS
<1>2. /\ stack # <<>> /\ alive /\ f.op = "commands" /\ list # <<>> /\ stack \in Seq(Calls)
      /\ list \in Seq(CommandType) /\ f.then \in ThenType
  BY <1>1, TopCommands DEF Sending, GoodStack, Running
<1>3. Later(s, computers) /\ HierPhase(f, s)
  BY <1>1, <1>2, HierRunning
<1>4. s \in Seq(Calls)
  BY <1>1, <1>2, TailFacts
<1>5. /\ list[1] \in CommandType /\ Head(list) = list[1] /\ t \in Seq(CommandType)
      /\ \A i \in DOMAIN t : i + 1 \in DOMAIN list /\ t[i] = list[i + 1]
      /\ \A i \in DOMAIN list : i = 1 \/ (i - 1 \in DOMAIN t /\ list[i] = t[i - 1])
  BY <1>1, <1>2, TailFacts
<1>6. HierSends(f, list, s, t)
  BY <1>1, <1>2, <1>3, <1>4, <1>5 DEF HierSends
<1> QED
  BY <1>1, <1>6

LEMMA HierCommandSucceeds ==
  ASSUME CoreInv, HierInv, kind = "hier", routers = ft, CommandSucceeds
  PROVE  HierInv'
<1>1. PICK f, list, s, t, then, g, cmd :
        /\ f = Head(stack) /\ list = f.list /\ s = Tail(stack) /\ t = Tail(list)
        /\ then = f.then /\ g = Commands(t, then) /\ cmd = list[1]
  OBVIOUS
<1>2. Sending
  BY DEF CommandSucceeds
<1>3. HierSends(f, list, s, t)
  BY <1>1, <1>2, HierSending
<1>4. /\ stack # <<>> /\ s \in Seq(Calls) /\ alive /\ f.op = "commands"
      /\ Later(s, computers) /\ HierPhase(f, s) /\ then \in ThenType
      /\ list \in Seq(CommandType) /\ list # <<>>
      /\ cmd \in CommandType /\ Head(list) = cmd /\ t \in Seq(CommandType)
  BY <1>1, <1>3 DEF HierSends
<1>5. /\ \A i \in DOMAIN t : i + 1 \in DOMAIN list /\ t[i] = list[i + 1]
      /\ \A i \in DOMAIN list : i = 1 \/ (i - 1 \in DOMAIN t /\ list[i] = t[i - 1])
      /\ 1 \in DOMAIN list /\ DOMAIN t = 1..Len(t) /\ Len(t) \in Nat
  BY <1>1, <1>3, <1>4, TailFacts DEF HierSends
<1>6. /\ UNCHANGED <<deployment, alive, computers, routers, announced, session>>
      /\ rows' = [rows EXCEPT ![cmd.router] = Applied(cmd, @)]
      /\ stack' = <<g>> \o s /\ cmd.to = "table-server"
  BY <1>1, <1>4, SucceedsStack DEF CommandSucceeds, base, hier, Reaches
<1>7. g \in Calls /\ g.op = "commands" /\ g.list = t /\ g.then = then
  <2>1. g = Commands(t, then) /\ t \in Seq(CommandType) /\ then \in ThenType
    BY <1>1, <1>4
  <2> QED
    BY <2>1, CallTypes, CommandsFields
<1>8. stack' # <<>> /\ Head(stack') = g /\ Tail(stack') = s
  BY <1>4, <1>6, <1>7, PushFirst
<1>9. \A r \in Routers : Expected(r)' = Expected(r)
  BY <1>6, SameExpected
<1>10. /\ rows \in [Routers -> SUBSET Rows] /\ routers \in SUBSET Routers /\ cmd.router \in Routers
       /\ computers \in [Computers -> SUBSET Lambdas]
  BY <1>4 DEF CoreInv, RoutersType, TablesType, CommandType, Known
<1>11. \A r \in Routers : rows'[r] = IF cmd.router = r THEN Applied(cmd, rows[r]) ELSE rows[r]
  BY <1>6, <1>10
<1>12. ASSUME HierPhase(g, s)' PROVE HierInv'
  BY <1>4, <1>6, <1>8, <1>12, HierOfPhase
<1>13. CASE then.op = "done"
  BY <1>1, <1>4, <1>6, <1>13, HierLooping DEF Removing
<1>14. CASE then.op = "others"
  <2>1. /\ Homes({}) /\ Homed(s, {})
        /\ \A i \in DOMAIN list :
             /\ list[i].what = "change" /\ list[i].router \in routers
             /\ list[i].rows \subseteq Expected(list[i].router)
        /\ \A r \in routers : Within(r, {}, Pending(list, "change", r))
    BY <1>1, <1>4, <1>14, HierLooping DEF Spreading
  <2>2. Homes({})' /\ Homed(s, {})'
    BY <2>1, <1>6, SameHomes, SameHomed
  <2>3. ASSUME NEW i \in DOMAIN t
        PROVE  /\ t[i].what = "change" /\ t[i].router \in routers'
               /\ t[i].rows \subseteq Expected(t[i].router)'
    <3>1. PICK k : k = i + 1
      OBVIOUS
    <3>2. k \in DOMAIN list /\ t[i] = list[k]
      BY <3>1, <1>5
    <3>3. list[k] \in CommandType
      BY <3>2, <1>4
    <3>4. t[i].router \in Routers
      BY <3>2, <3>3 DEF CommandType
    <3> QED
      BY <3>2, <3>4, <2>1, <1>6, <1>9
  <2>4. ASSUME NEW r \in routers' PROVE Within(r, {}, Pending(t, "change", r))'
    <3>1. r \in Routers /\ r \in routers /\ session'[r] = session[r] /\ Expected(r)' = Expected(r)
      BY <2>4, <1>6, <1>9, <1>10
    <3>2. Within(r, {}, Pending(list, "change", r)) /\ rows[r] \in SUBSET Rows
      BY <3>1, <2>1, <1>10
    <3>3. CASE cmd.router = r
      <4>1. cmd.what = "change" /\ cmd.rows \subseteq Expected(r)
        BY <3>3, <2>1, <1>1, <1>5
      <4>2. rows'[r] = rows[r] \cup cmd.rows
        BY <3>1, <3>2, <3>3, <4>1, <1>4, <1>11, AppliedFacts
      <4>3. Pending(list, "change", r) \subseteq Pending(t, "change", r) \cup cmd.rows
        BY <1>1, <1>4, PendingFirst
      <4> QED
        BY <4>1, <4>2, <4>3, <3>1, <3>2 DEF Within
    <3>4. CASE cmd.router # r
      <4>1. rows'[r] = rows[r]
        BY <3>1, <3>4, <1>11
      <4>2. Pending(list, "change", r) \subseteq Pending(t, "change", r)
        BY <3>4, <1>1, <1>4, PendingRest
      <4> QED
        BY <4>1, <4>2, <3>1, <3>2 DEF Within
    <3> QED
      BY <3>3, <3>4
  <2>5. Spreading(g, s)'
    BY <2>2, <2>3, <2>4, <1>7, <1>14 DEF Spreading
  <2> QED
    BY <2>5, <1>12 DEF HierPhase
<1>15. CASE then.op = "home"
  <2>1. PICK c, home, set : c = then.c /\ home = then.router /\ set = FinalRows(c, computers[c])
    OBVIOUS
  <2>2. Homing(f, s)
    BY <1>1, <1>4, <1>15, HierLooping
  <2>3. /\ computers[c] # {} /\ home \in routers /\ Homes({}) /\ Homed(s, {c})
        /\ \A i, j \in DOMAIN list : /\ list[i].what = "change" /\ list[i].router = home
                                     /\ list[i].rows = set /\ i = j
    BY <2>1, <2>2, <1>1 DEF Homing
  <2>4. \A r \in routers : Within(r, {}, {})
    BY <2>2, <1>1, <1>4 DEF Homing
  <2>5. Homes({})' /\ Homed(s, {c})'
    BY <2>3, <1>6, SameHomes, SameHomed
  <2>6. DOMAIN t = {} /\ t = <<>>
    <3>1. ASSUME NEW i \in DOMAIN t PROVE FALSE
      <4>1. PICK k : k = i + 1
        OBVIOUS
      <4>2. k \in DOMAIN list /\ i \in Nat /\ i # 0
        BY <4>1, <3>1, <1>5
      <4>3. k = 1
        BY <4>2, <2>3, <1>5
      <4> QED
        BY <4>1, <4>2, <4>3
    <3>2. DOMAIN t = {}
      BY <3>1
    <3>3. Len(t) = 0
      BY <3>2, <1>5
    <3> QED
      BY <3>2, <3>3, <1>4, EmptySeq
  <2>7. cmd.what = "change" /\ cmd.router = home /\ cmd.rows = set
    BY <2>3, <1>1, <1>5
  <2>8. ASSUME NEW r \in routers'
        PROVE  /\ r = home => /\ rows'[r] \subseteq Expected(r)' \cup set
                              /\ session'[r] = "running" => Expected(r)' \cup set \subseteq rows'[r]
               /\ r # home => Within(r, {}, {})'
    <3>1. /\ r \in Routers /\ r \in routers /\ session'[r] = session[r] /\ Expected(r)' = Expected(r)
          /\ Within(r, {}, {}) /\ rows[r] \in SUBSET Rows
      BY <2>4, <2>8, <1>6, <1>9, <1>10
    <3>2. CASE r = home
      <4>1. rows'[r] = rows[r] \cup set
        BY <3>1, <3>2, <2>7, <1>4, <1>11, AppliedFacts
      <4> QED
        BY <4>1, <3>1, <3>2 DEF Within
    <3>3. CASE r # home
      <4>1. rows'[r] = rows[r]
        BY <3>1, <3>3, <2>7, <1>11
      <4> QED
        BY <4>1, <3>1, <3>3 DEF Within
    <3> QED
      BY <3>2, <3>3
  <2>9. Homing(g, s)'
    BY <2>1, <2>3, <2>5, <2>6, <2>8, <1>6, <1>7, <1>15 DEF Homing
  <2> QED
    BY <2>9, <1>12 DEF HierPhase
<1>16. CASE then.op = "rebuild"
  <2>1. /\ \A i \in DOMAIN list : list[i].what = "flush"
        /\ \A r \in routers : rows[r] = {} \/ \E i \in DOMAIN list : list[i].router = r
    BY <1>1, <1>4, <1>16, HierLooping DEF Resetting
  <2>2. \A i \in DOMAIN t : t[i].what = "flush"
    BY <2>1, <1>5
  <2>3. ASSUME NEW r \in routers' PROVE rows'[r] = {} \/ \E i \in DOMAIN t : t[i].router = r
    <3>1. r \in Routers /\ r \in routers /\ rows[r] \in SUBSET Rows
      BY <2>3, <1>6, <1>10
    <3>2. CASE cmd.router = r
      <4>1. cmd.what = "flush"
        BY <2>1, <1>1, <1>5
      <4> QED
        BY <4>1, <3>1, <3>2, <1>4, <1>11, AppliedFacts
    <3>3. CASE cmd.router # r /\ rows[r] # {}
      <4>1. PICK i \in DOMAIN list : list[i].router = r
        BY <3>1, <3>3, <2>1
      <4>2. i # 1
        BY <4>1, <3>3, <1>1
      <4> QED
        BY <4>1, <4>2, <1>5
    <3>4. CASE cmd.router # r /\ rows[r] = {}
      BY <3>1, <3>4, <1>11
    <3> QED
      BY <3>2, <3>3, <3>4
  <2>4. Resetting(g)'
    BY <2>2, <2>3, <1>7, <1>16 DEF Resetting
  <2> QED
    BY <2>4, <1>12 DEF HierPhase
<1> QED
  BY <1>4, <1>13, <1>14, <1>15, <1>16, ThenFacts

\* The home router serves the computer: what the others are told of it.
LEMMA HierAnnounceHome ==
  ASSUME CoreInv, kind = "hier", stack # <<>>,
         NEW s \in Seq(Calls), s = Tail(stack), Later(s, computers),
         NEW f, f.list = <<>>, NEW c \in Computers, c = f.then.c,
         NEW home \in Routers, home = f.then.router, Homing(f, s),
         AnnounceHome(c, home),
         UNCHANGED <<deployment, alive, computers, routers, session, rows>>
  PROVE  HierInv'
<1>1. PICK new, set : /\ new = {l \in computers[c] : announced[home][l] = {}}
                      /\ set = {Row(l, home, FALSE) : l \in new}
  OBVIOUS
<1>2. PICK list, g : list = ToEach("change", set, routers \ {home}) /\ g = Commands(list, Others)
  OBVIOUS
<1>3. /\ announced' = [announced EXCEPT ![home] =
            [l \in Lambdas |-> IF l \in computers[c] THEN @[l] \cup {c} ELSE @[l]]]
      /\ stack' = <<g>> \o s
  BY <1>1, <1>2 DEF AnnounceHome
<1>4. /\ announced \in [Routers -> [Lambdas -> SUBSET Computers]] /\ routers \in SUBSET Routers
      /\ computers \in [Computers -> SUBSET Lambdas]
  BY DEF CoreInv, RoutersType, Known
<1>5. /\ announced' \in [Routers -> [Lambdas -> SUBSET Computers]]
      /\ \A l \in Lambdas : announced'[home][l] = IF l \in computers[c] THEN announced[home][l] \cup {c}
                                                  ELSE announced[home][l]
      /\ \A r \in Routers \ {home} : announced'[r] = announced[r]
  BY <1>3, <1>4
<1>5a. ASSUME NEW l \in Lambdas
       PROVE  /\ l \in computers[c] => announced'[home][l] = announced[home][l] \cup {c}
              /\ l \notin computers[c] => announced'[home][l] = announced[home][l]
  BY <1>5
<1>5b. \A l \in Lambdas, x \in Computers :
         x \in announced'[home][l] <=> x \in announced[home][l] \/ (x = c /\ l \in computers[c])
  <2> TAKE l \in Lambdas, x \in Computers
  <2>1. CASE l \in computers[c]
    <3>1. announced'[home][l] = announced[home][l] \cup {c}
      BY <2>1, <1>5a
    <3> QED
      BY <3>1, <2>1
  <2>2. CASE l \notin computers[c]
    <3>1. announced'[home][l] = announced[home][l]
      BY <2>2, <1>5a
    <3> QED
      BY <3>1, <2>2
  <2> QED
    BY <2>1, <2>2
<1>6. /\ computers[c] # {} /\ home \in routers /\ Homes({}) /\ Homed(s, {c})
      /\ rows[home] \subseteq Expected(home) \cup FinalRows(c, computers[c])
      /\ session[home] = "running" => Expected(home) \cup FinalRows(c, computers[c]) \subseteq rows[home]
      /\ \A r \in routers \ {home} : Within(r, {}, {})
  BY DEF Homing
<1>7. new \in SUBSET Lambdas /\ set \in SUBSET Rows
  BY <1>1, <1>4, RouterRowsType
<1>8. IsLoop(list, "change", set, routers \ {home})
  BY <1>2, <1>4, <1>7, ToEachFacts
<1>9. g \in Calls /\ g.op = "commands" /\ g.list = list /\ g.then = Others /\ g.then.op = "others"
  <2>1. list \in Seq(CommandType) /\ Others \in ThenType /\ Others.op = "others"
    BY <1>8, ThenFacts DEF IsLoop
  <2> QED
    BY <2>1, <1>2, CallTypes, CommandsFields
<1>10. stack' # <<>> /\ Head(stack') = g /\ Tail(stack') = s
  BY <1>3, <1>9, PushFirst
<1>11. \A r \in Routers, x \in Rows : /\ x \in Expected(r) <=> HierExpected(r, x)
                                      /\ x \in Expected(r)' <=> HierExpected(r, x)'
  BY <1>4, <1>5, ExpectedFacts, ExpectedNext DEF kind
<1>12. \A r \in Routers : Expected(r) \in SUBSET Rows /\ Expected(r)' \in SUBSET Rows
  BY ExpectedFacts, ExpectedNext
<1>13. \A x \in Rows : /\ x \in FinalRows(c, computers[c]) <=> x.d = c /\ x.l \in computers[c]
                       /\ x \in set <=> x.d = home /\ x.l \in new
  <2>1. \A x \in Rows : x \in FinalRows(c, computers[c]) <=> x.d = c /\ x.l \in computers[c]
    BY <1>4, FinalRowsFacts
  <2>2. \A x \in Rows : x \in {Row(l, home, FALSE) : l \in new} <=> x.d = home /\ x.l \in new
    BY <1>7, RouterRowsFacts
  <2>3. \A x \in Rows : x \in set <=> x.d = home /\ x.l \in new
    BY <2>2, <1>1
  <2> QED
    BY <2>1, <2>3
<1>14. \A x \in Rows : x \in Expected(home)' <=> x \in Expected(home) \/ x \in FinalRows(c, computers[c])
  <2> TAKE x \in Rows
  <2>1. x.l \in Lambdas /\ (x.d \in Computers => x.d \notin Routers)
    BY RowFacts, EndsAssumption
  <2>2. HierExpected(home, x)' <=> \/ x.d \in Computers /\ x.d \in announced'[home][x.l]
                                   \/ x.d \in Routers \ {home} /\ announced'[x.d][x.l] # {}
    BY DEF HierExpected
  <2>3. HierExpected(home, x) <=> \/ x.d \in Computers /\ x.d \in announced[home][x.l]
                                  \/ x.d \in Routers \ {home} /\ announced[x.d][x.l] # {}
    BY DEF HierExpected
  <2>4. CASE x.d \in Computers
    <3>1. x.d \in announced'[home][x.l] <=>
            x.d \in announced[home][x.l] \/ (x.d = c /\ x.l \in computers[c])
      BY <2>1, <2>4, <1>5b
    <3> QED
      BY <3>1, <2>1, <2>2, <2>3, <2>4, <1>11, <1>13
  <2>5. CASE x.d \notin Computers
    <3>1. x.d \in Routers \ {home} => announced'[x.d] = announced[x.d]
      BY <1>5
    <3> QED
      BY <3>1, <2>2, <2>3, <2>5, <1>11, <1>13
  <2> QED
    BY <2>4, <2>5
<1>15. \A r \in Routers \ {home} : \A x \in Rows :
         x \in Expected(r)' <=> x \in Expected(r) \/ x \in set
  <2> TAKE r \in Routers \ {home}
  <2> TAKE x \in Rows
  <2>1. x.l \in Lambdas /\ (x.d \in Computers => x.d \notin Routers)
    BY RowFacts, EndsAssumption
  <2>2. HierExpected(r, x)' <=> \/ x.d \in Computers /\ x.d \in announced'[r][x.l]
                                \/ x.d \in Routers \ {r} /\ announced'[x.d][x.l] # {}
    BY DEF HierExpected
  <2>3. HierExpected(r, x) <=> \/ x.d \in Computers /\ x.d \in announced[r][x.l]
                               \/ x.d \in Routers \ {r} /\ announced[x.d][x.l] # {}
    BY DEF HierExpected
  <2>4. announced'[home][x.l] # {} <=> announced[home][x.l] # {} \/ x.l \in new
    BY <2>1, <1>1, <1>5
  <2>5. \A d \in Routers \ {home} : announced'[d] = announced[d]
    BY <1>5
  <2> QED
    BY <2>1, <2>2, <2>3, <2>4, <2>5, <1>11, <1>13
<1>16. \A x \in Computers, l \in Lambdas :
         /\ HomeOf(x, l) \subseteq HomeOf(x, l)'
         /\ HomeOf(x, l)' = IF x = c /\ l \in computers[c] THEN HomeOf(x, l) \cup {home}
                            ELSE HomeOf(x, l)
  <2> TAKE x \in Computers, l \in Lambdas
  <2>1. \A r \in Routers : x \in announced'[r][l] <=> \/ x \in announced[r][l]
                                                      \/ r = home /\ x = c /\ l \in computers[c]
    <3> TAKE r \in Routers
    <3>1. CASE r = home
      BY <3>1, <1>5b
    <3>2. CASE r # home
      BY <3>2, <1>5
    <3> QED
      BY <3>1, <3>2
  <2> QED
    BY <2>1 DEF HomeOf
<1>17. Homes({})'
  BY <1>6, <1>16 DEF Homes
<1>18. Homed(s, {})'
  <2>1. NoThrow' = NoThrow
    BY DEF NoThrow
  <2>2. \A l \in computers[c] : HomeOf(c, l)' # {}
    BY <1>4, <1>16
  <2>3. ASSUME NoThrow, NEW x \in Computers \ {c}, NEW l \in computers[x]
        PROVE  HomeOf(x, l)' # {} \/ Awaits(s, x)
    <3>1. l \in Lambdas /\ (HomeOf(x, l) # {} \/ Awaits(s, x))
      BY <2>3, <1>4, <1>6 DEF Homed
    <3> QED
      BY <3>1, <1>16
  <2> QED
    BY <2>1, <2>2, <2>3 DEF Homed
<1>19. ASSUME NEW r \in routers' PROVE Within(r, {}, Pending(list, "change", r))'
  <2>1. r \in Routers /\ r \in routers /\ rows'[r] = rows[r] /\ session'[r] = session[r]
    BY <1>4, <1>19
  <2>2. CASE r = home
    <3>1. Expected(home)' = Expected(home) \cup FinalRows(c, computers[c])
      <4>1. FinalRows(c, computers[c]) \in SUBSET Rows
        BY <1>4, FinalRowsType
      <4> QED
        BY <4>1, <1>12, <1>14
    <3> QED
      BY <3>1, <2>1, <2>2, <1>6 DEF Within
  <2>3. CASE r # home
    <3>1. set \subseteq Pending(list, "change", r) /\ Within(r, {}, {})
      BY <2>1, <2>3, <1>6, <1>8, PendingLoop
    <3>2. Expected(r)' = Expected(r) \cup set
      BY <2>1, <2>3, <1>7, <1>12, <1>15
    <3> QED
      BY <3>1, <3>2, <2>1 DEF Within
  <2> QED
    BY <2>2, <2>3
<1>20. ASSUME NEW i \in DOMAIN list
       PROVE  /\ list[i].what = "change" /\ list[i].router \in routers'
              /\ list[i].rows \subseteq Expected(list[i].router)'
  <2>1. /\ list[i].what = "change" /\ list[i].rows = set /\ list[i].router \in routers \ {home}
        /\ list[i].router \in Routers \ {home}
    BY <1>4, <1>8, <1>20 DEF IsLoop
  <2> QED
    BY <2>1, <1>7, <1>15
<1>21. Spreading(g, s)'
  BY <1>9, <1>17, <1>18, <1>19, <1>20 DEF Spreading
<1>22. HierPhase(g, s)' /\ Later(s, computers')
  BY <1>21 DEF HierPhase
<1> QED
  BY <1>10, <1>22, HierOfPhase

\* All tables are empty: the computers are announced again.
LEMMA HierRebuild ==
  ASSUME CoreInv, kind = "hier", NEW s \in Seq(Calls), Later(s, computers),
         \A r \in routers : rows[r] = {},
         NEW p \in Seq(Calls), stack' = p \o s,
         \A i \in DOMAIN p : \E c \in Computers : computers[c] # {} /\ p[i] = AnnounceCall(c),
         \A c \in Computers : computers[c] # {} => Awaits(p, c),
         announced' = [r \in Routers |-> [l \in Lambdas |-> {}]],
         UNCHANGED <<deployment, computers, routers, rows>>
  PROVE  HierInv'
<1>1. \A c : computers[c] # {} => LaterCall(AnnounceCall(c), computers)
  BY CallFields DEF LaterCall
<1>2. PICK t : t = p \o s
  OBVIOUS
<1>3. /\ \A i \in DOMAIN t :
           \/ i \in DOMAIN p /\ t[i] = p[i]
           \/ i - Len(p) \in DOMAIN s /\ i \notin DOMAIN p /\ t[i] = s[i - Len(p)]
      /\ \A i \in DOMAIN p : i \in DOMAIN t /\ t[i] = p[i]
  BY <1>2, ConcatFacts
<1>4. Later(t, computers)
  <2>1. \A i \in DOMAIN p : LaterCall(p[i], computers)
    BY <1>1
  <2>2. \A i \in DOMAIN s : LaterCall(s[i], computers)
    BY DEF Later
  <2> QED
    BY <2>1, <2>2, <1>3 DEF Later
<1>5. \A c \in Computers : computers[c] # {} => Awaits(t, c)
  BY <1>3 DEF Awaits
<1>6. \A c \in Computers, l \in Lambdas : HomeOf(c, l)' = {}
  BY DEF HomeOf
<1>7. Homes({})'
  BY <1>6 DEF Homes
<1>8. Homed(t, {})'
  BY <1>5 DEF Homed
<1>9. ASSUME NEW r \in routers' PROVE Within(r, {}, {})'
  <2>1. r \in Routers /\ rows'[r] = {}
    BY <1>9 DEF CoreInv, RoutersType
  <2>2. announced' \in [Routers -> [Lambdas -> SUBSET Computers]] /\ kind' # "flat"
    BY DEF kind
  <2>3. Expected(r)' \in SUBSET Rows /\ \A x \in Rows : x \in Expected(r)' <=> HierExpected(r, x)'
    BY <2>2, ExpectedNext
  <2>4. \A x \in Rows : ~ HierExpected(r, x)'
    BY <2>1, RowFacts DEF HierExpected
  <2> QED
    BY <2>1, <2>3, <2>4 DEF Within
<1>10. Settled(t)'
  BY <1>7, <1>8, <1>9 DEF Settled
<1> QED
  BY <1>2, <1>4, <1>10, HierOfRest

LEMMA HierLoopEnds ==
  ASSUME CoreInv, HierInv, kind = "hier", routers = ft, LoopEnds
  PROVE  HierInv'
<1>1. PICK f, s, then : f = Head(stack) /\ s = Tail(stack) /\ then = f.then
  OBVIOUS
<1>2. /\ stack # <<>> /\ alive /\ stack \in Seq(Calls) /\ f.op = "commands" /\ f.list = <<>>
      /\ then \in ThenType
      /\ UNCHANGED <<deployment, alive, computers, routers, session, rows>>
  BY <1>1, TopCommands DEF LoopEnds, base, network, GoodStack, Running
<1>3. Later(s, computers) /\ HierPhase(f, s)
  BY <1>1, <1>2, HierRunning
<1>4. s \in Seq(Calls)
  BY <1>1, <1>2, TailFacts
<1>5. ASSUME Settled(s), stack' = s, announced' = announced PROVE HierInv'
  <2>1. Settled(s)'
    BY <1>2, <1>5, SameSettled
  <2> QED
    BY <2>1, <1>2, <1>3, <1>5, HierOfRest
<1>6. CASE then \in {Done, Others} /\ stack' = s /\ announced' = announced
  <2>1. then.op \in {"done", "others"}
    BY <1>6 DEF Done, Others
  <2>2. CASE then.op = "done"
    BY <2>2, <1>1, <1>2, <1>3, <1>5, <1>6, HierLooping DEF Removing
  <2>3. CASE then.op = "others"
    <3>1. Spreading(f, s)
      BY <2>3, <1>1, <1>2, <1>3, HierLooping
    <3>2. Settled(s)
      BY <3>1, <1>2, PendingNone DEF Spreading, Settled
    <3> QED
      BY <3>2, <1>5, <1>6
  <2> QED
    BY <2>1, <2>2, <2>3
<1>7. CASE then.op = "home" /\ AnnounceHome(then.c, then.router)
  <2>1. Homing(f, s) /\ then.c \in Computers /\ then.router \in Routers
    BY <1>1, <1>2, <1>3, <1>7, HierLooping, ThenFacts
  <2> QED
    BY <2>1, <1>1, <1>2, <1>3, <1>4, <1>7, HierAnnounceHome
<1>8. CASE /\ then.op = "rebuild" /\ announced' = [r \in Routers |-> [l \in Lambdas |-> {}]]
           /\ LET order == Sorted({c \in Computers : computers[c] # {}})
              IN stack' = [i \in DOMAIN order |-> [op |-> "announce", c |-> order[i]]]
                            \o Tail(stack)
  <2>1. PICK whom : whom = {c \in Computers : computers[c] # {}}
    OBVIOUS
  <2>2. PICK order : order = Sorted(whom)
    OBVIOUS
  <2>3. PICK p : p = [i \in DOMAIN order |-> AnnounceCall(order[i])]
    OBVIOUS
  <2>4. stack' = p \o s
    BY <2>1, <2>2, <2>3, <1>1, <1>8 DEF AnnounceCall
  <2>5. \A r \in routers : rows[r] = {}
    <3>1. DOMAIN <<>> = {}
      OBVIOUS
    <3> QED
      BY <3>1, <1>1, <1>2, <1>3, <1>8, HierLooping DEF Resetting
  <2>6. /\ NoInsert(p) /\ \A i \in DOMAIN p : \E c \in whom : p[i] = AnnounceCall(c)
        /\ \A c \in whom : \E i \in DOMAIN p : p[i] = AnnounceCall(c)
    <3>1. whom \in SUBSET Computers
      BY <2>1
    <3> QED
      BY <3>1, <2>2, <2>3, RebuildFacts
  <2>7. /\ p \in Seq(Calls) /\ \A c \in Computers : computers[c] # {} => Awaits(p, c)
        /\ \A i \in DOMAIN p : \E c \in Computers : computers[c] # {} /\ p[i] = AnnounceCall(c)
    BY <2>1, <2>6 DEF Awaits, NoInsert
  <2> QED
    BY <2>4, <2>5, <2>7, <1>2, <1>3, <1>4, <1>8, HierRebuild
<1> QED
  BY <1>1, <1>6, <1>7, <1>8 DEF LoopEnds

\* Steps of the routers and of the proxy: tables are left alone, or lost.
LEMMA HierSame ==
  ASSUME CoreInv, HierInv, kind = "hier", routers = ft, alive,
         UNCHANGED <<deployment, alive, computers, routers, announced, stack>>,
         \A r \in Routers : \/ rows'[r] = rows[r] /\ session'[r] = session[r]
                            \/ rows'[r] = {} /\ session'[r] # "running"
  PROVE  HierInv'
<1>1. \A r \in routers : \A extra, missing : Within(r, extra, missing) => Within(r, extra, missing)'
  <2>1. routers \in SUBSET Routers
    BY DEF CoreInv, RoutersType
  <2> QED
    BY <2>1, SameExpected, SameWithin
<1>2. \A gone : Homes(gone) => Homes(gone)'
  BY SameHomes
<1>3. \A s, but : Homed(s, but) => Homed(s, but)'
  BY SameHomed
<1>4. \A s : Settled(s) => Settled(s)'
  BY <1>1, <1>2, <1>3 DEF Settled
<1>5. CASE Later(stack, computers) /\ Settled(stack)
  <2>1. PICK s : s = stack
    OBVIOUS
  <2> QED
    BY <2>1, <1>4, <1>5, HierOfRest
<1>6. CASE stack # <<>> /\ Later(Tail(stack), computers) /\ HierPhase(Head(stack), Tail(stack))
  <2>1. PICK f, s : f = Head(stack) /\ s = Tail(stack)
    OBVIOUS
  <2>2. CASE Withdrawing(f, s)
    <3>1. Withdrawing(f, s)'
      BY <2>2, <1>1, <1>2, <1>3 DEF Withdrawing
    <3> QED
      BY <3>1, <2>1, <1>6, HierOfPhase DEF HierPhase
  <2>3. CASE Removing(f, s)
    <3>1. Removing(f, s)'
      BY <2>3, <1>4 DEF Removing
    <3> QED
      BY <3>1, <2>1, <1>6, HierOfPhase DEF HierPhase
  <2>4. CASE Homing(f, s)
    <3>1. PICK home, set : home = f.then.router /\ set = FinalRows(f.then.c, computers[f.then.c])
      OBVIOUS
    <3>2. ASSUME NEW r \in routers'
          PROVE  IF f.list = <<>> /\ r = home
                 THEN /\ rows'[r] \subseteq Expected(r)' \cup set
                      /\ session'[r] = "running" => Expected(r)' \cup set \subseteq rows'[r]
                 ELSE Within(r, {}, {})'
      <4>1. r \in routers /\ r \in Routers /\ Expected(r)' = Expected(r)
        BY <3>2, SameExpected DEF CoreInv, RoutersType
      <4> QED
        BY <4>1, <3>1, <2>4, <1>1 DEF Homing
    <3>3. Homing(f, s)'
      BY <3>1, <3>2, <2>4, <1>2, <1>3 DEF Homing
    <3> QED
      BY <3>3, <2>1, <1>6, HierOfPhase DEF HierPhase
  <2>5. CASE Spreading(f, s)
    <3>1. Spreading(f, s)'
      BY <2>5, <1>1, <1>2, <1>3, SameExpected DEF Spreading
    <3> QED
      BY <3>1, <2>1, <1>6, HierOfPhase DEF HierPhase
  <2>6. CASE Resetting(f)
    <3>1. Resetting(f)'
      BY <2>6 DEF Resetting, CoreInv, RoutersType
    <3> QED
      BY <3>1, <2>1, <1>6, HierOfPhase DEF HierPhase
  <2> QED
    BY <2>1, <2>2, <2>3, <2>4, <2>5, <2>6, <1>6 DEF HierPhase
<1> QED
  BY <1>5, <1>6 DEF HierInv

-----------------------------------------------------------------------------
LEMMA DownEmptyStep ==
  ASSUME CoreInv, DownEmpty, [Next]_vars
  PROVE  DownEmpty'
<1>1. /\ session \in [Routers -> {"down", "starting", "running"}]
      /\ rows \in [Routers -> SUBSET Rows]
  BY DEF CoreInv, TablesType
<1>2. CASE UNCHANGED <<session, rows>>
  BY <1>2 DEF DownEmpty
<1>3. CASE CommandSucceeds
  <2>1. PICK cmd : cmd = Head(Head(stack).list)
    OBVIOUS
  <2>2. /\ Sending /\ Reaches(cmd) /\ rows' = [rows EXCEPT ![cmd.router] = Applied(cmd, @)]
        /\ session' = session
    BY <2>1, <1>3 DEF CommandSucceeds
  <2>3. cmd.router \in Routers
    BY <2>1, <2>2, NextCommand DEF CommandType
  <2>4. session[cmd.router] # "down"
    BY <2>2 DEF Reaches
  <2> QED
    BY <2>2, <2>3, <2>4, <1>1 DEF DownEmpty
<1>4. ASSUME NEW r \in Routers, announceRouter(r) \/ Crash(r) \/ Start(r) PROVE DownEmpty'
  BY <1>1, <1>4 DEF DownEmpty, announceRouter, Crash, Start
<1>5. ASSUME NEW r \in Routers, NEW x \in rows[r], Purge(r, x) PROVE DownEmpty'
  BY <1>2, <1>5 DEF Purge
<1>6. CASE Step
  <2>1. CommandSucceeds \/ UNCHANGED <<session, rows>>
    BY <1>6 DEF Step, AddAgain, privateAnnounceComputer, privateRemoveComputer, CommandFails,
       LoopEnds, Hook, network
  <2> QED
    BY <2>1, <1>2, <1>3
<1>7. CASE Event
  <2>1. ASSUME NEW c \in Computers, NEW set, announceComputer(c, set) \/ removeComputer(c)
        PROVE  UNCHANGED <<session, rows>>
    BY <2>1 DEF announceComputer, removeComputer, network
  <2>2. ASSUME NEW k, CreateContext(k) \/ DeleteContext(k) \/ optimizeTask
        PROVE  UNCHANGED <<session, rows>>
    BY <2>2 DEF CreateContext, DeleteContext, optimizeTask, network
  <2> QED
    BY <2>1, <2>2, <1>2, <1>4, <1>5, <1>7 DEF Event
<1>8. CASE UNCHANGED vars
  BY <1>2, <1>8 DEF vars
<1> QED
  BY <1>6, <1>7, <1>8 DEF Next

\* Steps of the routers and of the proxy.
LEMMA OutsideSteps ==
  ASSUME CoreInv, DownEmpty,
         \/ \E r \in Routers : Crash(r) \/ Start(r)
         \/ \E r \in Routers : \E x \in rows[r] : Purge(r, x)
         \/ \E k \in DOMAIN ContextOf : CreateContext(k) \/ DeleteContext(k)
         \/ optimizeTask \/ UNCHANGED vars
  PROVE  /\ UNCHANGED <<deployment, alive, computers, routers, announced, stack>>
         /\ \A r \in Routers : \/ rows'[r] = rows[r] /\ session'[r] = session[r]
                               \/ rows'[r] = {} /\ session'[r] # "running"
<1>1. /\ session \in [Routers -> {"down", "starting", "running"}]
      /\ rows \in [Routers -> SUBSET Rows]
  BY DEF CoreInv, TablesType
<1>2. ASSUME NEW r \in Routers, Crash(r)
      PROVE  /\ UNCHANGED <<deployment, alive, computers, routers, announced, stack>>
             /\ \A o \in Routers : \/ rows'[o] = rows[o] /\ session'[o] = session[o]
                                   \/ rows'[o] = {} /\ session'[o] # "running"
  BY <1>1, <1>2 DEF Crash, base, hier
<1>3. UNCHANGED vars \/ optimizeTask \/ (\E k \in DOMAIN ContextOf : CreateContext(k) \/ DeleteContext(k))
        => UNCHANGED <<deployment, alive, computers, routers, announced, stack, session, rows>>
  BY DEF vars, optimizeTask, CreateContext, DeleteContext, base, hier, network
<1>4. ASSUME NEW r \in Routers, Start(r)
      PROVE  /\ UNCHANGED <<deployment, alive, computers, routers, announced, stack>>
             /\ \A o \in Routers : \/ rows'[o] = rows[o] /\ session'[o] = session[o]
                                   \/ rows'[o] = {} /\ session'[o] # "running"
  BY <1>1, <1>4 DEF Start, base, hier, DownEmpty
<1>5. ASSUME NEW r \in Routers, NEW x \in rows[r], Purge(r, x)
      PROVE  UNCHANGED <<deployment, alive, computers, routers, announced, stack, session, rows>>
  BY <1>5 DEF Purge, base, hier
<1> QED
  BY <1>2, <1>3, <1>4, <1>5

LEMMA NoHookRuns ==
  ASSUME CoreInv, FlatInv, HierLater, kind = "flat" \/ kind = "hier", Hook
  PROVE  FALSE
<1>1. PICK f : f = Head(stack)
  OBVIOUS
<1>2. /\ alive /\ stack # <<>> /\ stack \in Seq(Calls)
      /\ f.op \in {"addLambda", "delLambda", "addComputer", "delComputer"}
  BY <1>1 DEF Hook, CoreInv, GoodStack
<1>3. kind = "flat" => FlatPhase(f)
  BY <1>1, <1>2, FlatRunning
<1>5. CASE kind = "flat"
  BY <1>2, <1>3, <1>5 DEF FlatPhase
<1>6. CASE kind = "hier"
  BY <1>1, <1>2, <1>6 DEF HierLater, HookOps, LambdaOps
<1> QED
  BY <1>5, <1>6

LEMMA FlatStep ==
  ASSUME CoreInv, DownEmpty, FlatInv, HierLater, HierInv, [Next]_vars
  PROVE  FlatInv'
<1>1. kind' = kind
  BY DEF Next, Step, Event, vars, kind, AddAgain, privateAnnounceComputer, privateRemoveComputer,
     CommandSucceeds, CommandFails, LoopEnds, Hook, announceComputer, removeComputer,
     announceRouter, Crash, Start, Purge, CreateContext, DeleteContext, optimizeTask
<1>2. CASE kind # "flat"
  BY <1>1, <1>2 DEF FlatInv
<1>3. CASE kind = "flat"
  <2>1. CASE Step
    BY <2>1, <1>3, FlatAddAgain, FlatPrivateAnnounceComputer, FlatPrivateRemoveComputer,
       FlatCommandSucceeds, FlatCommandFails, FlatLoopEnds, NoHookRuns DEF Step
  <2>2. CASE \/ \E r \in Routers : Crash(r) \/ Start(r)
             \/ \E r \in Routers : \E x \in rows[r] : Purge(r, x)
             \/ \E k \in DOMAIN ContextOf : CreateContext(k) \/ DeleteContext(k)
             \/ optimizeTask \/ UNCHANGED vars
    BY <2>2, <1>3, OutsideSteps, FlatSame
  <2>3. CASE \E c \in Computers : \E set \in deployment.offers : announceComputer(c, set)
    BY <2>3, <1>3, FlatAnnounceComputer
  <2>4. CASE \E c \in Computers : removeComputer(c)
    BY <2>4, <1>3, FlatRemoveComputer
  <2>5. CASE \E r \in Routers : announceRouter(r)
    BY <2>5, <1>3, FlatAnnounceRouter
  <2> QED
    BY <2>1, <2>2, <2>3, <2>4, <2>5 DEF Next, Event
<1> QED
  BY <1>2, <1>3

LEMMA HierStep ==
  ASSUME CoreInv, CoreInv', DownEmpty, FlatInv, HierLater, HierInv, [Next]_vars
  PROVE  HierInv'
<1>1. kind' = kind
  BY DEF Next, Step, Event, vars, kind, AddAgain, privateAnnounceComputer, privateRemoveComputer,
     CommandSucceeds, CommandFails, LoopEnds, Hook, announceComputer, removeComputer,
     announceRouter, Crash, Start, Purge, CreateContext, DeleteContext, optimizeTask
<1>2. CASE kind # "hier" \/ ~ alive
  <2>1. ~ alive => (~ alive)'
    BY DEF Next, Step, Event, vars, Idle, Running, Sending, AddAgain, privateAnnounceComputer,
       privateRemoveComputer, CommandSucceeds, CommandFails, LoopEnds, Hook, announceComputer,
       removeComputer, announceRouter, Crash, Start, Purge, CreateContext, DeleteContext,
       optimizeTask
  <2> QED
    BY <2>1, <1>1, <1>2 DEF HierInv
<1>3. CASE kind = "hier" /\ alive /\ routers # ft
  <2>1. CASE CommandFails
    BY <2>1, <1>3, HierCommandFails
  <2>2. CASE \E r \in Routers : announceRouter(r)
    <3>1. PICK r \in Routers : announceRouter(r)
      BY <2>2
    <3>2. /\ routers' = routers \cup {r} /\ routers \subseteq ft
          /\ (r \notin ft /\ ft' = ft \cup {r}) \/ alive' = FALSE
      BY <3>1, <1>3 DEF announceRouter, hier_privateAnnounceRouter, CoreInv, RoutersType
    <3> QED
      BY <3>2, <1>3 DEF HierInv
  <2>3. CASE UNCHANGED <<routers, ft>>
    BY <2>3, <1>3 DEF HierInv
  <2>4. \/ CommandFails \/ \E r \in Routers : announceRouter(r)
        \/ UNCHANGED <<routers, ft>>
    BY DEF Next, Step, Event, vars, base, hier, AddAgain, privateAnnounceComputer,
       privateRemoveComputer, CommandSucceeds, LoopEnds, Hook, announceComputer, removeComputer,
       Crash, Start, Purge, CreateContext, DeleteContext, optimizeTask
  <2> QED
    BY <2>1, <2>2, <2>3, <2>4
<1>4. CASE kind = "hier" /\ alive /\ routers = ft
  <2>1. CASE Step
    BY <2>1, <1>4, HierAddAgain, HierPrivateAnnounceComputer, HierPrivateRemoveComputer,
       HierCommandSucceeds, HierCommandFails, HierLoopEnds, NoHookRuns DEF Step
  <2>2. CASE \/ \E r \in Routers : Crash(r) \/ Start(r)
             \/ \E r \in Routers : \E x \in rows[r] : Purge(r, x)
             \/ \E k \in DOMAIN ContextOf : CreateContext(k) \/ DeleteContext(k)
             \/ optimizeTask \/ UNCHANGED vars
    BY <2>2, <1>4, OutsideSteps, HierSame
  <2>3. CASE \E c \in Computers : \E set \in deployment.offers : announceComputer(c, set)
    BY <2>3, <1>4, HierAnnounceComputer
  <2>4. CASE \E c \in Computers : removeComputer(c)
    BY <2>4, <1>4, HierRemoveComputer
  <2>5. CASE \E r \in Routers : announceRouter(r)
    BY <2>5, <1>4, HierAnnounceRouter
  <2> QED
    BY <2>1, <2>2, <2>3, <2>4, <2>5 DEF Next, Event
<1> QED
  BY <1>2, <1>3, <1>4

(***************************************************************************)
(* Whatever fails, computers to announce and an insertion are all that is  *)
(* left after the first call.                                              *)
(***************************************************************************)
LEMMA LaterStep ==
  ASSUME CoreInv, HierLater, [Next]_vars
  PROVE  HierLater'
<1>1. kind' = kind
  BY DEF Next, Step, Event, vars, kind, AddAgain, privateAnnounceComputer, privateRemoveComputer,
     CommandSucceeds, CommandFails, LoopEnds, Hook, announceComputer, removeComputer,
     announceRouter, Crash, Start, Purge, CreateContext, DeleteContext, optimizeTask
<1>2. SUFFICES ASSUME kind = "hier" PROVE HierLater'
  BY <1>1 DEF HierLater
<1>3. PICK s : s = Tail(stack)
  OBVIOUS
<1>4. GoodStack(stack, computers, deployment.computers) /\ stack \in Seq(Calls)
  BY DEF CoreInv, GoodStack
<1>5. stack # <<>> => s \in Seq(Calls) /\ Later(s, computers)
  BY <1>2, <1>3, <1>4, PopGood DEF HierLater, GoodStack
<1>6. CASE UNCHANGED <<computers, stack>>
  BY <1>6, <1>1 DEF HierLater
<1>7. CASE stack # <<>> /\ stack' = s /\ computers' = computers
  <2>1. s # <<>> => LaterCall(Head(s), computers) /\ Later(Tail(s), computers)
    BY <1>5, <1>7, LaterFirst
  <2>2. s # <<>> => Head(s).op \notin HookOps
    BY <2>1 DEF LaterCall, HookOps, LambdaOps
  <2> QED
    BY <2>1, <2>2, <1>7 DEF HierLater
<1>8. ASSUME NEW g, stack # <<>>, stack' = <<g>> \o s, computers' = computers,
             g.op = "commands"
      PROVE  HierLater'
  <2>1. PICK S : S = Calls \cup {g}
    OBVIOUS
  <2>2. s \in Seq(S) /\ g \in S
    BY <2>1, <1>5, <1>8
  <2>3. Tail(stack') = s /\ Head(stack') = g
    BY <2>2, <1>8, PushFirst
  <2> QED
    BY <2>3, <1>5, <1>8 DEF HierLater, HookOps, LambdaOps
<1>9. CASE \/ stack' = <<>>
           \/ Tail(stack') = <<>> /\ Head(stack').op \in {"announce", "commands"}
  BY <1>9, NothingLater DEF HierLater, HookOps, LambdaOps
<1>10. CASE Step
  <2>1. CASE AddAgain
    <3>1. PICK f : f = Head(stack)
      OBVIOUS
    <3>2. stack # <<>> /\ f.op = "insert" /\ Insert(f.c, f.set, Tail(stack))
      BY <3>1, <2>1 DEF AddAgain, Running
    <3>3. f \in Calls /\ Tail(stack) = <<>>
      BY <3>1, <3>2, <1>4, PopGood
    <3>4. f.c \in Computers
      BY <3>2, <3>3, CallFacts, CallOps DEF ComputerOps
    <3>5. Tail(stack') = <<>> /\ Head(stack').op = "announce"
      <4>1. PICK c, set : c = f.c /\ set = f.set /\ c \in Computers
        BY <3>4
      <4>2. Insert(c, set, <<>>)
        BY <3>2, <3>3, <4>1
      <4>3. Tail(stack') = <<>> /\ Head(stack') = AnnounceCall(c)
        BY <4>1, <4>2, <1>2, InsertStack
      <4>4. AnnounceCall(c).op = "announce"
        BY CallFields
      <4> QED
        BY <4>3, <4>4
    <3> QED
      BY <3>5, <1>9
  <2>2. CASE privateAnnounceComputer
    <3>1. stack # <<>> /\ computers' = computers /\ hier_privateAnnounceComputer(Head(stack).c)
      BY <2>2, <1>2 DEF privateAnnounceComputer, Running, base
    <3>2. stack' = s \/ stack' = <<>> \/ \E g : g.op = "commands" /\ stack' = <<g>> \o s
      BY <3>1, <1>3 DEF hier_privateAnnounceComputer, Commands
    <3> QED
      BY <3>1, <3>2, <1>7, <1>8, <1>9
  <2>3. CASE privateRemoveComputer
    <3>1. stack # <<>> /\ computers' = computers
          /\ hier_privateRemoveComputer(Head(stack).c, Head(stack).set)
      BY <2>3, <1>2 DEF privateRemoveComputer, Running, base
    <3>2. \E g : g.op = "commands" /\ stack' = <<g>> \o s
      BY <3>1, <1>3 DEF hier_privateRemoveComputer, Commands
    <3> QED
      BY <3>1, <3>2, <1>8
  <2>4. CASE CommandSucceeds
    <3>1. PICK f : f = Head(stack)
      OBVIOUS
    <3>2. PICK g : g = [f EXCEPT !.list = Tail(@)]
      OBVIOUS
    <3>3. /\ stack # <<>> /\ computers' = computers /\ stack' = <<g>> \o s
          /\ f.op = "commands"
      BY <2>4, <3>1, <3>2, <1>3 DEF CommandSucceeds, Sending, Running, base
    <3>4. f \in Calls
      BY <3>1, <3>3, <1>4, PopGood
    <3>5. g.op = "commands"
      BY <3>2, <3>3, <3>4, CallFacts
    <3> QED
      BY <3>3, <3>5, <1>8
  <2>5. CASE CommandFails
    <3>1. /\ stack # <<>> /\ computers' = computers
          /\ stack' = <<>> \/ \E g : g.op = "commands" /\ stack' = <<g>> \o s
      BY <2>5, <1>2, <1>3 DEF CommandFails, Sending, Running, hier_privateRemoveRouter, Flush, Commands
    <3> QED
      BY <3>1, <1>8, <1>9
  <2>6. CASE LoopEnds
    <3>1. PICK then : then = Head(stack).then
      OBVIOUS
    <3>2. stack # <<>> /\ computers' = computers
      BY <2>6 DEF LoopEnds, Running, base
    <3>3. CASE stack' = s
      BY <3>2, <3>3, <1>7
    <3>4. CASE AnnounceHome(then.c, then.router)
      <4>1. \E g : g.op = "commands" /\ stack' = <<g>> \o s
        BY <3>4, <1>3 DEF AnnounceHome, Commands
      <4> QED
        BY <4>1, <3>2, <1>8
    <3>5. CASE LET order == Sorted({c \in Computers : computers[c] # {}})
               IN stack' = [i \in DOMAIN order |-> [op |-> "announce", c |-> order[i]]]
                             \o Tail(stack)
      <4>1. PICK whom : whom = {c \in Computers : computers[c] # {}}
        OBVIOUS
      <4>2. PICK order : order = Sorted(whom)
        OBVIOUS
      <4>3. PICK p : p = [i \in DOMAIN order |-> AnnounceCall(order[i])]
        OBVIOUS
      <4>4. stack' = p \o s
        BY <4>1, <4>2, <4>3, <3>5, <1>3 DEF AnnounceCall
      <4>5. p \in Seq(Calls) /\ \A i \in DOMAIN p : \E c \in whom : p[i] = AnnounceCall(c)
        <5>1. whom \in SUBSET Computers
          BY <4>1
        <5> QED
          BY <5>1, <4>2, <4>3, RebuildFacts DEF NoInsert
      <4>6. PICK t : t = stack'
        OBVIOUS
      <4>7. /\ t \in Seq(Calls)
            /\ \A i \in DOMAIN t :
                 \/ i \in DOMAIN p /\ t[i] = p[i]
                 \/ i - Len(p) \in DOMAIN s /\ i \notin DOMAIN p /\ t[i] = s[i - Len(p)]
        BY <4>4, <4>5, <4>6, <3>2, <1>5, ConcatFacts
      <4>8. ASSUME NEW i \in DOMAIN p PROVE LaterCall(p[i], computers)
        <5>1. PICK c \in whom : p[i] = AnnounceCall(c)
          BY <4>5, <4>8
        <5>2. AnnounceCall(c).op = "announce" /\ AnnounceCall(c).c = c
          BY CallFields
        <5>3. computers[c] # {}
          BY <5>1, <4>1
        <5> QED
          BY <5>1, <5>2, <5>3 DEF LaterCall
      <4>9. \A i \in DOMAIN s : LaterCall(s[i], computers)
        BY <3>2, <1>5 DEF Later
      <4>10. Later(t, computers)
        BY <4>7, <4>8, <4>9 DEF Later
      <4>11. t # <<>> => LaterCall(Head(t), computers) /\ Later(Tail(t), computers)
        BY <4>7, <4>10, LaterFirst
      <4>12. t # <<>> => Head(t).op \notin HookOps
        BY <4>11 DEF LaterCall, HookOps, LambdaOps
      <4> QED
        BY <4>6, <4>11, <4>12, <3>2 DEF HierLater
    <3> QED
      BY <3>1, <3>3, <3>4, <3>5, <2>6, <1>3 DEF LoopEnds
  <2>7. CASE Hook
    <3>1. stack # <<>> /\ stack' = s /\ computers' = computers
      BY <2>7, <1>3 DEF Hook, base
    <3> QED
      BY <3>1, <1>7
  <2> QED
    BY <2>1, <2>2, <2>3, <2>4, <2>5, <2>6, <2>7, <1>10 DEF Step
<1>11. ASSUME NEW c \in Computers, NEW after \in Seq(Calls), OnlyInserts(after),
              computers[c] # {}, Withdraw(c, after)
       PROVE  HierLater'
  <2>1. computers[c] \in ContainerLists
    BY <1>11 DEF CoreInv, Known, ContainerLists
  <2>2. Tail(stack') = after /\ Head(stack').op = "withdraw"
    <3>1. kind # "etsi"
      BY <1>2
    <3>2. Tail(stack') = after /\ Head(stack') = ComputerCall("withdraw", c, computers[c])
      BY <2>1, <3>1, <1>11, WithdrawStack
    <3> QED
      BY <3>2 DEF ComputerCall
  <2>3. Later(after, computers')
    BY <1>11 DEF Later, LaterCall, OnlyInserts
  <2> QED
    BY <2>2, <2>3 DEF HierLater, HookOps, LambdaOps
<1>12. CASE \E c \in Computers : \E set \in deployment.offers : announceComputer(c, set)
  <2>1. PICK c \in Computers, set \in deployment.offers : announceComputer(c, set)
    BY <1>12
  <2>2. set \in ContainerLists
    BY DeploymentFacts DEF CoreInv
  <2>3. CASE Insert(c, set, <<>>)
    <3>1. kind # "etsi"
      BY <1>2
    <3>2. Head(stack') = AnnounceCall(c) /\ Tail(stack') = <<>>
      BY <2>3, <3>1, InsertStack
    <3>3. Head(stack').op = "announce"
      BY <3>2 DEF AnnounceCall
    <3> QED
      BY <3>2, <3>3, <1>9
  <2>4. CASE computers[c] # {} /\ Withdraw(c, <<ComputerCall("insert", c, set)>>)
    <3>1. PICK f, after : f = ComputerCall("insert", c, set) /\ after = <<f>>
      OBVIOUS
    <3>2. f \in Calls /\ f.op = "insert"
      BY <3>1, <2>2, CallTypes DEF ComputerOps
    <3>3. after \in Seq(Calls) /\ \A i \in DOMAIN after : after[i] = f
      BY <3>1, <3>2
    <3>4. OnlyInserts(after) /\ Withdraw(c, after)
      BY <3>1, <3>2, <3>3, <2>4 DEF OnlyInserts
    <3> QED
      BY <3>3, <3>4, <2>4, <1>11
  <2> QED
    BY <2>1, <2>3, <2>4 DEF announceComputer, AddStatus, ComputerCall
<1>13. CASE \E c \in Computers : removeComputer(c)
  <2>1. PICK c \in Computers : computers[c] # {} /\ Withdraw(c, <<>>)
    BY <1>13 DEF removeComputer
  <2>2. <<>> \in Seq(Calls) /\ OnlyInserts(<<>>)
    BY NoInserts
  <2> QED
    BY <2>1, <2>2, <1>11
<1>14. CASE \E r \in Routers : announceRouter(r)
  <2>1. PICK r \in Routers : announceRouter(r)
    BY <1>14
  <2>2. computers' = computers /\ (stack' = stack \/ stack' = <<Flush(ft \cup {r})>>)
    BY <2>1, <1>2 DEF announceRouter, hier_privateAnnounceRouter
  <2>3. stack' = <<Flush(ft \cup {r})>> => Tail(stack') = <<>> /\ Head(stack').op = "commands"
    <3>1. PICK g : g = Flush(ft \cup {r})
      OBVIOUS
    <3>2. Tail(<<g>>) = <<>> /\ Head(<<g>>) = g
      <4>1. <<>> \in Seq({g}) /\ g \in {g} /\ <<g>> \o <<>> = <<g>>
        OBVIOUS
      <4> QED
        BY <4>1, PushFirst
    <3>3. g.op = "commands"
      BY <3>1 DEF Flush, Commands
    <3> QED
      BY <3>1, <3>2, <3>3
  <2> QED
    BY <2>2, <2>3, <1>6, <1>9
<1>15. CASE \/ \E r \in Routers : Crash(r) \/ Start(r)
            \/ \E r \in Routers : \E x \in rows[r] : Purge(r, x)
            \/ \E k \in DOMAIN ContextOf : CreateContext(k) \/ DeleteContext(k)
            \/ optimizeTask \/ UNCHANGED vars
  <2>1. UNCHANGED <<computers, stack>>
    BY <1>15 DEF Crash, Start, Purge, CreateContext, DeleteContext, optimizeTask, vars, base
  <2> QED
    BY <2>1, <1>6
<1> QED
  BY <1>10, <1>12, <1>13, <1>14, <1>15 DEF Next, Event

LEMMA TablesInit ==
  ASSUME Init
  PROVE  TablesInv
<1>1. /\ alive = TRUE /\ stack = <<>> /\ routers = {} /\ computers = [c \in Computers |-> {}]
      /\ announced = [r \in Routers |-> [l \in Lambdas |-> {}]] /\ rows = [r \in Routers |-> {}]
  BY DEF Init
<1>2. FlatInv
  BY <1>1, NoInserts DEF FlatInv
<1>3. Homes({})
  BY <1>1 DEF Homes, HomeOf
<1>4. Homed(<<>>, {})
  BY <1>1 DEF Homed, NoThrow
<1>5. HierInv
  BY <1>1, <1>3, <1>4, NothingLater DEF HierInv, Settled
<1>6. DownEmpty /\ HierLater
  BY <1>1 DEF DownEmpty, HierLater
<1> QED
  BY <1>2, <1>5, <1>6 DEF TablesInv

LEMMA TablesAlways == Spec => []TablesInv
<1>1. Init => TablesInv
  BY TablesInit
<1>2. CoreInv /\ CoreInv' /\ TablesInv /\ [Next]_vars => TablesInv'
  BY DownEmptyStep, FlatStep, LaterStep, HierStep DEF TablesInv
<1> QED
  BY <1>1, <1>2, CoreAlways, PTL DEF Spec

LEMMA TablesInstalled ==
  ASSUME CoreInv, TablesInv
  PROVE  RoutesInstalled
<1>1. SUFFICES ASSUME alive, stack = <<>>, kind # "etsi", NoneLost
               PROVE  /\ \A r \in routers : session[r] = "running" => rows[r] = Expected(r)
                      /\ Homes({}) /\ (kind = "hier" => Homed(<<>>, {}))
  <2>1. (kind = "hier" => Homed(<<>>, {})) =>
         ((/\ kind = "hier" /\ routers # {}
           /\ ~InvalidNodes(Topology, {address[e] : e \in routers \cup deployment.computers}))
            => \A c \in Computers : \A l \in computers[c] : HomeOf(c, l) # {})
    BY NothingLater DEF Homed, NoThrow
  <2>2. \A r : rows[r] = Expected(r) => Table(r) = Expected(r) \ purged[r]
    BY DEF Table
  <2> QED
    BY <1>1, <2>1, <2>2 DEF RoutesInstalled, Idle, Homes
<1>2. CASE kind = "flat"
  <2>1. FlatBase /\ \A r \in routers : Within(r, {}, {})
    BY <1>1, <1>2, FlatResting DEF TablesInv
  <2>2. \A r \in routers : session[r] = "running" => rows[r] = Expected(r)
    BY <2>1 DEF Within
  <2>3. Homes({})
    BY <2>1 DEF Homes, HomeOf, FlatBase
  <2> QED
    BY <2>2, <2>3, <1>2
<1>3. CASE kind = "hier"
  <2>1. Settled(<<>>)
    BY <1>1, <1>3, HierResting DEF TablesInv, NoneLost
  <2>2. \A r \in routers : session[r] = "running" => rows[r] = Expected(r)
    BY <2>1 DEF Within, Settled
  <2> QED
    BY <2>1, <2>2 DEF Settled
<1> QED
  BY <1>1, <1>2, <1>3, DeploymentFacts DEF CoreInv

\* When no handler runs, the routers that a flat or hierarchical controller
\* counts on have exactly the routes that it believes they have, but for those
\* that a router has removed itself since, and in a hierarchy all computers
\* have a home router, whatever routers and commands failed meanwhile; unless
\* address() has thrown and left a router behind (edgecontrollerflat.cpp,
\* edgecontrollerhier.cpp).
THEOREM EdgeControllerRoutesInstalled == Spec => []RoutesInstalled
<1>1. CoreInv /\ TablesInv => RoutesInstalled
  BY TablesInstalled
<1> QED
  BY <1>1, CoreAlways, TablesAlways, PTL

-----------------------------------------------------------------------------
(***************************************************************************)
(* The LCM proxy of an ETSI controller.                                    *)
(***************************************************************************)
\* The calls of the hooks that a handler has left to do.
AwaitsLambda(s, op, l) == \E i \in DOMAIN s : s[i].op = op /\ s[i].l = l
AwaitsComputer(s, op, c, l) == \E i \in DOMAIN s : s[i].op = op /\ s[i].c = c /\ l \in s[i].set

\* A call agrees with what the controller knows of the computers, which it had
\* changed before it made the first one.
HookFits(f, lam) ==
  /\ f.op # "commands"
  /\ f.op = "addLambda" => lam[f.l] # {}
  /\ f.op = "delLambda" => lam[f.l] = {}
  /\ f.op = "addComputer" => \A l \in f.set : f.c \in lam[l]
  /\ f.op = "delComputer" => \A l \in f.set : f.c \notin lam[l]
HooksFit(s, lam) == \A i \in DOMAIN s : HookFits(s[i], lam)

\* Between the lambdas that are served and those that the proxy knows, and
\* between the computers of a lambda and those of theDesc, there are only calls
\* left to do.
AppsFit(s, lam, apps) ==
  /\ apps \in SUBSET Lambdas
  /\ \A l \in Lambdas : lam[l] # {} => l \in apps \/ AwaitsLambda(s, "addLambda", l)
  /\ \A l \in apps : lam[l] # {} \/ AwaitsLambda(s, "delLambda", l)

DescFits(s, lam, desc) ==
  /\ DOMAIN desc \in SUBSET Lambdas
  /\ \A l \in Lambdas : \A c \in lam[l] :
       \/ l \in DOMAIN desc /\ c \in desc[l].computers
       \/ AwaitsComputer(s, "addComputer", c, l)
  /\ \A l \in DOMAIN desc : \A c \in desc[l].computers :
       c \in lam[l] \/ AwaitsComputer(s, "delComputer", c, l)

\* The default of a lambda is one of its computers, and the proxy knows it.
RouteFits(desc, route) ==
  /\ DOMAIN route = DOMAIN desc
  /\ \A l \in DOMAIN desc : /\ desc[l] \in [default : Computers, computers : SUBSET Computers]
                            /\ desc[l].default \in desc[l].computers
                            /\ route[l] = desc[l].default

EtsiInv ==
  kind = "etsi" =>
    /\ {"desc", "apps", "route"} \subseteq DOMAIN etsi
    /\ HooksFit(stack, lambdas)
    /\ AppsFit(stack, lambdas, etsi.apps)
    /\ DescFits(stack, lambdas, etsi.desc)
    /\ RouteFits(etsi.desc, etsi.route)

LEMMA EtsiFields ==
  ASSUME NEW e, {"desc", "apps", "route"} \subseteq DOMAIN e, NEW v, NEW w
  PROVE  /\ \A a : a = [e EXCEPT !.apps = v] =>
              /\ a.apps = v /\ a.desc = e.desc /\ a.route = e.route
              /\ DOMAIN a = DOMAIN e
         /\ \A d : d = [e EXCEPT !.desc = v, !.route = w] =>
              /\ d.desc = v /\ d.route = w /\ d.apps = e.apps
              /\ DOMAIN d = DOMAIN e
  OBVIOUS

\* The calls that are put on the stack.
HookCalls(t, hook, A, op, c, set, f, after) ==
  /\ t \in Seq(Calls)
  /\ \A i \in DOMAIN t : \/ t[i].op = hook /\ t[i].l \in A
                         \/ t[i] = ComputerCall(op, c, set)
                         \/ t[i] = f
                         \/ \E j \in DOMAIN after : t[i] = after[j]
  /\ \A l \in A : AwaitsLambda(t, hook, l)
  /\ \A l \in set : AwaitsComputer(t, op, c, l)

LEMMA HookStack ==
  ASSUME kind = "etsi", NEW hook \in LambdaOps, NEW A \in SUBSET Lambdas,
         NEW op \in ComputerOps, NEW c \in Computers, NEW set \in ContainerLists,
         NEW f \in Calls, NEW after \in Seq(Calls)
  PROVE  HookCalls(Hooks(ForEach(hook, A) \o <<ComputerCall(op, c, set)>>) \o <<f>> \o after,
                   hook, A, op, c, set, f, after)
<1>1. PICK p, g, t : /\ p = ForEach(hook, A) /\ g = ComputerCall(op, c, set)
                     /\ t = Hooks(ForEach(hook, A) \o <<ComputerCall(op, c, set)>>) \o <<f>> \o after
  OBVIOUS
<1>2. /\ p \in Seq(Calls) /\ \A i \in DOMAIN p : p[i].l \in A /\ p[i].op = hook
      /\ \A l \in A : \E i \in DOMAIN p : p[i].l = l
  <2>1. IsForEach(p, hook, A)
    BY <1>1, ForEachFacts
  <2> QED
    BY <2>1 DEF IsForEach, NoInsert
<1>3. g \in Calls /\ g.op = op /\ g.c = c /\ g.set = set
  BY <1>1, CallTypes, CallFields
<1>4. PICK q, u : q = p \o <<g>> /\ u = q \o <<f>>
  OBVIOUS
<1>5. <<g>> \in Seq(Calls) /\ <<f>> \in Seq(Calls) /\ t = u \o after
  BY <1>1, <1>3, <1>4 DEF Hooks
<1>6. 1 \in DOMAIN <<g>> /\ <<g>>[1] = g /\ \A i \in DOMAIN <<g>> : <<g>>[i] = g
  OBVIOUS
<1>7. \A i \in DOMAIN <<f>> : <<f>>[i] = f
  OBVIOUS
<1>8. /\ q \in Seq(Calls)
      /\ \A i \in DOMAIN q : (q[i].op = hook /\ q[i].l \in A) \/ q[i] = g
      /\ \A l \in A : \E i \in DOMAIN q : q[i].op = hook /\ q[i].l = l
      /\ \E i \in DOMAIN q : q[i] = g
  <2>1. /\ q \in Seq(Calls)
        /\ \A i \in DOMAIN q : \/ i \in DOMAIN p /\ q[i] = p[i]
                               \/ i - Len(p) \in DOMAIN <<g>> /\ q[i] = <<g>>[i - Len(p)]
        /\ \A i \in DOMAIN p : i \in DOMAIN q /\ q[i] = p[i]
        /\ \A i \in DOMAIN <<g>> : i + Len(p) \in DOMAIN q /\ q[i + Len(p)] = <<g>>[i]
    BY <1>2, <1>4, <1>5, ConcatFacts
  <2>2. \E i \in DOMAIN q : q[i] = g
    BY <2>1, <1>6
  <2>3. \A i \in DOMAIN q : (q[i].op = hook /\ q[i].l \in A) \/ q[i] = g
    BY <2>1, <1>2, <1>6
  <2>4. ASSUME NEW l \in A PROVE \E i \in DOMAIN q : q[i].op = hook /\ q[i].l = l
    <3>1. PICK i \in DOMAIN p : p[i].l = l /\ p[i].op = hook
      BY <1>2
    <3>2. i \in DOMAIN q /\ q[i] = p[i]
      BY <2>1
    <3> QED
      BY <3>1, <3>2
  <2> QED
    BY <2>1, <2>2, <2>3, <2>4
<1>9. /\ u \in Seq(Calls)
      /\ \A i \in DOMAIN u : u[i] = f \/ \E j \in DOMAIN q : u[i] = q[j]
      /\ \A i \in DOMAIN q : i \in DOMAIN u /\ u[i] = q[i]
  <2>1. q \in Seq(Calls) /\ u = q \o <<f>>
    BY <1>4, <1>8
  <2>2. /\ u \in Seq(Calls)
        /\ \A i \in DOMAIN u : \/ i \in DOMAIN q /\ u[i] = q[i]
                               \/ i - Len(q) \in DOMAIN <<f>> /\ u[i] = <<f>>[i - Len(q)]
        /\ \A i \in DOMAIN q : i \in DOMAIN u /\ u[i] = q[i]
    BY <2>1, <1>5, ConcatFacts
  <2> QED
    BY <2>2, <1>7
<1>10. /\ t \in Seq(Calls)
       /\ \A i \in DOMAIN t : (\E j \in DOMAIN after : t[i] = after[j]) \/ \E j \in DOMAIN u : t[i] = u[j]
       /\ \A i \in DOMAIN u : i \in DOMAIN t /\ t[i] = u[i]
  BY <1>5, <1>9, ConcatFacts
<1>11. \A i \in DOMAIN q : i \in DOMAIN t /\ t[i] = q[i]
  BY <1>9, <1>10
<1>12. \A l \in A : AwaitsLambda(t, hook, l)
  BY <1>8, <1>11 DEF AwaitsLambda
<1>13. \A l \in set : AwaitsComputer(t, op, c, l)
  BY <1>3, <1>8, <1>11 DEF AwaitsComputer
<1>14. \A i \in DOMAIN t : \/ t[i].op = hook /\ t[i].l \in A
                           \/ t[i] = g \/ t[i] = f
                           \/ \E j \in DOMAIN after : t[i] = after[j]
  <2> TAKE i \in DOMAIN t
  <2>1. CASE \E j \in DOMAIN after : t[i] = after[j]
    BY <2>1
  <2>2. ASSUME NEW j \in DOMAIN u, t[i] = u[j]
        PROVE  (t[i].op = hook /\ t[i].l \in A) \/ t[i] = g \/ t[i] = f
    <3>1. t[i] = f \/ \E k \in DOMAIN q : t[i] = q[k]
      BY <2>2, <1>9
    <3> QED
      BY <3>1, <1>8
  <2> QED
    BY <2>1, <2>2, <1>10
<1>15. g = ComputerCall(op, c, set)
  BY <1>1
<1>16. HookCalls(t, hook, A, op, c, set, f, after)
  BY <1>10, <1>12, <1>13, <1>14, <1>15 DEF HookCalls
<1> QED
  BY <1>1, <1>16

\* The first call is done.
LEMMA HookDone ==
  ASSUME NEW s \in Seq(Calls), s # <<>>, NEW f, f = Head(s), NEW u, u = Tail(s)
  PROVE  /\ \A lam : HooksFit(s, lam) => HookFits(f, lam) /\ HooksFit(u, lam)
         /\ \A op, l : AwaitsLambda(s, op, l) => AwaitsLambda(u, op, l) \/ (f.op = op /\ f.l = l)
         /\ \A op, c, l : AwaitsComputer(s, op, c, l) =>
              AwaitsComputer(u, op, c, l) \/ (f.op = op /\ f.c = c /\ l \in f.set)
<1>1. /\ f = s[1] /\ 1 \in DOMAIN s
      /\ \A i \in DOMAIN u : i + 1 \in DOMAIN s /\ u[i] = s[i + 1]
      /\ \A i \in DOMAIN s : i = 1 \/ (i - 1 \in DOMAIN u /\ s[i] = u[i - 1])
  BY TailFacts
<1>2. \A i \in DOMAIN u : \E j \in DOMAIN s : u[i] = s[j]
  BY <1>1
<1>3. \A i \in DOMAIN s : s[i] = f \/ \E j \in DOMAIN u : s[i] = u[j]
  BY <1>1
<1>4. \A lam : HooksFit(s, lam) => HookFits(f, lam) /\ HooksFit(u, lam)
  BY <1>1, <1>2 DEF HooksFit
<1>5. \A op, l : AwaitsLambda(s, op, l) => AwaitsLambda(u, op, l) \/ (f.op = op /\ f.l = l)
  BY <1>3 DEF AwaitsLambda
<1>6. \A op, c, l : AwaitsComputer(s, op, c, l) =>
         AwaitsComputer(u, op, c, l) \/ (f.op = op /\ f.c = c /\ l \in f.set)
  BY <1>3 DEF AwaitsComputer
<1> QED
  BY <1>4, <1>5, <1>6

\* No hook is left to do.
LEMMA NothingAwaited ==
  ASSUME NEW s, OnlyInserts(s)
  PROVE  /\ \A op \in LambdaOps : \A l : ~ AwaitsLambda(s, op, l)
         /\ \A op \in {"addComputer", "delComputer"} : \A c, l : ~ AwaitsComputer(s, op, c, l)
  BY DEF OnlyInserts, AwaitsLambda, AwaitsComputer, LambdaOps

LEMMA EtsiSettled ==
  ASSUME EtsiInv, kind = "etsi", OnlyInserts(stack)
  PROVE  /\ etsi.apps \in SUBSET Lambdas /\ DOMAIN etsi.desc \in SUBSET Lambdas
         /\ \A l \in Lambdas : l \in etsi.apps <=> lambdas[l] # {}
         /\ \A l \in Lambdas : \A c \in lambdas[l] : l \in DOMAIN etsi.desc /\ c \in etsi.desc[l].computers
         /\ \A l \in DOMAIN etsi.desc : \A c \in etsi.desc[l].computers : c \in lambdas[l]
         /\ RouteFits(etsi.desc, etsi.route)
         /\ {"desc", "apps", "route"} \subseteq DOMAIN etsi
<1>1. /\ \A l : ~ AwaitsLambda(stack, "addLambda", l) /\ ~ AwaitsLambda(stack, "delLambda", l)
      /\ \A c, l : /\ ~ AwaitsComputer(stack, "addComputer", c, l)
                   /\ ~ AwaitsComputer(stack, "delComputer", c, l)
  BY NothingAwaited DEF LambdaOps
<1> QED
  BY <1>1 DEF EtsiInv, AppsFit, DescFits

\* An insertion.
LEMMA EtsiInsert ==
  ASSUME CoreInv, kind = "etsi", EtsiInv, OnlyInserts(stack), NEW c \in Computers,
         NEW set \in ContainerLists, Insert(c, set, <<>>), UNCHANGED <<deployment, etsi>>
  PROVE  EtsiInv'
<1>1. /\ etsi.apps \in SUBSET Lambdas /\ DOMAIN etsi.desc \in SUBSET Lambdas
      /\ \A l \in Lambdas : l \in etsi.apps <=> lambdas[l] # {}
      /\ \A l \in Lambdas : \A x \in lambdas[l] : l \in DOMAIN etsi.desc /\ x \in etsi.desc[l].computers
      /\ \A l \in DOMAIN etsi.desc : \A x \in etsi.desc[l].computers : x \in lambdas[l]
      /\ RouteFits(etsi.desc, etsi.route)
      /\ {"desc", "apps", "route"} \subseteq DOMAIN etsi
  BY EtsiSettled
<1>2. PICK A : A = {l \in set : lambdas[l] = {}}
  OBVIOUS
<1>3. set \in SUBSET Lambdas /\ A \in SUBSET Lambdas
  BY <1>2, ContainerListFacts
<1>4. \A l \in Lambdas : lambdas'[l] = IF l \in set THEN lambdas[l] \cup {c} ELSE lambdas[l]
  BY DEF Insert
<1>5. PICK t, f : t = stack' /\ f = AnnounceCall(c)
  OBVIOUS
<1>6. HookCalls(t, "addLambda", A, "addComputer", c, set, f, <<>>)
  <2>1. t = Hooks(ForEach("addLambda", A) \o <<ComputerCall("addComputer", c, set)>>) \o <<f>> \o <<>>
    BY <1>2, <1>5 DEF Insert, ComputerCall, AnnounceCall
  <2>2. f \in Calls /\ <<>> \in Seq(Calls)
    BY <1>5, CallTypes
  <2>3. "addLambda" \in LambdaOps /\ "addComputer" \in ComputerOps
    BY DEF LambdaOps, ComputerOps
  <2> QED
    BY <2>1, <2>2, <2>3, <1>3, HookStack
<1>7. PICK g : g = ComputerCall("addComputer", c, set)
  OBVIOUS
<1>8. g.op = "addComputer" /\ g.c = c /\ g.set = set /\ f.op = "announce"
  BY <1>5, <1>7, CallFields
<1>9. \A i \in DOMAIN t : (t[i].op = "addLambda" /\ t[i].l \in A) \/ t[i] = g \/ t[i] = f
  <2>1. DOMAIN <<>> = {}
    OBVIOUS
  <2> QED
    BY <2>1, <1>6, <1>7 DEF HookCalls
<1>10. \A l \in A : AwaitsLambda(t, "addLambda", l)
  BY <1>6 DEF HookCalls
<1>11. \A l \in set : AwaitsComputer(t, "addComputer", c, l)
  BY <1>6 DEF HookCalls
<1>12. HooksFit(t, lambdas')
  <2>1. HookFits(g, lambdas') /\ HookFits(f, lambdas')
    BY <1>3, <1>4, <1>8 DEF HookFits
  <2>2. ASSUME NEW h, h.op = "addLambda", h.l \in A PROVE HookFits(h, lambdas')
    BY <2>2, <1>2, <1>3, <1>4 DEF HookFits
  <2> QED
    BY <2>1, <2>2, <1>9 DEF HooksFit
<1>13. AppsFit(t, lambdas', etsi.apps)
  BY <1>1, <1>2, <1>4, <1>10 DEF AppsFit
<1>14. DescFits(t, lambdas', etsi.desc)
  BY <1>1, <1>4, <1>11 DEF DescFits
<1> QED
  BY <1>1, <1>5, <1>12, <1>13, <1>14 DEF EtsiInv

\* A withdrawal.
LEMMA EtsiWithdraw ==
  ASSUME CoreInv, kind = "etsi", EtsiInv, OnlyInserts(stack), NEW c \in Computers,
         computers[c] # {}, NEW after \in Seq(Calls), OnlyInserts(after), Withdraw(c, after),
         UNCHANGED <<deployment, etsi>>
  PROVE  EtsiInv'
<1>1. /\ etsi.apps \in SUBSET Lambdas /\ DOMAIN etsi.desc \in SUBSET Lambdas
      /\ \A l \in Lambdas : l \in etsi.apps <=> lambdas[l] # {}
      /\ \A l \in Lambdas : \A x \in lambdas[l] : l \in DOMAIN etsi.desc /\ x \in etsi.desc[l].computers
      /\ \A l \in DOMAIN etsi.desc : \A x \in etsi.desc[l].computers : x \in lambdas[l]
      /\ RouteFits(etsi.desc, etsi.route)
      /\ {"desc", "apps", "route"} \subseteq DOMAIN etsi
  BY EtsiSettled
<1>2. PICK set : set = computers[c]
  OBVIOUS
<1>3. set \in ContainerLists /\ \A l \in Lambdas : c \in lambdas[l] => l \in set
  BY <1>2 DEF CoreInv, Known, ContainerLists
<1>4. PICK A : A = {l \in set : lambdas[l] = {c}}
  OBVIOUS
<1>5. set \in SUBSET Lambdas /\ A \in SUBSET Lambdas
  BY <1>3, <1>4, ContainerListFacts
<1>6. \A l \in Lambdas : lambdas'[l] = lambdas[l] \ {c}
  BY DEF Withdraw
<1>7. PICK t, f : t = stack' /\ f = ComputerCall("withdraw", c, set)
  OBVIOUS
<1>8. HookCalls(t, "delLambda", A, "delComputer", c, set, f, after)
  <2>1. t = Hooks(ForEach("delLambda", A) \o <<ComputerCall("delComputer", c, set)>>) \o <<f>> \o after
    BY <1>2, <1>4, <1>7 DEF Withdraw, ComputerCall
  <2>2. f \in Calls
    BY <1>3, <1>7, CallTypes DEF ComputerOps
  <2>3. "delLambda" \in LambdaOps /\ "delComputer" \in ComputerOps
    BY DEF LambdaOps, ComputerOps
  <2> QED
    BY <2>1, <2>2, <2>3, <1>3, <1>5, HookStack
<1>9. PICK g : g = ComputerCall("delComputer", c, set)
  OBVIOUS
<1>10. g.op = "delComputer" /\ g.c = c /\ g.set = set /\ f.op = "withdraw"
  BY <1>7, <1>9, CallFields
<1>11. \A i \in DOMAIN t : \/ t[i].op = "delLambda" /\ t[i].l \in A
                           \/ t[i] = g \/ t[i] = f \/ t[i].op = "insert"
  <2>1. \A j \in DOMAIN after : after[j].op = "insert"
    BY DEF OnlyInserts
  <2> QED
    BY <2>1, <1>8, <1>9 DEF HookCalls
<1>12. \A l \in A : AwaitsLambda(t, "delLambda", l)
  BY <1>8 DEF HookCalls
<1>13. \A l \in set : AwaitsComputer(t, "delComputer", c, l)
  BY <1>8 DEF HookCalls
<1>14. HooksFit(t, lambdas')
  <2>1. HookFits(g, lambdas') /\ HookFits(f, lambdas')
    BY <1>5, <1>6, <1>10 DEF HookFits
  <2>2. ASSUME NEW h, h.op = "delLambda", h.l \in A PROVE HookFits(h, lambdas')
    BY <2>2, <1>4, <1>5, <1>6 DEF HookFits
  <2>3. ASSUME NEW h, h.op = "insert" PROVE HookFits(h, lambdas')
    BY <2>3 DEF HookFits
  <2> QED
    BY <2>1, <2>2, <2>3, <1>11 DEF HooksFit
<1>15. AppsFit(t, lambdas', etsi.apps)
  <2>1. \A l \in Lambdas : lambdas'[l] # {} => l \in etsi.apps
    BY <1>1, <1>6
  <2>2. ASSUME NEW l \in etsi.apps, lambdas'[l] = {} PROVE AwaitsLambda(t, "delLambda", l)
    <3>1. l \in Lambdas /\ lambdas[l] # {} /\ lambdas[l] \ {c} = {}
      BY <2>2, <1>1, <1>6
    <3>2. lambdas[l] = {c}
      BY <3>1
    <3> QED
      BY <3>1, <3>2, <1>3, <1>4, <1>12
  <2> QED
    BY <2>1, <2>2, <1>1 DEF AppsFit
<1>16. DescFits(t, lambdas', etsi.desc)
  BY <1>1, <1>3, <1>6, <1>13 DEF DescFits
<1> QED
  BY <1>1, <1>7, <1>14, <1>15, <1>16 DEF EtsiInv

\* A call that is not a hook is done.
LEMMA EtsiPop ==
  ASSUME CoreInv, kind = "etsi", EtsiInv, stack # <<>>, stack' = Tail(stack),
         Head(stack).op \notin LambdaOps \cup {"addComputer", "delComputer"},
         UNCHANGED <<deployment, lambdas, etsi>>
  PROVE  EtsiInv'
<1>1. PICK f, u : f = Head(stack) /\ u = Tail(stack)
  OBVIOUS
<1>2. stack \in Seq(Calls)
  BY DEF CoreInv, GoodStack
<1>3. /\ HooksFit(stack, lambdas) /\ AppsFit(stack, lambdas, etsi.apps)
      /\ DescFits(stack, lambdas, etsi.desc) /\ RouteFits(etsi.desc, etsi.route)
      /\ {"desc", "apps", "route"} \subseteq DOMAIN etsi
  BY DEF EtsiInv
<1>4. /\ HooksFit(stack, lambdas) => HooksFit(u, lambdas)
      /\ \A op, l : AwaitsLambda(stack, op, l) => AwaitsLambda(u, op, l) \/ f.op = op
      /\ \A op, c, l : AwaitsComputer(stack, op, c, l) => AwaitsComputer(u, op, c, l) \/ f.op = op
  BY <1>1, <1>2, HookDone
<1>5. f.op \notin {"addLambda", "delLambda", "addComputer", "delComputer"}
  BY <1>1 DEF LambdaOps
<1>6. AppsFit(u, lambdas, etsi.apps)
  BY <1>3, <1>4, <1>5 DEF AppsFit
<1>7. DescFits(u, lambdas, etsi.desc)
  BY <1>3, <1>4, <1>5 DEF DescFits
<1> QED
  BY <1>1, <1>3, <1>4, <1>6, <1>7 DEF EtsiInv

\* addLambda() and delLambda() tell the proxy what it does not know yet.
LEMMA EtsiLambdaHook ==
  ASSUME NEW s \in Seq(Calls), s # <<>>, NEW f, f = Head(s), NEW u, u = Tail(s), NEW lam,
         NEW apps, NEW desc, HooksFit(s, lam), AppsFit(s, lam, apps), DescFits(s, lam, desc),
         f.op \in LambdaOps
  PROVE  /\ HooksFit(u, lam) /\ DescFits(u, lam, desc)
         /\ f.op = "addLambda" => AppsFit(u, lam, apps \cup {f.l})
         /\ f.op = "delLambda" => AppsFit(u, lam, apps \ {f.l})
<1>1. /\ HookFits(f, lam) /\ HooksFit(u, lam)
      /\ \A op, l : AwaitsLambda(s, op, l) => AwaitsLambda(u, op, l) \/ (f.op = op /\ f.l = l)
      /\ \A op, c, l : AwaitsComputer(s, op, c, l) => AwaitsComputer(u, op, c, l) \/ f.op = op
  BY HookDone
<1>2. f.l \in Lambdas
  <2>1. IsCall(f)
    BY CallFacts
  <2> QED
    BY <2>1, CallOps
<1>3. DescFits(u, lam, desc)
  BY <1>1 DEF DescFits, LambdaOps
<1>4. f.op = "addLambda" => AppsFit(u, lam, apps \cup {f.l})
  BY <1>1, <1>2 DEF AppsFit, HookFits
<1>5. f.op = "delLambda" => AppsFit(u, lam, apps \ {f.l})
  BY <1>1, <1>2 DEF AppsFit, HookFits
<1> QED
  BY <1>1, <1>3, <1>4, <1>5

\* What addComputer() and delComputer() leave in theDesc and in the proxy.
Joined(desc, c, set) ==
  [l \in DOMAIN desc \cup set |->
     IF l \in set \ DOMAIN desc THEN [default |-> c, computers |-> {c}]
     ELSE IF l \in set THEN [desc[l] EXCEPT !.computers = @ \cup {c}] ELSE desc[l]]
JoinedRoute(desc, route, c, set) ==
  [l \in DOMAIN route \cup (set \ DOMAIN desc) |->
     IF l \in set \ DOMAIN desc THEN c ELSE route[l]]
LEMMA addComputerFacts ==
  ASSUME NEW e, {"desc", "apps", "route"} \subseteq DOMAIN e, NEW c, NEW set
  PROVE  LET a == addComputer(e, c, set)
         IN /\ a.desc = Joined(e.desc, c, set)
            /\ a.route = JoinedRoute(e.desc, e.route, c, set)
            /\ a.apps = e.apps /\ DOMAIN a = DOMAIN e
<1>1. PICK v, w : v = Joined(e.desc, c, set) /\ w = JoinedRoute(e.desc, e.route, c, set)
  OBVIOUS
<1>2. PICK a : a = addComputer(e, c, set)
  OBVIOUS
<1>3. a = [e EXCEPT !.desc = v, !.route = w]
  BY <1>1, <1>2 DEF addComputer, Joined, JoinedRoute
<1>4. a.desc = v /\ a.route = w /\ a.apps = e.apps /\ DOMAIN a = DOMAIN e
  BY <1>3, EtsiFields
<1> QED
  BY <1>1, <1>2, <1>4

LEMMA EtsiAddComputer ==
  ASSUME NEW s \in Seq(Calls), s # <<>>, NEW f, f = Head(s), NEW u, u = Tail(s), NEW lam,
         NEW apps, NEW desc, NEW route, HooksFit(s, lam), AppsFit(s, lam, apps),
         DescFits(s, lam, desc), RouteFits(desc, route), f.op = "addComputer"
  PROVE  /\ HooksFit(u, lam) /\ AppsFit(u, lam, apps)
         /\ DescFits(u, lam, Joined(desc, f.c, f.set))
         /\ RouteFits(Joined(desc, f.c, f.set), JoinedRoute(desc, route, f.c, f.set))
<1>1. /\ HookFits(f, lam) /\ HooksFit(u, lam)
      /\ \A op, l : AwaitsLambda(s, op, l) => AwaitsLambda(u, op, l) \/ f.op = op
      /\ \A op, c, l : AwaitsComputer(s, op, c, l) =>
           AwaitsComputer(u, op, c, l) \/ (f.op = op /\ f.c = c /\ l \in f.set)
  BY HookDone
<1>2. AppsFit(u, lam, apps)
  BY <1>1 DEF AppsFit
<1>3. f.c \in Computers /\ f.set \in SUBSET Lambdas
  <2>1. IsCall(f)
    BY CallFacts
  <2>2. f.c \in Computers /\ f.set \in ContainerLists
    BY <2>1, CallOps DEF ComputerOps
  <2> QED
    BY <2>2, ContainerListFacts
<1>4. PICK c, set : c = f.c /\ set = f.set
  OBVIOUS
<1>5. PICK d, w : d = Joined(desc, c, set) /\ w = JoinedRoute(desc, route, c, set)
  OBVIOUS
<1>6. DOMAIN d = DOMAIN desc \cup set /\ DOMAIN w = DOMAIN route \cup (set \ DOMAIN desc)
  BY <1>5 DEF Joined, JoinedRoute
<1>7. /\ DOMAIN route = DOMAIN desc
      /\ \A l \in DOMAIN desc : /\ desc[l] \in [default : Computers, computers : SUBSET Computers]
                                /\ desc[l].default \in desc[l].computers
                                /\ route[l] = desc[l].default
  BY DEF RouteFits
<1>8. ASSUME NEW l \in set \ DOMAIN desc
      PROVE  /\ d[l] \in [default : Computers, computers : SUBSET Computers]
             /\ d[l].default = c /\ d[l].computers = {c} /\ w[l] = c
  <2>1. d[l] = [default |-> c, computers |-> {c}] /\ w[l] = c
    BY <1>5, <1>8 DEF Joined, JoinedRoute
  <2> QED
    BY <2>1, <1>3, <1>4
<1>9. ASSUME NEW l \in DOMAIN desc
      PROVE  /\ d[l] \in [default : Computers, computers : SUBSET Computers]
             /\ d[l].default = desc[l].default /\ w[l] = route[l]
             /\ d[l].computers = IF l \in set THEN desc[l].computers \cup {c} ELSE desc[l].computers
  <2>1. PICK x : x = desc[l]
    OBVIOUS
  <2>2. x \in [default : Computers, computers : SUBSET Computers]
    BY <2>1, <1>7
  <2>3. d[l] = (IF l \in set THEN [x EXCEPT !.computers = @ \cup {c}] ELSE x) /\ w[l] = route[l]
    BY <2>1, <1>5, <1>7 DEF Joined, JoinedRoute
  <2>4. [x EXCEPT !.computers = @ \cup {c}] = [default |-> x.default, computers |-> x.computers \cup {c}]
    <3> DEFINE y == [x EXCEPT !.computers = @ \cup {c}]
               z == [default |-> x.default, computers |-> x.computers \cup {c}]
    <3>1. /\ DOMAIN x = {"default", "computers"} /\ DOMAIN z = {"default", "computers"}
          /\ z["default"] = x.default /\ z["computers"] = x.computers \cup {c}
      BY <2>2
    <3>2. y = [k \in DOMAIN x |-> IF k = "computers" THEN x.computers \cup {c} ELSE x[k]]
      OBVIOUS
    <3>3. y["default"] = x.default /\ y["computers"] = x.computers \cup {c}
      BY <3>1, <3>2
    <3> QED
      BY <3>1, <3>2, <3>3
  <2>5. CASE l \in set
    <3>1. d[l] = [default |-> x.default, computers |-> x.computers \cup {c}]
      BY <2>3, <2>4, <2>5
    <3> QED
      BY <3>1, <2>1, <2>2, <2>3, <2>5, <1>3, <1>4
  <2>6. CASE l \notin set
    BY <2>1, <2>2, <2>3, <2>6
  <2> QED
    BY <2>5, <2>6
<1>10. RouteFits(d, w)
  BY <1>6, <1>7, <1>8, <1>9 DEF RouteFits
<1>11. \A l \in set : c \in lam[l]
  BY <1>1, <1>4 DEF HookFits
<1>12. DescFits(u, lam, d)
  <2>1. DOMAIN d \in SUBSET Lambdas
    BY <1>3, <1>4, <1>6 DEF DescFits
  <2>2. ASSUME NEW l \in Lambdas, NEW o \in lam[l]
        PROVE  (l \in DOMAIN d /\ o \in d[l].computers) \/ AwaitsComputer(u, "addComputer", o, l)
    <3>1. \/ l \in DOMAIN desc /\ o \in desc[l].computers
          \/ AwaitsComputer(s, "addComputer", o, l)
      BY <2>2 DEF DescFits
    <3>2. \/ l \in DOMAIN desc /\ o \in desc[l].computers
          \/ AwaitsComputer(u, "addComputer", o, l)
          \/ o = c /\ l \in set
      BY <3>1, <1>1, <1>4
    <3> QED
      BY <3>2, <1>6, <1>8, <1>9
  <2>3. ASSUME NEW l \in DOMAIN d, NEW o \in d[l].computers
        PROVE  o \in lam[l] \/ AwaitsComputer(u, "delComputer", o, l)
    <3>1. (l \in DOMAIN desc /\ o \in desc[l].computers) \/ (l \in set /\ o = c)
      <4>1. CASE l \in DOMAIN desc
        BY <4>1, <2>3, <1>9
      <4>2. CASE l \notin DOMAIN desc
        BY <4>2, <2>3, <1>6, <1>8
      <4> QED
        BY <4>1, <4>2
    <3>2. l \in DOMAIN desc /\ o \in desc[l].computers =>
            o \in lam[l] \/ AwaitsComputer(s, "delComputer", o, l)
      BY DEF DescFits
    <3> QED
      BY <3>1, <3>2, <1>1, <1>11
  <2> QED
    BY <2>1, <2>2, <2>3 DEF DescFits
<1> QED
  BY <1>1, <1>2, <1>4, <1>5, <1>10, <1>12

\* delComputer().
Serving(desc, c, set) == {l \in set \cap DOMAIN desc : c \in desc[l].computers}
Orphans(desc, c, set) == {l \in Serving(desc, c, set) : desc[l].default = c}
Gone(desc, c, set) == {l \in Orphans(desc, c, set) : desc[l].computers \ {c} = {}}
Heir(desc, c, l) ==
  CHOOSE x \in desc[l].computers \ {c} : \A y \in desc[l].computers \ {c} : x <= y
Left(desc, c, set) ==
  [l \in DOMAIN desc \ Gone(desc, c, set) |->
     [default |-> IF l \in Orphans(desc, c, set) THEN Heir(desc, c, l) ELSE desc[l].default,
      computers |-> IF l \in Serving(desc, c, set) THEN desc[l].computers \ {c}
                    ELSE desc[l].computers]]
LeftRoute(desc, route, c, set) ==
  [l \in DOMAIN route \ Gone(desc, c, set) |->
     IF l \in Orphans(desc, c, set) THEN Heir(desc, c, l) ELSE route[l]]

LEMMA delComputerFacts ==
  ASSUME NEW e, {"desc", "apps", "route"} \subseteq DOMAIN e, NEW c, NEW set
  PROVE  LET a == delComputer(e, c, set)
         IN /\ a.desc = Left(e.desc, c, set)
            /\ a.route = LeftRoute(e.desc, e.route, c, set)
            /\ a.apps = e.apps /\ DOMAIN a = DOMAIN e
<1>1. PICK v, w : v = Left(e.desc, c, set) /\ w = LeftRoute(e.desc, e.route, c, set)
  OBVIOUS
<1>2. PICK a : a = delComputer(e, c, set)
  OBVIOUS
<1>3. a = [e EXCEPT !.desc = v, !.route = w]
  BY <1>1, <1>2 DEF delComputer, Left, LeftRoute, Serving, Orphans, Gone, Heir
<1>4. a.desc = v /\ a.route = w /\ a.apps = e.apps /\ DOMAIN a = DOMAIN e
  BY <1>3, EtsiFields
<1> QED
  BY <1>1, <1>2, <1>4

LEMMA EtsiDelComputer ==
  ASSUME NEW s \in Seq(Calls), s # <<>>, NEW f, f = Head(s), NEW u, u = Tail(s), NEW lam,
         NEW apps, NEW desc, NEW route, HooksFit(s, lam), AppsFit(s, lam, apps),
         DescFits(s, lam, desc), RouteFits(desc, route), f.op = "delComputer"
  PROVE  /\ HooksFit(u, lam) /\ AppsFit(u, lam, apps)
         /\ DescFits(u, lam, Left(desc, f.c, f.set))
         /\ RouteFits(Left(desc, f.c, f.set), LeftRoute(desc, route, f.c, f.set))
<1>1. /\ HookFits(f, lam) /\ HooksFit(u, lam)
      /\ \A op, l : AwaitsLambda(s, op, l) => AwaitsLambda(u, op, l) \/ f.op = op
      /\ \A op, c, l : AwaitsComputer(s, op, c, l) =>
           AwaitsComputer(u, op, c, l) \/ (f.op = op /\ f.c = c /\ l \in f.set)
  BY HookDone
<1>2. AppsFit(u, lam, apps)
  BY <1>1 DEF AppsFit
<1>3. PICK c, set : c = f.c /\ set = f.set
  OBVIOUS
<1>4. PICK d, w : d = Left(desc, c, set) /\ w = LeftRoute(desc, route, c, set)
  OBVIOUS
<1>5. PICK serving, orphans, gone : /\ serving = Serving(desc, c, set)
                                    /\ orphans = Orphans(desc, c, set)
                                    /\ gone = Gone(desc, c, set)
  OBVIOUS
<1>6. /\ \A l : l \in serving <=> l \in set /\ l \in DOMAIN desc /\ c \in desc[l].computers
      /\ \A l : l \in orphans <=> l \in serving /\ desc[l].default = c
      /\ \A l : l \in gone <=> l \in orphans /\ desc[l].computers \ {c} = {}
  BY <1>5 DEF Serving, Orphans, Gone
<1>7. /\ DOMAIN route = DOMAIN desc
      /\ \A l \in DOMAIN desc : /\ desc[l] \in [default : Computers, computers : SUBSET Computers]
                                /\ desc[l].default \in desc[l].computers
                                /\ route[l] = desc[l].default
  BY DEF RouteFits
<1>8. DOMAIN d = DOMAIN desc \ gone /\ DOMAIN w = DOMAIN desc \ gone
  BY <1>4, <1>5, <1>7 DEF Left, LeftRoute
<1>9. ASSUME NEW l \in orphans \ gone PROVE Heir(desc, c, l) \in desc[l].computers \ {c}
  <2>1. PICK S : S = desc[l].computers \ {c}
    OBVIOUS
  <2>2. S \in SUBSET Nat /\ S # {}
    BY <2>1, <1>6, <1>7, <1>9, EndsAssumption DEF Ends
  <2>3. \E x \in S : \A y \in S : x <= y
    BY <2>2, NatMin
  <2>4. Heir(desc, c, l) = CHOOSE x \in S : \A y \in S : x <= y
    BY <2>1 DEF Heir
  <2> QED
    BY <2>1, <2>3, <2>4
<1>10. ASSUME NEW l \in DOMAIN d
       PROVE  /\ d[l] \in [default : Computers, computers : SUBSET Computers]
              /\ d[l].default \in d[l].computers /\ w[l] = d[l].default
              /\ d[l].computers = IF l \in serving THEN desc[l].computers \ {c} ELSE desc[l].computers
  <2>1. PICK x, y : /\ x = IF l \in orphans THEN Heir(desc, c, l) ELSE desc[l].default
                    /\ y = IF l \in serving THEN desc[l].computers \ {c} ELSE desc[l].computers
    OBVIOUS
  <2>2. l \in DOMAIN desc /\ l \notin gone
    BY <1>8, <1>10
  <2>3. d[l] = [default |-> x, computers |-> y]
    BY <2>1, <2>2, <1>4, <1>5 DEF Left
  <2>4. w[l] = x
    BY <2>1, <2>2, <1>4, <1>5, <1>7 DEF LeftRoute
  <2>5. desc[l].computers \in SUBSET Computers /\ desc[l].default \in desc[l].computers
    BY <2>2, <1>7
  <2>6. y \in SUBSET Computers /\ x \in y
    BY <2>1, <2>2, <2>5, <1>6, <1>9
  <2> QED
    BY <2>1, <2>3, <2>4, <2>6
<1>11. RouteFits(d, w)
  BY <1>8, <1>10 DEF RouteFits
<1>12. \A l \in set : c \notin lam[l]
  BY <1>1, <1>3 DEF HookFits
<1>13. DescFits(u, lam, d)
  <2>1. DOMAIN d \in SUBSET Lambdas
    BY <1>8 DEF DescFits
  <2>2. ASSUME NEW l \in Lambdas, NEW o \in lam[l]
        PROVE  (l \in DOMAIN d /\ o \in d[l].computers) \/ AwaitsComputer(u, "addComputer", o, l)
    <3>1. CASE l \in DOMAIN desc /\ o \in desc[l].computers
      <4>1. l \in set => o # c
        BY <2>2, <1>12
      <4>2. l \notin gone
        BY <3>1, <4>1, <1>6
      <4>3. l \in DOMAIN d
        BY <3>1, <4>2, <1>8
      <4> QED
        BY <3>1, <4>1, <4>3, <1>6, <1>10
    <3>2. CASE AwaitsComputer(s, "addComputer", o, l)
      BY <3>2, <1>1
    <3> QED
      BY <2>2, <3>1, <3>2 DEF DescFits
  <2>3. ASSUME NEW l \in DOMAIN d, NEW o \in d[l].computers
        PROVE  o \in lam[l] \/ AwaitsComputer(u, "delComputer", o, l)
    <3>1. /\ l \in DOMAIN desc /\ o \in desc[l].computers /\ ~ (l \in set /\ o = c)
      <4>1. l \in DOMAIN desc /\ (l \in serving <=> l \in set /\ c \in desc[l].computers)
        BY <2>3, <1>6, <1>8
      <4>2. d[l].computers = IF l \in serving THEN desc[l].computers \ {c} ELSE desc[l].computers
        BY <2>3, <1>10
      <4>3. CASE l \in serving
        <5>1. o \in desc[l].computers \ {c}
          BY <4>2, <4>3, <2>3
        <5> QED
          BY <4>1, <5>1
      <4>4. CASE l \notin serving
        <5>1. o \in desc[l].computers
          BY <4>2, <4>4, <2>3
        <5> QED
          BY <4>1, <4>4, <5>1
      <4> QED
        BY <4>3, <4>4
    <3>2. o \in lam[l] \/ AwaitsComputer(s, "delComputer", o, l)
      BY <3>1 DEF DescFits
    <3> QED
      BY <3>1, <3>2, <1>1, <1>3
  <2> QED
    BY <2>1, <2>2, <2>3 DEF DescFits
<1> QED
  BY <1>1, <1>2, <1>3, <1>4, <1>11, <1>13

LEMMA EtsiHook ==
  ASSUME CoreInv, kind = "etsi", EtsiInv, Hook
  PROVE  EtsiInv'
<1>1. PICK f, u : f = Head(stack) /\ u = Tail(stack)
  OBVIOUS
<1>2. /\ stack \in Seq(Calls) /\ stack # <<>> /\ stack' = u
      /\ lambdas' = lambdas /\ deployment' = deployment
  BY <1>1 DEF CoreInv, GoodStack, Hook, base
<1>3. /\ HooksFit(stack, lambdas) /\ AppsFit(stack, lambdas, etsi.apps)
      /\ DescFits(stack, lambdas, etsi.desc) /\ RouteFits(etsi.desc, etsi.route)
      /\ {"desc", "apps", "route"} \subseteq DOMAIN etsi
  BY DEF EtsiInv
<1>4. CASE f.op = "addLambda" /\ etsi' = addLambda(etsi, f.l)
  <2>1. etsi' = [etsi EXCEPT !.apps = etsi.apps \cup {f.l}]
    BY <1>4 DEF addLambda
  <2>2. /\ etsi'.apps = etsi.apps \cup {f.l} /\ etsi'.desc = etsi.desc /\ etsi'.route = etsi.route
        /\ DOMAIN etsi' = DOMAIN etsi
    BY <2>1, <1>3, EtsiFields
  <2>3. /\ HooksFit(u, lambdas) /\ DescFits(u, lambdas, etsi.desc)
        /\ AppsFit(u, lambdas, etsi.apps \cup {f.l})
    BY <1>1, <1>2, <1>3, <1>4, EtsiLambdaHook DEF LambdaOps
  <2> QED
    BY <2>2, <2>3, <1>2, <1>3 DEF EtsiInv
<1>5. CASE f.op = "delLambda" /\ etsi' = delLambda(etsi, f.l)
  <2>1. etsi' = [etsi EXCEPT !.apps = etsi.apps \ {f.l}]
    BY <1>5 DEF delLambda
  <2>2. /\ etsi'.apps = etsi.apps \ {f.l} /\ etsi'.desc = etsi.desc /\ etsi'.route = etsi.route
        /\ DOMAIN etsi' = DOMAIN etsi
    BY <2>1, <1>3, EtsiFields
  <2>3. /\ HooksFit(u, lambdas) /\ DescFits(u, lambdas, etsi.desc)
        /\ AppsFit(u, lambdas, etsi.apps \ {f.l})
    BY <1>1, <1>2, <1>3, <1>5, EtsiLambdaHook DEF LambdaOps
  <2> QED
    BY <2>2, <2>3, <1>2, <1>3 DEF EtsiInv
<1>6. CASE f.op = "addComputer" /\ etsi' = addComputer(etsi, f.c, f.set)
  <2>1. /\ etsi'.desc = Joined(etsi.desc, f.c, f.set)
        /\ etsi'.route = JoinedRoute(etsi.desc, etsi.route, f.c, f.set)
        /\ etsi'.apps = etsi.apps /\ DOMAIN etsi' = DOMAIN etsi
    BY <1>3, <1>6, addComputerFacts
  <2>2. /\ HooksFit(u, lambdas) /\ AppsFit(u, lambdas, etsi.apps)
        /\ DescFits(u, lambdas, Joined(etsi.desc, f.c, f.set))
        /\ RouteFits(Joined(etsi.desc, f.c, f.set), JoinedRoute(etsi.desc, etsi.route, f.c, f.set))
    BY <1>1, <1>2, <1>3, <1>6, EtsiAddComputer
  <2> QED
    BY <2>1, <2>2, <1>2, <1>3 DEF EtsiInv
<1>7. CASE f.op = "delComputer" /\ etsi' = delComputer(etsi, f.c, f.set)
  <2>1. /\ etsi'.desc = Left(etsi.desc, f.c, f.set)
        /\ etsi'.route = LeftRoute(etsi.desc, etsi.route, f.c, f.set)
        /\ etsi'.apps = etsi.apps /\ DOMAIN etsi' = DOMAIN etsi
    BY <1>3, <1>7, delComputerFacts
  <2>2. /\ HooksFit(u, lambdas) /\ AppsFit(u, lambdas, etsi.apps)
        /\ DescFits(u, lambdas, Left(etsi.desc, f.c, f.set))
        /\ RouteFits(Left(etsi.desc, f.c, f.set), LeftRoute(etsi.desc, etsi.route, f.c, f.set))
    BY <1>1, <1>2, <1>3, <1>7, EtsiDelComputer
  <2> QED
    BY <2>1, <2>2, <1>2, <1>3 DEF EtsiInv
<1> QED
  BY <1>1, <1>4, <1>5, <1>6, <1>7 DEF Hook

LEMMA EtsiSame ==
  ASSUME EtsiInv, UNCHANGED <<deployment, lambdas, stack>>, etsi'.apps = etsi.apps,
         etsi'.desc = etsi.desc, etsi'.route = etsi.route, DOMAIN etsi' = DOMAIN etsi
  PROVE  EtsiInv'
  BY DEF EtsiInv, kind

\* The periodic task and the contexts of the proxy.
LEMMA EtsiProxy ==
  ASSUME EtsiInv, kind = "etsi",
         optimizeTask \/ \E k \in DOMAIN ContextOf : CreateContext(k) \/ DeleteContext(k)
  PROVE  EtsiInv'
<1>1. UNCHANGED <<deployment, lambdas, stack>>
  BY DEF optimizeTask, CreateContext, DeleteContext, base
<1>2. {"desc", "apps", "route"} \subseteq DOMAIN etsi
  BY DEF EtsiInv
<1>3. (\E v : etsi' = [etsi EXCEPT !.contexts = v])
        \/ \E v, w : etsi' = [etsi EXCEPT !.last = v, !.individual = w]
  BY DEF optimizeTask, optimize, CreateContext, DeleteContext
<1>4. /\ etsi'.apps = etsi.apps /\ etsi'.desc = etsi.desc /\ etsi'.route = etsi.route
      /\ DOMAIN etsi' = DOMAIN etsi
  BY <1>2, <1>3
<1> QED
  BY <1>1, <1>4, EtsiSame

LEMMA EtsiAnnounceComputer ==
  ASSUME CoreInv, EtsiInv, kind = "etsi", NEW c \in Computers, NEW set, announceComputer(c, set)
  PROVE  EtsiInv'
<1>1. set \in ContainerLists /\ stack = <<>> /\ UNCHANGED <<deployment, etsi>>
  BY DeploymentFacts DEF announceComputer, CoreInv, Idle
<1>2. OnlyInserts(stack)
  BY <1>1, NoInserts
<1>3. CASE Insert(c, set, <<>>)
  BY <1>1, <1>2, <1>3, EtsiInsert
<1>4. CASE computers[c] # {} /\ Withdraw(c, <<ComputerCall("insert", c, set)>>)
  <2>1. PICK f, after : f = ComputerCall("insert", c, set) /\ after = <<f>>
    OBVIOUS
  <2>2. f \in Calls /\ f.op = "insert"
    BY <2>1, <1>1, CallTypes DEF ComputerOps
  <2>3. after \in Seq(Calls) /\ \A i \in DOMAIN after : after[i] = f
    BY <2>1, <2>2
  <2>4. OnlyInserts(after)
    BY <2>2, <2>3 DEF OnlyInserts
  <2>5. Withdraw(c, after)
    BY <1>4, <2>1
  <2> QED
    BY <2>3, <2>4, <2>5, <1>1, <1>2, <1>4, EtsiWithdraw
<1>5. \/ computers[c] = {} /\ Insert(c, set, <<>>)
      \/ computers[c] # {} /\ Withdraw(c, <<ComputerCall("insert", c, set)>>)
  BY DEF announceComputer, AddStatus, ComputerCall
<1> QED
  BY <1>3, <1>4, <1>5

LEMMA EtsiRemoveComputer ==
  ASSUME CoreInv, EtsiInv, kind = "etsi", NEW c \in Computers, removeComputer(c)
  PROVE  EtsiInv'
<1>1. /\ stack = <<>> /\ computers[c] # {} /\ Withdraw(c, <<>>)
      /\ UNCHANGED <<deployment, etsi>>
  BY DEF removeComputer, Idle
<1>2. <<>> \in Seq(Calls) /\ OnlyInserts(<<>>)
  BY NoInserts
<1> QED
  BY <1>1, <1>2, EtsiWithdraw

LEMMA EtsiAddAgain ==
  ASSUME CoreInv, EtsiInv, kind = "etsi", AddAgain
  PROVE  EtsiInv'
<1>1. PICK f : f = Head(stack)
  OBVIOUS
<1>2. /\ stack # <<>> /\ f.op = "insert" /\ Insert(f.c, f.set, Tail(stack))
      /\ UNCHANGED <<deployment, etsi>>
  BY <1>1 DEF AddAgain, Running
<1>3. GoodStack(stack, computers, deployment.computers) /\ stack \in Seq(Calls)
  BY DEF CoreInv, GoodStack
<1>4. f \in Calls /\ Tail(stack) = <<>>
  BY <1>1, <1>2, <1>3, PopGood
<1>5. f.c \in Computers /\ f.set \in ContainerLists
  BY <1>2, <1>4, CallFacts, CallOps DEF ComputerOps
<1>6. OnlyInserts(stack)
  <2>1. /\ f = stack[1] /\ DOMAIN Tail(stack) = {}
        /\ \A i \in DOMAIN stack : i = 1 \/ i - 1 \in DOMAIN Tail(stack)
    BY <1>1, <1>2, <1>3, <1>4, TailFacts
  <2> QED
    BY <2>1, <1>2 DEF OnlyInserts
<1>7. Insert(f.c, f.set, <<>>)
  BY <1>2, <1>4
<1> QED
  BY <1>2, <1>5, <1>6, <1>7, EtsiInsert

LEMMA EtsiStep ==
  ASSUME CoreInv, EtsiInv, [Next]_vars
  PROVE  EtsiInv'
<1>1. kind' = kind
  BY DEF Next, Step, Event, vars, kind, AddAgain, privateAnnounceComputer, privateRemoveComputer,
     CommandSucceeds, CommandFails, LoopEnds, Hook, announceComputer, removeComputer,
     announceRouter, Crash, Start, Purge, CreateContext, DeleteContext, optimizeTask
<1>2. CASE kind # "etsi"
  BY <1>1, <1>2 DEF EtsiInv
<1>3. CASE kind = "etsi"
  <2>1. CASE privateAnnounceComputer
    <3>1. /\ stack # <<>> /\ Head(stack).op = "announce" /\ stack' = Tail(stack)
          /\ UNCHANGED <<deployment, lambdas, etsi>>
      BY <2>1, <1>3 DEF privateAnnounceComputer, Running, base
    <3> QED
      BY <3>1, <1>3, EtsiPop DEF LambdaOps
  <2>2. CASE privateRemoveComputer
    <3>1. /\ stack # <<>> /\ Head(stack).op = "withdraw" /\ stack' = Tail(stack)
          /\ UNCHANGED <<deployment, lambdas, etsi>>
      BY <2>2, <1>3 DEF privateRemoveComputer, Running, base
    <3> QED
      BY <3>1, <1>3, EtsiPop DEF LambdaOps
  <2>3. CASE Running("commands")
    <3>1. stack \in Seq(Calls) /\ stack # <<>> /\ Head(stack).op = "commands"
      BY <2>3 DEF CoreInv, GoodStack, Running
    <3>2. HookFits(Head(stack), lambdas)
      BY <3>1, <1>3, HookDone DEF EtsiInv
    <3> QED
      BY <3>1, <3>2 DEF HookFits
  <2>4. CASE Step
    <3>1. CommandSucceeds \/ CommandFails \/ LoopEnds => Running("commands")
      BY DEF CommandSucceeds, CommandFails, LoopEnds, Sending
    <3> QED
      BY <3>1, <2>1, <2>2, <2>3, <2>4, <1>3, EtsiAddAgain, EtsiHook DEF Step
  <2>5. CASE optimizeTask \/ \E k \in DOMAIN ContextOf : CreateContext(k) \/ DeleteContext(k)
    BY <2>5, <1>3, EtsiProxy
  <2>6. CASE \/ \E r \in Routers : announceRouter(r) \/ Crash(r) \/ Start(r)
             \/ \E r \in Routers : \E x \in rows[r] : Purge(r, x)
             \/ UNCHANGED vars
    <3>1. UNCHANGED <<deployment, lambdas, stack, etsi>>
      BY <2>6, <1>3 DEF announceRouter, Crash, Start, Purge, vars, base
    <3> QED
      BY <3>1, EtsiSame
  <2>7. CASE \E c \in Computers : \E set \in deployment.offers : announceComputer(c, set)
    BY <2>7, <1>3, EtsiAnnounceComputer
  <2>8. CASE \E c \in Computers : removeComputer(c)
    BY <2>8, <1>3, EtsiRemoveComputer
  <2> QED
    BY <2>4, <2>5, <2>6, <2>7, <2>8 DEF Next, Event
<1> QED
  BY <1>2, <1>3

LEMMA EtsiStart ==
  ASSUME Init
  PROVE  EtsiInv
<1>1. stack = <<>> /\ lambdas = [l \in Lambdas |-> {}] /\ etsi = EtsiInit
  BY DEF Init
<1>2. /\ {"desc", "apps", "route"} \subseteq DOMAIN etsi
      /\ etsi.desc = <<>> /\ etsi.route = <<>> /\ etsi.apps = {}
  BY <1>1 DEF EtsiInit
<1>3. DOMAIN <<>> = {}
  OBVIOUS
<1>4. HooksFit(stack, lambdas)
  BY <1>1, <1>3 DEF HooksFit
<1>5. AppsFit(stack, lambdas, etsi.apps)
  BY <1>1, <1>2 DEF AppsFit
<1>6. DescFits(stack, lambdas, etsi.desc)
  BY <1>1, <1>2, <1>3 DEF DescFits
<1>7. RouteFits(etsi.desc, etsi.route)
  BY <1>2, <1>3 DEF RouteFits
<1> QED
  BY <1>2, <1>4, <1>5, <1>6, <1>7 DEF EtsiInv

LEMMA EtsiAlways == Spec => []EtsiInv
<1>1. Init => EtsiInv
  BY EtsiStart
<1>2. CoreInv /\ EtsiInv /\ [Next]_vars => EtsiInv'
  BY EtsiStep
<1> QED
  BY <1>1, <1>2, CoreAlways, PTL DEF Spec

LEMMA EtsiServed ==
  ASSUME CoreInv, EtsiInv
  PROVE  DefaultServed
<1>1. SUFFICES ASSUME stack = <<>>, kind = "etsi"
               PROVE  LET served == {l \in Lambdas : lambdas[l] # {}}
                      IN /\ etsi.apps = served /\ DOMAIN etsi.route = served
                         /\ \A l \in served : etsi.route[l] \in lambdas[l]
  BY DEF DefaultServed, Idle
<1>2. OnlyInserts(stack)
  BY <1>1, NoInserts
<1>3. /\ etsi.apps \in SUBSET Lambdas /\ DOMAIN etsi.desc \in SUBSET Lambdas
      /\ \A l \in Lambdas : l \in etsi.apps <=> lambdas[l] # {}
      /\ \A l \in Lambdas : \A c \in lambdas[l] : l \in DOMAIN etsi.desc
      /\ \A l \in DOMAIN etsi.desc : \A c \in etsi.desc[l].computers : c \in lambdas[l]
      /\ RouteFits(etsi.desc, etsi.route)
  BY <1>1, <1>2, EtsiSettled
<1>4. /\ DOMAIN etsi.route = DOMAIN etsi.desc
      /\ \A l \in DOMAIN etsi.desc : /\ etsi.desc[l].default \in etsi.desc[l].computers
                                     /\ etsi.route[l] = etsi.desc[l].default
  BY <1>3 DEF RouteFits
<1>5. \A l \in DOMAIN etsi.desc : etsi.route[l] \in lambdas[l]
  BY <1>3, <1>4
<1>6. \A l \in Lambdas : l \in DOMAIN etsi.desc <=> lambdas[l] # {}
  BY <1>3, <1>5
<1> QED
  BY <1>3, <1>4, <1>5, <1>6

\* When no handler runs, the LCM proxy of an ETSI controller knows exactly the
\* lambdas that some computer serves, and its default association of each is a
\* computer that serves it, although each handler tells it of its changes one
\* call at a time (edgecontroller.cpp, edgecontrolleretsibalanced.cpp).
THEOREM EdgeControllerDefaultServed == Spec => []DefaultServed
<1>1. CoreInv /\ EtsiInv => DefaultServed
  BY EtsiServed
<1> QED
  BY <1>1, CoreAlways, EtsiAlways, PTL

\* Functions that add the same numbers agree.
LEMMA SumsAgree ==
  ASSUME NEW f, NEW g, NEW S, IsFiniteSet(S), Sums(f, g, S),
         NEW h, NEW k, NEW T, IsFiniteSet(T), Sums(h, k, T),
         NEW w, w \subseteq S, w \subseteq T, \A x \in w : g[x] = k[x]
  PROVE  f[w] = h[w]
<1> DEFINE Bad == {n \in Nat : \E u \in SUBSET w : Cardinality(u) = n /\ f[u] # h[u]}
<1>1. SUFFICES Bad = {}
  <2>1. IsFiniteSet(w)
    BY FS_Subset
  <2> QED
    BY <2>1, FS_CardinalityType
<1>2. SUFFICES ASSUME Bad # {} PROVE FALSE
  OBVIOUS
<1>3. PICK n \in Bad : \A m \in Bad : n <= m
  <2>1. Bad \in SUBSET Nat OBVIOUS
  <2> HIDE DEF Bad
  <2> QED BY <1>2, <2>1, NatMin
<1>4. PICK u \in SUBSET w : Cardinality(u) = n /\ f[u] # h[u]
  BY <1>3 DEF Bad
<1>5. u # {}
  BY <1>4 DEF Sums, AddsOne
<1>6. PICK x \in u : /\ x = (CHOOSE y \in u : TRUE) /\ f[u] = g[x] + f[u \ {x}]
                     /\ Cardinality(u \ {x}) = n - 1
                     /\ Cardinality(u \ {x}) \in Nat /\ n \in Nat
  <2>1. u \in SUBSET S
    OBVIOUS
  <2> QED
    BY <1>4, <1>5, <2>1, SumsStep
<1>7. h[u] = k[x] + h[u \ {x}]
  <2>1. u \in SUBSET T
    OBVIOUS
  <2>2. PICK z \in u : z = (CHOOSE y \in u : TRUE) /\ h[u] = k[z] + h[u \ {z}]
    BY <1>5, <2>1, SumsStep
  <2>3. z = x
    BY <1>6, <2>2
  <2> QED
    BY <2>2, <2>3
<1>8. n - 1 \notin Bad
  <2> HIDE DEF Bad
  <2> QED BY <1>3, <1>6
<1>9. f[u \ {x}] = h[u \ {x}]
  BY <1>6, <1>8
<1>10. g[x] = k[x]
  OBVIOUS
<1> QED
  BY <1>4, <1>6, <1>7, <1>9, <1>10

LEMMA SumSame ==
  ASSUME NEW g, NEW k, NEW S, IsFiniteSet(S), \A x \in S : g[x] = k[x]
  PROVE  SumOver(g, S) = SumOver(k, S)
<1>1. PICK f : Sums(f, g, S) /\ SumOver(g, S) = f[S]
  BY SumRec
<1>2. PICK h : Sums(h, k, S) /\ SumOver(k, S) = h[S]
  BY SumRec
<1>3. f[S] = h[S]
  BY <1>1, <1>2, SumsAgree
<1> QED
  BY <1>1, <1>2, <1>3

\* The order in which the elements are added does not matter.
LEMMA SumsAny ==
  ASSUME NEW f, NEW g, NEW S, IsFiniteSet(S), Sums(f, g, S), \A x \in S : g[x] \in Nat,
         NEW a \in S
  PROVE  f[S] = g[a] + f[S \ {a}]
<1> DEFINE Good(u) == \A x \in u : f[u] = g[x] + f[u \ {x}]
           Bad == {n \in Nat : \E u \in SUBSET S : Cardinality(u) = n /\ ~ Good(u)}
<1>0. \A u \in SUBSET S : f[u] \in Nat
  BY SumsNat
<1>1. SUFFICES Bad = {}
  <2>1. Cardinality(S) \in Nat
    BY FS_CardinalityType
  <2> HIDE DEF Good
  <2>2. Good(S)
    BY <2>1
  <2> QED
    BY <2>2 DEF Good
<1>2. SUFFICES ASSUME Bad # {} PROVE FALSE
  OBVIOUS
<1>3. PICK n \in Bad : \A m \in Bad : n <= m
  <2>1. Bad \in SUBSET Nat OBVIOUS
  <2> HIDE DEF Bad
  <2> QED BY <1>2, <2>1, NatMin
<1>4. PICK u \in SUBSET S : Cardinality(u) = n /\ ~ Good(u)
  <2> HIDE DEF Good
  <2> QED BY <1>3 DEF Bad
<1>5. PICK x \in u : f[u] # g[x] + f[u \ {x}]
  BY <1>4
<1>6. PICK y \in u : /\ f[u] = g[y] + f[u \ {y}] /\ Cardinality(u \ {y}) = n - 1
                     /\ Cardinality(u \ {y}) \in Nat /\ n \in Nat /\ u \ {y} \in SUBSET S
  BY <1>4, SumsStep
<1>7. x # y
  BY <1>5, <1>6
<1>8. n - 1 \notin Bad
  <2> HIDE DEF Bad
  <2> QED BY <1>3, <1>6
<1>9. Cardinality(u \ {x}) = n - 1 /\ u \ {x} \in SUBSET S
  <2>1. IsFiniteSet(u)
    BY FS_Subset
  <2> QED
    BY <2>1, <1>4, FS_RemoveElement
<1>10. Good(u \ {x}) /\ Good(u \ {y})
  <2> HIDE DEF Good
  <2> QED BY <1>6, <1>8, <1>9
<1>11. PICK v : v = (u \ {x}) \ {y}
  OBVIOUS
<1>12. v = (u \ {y}) \ {x} /\ v \in SUBSET S
  BY <1>11
<1>13. f[u \ {x}] = g[y] + f[v]
  BY <1>10, <1>7, <1>11
<1>14. f[u \ {y}] = g[x] + f[v]
  BY <1>10, <1>7, <1>12
<1>15. g[x] \in Nat /\ g[y] \in Nat /\ f[v] \in Nat
  BY <1>0, <1>12
<1> QED
  BY <1>5, <1>6, <1>13, <1>14, <1>15

LEMMA SumWithout ==
  ASSUME NEW g, NEW S, IsFiniteSet(S), \A x \in S : g[x] \in Nat, NEW a \in S
  PROVE  SumOver(g, S) = g[a] + SumOver(g, S \ {a})
<1>1. PICK f : Sums(f, g, S) /\ SumOver(g, S) = f[S]
  BY SumRec
<1>2. f[S] = g[a] + f[S \ {a}]
  BY <1>1, SumsAny
<1>3. IsFiniteSet(S \ {a})
  BY FS_Subset
<1>4. PICK h : Sums(h, g, S \ {a}) /\ SumOver(g, S \ {a}) = h[S \ {a}]
  BY <1>3, SumRec
<1>5. f[S \ {a}] = h[S \ {a}]
  <2>1. PICK T : T = S \ {a}
    OBVIOUS
  <2>2. IsFiniteSet(T) /\ Sums(h, g, T) /\ T \subseteq S
    BY <2>1, <1>3, <1>4
  <2>3. f[T] = h[T]
    BY <2>2, <1>1, SumsAgree
  <2> QED
    BY <2>1, <2>3
<1> QED
  BY <1>1, <1>2, <1>4, <1>5

LexLeq(a, b, c, y, m) == \/ a[y] < a[m]
                         \/ a[y] = a[m] /\ b[y] < b[m]
                         \/ a[y] = a[m] /\ b[y] = b[m] /\ c[y] <= c[m]

\* A finite set of which a, b and c are the keys has a greatest element.
LEMMA LexGreatest ==
  ASSUME NEW T, IsFiniteSet(T), T # {}, NEW a \in [T -> Nat], NEW b \in [T -> Nat], NEW c \in [T -> Nat]
  PROVE  \E m \in T : \A y \in T : LexLeq(a, b, c, y, m)
<1>1. ASSUME NEW U \in SUBSET T, U # {}, NEW f \in [T -> Nat] PROVE \E m \in U : \A y \in U : f[y] <= f[m]
  <2>1. PICK V : V = {f[y] : y \in U}
    OBVIOUS
  <2>2. V \in SUBSET Nat /\ V # {}
    BY <1>1, <2>1
  <2>3. IsFiniteSet(V)
    <3>1. IsFiniteSet(U)
      BY FS_Subset
    <3>2. PICK h : h = [y \in U |-> f[y]]
      OBVIOUS
    <3>3. h \in Surjection(U, V)
      BY <3>2, <2>1 DEF Surjection
    <3> QED
      BY <3>1, <3>3, FS_Surjection
  <2>4. PICK v \in V : \A y \in V : y <= v
    BY <2>2, <2>3, NatMax
  <2> QED
    BY <2>1, <2>4
<1>2. PICK x \in T : \A y \in T : a[y] <= a[x]
  BY <1>1
<1>3. PICK U : U = {y \in T : a[y] = a[x]}
  OBVIOUS
<1>4. PICK z \in U : \A y \in U : b[y] <= b[z]
  BY <1>1, <1>3
<1>5. PICK W : W = {y \in U : b[y] = b[z]}
  OBVIOUS
<1>6. PICK m \in W : \A y \in W : c[y] <= c[m]
  BY <1>1, <1>3, <1>5
<1>7. m \in T /\ a[m] = a[x] /\ b[m] = b[z]
  BY <1>3, <1>5, <1>6
<1>8. ASSUME NEW y \in T
      PROVE  \/ a[y] < a[m]
             \/ a[y] = a[m] /\ b[y] < b[m]
             \/ a[y] = a[m] /\ b[y] = b[m] /\ c[y] <= c[m]
  <2>1. CASE a[y] # a[m]
    BY <2>1, <1>2, <1>7
  <2>2. CASE a[y] = a[m] /\ b[y] # b[m]
    BY <2>2, <1>3, <1>4, <1>7
  <2>3. CASE a[y] = a[m] /\ b[y] = b[m]
    BY <2>3, <1>3, <1>5, <1>6, <1>7
  <2> QED
    BY <2>1, <2>2, <2>3
<1> QED
  BY <1>7, <1>8 DEF LexLeq

\* The positions of an element of list after the one at i is put at j.
Shift(p, i, j) == IF p < i \/ p > j THEN p ELSE p + 1

LEMMA RemoveFacts ==
  ASSUME NEW S, NEW s \in Seq(S), NEW i \in 1..Len(s)
  PROVE  /\ RemoveAt(s, i) \in Seq(S) /\ Len(RemoveAt(s, i)) = Len(s) - 1
         /\ \A p \in 1..(Len(s) - 1) : RemoveAt(s, i)[p] = IF p < i THEN s[p] ELSE s[p + 1]
<1>1. PICK n : n = Len(s)
  OBVIOUS
<1>2. n \in Nat /\ i \in 1..n /\ \A k \in 1..n : s[k] \in S
  BY <1>1
<1>3. PICK a : a = SubSeq(s, 1, i - 1)
  OBVIOUS
<1>4. PICK b : b = SubSeq(s, i + 1, n)
  OBVIOUS
<1>5. /\ a \in Seq(S) /\ Len(a) = i - 1
      /\ \A k \in 1..(i - 1) : a[k] = s[k]
  <2>1. \A k \in 1..(i - 1) : s[k] \in S
    BY <1>2
  <2>2. /\ a \in Seq(S) /\ Len(a) = IF 1 <= i - 1 THEN i - 1 - 1 + 1 ELSE 0
        /\ \A k \in 1..(i - 1 - 1 + 1) : a[k] = s[1 + k - 1]
    BY <2>1, <1>2, <1>3, SubSeqProperties
  <2> QED
    BY <2>2, <1>2
<1>6. /\ b \in Seq(S) /\ Len(b) = n - i
      /\ \A k \in 1..(n - i) : b[k] = s[i + k]
  <2>1. \A k \in (i + 1)..n : s[k] \in S
    BY <1>2
  <2>2. /\ b \in Seq(S) /\ Len(b) = IF i + 1 <= n THEN n - (i + 1) + 1 ELSE 0
        /\ \A k \in 1..(n - (i + 1) + 1) : b[k] = s[(i + 1) + k - 1]
    BY <2>1, <1>2, <1>4, SubSeqProperties
  <2>3. n - (i + 1) + 1 = n - i /\ \A k \in 1..(n - i) : (i + 1) + k - 1 = i + k
    BY <1>2
  <2> QED
    BY <2>2, <2>3, <1>2
<1>7. PICK t : t = a \o b
  OBVIOUS
<1>8. RemoveAt(s, i) = t
  BY <1>1, <1>3, <1>4, <1>7 DEF RemoveAt
<1>9. /\ t \in Seq(S) /\ Len(t) = (i - 1) + (n - i)
      /\ \A k \in 1..((i - 1) + (n - i)) : t[k] = IF k <= i - 1 THEN a[k] ELSE b[k - (i - 1)]
  BY <1>5, <1>6, <1>7, ConcatProperties
<1>10. (i - 1) + (n - i) = n - 1
  BY <1>2
<1>11. \A p \in 1..(n - 1) : t[p] = IF p < i THEN s[p] ELSE s[p + 1]
  <2> TAKE p \in 1..(n - 1)
  <2>1. CASE p < i
    <3>1. p <= i - 1 /\ p \in 1..(i - 1)
      BY <2>1, <1>2
    <3> QED
      BY <3>1, <2>1, <1>5, <1>9, <1>10
  <2>2. CASE ~ (p < i)
    <3>1. ~ (p <= i - 1) /\ p - (i - 1) \in 1..(n - i) /\ i + (p - (i - 1)) = p + 1
      BY <2>2, <1>2
    <3> QED
      BY <3>1, <2>2, <1>6, <1>9, <1>10
  <2> QED
    BY <2>1, <2>2
<1> QED
  BY <1>1, <1>8, <1>9, <1>10, <1>11

LEMMA InsertFacts ==
  ASSUME NEW S, NEW s \in Seq(S), NEW j \in 1..(Len(s) + 1), NEW e \in S
  PROVE  /\ InsertAt(s, j, e) \in Seq(S) /\ Len(InsertAt(s, j, e)) = Len(s) + 1
         /\ \A p \in 1..(Len(s) + 1) :
              InsertAt(s, j, e)[p] = IF p < j THEN s[p] ELSE IF p = j THEN e ELSE s[p - 1]
<1>1. PICK n : n = Len(s)
  OBVIOUS
<1>2. n \in Nat /\ j \in 1..(n + 1) /\ \A k \in 1..n : s[k] \in S
  BY <1>1
<1>3. PICK a : a = SubSeq(s, 1, j - 1)
  OBVIOUS
<1>4. PICK b : b = SubSeq(s, j, n)
  OBVIOUS
<1>5. /\ a \in Seq(S) /\ Len(a) = j - 1
      /\ \A k \in 1..(j - 1) : a[k] = s[k]
  <2>1. \A k \in 1..(j - 1) : s[k] \in S
    BY <1>2
  <2>2. /\ a \in Seq(S) /\ Len(a) = IF 1 <= j - 1 THEN j - 1 - 1 + 1 ELSE 0
        /\ \A k \in 1..(j - 1 - 1 + 1) : a[k] = s[1 + k - 1]
    BY <2>1, <1>2, <1>3, SubSeqProperties
  <2> QED
    BY <2>2, <1>2
<1>6. /\ b \in Seq(S) /\ Len(b) = n - j + 1
      /\ \A k \in 1..(n - j + 1) : b[k] = s[j + k - 1]
  <2>1. \A k \in j..n : s[k] \in S
    BY <1>2
  <2>2. /\ b \in Seq(S) /\ Len(b) = IF j <= n THEN n - j + 1 ELSE 0
        /\ \A k \in 1..(n - j + 1) : b[k] = s[j + k - 1]
    BY <2>1, <1>2, <1>4, SubSeqProperties
  <2> QED
    BY <2>2, <1>2
<1>7. PICK c : c = a \o <<e>>
  OBVIOUS
<1>8. /\ c \in Seq(S) /\ Len(c) = j
      /\ \A k \in 1..j : c[k] = IF k < j THEN s[k] ELSE e
  <2>1. <<e>> \in Seq(S) /\ Len(<<e>>) = 1 /\ <<e>>[1] = e
    OBVIOUS
  <2>2. /\ c \in Seq(S) /\ Len(c) = (j - 1) + 1
        /\ \A k \in 1..((j - 1) + 1) : c[k] = IF k <= j - 1 THEN a[k] ELSE <<e>>[k - (j - 1)]
    BY <2>1, <1>5, <1>7, ConcatProperties
  <2>3. (j - 1) + 1 = j
    BY <1>2
  <2>4. ASSUME NEW k \in 1..j PROVE c[k] = IF k < j THEN s[k] ELSE e
    <3>1. CASE k < j
      <4>1. k <= j - 1 /\ k \in 1..(j - 1)
        BY <3>1, <1>2
      <4> QED
        BY <4>1, <3>1, <2>2, <2>3, <1>5
    <3>2. CASE ~ (k < j)
      <4>1. ~ (k <= j - 1) /\ k - (j - 1) = 1
        BY <3>2, <1>2
      <4> QED
        BY <4>1, <3>2, <2>1, <2>2, <2>3
    <3> QED
      BY <3>1, <3>2
  <2> QED
    BY <2>2, <2>3, <2>4
<1>9. PICK t : t = c \o b
  OBVIOUS
<1>10. InsertAt(s, j, e) = t
  BY <1>1, <1>3, <1>4, <1>7, <1>9 DEF InsertAt
<1>11. /\ t \in Seq(S) /\ Len(t) = j + (n - j + 1)
       /\ \A k \in 1..(j + (n - j + 1)) : t[k] = IF k <= j THEN c[k] ELSE b[k - j]
  <2>1. /\ t \in Seq(S) /\ Len(t) = Len(c) + Len(b)
        /\ \A k \in 1..(Len(c) + Len(b)) : t[k] = IF k <= Len(c) THEN c[k] ELSE b[k - Len(c)]
    BY <1>6, <1>8, <1>9, ConcatProperties
  <2>2. Len(c) = j /\ Len(b) = n - j + 1
    BY <1>6, <1>8
  <2> QED
    BY <2>1, <2>2
<1>12. j + (n - j + 1) = n + 1
  BY <1>2
<1>13. ASSUME NEW p \in 1..(n + 1)
       PROVE  t[p] = IF p < j THEN s[p] ELSE IF p = j THEN e ELSE s[p - 1]
  <2>1. CASE p <= j
    <3>1. p \in 1..j /\ (p < j \/ p = j)
      BY <2>1, <1>2
    <3> QED
      BY <3>1, <2>1, <1>8, <1>11, <1>12
  <2>2. CASE ~ (p <= j)
    <3>1. p - j \in 1..(n - j + 1) /\ j + (p - j) - 1 = p - 1 /\ ~ (p < j) /\ p # j
      BY <2>2, <1>2
    <3> QED
      BY <3>1, <2>2, <1>6, <1>11, <1>12
  <2> QED
    BY <2>1, <2>2
<1> QED
  BY <1>1, <1>10, <1>11, <1>12, <1>13

MovesTo(m, s, i, j, e) ==
  Len(m) = Len(s) /\ m[j] = e /\ \A p \in 1..Len(s) : p # j => m[p] = s[Shift(p, i, j)]

\* An element moved towards the end of a list.
LEMMA MoveFacts ==
  ASSUME NEW S, NEW s \in Seq(S), NEW i \in 1..Len(s), NEW j \in i..Len(s), NEW e \in S
  PROVE  /\ InsertAt(RemoveAt(s, i), j, e) \in Seq(S)
         /\ MovesTo(InsertAt(RemoveAt(s, i), j, e), s, i, j, e)
<1>1. PICK n : n = Len(s)
  OBVIOUS
<1>2. n \in Nat /\ i \in 1..n /\ j \in i..n
  BY <1>1
<1>3. PICK r : r = RemoveAt(s, i)
  OBVIOUS
<1>4. /\ r \in Seq(S) /\ Len(r) = n - 1
      /\ \A p \in 1..(n - 1) : r[p] = IF p < i THEN s[p] ELSE s[p + 1]
  BY <1>1, <1>3, RemoveFacts
<1>5. PICK t : t = InsertAt(r, j, e)
  OBVIOUS
<1>6. (n - 1) + 1 = n /\ j \in 1..((n - 1) + 1)
  BY <1>2
<1>7. /\ t \in Seq(S) /\ Len(t) = n
      /\ \A p \in 1..n : t[p] = IF p < j THEN r[p] ELSE IF p = j THEN e ELSE r[p - 1]
  <2>1. j \in 1..(Len(r) + 1)
    BY <1>4, <1>6
  <2>2. /\ t \in Seq(S) /\ Len(t) = Len(r) + 1
        /\ \A p \in 1..(Len(r) + 1) : t[p] = IF p < j THEN r[p] ELSE IF p = j THEN e ELSE r[p - 1]
    <3>1. r \in Seq(S)
      BY <1>4
    <3>2. /\ InsertAt(r, j, e) \in Seq(S) /\ Len(InsertAt(r, j, e)) = Len(r) + 1
          /\ \A p \in 1..(Len(r) + 1) :
               InsertAt(r, j, e)[p] = IF p < j THEN r[p] ELSE IF p = j THEN e ELSE r[p - 1]
      BY <3>1, <2>1, InsertFacts
    <3> QED
      BY <3>2, <1>5
  <2>3. Len(r) + 1 = n
    BY <1>4, <1>6
  <2> QED
    BY <2>2, <2>3
<1>8. t[j] = e
  BY <1>2, <1>7
<1>9. ASSUME NEW p \in 1..n, p # j PROVE t[p] = s[Shift(p, i, j)]
  <2>1. CASE p < i
    <3>1. p < j /\ p \in 1..(n - 1) /\ Shift(p, i, j) = p
      BY <2>1, <1>2 DEF Shift
    <3> QED
      BY <3>1, <2>1, <1>4, <1>7
  <2>2. CASE ~ (p < i) /\ p < j
    <3>1. p \in 1..(n - 1) /\ Shift(p, i, j) = p + 1
      BY <2>2, <1>2 DEF Shift
    <3> QED
      BY <3>1, <2>2, <1>4, <1>7
  <2>3. CASE ~ (p < j)
    <3>1. p > j /\ p - 1 \in 1..(n - 1) /\ ~ (p - 1 < i) /\ (p - 1) + 1 = p /\ Shift(p, i, j) = p
      BY <2>3, <1>9, <1>2 DEF Shift
    <3> QED
      BY <3>1, <2>3, <1>9, <1>4, <1>7
  <2> QED
    BY <2>1, <2>2, <2>3
<1> QED
  BY <1>1, <1>3, <1>5, <1>7, <1>8, <1>9 DEF MovesTo

GroupTypes == [l : Nat, client : Nat, n : Nat]
ContextsFit(cx) == IsFiniteSet(DOMAIN cx) /\ \A k \in DOMAIN cx : cx[k] \in Nat \X Nat

\* The groups of contexts are typed and no two have the same client and lambda.
LEMMA GroupsFacts ==
  ASSUME NEW cx, ContextsFit(cx)
  PROVE  /\ Groups(cx) \in Seq(GroupTypes)
         /\ \A i, j \in DOMAIN Groups(cx) :
              Groups(cx)[i].l = Groups(cx)[j].l /\ Groups(cx)[i].client = Groups(cx)[j].client => i = j
<1> DEFINE key(k) == <<cx[k][2], cx[k][1]>>
           count(g) == Cardinality({k \in DOMAIN cx : key(k) = g})
           Before(g, h) == \/ count(g) > count(h)
                           \/ count(g) = count(h) /\ (g[1] < h[1] \/ (g[1] = h[1] /\ g[2] < h[2]))
           K == {key(k) : k \in DOMAIN cx}
<1>0. IsFiniteSet(DOMAIN cx) /\ \A k \in DOMAIN cx : cx[k] \in Nat \X Nat
  BY DEF ContextsFit
<1>1. K \subseteq Nat \X Nat
  BY <1>0
<1>2. IsFiniteSet(K)
  <2>1. PICK h : h = [k \in DOMAIN cx |-> key(k)]
    OBVIOUS
  <2>2. h \in Surjection(DOMAIN cx, K)
    BY <2>1 DEF Surjection
  <2> QED
    BY <2>2, <1>0, FS_Surjection
<1>3. PICK D : D = Cardinality(DOMAIN cx)
  OBVIOUS
<1>4. D \in Nat
  BY <1>0, <1>3, FS_CardinalityType
<1>5. \A g : count(g) \in Nat /\ count(g) <= D
  <2> TAKE g
  <2>1. PICK U : U = {k \in DOMAIN cx : key(k) = g}
    OBVIOUS
  <2>2. U \subseteq DOMAIN cx
    BY <2>1
  <2>3. IsFiniteSet(U) /\ Cardinality(U) <= D /\ Cardinality(U) \in Nat
    BY <2>2, <1>0, <1>3, FS_Subset, FS_CardinalityType
  <2> QED
    BY <2>1, <2>3
<1> HIDE DEF count, K
<1>6. PICK R : R = {p \in K \X K : Before(p[1], p[2])}
  OBVIOUS
<1>7. ASSUME NEW T \in SUBSET K, T # {} PROVE \E m \in T : \A y \in T \ {m} : <<y, m>> \in R
  <2>1. IsFiniteSet(T)
    BY <1>2, FS_Subset
  <2>2. PICK a : a = [g \in T |-> D - count(g)]
    OBVIOUS
  <2>3. PICK b : b = [g \in T |-> g[1]]
    OBVIOUS
  <2>4. PICK c : c = [g \in T |-> g[2]]
    OBVIOUS
  <2>5. \A g \in T : g \in Nat \X Nat
    BY <1>1
  <2>6. a \in [T -> Nat] /\ b \in [T -> Nat] /\ c \in [T -> Nat]
    <3>1. \A g \in T : D - count(g) \in Nat
      BY <1>4, <1>5
    <3> QED
      BY <3>1, <2>2, <2>3, <2>4, <2>5
  <2>7. PICK m \in T : \A y \in T : LexLeq(a, b, c, y, m)
    <3>1. T # {}
      BY <1>7
    <3> HIDE DEF Before, key
    <3> QED
      BY <2>1, <3>1, <2>6, LexGreatest
  <2>8. ASSUME NEW y \in T \ {m} PROVE Before(y, m)
    <3>1. /\ y \in Nat \X Nat /\ m \in Nat \X Nat /\ y # m
      BY <2>5
    <3>2. y[1] # m[1] \/ y[2] # m[2]
      BY <3>1
    <3>3. y[1] \in Nat /\ y[2] \in Nat /\ m[1] \in Nat /\ m[2] \in Nat
      BY <3>1
    <3>4. \/ D - count(y) < D - count(m)
          \/ D - count(y) = D - count(m) /\ y[1] < m[1]
          \/ D - count(y) = D - count(m) /\ y[1] = m[1] /\ y[2] <= m[2]
      BY <2>2, <2>3, <2>4, <2>7 DEF LexLeq
    <3>5. count(y) \in Nat /\ count(m) \in Nat
      BY <1>5
    <3> QED
      BY <3>2, <3>3, <3>4, <3>5, <1>4
  <2>9. ASSUME NEW y \in T \ {m} PROVE <<y, m>> \in R
    <3>1. <<y, m>> \in K \X K /\ Before(y, m)
      BY <2>8
    <3> QED
      BY <3>1, <1>6
  <2> QED
    BY <2>9
<1>8. PICK t \in [1..Cardinality(K) -> K] : \A i, j \in DOMAIN t : i < j => <<t[i], t[j]>> \in R
  BY <1>2, <1>7, OrderExists
<1>9. \A i, j \in DOMAIN t : i < j => Before(t[i], t[j])
  BY <1>8, <1>6
<1>10. PICK s : s = SortedBy(K, Before)
  OBVIOUS
<1>11. s \in [1..Cardinality(K) -> K] /\ \A i, j \in DOMAIN s : i < j => Before(s[i], s[j])
  <2> HIDE DEF Before
  <2> QED BY <1>8, <1>9, <1>10 DEF SortedBy
<1>12. \A i, j \in DOMAIN s : i < j => s[i] # s[j]
  <2>1. ASSUME NEW g \in K PROVE ~ Before(g, g)
    <3>1. count(g) \in Nat /\ g[1] \in Nat /\ g[2] \in Nat
      BY <1>1, <1>5
    <3> QED
      BY <3>1
  <2> HIDE DEF Before
  <2>2. \A i \in DOMAIN s : s[i] \in K
    BY <1>11
  <2> QED
    BY <2>1, <2>2, <1>11
<1>13. /\ s \in Seq(K) /\ Len(s) = Cardinality(K) /\ Len(s) \in Nat /\ DOMAIN s = 1..Len(s)
       /\ \A i, j \in DOMAIN s : s[i] = s[j] => i = j
  BY <1>2, <1>11, <1>12, EnumerationFacts
<1>14. Groups(cx) = [i \in DOMAIN s |-> [l |-> s[i][1], client |-> s[i][2], n |-> count(s[i])]]
  BY <1>10 DEF Groups, count, K
<1>15. \A i \in DOMAIN s : s[i] \in Nat \X Nat /\ count(s[i]) \in Nat
  BY <1>1, <1>5, <1>13
<1>16. \A i \in DOMAIN s : [l |-> s[i][1], client |-> s[i][2], n |-> count(s[i])] \in GroupTypes
  BY <1>15 DEF GroupTypes
<1>17. Groups(cx) \in Seq(GroupTypes) /\ DOMAIN Groups(cx) = DOMAIN s
  BY <1>13, <1>14, <1>16
<1>18. \A i \in DOMAIN s : Groups(cx)[i].l = s[i][1] /\ Groups(cx)[i].client = s[i][2]
  BY <1>14
<1>19. ASSUME NEW i \in DOMAIN s, NEW j \in DOMAIN s, s[i][1] = s[j][1], s[i][2] = s[j][2] PROVE i = j
  <2>1. s[i] = s[j]
    BY <1>15, <1>19
  <2> QED
    BY <2>1, <1>13
<1> QED
  BY <1>17, <1>18, <1>19

Entries == [c : Nat, n : Nat]
AllServing(desc) == UNION {desc[l].computers : l \in DOMAIN desc}
DescOk(desc) == /\ IsFiniteSet(DOMAIN desc) /\ DOMAIN desc \subseteq Nat
                /\ IsFiniteSet(AllServing(desc)) /\ AllServing(desc) \subseteq Nat
                /\ \A l \in DOMAIN desc : desc[l].default \in desc[l].computers

\* The list of the computers has each of them once.
LEMMA ComputerListFacts ==
  ASSUME NEW desc, DescOk(desc)
  PROVE  /\ ComputerList(desc) \in Seq(Entries)
         /\ \A i, j \in DOMAIN ComputerList(desc) :
              ComputerList(desc)[i].c = ComputerList(desc)[j].c => i = j
         /\ \A i \in DOMAIN ComputerList(desc) : ComputerList(desc)[i].n = 0
         /\ \A d \in AllServing(desc) : \E i \in DOMAIN ComputerList(desc) : ComputerList(desc)[i].c = d
<1> DEFINE By(c) == {l \in DOMAIN desc : c \in desc[l].computers}
           first(c) == CHOOSE l \in By(c) : \A k \in By(c) : l <= k
           Before(x, y) == first(x) < first(y) \/ (first(x) = first(y) /\ x < y)
<1>1. PICK K : K = AllServing(desc)
  OBVIOUS
<1>2. IsFiniteSet(K) /\ K \subseteq Nat /\ DOMAIN desc \subseteq Nat
  BY <1>1 DEF DescOk
<1>3. \A c \in K : first(c) \in Nat
  <2> TAKE c \in K
  <2>1. By(c) \in SUBSET Nat /\ By(c) # {}
    BY <1>1, <1>2 DEF AllServing
  <2> HIDE DEF By
  <2>2. \E l \in By(c) : \A k \in By(c) : l <= k
    BY <2>1, NatMin
  <2> QED
    BY <2>1, <2>2
<1> HIDE DEF first
<1>6. PICK R : R = {p \in K \X K : Before(p[1], p[2])}
  OBVIOUS
<1>7. ASSUME NEW T \in SUBSET K, T # {} PROVE \E m \in T : \A y \in T \ {m} : <<y, m>> \in R
  <2>1. IsFiniteSet(T)
    BY <1>2, FS_Subset
  <2>2. PICK a : a = [x \in T |-> first(x)]
    OBVIOUS
  <2>3. PICK b : b = [x \in T |-> x]
    OBVIOUS
  <2>6. a \in [T -> Nat] /\ b \in [T -> Nat]
    BY <2>2, <2>3, <1>2, <1>3
  <2>7. PICK m \in T : \A y \in T : LexLeq(a, b, b, y, m)
    BY <2>1, <1>7, <2>6, LexGreatest
  <2>8. ASSUME NEW y \in T \ {m} PROVE Before(y, m)
    BY <2>2, <2>3, <2>7 DEF LexLeq
  <2>9. ASSUME NEW y \in T \ {m} PROVE <<y, m>> \in R
    <3>1. <<y, m>> \in K \X K /\ Before(y, m)
      BY <2>8
    <3> QED
      BY <3>1, <1>6
  <2> QED
    BY <2>9
<1>8. PICK t \in [1..Cardinality(K) -> K] : \A i, j \in DOMAIN t : i < j => <<t[i], t[j]>> \in R
  BY <1>2, <1>7, OrderExists
<1>9. \A i, j \in DOMAIN t : i < j => Before(t[i], t[j])
  BY <1>8, <1>6
<1>10. PICK s : s = SortedBy(K, Before)
  OBVIOUS
<1>11. s \in [1..Cardinality(K) -> K] /\ \A i, j \in DOMAIN s : i < j => Before(s[i], s[j])
  <2> HIDE DEF Before
  <2> QED BY <1>8, <1>9, <1>10 DEF SortedBy
<1>12. \A i, j \in DOMAIN s : i < j => s[i] # s[j]
  <2>1. ASSUME NEW g \in K PROVE ~ Before(g, g)
    <3>1. g \in Nat /\ first(g) \in Nat
      BY <1>2, <1>3
    <3> QED
      BY <3>1
  <2> HIDE DEF Before
  <2>2. \A i \in DOMAIN s : s[i] \in K
    BY <1>11
  <2> QED
    BY <2>1, <2>2, <1>11
<1>13. /\ s \in Seq(K) /\ Len(s) = Cardinality(K) /\ Len(s) \in Nat /\ DOMAIN s = 1..Len(s)
       /\ \A i, j \in DOMAIN s : s[i] = s[j] => i = j
       /\ \A x \in K : \E i \in DOMAIN s : s[i] = x
  BY <1>2, <1>11, <1>12, EnumerationFacts
<1>14. ComputerList(desc) = [i \in DOMAIN s |-> [c |-> s[i], n |-> 0]]
  BY <1>1, <1>10 DEF ComputerList, first, AllServing
<1>15. \A i \in DOMAIN s : [c |-> s[i], n |-> 0] \in Entries
  <2>1. \A i \in DOMAIN s : s[i] \in Nat
    BY <1>2, <1>11
  <2> QED
    BY <2>1 DEF Entries
<1>17. ComputerList(desc) \in Seq(Entries) /\ DOMAIN ComputerList(desc) = DOMAIN s
  <2>1. PICK u : u = [i \in DOMAIN s |-> [c |-> s[i], n |-> 0]]
    OBVIOUS
  <2>2. u \in [1..Len(s) -> Entries]
    BY <2>1, <1>13, <1>15
  <2>3. u \in Seq(Entries) /\ DOMAIN u = DOMAIN s
    BY <2>2, <1>13
  <2> QED
    BY <2>1, <2>3, <1>14
<1>18. \A i \in DOMAIN s : ComputerList(desc)[i].c = s[i] /\ ComputerList(desc)[i].n = 0
  BY <1>14
<1> QED
  BY <1>1, <1>13, <1>17, <1>18

Moved(list, i, w) ==
  LET used == [c |-> list[i].c, n |-> list[i].n + w]
      rest == RemoveAt(list, i)
      j == FirstFrom(rest, i, LAMBDA x : x.n >= used.n)
  IN InsertAt(rest, j, used)
Distinct(list) == \A p, q \in DOMAIN list : list[p].c = list[q].c => p = q
Climbing(list) == \A p, q \in DOMAIN list : p < q => list[p].n <= list[q].n
Lists(list, S) == \A d \in S : \E p \in DOMAIN list : list[p].c = d
ListOk(list, S) == list \in Seq(Entries) /\ Distinct(list) /\ Climbing(list) /\ Lists(list, S)

\* A used computer is put where the list stays in ascending order.
LEMMA MovedFacts ==
  ASSUME NEW S, NEW list, ListOk(list, S), NEW i \in DOMAIN list, NEW w \in Nat
  PROVE  /\ ListOk(Moved(list, i, w), S)
         /\ \A p \in DOMAIN Moved(list, i, w) :
              LET e == Moved(list, i, w)[p] IN
                \/ e = [c |-> list[i].c, n |-> list[i].n + w]
                \/ \E q \in DOMAIN list : q # i /\ e = list[q]
<1>1. list \in Seq(Entries) /\ Distinct(list) /\ Climbing(list) /\ Lists(list, S)
  BY DEF ListOk
<1>2. PICK n : n = Len(list)
  OBVIOUS
<1>3. n \in Nat /\ DOMAIN list = 1..n /\ i \in 1..n /\ \A p \in 1..n : list[p] \in Entries
  BY <1>1, <1>2
<1>4. \A p \in 1..n : list[p].c \in Nat /\ list[p].n \in Nat
  BY <1>3 DEF Entries
<1>5. PICK used : used = [c |-> list[i].c, n |-> list[i].n + w]
  OBVIOUS
<1>6. used \in Entries /\ used.c = list[i].c /\ used.n = list[i].n + w /\ used.n \in Nat
  BY <1>3, <1>4, <1>5 DEF Entries
<1>7. PICK rest : rest = RemoveAt(list, i)
  OBVIOUS
<1>8. /\ rest \in Seq(Entries) /\ Len(rest) = n - 1
      /\ \A p \in 1..(n - 1) : rest[p] = IF p < i THEN list[p] ELSE list[p + 1]
  BY <1>1, <1>2, <1>3, <1>7, RemoveFacts
<1>9. PICK found : found = {k \in i..Len(rest) : rest[k].n >= used.n}
  OBVIOUS
<1>10. PICK j : j = IF found = {} THEN Len(rest) + 1 ELSE CHOOSE k \in found : \A h \in found : k <= h
  OBVIOUS
<1>11. found \in SUBSET Nat /\ found = {k \in i..(n - 1) : rest[k].n >= used.n}
  BY <1>3, <1>8, <1>9
<1>12. j \in i..n /\ (j < n => j \in found) /\ \A h \in found : j <= h
  <2>1. CASE found = {}
    <3>1. j = n
      BY <2>1, <1>3, <1>8, <1>10
    <3> QED
      BY <3>1, <2>1, <1>3
  <2>2. CASE found # {}
    <3>1. j \in found /\ \A h \in found : j <= h
      <4>1. \E k \in found : \A h \in found : k <= h
        BY <2>2, <1>11, NatMin
      <4> QED
        BY <4>1, <2>2, <1>10
    <3> QED
      BY <3>1, <1>3, <1>11
  <2> QED
    BY <2>1, <2>2
<1>13. PICK new : new = InsertAt(rest, j, used)
  OBVIOUS
<1>14. Moved(list, i, w) = new
  BY <1>5, <1>7, <1>9, <1>10, <1>13 DEF Moved, FirstFrom
<1>15. /\ new \in Seq(Entries) /\ Len(new) = n /\ new[j] = used
       /\ \A p \in 1..n : p # j => new[p] = list[Shift(p, i, j)]
  <2>1. list \in Seq(Entries) /\ used \in Entries /\ i \in 1..Len(list) /\ j \in i..Len(list)
    BY <1>1, <1>2, <1>3, <1>6, <1>12
  <2>2. PICK m : m = InsertAt(RemoveAt(list, i), j, used)
    OBVIOUS
  <2>3. /\ m \in Seq(Entries) /\ Len(m) = Len(list) /\ m[j] = used
        /\ \A p \in 1..Len(list) : p # j => m[p] = list[Shift(p, i, j)]
    <3>1. /\ InsertAt(RemoveAt(list, i), j, used) \in Seq(Entries)
          /\ MovesTo(InsertAt(RemoveAt(list, i), j, used), list, i, j, used)
      BY <2>1, MoveFacts
    <3> QED
      BY <3>1, <2>2 DEF MovesTo
  <2>4. m = new
    BY <2>2, <1>7, <1>13
  <2> QED
    BY <2>3, <2>4, <1>2
<1>16. DOMAIN new = 1..n /\ j \in 1..n
  BY <1>3, <1>12, <1>15
<1>17. \A p \in 1..n : p # j => Shift(p, i, j) \in 1..n /\ Shift(p, i, j) # i
  BY <1>3, <1>12 DEF Shift
<1>18. \A p, q \in 1..n : p # j /\ q # j /\ p < q => Shift(p, i, j) < Shift(q, i, j)
  BY <1>3, <1>12 DEF Shift
<1>19. Distinct(new)
  <2>1. \A p \in 1..n : p # j => new[p].c # used.c
    BY <1>1, <1>3, <1>6, <1>15, <1>17 DEF Distinct
  <2>2. ASSUME NEW p \in 1..n, NEW q \in 1..n, p < q PROVE new[p].c # new[q].c
    <3>1. CASE p = j
      BY <3>1, <2>1, <2>2, <1>15
    <3>2. CASE q = j
      BY <3>2, <2>1, <2>2, <1>15
    <3>3. CASE p # j /\ q # j
      <4>1. PICK x, y : x = Shift(p, i, j) /\ y = Shift(q, i, j)
        OBVIOUS
      <4>2. x \in 1..n /\ y \in 1..n /\ x < y /\ new[p] = list[x] /\ new[q] = list[y]
        BY <4>1, <3>3, <2>2, <1>15, <1>17, <1>18
      <4>3. x # y
        BY <4>2
      <4> QED
        BY <4>2, <4>3, <1>1, <1>3 DEF Distinct
    <3> QED
      BY <3>1, <3>2, <3>3
  <2>3. \A p, q \in 1..n : p < q \/ p = q \/ q < p
    BY <1>3
  <2> QED
    BY <2>2, <2>3, <1>16 DEF Distinct
<1>20. \A p \in 1..n : p < j => new[p].n <= used.n
  <2> SUFFICES ASSUME NEW p \in 1..n, p < j PROVE new[p].n <= used.n
    OBVIOUS
  <2>0. p # j /\ new[p] = list[Shift(p, i, j)]
    BY <1>12, <1>15
  <2>1. CASE p < i
    <3>1. Shift(p, i, j) = p
      BY <2>1 DEF Shift
    <3>2. list[p].n <= list[i].n
      BY <2>1, <1>1, <1>3 DEF Climbing
    <3> QED
      BY <3>1, <3>2, <2>0, <1>3, <1>4, <1>6
  <2>2. CASE ~ (p < i)
    <3>1. Shift(p, i, j) = p + 1 /\ p \in i..(n - 1) /\ ~ (j <= p)
      BY <2>2, <1>3, <1>12 DEF Shift
    <3>2. p \notin found
      BY <3>1, <1>12
    <3>3. ~ (rest[p].n >= used.n)
      BY <3>1, <3>2, <1>11
    <3>4. rest[p] = list[p + 1] /\ p + 1 \in 1..n
      BY <3>1, <2>2, <1>3, <1>8
    <3> QED
      BY <3>1, <3>3, <3>4, <2>0, <1>4, <1>6
  <2> QED
    BY <2>1, <2>2
<1>21. \A p \in 1..n : j < p => used.n <= new[p].n
  <2> SUFFICES ASSUME NEW p \in 1..n, j < p PROVE used.n <= new[p].n
    OBVIOUS
  <2>1. p # j /\ Shift(p, i, j) = p
    BY <1>3, <1>12 DEF Shift
  <2>2. new[p] = list[p]
    BY <2>1, <1>15
  <2>3. j < n /\ j \in i..(n - 1) /\ j + 1 \in 1..n /\ (j + 1 = p \/ j + 1 < p)
    BY <1>3, <1>12
  <2>4. rest[j].n >= used.n
    BY <2>3, <1>11, <1>12
  <2>5. rest[j] = list[j + 1]
    <3>1. j \in 1..(n - 1) /\ ~ (j < i)
      BY <2>3, <1>3
    <3> QED
      BY <3>1, <1>8
  <2>6. list[j + 1].n <= list[p].n
    <3>1. CASE j + 1 = p
      BY <3>1, <1>4
    <3>2. CASE j + 1 < p
      BY <3>2, <2>3, <1>1, <1>3 DEF Climbing
    <3> QED
      BY <3>1, <3>2, <2>3
  <2> QED
    BY <2>2, <2>3, <2>4, <2>5, <2>6, <1>4, <1>6
<1>22. Climbing(new)
  <2>1. ASSUME NEW p \in 1..n, NEW q \in 1..n, p < q PROVE new[p].n <= new[q].n
    <3>1. CASE p = j
      BY <3>1, <2>1, <1>15, <1>21
    <3>2. CASE q = j
      BY <3>2, <2>1, <1>15, <1>20
    <3>3. CASE p # j /\ q # j
      <4>1. PICK x, y : x = Shift(p, i, j) /\ y = Shift(q, i, j)
        OBVIOUS
      <4>2. x \in 1..n /\ y \in 1..n /\ x < y /\ new[p] = list[x] /\ new[q] = list[y]
        BY <4>1, <3>3, <2>1, <1>15, <1>17, <1>18
      <4> QED
        BY <4>2, <1>1, <1>3 DEF Climbing
    <3> QED
      BY <3>1, <3>2, <3>3
  <2> QED
    BY <2>1, <1>16 DEF Climbing
<1>23. Lists(new, S)
  <2>1. ASSUME NEW d \in S PROVE \E p \in 1..n : new[p].c = d
    <3>1. PICK q \in 1..n : list[q].c = d
      BY <1>1, <1>3 DEF Lists
    <3>2. CASE q = i
      BY <3>1, <3>2, <1>6, <1>15, <1>16
    <3>3. CASE q # i
      <4>1. PICK p : p = IF q < i \/ q > j THEN q ELSE q - 1
        OBVIOUS
      <4>2. p \in 1..n /\ p # j /\ Shift(p, i, j) = q
        BY <4>1, <3>3, <1>3, <1>12 DEF Shift
      <4> QED
        BY <4>2, <3>1, <1>15
    <3> QED
      BY <3>2, <3>3
  <2> QED
    BY <2>1, <1>16 DEF Lists
<1>24. \A p \in 1..n : new[p] = used \/ \E q \in 1..n : q # i /\ new[p] = list[q]
  BY <1>15, <1>17
<1>25. ListOk(new, S)
  BY <1>15, <1>19, <1>22, <1>23 DEF ListOk
<1>26. \A p \in DOMAIN new : new[p] = used \/ \E q \in DOMAIN list : q # i /\ new[p] = list[q]
  BY <1>3, <1>16, <1>24
<1> QED
  BY <1>5, <1>14, <1>25, <1>26

RowTypes == [client : Nat, l : Nat, c : Nat]
Servable(G, desc) == {i \in DOMAIN G : G[i].l \in DOMAIN desc}
GroupOf(G, desc, r) == CHOOSE i \in Servable(G, desc) : G[i].l = r.l /\ G[i].client = r.client
Weights(G, desc, rs) == [i \in DOMAIN rs |-> G[GroupOf(G, desc, rs[i])].n]
Uses(rs, c) == {i \in DOMAIN rs : rs[i].c = c}
Load(G, desc, rs, c) == SumOver(Weights(G, desc, rs), Uses(rs, c))
RowOk(G, desc, r) == /\ \E i \in Servable(G, desc) : G[i].l = r.l /\ G[i].client = r.client
                     /\ r.c \in desc[r.l].computers
RowsOk(G, desc, rs) == rs \in Seq(RowTypes) /\ \A i \in DOMAIN rs : RowOk(G, desc, rs[i])

\* The weights are numbers, and so is the load of a computer.
LEMMA LoadNat ==
  ASSUME NEW G \in Seq(GroupTypes), NEW desc, NEW rs, RowsOk(G, desc, rs)
  PROVE  /\ \A i \in DOMAIN rs : Weights(G, desc, rs)[i] \in Nat
         /\ \A c : IsFiniteSet(Uses(rs, c)) /\ Load(G, desc, rs, c) \in Nat
<1>1. PICK w : w = Weights(G, desc, rs)
  OBVIOUS
<1>2. rs \in Seq(RowTypes) /\ \A i \in DOMAIN rs : RowOk(G, desc, rs[i])
  BY DEF RowsOk
<1>3. \A i \in DOMAIN G : G[i].n \in Nat
  <2>1. \A i \in DOMAIN G : G[i] \in GroupTypes
    OBVIOUS
  <2> QED
    BY <2>1 DEF GroupTypes
<1>4. \A i \in DOMAIN rs : GroupOf(G, desc, rs[i]) \in Servable(G, desc)
  BY <1>2 DEF RowOk, GroupOf
<1>5. \A i \in DOMAIN rs : w[i] \in Nat
  BY <1>1, <1>3, <1>4 DEF Weights, Servable
<1>6. ASSUME NEW c PROVE IsFiniteSet(Uses(rs, c)) /\ SumOver(w, Uses(rs, c)) \in Nat
  <2>1. IsFiniteSet(DOMAIN rs)
    <3>1. PICK n : n = Len(rs) /\ n \in Nat /\ DOMAIN rs = 1..n
      BY <1>2
    <3> QED
      BY <3>1, FS_Interval
  <2>2. Uses(rs, c) \subseteq DOMAIN rs
    BY DEF Uses
  <2>3. IsFiniteSet(Uses(rs, c))
    BY <2>1, <2>2, FS_Subset
  <2>4. \A i \in Uses(rs, c) : w[i] \in Nat
    BY <2>2, <1>5
  <2> QED
    BY <2>3, <2>4, SumNat
<1> QED
  BY <1>1, <1>5, <1>6 DEF Load

\* A new association adds the weight of its group to the load of its computer.
LEMMA LoadAppend ==
  ASSUME NEW G \in Seq(GroupTypes), NEW desc, NEW rs, RowsOk(G, desc, rs),
         NEW r \in RowTypes, RowOk(G, desc, r)
  PROVE  /\ RowsOk(G, desc, Append(rs, r))
         /\ \A c : Load(G, desc, Append(rs, r), c)
                     = Load(G, desc, rs, c) + IF r.c = c THEN G[GroupOf(G, desc, r)].n ELSE 0
         /\ \A i \in DOMAIN rs : Weights(G, desc, Append(rs, r))[i] = Weights(G, desc, rs)[i]
         /\ Weights(G, desc, Append(rs, r))[Len(rs) + 1] = G[GroupOf(G, desc, r)].n
<1>1. rs \in Seq(RowTypes) /\ \A i \in DOMAIN rs : RowOk(G, desc, rs[i])
  BY DEF RowsOk
<1>2. PICK n : n = Len(rs)
  OBVIOUS
<1>3. n \in Nat /\ DOMAIN rs = 1..n
  BY <1>1, <1>2
<1>4. PICK t : t = Append(rs, r)
  OBVIOUS
<1>5. /\ t \in Seq(RowTypes) /\ Len(t) = n + 1 /\ t[n + 1] = r
      /\ \A i \in 1..n : t[i] = rs[i]
  BY <1>1, <1>2, <1>4, AppendProperties
<1>6. DOMAIN t = 1..(n + 1)
  BY <1>5
<1>7. \A i \in 1..(n + 1) : i \in 1..n \/ i = n + 1
  BY <1>3
<1>8. \A i \in 1..n : i \in 1..(n + 1) /\ i # n + 1
  BY <1>3
<1>9. n + 1 \in 1..(n + 1)
  BY <1>3
<1>10. RowsOk(G, desc, t)
  BY <1>1, <1>3, <1>5, <1>6, <1>7 DEF RowsOk
<1>11. PICK w : w = Weights(G, desc, rs)
  OBVIOUS
<1>12. PICK v : v = Weights(G, desc, t)
  OBVIOUS
<1>13. \A i \in 1..n : v[i] = w[i]
  BY <1>3, <1>5, <1>6, <1>8, <1>11, <1>12 DEF Weights
<1>14. v[n + 1] = G[GroupOf(G, desc, r)].n
  BY <1>5, <1>6, <1>9, <1>12 DEF Weights
<1>15. \A i \in 1..(n + 1) : v[i] \in Nat
  BY <1>6, <1>10, <1>12, LoadNat
<1>16. ASSUME NEW c
       PROVE  SumOver(v, Uses(t, c)) = SumOver(w, Uses(rs, c)) + IF r.c = c THEN v[n + 1] ELSE 0
  <2>1. PICK U : U = Uses(rs, c)
    OBVIOUS
  <2>2. IsFiniteSet(U) /\ U \subseteq 1..n
    <3>1. IsFiniteSet(U)
      BY <2>1, LoadNat
    <3> QED
      BY <3>1, <2>1, <1>3 DEF Uses
  <2>3. SumOver(v, U) = SumOver(w, U)
    BY <2>2, <1>13, SumSame
  <2>4. SumOver(w, U) \in Nat
    BY <2>1, <1>11, LoadNat DEF Load
  <2>5. CASE r.c # c
    <3>1. Uses(t, c) = U
      BY <2>1, <2>5, <1>3, <1>5, <1>6, <1>7, <1>8 DEF Uses
    <3> QED
      BY <3>1, <2>1, <2>3, <2>4, <2>5
  <2>6. CASE r.c = c
    <3>1. PICK V : V = Uses(t, c)
      OBVIOUS
    <3>2. V = U \cup {n + 1}
      BY <3>1, <2>1, <2>6, <1>3, <1>5, <1>6, <1>7, <1>8, <1>9 DEF Uses
    <3>3. V \ {n + 1} = U /\ n + 1 \in V /\ V \subseteq 1..(n + 1)
      BY <3>2, <2>2, <1>8, <1>9
    <3>4. IsFiniteSet(V)
      BY <3>1, <1>10, LoadNat
    <3>5. \A x \in V : v[x] \in Nat
      BY <3>3, <1>15
    <3>6. SumOver(v, V) = v[n + 1] + SumOver(v, V \ {n + 1})
      <4>1. PICK a : a = n + 1
        OBVIOUS
      <4>2. a \in V
        BY <4>1, <3>3
      <4>3. SumOver(v, V) = v[a] + SumOver(v, V \ {a})
        BY <4>2, <3>4, <3>5, SumWithout
      <4> QED
        BY <4>1, <4>3
    <3>7. SumOver(v, V) = v[n + 1] + SumOver(w, U)
      BY <3>3, <3>6, <2>3
    <3> QED
      BY <3>1, <3>7, <2>1, <2>4, <2>6, <1>15, <1>9
  <2> QED
    BY <2>5, <2>6
<1> QED
  BY <1>2, <1>3, <1>4, <1>10, <1>11, <1>12, <1>13, <1>14, <1>16 DEF Load

\* The first computer of the list that serves the lambda of a group.
LEMMA ServedFacts ==
  ASSUME NEW list \in Seq(Entries), NEW g, NEW desc
  PROVE  /\ Served(list, g, desc) \in 1..(Len(list) + 1)
         /\ Served(list, g, desc) <= Len(list) =>
              g.l \in DOMAIN desc /\ list[Served(list, g, desc)].c \in desc[g.l].computers
         /\ \A p \in 1..Len(list) :
              g.l \in DOMAIN desc /\ list[p].c \in desc[g.l].computers => Served(list, g, desc) <= p
<1>1. PICK n : n = Len(list) /\ n \in Nat
  OBVIOUS
<1>2. PICK found : found = {j \in 1..Len(list) : g.l \in DOMAIN desc /\ list[j].c \in desc[g.l].computers}
  OBVIOUS
<1>3. PICK i : i = IF found = {} THEN Len(list) + 1 ELSE CHOOSE j \in found : \A k \in found : j <= k
  OBVIOUS
<1>4. Served(list, g, desc) = i
  BY <1>2, <1>3 DEF Served, FirstFrom
<1>5. CASE found = {}
  <2>1. i = n + 1 /\ ~ (i <= n) /\ i \in 1..(n + 1)
    BY <1>1, <1>3, <1>5
  <2> QED
    BY <2>1, <1>1, <1>2, <1>4, <1>5
<1>6. CASE found # {}
  <2>1. found \in SUBSET Nat
    BY <1>1, <1>2
  <2>2. \E j \in found : \A k \in found : j <= k
    BY <2>1, <1>6, NatMin
  <2>3. i \in found /\ \A k \in found : i <= k
    BY <2>2, <1>3, <1>6
  <2>4. i \in 1..n /\ i \in 1..(n + 1)
    BY <2>3, <1>1, <1>2
  <2> QED
    BY <2>3, <2>4, <1>1, <1>2, <1>4
<1> QED
  BY <1>5, <1>6

Unique(G) == \A i, j \in DOMAIN G : G[i].l = G[j].l /\ G[i].client = G[j].client => i = j
LoadsOk(G, desc, list, rs) == \A p \in DOMAIN list : list[p].n = Load(G, desc, rs, list[p].c)
EvenRow(G, desc, rs, i) ==
  \/ \E j \in i + 1..Len(rs) : rs[j].c = rs[i].c
  \/ \A d \in desc[rs[i].l].computers :
       Load(G, desc, rs, rs[i].c) - Weights(G, desc, rs)[i] <= Load(G, desc, rs, d)
Even(G, desc, rs) == \A i \in DOMAIN rs : EvenRow(G, desc, rs, i)
AccOk(G, desc, k, list, rs) ==
  /\ ListOk(list, AllServing(desc)) /\ RowsOk(G, desc, rs)
  /\ Len(rs) = Cardinality({i \in Servable(G, desc) : i <= k})
  /\ LoadsOk(G, desc, list, rs) /\ Even(G, desc, rs)

\* A group given to the first computer that serves it keeps the loads even.
LEMMA EvenAppend ==
  ASSUME NEW G \in Seq(GroupTypes), NEW desc, NEW rs, RowsOk(G, desc, rs),
         NEW r \in RowTypes, RowOk(G, desc, r), Even(G, desc, rs),
         \A d \in desc[r.l].computers : Load(G, desc, rs, r.c) <= Load(G, desc, rs, d)
  PROVE  Even(G, desc, Append(rs, r))
<1>1. rs \in Seq(RowTypes)
  BY DEF RowsOk
<1>2. PICK n : n = Len(rs)
  OBVIOUS
<1>3. n \in Nat /\ DOMAIN rs = 1..n
  BY <1>1, <1>2
<1>4. PICK t : t = Append(rs, r)
  OBVIOUS
<1>5. /\ t \in Seq(RowTypes) /\ Len(t) = n + 1 /\ t[n + 1] = r
      /\ \A i \in 1..n : t[i] = rs[i]
  BY <1>1, <1>2, <1>4, AppendProperties
<1>6. DOMAIN t = 1..(n + 1)
  BY <1>5
<1>7. PICK v, w, a : v = Weights(G, desc, rs) /\ w = Weights(G, desc, t) /\ a = G[GroupOf(G, desc, r)].n
  OBVIOUS
<1>8. /\ RowsOk(G, desc, t)
      /\ \A c : Load(G, desc, t, c) = Load(G, desc, rs, c) + IF r.c = c THEN a ELSE 0
      /\ \A i \in 1..n : w[i] = v[i]
      /\ w[n + 1] = a
  BY <1>2, <1>3, <1>4, <1>7, LoadAppend
<1>9. /\ \A i \in 1..n : v[i] \in Nat
      /\ \A c : Load(G, desc, rs, c) \in Nat
  BY <1>3, <1>7, LoadNat
<1>10. a \in Nat
  <2>1. w[n + 1] \in Nat
    <3>1. n + 1 \in DOMAIN t
      BY <1>3, <1>6
    <3> QED
      BY <3>1, <1>7, <1>8, LoadNat
  <2> QED
    BY <2>1, <1>8
<1>12. \A c : Load(G, desc, t, c) \in Nat /\ Load(G, desc, rs, c) <= Load(G, desc, t, c)
  BY <1>8, <1>9, <1>10
<1>13. EvenRow(G, desc, t, n + 1)
  <2>1. Load(G, desc, t, r.c) = Load(G, desc, rs, r.c) + a
    BY <1>8
  <2>2. Load(G, desc, t, r.c) - a = Load(G, desc, rs, r.c)
    BY <2>1, <1>9, <1>10
  <2>3. ASSUME NEW d \in desc[r.l].computers
        PROVE  Load(G, desc, t, r.c) - a <= Load(G, desc, t, d)
    <3>1. Load(G, desc, rs, r.c) <= Load(G, desc, rs, d)
      OBVIOUS
    <3>2. Load(G, desc, rs, d) <= Load(G, desc, t, d)
      BY <1>12
    <3>3. /\ Load(G, desc, rs, r.c) \in Nat /\ Load(G, desc, rs, d) \in Nat
          /\ Load(G, desc, t, d) \in Nat
      BY <1>9, <1>12
    <3> QED
      BY <3>1, <3>2, <3>3, <2>2
  <2> QED
    BY <2>3, <1>5, <1>7, <1>8 DEF EvenRow
<1>14. ASSUME NEW i \in 1..n PROVE EvenRow(G, desc, t, i)
  <2>1. EvenRow(G, desc, rs, i)
    BY <1>3 DEF Even
  <2>2. t[i] = rs[i]
    BY <1>5
  <2>3. CASE \E j \in i + 1..n : rs[j].c = rs[i].c
    <3>1. PICK j \in i + 1..n : rs[j].c = rs[i].c
      BY <2>3
    <3>2. j \in i + 1..(n + 1) /\ j \in 1..n
      BY <1>3
    <3> QED
      BY <3>1, <3>2, <2>2, <1>5 DEF EvenRow
  <2>4. CASE r.c = rs[i].c
    <3>1. n + 1 \in i + 1..(n + 1)
      BY <1>3
    <3> QED
      BY <3>1, <2>2, <2>4, <1>5 DEF EvenRow
  <2>5. CASE /\ r.c # rs[i].c
             /\ \A d \in desc[rs[i].l].computers :
                  Load(G, desc, rs, rs[i].c) - v[i] <= Load(G, desc, rs, d)
    <3>1. Load(G, desc, t, rs[i].c) = Load(G, desc, rs, rs[i].c)
      BY <2>5, <1>8, <1>9
    <3>2. ASSUME NEW d \in desc[rs[i].l].computers
          PROVE  Load(G, desc, t, rs[i].c) - v[i] <= Load(G, desc, t, d)
      <4>1. Load(G, desc, rs, rs[i].c) - v[i] <= Load(G, desc, rs, d)
        BY <2>5
      <4>2. Load(G, desc, rs, d) <= Load(G, desc, t, d)
        BY <1>12
      <4>3. /\ Load(G, desc, rs, rs[i].c) \in Nat /\ Load(G, desc, rs, d) \in Nat
            /\ Load(G, desc, t, d) \in Nat /\ v[i] \in Nat
        BY <1>9, <1>12
      <4> QED
        BY <4>1, <4>2, <4>3, <3>1
    <3> QED
      BY <3>2, <2>2, <1>7, <1>8 DEF EvenRow
  <2> QED
    BY <2>1, <2>3, <2>4, <2>5, <1>2, <1>7 DEF EvenRow
<1>15. \A i \in 1..(n + 1) : i \in 1..n \/ i = n + 1
  BY <1>3
<1> QED
  BY <1>4, <1>6, <1>13, <1>14, <1>15 DEF Even

\* The groups assigned so far, with or without the next one.
LEMMA KnownUpTo ==
  ASSUME NEW G \in Seq(GroupTypes), NEW desc, NEW k \in DOMAIN G
  PROVE  Cardinality({i \in Servable(G, desc) : i <= k})
           = Cardinality({i \in Servable(G, desc) : i <= k - 1}) + IF k \in Servable(G, desc) THEN 1 ELSE 0
<1>1. PICK n : n = Len(G) /\ n \in Nat /\ DOMAIN G = 1..n
  OBVIOUS
<1>2. PICK K : K = Servable(G, desc)
  OBVIOUS
<1>3. K \subseteq 1..n
  BY <1>1, <1>2 DEF Servable
<1>4. PICK U : U = {i \in K : i <= k - 1}
  OBVIOUS
<1>5. PICK V : V = {i \in K : i <= k}
  OBVIOUS
<1>6. IsFiniteSet(U)
  <2>1. IsFiniteSet(1..n) /\ U \subseteq 1..n
    <3>1. IsFiniteSet(1..n)
      BY <1>1, FS_Interval
    <3> QED
      BY <3>1, <1>3, <1>4
  <2> QED
    BY <2>1, FS_Subset
<1>7. k \in Nat /\ \A i \in K : i \in Nat
  BY <1>1, <1>3
<1>8. CASE k \in K
  <2>1. V = U \cup {k} /\ k \notin U
    BY <1>4, <1>5, <1>7, <1>8
  <2>2. Cardinality(V) = Cardinality(U) + 1
    BY <2>1, <1>6, FS_AddElement
  <2> QED
    BY <2>2, <1>2, <1>4, <1>5, <1>8
<1>9. CASE k \notin K
  <2>1. V = U
    BY <1>4, <1>5, <1>7, <1>9
  <2>2. Cardinality(U) \in Nat
    BY <1>6, FS_CardinalityType
  <2>3. Cardinality(V) = Cardinality(U) + 0
    BY <2>1, <2>2
  <2> QED
    BY <2>3, <1>2, <1>4, <1>5, <1>9
<1> QED
  BY <1>8, <1>9

LEMMA AssignStep ==
  ASSUME NEW G \in Seq(GroupTypes), Unique(G), NEW desc, DescOk(desc), NEW k \in DOMAIN G,
         NEW acc, AccOk(G, desc, k - 1, acc.list, acc.rows)
  PROVE  AccOk(G, desc, k, Assign(acc, G[k], desc).list, Assign(acc, G[k], desc).rows)
<1>1. PICK list, rs : list = acc.list /\ rs = acc.rows
  OBVIOUS
<1>2. /\ ListOk(list, AllServing(desc)) /\ RowsOk(G, desc, rs)
      /\ Len(rs) = Cardinality({i \in Servable(G, desc) : i <= k - 1})
      /\ LoadsOk(G, desc, list, rs) /\ Even(G, desc, rs)
  BY <1>1 DEF AccOk
<1>3. /\ list \in Seq(Entries) /\ Distinct(list) /\ Climbing(list) /\ Lists(list, AllServing(desc))
      /\ rs \in Seq(RowTypes)
  BY <1>2 DEF ListOk, RowsOk
<1>4. PICK n : n = Len(list) /\ n \in Nat /\ DOMAIN list = 1..n
  BY <1>3
<1>5. \A p \in 1..n : list[p].c \in Nat /\ list[p].n \in Nat
  <2>1. \A p \in 1..n : list[p] \in Entries
    BY <1>3, <1>4
  <2> QED
    BY <2>1 DEF Entries
<1>6. PICK g : g = G[k]
  OBVIOUS
<1>7. g \in GroupTypes /\ g.l \in Nat /\ g.client \in Nat /\ g.n \in Nat
  <2>1. g \in GroupTypes
    BY <1>6
  <2> QED
    BY <2>1 DEF GroupTypes
<1>8. PICK i : i = Served(list, g, desc)
  OBVIOUS
<1>9. /\ i \in 1..(n + 1)
      /\ i <= n => g.l \in DOMAIN desc /\ list[i].c \in desc[g.l].computers
      /\ \A p \in 1..n : g.l \in DOMAIN desc /\ list[p].c \in desc[g.l].computers => i <= p
  BY <1>3, <1>4, <1>8, ServedFacts
<1>10. g.l \in DOMAIN desc => desc[g.l].computers \subseteq AllServing(desc)
  BY DEF AllServing
<1>11. k \in Servable(G, desc) <=> g.l \in DOMAIN desc
  BY <1>6 DEF Servable
<1>12. CASE i > n
  <2>1. g.l \notin DOMAIN desc
    <3> SUFFICES ASSUME g.l \in DOMAIN desc PROVE FALSE
      OBVIOUS
    <3>1. desc[g.l].default \in desc[g.l].computers
      BY DEF DescOk
    <3>2. PICK p \in 1..n : list[p].c = desc[g.l].default
      BY <3>1, <1>3, <1>4, <1>10 DEF Lists
    <3>3. i <= p
      BY <3>1, <3>2, <1>9
    <3> QED
      BY <3>3, <1>4, <1>9, <1>12
  <2>2. Assign(acc, g, desc) = acc
    BY <1>1, <1>4, <1>8, <1>12 DEF Assign
  <2>3. /\ Cardinality({h \in Servable(G, desc) : h <= k})
             = Cardinality({h \in Servable(G, desc) : h <= k - 1}) + 0
        /\ Len(rs) \in Nat
    BY <2>1, <1>3, <1>11, KnownUpTo
  <2>4. Len(rs) = Cardinality({h \in Servable(G, desc) : h <= k})
    BY <2>3, <1>2
  <2>5. AccOk(G, desc, k, list, rs)
    BY <2>4, <1>2 DEF AccOk
  <2> QED
    BY <2>2, <2>5, <1>1, <1>6
<1>13. CASE i <= n
  <2>1. i \in 1..n /\ i \in DOMAIN list /\ ~ (i > n)
    BY <1>4, <1>9, <1>13
  <2>2. PICK r : r = [client |-> g.client, l |-> g.l, c |-> list[i].c]
    OBVIOUS
  <2>3. r \in RowTypes /\ r.client = g.client /\ r.l = g.l /\ r.c = list[i].c
    BY <2>1, <2>2, <1>5, <1>7 DEF RowTypes
  <2>4. PICK new : new = Moved(list, i, g.n)
    OBVIOUS
  <2>5. Assign(acc, g, desc) = [list |-> new, rows |-> Append(rs, r)]
    BY <2>1, <2>2, <2>4, <1>1, <1>4, <1>8 DEF Assign, Moved
  <2>6. /\ ListOk(new, AllServing(desc))
        /\ \A p \in DOMAIN new : \/ new[p] = [c |-> list[i].c, n |-> list[i].n + g.n]
                                 \/ \E q \in DOMAIN list : q # i /\ new[p] = list[q]
    BY <2>1, <2>4, <1>2, <1>7, MovedFacts
  <2>7. RowOk(G, desc, r) /\ k \in Servable(G, desc)
    BY <2>3, <1>6, <1>9, <1>11, <1>13 DEF RowOk
  <2>8. GroupOf(G, desc, r) = k
    <3>1. PICK h : h = GroupOf(G, desc, r)
      OBVIOUS
    <3>2. h \in Servable(G, desc) /\ G[h].l = r.l /\ G[h].client = r.client
      BY <3>1, <2>7 DEF RowOk, GroupOf
    <3>3. h \in DOMAIN G /\ G[h].l = G[k].l /\ G[h].client = G[k].client
      BY <3>2, <2>3, <1>6 DEF Servable
    <3> QED
      BY <3>1, <3>3 DEF Unique
  <2>9. PICK t : t = Append(rs, r)
    OBVIOUS
  <2>10. /\ RowsOk(G, desc, t)
         /\ \A c : Load(G, desc, t, c) = Load(G, desc, rs, c) + IF r.c = c THEN g.n ELSE 0
    BY <2>3, <2>7, <2>8, <2>9, <1>2, <1>6, LoadAppend
  <2>11. \A c : Load(G, desc, rs, c) \in Nat
    BY <1>2, LoadNat
  <2>12. \A p \in 1..n : list[p].n = Load(G, desc, rs, list[p].c)
    BY <1>2, <1>4 DEF LoadsOk
  <2>13. LoadsOk(G, desc, new, t)
    <3>1. ASSUME NEW p \in DOMAIN new PROVE new[p].n = Load(G, desc, t, new[p].c)
      <4>1. CASE new[p] = [c |-> list[i].c, n |-> list[i].n + g.n]
        <5>1. new[p].c = r.c /\ new[p].n = list[i].n + g.n
          BY <4>1, <2>3
        <5>2. Load(G, desc, t, r.c) = Load(G, desc, rs, r.c) + g.n
          BY <2>10
        <5>3. list[i].n = Load(G, desc, rs, r.c)
          BY <2>1, <2>3, <2>12
        <5> QED
          BY <5>1, <5>2, <5>3
      <4>2. CASE \E q \in DOMAIN list : q # i /\ new[p] = list[q]
        <5>1. PICK q \in DOMAIN list : q # i /\ new[p] = list[q]
          BY <4>2
        <5>2. r.c # list[q].c
          BY <5>1, <2>1, <2>3, <1>3 DEF Distinct
        <5>3. Load(G, desc, t, list[q].c) = Load(G, desc, rs, list[q].c)
          BY <5>2, <2>10, <2>11
        <5> QED
          BY <5>1, <5>3, <2>12, <1>4
      <4> QED
        BY <4>1, <4>2, <2>6
    <3> QED
      BY <3>1 DEF LoadsOk
  <2>14. \A d \in desc[r.l].computers : Load(G, desc, rs, r.c) <= Load(G, desc, rs, d)
    <3> SUFFICES ASSUME NEW d \in desc[g.l].computers
                 PROVE  Load(G, desc, rs, list[i].c) <= Load(G, desc, rs, d)
      BY <2>3
    <3>1. g.l \in DOMAIN desc
      BY <1>9, <1>13
    <3>2. PICK p \in 1..n : list[p].c = d
      BY <3>1, <1>3, <1>4, <1>10 DEF Lists
    <3>3. i <= p
      BY <3>1, <3>2, <1>9
    <3>4. list[i].n <= list[p].n
      <4>1. CASE i = p
        BY <4>1, <1>5
      <4>2. CASE i < p
        BY <4>2, <2>1, <1>3, <1>4 DEF Climbing
      <4> QED
        BY <4>1, <4>2, <3>3, <2>1, <1>4
    <3> QED
      BY <3>2, <3>4, <2>1, <2>12
  <2>15. Even(G, desc, t)
    BY <2>3, <2>7, <2>9, <2>14, <1>2, EvenAppend
  <2>16. Len(t) = Cardinality({h \in Servable(G, desc) : h <= k})
    <3>1. Len(t) = Len(rs) + 1
      BY <2>3, <2>9, <1>3, AppendProperties
    <3>2. Cardinality({h \in Servable(G, desc) : h <= k})
            = Cardinality({h \in Servable(G, desc) : h <= k - 1}) + 1
      BY <2>7, KnownUpTo
    <3> QED
      BY <3>1, <3>2, <1>2
  <2>17. AccOk(G, desc, k, new, t)
    BY <2>6, <2>10, <2>13, <2>15, <2>16 DEF AccOk
  <2>18. Assign(acc, g, desc).list = new /\ Assign(acc, g, desc).rows = t
    BY <2>5, <2>9
  <2> QED
    BY <2>17, <2>18, <1>6
<1> QED
  BY <1>4, <1>9, <1>12, <1>13

\* The steps of table(), up to the group m.
Fills(f, G, desc, m) ==
  f = [k \in 0..m |-> IF k = 0 THEN [list |-> ComputerList(desc), rows |-> <<>>]
                               ELSE Assign(f[k - 1], G[k], desc)]

LEMMA FillsExists ==
  ASSUME NEW G, NEW desc, NEW n \in Nat
  PROVE  \E f : Fills(f, G, desc, n)
<1> DEFINE Bad == {m \in Nat : ~ \E f : Fills(f, G, desc, m)}
<1>1. SUFFICES ASSUME Bad # {} PROVE FALSE
  OBVIOUS
<1>2. PICK m \in Bad : \A k \in Bad : m <= k
  <2>1. Bad \in SUBSET Nat OBVIOUS
  <2> HIDE DEF Bad
  <2> QED BY <1>1, <2>1, NatMin
<1>3. m \in Nat /\ ~ \E f : Fills(f, G, desc, m)
  OBVIOUS
<1>4. CASE m = 0
  <2>1. PICK f : f = [k \in 0..0 |-> [list |-> ComputerList(desc), rows |-> <<>>]]
    OBVIOUS
  <2>2. \A k \in 0..0 : k = 0
    OBVIOUS
  <2>3. Fills(f, G, desc, 0)
    BY <2>1, <2>2 DEF Fills
  <2> QED
    BY <2>3, <1>3, <1>4
<1>5. CASE m # 0
  <2>1. m - 1 \in Nat /\ ~ (m <= m - 1)
    BY <1>3, <1>5
  <2>2. m - 1 \notin Bad
    <3> HIDE DEF Bad
    <3> QED BY <2>1, <1>2
  <2>3. PICK f : Fills(f, G, desc, m - 1)
    BY <2>1, <2>2
  <2>4. PICK last : last = Assign(f[m - 1], G[m], desc)
    OBVIOUS
  <2>5. PICK t : t = [k \in 0..m |-> IF k = m THEN last ELSE f[k]]
    OBVIOUS
  <2>6. \A k \in 0..m : k # m => k \in 0..(m - 1)
    BY <1>3
  <2>7. \A k \in 0..(m - 1) : k \in 0..m /\ k # m /\ t[k] = f[k]
    BY <2>5, <1>3
  <2>8. \A k \in 0..m : k # 0 => k - 1 \in 0..(m - 1)
    BY <1>3
  <2>9. \A k \in 0..(m - 1) : f[k] = IF k = 0 THEN [list |-> ComputerList(desc), rows |-> <<>>]
                                     ELSE Assign(f[k - 1], G[k], desc)
    BY <2>3 DEF Fills
  <2>10. ASSUME NEW k \in 0..m
         PROVE  t[k] = IF k = 0 THEN [list |-> ComputerList(desc), rows |-> <<>>]
                       ELSE Assign(t[k - 1], G[k], desc)
    <3>1. CASE k = m
      <4>1. t[k] = last /\ k # 0
        BY <3>1, <2>5, <1>5
      <4>2. t[k - 1] = f[k - 1]
        BY <4>1, <2>7, <2>8
      <4> QED
        BY <4>1, <4>2, <3>1, <2>4
    <3>2. CASE k # m /\ k = 0
      <4>1. k \in 0..(m - 1)
        BY <3>2, <2>6
      <4> QED
        BY <4>1, <3>2, <2>7, <2>9
    <3>3. CASE k # m /\ k # 0
      <4>1. k \in 0..(m - 1)
        BY <3>3, <2>6
      <4>2. t[k - 1] = f[k - 1]
        BY <3>3, <2>7, <2>8
      <4> QED
        BY <4>1, <4>2, <3>3, <2>7, <2>9
    <3> QED
      BY <3>1, <3>2, <3>3
  <2>11. Fills(t, G, desc, m)
    <3>1. t = [k \in 0..m |-> t[k]]
      BY <2>5
    <3> QED
      BY <3>1, <2>10 DEF Fills
  <2> QED
    BY <2>11, <1>3
<1> QED
  BY <1>4, <1>5

LEMMA FillsOk ==
  ASSUME NEW G \in Seq(GroupTypes), Unique(G), NEW desc, DescOk(desc),
         NEW f, Fills(f, G, desc, Len(G))
  PROVE  AccOk(G, desc, Len(G), f[Len(G)].list, f[Len(G)].rows)
<1>1. PICK n : n = Len(G) /\ n \in Nat /\ DOMAIN G = 1..n
  OBVIOUS
<1> DEFINE Bad == {k \in Nat : k <= n /\ ~ AccOk(G, desc, k, f[k].list, f[k].rows)}
<1>2. SUFFICES Bad = {}
  BY <1>1
<1>3. SUFFICES ASSUME Bad # {} PROVE FALSE
  OBVIOUS
<1>4. PICK k \in Bad : \A h \in Bad : k <= h
  <2>1. Bad \in SUBSET Nat OBVIOUS
  <2> HIDE DEF Bad
  <2> QED BY <1>3, <2>1, NatMin
<1>5. k \in Nat /\ k <= n /\ k \in 0..n /\ ~ AccOk(G, desc, k, f[k].list, f[k].rows)
  BY <1>1
<1>6. f[k] = IF k = 0 THEN [list |-> ComputerList(desc), rows |-> <<>>] ELSE Assign(f[k - 1], G[k], desc)
  BY <1>1, <1>5 DEF Fills
<1>7. CASE k # 0
  <2>1. k - 1 \in Nat /\ k - 1 <= n /\ ~ (k <= k - 1) /\ k \in DOMAIN G
    BY <1>1, <1>5, <1>7
  <2>2. k - 1 \notin Bad
    <3> HIDE DEF Bad
    <3> QED BY <2>1, <1>4
  <2>3. AccOk(G, desc, k - 1, f[k - 1].list, f[k - 1].rows)
    BY <2>1, <2>2
  <2>4. AccOk(G, desc, k, Assign(f[k - 1], G[k], desc).list, Assign(f[k - 1], G[k], desc).rows)
    BY <2>1, <2>3, AssignStep
  <2> QED
    BY <2>4, <1>5, <1>6, <1>7
<1>8. CASE k = 0
  <2>1. PICK list : list = ComputerList(desc)
    OBVIOUS
  <2>2. f[k].list = list /\ f[k].rows = <<>>
    BY <2>1, <1>6, <1>8
  <2>3. /\ list \in Seq(Entries) /\ Distinct(list) /\ Lists(list, AllServing(desc))
        /\ \A i \in DOMAIN list : list[i].n = 0
    BY <2>1, ComputerListFacts DEF Distinct, Lists
  <2>4. Climbing(list)
    BY <2>3 DEF Climbing
  <2>5. RowsOk(G, desc, <<>>) /\ Even(G, desc, <<>>)
    BY DEF RowsOk, Even
  <2>6. LoadsOk(G, desc, list, <<>>)
    <3>1. \A c : Uses(<<>>, c) = {}
      BY DEF Uses
    <3>2. \A g : SumOver(g, {}) = 0
      <4> TAKE g
      <4>1. PICK s : Sums(s, g, {}) /\ SumOver(g, {}) = s[{}]
        BY SumRec, FS_EmptySet
      <4> QED
        BY <4>1 DEF Sums, AddsOne
    <3>3. \A c : Load(G, desc, <<>>, c) = 0
      BY <3>1, <3>2 DEF Load
    <3> QED
      BY <3>3, <2>3 DEF LoadsOk
  <2>7. Len(<<>>) = Cardinality({i \in Servable(G, desc) : i <= 0})
    <3>1. \A i \in Servable(G, desc) : ~ (i <= 0)
      BY <1>1 DEF Servable
    <3>2. {i \in Servable(G, desc) : i <= 0} = {}
      BY <3>1
    <3> QED
      BY <3>2, FS_EmptySet
  <2>8. AccOk(G, desc, 0, list, <<>>)
    BY <2>3, <2>4, <2>5, <2>6, <2>7 DEF AccOk, ListOk
  <2> QED
    BY <2>2, <2>8, <1>5, <1>8
<1> QED
  BY <1>7, <1>8

\* table() serves all groups that a computer can serve, evenly.
LEMMA TableFacts ==
  ASSUME NEW cx, ContextsFit(cx), NEW desc, DescOk(desc)
  PROVE  /\ RowsOk(Groups(cx), desc, table(cx, desc))
         /\ Len(table(cx, desc)) = Cardinality(Servable(Groups(cx), desc))
         /\ Even(Groups(cx), desc, table(cx, desc))
<1>1. PICK G : G = Groups(cx)
  OBVIOUS
<1>2. G \in Seq(GroupTypes) /\ Unique(G)
  BY <1>1, GroupsFacts DEF Unique
<1>3. PICK n : n = Len(G) /\ n \in Nat /\ DOMAIN G = 1..n
  BY <1>2
<1>4. PICK t : t = CHOOSE f : f = [k \in 0..n |-> IF k = 0 THEN [list |-> ComputerList(desc), rows |-> <<>>]
                                                ELSE Assign(f[k - 1], G[k], desc)]
  OBVIOUS
<1>5. table(cx, desc) = t[n].rows
  BY <1>1, <1>3, <1>4 DEF table
<1>6. Fills(t, G, desc, n)
  <2>1. \E f : Fills(f, G, desc, n)
    BY <1>3, FillsExists
  <2> QED
    BY <2>1, <1>4 DEF Fills
<1>7. AccOk(G, desc, n, t[n].list, t[n].rows)
  BY <1>2, <1>3, <1>6, FillsOk
<1>8. {i \in Servable(G, desc) : i <= n} = Servable(G, desc)
  <2>1. \A i \in Servable(G, desc) : i <= n
    BY <1>3 DEF Servable
  <2> QED
    BY <2>1
<1>9. /\ RowsOk(G, desc, t[n].rows) /\ Even(G, desc, t[n].rows)
      /\ Len(t[n].rows) = Cardinality({i \in Servable(G, desc) : i <= n})
  BY <1>7 DEF AccOk
<1> QED
  BY <1>1, <1>5, <1>8, <1>9

\* The contexts are those of the proxy, and only an ETSI controller has one.
ProxyInv ==
  /\ {"desc", "contexts"} \subseteq DOMAIN etsi
  /\ IsFiniteSet(DOMAIN etsi.contexts) /\ DOMAIN etsi.contexts \subseteq DOMAIN ContextOf
  /\ ContextsFit(etsi.contexts)
  /\ kind # "etsi" => etsi.desc = <<>>

LEMMA ProxyStart ==
  ASSUME Init
  PROVE  ProxyInv
<1>1. etsi = EtsiInit
  BY DEF Init
<1>2. {"desc", "contexts"} \subseteq DOMAIN etsi /\ etsi.contexts = <<>> /\ etsi.desc = <<>>
  BY <1>1 DEF EtsiInit
<1>3. DOMAIN <<>> = {} /\ IsFiniteSet({})
  BY FS_EmptySet
<1> QED
  BY <1>2, <1>3 DEF ProxyInv, ContextsFit

LEMMA ProxyHook ==
  ASSUME CoreInv, TablesInv, ProxyInv, Hook
  PROVE  ProxyInv'
<1>1. kind = "etsi"
  <2>1. kind \in {"flat", "hier", "etsi"}
    BY DeploymentFacts DEF CoreInv, kind
  <2> QED
    BY <2>1, NoHookRuns DEF TablesInv
<1>2. deployment' = deployment
  BY DEF Hook
<1>3. (\E v : etsi' = [etsi EXCEPT !.apps = v])
        \/ \E v, w : etsi' = [etsi EXCEPT !.desc = v, !.route = w]
  BY DEF Hook, addLambda, delLambda, addComputer, delComputer
<1>4. etsi'.contexts = etsi.contexts /\ DOMAIN etsi' = DOMAIN etsi
  BY <1>3 DEF ProxyInv
<1> QED
  BY <1>1, <1>2, <1>4 DEF ProxyInv, kind

LEMMA ProxyContexts ==
  ASSUME ProxyInv, NEW cx, etsi' = [etsi EXCEPT !.contexts = cx], deployment' = deployment,
         IsFiniteSet(DOMAIN cx), DOMAIN cx \subseteq DOMAIN ContextOf, ContextsFit(cx)
  PROVE  ProxyInv'
<1>1. /\ etsi'.contexts = cx /\ etsi'.desc = etsi.desc /\ DOMAIN etsi' = DOMAIN etsi
  BY DEF ProxyInv
<1> QED
  BY <1>1 DEF ProxyInv, kind

LEMMA ProxyCreate ==
  ASSUME ProxyInv, NEW k \in DOMAIN ContextOf, CreateContext(k)
  PROVE  ProxyInv'
<1>1. PICK cx : cx = [x \in DOMAIN etsi.contexts \cup {k} |-> ContextOf[x]]
  OBVIOUS
<1>2. etsi' = [etsi EXCEPT !.contexts = cx] /\ deployment' = deployment
  BY <1>1 DEF CreateContext
<1>3. IsFiniteSet(DOMAIN cx) /\ DOMAIN cx \subseteq DOMAIN ContextOf
  <2>1. IsFiniteSet(DOMAIN etsi.contexts \cup {k})
    BY FS_AddElement DEF ProxyInv
  <2> QED
    BY <2>1, <1>1 DEF ProxyInv
<1>4. \A x \in DOMAIN ContextOf : ContextOf[x] \in Nat \X Nat
  BY EndsAssumption
<1>5. ContextsFit(cx)
  BY <1>1, <1>3, <1>4 DEF ContextsFit
<1> QED
  BY <1>2, <1>3, <1>5, ProxyContexts

LEMMA ProxyDelete ==
  ASSUME ProxyInv, NEW k, DeleteContext(k)
  PROVE  ProxyInv'
<1>1. PICK cx : cx = [x \in DOMAIN etsi.contexts \ {k} |-> etsi.contexts[x]]
  OBVIOUS
<1>2. etsi' = [etsi EXCEPT !.contexts = cx] /\ deployment' = deployment
  BY <1>1 DEF DeleteContext
<1>3. IsFiniteSet(DOMAIN cx) /\ DOMAIN cx \subseteq DOMAIN ContextOf
  <2>1. IsFiniteSet(DOMAIN etsi.contexts \ {k})
    BY FS_Subset DEF ProxyInv
  <2> QED
    BY <2>1, <1>1 DEF ProxyInv
<1>4. ContextsFit(cx)
  BY <1>1, <1>3 DEF ContextsFit, ProxyInv
<1> QED
  BY <1>2, <1>3, <1>4, ProxyContexts

LEMMA ProxyOptimize ==
  ASSUME ProxyInv, optimizeTask
  PROVE  ProxyInv'
<1>1. \E v, w : etsi' = [etsi EXCEPT !.last = v, !.individual = w]
  BY DEF optimizeTask, optimize
<1>2. etsi'.contexts = etsi.contexts /\ etsi'.desc = etsi.desc /\ DOMAIN etsi' = DOMAIN etsi
  BY <1>1 DEF ProxyInv
<1>3. deployment' = deployment
  BY DEF optimizeTask
<1> QED
  BY <1>2, <1>3 DEF ProxyInv, kind

LEMMA ProxyStep ==
  ASSUME CoreInv, TablesInv, ProxyInv, [Next]_vars
  PROVE  ProxyInv'
<1>1. CASE Hook
  BY <1>1, ProxyHook
<1>2. CASE optimizeTask
  BY <1>2, ProxyOptimize
<1>3. CASE \E k \in DOMAIN ContextOf : CreateContext(k) \/ DeleteContext(k)
  BY <1>3, ProxyCreate, ProxyDelete
<1>4. CASE UNCHANGED <<deployment, etsi>>
  BY <1>4 DEF ProxyInv, kind
<1> QED
  BY <1>1, <1>2, <1>3, <1>4 DEF Next, Step, Event, vars, AddAgain, privateAnnounceComputer,
     privateRemoveComputer, CommandSucceeds, CommandFails, LoopEnds, announceComputer,
     removeComputer, announceRouter, Crash, Start, Purge

LEMMA ProxyAlways == Spec => []ProxyInv
<1>1. Init => ProxyInv
  BY ProxyStart
<1>2. CoreInv /\ TablesInv /\ ProxyInv /\ [Next]_vars => ProxyInv'
  BY ProxyStep
<1> QED
  BY <1>1, <1>2, CoreAlways, TablesAlways, PTL DEF Spec

\* What the proxy knows is what table() can work with.
LEMMA ProxyDesc ==
  ASSUME EtsiInv, ProxyInv
  PROVE  DescOk(etsi.desc)
<1>1. PICK desc : desc = etsi.desc
  OBVIOUS
<1>2. /\ DOMAIN desc \subseteq Lambdas
      /\ \A l \in DOMAIN desc : /\ desc[l].computers \in SUBSET Computers
                                /\ desc[l].default \in desc[l].computers
  <2>1. CASE kind = "etsi"
    BY <2>1, <1>1 DEF EtsiInv, DescFits, RouteFits
  <2>2. CASE kind # "etsi"
    <3>1. DOMAIN desc = {}
      BY <2>2, <1>1 DEF ProxyInv
    <3> QED
      BY <3>1
  <2> QED
    BY <2>1, <2>2
<1>3. AllServing(desc) \subseteq Computers
  BY <1>2 DEF AllServing
<1>4. /\ IsFiniteSet(Computers) /\ IsFiniteSet(Lambdas)
      /\ Computers \subseteq Nat /\ Lambdas \subseteq Nat
  BY EndsAssumption DEF Ends
<1>5. IsFiniteSet(DOMAIN desc) /\ IsFiniteSet(AllServing(desc))
  BY <1>2, <1>3, <1>4, FS_Subset
<1> QED
  BY <1>1, <1>2, <1>3, <1>4, <1>5 DEF DescOk

LEMMA TableBalanced ==
  ASSUME EtsiInv, ProxyInv
  PROVE  AssociationsBalanced
<1> DEFINE G == Groups(etsi.contexts)
           desc == etsi.desc
           rs == table(etsi.contexts, etsi.desc)
           Part(i) == /\ rs[i].c \in desc[rs[i].l].computers
                      /\ \/ \E j \in i + 1..Len(rs) : rs[j].c = rs[i].c
                         \/ \A d \in desc[rs[i].l].computers :
                              Load(G, desc, rs, rs[i].c) - Weights(G, desc, rs)[i] <= Load(G, desc, rs, d)
<1>1. Len(rs) = Cardinality(Servable(G, desc)) /\ (\A i \in DOMAIN rs : Part(i)) => AssociationsBalanced
  BY DEF AssociationsBalanced, Load, SumOver, Uses, Weights, GroupOf, Servable
<1>2. RowsOk(G, desc, rs) /\ Len(rs) = Cardinality(Servable(G, desc)) /\ Even(G, desc, rs)
  BY ProxyDesc, TableFacts DEF ProxyInv
<1>3. \A i \in DOMAIN rs : Part(i)
  <2> HIDE DEF G, desc, rs
  <2> QED BY <1>2 DEF RowsOk, RowOk, Even, EvenRow
<1> QED
  BY <1>1, <1>2, <1>3

\* Whatever computers join and leave and whatever contexts are created, each
\* group of contexts that some computer can serve is assigned to one, and no
\* computer that serves it was used less when a computer received its last
\* group (EdgeControllerEtsiBalanced::table).
THEOREM EdgeControllerAssociationsBalanced == Spec => []AssociationsBalanced
<1>1. EtsiInv /\ ProxyInv => AssociationsBalanced
  BY TableBalanced
<1> QED
  BY <1>1, EtsiAlways, ProxyAlways, PTL
=============================================================================
