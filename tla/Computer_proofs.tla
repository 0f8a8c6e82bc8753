-------------------------- MODULE Computer_proofs --------------------------
(***************************************************************************)
(* Proofs about the simulated computer, for all numbers of containers,     *)
(* workers, tasks and cores, and all requirements.                         *)
(*                                                                         *)
(* First sums of sequences, then what MakeActive, Advance and Tail do to a *)
(* list of tasks: which tasks it has, how much memory they use, and how    *)
(* many operations are left up to each of them.  Then the specification:   *)
(* each task is in one place and the counters follow the lists.            *)
(*                                                                         *)
(* Induction over lists is done by way of the least index at which a claim *)
(* would fail, lemma NatMin.                                               *)
(***************************************************************************)
EXTENDS Computer, FiniteSetTheorems, SequenceTheorems, WellFoundedInduction, TLAPS

\* A set of natural numbers that is not empty has a least element.
LEMMA NatMin ==
  ASSUME NEW S \in SUBSET Nat, S # {}
  PROVE  \E x \in S : \A y \in S : x <= y
<1> DEFINE R == OpToRel(<, Nat)
<1>1. IsWellFoundedOn(R, Nat)
  BY NatLessThanWellFounded
<1>2. PICK x \in S : \A y \in S : ~ (<<y, x>> \in R)
  <2> HIDE DEF R
  <2> QED BY <1>1, WFMin
<1>3. R = {p \in Nat \X Nat : p[1] < p[2]}
  BY DEF OpToRel
<1> HIDE DEF R
<1>4. \A y \in S : ~ (y < x)
  BY <1>2, <1>3
<1> QED
  BY <1>4, x \in Nat
-----------------------------------------------------------------------------
(***************************************************************************)
(* Sums.                                                                   *)
(***************************************************************************)
IsSums(s, v) ==
  /\ s \in [0..Len(v) -> Nat]
  /\ s[0] = 0
  /\ \A k \in 1..Len(v) : s[k] = s[k - 1] + v[k]

LEMMA SumsOK ==
  ASSUME NEW v \in Seq(Nat)
  PROVE  IsSums(Sums(v), v)
<1>1. PICK n : n = Len(v)
  OBVIOUS
<1>2. n \in Nat /\ \A k \in 1..n : v[k] \in Nat
  BY <1>1
<1> DEFINE Sum(s, m) == s = [i \in 0..m |-> IF i = 0 THEN 0 ELSE s[i - 1] + v[i]]
           Nats(s, m) == s \in [0..m -> Nat]
           Bad == {m \in 0..n : ~ \E s : Sum(s, m) /\ Nats(s, m)}
<1>3. Bad = {}
  <2>1. SUFFICES ASSUME Bad # {} PROVE FALSE
    OBVIOUS
  <2>2. PICK m \in Bad : \A j \in Bad : m <= j
    <3>1. Bad \in SUBSET Nat BY <1>2
    <3> HIDE DEF Bad
    <3> QED BY <2>1, <3>1, NatMin
  <2>3. m \in 0..n /\ m \in Nat /\ ~ \E s : Sum(s, m) /\ Nats(s, m)
    BY <1>2
  <2>4. CASE m = 0
    <3>1. PICK s : s = [i \in 0..0 |-> 0]
      OBVIOUS
    <3>2. Sum(s, 0) /\ Nats(s, 0)
      BY <3>1
    <3> QED
      BY <2>3, <2>4, <3>2
  <2>5. CASE m # 0
    <3>1. m - 1 \in 0..n /\ m - 1 \notin Bad
      <4>1. m - 1 \in 0..n /\ ~ (m <= m - 1) BY <2>3, <2>5, <1>2
      <4> HIDE DEF Bad
      <4> QED BY <4>1, <2>2
    <3>2. PICK s : Sum(s, m - 1) /\ Nats(s, m - 1)
      BY <3>1
    <3>3. PICK t : t = [i \in 0..m |-> IF i = m THEN s[m - 1] + v[m] ELSE s[i]]
      OBVIOUS
    <3>4. v[m] \in Nat
      BY <2>3, <2>5, <1>2
    <3>5. \A i \in 0..m : i # m => i \in 0..(m - 1) /\ i - 1 # m
      BY <2>3
    <3>6. Nats(t, m)
      BY <3>2, <3>3, <3>4, <3>5, <2>3, <2>5
    <3>7. \A i \in 0..m : t[i] = IF i = 0 THEN 0 ELSE t[i - 1] + v[i]
      <4> TAKE i \in 0..m
      <4>1. CASE i = m
        BY <4>1, <3>3, <2>3, <2>5
      <4>2. CASE i # m /\ i = 0
        BY <4>2, <3>2, <3>3, <3>5
      <4>3. CASE i # m /\ i # 0
        <5>1. i \in 0..(m - 1) /\ i - 1 \in 0..m /\ i - 1 # m
          BY <4>3, <2>3
        <5>2. t[i] = s[i] /\ t[i - 1] = s[i - 1]
          BY <5>1, <4>3, <3>3
        <5>3. s[i] = s[i - 1] + v[i]
          BY <5>1, <4>3, <3>2
        <5> QED
          BY <5>2, <5>3, <4>3
      <4> QED
        BY <4>1, <4>2, <4>3
    <3>8. Sum(t, m)
      <4>1. t = [i \in 0..m |-> t[i]] BY <3>3
      <4> QED BY <4>1, <3>7
    <3> QED
      BY <2>3, <3>6, <3>8
  <2> QED
    BY <2>4, <2>5
<1>4. PICK s : Sum(s, n) /\ Nats(s, n)
  <2>1. n \in 0..n BY <1>2
  <2>2. n \notin Bad BY <1>3
  <2> HIDE DEF Sum, Nats
  <2> QED BY <2>1, <2>2
<1>5. PICK t : t = CHOOSE sum : sum = [k \in 0..Len(v) |-> IF k = 0 THEN 0 ELSE sum[k - 1] + v[k]]
  OBVIOUS
<1>6. Sum(t, n)
  BY <1>1, <1>4, <1>5
<1>7. Sums(v) = t
  BY <1>5 DEF Sums
<1>8. \A i \in 0..n : t[i] = s[i]
  <2> DEFINE Differ == {i \in 0..n : t[i] # s[i]}
  <2>1. SUFFICES ASSUME Differ # {} PROVE FALSE
    OBVIOUS
  <2>2. PICK m \in Differ : \A j \in Differ : m <= j
    <3>1. Differ \in SUBSET Nat BY <1>2
    <3> HIDE DEF Differ
    <3> QED BY <2>1, <3>1, NatMin
  <2>3. m \in 0..n /\ t[m] # s[m]
    OBVIOUS
  <2>4. t[m] = IF m = 0 THEN 0 ELSE t[m - 1] + v[m]
    BY <1>6, <2>3
  <2>5. s[m] = IF m = 0 THEN 0 ELSE s[m - 1] + v[m]
    BY <1>4, <2>3
  <2>6. m # 0
    BY <2>3, <2>4, <2>5
  <2>7. m - 1 \in 0..n /\ ~ (m <= m - 1)
    BY <2>3, <2>6, <1>2
  <2>8. t[m - 1] = s[m - 1]
    BY <2>2, <2>7
  <2> QED
    BY <2>3, <2>4, <2>5, <2>6, <2>8
<1>9. t \in [0..n -> Nat]
  <2>1. t = [i \in 0..n |-> t[i]] BY <1>6
  <2> QED BY <2>1, <1>4, <1>8
<1>10. t[0] = 0 /\ \A k \in 1..n : t[k] = t[k - 1] + v[k]
  <2>1. \A i \in 0..n : t[i] = IF i = 0 THEN 0 ELSE t[i - 1] + v[i]
    BY <1>6
  <2> QED
    BY <2>1, <1>2
<1> QED
  BY <1>1, <1>7, <1>9, <1>10 DEF IsSums

\* Two sequences that agree up to p have the same sums up to p.
LEMMA SumsAgree ==
  ASSUME NEW v \in Seq(Nat), NEW w \in Seq(Nat), NEW p \in Nat, p <= Len(v), p <= Len(w),
         \A i \in 1..p : v[i] = w[i]
  PROVE  \A i \in 0..p : Sums(v)[i] = Sums(w)[i]
<1>1. PICK s, t : s = Sums(v) /\ t = Sums(w)
  OBVIOUS
<1>2. IsSums(s, v) /\ IsSums(t, w) /\ Len(v) \in Nat /\ Len(w) \in Nat
  BY <1>1, SumsOK
<1> DEFINE Differ == {i \in 0..p : t[i] # s[i]}
<1>3. SUFFICES ASSUME Differ # {} PROVE FALSE
  BY <1>1
<1>4. PICK m \in Differ : \A j \in Differ : m <= j
  <2>1. Differ \in SUBSET Nat OBVIOUS
  <2> HIDE DEF Differ
  <2> QED BY <1>3, <2>1, NatMin
<1>5. m \in 0..p /\ t[m] # s[m]
  OBVIOUS
<1>6. m # 0
  BY <1>2, <1>5 DEF IsSums
<1>7. m - 1 \in 0..p /\ ~ (m <= m - 1) /\ m \in 1..p /\ m \in 1..Len(v) /\ m \in 1..Len(w)
  BY <1>2, <1>5, <1>6
<1>8. t[m - 1] = s[m - 1]
  BY <1>4, <1>7
<1>9. s[m] = s[m - 1] + v[m] /\ t[m] = t[m - 1] + w[m] /\ v[m] = w[m]
  BY <1>2, <1>7 DEF IsSums
<1> QED
  BY <1>5, <1>8, <1>9

\* v from p on is w from p + h on.
Follows(v, w, p, h) ==
  /\ p \in 0..Len(v) /\ h \in Int /\ p + h \in Nat /\ Len(w) = Len(v) + h
  /\ \A i \in (p + 1)..Len(v) : w[i + h] = v[i]

\* Their sums then differ by what they do at p.
DifferAsAt(v, w, p, h) ==
  \A i \in p..Len(v) : Sums(w)[i + h] = Sums(v)[i] + (Sums(w)[p + h] - Sums(v)[p])

LEMMA SumsFollow ==
  ASSUME NEW v \in Seq(Nat), NEW w \in Seq(Nat), NEW p, NEW h, Follows(v, w, p, h)
  PROVE  DifferAsAt(v, w, p, h)
<1>1. PICK s, t, n : s = Sums(v) /\ t = Sums(w) /\ n = Len(v)
  OBVIOUS
<1>2. IsSums(s, v) /\ IsSums(t, w)
  BY <1>1, SumsOK
<1>3. /\ p \in 0..n /\ h \in Int /\ p + h \in Nat /\ Len(w) = n + h /\ n \in Nat
      /\ \A i \in (p + 1)..n : w[i + h] = v[i]
  BY <1>1 DEF Follows
<1>4. s \in [0..n -> Nat] /\ t \in [0..(n + h) -> Nat]
  BY <1>1, <1>2, <1>3 DEF IsSums
<1> DEFINE Differ == {i \in p..n : t[i + h] # s[i] + (t[p + h] - s[p])}
<1>5. SUFFICES ASSUME Differ # {} PROVE FALSE
  BY <1>1 DEF DifferAsAt
<1>6. PICK m \in Differ : \A j \in Differ : m <= j
  <2>1. Differ \in SUBSET Nat BY <1>3
  <2> HIDE DEF Differ
  <2> QED BY <1>5, <2>1, NatMin
<1>7. m \in p..n /\ t[m + h] # s[m] + (t[p + h] - s[p])
  OBVIOUS
<1>8. s[p] \in Nat /\ t[p + h] \in Nat
  BY <1>3, <1>4
<1>9. m # p
  BY <1>7, <1>8
<1>10. /\ m - 1 \in p..n /\ ~ (m <= m - 1) /\ m \in (p + 1)..n /\ m \in 1..n
       /\ m + h \in 1..(n + h) /\ (m + h) - 1 = (m - 1) + h
       /\ m - 1 \in 0..n /\ (m - 1) + h \in 0..(n + h)
  BY <1>3, <1>7, <1>9
<1>11. t[(m - 1) + h] = s[m - 1] + (t[p + h] - s[p])
  BY <1>6, <1>10
<1>12. s[m] = s[m - 1] + v[m]
  BY <1>1, <1>2, <1>10 DEF IsSums
<1>13. t[m + h] = t[(m - 1) + h] + w[m + h]
  BY <1>2, <1>3, <1>10 DEF IsSums
<1>14. w[m + h] = v[m] /\ v[m] \in Nat
  BY <1>1, <1>3, <1>10
<1>15. s[m - 1] \in Nat
  BY <1>4, <1>10
<1>16. PICK sm, sl, sp, tm, tl, tp, x :
         /\ sm = s[m] /\ sl = s[m - 1] /\ sp = s[p] /\ x = v[m]
         /\ tm = t[m + h] /\ tl = t[(m - 1) + h] /\ tp = t[p + h]
  OBVIOUS
<1>17. /\ sm = sl + x /\ tm = tl + x /\ tl = sl + (tp - sp) /\ tm # sm + (tp - sp)
       /\ sl \in Nat /\ sp \in Nat /\ tp \in Nat /\ x \in Nat
  BY <1>7, <1>8, <1>11, <1>12, <1>13, <1>14, <1>15, <1>16
<1> QED
  BY <1>17

LEMMA TotalInsert ==
  ASSUME NEW v \in Seq(Nat), NEW w \in Seq(Nat), NEW k \in 0..Len(v), Len(w) = Len(v) + 1,
         \A i \in 1..k : w[i] = v[i], \A i \in (k + 1)..Len(v) : w[i + 1] = v[i]
  PROVE  Total(w) = Total(v) + w[k + 1]
<1>1. PICK s, t, n : s = Sums(v) /\ t = Sums(w) /\ n = Len(v)
  OBVIOUS
<1>2. /\ n \in Nat /\ k \in 0..n /\ Len(w) = n + 1 /\ k \in Nat /\ k <= Len(v) /\ k <= Len(w)
      /\ k + 1 \in Nat /\ k + 1 \in 1..Len(w) /\ (k + 1) - 1 = k /\ n \in k..n
  BY <1>1
<1>3. /\ s \in [0..n -> Nat] /\ t \in [0..(n + 1) -> Nat]
      /\ \A i \in 1..Len(w) : t[i] = t[i - 1] + w[i]
  BY <1>1, <1>2, SumsOK DEF IsSums
<1>4. \A i \in 0..k : s[i] = t[i]
  <2>1. \A i \in 1..k : v[i] = w[i]
    OBVIOUS
  <2> QED
    BY <1>1, <1>2, <2>1, SumsAgree
<1>5. Follows(v, w, k, 1)
  BY <1>1, <1>2 DEF Follows
<1>6. \A i \in k..n : t[i + 1] = s[i] + (t[k + 1] - s[k])
  <2>1. DifferAsAt(v, w, k, 1)
    BY <1>5, SumsFollow
  <2>2. \A i \in k..Len(v) : Sums(w)[i + 1] = Sums(v)[i] + (Sums(w)[k + 1] - Sums(v)[k])
    BY <2>1 DEF DifferAsAt
  <2> QED
    BY <2>2, <1>1
<1>7. t[n + 1] = s[n] + (t[k + 1] - s[k])
  BY <1>2, <1>6
<1>8. t[k + 1] = t[k] + w[k + 1]
  BY <1>2, <1>3
<1>9. t[k] = s[k]
  BY <1>2, <1>4
<1>10. s[k] \in Nat /\ s[n] \in Nat /\ w[k + 1] \in Nat
  <2>1. w[k + 1] \in Nat
    BY <1>2
  <2>2. n \in 0..n
    BY <1>2
  <2> QED
    BY <2>1, <2>2, <1>2, <1>3
<1>11. Total(v) = s[n] /\ Total(w) = t[n + 1]
  BY <1>1, <1>2 DEF Total
<1> QED
  BY <1>7, <1>8, <1>9, <1>10, <1>11

LEMMA TotalTail ==
  ASSUME NEW v \in Seq(Nat), NEW w \in Seq(Nat), Len(v) # 0, Len(w) = Len(v) - 1,
         \A i \in 1..Len(w) : w[i] = v[i + 1]
  PROVE  Total(v) = Total(w) + v[1] /\ \A i \in 0..Len(w) : Sums(v)[i + 1] = Sums(w)[i] + v[1]
<1>1. PICK s, t, n : s = Sums(v) /\ t = Sums(w) /\ n = Len(w)
  OBVIOUS
<1>2. IsSums(s, v) /\ IsSums(t, w) /\ n \in Nat /\ Len(v) = n + 1
  BY <1>1, SumsOK
<1>3. Follows(w, v, 0, 1)
  BY <1>1, <1>2 DEF Follows
<1>4. \A i \in 0..n : s[i + 1] = t[i] + (s[0 + 1] - t[0])
  <2>1. DifferAsAt(w, v, 0, 1)
    BY <1>3, SumsFollow
  <2> QED
    BY <2>1, <1>1 DEF DifferAsAt
<1>5. s[1] = v[1] /\ t[0] = 0 /\ v[1] \in Nat
  BY <1>2 DEF IsSums
<1>6. \A i \in 0..n : s[i + 1] = t[i] + v[1]
  BY <1>4, <1>5
<1>7. s[n + 1] = t[n] + v[1]
  BY <1>2, <1>6
<1>8. Total(v) = s[n + 1] /\ Total(w) = t[n]
  BY <1>1, <1>2 DEF Total
<1> QED
  BY <1>1, <1>6, <1>7, <1>8

\* One of the numbers is another one.
LEMMA TotalChange ==
  ASSUME NEW v \in Seq(Nat), NEW w \in Seq(Nat), Len(w) = Len(v), NEW c \in 1..Len(v),
         \A i \in 1..Len(v) : i # c => w[i] = v[i]
  PROVE  Total(w) + v[c] = Total(v) + w[c]
<1>1. PICK s, t, n : s = Sums(v) /\ t = Sums(w) /\ n = Len(v)
  OBVIOUS
<1>2. /\ n \in Nat /\ c \in 1..n /\ c \in 0..n /\ Len(w) = n /\ n \in c..n /\ n \in 0..n
      /\ c - 1 \in Nat /\ c - 1 <= Len(v) /\ c - 1 <= Len(w) /\ c - 1 \in 0..n
      /\ c + 0 = c /\ n + 0 = n /\ c - 1 \in 0..(c - 1)
  BY <1>1
<1>3. /\ s \in [0..n -> Nat] /\ t \in [0..n -> Nat]
      /\ \A i \in 1..n : s[i] = s[i - 1] + v[i] /\ t[i] = t[i - 1] + w[i]
  BY <1>1, <1>2, SumsOK DEF IsSums
<1>4. s[c - 1] = t[c - 1]
  <2>1. \A i \in 1..(c - 1) : v[i] = w[i]
    BY <1>1, <1>2
  <2>2. \A i \in 0..(c - 1) : s[i] = t[i]
    BY <1>1, <1>2, <2>1, SumsAgree
  <2> QED
    BY <1>2, <2>2
<1>5. Follows(v, w, c, 0)
  BY <1>1, <1>2 DEF Follows
<1>6. \A i \in c..n : t[i + 0] = s[i] + (t[c + 0] - s[c])
  <2>1. DifferAsAt(v, w, c, 0)
    BY <1>5, SumsFollow
  <2> QED
    BY <2>1, <1>1 DEF DifferAsAt
<1>7. t[n] = s[n] + (t[c] - s[c])
  BY <1>2, <1>6
<1>8. t[c] = t[c - 1] + w[c] /\ s[c] = s[c - 1] + v[c]
  BY <1>2, <1>3
<1>9. s[c - 1] \in Nat /\ s[n] \in Nat /\ s[c] \in Nat /\ t[c] \in Nat
  BY <1>2, <1>3
<1>10. w[c] \in Nat /\ v[c] \in Nat
  BY <1>1, <1>2
<1>11. Total(v) = s[n] /\ Total(w) = t[n]
  BY <1>1, <1>2 DEF Total
<1>12. t[n] + v[c] = s[n] + w[c]
  <2>1. PICK x, y, z, r : x = s[c - 1] /\ y = v[c] /\ z = w[c] /\ r = s[n]
    OBVIOUS
  <2>2. x \in Nat /\ y \in Nat /\ z \in Nat /\ r \in Nat /\ t[n] = r + ((x + z) - (x + y))
    BY <2>1, <1>4, <1>7, <1>8, <1>9, <1>10
  <2>3. (r + ((x + z) - (x + y))) + y = r + z
    BY <2>2
  <2> QED
    BY <2>1, <2>2, <2>3
<1> QED
  BY <1>11, <1>12

\* Sums do not decrease.
LEMMA SumsGrow ==
  ASSUME NEW v \in Seq(Nat), NEW j \in 0..Len(v), NEW i \in 0..j
  PROVE  Sums(v)[i] <= Sums(v)[j] /\ Sums(v)[j] \in Nat /\ Sums(v)[i] \in Nat
<1>1. PICK s : s = Sums(v)
  OBVIOUS
<1>2. IsSums(s, v) /\ Len(v) \in Nat
  BY <1>1, SumsOK
<1>3. s \in [0..Len(v) -> Nat]
  BY <1>2 DEF IsSums
<1> DEFINE Less == {m \in i..j : ~ (s[i] <= s[m])}
<1>4. SUFFICES ASSUME Less # {} PROVE FALSE
  BY <1>1, <1>2, <1>3
<1>5. PICK m \in Less : \A k \in Less : m <= k
  <2>1. Less \in SUBSET Nat BY <1>2
  <2> HIDE DEF Less
  <2> QED BY <1>4, <2>1, NatMin
<1>6. m \in i..j /\ ~ (s[i] <= s[m]) /\ s[i] \in Nat
  BY <1>2, <1>3
<1>7. m # i
  BY <1>6
<1>8. m - 1 \in i..j /\ ~ (m <= m - 1) /\ m \in 1..Len(v) /\ m - 1 \in 0..Len(v)
  BY <1>2, <1>6, <1>7
<1>9. s[i] <= s[m - 1]
  <2>1. m - 1 \notin Less
    <3> HIDE DEF Less
    <3> QED BY <1>5, <1>8
  <2> QED
    BY <1>8, <2>1
<1>10. v[m] \in Nat /\ s[m - 1] \in Nat
  <2>1. v[m] \in Nat
    BY <1>8
  <2>2. s[m - 1] \in Nat
    BY <1>3, <1>8
  <2> QED
    BY <2>1, <2>2
<1>11. s[m] = s[m - 1] + v[m]
  BY <1>2, <1>8 DEF IsSums
<1> QED
  BY <1>6, <1>9, <1>10, <1>11
-----------------------------------------------------------------------------
(***************************************************************************)
(* Lists of tasks.                                                         *)
(***************************************************************************)
TaskIds == 0..(MaxTasks - 1)

Ops(a) == [k \in 1..Len(a) |-> a[k].theResidualOps]
Memory(a) == [k \in 1..Len(a) |-> a[k].theMemory]

Ids(a) == {a[k].theId : k \in 1..Len(a)}

\* No two elements are the same task.
Distinct(a) == \A i, j \in 1..Len(a) : a[i].theId = a[j].theId => i = j

LEMMA TaskType ==
  ASSUME NEW t \in Tasks
  PROVE  /\ t.theId \in TaskIds /\ t.theMemory \in Nat /\ t.theMemory \in 0..MemTotal
         /\ t.theResidualOps \in Nat
  BY ComputerAssumption DEF Tasks, TaskIds

LEMMA ListValues ==
  ASSUME NEW a \in Seq(Tasks)
  PROVE  /\ Len(a) \in Nat /\ \A k \in 1..Len(a) : a[k] \in Tasks
         /\ Ops(a) \in Seq(Nat) /\ Len(Ops(a)) = Len(a)
         /\ \A k \in 1..Len(a) : Ops(a)[k] = a[k].theResidualOps
         /\ Memory(a) \in Seq(Nat) /\ Len(Memory(a)) = Len(a)
         /\ \A k \in 1..Len(a) : Memory(a)[k] = a[k].theMemory
         /\ OpsUpTo(a) = Sums(Ops(a)) /\ SumMemory(a) = Total(Memory(a))
<1>1. Len(a) \in Nat /\ \A k \in 1..Len(a) : a[k] \in Tasks
  OBVIOUS
<1>2. /\ \A k \in 1..Len(a) : a[k].theResidualOps \in Nat /\ a[k].theMemory \in Nat
  BY <1>1, TaskType
<1>3. Ops(a) \in [1..Len(a) -> Nat] /\ Memory(a) \in [1..Len(a) -> Nat]
  BY <1>2 DEF Ops, Memory
<1>4. Ops(a) \in Seq(Nat) /\ Memory(a) \in Seq(Nat)
  <2>1. \A n \in Nat : \A f : f \in [1..n -> Nat] => f \in Seq(Nat)
    OBVIOUS
  <2> QED
    BY <1>1, <1>3, <2>1
<1>5. Len(Ops(a)) = Len(a) /\ Len(Memory(a)) = Len(a)
  BY <1>1, <1>3, <1>4
<1> QED
  BY <1>1, <1>4, <1>5 DEF Ops, Memory, OpsUpTo, SumMemory

\* m is a with the task t after the first k ones; up to each task as many
\* operations are left as before, and up to t those of t.
InsertedAt(a, t, m, k) ==
  /\ k \in 0..Len(a) /\ m \in Seq(Tasks) /\ Len(m) = Len(a) + 1
  /\ \A i \in 1..k : /\ m[i].theId = a[i].theId /\ m[i].theMemory = a[i].theMemory
                     /\ OpsUpTo(m)[i] = OpsUpTo(a)[i]
  /\ m[k + 1].theId = t.theId /\ m[k + 1].theMemory = t.theMemory
  /\ OpsUpTo(m)[k + 1] = t.theResidualOps
  /\ \A i \in (k + 1)..Len(a) :
       /\ m[i + 1].theId = a[i].theId /\ m[i + 1].theMemory = a[i].theMemory
       /\ OpsUpTo(m)[i + 1] = OpsUpTo(a)[i]

\* The place of the new task exists.
LEMMA PlaceOK ==
  ASSUME NEW a \in Seq(Tasks), NEW t \in Tasks
  PROVE  /\ Place(a, t) \in 0..Len(a)
         /\ OpsUpTo(a)[Place(a, t)] <= t.theResidualOps
         /\ Place(a, t) < Len(a) => OpsUpTo(a)[Place(a, t) + 1] > t.theResidualOps
<1>0. PICK sum : sum = OpsUpTo(a)
  OBVIOUS
<1>1. PICK n, ops : n = Len(a) /\ ops = t.theResidualOps
  OBVIOUS
<1>2. n \in Nat /\ ops \in Nat /\ sum \in [0..n -> Nat] /\ sum[0] = 0
  <2>1. IsSums(Sums(Ops(a)), Ops(a)) /\ Len(Ops(a)) = n /\ sum = Sums(Ops(a)) /\ n \in Nat
    BY <1>0, <1>1, ListValues, SumsOK
  <2> QED
    BY <1>1, <2>1, TaskType DEF IsSums
<1> DEFINE Fits == {i \in 0..n : i < n => sum[i + 1] > ops}
<1>3. n \in Fits
  BY <1>2
<1>4. PICK i \in Fits : \A j \in Fits : i <= j
  <2>1. Fits \in SUBSET Nat BY <1>2
  <2> HIDE DEF Fits
  <2> QED BY <1>3, <2>1, NatMin
<1>5. sum[i] <= ops
  <2>1. CASE i = 0
    BY <2>1, <1>2
  <2>2. CASE i # 0
    <3>1. i - 1 \in 0..n /\ ~ (i <= i - 1) /\ (i - 1) + 1 = i /\ i \in 0..n
      BY <2>2, <1>2
    <3>2. i - 1 \notin Fits
      BY <3>1, <1>4
    <3>3. ~ (sum[i] > ops)
      BY <3>1, <3>2
    <3> QED
      BY <3>1, <3>3, <1>2
  <2> QED
    BY <2>1, <2>2
<1>6. i \in 0..Len(a) /\ sum[i] <= ops /\ (i < Len(a) => sum[i + 1] > ops)
  BY <1>1, <1>5
<1>7. PICK p : p = CHOOSE j \in 0..Len(a) : sum[j] <= ops /\ (j < Len(a) => sum[j + 1] > ops)
  OBVIOUS
<1>8. p \in 0..Len(a) /\ sum[p] <= ops /\ (p < Len(a) => sum[p + 1] > ops)
  <2>1. \E j \in 0..Len(a) : sum[j] <= ops /\ (j < Len(a) => sum[j + 1] > ops)
    BY <1>6
  <2> QED
    BY <1>7, <2>1
<1>9. Place(a, t) = p
  BY <1>0, <1>1, <1>7 DEF Place
<1> QED
  BY <1>0, <1>1, <1>8, <1>9

LEMMA MakeActiveOK ==
  ASSUME NEW a \in Seq(Tasks), NEW t \in Tasks
  PROVE  \E k \in 0..Len(a) : InsertedAt(a, t, MakeActive(a, t), k)
<1>1. PICK sum, n, ops : sum = OpsUpTo(a) /\ n = Len(a) /\ ops = t.theResidualOps
  OBVIOUS
<1>2. PICK k : k = Place(a, t)
  OBVIOUS
<1>3. k \in 0..n /\ sum[k] <= ops /\ (k < n => sum[k + 1] > ops)
  BY <1>1, <1>2, PlaceOK
<1>4. /\ IsSums(sum, Ops(a)) /\ Len(Ops(a)) = n /\ n \in Nat /\ \A i \in 1..n : a[i] \in Tasks
      /\ \A i \in 1..n : Ops(a)[i] = a[i].theResidualOps
  BY <1>1, ListValues, SumsOK
<1>5. sum \in [0..n -> Nat] /\ ops \in Nat /\ t.theId \in TaskIds /\ t.theMemory \in 0..MemTotal
  BY <1>1, <1>4, TaskType DEF IsSums
<1>6. PICK diff : diff = ops - sum[k]
  OBVIOUS
<1>7. diff \in Nat /\ sum[k] \in Nat /\ sum[k] + diff = ops
  BY <1>3, <1>5, <1>6
<1>8. PICK x : x = [t EXCEPT !.theResidualOps = diff]
  OBVIOUS
<1>9. x \in Tasks /\ x.theId = t.theId /\ x.theMemory = t.theMemory /\ x.theResidualOps = diff
  BY <1>7, <1>8 DEF Tasks
<1>10. PICK rest : rest = SubSeq(a, k + 1, n)
  OBVIOUS
<1>11. /\ rest \in Seq(Tasks) /\ Len(rest) = n - k
       /\ \A i \in 1..(n - k) : rest[i] = a[k + i]
  <2>1. /\ k + 1 \in Int /\ n \in Int /\ n - (k + 1) + 1 = n - k
        /\ (IF k + 1 <= n THEN n - (k + 1) + 1 ELSE 0) = n - k
        /\ \A i \in (k + 1)..n : i \in 1..n
        /\ \A i \in 1..(n - k) : (k + 1) + i - 1 = k + i
    BY <1>3, <1>4
  <2>2. \A i \in (k + 1)..n : a[i] \in Tasks
    BY <2>1, <1>4
  <2>3. /\ rest \in Seq(Tasks) /\ Len(rest) = IF k + 1 <= n THEN n - (k + 1) + 1 ELSE 0
        /\ \A i \in 1..(n - (k + 1) + 1) : rest[i] = a[(k + 1) + i - 1]
    BY <2>1, <2>2, <1>10, SubSeqProperties
  <2> QED
    BY <2>1, <2>3
<1>12. PICK next : next = IF rest = <<>> THEN rest
                          ELSE [rest EXCEPT ![1].theResidualOps = @ - diff]
  OBVIOUS
<1>13. k < n => /\ a[k + 1] \in Tasks /\ a[k + 1].theResidualOps - diff \in Nat
                /\ sum[k + 1] = sum[k] + a[k + 1].theResidualOps
                /\ a[k + 1].theResidualOps \in Nat
  <2> SUFFICES ASSUME k < n
               PROVE  /\ a[k + 1] \in Tasks /\ a[k + 1].theResidualOps - diff \in Nat
                      /\ sum[k + 1] = sum[k] + a[k + 1].theResidualOps
                      /\ a[k + 1].theResidualOps \in Nat
    OBVIOUS
  <2>1. k + 1 \in 1..n /\ (k + 1) - 1 = k
    BY <1>3, <1>4
  <2>2. a[k + 1] \in Tasks /\ a[k + 1].theResidualOps \in Nat
    BY <2>1, <1>4, TaskType
  <2>3. sum[k + 1] = sum[k] + a[k + 1].theResidualOps
    BY <2>1, <1>4 DEF IsSums
  <2>4. sum[k + 1] > ops
    BY <1>3
  <2>5. a[k + 1].theResidualOps - diff \in Nat
    <3>1. PICK r : r = a[k + 1].theResidualOps
      OBVIOUS
    <3>2. r \in Nat /\ sum[k] + r > ops
      BY <2>2, <2>3, <2>4, <3>1
    <3>3. r - diff \in Nat
      BY <3>2, <1>5, <1>7
    <3> QED
      BY <3>1, <3>3
  <2> QED
    BY <2>2, <2>3, <2>5
<1>14. /\ next \in Seq(Tasks) /\ Len(next) = n - k
       /\ \A i \in 2..(n - k) : next[i] = a[k + i]
       /\ k < n => /\ next[1].theId = a[k + 1].theId /\ next[1].theMemory = a[k + 1].theMemory
                   /\ next[1].theResidualOps = a[k + 1].theResidualOps - diff
  <2>1. CASE k = n
    <3>1. rest = <<>> /\ next = <<>> /\ n - k = 0
      BY <2>1, <1>4, <1>11, <1>12
    <3> QED
      BY <3>1, <2>1, <1>4
  <2>2. CASE k < n
    <3>1. n - k \in Nat \ {0} /\ rest # <<>> /\ 1 \in 1..(n - k) /\ rest[1] = a[k + 1]
      BY <2>2, <1>3, <1>4, <1>11
    <3>2. PICK y : y = [rest[1] EXCEPT !.theResidualOps = rest[1].theResidualOps - diff]
      OBVIOUS
    <3>3. next = [rest EXCEPT ![1] = y]
      BY <3>1, <3>2, <1>12
    <3>4. /\ y \in Tasks /\ y.theId = a[k + 1].theId /\ y.theMemory = a[k + 1].theMemory
          /\ y.theResidualOps = a[k + 1].theResidualOps - diff
      BY <2>2, <3>1, <3>2, <1>13 DEF Tasks
    <3>5. next \in Seq(Tasks) /\ Len(next) = n - k /\ next[1] = y
      BY <3>1, <3>3, <3>4, <1>11
    <3>6. \A i \in 2..(n - k) : next[i] = a[k + i]
      BY <3>1, <3>3, <1>11
    <3> QED
      BY <3>4, <3>5, <3>6
  <2> QED
    BY <2>1, <2>2, <1>3, <1>4
<1>15. PICK m, front : m = MakeActive(a, t) /\ front = SubSeq(a, 1, k)
  OBVIOUS
<1>16. m = front \o <<x>> \o next
  <2>1. next = IF rest = <<>> THEN rest ELSE [rest EXCEPT ![1].theResidualOps = @ - (ops - sum[k])]
    BY <1>6, <1>12
  <2>2. x = [t EXCEPT !.theResidualOps = t.theResidualOps - sum[k]]
    BY <1>1, <1>6, <1>8
  <2> QED
    BY <2>1, <2>2, <1>1, <1>2, <1>10, <1>15 DEF MakeActive
<1>17. front \in Seq(Tasks) /\ Len(front) = k /\ \A i \in 1..k : front[i] = a[i]
  BY <1>1, <1>3, <1>4, <1>15
<1>18. PICK b : b = front \o <<x>>
  OBVIOUS
<1>19. <<x>> \in Seq(Tasks) /\ Len(<<x>>) = 1 /\ <<x>>[1] = x
  BY <1>9
<1>20. /\ b \in Seq(Tasks) /\ Len(b) = k + 1 /\ b[k + 1] = x
       /\ \A i \in 1..k : b[i] = a[i]
  BY <1>3, <1>4, <1>17, <1>18, <1>19, ConcatProperties
<1>21. /\ m \in Seq(Tasks) /\ Len(m) = n + 1 /\ m[k + 1] = x
       /\ \A i \in 1..k : m[i] = a[i]
       /\ \A i \in 1..(n - k) : m[(k + 1) + i] = next[i]
  <2>1. m = b \o next
    BY <1>16, <1>18
  <2>2. Len(b) = k + 1 /\ Len(next) = n - k /\ (k + 1) + (n - k) = n + 1
    BY <1>3, <1>4, <1>14, <1>20
  <2>3. m \in Seq(Tasks) /\ Len(m) = Len(b) + Len(next)
        /\ (\A i \in 1..Len(b) : m[i] = b[i])
        /\ (\A i \in 1..Len(next) : m[Len(b) + i] = next[i])
    <3>1. PICK lb, ln : lb = Len(b) /\ ln = Len(next)
      OBVIOUS
    <3>2. /\ m \in Seq(Tasks) /\ Len(m) = lb + ln
          /\ \A i \in 1..(lb + ln) : m[i] = IF i <= lb THEN b[i] ELSE next[i - lb]
      <4>1. b \in Seq(Tasks) /\ next \in Seq(Tasks)
        BY <1>14, <1>20
      <4> QED
        BY <4>1, <3>1, <2>1, ConcatProperties
    <3>3. /\ \A i \in 1..lb : i \in 1..(lb + ln) /\ i <= lb
          /\ \A i \in 1..ln : lb + i \in 1..(lb + ln) /\ ~ (lb + i <= lb) /\ (lb + i) - lb = i
      BY <3>1, <1>14, <1>20
    <3> QED
      BY <3>1, <3>2, <3>3
  <2>4. \A i \in 1..k : i \in 1..(k + 1)
    BY <1>3
  <2>5. k + 1 \in 1..(k + 1)
    BY <1>3
  <2> QED
    BY <2>2, <2>3, <2>4, <2>5, <1>20
<1>22. PICK v, w, u : v = Ops(a) /\ w = Ops(m) /\ u = OpsUpTo(m)
  OBVIOUS
<1>23. /\ v \in Seq(Nat) /\ w \in Seq(Nat) /\ sum = Sums(v) /\ u = Sums(w)
       /\ Len(v) = n /\ Len(w) = n + 1
       /\ (\A i \in 1..n : v[i] = a[i].theResidualOps)
       /\ (\A i \in 1..(n + 1) : w[i] = m[i].theResidualOps)
  BY <1>1, <1>21, <1>22, ListValues
<1>24. \A i \in 1..k : w[i] = v[i]
  <2> TAKE i \in 1..k
  <2>1. i \in 1..n /\ i \in 1..(n + 1)
    BY <1>3, <1>4
  <2> QED
    BY <2>1, <1>21, <1>23
<1>25. \A i \in 0..k : u[i] = sum[i]
  <2>1. k \in Nat /\ k <= Len(v) /\ k <= Len(w)
    BY <1>3, <1>4, <1>23
  <2>2. \A i \in 0..k : Sums(w)[i] = Sums(v)[i]
    BY <2>1, <1>23, <1>24, SumsAgree
  <2> QED
    BY <2>2, <1>23
<1>26. k + 1 \in 1..(n + 1) /\ (k + 1) - 1 = k /\ k \in 0..k
  BY <1>3, <1>4
<1>27. /\ u \in [0..(n + 1) -> Nat]
       /\ \A i \in 1..(n + 1) : u[i] = u[i - 1] + w[i]
  BY <1>23, SumsOK DEF IsSums
<1>28. u[k + 1] = ops
  <2>1. u[k + 1] = u[k] + w[k + 1] /\ u[k] = sum[k] /\ w[k + 1] = diff
    BY <1>9, <1>21, <1>23, <1>25, <1>26, <1>27
  <2> QED
    BY <2>1, <1>7
<1>29. k < n => u[k + 2] = sum[k + 1] /\ \A i \in (k + 2)..n : w[i + 1] = v[i]
  <2> SUFFICES ASSUME k < n
               PROVE  u[k + 2] = sum[k + 1] /\ \A i \in (k + 2)..n : w[i + 1] = v[i]
    OBVIOUS
  <2>1. /\ k + 2 \in 1..(n + 1) /\ (k + 2) - 1 = k + 1 /\ 1 \in 1..(n - k)
        /\ (k + 1) + 1 = k + 2
    BY <1>3, <1>4
  <2>2. w[k + 2] = a[k + 1].theResidualOps - diff
    BY <2>1, <1>14, <1>21, <1>23
  <2>3. u[k + 2] = ops + (a[k + 1].theResidualOps - diff)
    BY <2>1, <2>2, <1>27, <1>28
  <2>4. u[k + 2] = sum[k + 1]
    BY <2>3, <1>7, <1>13
  <2>5. \A i \in (k + 2)..n : w[i + 1] = v[i]
    <3> TAKE i \in (k + 2)..n
    <3>1. /\ i - k \in 2..(n - k) /\ i - k \in 1..(n - k) /\ (k + 1) + (i - k) = i + 1
          /\ k + (i - k) = i /\ i + 1 \in 1..(n + 1) /\ i \in 1..n
      BY <1>3, <1>4
    <3>2. m[i + 1] = a[i]
      BY <3>1, <1>14, <1>21
    <3> QED
      BY <3>1, <3>2, <1>23
  <2> QED
    BY <2>4, <2>5
<1>30. \A i \in (k + 1)..n : u[i + 1] = sum[i]
  <2>1. CASE k = n
    BY <2>1, <1>4
  <2>2. CASE k < n
    <3>1. k + 1 \in 0..n /\ (k + 1) + 1 = k + 2 /\ k + 2 \in Nat /\ n + 1 \in Nat
      BY <2>2, <1>3, <1>4
    <3>2. Follows(v, w, k + 1, 1)
      BY <2>2, <3>1, <1>23, <1>29 DEF Follows
    <3>3. \A i \in (k + 1)..n : u[i + 1] = sum[i] + (u[(k + 1) + 1] - sum[k + 1])
      <4>1. DifferAsAt(v, w, k + 1, 1)
        BY <3>2, <1>23, SumsFollow
      <4> QED
        BY <4>1, <1>23 DEF DifferAsAt
    <3>4. sum[k + 1] \in Nat /\ u[(k + 1) + 1] = sum[k + 1]
      BY <3>1, <2>2, <1>5, <1>29
    <3> QED
      <4> TAKE i \in (k + 1)..n
      <4>1. sum[i] \in Nat
        BY <1>3, <1>4, <1>5
      <4> QED
        BY <3>3, <3>4, <4>1
  <2> QED
    BY <2>1, <2>2, <1>3, <1>4
<1>31. \A i \in (k + 1)..n : m[i + 1].theId = a[i].theId /\ m[i + 1].theMemory = a[i].theMemory
  <2> TAKE i \in (k + 1)..n
  <2>1. /\ i - k \in 1..(n - k) /\ (k + 1) + (i - k) = i + 1 /\ k + (i - k) = i
        /\ (i - k = 1 => i = k + 1 /\ k < n) /\ (i - k # 1 => i - k \in 2..(n - k))
    BY <1>3, <1>4
  <2>2. m[i + 1] = next[i - k]
    BY <2>1, <1>21
  <2> QED
    BY <2>1, <2>2, <1>14
<1>32. \A i \in 1..k : i \in 0..k
  BY <1>3
<1> QED
  <2>1. InsertedAt(a, t, m, k)
    BY <1>1, <1>3, <1>9, <1>21, <1>22, <1>25, <1>28, <1>30, <1>31, <1>32 DEF InsertedAt
  <2> QED
    BY <2>1, <1>1, <1>3, <1>15

-----------------------------------------------------------------------------
(***************************************************************************)
(* The inductive invariant, in parts that say only what they depend on.    *)
(***************************************************************************)

\* Up to each task of the active list a, as many operations are left as l says.
Exact(a, l) == \A k \in 1..Len(a) : OpsUpTo(a)[k] = l[a[k].theId]

\* The lists of one container: a is active, q is pending.
ContainerOK(a, q, l) ==
  /\ a \in Seq(Tasks) /\ q \in Seq(Tasks)
  /\ Distinct(a) /\ Distinct(q) /\ Ids(a) \cap Ids(q) = {}
  /\ Exact(a, l)
  /\ \A k \in 1..Len(q) : l[q[k].theId] = q[k].theResidualOps

\* Where the tasks are: held[c] are those of container c.
IdsOK(held, next, back, out) ==
  /\ back \subseteq 0..(next - 1) /\ out \subseteq 0..(next - 1) /\ back \cap out = {}
  /\ held \in [Containers -> SUBSET ((0..(next - 1)) \ (back \cup out))]
  /\ \A c, d \in Containers : c # d => held[c] \cap held[d] = {}
  /\ \A i \in 0..(next - 1) : i \in back \cup out \/ \E c \in Containers : i \in held[c]

HeldBy(active, pending) == [c \in Containers |-> Ids(active[c]) \cup Ids(pending[c])]

\* The operations left of the tasks that were not refused.
LeftOK(l, next, back, out) ==
  /\ l \in [(0..(next - 1)) \ out -> Nat]
  /\ \A i \in back : l[i] = 0

\* The total over the containers that h places on processor p.
TotalIn(h, p, values) == Total([c \in Containers |-> IF h[c] = p THEN values[c] ELSE 0])

Lengths(lists) == [c \in Containers |-> Len(lists[c])]
Memories(lists) == [c \in Containers |-> SumMemory(lists[c])]

CountersOK(h, active, pending, used, running, next) ==
  /\ used \in [Processors -> 0..MemTotal] /\ running \in [Processors -> Nat]
  /\ \A p \in Processors :
       /\ used[p] = TotalIn(h, p, Memories(active))
       /\ running[p] = TotalIn(h, p, Lengths(active))
       /\ running[p] + TotalIn(h, p, Lengths(pending)) <= next

ListsOK(h, active, pending, used, running, next, back, out, l) ==
  /\ h \in [Containers -> Processors]
  /\ active \in [Containers -> Seq(Tasks)] /\ pending \in [Containers -> Seq(Tasks)]
  /\ next \in 0..MaxTasks
  /\ \A c \in Containers : ContainerOK(active[c], pending[c], l)
  /\ IdsOK(HeldBy(active, pending), next, back, out)
  /\ LeftOK(l, next, back, out)
  /\ CountersOK(h, active, pending, used, running, next)

IInv ==
  /\ ListsOK(host, theActive, thePending, theMemUsed, theRunning, theNextId, called, refused, left)
  /\ theChrono \in BOOLEAN /\ theNewTask \in BOOLEAN /\ cursor \in 0..NumContainers

-----------------------------------------------------------------------------
(***************************************************************************)
(* What MakeActive, Tail and Advance do to a list.                         *)
(***************************************************************************)

\* m is a with t.
With(a, t, m) ==
  /\ m \in Seq(Tasks) /\ Len(m) = Len(a) + 1
  /\ Ids(m) = Ids(a) \cup {t.theId}
  /\ SumMemory(m) = SumMemory(a) + t.theMemory
  /\ Distinct(a) /\ t.theId \notin Ids(a) => Distinct(m)

LEMMA MakeActiveWith ==
  ASSUME NEW a \in Seq(Tasks), NEW t \in Tasks
  PROVE  With(a, t, MakeActive(a, t))
<1>1. PICK m : m = MakeActive(a, t)
  OBVIOUS
<1>2. PICK k \in 0..Len(a) : InsertedAt(a, t, m, k)
  BY <1>1, MakeActiveOK
<1>3. PICK n : n = Len(a)
  OBVIOUS
<1>4. /\ n \in Nat /\ k \in 0..n /\ m \in Seq(Tasks) /\ Len(m) = n + 1
      /\ m[k + 1].theId = t.theId /\ m[k + 1].theMemory = t.theMemory
      /\ \A i \in 1..k : m[i].theId = a[i].theId /\ m[i].theMemory = a[i].theMemory
      /\ \A i \in (k + 1)..n : m[i + 1].theId = a[i].theId /\ m[i + 1].theMemory = a[i].theMemory
  <2>1. n \in Nat /\ k \in 0..n
    BY <1>3
  <2> QED
    BY <2>1, <1>2, <1>3, Zenon DEF InsertedAt
<1>5. k + 1 \in 1..(n + 1)
  BY <1>4
<1>6. \A j \in 1..(n + 1) :
        \/ j \in 1..k /\ j \in 1..n
        \/ j = k + 1
        \/ j - 1 \in (k + 1)..n /\ j - 1 \in 1..n /\ (j - 1) + 1 = j
  BY <1>4
<1>7. \A i \in 1..n : \/ i \in 1..k /\ i \in 1..(n + 1)
                      \/ i \in (k + 1)..n /\ i + 1 \in 1..(n + 1)
  BY <1>4
<1>8. Ids(m) = Ids(a) \cup {t.theId}
  <2>1. ASSUME NEW x \in Ids(m)
        PROVE  x \in Ids(a) \cup {t.theId}
    <3>1. PICK j \in 1..(n + 1) : x = m[j].theId
      BY <1>4, <2>1 DEF Ids
    <3>2. CASE j \in 1..k /\ j \in 1..n
      BY <3>1, <3>2, <1>3, <1>4 DEF Ids
    <3>3. CASE j = k + 1
      BY <3>1, <3>3, <1>4
    <3>4. CASE j - 1 \in (k + 1)..n /\ j - 1 \in 1..n /\ (j - 1) + 1 = j
      <4>1. x = a[j - 1].theId
        BY <3>1, <3>4, <1>4
      <4> QED
        BY <4>1, <3>4, <1>3 DEF Ids
    <3> QED
      BY <3>2, <3>3, <3>4, <1>6
  <2>2. ASSUME NEW x \in Ids(a)
        PROVE  x \in Ids(m)
    <3>1. PICK i \in 1..n : x = a[i].theId
      BY <1>3, <2>2 DEF Ids
    <3> QED
      BY <3>1, <1>4, <1>7 DEF Ids
  <2>3. t.theId \in Ids(m)
    BY <1>4, <1>5 DEF Ids
  <2> QED
    BY <2>1, <2>2, <2>3
<1>9. SumMemory(m) = SumMemory(a) + t.theMemory
  <2>1. PICK v, w : v = Memory(a) /\ w = Memory(m)
    OBVIOUS
  <2>2. /\ v \in Seq(Nat) /\ Len(v) = n /\ \A i \in 1..n : v[i] = a[i].theMemory
        /\ w \in Seq(Nat) /\ Len(w) = n + 1 /\ \A i \in 1..(n + 1) : w[i] = m[i].theMemory
        /\ SumMemory(a) = Total(v) /\ SumMemory(m) = Total(w)
    BY <1>3, <1>4, <2>1, ListValues
  <2>3. \A i \in 1..k : w[i] = v[i]
    <3> TAKE i \in 1..k
    <3>1. i \in 1..n /\ i \in 1..(n + 1)
      BY <1>4
    <3> QED
      BY <3>1, <2>2, <1>4
  <2>4. \A i \in (k + 1)..n : w[i + 1] = v[i]
    <3> TAKE i \in (k + 1)..n
    <3>1. i \in 1..n /\ i + 1 \in 1..(n + 1)
      BY <1>4
    <3> QED
      BY <3>1, <2>2, <1>4
  <2>5. Total(w) = Total(v) + w[k + 1]
    BY <2>2, <2>3, <2>4, <1>4, TotalInsert
  <2> QED
    BY <2>2, <2>5, <1>4, <1>5
<1>10. ASSUME Distinct(a), t.theId \notin Ids(a)
       PROVE  Distinct(m)
  <2>1. SUFFICES ASSUME NEW i \in 1..(n + 1), NEW j \in 1..(n + 1), m[i].theId = m[j].theId
                 PROVE  i = j
    BY <1>4 DEF Distinct
  <2>2. \A x \in 1..n : a[x].theId # t.theId
    BY <1>3, <1>10 DEF Ids
  <2>3. \A x, y \in 1..n : a[x].theId = a[y].theId => x = y
    BY <1>3, <1>10 DEF Distinct
  <2>4. \A x \in 1..(n + 1) : \/ x = k + 1
                              \/ x \in 1..k /\ x \in 1..n /\ m[x].theId = a[x].theId
                              \/ /\ x - 1 \in 1..n /\ x - 1 \in (k + 1)..n
                                 /\ m[x].theId = a[x - 1].theId
    <3> TAKE x \in 1..(n + 1)
    <3>1. CASE x - 1 \in (k + 1)..n /\ x - 1 \in 1..n /\ (x - 1) + 1 = x
      BY <3>1, <1>4
    <3> QED
      BY <3>1, <1>4, <1>6
  <2>5. CASE i = k + 1
    BY <2>1, <2>2, <2>4, <2>5, <1>4
  <2>6. CASE j = k + 1
    BY <2>1, <2>2, <2>4, <2>6, <1>4
  <2>7. CASE i # k + 1 /\ j # k + 1
    <3>1. CASE i \in 1..k /\ i \in 1..n /\ m[i].theId = a[i].theId
      BY <3>1, <2>1, <2>3, <2>4, <2>7, <1>4
    <3>2. CASE i - 1 \in 1..n /\ i - 1 \in (k + 1)..n /\ m[i].theId = a[i - 1].theId
      BY <3>2, <2>1, <2>3, <2>4, <2>7, <1>4
    <3> QED
      BY <3>1, <3>2, <2>4, <2>7
  <2> QED
    BY <2>5, <2>6, <2>7
<1> QED
  BY <1>1, <1>3, <1>4, <1>8, <1>9, <1>10 DEF With

LEMMA MakeActiveExact ==
  ASSUME NEW a \in Seq(Tasks), NEW t \in Tasks, NEW l,
         Exact(a, l), l[t.theId] = t.theResidualOps
  PROVE  Exact(MakeActive(a, t), l)
<1>1. PICK m : m = MakeActive(a, t)
  OBVIOUS
<1>2. PICK k \in 0..Len(a) : InsertedAt(a, t, m, k)
  BY <1>1, MakeActiveOK
<1>3. PICK n, s, u : n = Len(a) /\ s = OpsUpTo(a) /\ u = OpsUpTo(m)
  OBVIOUS
<1>4. /\ n \in Nat /\ k \in 0..n /\ Len(m) = n + 1
      /\ m[k + 1].theId = t.theId /\ u[k + 1] = t.theResidualOps
      /\ \A i \in 1..k : m[i].theId = a[i].theId /\ u[i] = s[i]
      /\ \A i \in (k + 1)..n : m[i + 1].theId = a[i].theId /\ u[i + 1] = s[i]
  BY <1>2, <1>3 DEF InsertedAt
<1>5. \A i \in 1..n : s[i] = l[a[i].theId]
  BY <1>3 DEF Exact
<1>6. SUFFICES ASSUME NEW j \in 1..(n + 1) PROVE u[j] = l[m[j].theId]
  BY <1>1, <1>3, <1>4 DEF Exact
<1>7. CASE j \in 1..k
  <2>1. j \in 1..n
    BY <1>4, <1>7
  <2> QED
    BY <2>1, <1>4, <1>5, <1>7
<1>8. CASE j = k + 1
  BY <1>4, <1>8
<1>9. CASE j - 1 \in (k + 1)..n
  <2>1. PICK i : i = j - 1
    OBVIOUS
  <2>2. i \in (k + 1)..n /\ i \in 1..n /\ i + 1 = j
    BY <2>1, <1>4, <1>9
  <2>3. m[i + 1].theId = a[i].theId /\ u[i + 1] = s[i] /\ s[i] = l[a[i].theId]
    BY <2>2, <1>4, <1>5
  <2> QED
    BY <2>2, <2>3
<1>10. j \in 1..k \/ j = k + 1 \/ j - 1 \in (k + 1)..n
  BY <1>4
<1> QED
  BY <1>7, <1>8, <1>9, <1>10

\* A list without its first task, which has nothing left to run.
LEMMA TailOK ==
  ASSUME NEW a \in Seq(Tasks), a # <<>>, NEW l, Exact(a, l), Distinct(a)
  PROVE  /\ Head(a) \in Tasks /\ Tail(a) \in Seq(Tasks) /\ Len(a) = Len(Tail(a)) + 1
         /\ Ids(a) = Ids(Tail(a)) \cup {Head(a).theId} /\ Head(a).theId \notin Ids(Tail(a))
         /\ Distinct(Tail(a))
         /\ SumMemory(a) = SumMemory(Tail(a)) + Head(a).theMemory
         /\ a[1].theResidualOps = 0 => Exact(Tail(a), l) /\ l[Head(a).theId] = 0
<1>1. PICK m, n, t : m = Tail(a) /\ n = Len(m) /\ t = Head(a)
  OBVIOUS
<1>2. /\ t \in Tasks /\ m \in Seq(Tasks) /\ Len(a) = n + 1 /\ n \in Nat /\ t = a[1]
      /\ \A i \in 1..n : m[i] = a[i + 1]
  BY <1>1
<1>3. \A i \in 1..n : i + 1 \in 1..(n + 1) /\ i + 1 # 1
  BY <1>2
<1>4. \A i \in 1..(n + 1) : i = 1 \/ (i - 1 \in 1..n /\ (i - 1) + 1 = i)
  BY <1>2
<1>5. 1 \in 1..(n + 1)
  BY <1>2
<1>6. Ids(a) = Ids(m) \cup {t.theId}
  <2>1. ASSUME NEW x \in Ids(a)
        PROVE  x \in Ids(m) \cup {t.theId}
    <3>1. PICK i \in 1..(n + 1) : x = a[i].theId
      BY <1>2, <2>1 DEF Ids
    <3>2. CASE i = 1
      BY <3>1, <3>2, <1>2
    <3>3. CASE i - 1 \in 1..n /\ (i - 1) + 1 = i
      <4>1. x = m[i - 1].theId
        BY <3>1, <3>3, <1>2
      <4> QED
        BY <4>1, <3>3, <1>1 DEF Ids
    <3> QED
      BY <3>2, <3>3, <1>4
  <2>2. ASSUME NEW x \in Ids(m)
        PROVE  x \in Ids(a)
    <3>1. PICK i \in 1..n : x = m[i].theId
      BY <1>1, <2>2 DEF Ids
    <3> QED
      BY <3>1, <1>2, <1>3 DEF Ids
  <2>3. t.theId \in Ids(a)
    BY <1>2, <1>5 DEF Ids
  <2> QED
    BY <2>1, <2>2, <2>3
<1>7. \A x, y \in 1..(n + 1) : a[x].theId = a[y].theId => x = y
  BY <1>2 DEF Distinct
<1>8. t.theId \notin Ids(m)
  <2>1. SUFFICES ASSUME NEW i \in 1..n, t.theId = m[i].theId PROVE FALSE
    BY <1>1 DEF Ids
  <2> QED
    BY <2>1, <1>2, <1>3, <1>5, <1>7
<1>9. Distinct(m)
  <2>1. SUFFICES ASSUME NEW i \in 1..n, NEW j \in 1..n, m[i].theId = m[j].theId PROVE i = j
    BY <1>1 DEF Distinct
  <2>2. i + 1 = j + 1
    BY <2>1, <1>2, <1>3, <1>7
  <2> QED
    BY <2>2, <1>2
<1>10. SumMemory(a) = SumMemory(m) + t.theMemory
  <2>1. PICK v, w : v = Memory(a) /\ w = Memory(m)
    OBVIOUS
  <2>2. /\ v \in Seq(Nat) /\ Len(v) = n + 1 /\ \A i \in 1..(n + 1) : v[i] = a[i].theMemory
        /\ w \in Seq(Nat) /\ Len(w) = n /\ \A i \in 1..n : w[i] = m[i].theMemory
        /\ SumMemory(a) = Total(v) /\ SumMemory(m) = Total(w)
    BY <1>1, <1>2, <2>1, ListValues
  <2>3. \A i \in 1..Len(w) : w[i] = v[i + 1]
    BY <2>2, <1>2, <1>3
  <2>4. Len(v) # 0 /\ Len(w) = Len(v) - 1
    BY <2>2, <1>2
  <2>5. Total(v) = Total(w) + v[1]
    BY <2>2, <2>3, <2>4, TotalTail
  <2> QED
    BY <2>2, <2>5, <1>2, <1>5
<1>11. ASSUME a[1].theResidualOps = 0
       PROVE  Exact(m, l) /\ l[t.theId] = 0
  <2>1. PICK v, w, s, u : v = Ops(a) /\ w = Ops(m) /\ s = OpsUpTo(a) /\ u = OpsUpTo(m)
    OBVIOUS
  <2>2. /\ v \in Seq(Nat) /\ Len(v) = n + 1 /\ \A i \in 1..(n + 1) : v[i] = a[i].theResidualOps
        /\ w \in Seq(Nat) /\ Len(w) = n /\ \A i \in 1..n : w[i] = m[i].theResidualOps
        /\ s = Sums(v) /\ u = Sums(w)
    BY <1>1, <1>2, <2>1, ListValues
  <2>3. \A i \in 1..Len(w) : w[i] = v[i + 1]
    BY <2>2, <1>2, <1>3
  <2>4. Len(v) # 0 /\ Len(w) = Len(v) - 1
    BY <2>2, <1>2
  <2>5. \A i \in 0..n : s[i + 1] = u[i] + v[1]
    BY <2>2, <2>3, <2>4, TotalTail
  <2>6. u \in [0..n -> Nat] /\ u[0] = 0 /\ v[1] = 0
    BY <2>2, <1>5, <1>11, SumsOK DEF IsSums
  <2>7. \A i \in 0..n : s[i + 1] = u[i]
    BY <2>5, <2>6
  <2>8. \A i \in 1..(n + 1) : s[i] = l[a[i].theId]
    BY <1>2, <2>1 DEF Exact
  <2>9. l[t.theId] = 0
    <3>1. 0 \in 0..n /\ 0 + 1 = 1
      BY <1>2
    <3>2. s[1] = 0
      BY <3>1, <2>6, <2>7
    <3> QED
      BY <3>2, <2>8, <1>2, <1>5
  <2>10. \A i \in 1..n : u[i] = l[m[i].theId]
    <3> TAKE i \in 1..n
    <3>1. i \in 0..n /\ i + 1 \in 1..(n + 1)
      BY <1>2
    <3> QED
      BY <3>1, <2>7, <2>8, <1>2
  <2> QED
    BY <2>1, <2>9, <2>10, <1>1 DEF Exact
<1> QED
  BY <1>1, <1>2, <1>6, <1>8, <1>9, <1>10, <1>11

\* Time goes by: the first difference shrinks by what is done.
LEMMA AdvanceOK ==
  ASSUME NEW a \in Seq(Tasks), NEW ops \in Nat, NEW m, m = Advance(a, ops), NEW d, d = Done(a, ops)
  PROVE  /\ m \in Seq(Tasks) /\ Len(m) = Len(a) /\ d \in Nat
         /\ \A k \in 1..Len(a) : m[k].theId = a[k].theId /\ m[k].theMemory = a[k].theMemory
         /\ \A k \in 1..Len(a) : /\ OpsUpTo(a)[k] \in Nat /\ d <= OpsUpTo(a)[k]
                                 /\ OpsUpTo(m)[k] = OpsUpTo(a)[k] - d
<1>1. PICK n : n = Len(a)
  OBVIOUS
<1>2. n \in Nat /\ \A k \in 1..n : a[k] \in Tasks
  BY <1>1
<1>3. CASE a = <<>>
  <2>1. m = a /\ d = 0 /\ n = 0
    BY <1>1, <1>3 DEF Advance, Done
  <2> QED
    BY <2>1, <1>1
<1>4. CASE a # <<>>
  <2>1. n \in Nat \ {0} /\ 1 \in 1..n /\ a[1] \in Tasks
    BY <1>1, <1>2, <1>4
  <2>2. PICK r : r = a[1].theResidualOps
    OBVIOUS
  <2>3. r \in Nat
    BY <2>1, <2>2, TaskType
  <2>4. d = IF ops < r THEN ops ELSE r
    BY <1>4, <2>2 DEF Done
  <2>5. d \in Nat /\ d <= r /\ r - d \in Nat
    BY <2>3, <2>4
  <2>6. PICK y : y = [a[1] EXCEPT !.theResidualOps = a[1].theResidualOps - d]
    OBVIOUS
  <2>7. m = [a EXCEPT ![1] = y]
    BY <1>4, <2>6 DEF Advance
  <2>8. y \in Tasks /\ y.theId = a[1].theId /\ y.theMemory = a[1].theMemory /\ y.theResidualOps = r - d
    BY <2>1, <2>2, <2>5, <2>6 DEF Tasks
  <2>9. m \in Seq(Tasks) /\ Len(m) = n /\ m[1] = y /\ \A k \in 1..n : k # 1 => m[k] = a[k]
    BY <2>1, <2>7, <2>8, <1>1
  <2>10. \A k \in 1..n : m[k].theId = a[k].theId /\ m[k].theMemory = a[k].theMemory
    BY <2>8, <2>9
  <2>11. PICK v, w, s, u : v = Ops(a) /\ w = Ops(m) /\ s = OpsUpTo(a) /\ u = OpsUpTo(m)
    OBVIOUS
  <2>12. /\ v \in Seq(Nat) /\ Len(v) = n /\ (\A k \in 1..n : v[k] = a[k].theResidualOps)
         /\ w \in Seq(Nat) /\ Len(w) = n /\ (\A k \in 1..n : w[k] = m[k].theResidualOps)
         /\ s = Sums(v) /\ u = Sums(w)
    BY <1>1, <2>9, <2>11, ListValues
  <2>13. /\ s \in [0..n -> Nat] /\ u \in [0..n -> Nat] /\ s[1] = s[1 - 1] + v[1] /\ u[1] = u[1 - 1] + w[1]
         /\ s[0] = 0 /\ u[0] = 0
    BY <2>1, <2>12, SumsOK DEF IsSums
  <2>14. s[1] = r /\ u[1] = r - d
    <3>1. v[1] = r /\ w[1] = r - d
      BY <2>1, <2>2, <2>8, <2>9, <2>12
    <3> QED
      BY <3>1, <2>3, <2>5, <2>13
  <2>15. Follows(v, w, 1, 0)
    <3>1. /\ 1 \in 0..Len(v) /\ 0 \in Int /\ 1 + 0 \in Nat /\ Len(w) = Len(v) + 0
      BY <2>1, <2>12
    <3>2. ASSUME NEW i \in (1 + 1)..Len(v)
          PROVE  w[i + 0] = v[i]
      <4>1. i \in 1..n /\ i # 1 /\ i + 0 = i
        BY <2>1, <2>12
      <4> QED
        BY <4>1, <2>9, <2>12
    <3> QED
      BY <3>1, <3>2 DEF Follows
  <2>16. \A i \in 1..n : u[i + 0] = s[i] + (u[1 + 0] - s[1])
    <3>1. \A i \in 1..Len(v) : Sums(w)[i + 0] = Sums(v)[i] + (Sums(w)[1 + 0] - Sums(v)[1])
      <4>1. DifferAsAt(v, w, 1, 0)
        BY <2>12, <2>15, SumsFollow
      <4> QED
        BY <4>1 DEF DifferAsAt
    <3> QED
      BY <3>1, <2>12
  <2>17. \A k \in 1..n : s[k] \in Nat /\ d <= s[k] /\ u[k] = s[k] - d
    <3> TAKE k \in 1..n
    <3>1. k \in 0..n /\ k + 0 = k /\ 1 + 0 = 1 /\ k \in 0..Len(v) /\ 1 \in 0..k
      BY <2>1, <2>12
    <3>2. s[k] \in Nat /\ u[k] = s[k] + (u[1] - s[1])
      BY <3>1, <2>13, <2>16
    <3>3. s[1] <= s[k]
      BY <3>1, <2>12, SumsGrow
    <3>4. PICK z : z = s[k]
      OBVIOUS
    <3>5. z \in Nat /\ u[k] = z + ((r - d) - r) /\ r <= z
      BY <3>2, <3>3, <3>4, <2>14
    <3>6. d <= z /\ z + ((r - d) - r) = z - d
      <4>1. d \in Nat /\ r \in Nat /\ z \in Nat /\ d <= r /\ r <= z
        BY <3>5, <2>3, <2>5
      <4> QED
        BY <4>1
    <3> QED
      BY <3>4, <3>5, <3>6
  <2> QED
    BY <2>5, <2>9, <2>10, <2>11, <2>17, <1>1
<1> QED
  BY <1>3, <1>4

\* The same tasks, with other numbers of operations.
LEMMA SameTasks ==
  ASSUME NEW a \in Seq(Tasks), NEW m \in Seq(Tasks), Len(m) = Len(a),
         \A k \in 1..Len(a) : m[k].theId = a[k].theId /\ m[k].theMemory = a[k].theMemory
  PROVE  Ids(m) = Ids(a) /\ SumMemory(m) = SumMemory(a) /\ (Distinct(a) => Distinct(m))
<1>1. Ids(m) = Ids(a)
  BY DEF Ids
<1>2. Distinct(a) => Distinct(m)
  BY DEF Distinct
<1>3. Memory(m) = Memory(a)
  BY DEF Memory
<1> QED
  BY <1>1, <1>2, <1>3, ListValues

-----------------------------------------------------------------------------
(***************************************************************************)
(* Totals over the containers of a processor, and operations in a time.    *)
(***************************************************************************)
LEMMA TotalAtLeast ==
  ASSUME NEW v \in Seq(Nat)
  PROVE  Total(v) \in Nat /\ \A i \in 1..Len(v) : v[i] <= Total(v)
<1>1. PICK s, n : s = Sums(v) /\ n = Len(v)
  OBVIOUS
<1>2. n \in Nat /\ s \in [0..n -> Nat] /\ \A i \in 1..n : s[i] = s[i - 1] + v[i]
  BY <1>1, SumsOK DEF IsSums
<1>3. Total(v) = s[n] /\ s[n] \in Nat
  BY <1>1, <1>2 DEF Total
<1>4. ASSUME NEW i \in 1..n
      PROVE  v[i] <= Total(v)
  <2>1. n \in 0..Len(v) /\ i \in 0..n /\ i - 1 \in 0..n
    BY <1>1, <1>2
  <2>2. s[i] <= s[n]
    BY <2>1, <1>1, SumsGrow
  <2>3. v[i] \in Nat
    BY <1>1, <1>4
  <2>4. s[i - 1] \in Nat /\ s[i] = s[i - 1] + v[i]
    BY <2>1, <1>2
  <2>5. PICK x, y, z : x = s[i - 1] /\ y = v[i] /\ z = s[n]
    OBVIOUS
  <2>6. x \in Nat /\ y \in Nat /\ z \in Nat /\ x + y <= z
    BY <2>2, <2>3, <2>4, <2>5, <1>3
  <2>7. y <= z
    BY <2>6
  <2> QED
    BY <2>5, <2>7, <1>3
<1> QED
  BY <1>1, <1>3, <1>4

InProcessor(h, p, x) == [c \in Containers |-> IF h[c] = p THEN x[c] ELSE 0]

LEMMA InProcessorIs ==
  ASSUME NEW h, NEW p, NEW x \in [Containers -> Nat]
  PROVE  /\ InProcessor(h, p, x) \in Seq(Nat) /\ Len(InProcessor(h, p, x)) = NumContainers
         /\ \A c \in Containers : InProcessor(h, p, x)[c] = IF h[c] = p THEN x[c] ELSE 0
         /\ TotalIn(h, p, x) = Total(InProcessor(h, p, x))
<1>1. NumContainers \in Nat /\ Containers = 1..NumContainers
  BY ComputerAssumption DEF Containers
<1>2. InProcessor(h, p, x) \in [1..NumContainers -> Nat]
  BY <1>1 DEF InProcessor
<1>3. InProcessor(h, p, x) \in Seq(Nat) /\ Len(InProcessor(h, p, x)) = NumContainers
  BY <1>1, <1>2
<1> QED
  BY <1>3 DEF InProcessor, TotalIn

\* Only the number of container c changes.
OneChanges(x, y, c) ==
  /\ x \in [Containers -> Nat] /\ y \in [Containers -> Nat] /\ c \in Containers
  /\ \A d \in Containers : d # c => y[d] = x[d]

LEMMA TotalInChange ==
  ASSUME NEW h, NEW p, NEW x, NEW y, NEW c, OneChanges(x, y, c)
  PROVE  /\ TotalIn(h, p, x) \in Nat /\ TotalIn(h, p, y) \in Nat
         /\ h[c] # p => TotalIn(h, p, y) = TotalIn(h, p, x)
         /\ h[c] = p => TotalIn(h, p, y) + x[c] = TotalIn(h, p, x) + y[c]
         /\ h[c] = p => x[c] <= TotalIn(h, p, x)
<1> USE DEF OneChanges
<1>1. PICK v, w : v = InProcessor(h, p, x) /\ w = InProcessor(h, p, y)
  OBVIOUS
<1>2. /\ v \in Seq(Nat) /\ Len(v) = NumContainers /\ TotalIn(h, p, x) = Total(v)
      /\ w \in Seq(Nat) /\ Len(w) = NumContainers /\ TotalIn(h, p, y) = Total(w)
      /\ \A d \in Containers : v[d] = IF h[d] = p THEN x[d] ELSE 0
      /\ \A d \in Containers : w[d] = IF h[d] = p THEN y[d] ELSE 0
  BY <1>1, InProcessorIs
<1>3. Containers = 1..Len(v) /\ Len(w) = Len(v) /\ c \in 1..Len(v)
  BY <1>2 DEF Containers
<1>4. \A d \in 1..Len(v) : d # c => w[d] = v[d]
  BY <1>2, <1>3
<1>5. Total(w) + v[c] = Total(v) + w[c]
  BY <1>2, <1>3, <1>4, TotalChange
<1>6. Total(v) \in Nat /\ Total(w) \in Nat /\ v[c] <= Total(v)
  BY <1>2, <1>3, TotalAtLeast
<1>7. CASE h[c] = p
  BY <1>7, <1>2, <1>5, <1>6
<1>8. CASE h[c] # p
  <2>1. v[c] = 0 /\ w[c] = 0
    BY <1>8, <1>2
  <2> QED
    BY <2>1, <1>8, <1>2, <1>5, <1>6
<1> QED
  BY <1>7, <1>8

LEMMA TotalInAtLeast ==
  ASSUME NEW h, NEW p, NEW x \in [Containers -> Nat], NEW c \in Containers
  PROVE  TotalIn(h, p, x) \in Nat /\ (h[c] = p => x[c] <= TotalIn(h, p, x))
<1>1. OneChanges(x, x, c)
  BY DEF OneChanges
<1> QED
  BY <1>1, TotalInChange

\* TotalOf of Computer depends on its variable host only.
LEMMA TotalOfHost ==
  ASSUME NEW p, NEW x
  PROVE  TotalOf(p, x) = TotalIn(host, p, x)
<1>1. [c \in Containers |-> IF c \in HostedBy(p) THEN x[c] ELSE 0] = [c \in Containers |-> IF host[c] = p THEN x[c] ELSE 0]
  BY DEF HostedBy
<1> QED
  BY <1>1 DEF TotalOf, TotalIn

LEMMA LeastOfTwo ==
  ASSUME NEW x \in Nat, NEW y \in Nat
  PROVE  Min({x, y}) \in Nat
<1>1. \E z \in {x, y} : \A u \in {x, y} : z <= u
  <2>1. x <= y \/ y <= x
    OBVIOUS
  <2> QED
    BY <2>1
<1>2. Min({x, y}) \in {x, y}
  BY <1>1 DEF Min
<1> QED
  BY <1>2

LEMMA Quotient ==
  ASSUME NEW x \in Nat, NEW y \in Nat \ {0}
  PROVE  x \div y \in Nat
  OBVIOUS

LEMMA TimeToOpsNat ==
  ASSUME NEW p, theRunning[p] \in Nat, NEW time \in Nat
  PROVE  TimeToOps(p, time) \in Nat
<1>1. PICK r, m : r = theRunning[p] /\ m = Min({Cores, r})
  OBVIOUS
<1>2. r \in Nat /\ m \in Nat
  BY <1>1, ComputerAssumption, LeastOfTwo
<1>3. PICK x, y : x = 2 * time * m + r /\ y = 2 * r
  OBVIOUS
<1>4. 2 * time * m \in Nat
  BY <1>2
<1>5. x \in Nat /\ y \in Nat /\ (r # 0 => y # 0)
  BY <1>2, <1>3, <1>4
<1>6. r # 0 => x \div y \in Nat
  BY <1>5, Quotient
<1>7. TimeToOps(p, time) = IF r = 0 THEN 0 ELSE x \div y
  BY <1>1, <1>3 DEF TimeToOps
<1> QED
  BY <1>6, <1>7

-----------------------------------------------------------------------------
(***************************************************************************)
(* Consequences of the invariant.                                          *)
(***************************************************************************)
LEMMA LengthsBound ==
  ASSUME NEW h, NEW active, NEW pending, NEW used, NEW running, NEW next, NEW back, NEW out, NEW l,
         ListsOK(h, active, pending, used, running, next, back, out, l), NEW c \in Containers
  PROVE  /\ Len(active[c]) \in Nat /\ Len(active[c]) <= next /\ Len(active[c]) <= MaxTasks
         /\ Len(pending[c]) \in Nat /\ Len(pending[c]) <= next /\ Len(pending[c]) <= MaxTasks
<1>1. /\ h[c] \in Processors /\ next \in Nat /\ next <= MaxTasks /\ MaxTasks \in Nat
      /\ active \in [Containers -> Seq(Tasks)] /\ pending \in [Containers -> Seq(Tasks)]
  BY ComputerAssumption DEF ListsOK
<1>2. PICK x, y, p : x = Lengths(active) /\ y = Lengths(pending) /\ p = h[c]
  OBVIOUS
<1>3. /\ x \in [Containers -> Nat] /\ y \in [Containers -> Nat]
      /\ x[c] = Len(active[c]) /\ y[c] = Len(pending[c])
  BY <1>1, <1>2 DEF Lengths
<1>4. /\ running[p] = TotalIn(h, p, x) /\ running[p] + TotalIn(h, p, y) <= next
  BY <1>1, <1>2 DEF ListsOK, CountersOK
<1>5. /\ TotalIn(h, p, x) \in Nat /\ x[c] <= TotalIn(h, p, x)
  BY <1>2, <1>3, TotalInAtLeast
<1>6. /\ TotalIn(h, p, y) \in Nat /\ y[c] <= TotalIn(h, p, y)
  BY <1>2, <1>3, TotalInAtLeast
<1> QED
  BY <1>1, <1>3, <1>4, <1>5, <1>6

\* Where task i is, in one place at most.
LEMMA OnePlace ==
  ASSUME NEW h, NEW active, NEW pending, NEW used, NEW running, NEW next, NEW back, NEW out, NEW l,
         ListsOK(h, active, pending, used, running, next, back, out, l), NEW c \in Containers, NEW i
  PROVE  /\ i \in Ids(active[c]) => /\ i \in 0..(next - 1) /\ i \notin back /\ i \notin out
                                    /\ \A d \in Containers : i \notin Ids(pending[d])
                                    /\ \A d \in Containers : i \in Ids(active[d]) => d = c
         /\ i \in Ids(pending[c]) => /\ i \in 0..(next - 1) /\ i \notin back /\ i \notin out
                                     /\ \A d \in Containers : i \notin Ids(active[d])
                                     /\ \A d \in Containers : i \in Ids(pending[d]) => d = c
<1>1. PICK held : held = HeldBy(active, pending)
  OBVIOUS
<1>2. \A d \in Containers : held[d] = Ids(active[d]) \cup Ids(pending[d])
  BY <1>1 DEF HeldBy
<1>3. IdsOK(held, next, back, out)
  BY <1>1 DEF ListsOK
<1>4. \A d \in Containers : held[d] \subseteq (0..(next - 1)) \ (back \cup out)
  BY <1>3 DEF IdsOK
<1>5. \A d, e \in Containers : d # e => held[d] \cap held[e] = {}
  BY <1>3 DEF IdsOK
<1>6. \A d \in Containers : Ids(active[d]) \cap Ids(pending[d]) = {}
  BY DEF ListsOK, ContainerOK
<1> QED
  BY <1>2, <1>4, <1>5, <1>6

\* What the time elapsed does to container c, and to the operations left.
LEMMA ElapsedOK ==
  ASSUME IInv, theChrono, NEW time \in Nat,
         NEW c \in Containers, NEW d, d = Done(theActive[c], TimeToOps(host[c], time))
  PROVE  /\ Paused(time)[c] \in Seq(Tasks) /\ Len(Paused(time)[c]) = Len(theActive[c]) /\ d \in Nat
         /\ Ids(Paused(time)[c]) = Ids(theActive[c])
         /\ SumMemory(Paused(time)[c]) = SumMemory(theActive[c]) /\ Distinct(Paused(time)[c])
         /\ \A k \in 1..Len(theActive[c]) :
              /\ Paused(time)[c][k].theId = theActive[c][k].theId
              /\ OpsUpTo(Paused(time)[c])[k] = left[theActive[c][k].theId] - d
              /\ left[theActive[c][k].theId] \in Nat /\ d <= left[theActive[c][k].theId]
<1>1. PICK a, m, ops : a = theActive[c] /\ m = Paused(time)[c] /\ ops = TimeToOps(host[c], time)
  OBVIOUS
<1>2. a \in Seq(Tasks) /\ Exact(a, left) /\ Distinct(a)
  BY <1>1 DEF IInv, ListsOK, ContainerOK
<1>3. ops \in Nat
  <2>1. host[c] \in Processors /\ theRunning \in [Processors -> Nat]
    BY DEF IInv, ListsOK, CountersOK
  <2> QED
    BY <2>1, <1>1, TimeToOpsNat
<1>4. m = Advance(a, ops) /\ d = Done(a, ops)
  BY <1>1 DEF Paused
<1>5. /\ m \in Seq(Tasks) /\ Len(m) = Len(a) /\ d \in Nat
      /\ \A k \in 1..Len(a) : m[k].theId = a[k].theId /\ m[k].theMemory = a[k].theMemory
      /\ \A k \in 1..Len(a) : /\ OpsUpTo(a)[k] \in Nat /\ d <= OpsUpTo(a)[k]
                              /\ OpsUpTo(m)[k] = OpsUpTo(a)[k] - d
  BY <1>2, <1>3, <1>4, AdvanceOK
<1>6. Ids(m) = Ids(a) /\ SumMemory(m) = SumMemory(a) /\ Distinct(m)
  BY <1>2, <1>5, SameTasks
<1>7. \A k \in 1..Len(a) : OpsUpTo(a)[k] = left[a[k].theId]
  BY <1>2 DEF Exact
<1> QED
  BY <1>1, <1>5, <1>6, <1>7

\* The operations left of an active task shrink by what its container does.
LEMMA LeftOfActive ==
  ASSUME IInv, theChrono, NEW time \in Nat, NEW c \in Containers, NEW k \in 1..Len(theActive[c]),
         NEW i, i = theActive[c][k].theId
  PROVE  /\ i \in DOMAIN left
         /\ LeftAfter(time)[i] = left[i] - Done(theActive[c], TimeToOps(host[c], time))
<1>1. ListsOK(host, theActive, thePending, theMemUsed, theRunning, theNextId, called, refused, left)
  BY DEF IInv
<1>2. Len(theActive[c]) \in Nat /\ Len(theActive[c]) <= MaxTasks /\ MaxTasks \in Nat
  BY <1>1, LengthsBound, ComputerAssumption
<1>3. k \in 1..MaxTasks /\ k <= Len(theActive[c])
  BY <1>2
<1>4. i \in Ids(theActive[c])
  BY DEF Ids
<1>5. i \in 0..(theNextId - 1) /\ i \notin refused /\ \A d \in Containers : i \in Ids(theActive[d]) => d = c
  BY <1>1, <1>4, OnePlace
<1>6. i \in DOMAIN left
  BY <1>5 DEF IInv, ListsOK, LeftOK
<1>7. PICK e : e = CHOOSE f \in Containers : \E j \in 1..Len(theActive[f]) : theActive[f][j].theId = i
  OBVIOUS
<1>8. e \in Containers /\ \E j \in 1..Len(theActive[e]) : theActive[e][j].theId = i
  BY <1>7
<1>9. e = c
  BY <1>5, <1>8 DEF Ids
<1>10. ~ (~ theChrono \/ ~ \E e2 \in Containers, j \in 1..MaxTasks :
                             j <= Len(theActive[e2]) /\ theActive[e2][j].theId = i)
  BY <1>3
<1>11. LeftAfter(time)[i] = left[i] - Done(theActive[e], TimeToOps(host[e], time))
  BY <1>6, <1>7, <1>10 DEF LeftAfter
<1> QED
  BY <1>6, <1>9, <1>11

\* Those of any other task do not change.
LEMMA LeftOfOthers ==
  ASSUME NEW time, NEW i \in DOMAIN left, \A c \in Containers : i \notin Ids(theActive[c]),
         \A c \in Containers : Len(theActive[c]) \in Nat
  PROVE  LeftAfter(time)[i] = left[i]
<1>1. ~ \E c \in Containers, k \in 1..MaxTasks : k <= Len(theActive[c]) /\ theActive[c][k].theId = i
  <2>1. SUFFICES ASSUME NEW c \in Containers, NEW k \in 1..MaxTasks, k <= Len(theActive[c]),
                        theActive[c][k].theId = i
                 PROVE  FALSE
    OBVIOUS
  <2>2. k \in 1..Len(theActive[c])
    BY <2>1
  <2> QED
    BY <2>1, <2>2 DEF Ids
<1> QED
  BY <1>1 DEF LeftAfter

LEMMA PausedOK ==
  ASSUME IInv, NEW time \in Elapsed
  PROVE  ListsOK(host, Paused(time), thePending, theMemUsed, theRunning, theNextId, called, refused,
                 LeftAfter(time))
<1>1. ListsOK(host, theActive, thePending, theMemUsed, theRunning, theNextId, called, refused, left)
  BY DEF IInv
<1>2. PICK na, nl : na = Paused(time) /\ nl = LeftAfter(time)
  OBVIOUS
<1>3. /\ left \in [(0..(theNextId - 1)) \ refused -> Nat] /\ \A i \in called : left[i] = 0
      /\ called \subseteq 0..(theNextId - 1) /\ called \cap refused = {}
  BY <1>1 DEF ListsOK, LeftOK, IdsOK
<1>4. CASE ~ theChrono
  <2>1. na = theActive
    BY <1>2, <1>4 DEF Paused
  <2>2. nl = [i \in DOMAIN left |-> left[i]]
    BY <1>2, <1>4 DEF LeftAfter
  <2>3. nl = left
    BY <2>2, <1>3
  <2> QED
    BY <2>1, <2>3, <1>1, <1>2
<1>5. CASE theChrono
  <2>1. time \in Nat
    BY <1>5, ComputerAssumption DEF Elapsed
  <2>2. ASSUME NEW c \in Containers
        PROVE  /\ na[c] \in Seq(Tasks) /\ Len(na[c]) = Len(theActive[c])
               /\ Ids(na[c]) = Ids(theActive[c])
               /\ SumMemory(na[c]) = SumMemory(theActive[c]) /\ Distinct(na[c])
               /\ \A k \in 1..Len(theActive[c]) :
                    /\ nl[na[c][k].theId] = OpsUpTo(na[c])[k]
                    /\ nl[na[c][k].theId] \in Nat
                    /\ na[c][k].theId = theActive[c][k].theId
    <3>1. PICK d : d = Done(theActive[c], TimeToOps(host[c], time))
      OBVIOUS
    <3>2. /\ na[c] \in Seq(Tasks) /\ Len(na[c]) = Len(theActive[c]) /\ d \in Nat
          /\ Ids(na[c]) = Ids(theActive[c])
          /\ SumMemory(na[c]) = SumMemory(theActive[c]) /\ Distinct(na[c])
          /\ \A k \in 1..Len(theActive[c]) :
               /\ na[c][k].theId = theActive[c][k].theId
               /\ OpsUpTo(na[c])[k] = left[theActive[c][k].theId] - d
               /\ left[theActive[c][k].theId] \in Nat /\ d <= left[theActive[c][k].theId]
      BY <1>2, <1>5, <2>1, <3>1, ElapsedOK
    <3>3. ASSUME NEW k \in 1..Len(theActive[c])
          PROVE  /\ nl[na[c][k].theId] = OpsUpTo(na[c])[k]
                 /\ nl[na[c][k].theId] \in Nat
                 /\ na[c][k].theId = theActive[c][k].theId
      <4>1. nl[theActive[c][k].theId] = left[theActive[c][k].theId] - d
        BY <1>2, <1>5, <2>1, <3>1, LeftOfActive
      <4>2. PICK x : x = left[theActive[c][k].theId]
        OBVIOUS
      <4>3. x \in Nat /\ d <= x /\ d \in Nat
        BY <3>2, <4>2
      <4>4. x - d \in Nat
        BY <4>3
      <4> QED
        BY <3>2, <4>1, <4>2, <4>4
    <3> QED
      BY <3>2, <3>3
  <2>3. \A c \in Containers : Len(theActive[c]) \in Nat
    BY <1>1, LengthsBound
  <2>4. ASSUME NEW i \in DOMAIN left, \A c \in Containers : i \notin Ids(theActive[c])
        PROVE  nl[i] = left[i]
    BY <1>2, <2>3, <2>4, LeftOfOthers
  <2>5. na \in [Containers -> Seq(Tasks)]
    <3>1. na = [c \in Containers |-> Advance(theActive[c], TimeToOps(host[c], time))]
      BY <1>2, <1>5 DEF Paused
    <3>2. na = [c \in Containers |-> na[c]]
      BY <3>1
    <3> QED
      BY <3>2, <2>2
  <2>6. nl \in [(0..(theNextId - 1)) \ refused -> Nat]
    <3>1. DOMAIN nl = DOMAIN left /\ nl = [i \in DOMAIN left |-> nl[i]]
      BY <1>2 DEF LeftAfter
    <3>2. ASSUME NEW i \in DOMAIN left
          PROVE  nl[i] \in Nat
      <4>1. CASE \E c \in Containers : i \in Ids(theActive[c])
        <5>1. PICK c \in Containers : i \in Ids(theActive[c])
          BY <4>1
        <5>2. PICK k \in 1..Len(theActive[c]) : i = theActive[c][k].theId
          BY <5>1 DEF Ids
        <5>3. nl[na[c][k].theId] \in Nat /\ na[c][k].theId = theActive[c][k].theId
          BY <2>2
        <5> QED
          BY <5>2, <5>3
      <4>2. CASE \A c \in Containers : i \notin Ids(theActive[c])
        <5>1. left[i] \in Nat
          BY <1>3
        <5> QED
          BY <4>2, <5>1, <2>4
      <4> QED
        BY <4>1, <4>2
    <3>3. nl \in [DOMAIN left -> Nat]
      BY <3>1, <3>2
    <3>4. DOMAIN left = (0..(theNextId - 1)) \ refused
      BY <1>3
    <3> QED
      BY <3>3, <3>4
  <2>7. \A i \in called : nl[i] = 0
    <3> TAKE i \in called
    <3>1. i \in DOMAIN left /\ left[i] = 0
      BY <1>3
    <3>2. \A c \in Containers : i \notin Ids(theActive[c])
      BY <1>1, OnePlace
    <3> QED
      BY <3>1, <3>2, <2>4
  <2>8. ASSUME NEW c \in Containers
        PROVE  ContainerOK(na[c], thePending[c], nl)
    <3>1. /\ thePending[c] \in Seq(Tasks) /\ Distinct(thePending[c])
          /\ Ids(theActive[c]) \cap Ids(thePending[c]) = {}
          /\ \A k \in 1..Len(thePending[c]) :
               left[thePending[c][k].theId] = thePending[c][k].theResidualOps
      BY <1>1 DEF ListsOK, ContainerOK
    <3>2. Exact(na[c], nl)
      BY <2>2 DEF Exact
    <3>3. ASSUME NEW k \in 1..Len(thePending[c])
          PROVE  nl[thePending[c][k].theId] = thePending[c][k].theResidualOps
      <4>1. PICK i : i = thePending[c][k].theId
        OBVIOUS
      <4>2. i \in Ids(thePending[c])
        BY <4>1 DEF Ids
      <4>3. i \in 0..(theNextId - 1) /\ i \notin refused /\ \A d \in Containers : i \notin Ids(theActive[d])
        BY <1>1, <4>2, OnePlace
      <4>4. i \in DOMAIN left
        BY <4>3, <1>3
      <4> QED
        BY <4>1, <4>3, <4>4, <2>4, <3>1
    <3> QED
      BY <2>2, <3>1, <3>2, <3>3 DEF ContainerOK
  <2>9. HeldBy(na, thePending) = HeldBy(theActive, thePending)
    BY <2>2 DEF HeldBy
  <2>10. Memories(na) = Memories(theActive) /\ Lengths(na) = Lengths(theActive)
    BY <2>2 DEF Memories, Lengths
  <2>11. CountersOK(host, na, thePending, theMemUsed, theRunning, theNextId)
    BY <1>1, <2>10 DEF ListsOK, CountersOK
  <2>12. LeftOK(nl, theNextId, called, refused)
    BY <2>6, <2>7 DEF LeftOK
  <2>13. ListsOK(host, na, thePending, theMemUsed, theRunning, theNextId, called, refused, nl)
    BY <1>1, <2>5, <2>8, <2>9, <2>11, <2>12 DEF ListsOK
  <2> QED
    BY <2>13, <1>2
<1> QED
  BY <1>4, <1>5

-----------------------------------------------------------------------------
(***************************************************************************)
(* How a change of one container changes the parts of the invariant.       *)
(***************************************************************************)

\* Only the operations left of the tasks in the lists matter to them.
LEMMA ContainerKept ==
  ASSUME NEW a, NEW q, NEW l, NEW l2, ContainerOK(a, q, l), \A i \in Ids(a) \cup Ids(q) : l2[i] = l[i]
  PROVE  ContainerOK(a, q, l2)
<1>1. Exact(a, l2)
  <2>1. \A k \in 1..Len(a) : a[k].theId \in Ids(a)
    BY DEF Ids
  <2> QED
    BY <2>1 DEF ContainerOK, Exact
<1>2. \A k \in 1..Len(q) : l2[q[k].theId] = q[k].theResidualOps
  <2>1. \A k \in 1..Len(q) : q[k].theId \in Ids(q)
    BY DEF Ids
  <2> QED
    BY <2>1 DEF ContainerOK
<1> QED
  BY <1>1, <1>2 DEF ContainerOK

LEMMA CountersChange ==
  ASSUME NEW h \in [Containers -> Processors], NEW active \in [Containers -> Seq(Tasks)],
         NEW pending \in [Containers -> Seq(Tasks)], NEW used, NEW running, NEW next \in Nat,
         CountersOK(h, active, pending, used, running, next),
         NEW c \in Containers, NEW a2 \in Seq(Tasks), NEW q2 \in Seq(Tasks),
         NEW u \in 0..MemTotal, NEW r \in Nat, NEW next2 \in Nat, next <= next2,
         u + SumMemory(active[c]) = used[h[c]] + SumMemory(a2),
         r + Len(active[c]) = running[h[c]] + Len(a2),
         Len(a2) + Len(q2) + next <= Len(active[c]) + Len(pending[c]) + next2
  PROVE  CountersOK(h, [active EXCEPT ![c] = a2], [pending EXCEPT ![c] = q2],
                    [used EXCEPT ![h[c]] = u], [running EXCEPT ![h[c]] = r], next2)
<1>1. PICK active2, pending2, used2, running2 :
        /\ active2 = [active EXCEPT ![c] = a2] /\ pending2 = [pending EXCEPT ![c] = q2]
        /\ used2 = [used EXCEPT ![h[c]] = u] /\ running2 = [running EXCEPT ![h[c]] = r]
  OBVIOUS
<1>2. /\ used \in [Processors -> 0..MemTotal] /\ running \in [Processors -> Nat]
      /\ h[c] \in Processors
  BY DEF CountersOK
<1>3. used2 \in [Processors -> 0..MemTotal] /\ running2 \in [Processors -> Nat]
  BY <1>1, <1>2
<1>4. \A a \in Seq(Tasks) : SumMemory(a) \in Nat /\ Len(a) \in Nat
  BY ListValues, TotalAtLeast
<1>5. PICK m, m2, n, n2, w, w2 :
        /\ m = Memories(active) /\ m2 = Memories(active2)
        /\ n = Lengths(active) /\ n2 = Lengths(active2)
        /\ w = Lengths(pending) /\ w2 = Lengths(pending2)
  OBVIOUS
<1>6. /\ \A d \in Containers : active2[d] = IF d = c THEN a2 ELSE active[d]
      /\ \A d \in Containers : pending2[d] = IF d = c THEN q2 ELSE pending[d]
  BY <1>1
<1>7. /\ active2 \in [Containers -> Seq(Tasks)] /\ pending2 \in [Containers -> Seq(Tasks)]
  BY <1>1
<1>8. /\ m \in [Containers -> Nat] /\ m2 \in [Containers -> Nat]
      /\ m[c] = SumMemory(active[c]) /\ m2[c] = SumMemory(a2)
      /\ \A d \in Containers : d # c => m2[d] = m[d]
  BY <1>4, <1>5, <1>6, <1>7 DEF Memories
<1>9. /\ n \in [Containers -> Nat] /\ n2 \in [Containers -> Nat]
      /\ n[c] = Len(active[c]) /\ n2[c] = Len(a2)
      /\ \A d \in Containers : d # c => n2[d] = n[d]
  BY <1>4, <1>5, <1>6, <1>7 DEF Lengths
<1>10. /\ w \in [Containers -> Nat] /\ w2 \in [Containers -> Nat]
       /\ w[c] = Len(pending[c]) /\ w2[c] = Len(q2)
       /\ \A d \in Containers : d # c => w2[d] = w[d]
  BY <1>4, <1>5, <1>6, <1>7 DEF Lengths
<1>11. ASSUME NEW p \in Processors
       PROVE  /\ used2[p] = TotalIn(h, p, m2) /\ running2[p] = TotalIn(h, p, n2)
              /\ running2[p] + TotalIn(h, p, w2) <= next2
  <2>1. /\ used[p] = TotalIn(h, p, m) /\ running[p] = TotalIn(h, p, n)
        /\ running[p] + TotalIn(h, p, w) <= next
    BY <1>5 DEF CountersOK
  <2>2. /\ TotalIn(h, p, m) \in Nat /\ TotalIn(h, p, m2) \in Nat
        /\ h[c] # p => TotalIn(h, p, m2) = TotalIn(h, p, m)
        /\ h[c] = p => TotalIn(h, p, m2) + m[c] = TotalIn(h, p, m) + m2[c]
    <3>1. OneChanges(m, m2, c)
      BY <1>8, <1>1 DEF OneChanges
    <3> QED
      BY <3>1, TotalInChange
  <2>3. /\ TotalIn(h, p, n) \in Nat /\ TotalIn(h, p, n2) \in Nat
        /\ h[c] # p => TotalIn(h, p, n2) = TotalIn(h, p, n)
        /\ h[c] = p => TotalIn(h, p, n2) + n[c] = TotalIn(h, p, n) + n2[c]
    <3>1. OneChanges(n, n2, c)
      BY <1>9, <1>1 DEF OneChanges
    <3> QED
      BY <3>1, TotalInChange
  <2>4. /\ TotalIn(h, p, w) \in Nat /\ TotalIn(h, p, w2) \in Nat
        /\ h[c] # p => TotalIn(h, p, w2) = TotalIn(h, p, w)
        /\ h[c] = p => TotalIn(h, p, w2) + w[c] = TotalIn(h, p, w) + w2[c]
    <3>1. OneChanges(w, w2, c)
      BY <1>10, <1>1 DEF OneChanges
    <3> QED
      BY <3>1, TotalInChange
  <2>5. CASE h[c] # p
    <3>1. used2[p] = used[p] /\ running2[p] = running[p]
      BY <2>5, <1>1, <1>2
    <3> QED
      BY <3>1, <2>1, <2>2, <2>3, <2>4, <2>5
  <2>6. CASE h[c] = p
    <3>1. used2[p] = u /\ running2[p] = r
      BY <2>6, <1>1, <1>2
    <3>2. /\ m[c] \in Nat /\ m2[c] \in Nat /\ n[c] \in Nat /\ n2[c] \in Nat
          /\ w[c] \in Nat /\ w2[c] \in Nat
      BY <1>8, <1>9, <1>10
    <3>3. u + m[c] = used[p] + m2[c] /\ r + n[c] = running[p] + n2[c]
          /\ n2[c] + w2[c] + next <= n[c] + w[c] + next2
      BY <2>6, <1>8, <1>9, <1>10
    <3>4. TotalIn(h, p, m2) = u
      <4>1. PICK x, y, z, o : x = m[c] /\ y = m2[c] /\ z = TotalIn(h, p, m2) /\ o = used[p]
        OBVIOUS
      <4>2. /\ x \in Nat /\ y \in Nat /\ z \in Nat /\ o \in Nat /\ u \in Nat
            /\ u + x = o + y /\ z + x = o + y
        <5>1. u \in Nat
          BY ComputerAssumption
        <5>2. x \in Nat /\ y \in Nat /\ z \in Nat /\ o \in Nat
          BY <4>1, <3>2, <2>1, <2>2
        <5>3. u + x = o + y
          BY <4>1, <3>3
        <5>4. z + x = o + y
          BY <4>1, <2>1, <2>2, <2>6
        <5> QED
          BY <5>1, <5>2, <5>3, <5>4
      <4>3. PICK v : v = u
        OBVIOUS
      <4>4. v \in Nat /\ v + x = z + x
        BY <4>2, <4>3
      <4>5. z = v
        BY <4>2, <4>4
      <4> QED
        BY <4>1, <4>3, <4>5
    <3>5. TotalIn(h, p, n2) = r /\ r + TotalIn(h, p, w2) <= next2
      <4>1. PICK x, y, z, o, e, f, g, j :
              /\ x = n[c] /\ y = n2[c] /\ z = TotalIn(h, p, n2) /\ o = running[p]
              /\ e = w[c] /\ f = w2[c] /\ g = TotalIn(h, p, w) /\ j = TotalIn(h, p, w2)
        OBVIOUS
      <4>2. /\ x \in Nat /\ y \in Nat /\ z \in Nat /\ o \in Nat
            /\ e \in Nat /\ f \in Nat /\ g \in Nat /\ j \in Nat
        BY <4>1, <3>2, <2>1, <2>3, <2>4
      <4>3. r + x = o + y /\ y + f + next <= x + e + next2
        BY <4>1, <3>3
      <4>4. z + x = o + y /\ j + e = g + f /\ o + g <= next
        BY <4>1, <2>1, <2>3, <2>4, <2>6
      <4>5. z = r /\ r + j <= next2
        BY <4>2, <4>3, <4>4
      <4> QED
        BY <4>1, <4>5
    <3> QED
      BY <3>1, <3>4, <3>5
  <2> QED
    BY <2>5, <2>6
<1> QED
  BY <1>1, <1>3, <1>5, <1>11 DEF CountersOK

\* Container c can have the lists a2 and q2, and its processor the counters u and r.
Replaceable(h, active, pending, used, running, next, out, l, c, a2, q2, u, r, next2, back2, l2) ==
  /\ c \in Containers /\ u \in 0..MemTotal /\ r \in Nat /\ next2 \in 0..MaxTasks /\ next <= next2
  /\ ContainerOK(a2, q2, l2)
  /\ \A d \in Containers : d # c => \A i \in Ids(active[d]) \cup Ids(pending[d]) : l2[i] = l[i]
  /\ IdsOK([HeldBy(active, pending) EXCEPT ![c] = Ids(a2) \cup Ids(q2)], next2, back2, out)
  /\ LeftOK(l2, next2, back2, out)
  /\ u + SumMemory(active[c]) = used[h[c]] + SumMemory(a2)
  /\ r + Len(active[c]) = running[h[c]] + Len(a2)
  /\ Len(a2) + Len(q2) + next <= Len(active[c]) + Len(pending[c]) + next2

LEMMA Replace ==
  ASSUME NEW h, NEW active, NEW pending, NEW used, NEW running, NEW next, NEW back, NEW out, NEW l,
         ListsOK(h, active, pending, used, running, next, back, out, l),
         NEW c, NEW a2, NEW q2, NEW u, NEW r, NEW next2, NEW back2, NEW l2,
         Replaceable(h, active, pending, used, running, next, out, l, c, a2, q2, u, r, next2, back2, l2)
  PROVE  ListsOK(h, [active EXCEPT ![c] = a2], [pending EXCEPT ![c] = q2], [used EXCEPT ![h[c]] = u],
                 [running EXCEPT ![h[c]] = r], next2, back2, out, l2)
<1> USE DEF Replaceable
<1>1. PICK active2, pending2 :
        active2 = [active EXCEPT ![c] = a2] /\ pending2 = [pending EXCEPT ![c] = q2]
  OBVIOUS
<1>2. /\ h \in [Containers -> Processors] /\ next \in Nat /\ next2 \in Nat
      /\ active \in [Containers -> Seq(Tasks)] /\ pending \in [Containers -> Seq(Tasks)]
      /\ CountersOK(h, active, pending, used, running, next)
  BY ComputerAssumption DEF ListsOK
<1>3. a2 \in Seq(Tasks) /\ q2 \in Seq(Tasks)
  BY DEF ContainerOK
<1>4. /\ \A d \in Containers : active2[d] = IF d = c THEN a2 ELSE active[d]
      /\ \A d \in Containers : pending2[d] = IF d = c THEN q2 ELSE pending[d]
      /\ active2 \in [Containers -> Seq(Tasks)] /\ pending2 \in [Containers -> Seq(Tasks)]
  BY <1>1, <1>2, <1>3
<1>5. CountersOK(h, active2, pending2, [used EXCEPT ![h[c]] = u], [running EXCEPT ![h[c]] = r], next2)
  BY <1>1, <1>2, <1>3, CountersChange
<1>6. ASSUME NEW d \in Containers
      PROVE  ContainerOK(active2[d], pending2[d], l2)
  <2>1. CASE d = c
    BY <2>1, <1>4
  <2>2. CASE d # c
    <3>1. ContainerOK(active[d], pending[d], l)
      BY DEF ListsOK
    <3>2. \A i \in Ids(active[d]) \cup Ids(pending[d]) : l2[i] = l[i]
      BY <2>2
    <3>3. ContainerOK(active[d], pending[d], l2)
      BY <3>1, <3>2, ContainerKept
    <3> QED
      BY <2>2, <3>3, <1>4
  <2> QED
    BY <2>1, <2>2
<1>7. HeldBy(active2, pending2) = [HeldBy(active, pending) EXCEPT ![c] = Ids(a2) \cup Ids(q2)]
  BY <1>4 DEF HeldBy
<1>8. ListsOK(h, active2, pending2, [used EXCEPT ![h[c]] = u], [running EXCEPT ![h[c]] = r],
              next2, back2, out, l2)
  BY <1>2, <1>4, <1>5, <1>6, <1>7 DEF ListsOK
<1> QED
  BY <1>1, <1>8

\* The list q with t at the end.
Appended(q, t, m) ==
  /\ m \in Seq(Tasks) /\ Len(m) = Len(q) + 1 /\ Ids(m) = Ids(q) \cup {t.theId}
  /\ Distinct(q) /\ t.theId \notin Ids(q) => Distinct(m)
  /\ \A k \in 1..Len(m) : m[k] = t \/ (k \in 1..Len(q) /\ m[k] = q[k])

LEMMA AppendOK ==
  ASSUME NEW q \in Seq(Tasks), NEW t \in Tasks, NEW m, m = Append(q, t)
  PROVE  Appended(q, t, m)
<1>1. PICK n : n = Len(q)
  OBVIOUS
<1>2. n \in Nat /\ m \in Seq(Tasks) /\ Len(m) = n + 1 /\ m[n + 1] = t /\ \A k \in 1..n : m[k] = q[k]
  BY <1>1
<1>3. /\ \A k \in 1..(n + 1) : k = n + 1 \/ k \in 1..n
      /\ n + 1 \in 1..(n + 1) /\ n + 1 \notin 1..n
      /\ \A k \in 1..n : k \in 1..(n + 1)
  BY <1>2
<1>4. Ids(m) = Ids(q) \cup {t.theId}
  <2>1. ASSUME NEW x \in Ids(m)
        PROVE  x \in Ids(q) \cup {t.theId}
    <3>1. PICK k \in 1..(n + 1) : x = m[k].theId
      BY <1>2, <2>1 DEF Ids
    <3> QED
      BY <3>1, <1>1, <1>2, <1>3 DEF Ids
  <2>2. ASSUME NEW x \in Ids(q)
        PROVE  x \in Ids(m)
    <3>1. PICK k \in 1..n : x = q[k].theId
      BY <1>1, <2>2 DEF Ids
    <3> QED
      BY <3>1, <1>2, <1>3 DEF Ids
  <2>3. t.theId \in Ids(m)
    BY <1>2, <1>3 DEF Ids
  <2> QED
    BY <2>1, <2>2, <2>3
<1>5. ASSUME Distinct(q), t.theId \notin Ids(q)
      PROVE  Distinct(m)
  <2>1. \A k \in 1..n : q[k].theId # t.theId
    BY <1>1, <1>5 DEF Ids
  <2>2. \A i, j \in 1..n : q[i].theId = q[j].theId => i = j
    BY <1>1, <1>5 DEF Distinct
  <2> QED
    BY <2>1, <2>2, <1>2, <1>3 DEF Distinct
<1>6. \A k \in 1..Len(m) : m[k] = t \/ (k \in 1..Len(q) /\ m[k] = q[k])
  BY <1>1, <1>2, <1>3
<1> QED
  BY <1>1, <1>2, <1>4, <1>5, <1>6 DEF Appended

\* Task next was given to container c, was refused, or was called back.
LEMMA IdsAdd ==
  ASSUME NEW held, NEW next \in Nat, NEW back, NEW out, IdsOK(held, next, back, out), NEW c \in Containers,
         NEW s, s = held[c] \cup {next}
  PROVE  IdsOK([held EXCEPT ![c] = s], next + 1, back, out)
<1>1. /\ \A i \in 0..(next - 1) : i \in 0..((next + 1) - 1) /\ i # next
      /\ next \in 0..((next + 1) - 1)
      /\ \A i \in 0..((next + 1) - 1) : i = next \/ i \in 0..(next - 1)
  OBVIOUS
<1>2. PICK new : new = [held EXCEPT ![c] = s]
  OBVIOUS
<1>3. /\ back \subseteq 0..(next - 1) /\ out \subseteq 0..(next - 1) /\ back \cap out = {}
      /\ held \in [Containers -> SUBSET ((0..(next - 1)) \ (back \cup out))]
      /\ \A d, e \in Containers : d # e => held[d] \cap held[e] = {}
      /\ \A i \in 0..(next - 1) : i \in back \cup out \/ \E d \in Containers : i \in held[d]
  BY DEF IdsOK
<1>4. /\ \A d \in Containers : new[d] = IF d = c THEN s ELSE held[d]
      /\ new = [d \in Containers |-> new[d]]
  BY <1>2, <1>3
<1>5. back \subseteq 0..((next + 1) - 1) /\ out \subseteq 0..((next + 1) - 1)
  BY <1>1, <1>3
<1>6. \A d \in Containers : held[d] \subseteq 0..(next - 1) /\ held[d] \cap (back \cup out) = {}
  BY <1>3
<1>7. next \notin back /\ next \notin out /\ \A d \in Containers : next \notin held[d]
  BY <1>1, <1>3, <1>6
<1>8. \A d \in Containers : new[d] \in SUBSET ((0..((next + 1) - 1)) \ (back \cup out))
  BY <1>1, <1>4, <1>6, <1>7
<1>9. \A d, e \in Containers : d # e => new[d] \cap new[e] = {}
  BY <1>3, <1>4, <1>7
<1>10. \A i \in 0..((next + 1) - 1) : i \in back \cup out \/ \E d \in Containers : i \in new[d]
  BY <1>1, <1>3, <1>4
<1>11. new \in [Containers -> SUBSET ((0..((next + 1) - 1)) \ (back \cup out))]
  BY <1>4, <1>8
<1> QED
  BY <1>2, <1>3, <1>5, <1>9, <1>10, <1>11 DEF IdsOK

LEMMA IdsOut ==
  ASSUME NEW held, NEW next \in Nat, NEW back, NEW out, IdsOK(held, next, back, out)
  PROVE  IdsOK(held, next + 1, back, out \cup {next})
<1>1. /\ \A i \in 0..(next - 1) : i \in 0..((next + 1) - 1) /\ i # next
      /\ next \in 0..((next + 1) - 1)
      /\ \A i \in 0..((next + 1) - 1) : i = next \/ i \in 0..(next - 1)
  OBVIOUS
<1>2. PICK new : new = out \cup {next}
  OBVIOUS
<1>3. /\ back \subseteq 0..(next - 1) /\ out \subseteq 0..(next - 1) /\ back \cap out = {}
      /\ held \in [Containers -> SUBSET ((0..(next - 1)) \ (back \cup out))]
      /\ \A d, e \in Containers : d # e => held[d] \cap held[e] = {}
      /\ \A i \in 0..(next - 1) : i \in back \cup out \/ \E d \in Containers : i \in held[d]
  BY DEF IdsOK
<1>4. \A d \in Containers : held[d] \subseteq 0..(next - 1) /\ held[d] \cap (back \cup out) = {}
  BY <1>3
<1>5. back \subseteq 0..((next + 1) - 1) /\ new \subseteq 0..((next + 1) - 1) /\ back \cap new = {}
  BY <1>1, <1>2, <1>3
<1>6. \A d \in Containers : held[d] \in SUBSET ((0..((next + 1) - 1)) \ (back \cup new))
  BY <1>1, <1>2, <1>4
<1>7. held \in [Containers -> SUBSET ((0..((next + 1) - 1)) \ (back \cup new))]
  BY <1>3, <1>6
<1>8. \A i \in 0..((next + 1) - 1) : i \in back \cup new \/ \E d \in Containers : i \in held[d]
  BY <1>1, <1>2, <1>3
<1> QED
  BY <1>2, <1>3, <1>5, <1>7, <1>8 DEF IdsOK

LEMMA IdsBack ==
  ASSUME NEW held, NEW next \in Nat, NEW back, NEW out, IdsOK(held, next, back, out), NEW c \in Containers,
         NEW x \in held[c], NEW s, s = held[c] \ {x}
  PROVE  IdsOK([held EXCEPT ![c] = s], next, back \cup {x}, out)
<1>1. PICK new, b : new = [held EXCEPT ![c] = s] /\ b = back \cup {x}
  OBVIOUS
<1>2. /\ back \subseteq 0..(next - 1) /\ out \subseteq 0..(next - 1) /\ back \cap out = {}
      /\ held \in [Containers -> SUBSET ((0..(next - 1)) \ (back \cup out))]
      /\ \A d, e \in Containers : d # e => held[d] \cap held[e] = {}
      /\ \A i \in 0..(next - 1) : i \in back \cup out \/ \E d \in Containers : i \in held[d]
  BY DEF IdsOK
<1>3. /\ \A d \in Containers : new[d] = IF d = c THEN s ELSE held[d]
      /\ new = [d \in Containers |-> new[d]]
  BY <1>1, <1>2
<1>4. \A d \in Containers : held[d] \subseteq 0..(next - 1) /\ held[d] \cap (back \cup out) = {}
  BY <1>2
<1>5. x \in 0..(next - 1) /\ x \notin back /\ x \notin out /\ \A d \in Containers : d # c => x \notin held[d]
  BY <1>2, <1>4
<1>6. b \subseteq 0..(next - 1) /\ b \cap out = {}
  BY <1>1, <1>2, <1>5
<1>7. \A d \in Containers : new[d] \in SUBSET ((0..(next - 1)) \ (b \cup out))
  BY <1>1, <1>3, <1>4, <1>5
<1>8. new \in [Containers -> SUBSET ((0..(next - 1)) \ (b \cup out))]
  BY <1>3, <1>7
<1>9. \A d, e \in Containers : d # e => new[d] \cap new[e] = {}
  BY <1>2, <1>3
<1>10. \A i \in 0..(next - 1) : i \in b \cup out \/ \E d \in Containers : i \in new[d]
  BY <1>1, <1>2, <1>3
<1> QED
  BY <1>1, <1>2, <1>6, <1>8, <1>9, <1>10 DEF IdsOK

-----------------------------------------------------------------------------
(***************************************************************************)
(* addTask.                                                                *)
(***************************************************************************)

\* The operations left, with those of the new task.
Extended(l, next, back, out, n, D, l2) ==
  /\ next \in Nat /\ n \in Nat /\ LeftOK(l, next, back, out)
  /\ back \subseteq 0..(next - 1) /\ out \subseteq 0..(next - 1) /\ back \cap out = {}
  /\ D = (0..(next - 1)) \ out
  /\ l2 = [i \in D \cup {next} |-> IF i = next THEN n ELSE l[i]]

LEMMA LeftAdd ==
  ASSUME NEW l, NEW next, NEW back, NEW out, NEW n, NEW D, NEW l2, Extended(l, next, back, out, n, D, l2)
  PROVE  /\ LeftOK(l2, next + 1, back, out) /\ l2[next] = n
         /\ \A i \in D : l2[i] = l[i]
<1> USE DEF Extended
<1>1. /\ \A i \in 0..(next - 1) : i \in 0..((next + 1) - 1) /\ i # next
      /\ next \in 0..((next + 1) - 1)
      /\ \A i \in 0..((next + 1) - 1) : i = next \/ i \in 0..(next - 1)
  OBVIOUS
<1>2. next \notin out /\ next \notin D /\ D \cup {next} = (0..((next + 1) - 1)) \ out
  BY <1>1
<1>3. l \in [D -> Nat] /\ \A i \in back : l[i] = 0
  BY DEF LeftOK
<1>4. l2 \in [D \cup {next} -> Nat] /\ l2[next] = n /\ \A i \in D : l2[i] = l[i]
  BY <1>2, <1>3
<1>5. \A i \in back : l2[i] = 0
  <2> TAKE i \in back
  <2>1. i \in D
    OBVIOUS
  <2> QED
    BY <2>1, <1>3, <1>4
<1> QED
  BY <1>2, <1>4, <1>5 DEF LeftOK

\* The task t is new to container c.
Arrives(next, l, c, t, l2) ==
  /\ next < MaxTasks /\ c \in Containers /\ t \in Tasks /\ t.theId = next
  /\ l2 = [i \in DOMAIN l \cup {next} |-> IF i = next THEN t.theResidualOps ELSE l[i]]

LEMMA PushOK ==
  ASSUME NEW h, NEW active, NEW pending, NEW used, NEW running, NEW next, NEW back, NEW out, NEW l,
         ListsOK(h, active, pending, used, running, next, back, out, l),
         NEW c, NEW t, NEW l2, Arrives(next, l, c, t, l2)
  PROVE  /\ ListsOK(h, active, [pending EXCEPT ![c] = Append(pending[c], t)], used, running, next + 1,
                    back, out, l2)
         /\ used[h[c]] + t.theMemory <= MemTotal
              => ListsOK(h, [active EXCEPT ![c] = MakeActive(active[c], t)], pending,
                         [used EXCEPT ![h[c]] = used[h[c]] + t.theMemory],
                         [running EXCEPT ![h[c]] = running[h[c]] + 1], next + 1, back, out, l2)
<1> USE DEF Arrives
<1>1. /\ h \in [Containers -> Processors] /\ next \in Nat /\ next + 1 \in 0..MaxTasks /\ next <= next + 1
      /\ active \in [Containers -> Seq(Tasks)] /\ pending \in [Containers -> Seq(Tasks)]
      /\ next + 1 \in Nat
  BY ComputerAssumption DEF ListsOK
<1>2. PICK a, q, p : a = active[c] /\ q = pending[c] /\ p = h[c]
  OBVIOUS
<1>3. a \in Seq(Tasks) /\ q \in Seq(Tasks) /\ p \in Processors
  BY <1>1, <1>2
<1>4. /\ used \in [Processors -> 0..MemTotal] /\ running \in [Processors -> Nat]
      /\ used[p] \in 0..MemTotal /\ running[p] \in Nat
  BY <1>3 DEF ListsOK, CountersOK
<1>5. PICK held : held = HeldBy(active, pending)
  OBVIOUS
<1>6. IdsOK(held, next, back, out) /\ held[c] = Ids(a) \cup Ids(q)
  BY <1>2, <1>5 DEF ListsOK, HeldBy
<1>7. back \subseteq 0..(next - 1) /\ out \subseteq 0..(next - 1) /\ back \cap out = {}
  BY <1>6 DEF IdsOK
<1>8. LeftOK(l, next, back, out)
  BY DEF ListsOK
<1>9. PICK D : D = (0..(next - 1)) \ out
  OBVIOUS
<1>10. DOMAIN l = D
  BY <1>8, <1>9 DEF LeftOK
<1>11. t.theResidualOps \in Nat /\ t.theMemory \in Nat /\ t.theMemory \in 0..MemTotal
  BY TaskType
<1>12. LeftOK(l2, next + 1, back, out) /\ l2[next] = t.theResidualOps /\ \A i \in D : l2[i] = l[i]
  <2>1. PICK n : n = t.theResidualOps
    OBVIOUS
  <2>2. n \in Nat /\ l2 = [i \in D \cup {next} |-> IF i = next THEN n ELSE l[i]]
    BY <2>1, <1>10, <1>11
  <2>3. LeftOK(l2, next + 1, back, out) /\ l2[next] = n /\ \A i \in D : l2[i] = l[i]
    <3>1. Extended(l, next, back, out, n, D, l2)
      BY <2>2, <1>1, <1>7, <1>8, <1>9 DEF Extended
    <3> QED
      BY <3>1, LeftAdd
  <2> QED
    BY <2>1, <2>3
<1>13. ASSUME NEW d \in Containers, NEW i \in Ids(active[d]) \cup Ids(pending[d])
       PROVE  i \in D /\ i # next /\ l2[i] = l[i]
  <2>1. i \in 0..(next - 1) /\ i \notin out
    BY OnePlace
  <2>2. i \in D /\ i # next
    BY <2>1, <1>1, <1>9
  <2> QED
    BY <2>2, <1>12
<1>14. ContainerOK(a, q, l2)
  <2>1. ContainerOK(a, q, l)
    BY <1>2 DEF ListsOK
  <2>2. \A i \in Ids(a) \cup Ids(q) : l2[i] = l[i]
    BY <1>2, <1>13
  <2> QED
    BY <2>1, <2>2, ContainerKept
<1>15. next \notin Ids(a) /\ next \notin Ids(q)
  BY <1>2, <1>13
<1>16. /\ SumMemory(a) \in Nat /\ Len(a) \in Nat /\ Len(q) \in Nat
  BY <1>3, ListValues, TotalAtLeast
<1>17. ListsOK(h, active, [pending EXCEPT ![c] = Append(q, t)], used, running, next + 1, back, out, l2)
  <2>1. PICK m : m = Append(q, t)
    OBVIOUS
  <2>2. /\ m \in Seq(Tasks) /\ Len(m) = Len(q) + 1 /\ Ids(m) = Ids(q) \cup {next}
        /\ Distinct(q) /\ next \notin Ids(q) => Distinct(m)
        /\ \A k \in 1..Len(m) : m[k] = t \/ (k \in 1..Len(q) /\ m[k] = q[k])
    <3>1. Appended(q, t, m)
      BY <2>1, <1>3, AppendOK
    <3>2. t.theId = next
      BY <1>3
    <3> QED
      BY <3>1, <3>2 DEF Appended
  <2>3. ContainerOK(a, m, l2)
    <3>1. \A k \in 1..Len(m) : l2[m[k].theId] = m[k].theResidualOps
      BY <2>2, <1>12, <1>14 DEF ContainerOK
    <3> QED
      BY <3>1, <2>2, <1>14, <1>15 DEF ContainerOK
  <2>4. IdsOK([held EXCEPT ![c] = Ids(a) \cup Ids(m)], next + 1, back, out)
    <3>1. Ids(a) \cup Ids(m) = held[c] \cup {next}
      BY <2>2, <1>6
    <3> QED
      BY <3>1, <1>1, <1>6, IdsAdd
  <2>5. /\ used[p] + SumMemory(active[c]) = used[h[c]] + SumMemory(a)
        /\ running[p] + Len(active[c]) = running[h[c]] + Len(a)
        /\ Len(a) + Len(m) + next <= Len(active[c]) + Len(pending[c]) + (next + 1)
    BY <1>1, <1>2, <1>16, <2>2
  <2>6. \A d \in Containers : d # c => \A i \in Ids(active[d]) \cup Ids(pending[d]) : l2[i] = l[i]
    BY <1>13
  <2>7. ListsOK(h, [active EXCEPT ![c] = a], [pending EXCEPT ![c] = m], [used EXCEPT ![h[c]] = used[p]],
                [running EXCEPT ![h[c]] = running[p]], next + 1, back, out, l2)
    <3>1. PICK next2, u, r : next2 = next + 1 /\ u = used[p] /\ r = running[p]
      OBVIOUS
    <3>2. /\ next2 \in 0..MaxTasks /\ next <= next2 /\ u \in 0..MemTotal /\ r \in Nat
          /\ IdsOK([HeldBy(active, pending) EXCEPT ![c] = Ids(a) \cup Ids(m)], next2, back, out)
          /\ LeftOK(l2, next2, back, out)
          /\ u + SumMemory(active[c]) = used[h[c]] + SumMemory(a)
          /\ r + Len(active[c]) = running[h[c]] + Len(a)
          /\ Len(a) + Len(m) + next <= Len(active[c]) + Len(pending[c]) + next2
      BY <3>1, <2>4, <2>5, <1>1, <1>4, <1>5, <1>12
    <3>3. Replaceable(h, active, pending, used, running, next, out, l, c, a, m, u, r, next2, back, l2)
      BY <2>3, <2>6, <3>2 DEF Replaceable
    <3>4. ListsOK(h, [active EXCEPT ![c] = a], [pending EXCEPT ![c] = m], [used EXCEPT ![h[c]] = u],
                  [running EXCEPT ![h[c]] = r], next2, back, out, l2)
      BY <3>3, Replace
    <3> QED
      BY <3>1, <3>4
  <2>8. /\ [active EXCEPT ![c] = a] = active
        /\ [used EXCEPT ![h[c]] = used[p]] = used /\ [running EXCEPT ![h[c]] = running[p]] = running
    BY <1>1, <1>2, <1>4
  <2> QED
    BY <2>1, <2>7, <2>8
<1>18. ASSUME used[p] + t.theMemory <= MemTotal
       PROVE  ListsOK(h, [active EXCEPT ![c] = MakeActive(a, t)], pending,
                      [used EXCEPT ![h[c]] = used[p] + t.theMemory],
                      [running EXCEPT ![h[c]] = running[p] + 1], next + 1, back, out, l2)
  <2>1. PICK m, u, r : m = MakeActive(a, t) /\ u = used[p] + t.theMemory /\ r = running[p] + 1
    OBVIOUS
  <2>2. u \in 0..MemTotal /\ r \in Nat
    BY <2>1, <1>4, <1>11, <1>18, ComputerAssumption
  <2>3. /\ m \in Seq(Tasks) /\ Len(m) = Len(a) + 1 /\ Ids(m) = Ids(a) \cup {next}
        /\ SumMemory(m) = SumMemory(a) + t.theMemory
        /\ Distinct(a) /\ next \notin Ids(a) => Distinct(m)
    BY <2>1, <1>3, MakeActiveWith DEF With
  <2>4. ContainerOK(m, q, l2)
    <3>1. Exact(a, l2)
      BY <1>14 DEF ContainerOK
    <3>2. Exact(m, l2)
      BY <3>1, <2>1, <1>3, <1>12, MakeActiveExact
    <3> QED
      BY <3>2, <2>3, <1>14, <1>15 DEF ContainerOK
  <2>5. IdsOK([held EXCEPT ![c] = Ids(m) \cup Ids(q)], next + 1, back, out)
    <3>1. Ids(m) \cup Ids(q) = held[c] \cup {next}
      BY <2>3, <1>6
    <3> QED
      BY <3>1, <1>1, <1>6, IdsAdd
  <2>6. /\ u + SumMemory(active[c]) = used[h[c]] + SumMemory(m)
        /\ r + Len(active[c]) = running[h[c]] + Len(m)
        /\ Len(m) + Len(q) + next <= Len(active[c]) + Len(pending[c]) + (next + 1)
    <3>1. PICK x, y, z : x = used[p] /\ y = SumMemory(a) /\ z = running[p]
      OBVIOUS
    <3>2. x \in Nat /\ y \in Nat /\ z \in Nat
      BY <3>1, <1>4, <1>16
    <3>3. (x + t.theMemory) + y = x + (y + t.theMemory)
      BY <3>2, <1>11
    <3>4. (z + 1) + Len(a) = z + (Len(a) + 1) /\ (Len(a) + 1) + Len(q) + next <= Len(a) + Len(q) + (next + 1)
      BY <3>2, <1>1, <1>16
    <3> QED
      BY <3>1, <3>3, <3>4, <2>1, <2>3, <1>2
  <2>7. \A d \in Containers : d # c => \A i \in Ids(active[d]) \cup Ids(pending[d]) : l2[i] = l[i]
    BY <1>13
  <2>8. ListsOK(h, [active EXCEPT ![c] = m], [pending EXCEPT ![c] = q], [used EXCEPT ![h[c]] = u],
                [running EXCEPT ![h[c]] = r], next + 1, back, out, l2)
    <3>1. PICK next2 : next2 = next + 1
      OBVIOUS
    <3>2. /\ next2 \in 0..MaxTasks /\ next <= next2
          /\ IdsOK([HeldBy(active, pending) EXCEPT ![c] = Ids(m) \cup Ids(q)], next2, back, out)
          /\ LeftOK(l2, next2, back, out)
          /\ Len(m) + Len(q) + next <= Len(active[c]) + Len(pending[c]) + next2
      BY <3>1, <2>5, <2>6, <1>1, <1>5, <1>12
    <3>3. Replaceable(h, active, pending, used, running, next, out, l, c, m, q, u, r, next2, back, l2)
      BY <2>2, <2>4, <2>6, <2>7, <3>2 DEF Replaceable
    <3>4. ListsOK(h, [active EXCEPT ![c] = m], [pending EXCEPT ![c] = q], [used EXCEPT ![h[c]] = u],
                  [running EXCEPT ![h[c]] = r], next2, back, out, l2)
      BY <3>3, Replace
    <3> QED
      BY <3>1, <3>4
  <2>9. [pending EXCEPT ![c] = q] = pending
    BY <1>1, <1>2
  <2> QED
    BY <2>1, <2>8, <2>9
<1> QED
  BY <1>2, <1>17, <1>18

LEMMA AddTaskStep ==
  ASSUME IInv, NEW c \in Containers, NEW q \in Requirements, NEW time \in Elapsed, AddTask(c, q, time)
  PROVE  IInv'
<1>1. PICK na, nl, t : /\ na = Paused(time) /\ nl = LeftAfter(time)
                       /\ t = [theId |-> theNextId, theMemory |-> q.theMemory,
                               theResidualOps |-> q.theOperations]
  OBVIOUS
<1>2. ListsOK(host, na, thePending, theMemUsed, theRunning, theNextId, called, refused, nl)
  BY <1>1, PausedOK
<1>3. q.theMemory \in Nat /\ q.theOperations \in Nat /\ MemTotal \in Nat /\ MaxTasks \in Nat
  BY ComputerAssumption
<1>4. theNextId \in Nat /\ theNextId < MaxTasks /\ q.theMemory <= MemTotal
  BY DEF AddTask, IInv, ListsOK
<1>5. /\ t \in Tasks /\ t.theId = theNextId /\ t.theMemory = q.theMemory
      /\ t.theResidualOps = q.theOperations
  BY <1>1, <1>3, <1>4 DEF Tasks
<1>6. DOMAIN nl = DOMAIN left
  BY <1>1 DEF LeftAfter
<1>7. left' = [i \in DOMAIN nl \cup {theNextId} |-> IF i = theNextId THEN t.theResidualOps ELSE nl[i]]
  BY <1>1, <1>5, <1>6 DEF AddTask
<1>8. PICK l2 : l2 = left'
  OBVIOUS
<1>9. /\ ListsOK(host, na, [thePending EXCEPT ![c] = Append(thePending[c], t)], theMemUsed, theRunning,
                 theNextId + 1, called, refused, l2)
      /\ theMemUsed[host[c]] + t.theMemory <= MemTotal
           => ListsOK(host, [na EXCEPT ![c] = MakeActive(na[c], t)], thePending,
                      [theMemUsed EXCEPT ![host[c]] = theMemUsed[host[c]] + t.theMemory],
                      [theRunning EXCEPT ![host[c]] = theRunning[host[c]] + 1],
                      theNextId + 1, called, refused, l2)
  <2>1. Arrives(theNextId, nl, c, t, l2)
    BY <1>4, <1>5, <1>7, <1>8 DEF Arrives
  <2> QED
    BY <1>2, <2>1, PushOK
<1>10. /\ host' = host /\ theNextId' = theNextId + 1 /\ called' = called /\ refused' = refused
       /\ theNewTask' = TRUE /\ theChrono' = SomeActive(theActive') /\ cursor' = cursor
       /\ Push(c, t, na)
  BY <1>1 DEF AddTask
<1>11. ListsOK(host, theActive', thePending', theMemUsed', theRunning', theNextId + 1, called, refused, l2)
  <2>1. CASE Len(na[c]) = NumWorkers \/ MemAvailable(theMemUsed[host[c]]) < t.theMemory
    <3>1. /\ thePending' = [thePending EXCEPT ![c] = Append(thePending[c], t)]
          /\ theActive' = na /\ theMemUsed' = theMemUsed /\ theRunning' = theRunning
      BY <2>1, <1>10 DEF Push
    <3> QED
      BY <3>1, <1>9
  <2>2. CASE ~ (Len(na[c]) = NumWorkers \/ MemAvailable(theMemUsed[host[c]]) < t.theMemory)
    <3>1. /\ theActive' = [na EXCEPT ![c] = MakeActive(na[c], t)]
          /\ theMemUsed' = [theMemUsed EXCEPT ![host[c]] = theMemUsed[host[c]] + t.theMemory]
          /\ theRunning' = [theRunning EXCEPT ![host[c]] = theRunning[host[c]] + 1]
          /\ thePending' = thePending
      BY <2>2, <1>10 DEF Push
    <3>2. PICK u : u = theMemUsed[host[c]]
      OBVIOUS
    <3>3. u \in Nat
      BY <3>2, <1>2, <1>3 DEF ListsOK, CountersOK
    <3>4. ~ (MemTotal - u < t.theMemory)
      BY <2>2, <3>2 DEF MemAvailable
    <3>5. u + t.theMemory <= MemTotal
      BY <3>3, <3>4, <1>3, <1>5
    <3> QED
      BY <3>1, <3>2, <3>5, <1>9
  <2> QED
    BY <2>1, <2>2
<1>12. cursor \in 0..NumContainers /\ theChrono' \in BOOLEAN /\ theNewTask' \in BOOLEAN
  BY <1>10 DEF IInv, SomeActive
<1> QED
  BY <1>8, <1>10, <1>11, <1>12 DEF IInv

LEMMA AddTaskThrowsStep ==
  ASSUME IInv, NEW c \in Containers, NEW q \in Requirements, NEW time \in Elapsed, AddTaskThrows(c, q, time)
  PROVE  IInv'
<1>1. PICK na, nl, n : na = Paused(time) /\ nl = LeftAfter(time) /\ n = theNextId
  OBVIOUS
<1>2. ListsOK(host, na, thePending, theMemUsed, theRunning, n, called, refused, nl)
  BY <1>1, PausedOK
<1>3. n \in Nat /\ n + 1 \in 0..MaxTasks /\ n <= n + 1
  BY <1>1, ComputerAssumption DEF AddTaskThrows, IInv, ListsOK
<1>4. /\ host' = host /\ theActive' = na /\ thePending' = thePending /\ theMemUsed' = theMemUsed
      /\ theRunning' = theRunning /\ theNextId' = n + 1 /\ called' = called
      /\ refused' = refused \cup {n} /\ left' = nl /\ theChrono' = FALSE
      /\ theNewTask' = theNewTask /\ cursor' = cursor
  BY <1>1 DEF AddTaskThrows
<1>5. IdsOK(HeldBy(na, thePending), n + 1, called, refused \cup {n})
  BY <1>2, <1>3, IdsOut DEF ListsOK
<1>6. LeftOK(nl, n + 1, called, refused \cup {n})
  <2>1. LeftOK(nl, n, called, refused)
    BY <1>2 DEF ListsOK
  <2>2. (0..(n - 1)) \ refused = (0..((n + 1) - 1)) \ (refused \cup {n})
    <3>1. /\ \A i \in 0..(n - 1) : i \in 0..((n + 1) - 1) /\ i # n
          /\ \A i \in 0..((n + 1) - 1) : i = n \/ i \in 0..(n - 1)
      BY <1>3
    <3> QED
      BY <3>1
  <2> QED
    BY <2>1, <2>2 DEF LeftOK
<1>7. CountersOK(host, na, thePending, theMemUsed, theRunning, n + 1)
  <2>1. CountersOK(host, na, thePending, theMemUsed, theRunning, n)
    BY <1>2 DEF ListsOK
  <2>2. ASSUME NEW p \in Processors
        PROVE  theRunning[p] + TotalIn(host, p, Lengths(thePending)) <= n + 1
    <3>1. PICK x, w : x = theRunning[p] + TotalIn(host, p, w) /\ w = Lengths(thePending)
      OBVIOUS
    <3>2. w \in [Containers -> Nat] /\ theRunning[p] \in Nat
      BY <3>1, <1>2 DEF ListsOK, CountersOK, Lengths
    <3>3. 1 \in Containers
      BY ComputerAssumption DEF Containers
    <3>4. TotalIn(host, p, w) \in Nat
      BY <3>2, <3>3, TotalInAtLeast
    <3>5. x \in Nat /\ x <= n
      BY <3>1, <3>2, <3>4, <2>1 DEF CountersOK
    <3> QED
      BY <3>1, <3>5, <1>3
  <2> QED
    BY <2>1, <2>2 DEF CountersOK
<1>8. ListsOK(host, na, thePending, theMemUsed, theRunning, n + 1, called, refused \cup {n}, nl)
  BY <1>2, <1>3, <1>5, <1>6, <1>7 DEF ListsOK
<1>9. cursor \in 0..NumContainers /\ theNewTask \in BOOLEAN
  BY DEF IInv
<1> QED
  BY <1>4, <1>8, <1>9 DEF IInv

-----------------------------------------------------------------------------
(***************************************************************************)
(* pop(): the first active task goes, pending tasks become active.         *)
(***************************************************************************)

\* State of a container and its processor after task t is made active.
Started(s, t) ==
  [active |-> MakeActive(s.active, t), used |-> s.used + t.theMemory, running |-> s.running + 1]

LEMMA RefillIs ==
  ASSUME NEW c, NEW q, q = thePending[c], Len(q) \in Nat, NEW a, NEW u, NEW r,
         NEW b, b = [active |-> a, used |-> u, running |-> r],
         NEW f, f = Refill(c, a, u, r)
  PROVE  f[0] = b /\ \A k \in 1..Len(q) : f[k] = Started(f[k - 1], q[k])
<1>1. PICK n : n = Len(q)
  OBVIOUS
<1>2. n \in Nat
  BY <1>1
<1> DEFINE Is(g, m) == g = [k \in 0..m |-> IF k = 0 THEN b ELSE Started(g[k - 1], q[k])]
           Bad == {m \in 0..n : ~ \E g : Is(g, m)}
<1>3. Bad = {}
  <2>1. SUFFICES ASSUME Bad # {} PROVE FALSE
    OBVIOUS
  <2>2. PICK m \in Bad : \A j \in Bad : m <= j
    <3>1. Bad \in SUBSET Nat BY <1>2
    <3> HIDE DEF Bad
    <3> QED BY <2>1, <3>1, NatMin
  <2>3. m \in 0..n /\ m \in Nat /\ ~ \E g : Is(g, m)
    BY <1>2
  <2>4. CASE m = 0
    <3>1. PICK g : g = [k \in 0..0 |-> b]
      OBVIOUS
    <3>2. Is(g, 0)
      BY <3>1
    <3> QED
      BY <2>3, <2>4, <3>2
  <2>5. CASE m # 0
    <3>1. m - 1 \in 0..n /\ m - 1 \notin Bad
      <4>1. m - 1 \in 0..n /\ ~ (m <= m - 1) BY <2>3, <2>5, <1>2
      <4> HIDE DEF Bad
      <4> QED BY <4>1, <2>2
    <3>2. PICK g : Is(g, m - 1)
      BY <3>1
    <3>3. PICK e : e = [k \in 0..m |-> IF k = m THEN Started(g[m - 1], q[m]) ELSE g[k]]
      OBVIOUS
    <3>4. \A k \in 0..m : k # m => k \in 0..(m - 1) /\ k - 1 # m
      BY <2>3
    <3>5. \A k \in 0..m : e[k] = IF k = 0 THEN b ELSE Started(e[k - 1], q[k])
      <4> TAKE k \in 0..m
      <4>1. CASE k = m
        <5>1. m - 1 \in 0..m /\ m - 1 # m /\ m \in 0..m
          BY <2>3, <2>5
        <5>2. e[m - 1] = g[m - 1] /\ e[m] = Started(g[m - 1], q[m])
          BY <5>1, <3>3
        <5> QED
          BY <4>1, <5>2, <2>5
      <4>2. CASE k # m /\ k = 0
        BY <4>2, <3>2, <3>3, <3>4
      <4>3. CASE k # m /\ k # 0
        <5>1. k \in 0..(m - 1) /\ k - 1 \in 0..m /\ k - 1 # m
          BY <4>3, <2>3
        <5>2. e[k] = g[k] /\ e[k - 1] = g[k - 1]
          BY <5>1, <4>3, <3>3
        <5>3. g[k] = Started(g[k - 1], q[k])
          BY <5>1, <4>3, <3>2
        <5> QED
          BY <5>2, <5>3, <4>3
      <4> QED
        BY <4>1, <4>2, <4>3
    <3>6. Is(e, m)
      <4>1. e = [k \in 0..m |-> e[k]] BY <3>3
      <4> QED BY <4>1, <3>5
    <3> QED
      BY <2>3, <3>6
  <2> QED
    BY <2>4, <2>5
<1>4. \E g : Is(g, n)
  <2>1. n \in 0..n BY <1>2
  <2>2. n \notin Bad BY <1>3
  <2> HIDE DEF Is
  <2> QED BY <2>1, <2>2
<1>5. f = CHOOSE g : Is(g, n)
  BY <1>1 DEF Refill, Started
<1>6. Is(f, n)
  <2> HIDE DEF Is
  <2> QED BY <1>4, <1>5
<1>7. \A k \in 0..n : f[k] = IF k = 0 THEN b ELSE Started(f[k - 1], q[k])
  BY <1>6
<1> QED
  BY <1>1, <1>2, <1>7

IdsUpTo(q, k) == {q[i].theId : i \in 1..k}

\* s is the state after the first k tasks of q were added to the list a, when
\* the memory in use was u and r tasks were running.
Refilled(s, k, q, a, u, r, l) ==
  /\ s.active \in Seq(Tasks) /\ Len(s.active) = Len(a) + k
  /\ Ids(s.active) = Ids(a) \cup IdsUpTo(q, k)
  /\ Distinct(s.active) /\ Exact(s.active, l)
  /\ s.used \in Nat /\ s.used + SumMemory(a) = u + SumMemory(s.active)
  /\ s.running = r + k

LEMMA StartedOK ==
  ASSUME NEW a, NEW q, NEW l, ContainerOK(a, q, l), NEW u \in Nat, NEW r \in Nat,
         NEW k \in 1..Len(q), NEW s, Refilled(s, k - 1, q, a, u, r, l)
  PROVE  Refilled(Started(s, q[k]), k, q, a, u, r, l)
<1>1. PICK t, m, n : t = q[k] /\ m = s.active /\ n = Len(q)
  OBVIOUS
<1>2. /\ a \in Seq(Tasks) /\ q \in Seq(Tasks) /\ Distinct(q) /\ Ids(a) \cap Ids(q) = {}
      /\ l[t.theId] = t.theResidualOps
  BY <1>1 DEF ContainerOK
<1>3. n \in Nat /\ k \in 1..n /\ t \in Tasks /\ Len(a) \in Nat
  BY <1>1, <1>2
<1>4. /\ m \in Seq(Tasks) /\ Len(m) = Len(a) + (k - 1) /\ Ids(m) = Ids(a) \cup IdsUpTo(q, k - 1)
      /\ Distinct(m) /\ Exact(m, l) /\ s.used \in Nat
      /\ s.used + SumMemory(a) = u + SumMemory(m) /\ s.running = r + (k - 1)
  BY <1>1 DEF Refilled
<1>5. t.theMemory \in Nat
  BY <1>3, TaskType
<1>6. t.theId \in Ids(q) /\ t.theId \notin IdsUpTo(q, k - 1) /\ IdsUpTo(q, k) = IdsUpTo(q, k - 1) \cup {t.theId}
  <2>1. /\ \A i \in 1..(k - 1) : i \in 1..n /\ i # k /\ i \in 1..k
        /\ \A i \in 1..k : i = k \/ i \in 1..(k - 1)
        /\ k \in 1..k
    BY <1>3
  <2>2. t.theId \in Ids(q)
    BY <1>1 DEF Ids
  <2>3. \A i, j \in 1..n : q[i].theId = q[j].theId => i = j
    BY <1>1, <1>2 DEF Distinct
  <2>4. t.theId \notin IdsUpTo(q, k - 1)
    BY <2>1, <2>3, <1>1, <1>3 DEF IdsUpTo
  <2>5. IdsUpTo(q, k) = IdsUpTo(q, k - 1) \cup {t.theId}
    BY <2>1, <1>1 DEF IdsUpTo
  <2> QED
    BY <2>2, <2>4, <2>5
<1>7. t.theId \notin Ids(m)
  BY <1>2, <1>4, <1>6
<1>8. PICK e, x : e = Started(s, t) /\ x = MakeActive(m, t)
  OBVIOUS
<1>9. e.active = x /\ e.used = s.used + t.theMemory /\ e.running = s.running + 1
  <2>1. e = [active |-> x, used |-> s.used + t.theMemory, running |-> s.running + 1]
    BY <1>1, <1>8 DEF Started
  <2> QED
    BY <2>1
<1>10. /\ x \in Seq(Tasks) /\ Len(x) = Len(m) + 1 /\ Ids(x) = Ids(m) \cup {t.theId}
       /\ SumMemory(x) = SumMemory(m) + t.theMemory
       /\ Distinct(m) /\ t.theId \notin Ids(m) => Distinct(x)
  BY <1>3, <1>4, <1>8, MakeActiveWith DEF With
<1>11. Exact(x, l)
  BY <1>2, <1>3, <1>4, <1>8, MakeActiveExact
<1>12. Len(x) = Len(a) + k /\ e.running = r + k /\ e.used \in Nat
  <2>1. e.used \in Nat
    BY <1>4, <1>5, <1>9
  <2>2. Len(x) = (Len(a) + (k - 1)) + 1 /\ e.running = (r + (k - 1)) + 1
    BY <1>4, <1>9, <1>10
  <2>3. PICK y : y = Len(a)
    OBVIOUS
  <2>4. (y + (k - 1)) + 1 = y + k /\ (r + (k - 1)) + 1 = r + k
    BY <2>3, <1>1, <1>3
  <2> QED
    BY <2>1, <2>2, <2>3, <2>4
<1>13. e.used + SumMemory(a) = u + SumMemory(x)
  <2>1. PICK o, y, z, w : o = s.used /\ y = SumMemory(a) /\ z = SumMemory(m) /\ w = t.theMemory
    OBVIOUS
  <2>2. o \in Nat /\ y \in Nat /\ z \in Nat /\ w \in Nat /\ o + y = u + z
    BY <2>1, <1>2, <1>4, <1>5, ListValues, TotalAtLeast
  <2>3. (o + w) + y = u + (z + w)
    BY <2>2
  <2> QED
    BY <2>1, <2>3, <1>9, <1>10
<1>14. Ids(x) = Ids(a) \cup IdsUpTo(q, k)
  BY <1>4, <1>6, <1>10
<1>15. Refilled(e, k, q, a, u, r, l)
  BY <1>4, <1>7, <1>9, <1>10, <1>11, <1>12, <1>13, <1>14 DEF Refilled
<1> QED
  BY <1>1, <1>8, <1>15

AllRefilled(f, q, a, u, r, l) ==
  /\ \A k \in 0..Len(q) : Refilled(f[k], k, q, a, u, r, l)
  /\ f[0].used = u
  /\ \A k \in 1..Len(q) : f[k].used = f[k - 1].used + q[k].theMemory

LEMMA RefillOK ==
  ASSUME NEW c, NEW q, q = thePending[c], NEW a, NEW l, ContainerOK(a, q, l), NEW u \in Nat, NEW r \in Nat,
         NEW f, f = Refill(c, a, u, r)
  PROVE  AllRefilled(f, q, a, u, r, l)
<1>1. PICK n, b : n = Len(q) /\ b = [active |-> a, used |-> u, running |-> r]
  OBVIOUS
<1>2. n \in Nat /\ a \in Seq(Tasks)
  BY <1>1 DEF ContainerOK
<1>3. f[0] = b /\ \A k \in 1..n : f[k] = Started(f[k - 1], q[k])
  BY <1>1, <1>2, RefillIs
<1>4. b.active = a /\ b.used = u /\ b.running = r
  BY <1>1
<1>5. Refilled(f[0], 0, q, a, u, r, l)
  <2>1. IdsUpTo(q, 0) = {}
    BY DEF IdsUpTo
  <2>2. Distinct(a) /\ Exact(a, l) /\ Len(a) = Len(a) + 0 /\ r = r + 0
    BY <1>2 DEF ContainerOK
  <2> QED
    BY <2>1, <2>2, <1>2, <1>3, <1>4 DEF Refilled
<1> DEFINE Bad == {k \in 0..n : ~ Refilled(f[k], k, q, a, u, r, l)}
<1>6. Bad = {}
  <2>1. SUFFICES ASSUME Bad # {} PROVE FALSE
    OBVIOUS
  <2>2. PICK k \in Bad : \A j \in Bad : k <= j
    <3>1. Bad \in SUBSET Nat BY <1>2
    <3> HIDE DEF Bad
    <3> QED BY <2>1, <3>1, NatMin
  <2>3. k \in 0..n /\ ~ Refilled(f[k], k, q, a, u, r, l)
    OBVIOUS
  <2>4. k # 0
    BY <2>3, <1>5
  <2>5. k - 1 \in 0..n /\ ~ (k <= k - 1) /\ k \in 1..n
    BY <2>3, <2>4, <1>2
  <2>6. Refilled(f[k - 1], k - 1, q, a, u, r, l)
    <3>1. k - 1 \notin Bad
      <4> HIDE DEF Bad
      <4> QED BY <2>2, <2>5
    <3> QED
      BY <3>1, <2>5
  <2>7. Refilled(Started(f[k - 1], q[k]), k, q, a, u, r, l)
    BY <2>5, <2>6, <1>1, StartedOK
  <2> QED
    BY <2>3, <2>5, <2>7, <1>3
<1>7. ASSUME NEW k \in 1..n
      PROVE  f[k].used = f[k - 1].used + q[k].theMemory
  <2>1. PICK g, t, s : g = f[k - 1] /\ t = q[k] /\ s = f[k]
    OBVIOUS
  <2>2. s = [active |-> MakeActive(g.active, t), used |-> g.used + t.theMemory, running |-> g.running + 1]
    BY <2>1, <1>3 DEF Started
  <2>3. s.used = g.used + t.theMemory
    BY <2>2
  <2> QED
    BY <2>1, <2>3
<1> QED
  BY <1>1, <1>3, <1>4, <1>6, <1>7 DEF AllRefilled

\* The pending tasks without the first k.
Rest(q, k, m) ==
  /\ m \in Seq(Tasks) /\ Len(m) + k = Len(q) /\ Distinct(m)
  /\ Ids(q) = Ids(m) \cup IdsUpTo(q, k) /\ Ids(m) \cap IdsUpTo(q, k) = {}
  /\ \A i \in 1..Len(m) : i + k \in 1..Len(q) /\ m[i] = q[i + k]

LEMMA RestOK ==
  ASSUME NEW q \in Seq(Tasks), Distinct(q), NEW k \in 0..Len(q), NEW m, m = SubSeq(q, k + 1, Len(q))
  PROVE  Rest(q, k, m)
<1>1. PICK n : n = Len(q)
  OBVIOUS
<1>2. n \in Nat /\ k \in 0..n
  BY <1>1
<1>3. m \in Seq(Tasks) /\ Len(m) = n - k /\ \A i \in 1..(n - k) : m[i] = q[i + k]
  BY <1>1, <1>2
<1>4. /\ \A i \in 1..(n - k) : i + k \in 1..n /\ i + k \notin 1..k
      /\ \A i \in 1..n : i \in 1..k \/ (i - k \in 1..(n - k) /\ (i - k) + k = i)
      /\ \A i \in 1..k : i \in 1..n
      /\ \A i, j \in 1..(n - k) : i + k = j + k => i = j
  BY <1>2
<1>5. \A i, j \in 1..n : q[i].theId = q[j].theId => i = j
  BY <1>1 DEF Distinct
<1>6. Distinct(m)
  <2>1. SUFFICES ASSUME NEW i \in 1..(n - k), NEW j \in 1..(n - k), m[i].theId = m[j].theId
                 PROVE  i = j
    BY <1>3 DEF Distinct
  <2>2. q[i + k].theId = q[j + k].theId /\ i + k \in 1..n /\ j + k \in 1..n
    BY <2>1, <1>3, <1>4
  <2>3. i + k = j + k
    BY <2>2, <1>5
  <2> QED
    BY <2>3, <1>4
<1>7. Ids(m) \cap IdsUpTo(q, k) = {}
  <2>1. SUFFICES ASSUME NEW x \in Ids(m), x \in IdsUpTo(q, k)
                 PROVE  FALSE
    OBVIOUS
  <2>2. PICK i \in 1..(n - k) : x = m[i].theId
    BY <1>3, <2>1 DEF Ids
  <2>3. PICK j \in 1..k : x = q[j].theId
    BY <2>1 DEF IdsUpTo
  <2>4. q[i + k].theId = q[j].theId /\ i + k \in 1..n /\ j \in 1..n /\ i + k \notin 1..k
    BY <2>2, <2>3, <1>3, <1>4
  <2>5. i + k = j
    BY <2>4, <1>5
  <2> QED
    BY <2>4, <2>5
<1>8. Ids(q) = Ids(m) \cup IdsUpTo(q, k)
  <2>1. ASSUME NEW x \in Ids(q)
        PROVE  x \in Ids(m) \cup IdsUpTo(q, k)
    <3>1. PICK i \in 1..n : x = q[i].theId
      BY <1>1, <2>1 DEF Ids
    <3>2. CASE i \in 1..k
      BY <3>1, <3>2 DEF IdsUpTo
    <3>3. CASE i - k \in 1..(n - k) /\ (i - k) + k = i
      <4>1. x = m[i - k].theId
        BY <3>1, <3>3, <1>3
      <4> QED
        BY <4>1, <3>3, <1>3 DEF Ids
    <3> QED
      BY <3>2, <3>3, <1>4
  <2>2. ASSUME NEW x \in Ids(m)
        PROVE  x \in Ids(q)
    <3>1. PICK i \in 1..(n - k) : x = m[i].theId
      BY <1>3, <2>2 DEF Ids
    <3> QED
      BY <3>1, <1>1, <1>3, <1>4 DEF Ids
  <2>3. IdsUpTo(q, k) \subseteq Ids(q)
    BY <1>1, <1>4 DEF Ids, IdsUpTo
  <2> QED
    BY <2>1, <2>2, <2>3
<1>9. Len(m) + k = n
  BY <1>2, <1>3
<1> QED
  BY <1>1, <1>3, <1>4, <1>6, <1>7, <1>8, <1>9 DEF Rest

\* pop() stops somewhere, and the memory is enough for the tasks it started.
LEMMA StopsSomewhere ==
  ASSUME NEW c, NEW f, NEW n, n = Len(thePending[c]), n \in Nat,
         NEW k, k = CHOOSE i \in 0..n : Stops(c, f[i], i) /\ \A j \in 0..i - 1 : ~ Stops(c, f[j], j)
  PROVE  k \in 0..n /\ Stops(c, f[k], k) /\ \A j \in 0..k - 1 : ~ Stops(c, f[j], j)
<1> DEFINE Stop == {i \in 0..n : Stops(c, f[i], i)}
<1>1. n \in Stop
  BY DEF Stops
<1>2. PICK i \in Stop : \A j \in Stop : i <= j
  <2>1. Stop \in SUBSET Nat OBVIOUS
  <2> HIDE DEF Stop
  <2> QED BY <1>1, <2>1, NatMin
<1>3. i \in 0..n /\ Stops(c, f[i], i)
  OBVIOUS
<1>4. ASSUME NEW j \in 0..i - 1
      PROVE  ~ Stops(c, f[j], j)
  <2>1. j \in 0..n /\ ~ (i <= j)
    BY <1>3
  <2>2. j \notin Stop
    <3> HIDE DEF Stop
    <3> QED BY <2>1, <1>2
  <2> QED
    BY <2>1, <2>2
<1>5. \E x \in 0..n : Stops(c, f[x], x) /\ \A j \in 0..x - 1 : ~ Stops(c, f[j], j)
  BY <1>3, <1>4
<1> QED
  BY <1>5

LEMMA PopStep ==
  ASSUME IInv, NEW c \in Containers, Pop(c)
  PROVE  IInv'
<1>1. PICK a, q, p, t, n : /\ a = theActive[c] /\ q = thePending[c] /\ p = host[c] /\ t = Head(a)
                           /\ n = Len(q)
  OBVIOUS
<1>2. PICK b, u, r : b = Tail(a) /\ u = theMemUsed[p] - t.theMemory /\ r = theRunning[p] - 1
  OBVIOUS
<1>3. PICK f : f = Refill(c, b, u, r)
  OBVIOUS
<1>4. PICK k : k = CHOOSE i \in 0..n : Stops(c, f[i], i) /\ \A j \in 0..i - 1 : ~ Stops(c, f[j], j)
  OBVIOUS
<1>5. /\ Ready(a)
      /\ theActive' = [theActive EXCEPT ![c] = f[k].active]
      /\ thePending' = [thePending EXCEPT ![c] = StillPending(c, k)]
      /\ theMemUsed' = [theMemUsed EXCEPT ![p] = f[k].used]
      /\ theRunning' = [theRunning EXCEPT ![p] = f[k].running]
      /\ called' = called \cup {t.theId}
      /\ host' = host /\ theChrono' = theChrono /\ theNewTask' = theNewTask /\ theNextId' = theNextId
      /\ cursor' = cursor /\ refused' = refused /\ left' = left
  BY <1>1, <1>2, <1>3, <1>4 DEF Pop
<1>6. ListsOK(host, theActive, thePending, theMemUsed, theRunning, theNextId, called, refused, left)
  BY DEF IInv
<1>7. /\ ContainerOK(a, q, left) /\ a \in Seq(Tasks) /\ q \in Seq(Tasks) /\ n \in Nat
      /\ Distinct(a) /\ Distinct(q) /\ Exact(a, left) /\ Ids(a) \cap Ids(q) = {}
      /\ \A i \in 1..Len(q) : left[q[i].theId] = q[i].theResidualOps
  <2>1. ContainerOK(a, q, left)
    BY <1>1, <1>6 DEF ListsOK
  <2>2. q \in Seq(Tasks) /\ n \in Nat
    BY <1>1, <2>1 DEF ContainerOK
  <2> QED
    BY <2>1, <2>2 DEF ContainerOK
<1>8. a # <<>> /\ a[1].theResidualOps = 0
  BY <1>5 DEF Ready
<1>9. /\ t \in Tasks /\ b \in Seq(Tasks) /\ Len(a) = Len(b) + 1
      /\ Ids(a) = Ids(b) \cup {t.theId} /\ t.theId \notin Ids(b) /\ Distinct(b)
      /\ SumMemory(a) = SumMemory(b) + t.theMemory
      /\ Exact(b, left) /\ left[t.theId] = 0
  BY <1>1, <1>2, <1>7, <1>8, TailOK
<1>10. ContainerOK(b, q, left)
  BY <1>7, <1>9 DEF ContainerOK
<1>11. /\ SumMemory(a) \in Nat /\ SumMemory(b) \in Nat /\ Len(a) \in Nat /\ Len(b) \in Nat
       /\ t.theMemory \in Nat
  BY <1>7, <1>9, ListValues, TotalAtLeast, TaskType
<1>12. /\ host \in [Containers -> Processors] /\ p \in Processors /\ theNextId \in 0..MaxTasks
       /\ theNextId \in Nat /\ MemTotal \in Nat
       /\ theMemUsed \in [Processors -> 0..MemTotal] /\ theRunning \in [Processors -> Nat]
       /\ theActive \in [Containers -> Seq(Tasks)]
  BY <1>1, <1>6, ComputerAssumption DEF ListsOK, CountersOK
<1>13. SumMemory(a) <= theMemUsed[p] /\ Len(a) <= theRunning[p]
  <2>1. PICK x, y : x = Memories(theActive) /\ y = Lengths(theActive)
    OBVIOUS
  <2>2. \A l \in Seq(Tasks) : SumMemory(l) \in Nat /\ Len(l) \in Nat
    BY ListValues, TotalAtLeast
  <2>3. x \in [Containers -> Nat] /\ x[c] = SumMemory(a) /\ y \in [Containers -> Nat] /\ y[c] = Len(a)
    BY <2>1, <2>2, <1>1, <1>12 DEF Memories, Lengths
  <2>4. x[c] <= TotalIn(host, p, x)
    BY <2>3, <1>1, TotalInAtLeast
  <2>5. y[c] <= TotalIn(host, p, y)
    BY <2>3, <1>1, TotalInAtLeast
  <2>6. theMemUsed[p] = TotalIn(host, p, x) /\ theRunning[p] = TotalIn(host, p, y)
    BY <2>1, <1>6, <1>12 DEF ListsOK, CountersOK
  <2> QED
    BY <2>3, <2>4, <2>5, <2>6
<1>14. PICK o, g : o = theMemUsed[p] /\ g = theRunning[p]
  OBVIOUS
<1>15. o \in 0..MemTotal /\ o \in Nat /\ o <= MemTotal /\ g \in Nat
  BY <1>12, <1>14
<1>16. u \in Nat /\ u <= MemTotal /\ u + t.theMemory = o
  <2>1. PICK x, y : x = SumMemory(b) /\ y = t.theMemory
    OBVIOUS
  <2>2. x \in Nat /\ y \in Nat /\ x + y <= o /\ u = o - y
    BY <2>1, <1>2, <1>9, <1>11, <1>13, <1>14
  <2>3. o - y \in Nat /\ o - y <= MemTotal /\ (o - y) + y = o
    BY <2>2, <1>12, <1>15
  <2> QED
    BY <2>1, <2>2, <2>3
<1>17. r \in Nat /\ r + 1 = g
  <2>1. PICK x : x = Len(b)
    OBVIOUS
  <2>2. x \in Nat /\ x + 1 <= g /\ r = g - 1
    BY <2>1, <1>2, <1>9, <1>11, <1>13, <1>14
  <2> QED
    BY <2>2, <1>15
<1>18. /\ \A i \in 0..n : Refilled(f[i], i, q, b, u, r, left)
       /\ f[0].used = u
       /\ \A i \in 1..n : f[i].used = f[i - 1].used + q[i].theMemory
  <2>1. q = thePending[c] /\ ContainerOK(b, q, left) /\ u \in Nat /\ r \in Nat /\ f = Refill(c, b, u, r)
    BY <1>1, <1>3, <1>10, <1>16, <1>17
  <2>2. AllRefilled(f, q, b, u, r, left)
    BY <2>1, RefillOK
  <2> QED
    BY <2>2, <1>1 DEF AllRefilled
<1>19. k \in 0..n /\ \A j \in 0..k - 1 : ~ Stops(c, f[j], j)
  BY <1>1, <1>4, <1>7, StopsSomewhere
<1>20. PICK s, m, q2, v, w : /\ s = f[k] /\ m = s.active /\ q2 = StillPending(c, k)
                             /\ v = s.used /\ w = s.running
  OBVIOUS
<1>21. /\ m \in Seq(Tasks) /\ Len(m) = Len(b) + k /\ Ids(m) = Ids(b) \cup IdsUpTo(q, k)
       /\ Distinct(m) /\ Exact(m, left) /\ v \in Nat /\ v + SumMemory(b) = u + SumMemory(m) /\ w = r + k
  BY <1>18, <1>19, <1>20 DEF Refilled
<1>22. v <= MemTotal
  <2>1. CASE k = 0
    BY <2>1, <1>16, <1>18, <1>20
  <2>2. CASE k # 0
    <3>1. /\ k - 1 \in 0..(k - 1) /\ k - 1 \in 0..n /\ k \in 1..n /\ (k - 1) + 1 = k /\ k - 1 # n
      BY <2>2, <1>7, <1>19
    <3>2. ~ Stops(c, f[k - 1], k - 1)
      BY <3>1, <1>19
    <3>3. PICK y, z : y = f[k - 1].used /\ z = q[k].theMemory
      OBVIOUS
    <3>4. ~ (MemTotal - y < z)
      BY <3>1, <3>2, <3>3, <1>1 DEF Stops, MemAvailable
    <3>5. z \in Nat
      BY <3>1, <3>3, <1>1, <1>7, TaskType
    <3>6. Refilled(f[k - 1], k - 1, q, b, u, r, left)
      BY <3>1, <1>18
    <3>7. y \in Nat
      BY <3>3, <3>6 DEF Refilled
    <3>8. v = y + z
      BY <3>1, <3>3, <1>18, <1>20
    <3> QED
      BY <3>4, <3>5, <3>7, <3>8, <1>12
  <2> QED
    BY <2>1, <2>2
<1>23. /\ q2 \in Seq(Tasks) /\ Len(q2) + k = Len(q) /\ Distinct(q2)
       /\ Ids(q) = Ids(q2) \cup IdsUpTo(q, k) /\ Ids(q2) \cap IdsUpTo(q, k) = {}
       /\ \A i \in 1..Len(q2) : i + k \in 1..Len(q) /\ q2[i] = q[i + k]
  <2>1. q2 = SubSeq(q, k + 1, Len(q)) /\ k \in 0..Len(q)
    BY <1>1, <1>19, <1>20 DEF StillPending
  <2>2. q \in Seq(Tasks) /\ Distinct(q)
    BY <1>7
  <2>3. Rest(q, k, q2)
    BY <2>1, <2>2, RestOK
  <2> QED
    BY <2>3 DEF Rest
<1>24. ContainerOK(m, q2, left)
  <2>1. Ids(m) \cap Ids(q2) = {}
    BY <1>7, <1>9, <1>21, <1>23
  <2>2. \A i \in 1..Len(q2) : left[q2[i].theId] = q2[i].theResidualOps
    BY <1>7, <1>23
  <2> QED
    BY <2>1, <2>2, <1>21, <1>23 DEF ContainerOK
<1>25. PICK held, x : held = HeldBy(theActive, thePending) /\ x = t.theId
  OBVIOUS
<1>26. IdsOK([held EXCEPT ![c] = Ids(m) \cup Ids(q2)], theNextId, called \cup {x}, refused)
  <2>1. IdsOK(held, theNextId, called, refused) /\ held[c] = Ids(a) \cup Ids(q)
    BY <1>1, <1>6, <1>25 DEF ListsOK, HeldBy
  <2>2. x \in held[c] /\ Ids(m) \cup Ids(q2) = held[c] \ {x}
    BY <2>1, <1>7, <1>9, <1>21, <1>23, <1>25
  <2> QED
    BY <2>1, <2>2, <1>12, IdsBack
<1>27. LeftOK(left, theNextId, called \cup {x}, refused)
  BY <1>6, <1>9, <1>25 DEF ListsOK, LeftOK
<1>28. /\ v + SumMemory(theActive[c]) = theMemUsed[host[c]] + SumMemory(m)
       /\ w + Len(theActive[c]) = theRunning[host[c]] + Len(m)
       /\ Len(m) + Len(q2) + theNextId <= Len(theActive[c]) + Len(thePending[c]) + theNextId
  <2>1. PICK y, z, d, e : y = SumMemory(b) /\ z = t.theMemory /\ d = SumMemory(m) /\ e = Len(b)
    OBVIOUS
  <2>2. y \in Nat /\ z \in Nat /\ d \in Nat /\ e \in Nat /\ v + y = u + d /\ u + z = o
    BY <2>1, <1>11, <1>16, <1>21, ListValues, TotalAtLeast
  <2>3. v + (y + z) = o + d
    BY <2>2, <1>15, <1>16, <1>21
  <2>4. (r + k) + (e + 1) = g + (e + k)
    BY <2>2, <1>7, <1>15, <1>17, <1>19
  <2>5. (e + k) + Len(q2) + theNextId <= (e + 1) + Len(q) + theNextId
    <3>1. Len(q2) \in Nat /\ Len(q) \in Nat /\ k \in Nat
      BY <1>1, <1>7, <1>19, <1>23
    <3> QED
      BY <3>1, <2>2, <1>12, <1>23
  <2> QED
    BY <2>1, <2>3, <2>4, <2>5, <1>1, <1>9, <1>14, <1>21
<1>29. Replaceable(host, theActive, thePending, theMemUsed, theRunning, theNextId, refused, left,
                   c, m, q2, v, w, theNextId, called \cup {x}, left)
  <2>1. v \in 0..MemTotal /\ w \in Nat /\ theNextId <= theNextId
    BY <1>7, <1>12, <1>17, <1>19, <1>21, <1>22
  <2> QED
    BY <2>1, <1>12, <1>24, <1>25, <1>26, <1>27, <1>28 DEF Replaceable
<1>30. ListsOK(host, [theActive EXCEPT ![c] = m], [thePending EXCEPT ![c] = q2],
               [theMemUsed EXCEPT ![host[c]] = v], [theRunning EXCEPT ![host[c]] = w], theNextId,
               called \cup {x}, refused, left)
  BY <1>6, <1>29, Replace
<1>31. ListsOK(host', theActive', thePending', theMemUsed', theRunning', theNextId', called', refused', left')
  BY <1>1, <1>5, <1>20, <1>25, <1>30
<1> QED
  BY <1>5, <1>31 DEF IInv

-----------------------------------------------------------------------------
(***************************************************************************)
(* The other steps, and the initial states.                                *)
(***************************************************************************)
LEMMA TotalZero ==
  ASSUME NEW v \in Seq(Nat), \A i \in 1..Len(v) : v[i] = 0
  PROVE  Total(v) = 0
<1>1. PICK s, n : s = Sums(v) /\ n = Len(v)
  OBVIOUS
<1>2. n \in Nat /\ s[0] = 0 /\ \A i \in 1..n : s[i] = s[i - 1] + v[i]
  BY <1>1, SumsOK DEF IsSums
<1> DEFINE Bad == {i \in 0..n : s[i] # 0}
<1>3. Bad = {}
  <2>1. SUFFICES ASSUME Bad # {} PROVE FALSE
    OBVIOUS
  <2>2. PICK m \in Bad : \A j \in Bad : m <= j
    <3>1. Bad \in SUBSET Nat BY <1>2
    <3> HIDE DEF Bad
    <3> QED BY <2>1, <3>1, NatMin
  <2>3. m \in 0..n /\ s[m] # 0
    OBVIOUS
  <2>4. m - 1 \in 0..n /\ ~ (m <= m - 1) /\ m \in 1..n
    BY <2>3, <1>2
  <2>5. s[m - 1] = 0
    <3>1. m - 1 \notin Bad
      <4> HIDE DEF Bad
      <4> QED BY <2>2, <2>4
    <3> QED
      BY <3>1, <2>4
  <2>6. s[m] = 0 + 0
    BY <2>4, <2>5, <1>1, <1>2
  <2> QED
    BY <2>3, <2>6
<1>4. n \in 0..n
  BY <1>2
<1> QED
  BY <1>1, <1>3, <1>4 DEF Total

LEMMA InitOK ==
  ASSUME Init
  PROVE  IInv
<1>1. /\ host \in [Containers -> Processors]
      /\ theActive = [c \in Containers |-> <<>>] /\ thePending = [c \in Containers |-> <<>>]
      /\ theMemUsed = [p \in Processors |-> 0] /\ theRunning = [p \in Processors |-> 0]
      /\ theChrono = FALSE /\ theNewTask = FALSE /\ theNextId = 0 /\ cursor = 0
      /\ called = {} /\ refused = {} /\ left = <<>>
  BY DEF Init
<1>2. PICK e : e = <<>>
  OBVIOUS
<1>3. e \in Seq(Tasks) /\ Len(e) = 0 /\ 1..Len(e) = {}
  BY <1>2
<1>4. Ids(e) = {} /\ Distinct(e) /\ Exact(e, left)
  BY <1>3 DEF Ids, Distinct, Exact
<1>5. ContainerOK(e, e, left)
  BY <1>3, <1>4 DEF ContainerOK
<1>6. \A c \in Containers : theActive[c] = e /\ thePending[c] = e
  BY <1>1, <1>2
<1>7. 0..(0 - 1) = {}
  OBVIOUS
<1>8. IdsOK(HeldBy(theActive, thePending), 0, {}, {})
  <2>1. HeldBy(theActive, thePending) = [c \in Containers |-> {}]
    BY <1>4, <1>6 DEF HeldBy
  <2> QED
    BY <2>1, <1>7 DEF IdsOK
<1>9. LeftOK(left, 0, {}, {})
  <2>1. left \in [1..0 -> Nat]
    BY <1>1
  <2>2. 1..0 = (0..(0 - 1)) \ {}
    OBVIOUS
  <2> QED
    BY <2>1, <2>2 DEF LeftOK
<1>10. SumMemory(e) = 0
  <2>1. Memory(e) \in Seq(Nat) /\ Len(Memory(e)) = 0 /\ SumMemory(e) = Total(Memory(e))
    BY <1>3, ListValues
  <2>2. \A i \in 1..Len(Memory(e)) : Memory(e)[i] = 0
    BY <2>1
  <2> QED
    BY <2>1, <2>2, TotalZero
<1>11. ASSUME NEW p \in Processors, NEW x \in [Containers -> Nat], \A c \in Containers : x[c] = 0
       PROVE  TotalIn(host, p, x) = 0
  <2>1. PICK v : v = InProcessor(host, p, x)
    OBVIOUS
  <2>2. /\ v \in Seq(Nat) /\ Len(v) = NumContainers /\ TotalIn(host, p, x) = Total(v)
        /\ \A c \in Containers : v[c] = IF host[c] = p THEN x[c] ELSE 0
    BY <2>1, InProcessorIs
  <2>3. \A i \in 1..Len(v) : v[i] = 0
    BY <2>2, <1>11 DEF Containers
  <2> QED
    BY <2>2, <2>3, TotalZero
<1>12. CountersOK(host, theActive, thePending, theMemUsed, theRunning, 0)
  <2>1. /\ Memories(theActive) \in [Containers -> Nat] /\ Lengths(theActive) \in [Containers -> Nat]
        /\ Lengths(thePending) \in [Containers -> Nat]
        /\ \A c \in Containers : /\ Memories(theActive)[c] = 0 /\ Lengths(theActive)[c] = 0
                                 /\ Lengths(thePending)[c] = 0
    BY <1>3, <1>6, <1>10 DEF Memories, Lengths
  <2>2. \A p \in Processors : /\ TotalIn(host, p, Memories(theActive)) = 0
                              /\ TotalIn(host, p, Lengths(theActive)) = 0
                              /\ TotalIn(host, p, Lengths(thePending)) = 0
    BY <2>1, <1>11
  <2>3. /\ theMemUsed \in [Processors -> 0..MemTotal] /\ theRunning \in [Processors -> Nat]
        /\ \A p \in Processors : theMemUsed[p] = 0 /\ theRunning[p] = 0
    BY <1>1, ComputerAssumption
  <2> QED
    BY <2>2, <2>3 DEF CountersOK
<1>13. theActive \in [Containers -> Seq(Tasks)] /\ thePending \in [Containers -> Seq(Tasks)]
  BY <1>1
<1>14. 0 \in 0..MaxTasks /\ 0 \in 0..NumContainers
  BY ComputerAssumption
<1>15. ListsOK(host, theActive, thePending, theMemUsed, theRunning, theNextId, called, refused, left)
  BY <1>1, <1>5, <1>6, <1>8, <1>9, <1>12, <1>13, <1>14 DEF ListsOK
<1> QED
  BY <1>1, <1>14, <1>15 DEF IInv

LEMMA NextOK ==
  ASSUME IInv, [Next]_vars
  PROVE  IInv'
<1>1. ASSUME NEW c \in Containers, NEW q \in Requirements, NEW time \in Elapsed, AddTask(c, q, time)
      PROVE  IInv'
  BY <1>1, AddTaskStep
<1>2. ASSUME NEW c \in Containers, NEW q \in Requirements, NEW time \in Elapsed, AddTaskThrows(c, q, time)
      PROVE  IInv'
  BY <1>2, AddTaskThrowsStep
<1>3. ASSUME NEW time \in Elapsed, DispatcherWake(time)
      PROVE  IInv'
  <2>1. PICK na, nl : na = Paused(time) /\ nl = LeftAfter(time)
    OBVIOUS
  <2>2. ListsOK(host, na, thePending, theMemUsed, theRunning, theNextId, called, refused, nl)
    BY <2>1, PausedOK
  <2>3. /\ host' = host /\ theActive' = na /\ thePending' = thePending /\ theMemUsed' = theMemUsed
        /\ theRunning' = theRunning /\ theNextId' = theNextId /\ called' = called
        /\ refused' = refused /\ left' = nl /\ theChrono' = FALSE /\ theNewTask' = FALSE /\ cursor' = 1
    BY <1>3, <2>1 DEF DispatcherWake
  <2>4. 1 \in 0..NumContainers
    BY ComputerAssumption
  <2> QED
    BY <2>2, <2>3, <2>4 DEF IInv
<1>4. ASSUME NEW c \in Containers, Pop(c)
      PROVE  IInv'
  BY <1>4, PopStep
<1>5. ASSUME NEW c \in Containers, NextContainer(c)
      PROVE  IInv'
  <2>1. c + 1 \in 0..NumContainers
    BY <1>5, ComputerAssumption DEF NextContainer, Containers
  <2> QED
    BY <1>5, <2>1 DEF NextContainer, IInv
<1>6. ASSUME DispatcherWait
      PROVE  IInv'
  <2>1. 0 \in 0..NumContainers /\ SomeActive(theActive) \in BOOLEAN
    BY ComputerAssumption DEF SomeActive
  <2> QED
    BY <1>6, <2>1 DEF DispatcherWait, IInv
<1>7. ASSUME UNCHANGED vars
      PROVE  IInv'
  BY <1>7 DEF vars, IInv
<1>8. ASSUME NothingToDo
      PROVE  IInv'
  BY <1>7, <1>8 DEF NothingToDo
<1> QED
  BY <1>1, <1>2, <1>3, <1>4, <1>5, <1>6, <1>7, <1>8 DEF Next, DispatcherPass

\* The lists, the counters and the operations left always agree, for all
\* numbers of containers, processors, workers, cores and tasks, all memory
\* sizes and all requirements of the requests.
THEOREM ComputerInvariant == Spec => []IInv
  BY InitOK, NextOK, PTL DEF Spec

-----------------------------------------------------------------------------
(***************************************************************************)
(* The properties.                                                         *)
(***************************************************************************)

\* Every variable keeps its type: in particular no processor has more memory
\* in use than it has, whatever Container::push and pop start.
THEOREM ComputerTypeOK == Spec => []TypeOK
<1>1. ASSUME IInv
      PROVE  TypeOK
  <2>1. ListsOK(host, theActive, thePending, theMemUsed, theRunning, theNextId, called, refused, left)
    BY <1>1 DEF IInv
  <2>2. theNextId \in 0..MaxTasks /\ theNextId \in Nat /\ MaxTasks \in Nat
    BY <2>1, ComputerAssumption DEF ListsOK
  <2>3. 0..(theNextId - 1) \subseteq 0..MaxTasks - 1
    BY <2>2
  <2>4. called \subseteq 0..MaxTasks - 1 /\ refused \subseteq 0..MaxTasks - 1
    BY <2>1, <2>3 DEF ListsOK, IdsOK
  <2>5. left \in [DOMAIN left -> Nat]
    BY <2>1 DEF ListsOK, LeftOK
  <2>6. theMemUsed \in [Processors -> 0..MemTotal] /\ theRunning \in [Processors -> Nat]
    BY <2>1 DEF ListsOK, CountersOK
  <2>7. ASSUME NEW p \in Processors
        PROVE  theRunning[p] \in 0..MaxTasks
    <3>1. PICK w, x : w = Lengths(thePending) /\ x = TotalIn(host, p, w)
      OBVIOUS
    <3>2. w \in [Containers -> Nat] /\ 1 \in Containers
      BY <3>1, <2>1, ComputerAssumption DEF ListsOK, Lengths, Containers
    <3>3. x \in Nat
      BY <3>1, <3>2, TotalInAtLeast
    <3>4. theRunning[p] + x <= theNextId
      BY <3>1, <2>1 DEF ListsOK, CountersOK
    <3>5. PICK y : y = theRunning[p]
      OBVIOUS
    <3>6. y \in Nat /\ y + x <= theNextId
      BY <3>4, <3>5, <2>6
    <3>7. y \in 0..MaxTasks
      BY <3>3, <3>6, <2>2
    <3> QED
      BY <3>5, <3>7
  <2>8. theRunning \in [Processors -> 0..MaxTasks]
    BY <2>6, <2>7
  <2>9. /\ host \in [Containers -> Processors] /\ theActive \in [Containers -> Seq(Tasks)]
        /\ thePending \in [Containers -> Seq(Tasks)]
    BY <2>1 DEF ListsOK
  <2> QED
    BY <1>1, <2>2, <2>4, <2>5, <2>6, <2>8, <2>9 DEF TypeOK, IInv
<1> QED
  BY <1>1, ComputerInvariant, PTL

\* theMemUsed and theRunning of a processor are the totals over the active
\* tasks of the containers that share it, and the memory is never overcommitted.
THEOREM ComputerMemoryAccounting == Spec => []MemoryAccounting
<1>1. ASSUME IInv
      PROVE  MemoryAccounting
  <2>1. CountersOK(host, theActive, thePending, theMemUsed, theRunning, theNextId)
    BY <1>1 DEF IInv, ListsOK
  <2>2. /\ Memories(theActive) = [c \in Containers |-> SumMemory(theActive[c])]
        /\ Lengths(theActive) = [c \in Containers |-> Len(theActive[c])]
    BY DEF Memories, Lengths
  <2>3. ASSUME NEW p \in Processors
        PROVE  /\ theMemUsed[p] <= MemTotal
               /\ theMemUsed[p] = TotalOf(p, [c \in Containers |-> SumMemory(theActive[c])])
               /\ theRunning[p] = TotalOf(p, [c \in Containers |-> Len(theActive[c])])
    <3>1. /\ theMemUsed[p] \in 0..MemTotal /\ theMemUsed[p] = TotalIn(host, p, Memories(theActive))
          /\ theRunning[p] = TotalIn(host, p, Lengths(theActive))
      BY <2>1 DEF CountersOK
    <3>2. theMemUsed[p] <= MemTotal
      BY <3>1, ComputerAssumption
    <3> QED
      BY <3>1, <3>2, <2>2, TotalOfHost
  <2> QED
    BY <2>3 DEF MemoryAccounting
<1> QED
  BY <1>1, ComputerInvariant, PTL

\* The differences makeActive and advance keep are right: up to each active
\* task they sum to the operations the task has still to run, and a task is
\* called back only when none are left.
THEOREM ComputerResidualExact == Spec => []ResidualExact
<1>1. ASSUME IInv
      PROVE  ResidualExact
  <2>1. \A c \in Containers : Exact(theActive[c], left)
    BY <1>1 DEF IInv, ListsOK, ContainerOK
  <2>2. \A i \in called : left[i] = 0
    BY <1>1 DEF IInv, ListsOK, LeftOK
  <2> QED
    BY <2>1, <2>2 DEF ResidualExact, Exact
<1> QED
  BY <1>1, ComputerInvariant, PTL

\* A task held in lists is at one place of them; any other one at none.
LEMMA PlacesCount ==
  ASSUME NEW lists, NEW i, \A c \in Containers : Len(lists[c]) \in Nat /\ Len(lists[c]) <= MaxTasks
  PROVE  /\ (\A c \in Containers : i \notin Ids(lists[c])) => Cardinality(Places(lists, i)) = 0
         /\ \A c \in Containers :
              /\ i \in Ids(lists[c]) /\ Distinct(lists[c])
              /\ \A d \in Containers : i \in Ids(lists[d]) => d = c
              => Cardinality(Places(lists, i)) = 1
<1>1. MaxTasks \in Nat
  BY ComputerAssumption
<1>2. ASSUME NEW p \in Places(lists, i)
      PROVE  /\ p[1] \in Containers /\ p[2] \in 1..Len(lists[p[1]]) /\ lists[p[1]][p[2]].theId = i
             /\ i \in Ids(lists[p[1]]) /\ p = <<p[1], p[2]>>
  <2>1. /\ p \in Containers \X (1..MaxTasks) /\ p[2] <= Len(lists[p[1]])
        /\ lists[p[1]][p[2]].theId = i
    BY DEF Places
  <2>2. p[1] \in Containers /\ p[2] \in 1..MaxTasks /\ p = <<p[1], p[2]>>
    BY <2>1
  <2>3. p[2] \in 1..Len(lists[p[1]])
    BY <2>1, <2>2, <1>1
  <2> QED
    BY <2>1, <2>2, <2>3 DEF Ids
<1>3. ASSUME \A c \in Containers : i \notin Ids(lists[c])
      PROVE  Cardinality(Places(lists, i)) = 0
  <2>1. Places(lists, i) = {}
    BY <1>2, <1>3
  <2> QED
    BY <2>1, FS_EmptySet
<1>4. ASSUME NEW c \in Containers, i \in Ids(lists[c]), Distinct(lists[c]),
             \A d \in Containers : i \in Ids(lists[d]) => d = c
      PROVE  Cardinality(Places(lists, i)) = 1
  <2>1. PICK k \in 1..Len(lists[c]) : i = lists[c][k].theId
    BY <1>4 DEF Ids
  <2>2. k \in 1..MaxTasks /\ k <= Len(lists[c])
    BY <1>1
  <2>3. PICK e : e = <<c, k>>
    OBVIOUS
  <2>4. e \in Places(lists, i)
    <3>1. e \in Containers \X (1..MaxTasks) /\ e[1] = c /\ e[2] = k
      BY <2>2, <2>3
    <3> QED
      BY <3>1, <2>1, <2>2 DEF Places
  <2>5. ASSUME NEW p \in Places(lists, i)
        PROVE  p = e
    <3>1. /\ p[1] \in Containers /\ p[2] \in 1..Len(lists[p[1]]) /\ lists[p[1]][p[2]].theId = i
          /\ i \in Ids(lists[p[1]]) /\ p = <<p[1], p[2]>>
      BY <1>2
    <3>2. p[1] = c
      BY <3>1, <1>4
    <3>3. p[2] = k
      BY <3>1, <3>2, <2>1, <1>4 DEF Distinct
    <3> QED
      BY <3>1, <3>2, <3>3, <2>3
  <2>6. Places(lists, i) = {e}
    BY <2>4, <2>5
  <2> QED
    BY <2>6, FS_Singleton
<1> QED
  BY <1>3, <1>4

LEMMA InOneSet ==
  ASSUME NEW i, NEW S
  PROVE  /\ i \in S => Cardinality({i} \cap S) = 1
         /\ i \notin S => Cardinality({i} \cap S) = 0
<1>1. ASSUME i \in S
      PROVE  Cardinality({i} \cap S) = 1
  <2>1. {i} \cap S = {i}
    BY <1>1
  <2> QED
    BY <2>1, FS_Singleton
<1>2. ASSUME i \notin S
      PROVE  Cardinality({i} \cap S) = 0
  <2>1. {i} \cap S = {}
    BY <1>2
  <2> QED
    BY <2>1, FS_EmptySet
<1> QED
  BY <1>1, <1>2

\* Each task that addTask numbered is refused, called back, active or pending,
\* in one place only: pop() and push() neither lose nor duplicate tasks.
THEOREM ComputerTaskConserved == Spec => []TaskConserved
<1>1. ASSUME IInv
      PROVE  TaskConserved
  <2>1. ListsOK(host, theActive, thePending, theMemUsed, theRunning, theNextId, called, refused, left)
    BY <1>1 DEF IInv
  <2>2. SUFFICES ASSUME NEW i \in 0..theNextId - 1
                 PROVE  Cardinality(Places(theActive, i)) + Cardinality(Places(thePending, i))
                          + Cardinality({i} \cap called) + Cardinality({i} \cap refused) = 1
    BY DEF TaskConserved
  <2>3. PICK w, x, y, z : /\ w = Cardinality(Places(theActive, i)) /\ x = Cardinality(Places(thePending, i))
                          /\ y = Cardinality({i} \cap called) /\ z = Cardinality({i} \cap refused)
    OBVIOUS
  <2>4. \A c \in Containers : /\ Len(theActive[c]) \in Nat /\ Len(theActive[c]) <= MaxTasks
                              /\ Len(thePending[c]) \in Nat /\ Len(thePending[c]) <= MaxTasks
    BY <2>1, LengthsBound
  <2>5. \A c \in Containers : Distinct(theActive[c]) /\ Distinct(thePending[c])
    BY <2>1 DEF ListsOK, ContainerOK
  <2>6. /\ (i \in called => y = 1) /\ (i \notin called => y = 0)
        /\ (i \in refused => z = 1) /\ (i \notin refused => z = 0)
    BY <2>3, InOneSet
  <2>7. called \cap refused = {}
    BY <2>1 DEF ListsOK, IdsOK
  <2>8. (\A c \in Containers : i \notin Ids(theActive[c])) => w = 0
    BY <2>3, <2>4, PlacesCount
  <2>9. (\A c \in Containers : i \notin Ids(thePending[c])) => x = 0
    BY <2>3, <2>4, PlacesCount
  <2>10. CASE \E c \in Containers : i \in Ids(theActive[c])
    <3>1. PICK c \in Containers : i \in Ids(theActive[c])
      BY <2>10
    <3>2. /\ i \notin called /\ i \notin refused
          /\ \A d \in Containers : i \notin Ids(thePending[d])
          /\ \A d \in Containers : i \in Ids(theActive[d]) => d = c
      BY <3>1, <2>1, OnePlace
    <3>3. w = 1
      BY <3>1, <3>2, <2>3, <2>4, <2>5, PlacesCount
    <3>4. w + x + y + z = 1
      BY <3>2, <3>3, <2>6, <2>9
    <3> QED
      BY <3>4, <2>3
  <2>11. CASE \E c \in Containers : i \in Ids(thePending[c])
    <3>1. PICK c \in Containers : i \in Ids(thePending[c])
      BY <2>11
    <3>2. /\ i \notin called /\ i \notin refused
          /\ \A d \in Containers : i \notin Ids(theActive[d])
          /\ \A d \in Containers : i \in Ids(thePending[d]) => d = c
      BY <3>1, <2>1, OnePlace
    <3>3. x = 1
      BY <3>1, <3>2, <2>3, <2>4, <2>5, PlacesCount
    <3>4. w + x + y + z = 1
      BY <3>2, <3>3, <2>6, <2>8
    <3> QED
      BY <3>4, <2>3
  <2>12. CASE i \in called \cup refused
    <3>1. \A c \in Containers : i \notin Ids(theActive[c]) /\ i \notin Ids(thePending[c])
      BY <2>12, <2>1, OnePlace
    <3>2. w + x + y + z = 1
      BY <3>1, <2>6, <2>7, <2>8, <2>9, <2>12
    <3> QED
      BY <3>2, <2>3
  <2>13. i \in called \cup refused \/ \E c \in Containers : i \in HeldBy(theActive, thePending)[c]
    BY <2>1 DEF ListsOK, IdsOK
  <2>14. i \in called \cup refused \/ \E c \in Containers : i \in Ids(theActive[c]) \cup Ids(thePending[c])
    BY <2>13 DEF HeldBy
  <2> QED
    BY <2>10, <2>11, <2>12, <2>14
<1> QED
  BY <1>1, ComputerInvariant, PTL
=============================================================================
