------------------------- MODULE ForwardingEntries -------------------------
(***************************************************************************)
(* The destinations of one lambda function in a forwarding table           *)
(* (src/Edge/Entries) and the table of a router (src/Edge/forwardingtable) *)
(* as operators on values: an entry is the list of its destinations and    *)
(* what the derived class keeps besides it, a table is a function from the *)
(* lambdas it knows to their entries.  An entry may exist without          *)
(* destinations.                                                           *)
(*                                                                         *)
(* Weights and deficits are integers, and Unit stands for 1 where weights  *)
(* are divisors.  Durations are left open: a destination of the round      *)
(* robin entry has a stale timer that never started, runs or has expired,  *)
(* and the ratio of rates of the proportional fairness entry may be the    *)
(* largest for any destination.                                            *)
(***************************************************************************)
EXTENDS Integers, Sequences, FiniteSets, FiniteSetsExt, SequencesExt

CONSTANTS None,   \* no element: the end() of a list, the empty string
          FltMax, \* numeric_limits<float>::max(), which absorbs additions
          Unit    \* 1.0f: a multiple of twice every weight

Elements(e) == Range(e.list)
Destinations(e) == {x.d : x \in Elements(e)}
Element(e, d) == CHOOSE x \in Elements(e) : x.d = d
Index(list, d) == CHOOSE i \in DOMAIN list : list[i].d = d

(***************************************************************************)
(* EntryLeastImpedance: min is the destination theMinElement points to.    *)
(***************************************************************************)
LeastWeight(list) ==
  IF list = <<>> THEN None
  ELSE LET least == CHOOSE i \in DOMAIN list :
             /\ \A j \in DOMAIN list : list[i].w <= list[j].w
             /\ \A j \in 1..(i - 1) : list[j].w > list[i].w
       IN list[least].d

(* Mutant: the minimum is searched for only when the new weight is smaller. *)
LI_updateWeightSmallerOnly(list, min, old, new) ==
  IF new < list[Index(list, min)].w THEN LeastWeight(list) ELSE min

LI_updateWeight(list, min, old, new) ==
  LET w == list[Index(list, min)].w
  IN IF new <= w \/ old = w THEN LeastWeight(list) ELSE min

LI_updateAddDest(list, min, w) ==
  IF min = None THEN list[1].d
  ELSE IF w < list[Index(list, min)].w THEN LeastWeight(list) ELSE min

\* The weight of the minimum is read after the element was erased: when it is
\* the minimum itself, its memory is freed, and still holds the weight because
\* nothing is allocated between erase and read.
LI_updateDelDest(list, min, d, w) ==
  IF min = d \/ list[Index(list, min)].w = w THEN LeastWeight(list) ELSE min

LI_select(e) == {e.aux} \ {None}

(***************************************************************************)
(* EntryRoundRobin: cache maps a destination to its weight, stale timer,   *)
(* deficit and probing flag; queue is the set of the active destinations.  *)
(***************************************************************************)
Increase(deficit, w) == IF deficit = FltMax THEN FltMax ELSE deficit + w

minDeficit(cache, queue) ==
  IF queue = {} THEN FltMax ELSE Min({cache[d].deficit : d \in queue})

CacheElement(w, deficit) ==
  [w |-> w, timer |-> "never", deficit |-> deficit, probing |-> FALSE]

good(cache, d) ==
  \/ Cardinality(DOMAIN cache) = 1
  \/ cache[d].w <= 2 * Min({cache[x].w : x \in DOMAIN cache})

\* least is the smallest deficit of the previous active set.
updateActiveSet(cache, least) ==
  LET probe(d) == ~ good(cache, d) /\ cache[d].timer = "expired"
  IN [cache |-> [d \in DOMAIN cache |->
        IF probe(d)
        THEN [cache[d] EXCEPT !.timer = "never", !.deficit = least, !.probing = TRUE]
        ELSE IF good(cache, d) \/ cache[d].timer = "running"
             THEN [cache[d] EXCEPT !.probing = FALSE]
             ELSE cache[d]],
      queue |-> {d \in DOMAIN cache : \/ good(cache, d)
                                      \/ cache[d].timer = "never"
                                      \/ probe(d)}]

RR_updateWeight(aux, d, w) ==
  LET least == minDeficit(aux.cache, aux.queue)
      weighted == [aux.cache EXCEPT ![d].w = w, ![d].timer = "running"]
      shifted == [x \in DOMAIN weighted |->
                    [weighted[x] EXCEPT !.deficit = @ - least]]
  IN updateActiveSet(shifted, minDeficit(shifted, aux.queue))

\* The deficits of the previous active set include the one of a destination
\* that has just been erased: theQueue still points to it.
updateList(list, aux) ==
  LET least == minDeficit(aux.cache, aux.queue)
      weight(d) == list[Index(list, d)].w
      cache == [d \in {list[i].d : i \in DOMAIN list} |->
                  IF d \in DOMAIN aux.cache
                  THEN [aux.cache[d] EXCEPT !.w = weight(d)]
                  ELSE CacheElement(weight(d), least)]
  IN IF list = <<>> THEN [cache |-> <<>>, queue |-> {}]
     ELSE updateActiveSet(cache, least)

\* The stale timers that run expire as time passes.
ExpireTimer(e, d) == [e EXCEPT !.aux.cache[d].timer = "expired"]

RR_select(e) ==
  {d \in e.aux.queue : e.aux.cache[d].deficit = minDeficit(e.aux.cache, e.aux.queue)}

(***************************************************************************)
(* EntryProportionalFairness: aux is the set of the destinations that have *)
(* an element in thePFstats, which operator() looks up.                    *)
(***************************************************************************)
PF_select(e) == Destinations(e) \cap e.aux

(***************************************************************************)
(* EntryRandom: aux is theInvSum.  operator() draws a number below it and  *)
(* returns the first destination at which the sum of the inverse weights   *)
(* reaches that number, or the last one.                                   *)
(***************************************************************************)
Random_updateWeight(sum, old, new) == sum + Unit \div new - Unit \div old
Random_updateAddDest(sum, w) == sum + Unit \div w
Random_updateDelDest(sum, w) == sum - Unit \div w

InvSum(list) ==
  LET sum[i \in 0..Len(list)] == IF i = 0 THEN 0 ELSE sum[i - 1] + Unit \div list[i].w
  IN sum[Len(list)]

Random_select(e) ==
  LET n == Len(e.list)
      drawn(r) == Min({n} \cup {i \in 1..(n - 1) : r <= InvSum(SubSeq(e.list, 1, i))})
  IN IF n <= 1 THEN Destinations(e)
     ELSE {e.list[drawn(r)].d : r \in 0..(e.aux - 1)}

-----------------------------------------------------------------------------
NewEntry(type) ==
  [type |-> type, list |-> <<>>,
   aux |-> CASE type = "least-impedance" -> None
             [] type = "round-robin" -> [cache |-> <<>>, queue |-> {}]
             [] type = "proportional-fairness" -> {}
             [] type = "random" -> 0]

updateWeight(e, list, d, old, new) ==
  CASE e.type = "least-impedance" -> LI_updateWeight(list, e.aux, old, new)
    [] e.type = "round-robin" -> RR_updateWeight(e.aux, d, new)
    [] e.type = "proportional-fairness" -> e.aux
    [] e.type = "random" -> Random_updateWeight(e.aux, old, new)

updateAddDest(e, list, d, w) ==
  CASE e.type = "least-impedance" -> LI_updateAddDest(list, e.aux, w)
    [] e.type = "round-robin" -> updateList(list, e.aux)
    [] e.type = "proportional-fairness" -> e.aux \cup {d}
    [] e.type = "random" -> Random_updateAddDest(e.aux, w)

updateDelDest(e, list, d, w) ==
  CASE e.type = "least-impedance" -> LI_updateDelDest(list, e.aux, d, w)
    [] e.type = "round-robin" -> updateList(list, e.aux)
    [] e.type = "proportional-fairness" -> e.aux \ {d}
    [] e.type = "random" -> Random_updateDelDest(e.aux, w)

(***************************************************************************)
(* Entry.  The callers check the weight and, where the code throws, that   *)
(* the destination is there.                                               *)
(***************************************************************************)
ReplaceElement(e, d, x) ==
  LET old == Element(e, d).w
      list == [e.list EXCEPT ![Index(e.list, d)] = x]
  IN [e EXCEPT !.list = list, !.aux = updateWeight(e, list, d, old, x.w)]

\* change(dest, weight, final): adds the destination when it is new.
ChangeDestination(e, d, w, final) ==
  LET x == [d |-> d, w |-> w, final |-> final]
      list == Append(e.list, x)
  IN IF d \in Destinations(e) THEN ReplaceElement(e, d, x)
     ELSE [e EXCEPT !.list = list, !.aux = updateAddDest(e, list, d, w)]

\* change(dest, weight): only destinations that are there.
ChangeWeight(e, d, w) == ReplaceElement(e, d, [Element(e, d) EXCEPT !.w = w])

(* Mutant: nothing is erased. *)
RemoveDestinationNot(e, d) == e

RemoveDestination(e, d) ==
  IF d \notin Destinations(e) THEN e
  ELSE LET w == Element(e, d).w
           list == RemoveAt(e.list, Index(e.list, d))
       IN [e EXCEPT !.list = list, !.aux = updateDelDest(e, list, d, w)]

\* The destinations operator() may return.
Selectable(e) ==
  CASE e.type = "least-impedance" -> LI_select(e)
    [] e.type = "round-robin" -> RR_select(e)
    [] e.type = "proportional-fairness" -> PF_select(e)
    [] e.type = "random" -> Random_select(e)

\* What operator() leaves behind when it returns d.
AfterSelection(e, d) ==
  IF e.type # "round-robin" THEN e
  ELSE [e EXCEPT !.aux.cache[d].deficit = Increase(@, e.aux.cache[d].w)]

(***************************************************************************)
(* ForwardingTable.                                                        *)
(***************************************************************************)
IsTable(t, lambdas, dests, weights) ==
  /\ DOMAIN t \subseteq lambdas
  /\ \A l \in DOMAIN t : t[l].list \in Seq([d : dests, w : weights, final : BOOLEAN])

fullTable(t) == UNION {{l} \X Destinations(t[l]) : l \in DOMAIN t}

EntryOf(t, type, l) == IF l \in DOMAIN t THEN t[l] ELSE NewEntry(type)

WithEntry(t, l, e) == [x \in DOMAIN t \cup {l} |-> IF x = l THEN e ELSE t[x]]

WithoutLambda(t, l) == [x \in DOMAIN t \ {l} |-> t[x]]

Knows(t, l, d) == l \in DOMAIN t /\ d \in Destinations(t[l])

(* Mutant: the entry does not check the weight. *)
TableChangeUnchecked(t, type, l, d, w, final) ==
  WithEntry(t, l, ChangeDestination(EntryOf(t, type, l), d, w, final))

\* change(lambda, dest, weight, final).  The entry of a new lambda is created
\* before the weight is checked by the entry: with weight 0 it stays, empty.
TableChange(t, type, l, d, w, final) ==
  LET e == EntryOf(t, type, l)
  IN WithEntry(t, l, IF w = 0 THEN e ELSE ChangeDestination(e, d, w, final))

\* change(lambda, dest, weight), once Knows(t, l, d).
TableChangeWeight(t, l, d, w) == [t EXCEPT ![l] = ChangeWeight(@, d, w)]

(* Mutant: the other destinations go, too. *)
TableRemoveAll(t, l, d) == WithoutLambda(t, l)

TableRemove(t, l, d) ==
  IF l \notin DOMAIN t THEN t
  ELSE LET e == RemoveDestination(t[l], d)
       IN IF e.list = <<>> THEN WithoutLambda(t, l) ELSE [t EXCEPT ![l] = e]

TableSelectable(t, l) == IF l \in DOMAIN t THEN Selectable(t[l]) ELSE {}
=============================================================================
