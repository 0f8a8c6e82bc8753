--------------------------- MODULE EtsiBalanced ----------------------------
(***************************************************************************)
(* EdgeControllerEtsiBalanced: which computer serves a lambda by default,  *)
(* and the assignment of the active contexts to the computers.             *)
(*                                                                         *)
(* The state of the controller and of the UE application LCM proxy it      *)
(* drives is a record                                                      *)
(*   desc        theDesc: lambda -> [default, computers]                   *)
(*   last        theLastTableReceived                                      *)
(*   apps        lambdas known to the proxy                                *)
(*   route       default associations of the proxy: lambda -> computer     *)
(*   individual  those of a client: <<client, lambda>> -> computer         *)
(*   contexts    active contexts: id -> <<client, lambda>>                 *)
(* The third column of theLastTableReceived, which table() does not read,  *)
(* is left out.  The proxy is not part of the repository; its calls        *)
(* succeed.                                                                *)
(***************************************************************************)
EXTENDS SortedSets, SequencesExt

EtsiInit == [desc |-> <<>>, last |-> <<>>, apps |-> {}, route |-> <<>>,
             individual |-> <<>>, contexts |-> <<>>]

addLambda(e, l) == [e EXCEPT !.apps = @ \cup {l}]
delLambda(e, l) == [e EXCEPT !.apps = @ \ {l}]

\* The lambdas are independent of each other.  The first computer of a lambda
\* is its default, of which the proxy is notified.
addComputer(e, c, lambdas) ==
  LET new == lambdas \ DOMAIN e.desc
  IN [e EXCEPT
        !.desc = [l \in DOMAIN e.desc \cup lambdas |->
                    IF l \in new THEN [default |-> c, computers |-> {c}]
                    ELSE IF l \in lambdas
                    THEN [e.desc[l] EXCEPT !.computers = @ \cup {c}] ELSE e.desc[l]],
        !.route = [l \in DOMAIN e.route \cup new |-> IF l \in new THEN c ELSE e.route[l]]]

(* Mutant: the default is not changed when it leaves. *)
delComputerKeepsDefault(e, c, lambdas) ==
  LET rest(l) == e.desc[l].computers \ {c}
      served == {l \in lambdas \cap DOMAIN e.desc : c \in e.desc[l].computers}
      gone == {l \in served : rest(l) = {}}
  IN [e EXCEPT
        !.desc = [l \in DOMAIN e.desc \ gone |->
                    [default |-> e.desc[l].default,
                     computers |-> IF l \in served THEN rest(l) ELSE e.desc[l].computers]],
        !.route = [l \in DOMAIN e.route \ gone |-> e.route[l]]]

\* A lambda that loses its default has the first of its other computers as the
\* default, and is forgotten if there are none.
delComputer(e, c, lambdas) ==
  LET rest(l) == e.desc[l].computers \ {c}
      served == {l \in lambdas \cap DOMAIN e.desc : c \in e.desc[l].computers}
      orphans == {l \in served : e.desc[l].default = c}
      gone == {l \in orphans : rest(l) = {}}
      least(l) == CHOOSE x \in rest(l) : \A y \in rest(l) : x <= y
  IN [e EXCEPT
        !.desc = [l \in DOMAIN e.desc \ gone |->
                    [default |-> IF l \in orphans THEN least(l) ELSE e.desc[l].default,
                     computers |-> IF l \in served THEN rest(l) ELSE e.desc[l].computers]],
        !.route = [l \in DOMAIN e.route \ gone |->
                     IF l \in orphans THEN least(l) ELSE e.route[l]]]

(***************************************************************************)
(* table(): the groups of contexts with the same client and lambda, the    *)
(* most numerous first, each to the first computer that serves the lambda  *)
(* in a list kept in ascending order of the contexts assigned so far.      *)
(***************************************************************************)
Groups(contexts) ==
  LET key(k) == <<contexts[k][2], contexts[k][1]>>
      count(g) == Cardinality({k \in DOMAIN contexts : key(k) = g})
      Before(g, h) == \/ count(g) > count(h)
                      \/ count(g) = count(h) /\ (g[1] < h[1] \/ (g[1] = h[1] /\ g[2] < h[2]))
      ordered == SortedBy({key(k) : k \in DOMAIN contexts}, Before)
  IN [i \in DOMAIN ordered |->
        [l |-> ordered[i][1], client |-> ordered[i][2], n |-> count(ordered[i])]]

\* Lambda after lambda, the computers that were not seen before.
ComputerList(desc) ==
  LET Serving(c) == {l \in DOMAIN desc : c \in desc[l].computers}
      first(c) == CHOOSE l \in Serving(c) : \A k \in Serving(c) : l <= k
      Before(x, y) == first(x) < first(y) \/ (first(x) = first(y) /\ x < y)
      order == SortedBy(UNION {desc[l].computers : l \in DOMAIN desc}, Before)
  IN [i \in DOMAIN order |-> [c |-> order[i], n |-> 0]]

FirstFrom(s, i, Test(_)) ==
  LET found == {j \in i..Len(s) : Test(s[j])}
  IN IF found = {} THEN Len(s) + 1 ELSE CHOOSE j \in found : \A k \in found : j <= k

\* A group of contexts goes to the first computer that serves its lambda.
Served(list, g, desc) ==
  FirstFrom(list, 1, LAMBDA x : g.l \in DOMAIN desc /\ x.c \in desc[g.l].computers)

(* Mutant: the computer stays where it was in the list. *)
AssignInPlace(acc, g, desc) ==
  LET i == Served(acc.list, g, desc)
      used == [c |-> acc.list[i].c, n |-> acc.list[i].n + g.n]
  IN IF i > Len(acc.list) THEN acc
     ELSE [list |-> InsertAt(RemoveAt(acc.list, i), i, used),
           rows |-> Append(acc.rows, [client |-> g.client, l |-> g.l, c |-> used.c])]

Assign(acc, g, desc) ==
  LET i == Served(acc.list, g, desc)
      used == [c |-> acc.list[i].c, n |-> acc.list[i].n + g.n]
      rest == RemoveAt(acc.list, i)
      j == FirstFrom(rest, i, LAMBDA x : x.n >= used.n)
  IN IF i > Len(acc.list) THEN acc
     ELSE [list |-> InsertAt(rest, j, used),
           rows |-> Append(acc.rows, [client |-> g.client, l |-> g.l, c |-> used.c])]

table(contexts, desc) ==
  LET groups == Groups(contexts)
      assigned[k \in 0..Len(groups)] ==
        IF k = 0 THEN [list |-> ComputerList(desc), rows |-> <<>>]
        ELSE Assign(assigned[k - 1], groups[k], desc)
  IN assigned[Len(groups)].rows

\* optimize(), in the thread of the periodic task.
optimize(e) ==
  LET rows == ToSet(table(e.contexts, e.desc))
      new == {<<x.client, x.l>> : x \in rows}
      To(p) == (CHOOSE x \in rows : <<x.client, x.l>> = p).c
  IN [e EXCEPT !.last = e.contexts,
        !.individual = [p \in DOMAIN @ \cup new |-> IF p \in new THEN To(p) ELSE @[p]]]
=============================================================================
