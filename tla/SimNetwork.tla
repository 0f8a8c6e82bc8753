----------------------------- MODULE SimNetwork ----------------------------
(***************************************************************************)
(* The network of src/StateSim (Network, Node, Link), which both           *)
(* simulators use.  Its elements are nodes and links, both vertices of a   *)
(* directed graph; an edge <<x, y>> of the files means that y has an edge  *)
(* towards x.  Routing entries are computed for a destination when they    *)
(* are first needed.  Capacities are given by their inverse, the time that *)
(* a link takes per unit of data; speeds of nodes likewise.                *)
(***************************************************************************)
EXTENDS SortedSets, SequencesExt

CONSTANT Net   \* record: links, edges, processing, clients, txCost, slowness, affinity

(* the elements of a sequence at some positions *)
Selected(seq, set) == [k \in 1 .. Cardinality(set) |-> seq[Sorted(set)[k]]]

Elements == UNION {{x[1], x[2]} : x \in Net.edges}
Infinite == 1000000

(* what the constructors and cloud() check, or they throw *)
ValidNetwork ==
  /\ Net.links \subseteq Elements
  /\ ToSet(Net.processing) \subseteq Elements \ Net.links
  /\ ToSet(Net.clients) \subseteq ToSet(Net.processing)
  /\ Net.txCost \in [Net.links -> Nat \ {0}]
  /\ Net.slowness \in [ToSet(Net.processing) -> Nat \ {0}]
ValidCloud == Net.cloudLatency >= 0 /\ Net.cloudCost > 0

(* Nothing checks this, but it holds in the data sets: nodes are joined by *)
(* links.  An edge between two nodes would have no weight, and the paths   *)
(* found would depend on the order in which boost visits the elements.     *)
NodesJoinedByLinks == \A x \in Net.edges : x[1] \in Net.links \/ x[2] \in Net.links

ASSUME NetAssumption ==
  /\ ValidNetwork /\ ValidCloud /\ NodesJoinedByLinks
  /\ IsFiniteSet(Net.edges) /\ Net.processing \in Seq(Elements)
  /\ Net.clients \in Seq(Elements)

(* weight of an edge, the sum of the latencies of its ends that are links *)
latency(x) == IF x \in Net.links THEN 2 * Net.txCost[x] ELSE 0
weight(x, y) == latency(x) + latency(y)

(* theGraph: the elements that have an edge towards y in the files *)
Before(y) == {x \in Elements : <<x, y>> \in Net.edges}

(***************************************************************************)
(* boost::dijkstra_shortest_paths from the destination: distances, and the *)
(* predecessor of each element, which is the next hop towards the          *)
(* destination.  An element that cannot be reached is its own predecessor. *)
(***************************************************************************)
Relax(dist) ==
  [y \in Elements |->
     Min({dist[y]} \cup {dist[x] + weight(x, y) : x \in Before(y)})]
Distances(dst) ==
  FoldLeft(LAMBDA dist, k : LET new == Relax(dist) IN IF new = dist THEN dist ELSE new,
           [x \in Elements |-> IF x = dst THEN 0 ELSE Infinite],
           [k \in 1 .. Cardinality(Elements) |-> k])
dijkstra(dst) ==
  LET dist == Distances(dst) IN
  [y \in Elements |->
     IF y = dst \/ dist[y] >= Infinite THEN y
     ELSE CHOOSE x \in Before(y) : dist[x] + weight(x, y) = dist[y]]

(* the elements that the loops of txTime and hops visit *)
Between(src, dst) ==
  LET next == dijkstra(dst)
      hop[k \in 0 .. Cardinality(Elements)] == IF k = 0 THEN src ELSE next[hop[k - 1]]
  IN {hop[k] : k \in 1 .. Cardinality(Elements)} \ {src, dst}
CostOf(path) == MapThenSumSet(LAMBDA x : IF x \in Net.links THEN Net.txCost[x] ELSE 0, path)

(* Entries are computed when they are first needed, under the mutex, and   *)
(* do not depend on when: all of them are in the cache from the start, by  *)
(* source and destination, with what follows from them, the transfer time  *)
(* of a unit of data and the number of hops.                               *)
cacheEntry ==
  [src \in ToSet(Net.processing) |-> [dst \in ToSet(Net.processing) |->
     [tx |-> CostOf(Between(src, dst)), hops |-> Cardinality(Between(src, dst) \cap Net.links)]]]

txTime(cache, src, dst, bytes) == bytes * cache[src][dst].tx
hops(cache, src, dst) == cache[src][dst].hops

(* the cloud is reached with the same latency and rate from every node *)
txTimeCloud(bytes) == IF bytes = 0 THEN 0 ELSE Net.cloudLatency + bytes * Net.cloudCost

(* worst transfer time of a candidate to be the central node *)
Worst(candidate) ==
  Max({txTime(cacheEntry, candidate, t, 1) : t \in ToSet(Net.processing)}
        \cup {txTime(cacheEntry, t, candidate, 1) : t \in ToSet(Net.processing)})

-----------------------------------------------------------------------------
(***************************************************************************)
(* Reference: the least cost over all the paths without cycles.            *)
(***************************************************************************)
LeastCost(src, dst) ==
  LET least[x \in Elements, visited \in SUBSET Elements] ==
        IF x = dst THEN 0
        ELSE Min({Infinite} \cup
                 {CostOf({y} \ {dst}) + least[y, visited \cup {y}] : y \in Before(x) \ visited})
  IN least[src, {src}]
LeastCosts ==
  [src \in ToSet(Net.processing) |-> [dst \in ToSet(Net.processing) |-> LeastCost(src, dst)]]
=============================================================================
