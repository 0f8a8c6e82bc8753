-------------------------- MODULE PtimeEstimators --------------------------
(***************************************************************************)
(* The estimators of the processing time of a dispatcher                   *)
(* (src/Edge/ptimeestimator.h), as operators on the value that holds their *)
(* tables: rtt is the DestinationTable of RttEstimator, util.table the one *)
(* of UtilEstimator with util.computers its theComputers, probe the one of *)
(* PtimeEstimatorProbe, each a set of pairs of a lambda and a destination. *)
(* A class is the record of what its methods do for a lambda and some      *)
(* destinations; the methods of the base class, some of which call them in *)
(* a loop over the destinations, are in module LambdaProcessor.            *)
(*                                                                         *)
(* Round-trip times, processing times and loads are abstracted: any of the *)
(* destinations that are compared may be the best.                         *)
(***************************************************************************)
EXTENDS FiniteSets, FiniteSetsExt

(***************************************************************************)
(* DestinationTable.                                                       *)
(***************************************************************************)
DestinationTable(lambdas, dests) == SUBSET (lambdas \X dests)

\* all() and best() throw NoDestinations if there is nothing to compare, ...
all(table, l) == {p[2] : p \in {q \in table : q[1] = l}}

\* ... and find() throws InvalidDestination.
find(table, l, ds) == {l} \X ds \subseteq table

add(table, l, ds) == table \cup ({l} \X ds)
remove(table, l, ds) == table \ ({l} \X ds)

(***************************************************************************)
(* RttEstimator.                                                           *)
(***************************************************************************)
RttEstimator(lambdas, dests) == DestinationTable(lambdas, dests)

rtts(e, l) == all(e.rtt, l)

RttEstimator_measured(e, l, ds) == find(e.rtt, l, ds)

(***************************************************************************)
(* UtilEstimator.  A computer disappears with the last of its lambdas; the *)
(* processing time of a lambda is extrapolated from the load of its        *)
(* computer, which must not have disappeared.                              *)
(***************************************************************************)
UtilEstimator(lambdas, dests) ==
  [table : DestinationTable(lambdas, dests), computers : SUBSET (lambdas \X dests)]

UtilEstimator_add(u, l, ds) ==
  [computers |-> u.computers \cup ({l} \X ds), table |-> add(u.table, l, ds)]

UtilEstimator_remove(u, l, ds) ==
  [computers |-> u.computers \ ({l} \X ds), table |-> remove(u.table, l, ds)]

ComputerDescriptors(e) == {p[2] : p \in e.util.computers}

Disappeared(e, l) == all(e.util.table, l) \ ComputerDescriptors(e)

\* The tables of the two estimators are read side by side, until one ends.
best(e, l) == rtts(e, l) \cap all(e.util.table, l)

smallestPtime(e, l) == all(e.util.table, l)

UtilEstimator_measured(e, l, ds) == find(e.util.table, l, ds)

-----------------------------------------------------------------------------
NoEstimates == [rtt |-> {}, util |-> [table |-> {}, computers |-> {}], probe |-> {}]

IsEstimator(e, lambdas, dests) ==
  e \in [rtt : RttEstimator(lambdas, dests), util : UtilEstimator(lambdas, dests),
         probe : DestinationTable(lambdas, dests)]

(***************************************************************************)
(* The derived classes: privateAdd, privateRemove, the destinations that   *)
(* operator() may return, and whether processSuccess finds them, or throws.*)
(* privateRemove of the probe estimator adds.                              *)
(***************************************************************************)
PtimeEstimatorRtt(e, l, ds) ==
  [privateAdd |-> [e EXCEPT !.rtt = add(@, l, ds)],
   privateRemove |-> [e EXCEPT !.rtt = remove(@, l, ds)],
   candidates |-> rtts(e, l),
   processSuccess |-> RttEstimator_measured(e, l, ds)]

PtimeEstimatorUtil(e, l, ds) ==
  [privateAdd |-> [e EXCEPT !.util = UtilEstimator_add(@, l, ds), !.rtt = add(@, l, ds)],
   privateRemove |->
     [e EXCEPT !.util = UtilEstimator_remove(@, l, ds), !.rtt = remove(@, l, ds)],
   candidates |-> best(e, l),
   processSuccess |-> UtilEstimator_measured(e, l, ds) /\ RttEstimator_measured(e, l, ds)]

PtimeEstimatorDelay(e, l, ds) ==
  [privateAdd |-> [e EXCEPT !.util = UtilEstimator_add(@, l, ds)],
   privateRemove |-> [e EXCEPT !.util = UtilEstimator_remove(@, l, ds)],
   candidates |-> smallestPtime(e, l),
   processSuccess |-> UtilEstimator_measured(e, l, ds)]

PtimeEstimatorProbe(e, l, ds) ==
  [privateAdd |-> [e EXCEPT !.probe = add(@, l, ds)],
   privateRemove |-> [e EXCEPT !.probe = add(@, l, ds)],
   candidates |-> all(e.probe, l),
   processSuccess |-> TRUE]

PtimeEstimator(type, e, l, ds) ==
  CASE type = "rtt" -> PtimeEstimatorRtt(e, l, ds)
    [] type = "util" -> PtimeEstimatorUtil(e, l, ds)
    [] type = "delay" -> PtimeEstimatorDelay(e, l, ds)
    [] type = "probe" -> PtimeEstimatorProbe(e, l, ds)

privateAdd(type, e, l, ds) == PtimeEstimator(type, e, l, ds).privateAdd

privateRemove(type, e, l, ds) == PtimeEstimator(type, e, l, ds).privateRemove
=============================================================================
