------------------------------ MODULE CallSlots ------------------------------
(***************************************************************************)
(* What a pool of edge clients promises to the router that uses it: for    *)
(* every destination a bounded number of slots, each held by one thread    *)
(* for the duration of one call.  A slot whose call ends with an exception *)
(* is not given back.  EdgeClientPool (module ClientPool) implements it.   *)
(***************************************************************************)
EXTENDS Naturals, FiniteSets

CONSTANTS
  Threads,       \* threads of the router that forward lambda requests
  Destinations,  \* end-points the requests are forwarded to
  MaxClients     \* slots per destination, 0 means unlimited

VARIABLES
  holders,       \* holders[d]: the threads with a call to d in progress
  lost           \* lost[d]: the slots of d that never come back

slotVars == <<holders, lost>>

Occupied(d) == Cardinality(holders[d]) + lost[d]

Init ==
  /\ holders = [d \in Destinations |-> {}]
  /\ lost = [d \in Destinations |-> 0]

(* A thread that holds no slot of any destination takes one of d.  *)
Acquire(t, d) ==
  /\ \A e \in Destinations : t \notin holders[e]
  /\ MaxClients = 0 \/ Occupied(d) < MaxClients
  /\ holders' = [holders EXCEPT ![d] = @ \cup {t}]
  /\ UNCHANGED lost

GiveBack(t, d) ==
  /\ t \in holders[d]
  /\ holders' = [holders EXCEPT ![d] = @ \ {t}]
  /\ UNCHANGED lost

Lose(t, d) ==
  /\ t \in holders[d]
  /\ holders' = [holders EXCEPT ![d] = @ \ {t}]
  /\ lost' = [lost EXCEPT ![d] = @ + 1]

Next == \E t \in Threads, d \in Destinations :
          Acquire(t, d) \/ GiveBack(t, d) \/ Lose(t, d)

Spec == Init /\ [][Next]_slotVars
==============================================================================
