----------------------------- MODULE SortedSets -----------------------------
(***************************************************************************)
(* The elements of a set as a sequence: in an order, and those of a set of *)
(* numbers in the order in which std::map and std::set visit them.         *)
(***************************************************************************)
EXTENDS Integers, FiniteSets

SortedBy(S, Less(_, _)) ==
  CHOOSE s \in [1..Cardinality(S) -> S] : \A i, j \in DOMAIN s : i < j => Less(s[i], s[j])
Sorted(S) == SortedBy(S, LAMBDA x, y : x < y)
=============================================================================
