------------------------------ MODULE Container ------------------------------
(***************************************************************************)
(* The lists a Container keeps: the active tasks, sorted by the operations *)
(* that are left, each storing only the difference from the one before it, *)
(* and the pending tasks, in order of arrival.  A task is a record         *)
(* [theId, theMemory, theResidualOps].                                     *)
(***************************************************************************)
EXTENDS Naturals, Sequences

(* The sums of the first k numbers of a sequence, and of all of them.  *)
Sums(values) ==
  LET sum[k \in 0..Len(values)] == IF k = 0 THEN 0 ELSE sum[k - 1] + values[k]
  IN sum

Total(values) == Sums(values)[Len(values)]

(* Operations left in the first k tasks of an active list, that is, before *)
(* the k-th one is complete.                                               *)
OpsUpTo(active) == Sums([k \in 1..Len(active) |-> active[k].theResidualOps])

(* A new task goes after those that end before it or with it.  *)
Place(active, task) ==
  LET sum == OpsUpTo(active)
  IN CHOOSE i \in 0..Len(active) :
       /\ sum[i] <= task.theResidualOps
       /\ i < Len(active) => sum[i + 1] > task.theResidualOps

(* Mutant: the task after the new one keeps its difference.  *)
MakeActiveKeepsNext(active, task) ==
  LET k == Place(active, task)
  IN SubSeq(active, 1, k)
       \o <<[task EXCEPT !.theResidualOps = @ - OpsUpTo(active)[k]]>>
       \o SubSeq(active, k + 1, Len(active))

(* makeActive: the new task stores the difference from those before it,    *)
(* and the next one stores the difference from the new task.               *)
MakeActive(active, task) ==
  LET k    == Place(active, task)
      diff == task.theResidualOps - OpsUpTo(active)[k]
      rest == SubSeq(active, k + 1, Len(active))
      next == IF rest = <<>> THEN rest
              ELSE [rest EXCEPT ![1].theResidualOps = @ - diff]
  IN SubSeq(active, 1, k) \o <<[task EXCEPT !.theResidualOps = diff]>> \o next

(* advance: only the first difference shrinks, down to zero.  *)
Done(active, ops) ==
  IF active = <<>> THEN 0
  ELSE IF ops < active[1].theResidualOps THEN ops ELSE active[1].theResidualOps

Advance(active, ops) ==
  IF active = <<>> THEN active
  ELSE [active EXCEPT ![1].theResidualOps = @ - Done(active, ops)]

(* nearest() == 0 of a container with active tasks.  *)
Ready(active) == active # <<>> /\ active[1].theResidualOps = 0
==============================================================================
