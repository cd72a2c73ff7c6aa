------------------------------ MODULE Sorting ------------------------------
(***************************************************************************)
(* Sorting as the planners, the evaluation of rollouts and the benchmark   *)
(* use it: by value with total_cmp, and equal values by their index,       *)
(* either because the comparison says so or because sort_by is stable.     *)
(***************************************************************************)
EXTENDS Integers, FiniteSets

Precedes(values, i, j) == values[i] < values[j] \/ (values[i] = values[j] /\ i < j)
Before(values, i) == {j \in DOMAIN values : Precedes(values, j, i)}

\* The indexes in order: before the one at a place are those at the places before.
SortedIndexes(values) ==
  [place \in 1..Cardinality(DOMAIN values) |->
     CHOOSE i \in DOMAIN values : Cardinality(Before(values, i)) = place - 1]
=============================================================================
