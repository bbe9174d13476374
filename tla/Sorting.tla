-------------------------------- MODULE Sorting --------------------------------
(***************************************************************************)
(* Sorting by a key: the order of a strict total order, each element at    *)
(* the place that the number of those before it gives it.                  *)
(***************************************************************************)
EXTENDS Integers, FiniteSets

Sorted(S, Before(_, _)) ==
  [n \in 1..Cardinality(S) |->
     CHOOSE x \in S : Cardinality({y \in S : Before(y, x)}) = n - 1]

================================================================================
