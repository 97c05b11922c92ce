----------------------------- MODULE Ascending -----------------------------
(***************************************************************************)
(* The elements of a finite set of numbers in ascending order.  The        *)
(* operator SetToSortSeq of the community modules tries every sequence of  *)
(* the elements; this one only counts.                                     *)
(***************************************************************************)
EXTENDS Integers, FiniteSets

Ascending(S) ==
  [n \in 1..Cardinality(S) |-> CHOOSE x \in S : Cardinality({y \in S : y < x}) = n - 1]
=============================================================================
