------------------------------- MODULE Orders -------------------------------
(***************************************************************************)
(* Sorting a finite set by a strict total order, as list.sort with a key   *)
(* does: an element's place is the number of those before it.              *)
(***************************************************************************)
EXTENDS Integers, FiniteSets

InOrder(S, Before(_,_)) ==
  LET place == [x \in S |-> Cardinality({y \in S : Before(y, x)})]
  IN  [n \in 1..Cardinality(S) |-> CHOOSE x \in S : place[x] = n - 1]
=============================================================================
