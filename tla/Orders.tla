------------------------------- MODULE Orders -------------------------------
(***************************************************************************)
(* sorted() of Python, for elements of which no two are equal in the       *)
(* order: the n-th one has n-1 elements before it.  The order is a set of  *)
(* pairs <<earlier, later>>.                                               *)
(***************************************************************************)
EXTENDS Integers, FiniteSets

Ahead(R, S, x) == {y \in S : <<y, x>> \in R}

InOrder(S, R) ==
  [n \in 1 .. Cardinality(S) |-> CHOOSE x \in S : Cardinality(Ahead(R, S, x)) = n - 1]
=============================================================================
