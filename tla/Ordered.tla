------------------------------ MODULE Ordered ------------------------------
(* The members of a finite set of numbers, smallest first.                 *)
EXTENDS Naturals, FiniteSets

InOrder(S) ==
  [n \in 1 .. Cardinality(S) |->
     CHOOSE x \in S : Cardinality({y \in S : y < x}) = n - 1]
=============================================================================
