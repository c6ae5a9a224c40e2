------------------------------ MODULE Ordering ------------------------------
(* A finite set of numbers as a sequence, smallest first. *)
EXTENDS Naturals, FiniteSets

\* The n-th element is the one with n - 1 elements below it.
InOrder(S) ==
  [n \in 1..Cardinality(S) |-> CHOOSE c \in S : Cardinality({d \in S : d < c}) = n - 1]
=============================================================================
