-------------------------------- MODULE Lists --------------------------------
(***************************************************************************)
(* What a filter leaves of a list, said so that it can be reasoned about:  *)
(* by the positions it keeps.                                              *)
(***************************************************************************)
EXTENDS Integers, Sequences, FiniteSets

\* The members of a list at the positions in K, in their order.
inOrder(list, K) ==
  LET nth(n) == CHOOSE k \in K : Cardinality({j \in K : j <= k}) = n
  IN  [n \in 1..Cardinality(K) |-> list[nth(n)]]
=============================================================================
