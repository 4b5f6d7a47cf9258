------------------------------ MODULE Ordering ------------------------------
(***************************************************************************)
(* What a sort leaves, said by ranks: the i-th element of a finite set is  *)
(* the one with i - 1 elements before it.  The order need not be that of   *)
(* numbers.                                                                *)
(***************************************************************************)
EXTENDS Naturals, FiniteSets

Ordered(S, Before(_, _)) ==
  [i \in 1 .. Cardinality(S) |->
     CHOOSE x \in S : Cardinality({y \in S : Before(y, x)}) = i - 1]
=============================================================================
