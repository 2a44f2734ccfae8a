------------------------------ MODULE Selection -----------------------------
(***************************************************************************)
(* What the filters of the code keep of a list: the elements at some       *)
(* places, in their order.  It is SelectSeq with the test applied to the   *)
(* places, defined by their ranks: SelectSeq is recursive, and to the      *)
(* provers a name without a meaning.                                       *)
(***************************************************************************)
EXTENDS Naturals, Sequences, FiniteSets

UpTo(places, i) == {j \in places : j <= i}

\* The n-th of some places.
Nth(places, n) == CHOOSE i \in places : Cardinality(UpTo(places, i)) = n

Chosen(s, places) == [n \in 1 .. Cardinality(places) |-> s[Nth(places, n)]]

=============================================================================
