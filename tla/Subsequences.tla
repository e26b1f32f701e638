----------------------------- MODULE Subsequences -----------------------------
(***************************************************************************)
(* The elements of a sequence at some of its places, in their order.  It   *)
(* is SelectSeq without the recursion, which the provers cannot follow.    *)
(* Definitions only: Paths and Frames use it.                              *)
(***************************************************************************)
EXTENDS Integers, FiniteSets

(* The place that has n of the places up to it.                            *)
Nth(places, n) == CHOOSE i \in places : Cardinality({j \in places : j <= i}) = n
Kept(s, places) == [n \in 1..Cardinality(places) |-> s[Nth(places, n)]]
=============================================================================
