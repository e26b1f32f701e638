------------------------------ MODULE MC_Tuning ------------------------------
(* Tuning on small tables: one sensible advertisement and one that is       *)
(* inverted in one dimension and above every ceiling in the others.         *)
EXTENDS Tuning

Between(lo, hi) == [min |-> lo, max |-> hi]
Table(c, u, d, k) ==
  [f \in Fields |-> CASE f = "concurrency" -> c [] f = "upload" -> u
                      [] f = "download" -> d [] f = "chunk" -> k]
Sensible == Table(Between(1, 2), Between(1, 3), Between(1, 1), Between(1, 2))
Absurd   == Table(Between(9, 9), Between(3, 2), Between(2, 9), Between(2, 9))
MCAdvertised == {Sensible, Absurd}
MCConfigured == Table(2, 9, 1, 9)
MCForeign    ==
  {<<<<o, "upload">>, [valid |-> TRUE, caps |-> Sensible, table |-> Table(9, 9, 9, 9)]>> : o \in Origins}
MCHard       == Table(2, 3, 1, 2)
=============================================================================
