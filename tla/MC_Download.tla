----------------------------- MODULE MC_Download -----------------------------
EXTENDS Download

(* Files that grow, shrink, keep their size or are emptied, on both sides  *)
(* of the limit between the two paths.                                     *)
MCHistories == {<<2, 3>>, <<3, 2>>, <<2, 2>>, <<1, 3>>, <<3, 1>>, <<0, 2>>, <<3, 1, 2>>}
LongHistories == {<<2, 3>>}
EmptiedHistories == {<<1, 0>>}
=============================================================================
