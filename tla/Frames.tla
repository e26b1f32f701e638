-------------------------------- MODULE Frames --------------------------------
(***************************************************************************)
(* The wire format of a body: zrip makes a frame of every block the server *)
(* reads, one behind, and the client puts frames together again from reads *)
(* that split and join them anywhere.  Definitions only: Requests uses     *)
(* them.                                                                   *)
(*                                                                         *)
(* The wire carries units: a frame is two of them, so that there is a      *)
(* place to split it, and a block sent as it is, is one.  The frame of no  *)
(* block is what an empty body becomes.                                    *)
(***************************************************************************)
EXTENDS Integers, Sequences, Subsequences

NoBlock == <<>>
Unit(block, part) == [block |-> block, part |-> part]
Frame(block) == <<Unit(block, "begin"), Unit(block, "end")>>
Plain(block) == <<Unit(block, "whole")>>

(* A compressor: the block whose frame is open, NoBlock if none is.        *)
(* compress ends the frame of the block before and opens the next.         *)
Compressed(format, open, block) ==
  IF format = "identity" THEN Plain(block)
  ELSE IF open = NoBlock THEN <<>> ELSE Frame(open)
StillOpen(format, block) == IF format = "identity" THEN NoBlock ELSE block

(* finish ends the last frame; without one it makes an empty frame.        *)
Finished(format, open) == IF format = "identity" THEN <<>> ELSE Frame(open)

Boundary(units) ==
  IF Len(units) < 2 THEN "incomplete"
  ELSE IF units[1].part = "begin" /\ units[2] = Unit(units[1].block, "end")
       THEN "complete" ELSE "invalid"

(* The first frames of a body, and what is behind them.                    *)
Behind(units, n) == SubSeq(units, 2 * n + 1, Len(units))
Blocks(units, n) ==
  Kept([i \in 1..n |-> units[2 * i - 1].block], {i \in 1..n : units[2 * i - 1].block # NoBlock})

(* drain_frames: frame by frame, as long as one is complete and a call     *)
(* adds no more than its budget.  It fails if it stops before the units do *)
(* not make a frame.                                                       *)
Drained(units, budget) ==
  {n \in 0..(Len(units) \div 2) :
     /\ \A i \in 0..(n - 1) : Boundary(Behind(units, i)) = "complete"
     /\ Len(Blocks(units, n)) <= budget}
Drain(units, budget) ==
  LET n == CHOOSE m \in Drained(units, budget) : \A k \in Drained(units, budget) : k <= m
  IN  [ok |-> Boundary(Behind(units, n)) = "incomplete",
       out |-> Blocks(units, n), left |-> Behind(units, n)]

(* Broken on purpose: a call forgets the beginning of a frame.             *)
DecompressedForgetful(format, pending, units, budget) ==
  IF format = "identity"
  THEN [ok |-> TRUE, out |-> [i \in DOMAIN units |-> units[i].block], left |-> <<>>]
  ELSE [Drain(pending \o units, budget) EXCEPT !.left = <<>>]

(* decompress: what was left before, and what came.                        *)
Decompressed(format, pending, units, budget) ==
  IF format = "identity"
  THEN [ok |-> TRUE, out |-> [i \in DOMAIN units |-> units[i].block], left |-> <<>>]
  ELSE Drain(pending \o units, budget)

(* finish: a body must not end inside a frame.                             *)
WellFormed(pending) == pending = <<>>
=============================================================================
