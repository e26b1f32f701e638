---------------------------- MODULE AtomicUpload ----------------------------
(***************************************************************************)
(* What a session upload promises: blocks gather out of sight, and a file  *)
(* appears at the target path complete or not at all, and never goes or    *)
(* breaks again.  ("a failed or aborted upload leaves no partial target    *)
(* behind", libfw-core's UploadSink.)                                      *)
(***************************************************************************)
CONSTANT Blocks

VARIABLES
  parts,   \* blocks gathered for the next version of the file
  file     \* what the target path shows: "absent" or "complete"

vars == <<parts, file>>

Init == parts = {} /\ file = "absent"

Gather == \E b \in Blocks : parts' = parts \cup {b} /\ UNCHANGED file

Discard == parts' = {} /\ UNCHANGED file

Publish == parts = Blocks /\ parts' = {} /\ file' = "complete"

Next == Gather \/ Discard \/ Publish

Spec == Init /\ [][Next]_vars
=============================================================================
