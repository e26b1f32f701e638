---------------------------- MODULE MC_PlainStore ----------------------------
(* Two uploads and a download: a Create and an Overwrite of two blocks, and *)
(* Resumes behind the first block, to the end or one block at a time.       *)
EXTENDS PlainStore

Asks(m, o, n, f) == [mode |-> m, offset |-> o, size |-> n, final |-> f]
MCRequests ==
  {Asks("create", 0, 2, TRUE), Asks("overwrite", 0, 1, FALSE),
   Asks("resume", 1, 3, TRUE), Asks("resume", 1, 2, FALSE), Asks("create", 0, 4, TRUE)}
=============================================================================
