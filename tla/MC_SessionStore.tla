--------------------------- MODULE MC_SessionStore ---------------------------
(* SessionStore on a small instance: two requests, two blocks, and one more *)
(* inode than two open sinks, the temp and the target can refer to.         *)
EXTENDS SessionStore, TLC

MCBodies == {<<1, 0>>, <<1, 2>>}
Symmetry == Permutations(Requests) \cup Permutations(Inodes)

(* What an unreferenced inode holds is never read: Create empties it.      *)
View == <<temp, target, sidecar, [i \in Inodes |-> IF i # temp /\ \A r \in Requests : fd[r] # i THEN {} ELSE data[i]],
          inflight, lock, handlers, background>>
=============================================================================
