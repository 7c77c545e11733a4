---------------------------- MODULE MCStateFile -----------------------------
(* StateFile with processes that differ only by their name.                *)
EXTENDS StateFile, TLC

Symmetry == Permutations(Proc)

\* A call sets its variables before it reads them: what an earlier one has left
\* there makes no difference.
View ==
  <<file, backup, lockfile, stale, HEAD, pc, fd, charged, orderly, calls,
    crashes, spoils,
    [p \in Proc |-> IF pc[p] = "idle" THEN None
                    ELSE <<op[p], section[p], st[p], sha[p]>>]>>

=============================================================================
