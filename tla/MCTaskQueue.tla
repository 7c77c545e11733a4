---------------------------- MODULE MCTaskQueue ----------------------------
(* TaskQueue on a few interchangeable tasks.                               *)
EXTENDS TaskQueue, TLC

Symmetry == Permutations(TaskId)

=============================================================================
