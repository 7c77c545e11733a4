---------------------------- MODULE MCSupervisor ----------------------------
(* Small instances of Supervisor for TLC. *)
EXTENDS Supervisor, TLC

\* Workers differ only by their key, and ids are drawn at random.
Symmetry == Permutations(Wid) \cup Permutations(TaskId)

=============================================================================
