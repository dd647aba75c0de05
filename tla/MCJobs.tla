------------------------------- MODULE MCJobs -------------------------------
(* The task queue on a small instance for TLC. *)
EXTENDS Jobs, TLC

MCSymmetry == Permutations(TaskIds) \cup Permutations(Keys) \cup Permutations(Slots)

=============================================================================
