------------------------------- MODULE MCJobs -------------------------------
(* Jobs instantiated for TLC. *)
EXTENDS Jobs, TLC

Perms == Permutations(Ids) \cup Permutations(Workers)
=============================================================================
