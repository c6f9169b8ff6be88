---------------------------- MODULE MCSupervisor ----------------------------
(* Small supervisors for TLC. *)
EXTENDS Supervisor, TLC

(* Callers and slots are interchangeable: Init takes the slots in any order. *)
Perms == Permutations(Callers) \cup Permutations(Slots)
=============================================================================
