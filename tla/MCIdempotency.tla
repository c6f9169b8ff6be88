--------------------------- MODULE MCIdempotency ---------------------------
(* Small caches for TLC. *)
EXTENDS Idempotency, TLC

(* Entry identities, and the callers of one kind, are interchangeable.       *)
Perms == Permutations(Entries) \cup Permutations(Rest) \cup Permutations(Callers \ Rest)
=============================================================================
