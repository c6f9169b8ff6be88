----------------------------- MODULE Requests -----------------------------
(***************************************************************************)
(* What the sign-in flows share: the HTTP requests being served, each on a *)
(* goroutine of its own, and the clock their deadlines are read from.      *)
(***************************************************************************)
EXTENDS Integers, FiniteSets, Sequences, TLC

CONSTANTS Threads,   \* goroutines serving requests
          MaxTime,   \* bound on the clock
          TTL,       \* lifetime of a challenge, a code and a session
          Durable    \* whether the stores are bbolt files or memory

ASSUME RequestsAssumption ==
  MaxTime \in Nat /\ TTL \in Nat \ {0} /\ Durable \in BOOLEAN

VARIABLES now,
          req   \* what each goroutine is in the middle of

Idle == [op |-> "idle"]
Free(t) == req[t] = Idle
Serve(t, r) == req' = [req EXCEPT ![t] = r]
Done(t) == Serve(t, Idle)

(* !ExpiresAt.After(now) *)
Expired(exp) == exp <= now

Min2(m, n) == IF m < n THEN m ELSE n
=============================================================================
