--------------------------- MODULE BatchContract ---------------------------
(***************************************************************************)
(* What runBatch of internal/core/batch.go promises its callers, with no   *)
(* semaphore, lock, flag or counter: items start in request order, each    *)
(* started item gets one outcome, and the batch returns once every started *)
(* item has its outcome and there is a reason not to start another.  The   *)
(* summary is defined by what it counts.                                   *)
(***************************************************************************)
EXTENDS Integers, FiniteSets

CONSTANTS N, None

VARIABLES failFast,   \* the policy of the request
          ctxDone,    \* the caller has cancelled
          started,    \* how many items have started
          results,    \* the outcome of each item, "skipped" until it has one
          out         \* what the caller got

vars == <<failFast, ctxDone, started, results, out>>

Items == 0 .. N - 1

With(r, s) == {i \in Items : r[i] = s}

Init == /\ failFast \in BOOLEAN
        /\ ctxDone = FALSE
        /\ started = 0
        /\ results = [i \in Items |-> "skipped"]
        /\ out = None

StartItem == /\ out = None /\ started < N
             /\ started' = started + 1
             /\ UNCHANGED <<failFast, ctxDone, results, out>>

FinishItem(i) == /\ out = None
                 /\ i < started /\ results[i] = "skipped"
                 /\ \E o \in {"ok", "error"} : results' = [results EXCEPT ![i] = o]
                 /\ UNCHANGED <<failFast, ctxDone, started, out>>

CancelBatch == /\ ~ctxDone /\ ctxDone' = TRUE
               /\ UNCHANGED <<failFast, started, results, out>>

MayStop == \/ started = N
           \/ ctxDone
           \/ failFast /\ With(results, "error") # {}

ReturnBatch ==
  /\ out = None
  /\ With(results, "skipped") = started .. N - 1
  /\ MayStop
  /\ out' = [total |-> N, succeeded |-> Cardinality(With(results, "ok")),
             failed |-> Cardinality(With(results, "error")), results |-> results]
  /\ UNCHANGED <<failFast, ctxDone, started, results>>

Next == StartItem \/ CancelBatch \/ ReturnBatch \/ \E i \in Items : FinishItem(i)

Spec == Init /\ [][Next]_vars
=============================================================================
