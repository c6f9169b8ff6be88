------------------------------- MODULE Batch -------------------------------
(***************************************************************************)
(* The batch runner of internal/core/batch.go: runBatch dispatches the     *)
(* items of a request to goroutines under a counting semaphore, and the    *)
(* goroutines write result slots, counters and the streaming sink.         *)
(*                                                                         *)
(* Each step is one access to state that two goroutines share: the failed  *)
(* flag, the semaphore, a result slot, the mutex and the wait group.       *)
(***************************************************************************)
EXTENDS Integers, Sequences, FiniteSets

CONSTANTS N,            \* len(items)
          Requested,    \* the values BatchOptions.Concurrency may have
          PoolSize,     \* Capabilities().PoolSize of the provider
          None          \* "no output yet", and a free mutex

ASSUME BatchAssumption == /\ N \in Nat
                          /\ Requested \subseteq Int
                          /\ PoolSize \in Int

Items == 0 .. N - 1

ASSUME NoneIsNoItem == None \notin Items

VARIABLES opts,      \* failFast, the effective concurrency, sink # nil
          ctxDone,   \* ctx.Err() # nil
          next,      \* the loop variable i of the dispatcher
          dpc,       \* where the dispatcher is
          gpc,       \* where the goroutine of each item is
          res,       \* the goroutine's local result
          results,   \* the slots of the Results slice
          failed,    \* the atomic flag
          sem, wg,   \* tokens in the semaphore channel; the WaitGroup counter
          mu,        \* the holder of the mutex
          succeeded, failedN,
          sent,      \* what the sink received, in order
          late,      \* history: items started after a failure or cancellation
          out        \* the returned BatchOutput

disp  == <<next, dpc>>
sums  == <<succeeded, failedN>>
vars  == <<opts, ctxDone, disp, gpc, res, results, failed, sem, wg, mu, sums,
           sent, late, out>>

Outcomes == {"ok", "error"}
Statuses == Outcomes \cup {"skipped"}

(* batchConcurrency: the pool size, or 1 when it is unknown. *)
DefaultConc == IF PoolSize > 0 THEN PoolSize ELSE 1

(* The cap runBatch uses for a requested concurrency c. *)
EffectiveConc(c) == LET conc == IF c <= 0 THEN DefaultConc ELSE c
                    IN  IF conc < 1 THEN 1 ELSE conc

Init == /\ opts \in [failFast : BOOLEAN, stream : BOOLEAN,
                     conc : {EffectiveConc(c) : c \in Requested}]
        /\ ctxDone = FALSE
        /\ next = 0 /\ dpc = "check"
        /\ gpc = [i \in Items |-> "none"]
        /\ res = [i \in Items |-> None]
        /\ results = [i \in Items |-> "skipped"]
        /\ failed = FALSE
        /\ sem = 0 /\ wg = 0
        /\ mu = None
        /\ succeeded = 0 /\ failedN = 0
        /\ sent = << >>
        /\ late = 0
        /\ out = None

(***************************************************************************)
(* The dispatcher.                                                         *)
(***************************************************************************)
Stop == opts.failFast /\ failed

(* The head of the loop: all items dispatched, a cancelled context, or a     *)
(* failure under fail-fast ends it.                                          *)
LoopHead ==
  /\ dpc = "check"
  /\ dpc' = IF next = N \/ ctxDone \/ Stop THEN "wait" ELSE "acquire"
  /\ UNCHANGED <<opts, ctxDone, next, gpc, res, results, failed, sem, wg, mu,
                 sums, sent, late, out>>

(* sem <- struct{}{} : blocks while the channel is full. *)
Acquire ==
  /\ dpc = "acquire" /\ sem < opts.conc
  /\ sem' = sem + 1
  /\ dpc' = "recheck"
  /\ UNCHANGED <<opts, ctxDone, next, gpc, res, results, failed, wg, mu, sums,
                 sent, late, out>>

(* The second look at the flag, after a wait for the semaphore that may have *)
(* been long; a stop gives the token back.                                   *)
Recheck ==
  /\ dpc = "recheck"
  /\ IF Stop THEN dpc' = "wait" /\ sem' = sem - 1
             ELSE dpc' = "spawn" /\ UNCHANGED sem
  /\ UNCHANGED <<opts, ctxDone, next, gpc, res, results, failed, wg, mu, sums,
                 sent, late, out>>

(* wg.Add(1) and the go statement. *)
Spawn ==
  /\ dpc = "spawn"
  /\ wg' = wg + 1
  /\ gpc' = [gpc EXCEPT ![next] = "fn"]
  /\ late' = IF ctxDone \/ failed THEN late + 1 ELSE late
  /\ next' = next + 1 /\ dpc' = "check"
  /\ UNCHANGED <<opts, ctxDone, res, results, failed, sem, mu, sums, sent, out>>

ReturnEarly ==
  /\ dpc = "wait"
  /\ out' = [total |-> N, succeeded |-> succeeded, failed |-> failedN,
             results |-> results]
  /\ dpc' = "returned"
  /\ UNCHANGED <<opts, ctxDone, next, gpc, res, results, failed, sem, wg, mu,
                 sums, sent, late>>

(* wg.Wait() and the return. *)
Return ==
  /\ dpc = "wait" /\ wg = 0
  /\ out' = [total |-> N, succeeded |-> succeeded, failed |-> failedN,
             results |-> results]
  /\ dpc' = "returned"
  /\ UNCHANGED <<opts, ctxDone, next, gpc, res, results, failed, sem, wg, mu,
                 sums, sent, late>>

(***************************************************************************)
(* The goroutine of item i.                                                *)
(***************************************************************************)

(* fn(ctx, item) returns: any outcome, whatever the context says. *)
Run(i) ==
  /\ gpc[i] = "fn"
  /\ \E o \in Outcomes :
       /\ res' = [res EXCEPT ![i] = o]
       /\ gpc' = [gpc EXCEPT ![i] = IF o = "error" /\ opts.failFast
                                    THEN "flag" ELSE "slot"]
  /\ UNCHANGED <<opts, ctxDone, disp, results, failed, sem, wg, mu, sums, sent,
                 late, out>>

(* failed.Store(true) *)
RaiseFlag(i) ==
  /\ gpc[i] = "flag"
  /\ failed' = TRUE
  /\ gpc' = [gpc EXCEPT ![i] = "slot"]
  /\ UNCHANGED <<opts, ctxDone, disp, res, results, sem, wg, mu, sums, sent,
                 late, out>>

(* results[idx] = res, without the lock. *)
WriteSlot(i) ==
  /\ gpc[i] = "slot"
  /\ results' = [results EXCEPT ![i] = res[i]]
  /\ gpc' = [gpc EXCEPT ![i] = "lock"]
  /\ UNCHANGED <<opts, ctxDone, disp, res, failed, sem, wg, mu, sums, sent,
                 late, out>>

(* mu.Lock() and the counters. *)
Count(i) ==
  /\ gpc[i] = "lock" /\ mu = None
  /\ mu' = i
  /\ IF res[i] = "error"
       THEN failedN' = failedN + 1 /\ UNCHANGED succeeded
       ELSE succeeded' = succeeded + 1 /\ UNCHANGED failedN
  /\ gpc' = [gpc EXCEPT ![i] = "emit"]
  /\ UNCHANGED <<opts, ctxDone, disp, res, results, failed, sem, wg, sent, late,
                 out>>

(* sink(res) with the mutex held, and mu.Unlock(). *)
Emit(i) ==
  /\ gpc[i] = "emit"
  /\ sent' = IF opts.stream THEN Append(sent, <<i, res[i]>>) ELSE sent
  /\ mu' = None
  /\ gpc' = [gpc EXCEPT ![i] = "release"]
  /\ UNCHANGED <<opts, ctxDone, disp, res, results, failed, sem, wg, sums, late,
                 out>>

ReleaseIfOk(i) ==
  /\ gpc[i] = "release"
  /\ sem' = IF res[i] = "ok" THEN sem - 1 ELSE sem
  /\ gpc' = [gpc EXCEPT ![i] = "exit"]
  /\ UNCHANGED <<opts, ctxDone, disp, res, results, failed, wg, mu, sums, sent,
                 late, out>>

(* The deferred <-sem, which runs before the deferred wg.Done(). *)
Release(i) ==
  /\ gpc[i] = "release"
  /\ sem' = sem - 1
  /\ gpc' = [gpc EXCEPT ![i] = "exit"]
  /\ UNCHANGED <<opts, ctxDone, disp, res, results, failed, wg, mu, sums, sent,
                 late, out>>

(* The deferred wg.Done(). *)
Done(i) ==
  /\ gpc[i] = "exit"
  /\ wg' = wg - 1
  /\ gpc' = [gpc EXCEPT ![i] = "done"]
  /\ UNCHANGED <<opts, ctxDone, disp, res, results, failed, sem, mu, sums, sent,
                 late, out>>

(* The caller's context is cancelled: a client that disconnects, a deadline, *)
(* a cancelled job.                                                          *)
CancelCtx ==
  /\ ~ctxDone
  /\ ctxDone' = TRUE
  /\ UNCHANGED <<opts, disp, gpc, res, results, failed, sem, wg, mu, sums, sent,
                 late, out>>

Dispatcher == LoopHead \/ Acquire \/ Recheck \/ Spawn \/ Return

Goroutine(i) == \/ Run(i) \/ RaiseFlag(i) \/ WriteSlot(i) \/ Count(i)
                \/ Emit(i) \/ Release(i) \/ Done(i)

Next == Dispatcher \/ CancelCtx \/ \E i \in Items : Goroutine(i)

Spec == Init /\ [][Next]_vars

(* Go runs every runnable goroutine, and the operations fn return: each one  *)
(* is bounded by the driver's own timeouts.                                  *)
Fair == WF_vars(Dispatcher) /\ \A i \in Items : WF_vars(Goroutine(i))

(***************************************************************************)
(* Properties.                                                             *)
(***************************************************************************)
GPC == {"none", "fn", "flag", "slot", "lock", "emit", "release", "exit", "done"}
DPC == {"check", "acquire", "recheck", "spawn", "wait", "returned"}

(* Every variable of the runner has its type. *)
TypeOK == /\ opts \in [failFast : BOOLEAN, stream : BOOLEAN, conc : Nat \ {0}]
          /\ ctxDone \in BOOLEAN /\ failed \in BOOLEAN
          /\ next \in 0 .. N /\ dpc \in DPC
          /\ gpc \in [Items -> GPC]
          /\ res \in [Items -> Outcomes \cup {None}]
          /\ results \in [Items -> Statuses]
          /\ sem \in Nat /\ wg \in Nat
          /\ mu \in Items \cup {None}
          /\ succeeded \in Nat /\ failedN \in Nat
          /\ sent \in Seq(Items \X Outcomes)
          /\ late \in Nat
          /\ dpc # "returned" => out = None

Live == {i \in Items : gpc[i] \notin {"none", "exit", "done"}}

(* At most conc items are in flight, whatever concurrency was asked for, and *)
(* no token of the semaphore leaks: when the batch has returned the channel  *)
(* is empty.                                                                 *)
Bounded == /\ Cardinality(Live) <= opts.conc
           /\ dpc = "returned" => sem = 0

(* Fail-fast "stops dispatching new items after the first hard failure": the *)
(* dispatcher may have read the flag, or the context, just before, so one    *)
(* item, and never two, starts after a failure or a cancellation.            *)
AtMostOneLate == late <= 1

(* The streaming sink gets each item once, with the very result the slot     *)
(* holds, and when the batch has returned it got every item that ran and no  *)
(* skipped one: a streaming consumer and an aggregate consumer see the same. *)
SinkAgrees ==
  /\ \A a, b \in 1 .. Len(sent) : a # b => sent[a][1] # sent[b][1]
  /\ \A a \in 1 .. Len(sent) : results[sent[a][1]] = sent[a][2]
  /\ (opts.stream /\ dpc = "returned") =>
       \A i \in Items : out.results[i] # "skipped"
                          => \E a \in 1 .. Len(sent) : sent[a] = <<i, results[i]>>

Contract == INSTANCE BatchContract
              WITH failFast <- opts.failFast, started <- next

(* runBatch implements its contract: items start in request order, a slot is *)
(* written once, and the call returns only when every started item is done   *)
(* and counted, with a reason for the items it skipped.                      *)
ImplementsContract == Contract!Spec

(* Every batch returns, also when the context is cancelled while the         *)
(* dispatcher waits for a token.                                             *)
Terminates == <>(dpc = "returned")
=============================================================================
