-------------------------------- MODULE Jobs --------------------------------
(***************************************************************************)
(* The asynchronous job manager (internal/jobs): clients submit and cancel *)
(* jobs, a pool of workers runs them, a reaper deletes expired ones, and   *)
(* the process may be stopped or crash and be started again over a durable *)
(* (bbolt) or an ephemeral (in-memory) store.                              *)
(*                                                                         *)
(* Every Store call is one critical section, hence one step.  Cancel and   *)
(* run are each a sequence of Store calls with nothing held between them:  *)
(* the copy of the job they read is local state (cjob, wjob) and may be    *)
(* stale when it is saved.                                                 *)
(***************************************************************************)
EXTENDS Naturals, Sequences, FiniteSets

CONSTANTS
    Ids,          \* job ids newID may draw
    Workers,      \* the goroutines of Manager.worker
    Clients,      \* request handlers calling Submit and Cancel
    Cancellers,   \* the clients among them that call Cancel
    Keys,         \* idempotency keys
    Ops,          \* kinds of operation submitted: "single", "batch"
    None,         \* no job id, key, client or worker
    NoJob,        \* an id absent from the store
    QueueSize,    \* Config.QueueSize
    IdemMax,      \* idemMax
    Durable,      \* TRUE: BoltStore, FALSE: MemStore
    MaxStops,     \* bound on the number of shutdowns and crashes
    MaxFaults     \* bound on the number of failing store calls

Status   == {"queued", "running", "succeeded", "failed", "canceled"}
Terminal == {"succeeded", "failed", "canceled"}
Outcome  == {"ok", "partial", "fail", "interrupted"}

\* The fields of Job the life cycle depends on.  request and expires say
\* whether Request and ExpiresAt are set; result "partial" is a batch output
\* some of whose items are still skipped.
Job == [op: Ops, status: Status, request: BOOLEAN, expires: BOOLEAN,
        result: {"none", "full", "partial"}]

ASSUME ConstAssumption ==
    /\ IsFiniteSet(Ids) /\ Ops \subseteq {"single", "batch"}
    /\ Cancellers \subseteq Clients
    /\ QueueSize \in Nat \ {0} /\ IdemMax \in Nat \ {0}
    /\ MaxStops \in Nat /\ MaxFaults \in Nat
    /\ Durable \in BOOLEAN
ASSUME NoneAssumption ==
    /\ None \notin Ids \cup Keys \cup Clients \cup Workers
    /\ NoJob \notin Job

VARIABLES
    phase,        \* "down", "up", or "stopping" (the serve context is canceled)
    store,        \* the Store
    queue,        \* Manager.queue
    pending,      \* ids the requeue goroutine has still to send
    cancels,      \* Manager.cancels: the worker whose jobCtx a Cancel stops
    idem,         \* Manager.idemKeys
    idemMu,       \* Manager.idemMu: the client holding it, if any
    wpc, wid, wjob, wctx, wout,     \* per worker: the progress of run
    cpc, cid, cjob, ckey,           \* per client: the progress of its call
    used,         \* ids drawn so far
    stops, faults,                  \* bounded environment events
    execs,        \* history: executions of a job in this life of the process
    hooks,        \* history: terminal statuses announced in this life
    accepted,     \* history: ids whose View was returned by a submit
    rejected,     \* history: ids whose submit was answered ErrBusy
    reaped,       \* history: ids the reaper has deleted
    keyOf         \* history: the key a job was created under in this life

procVars == <<queue, pending, cancels, idem, idemMu, wpc, wid, wjob, wctx, wout,
              cpc, cid, cjob, ckey, execs, keyOf>>
vars == <<phase, store, procVars, used, stops, faults, hooks, accepted, rejected, reaped>>

workerVars == <<wpc, wid, wjob, wctx, wout>>
clientVars == <<cpc, cid, cjob, ckey>>
idemVars   == <<idem, idemMu, keyOf>>
histVars   == <<hooks, accepted, rejected, reaped>>

\* An idemRef.  The time it was stored is the set of ids drawn by then.
NoRef == [id |-> None, at |-> {}]

Running == phase \in {"up", "stopping"}
Stored(i) == store[i] # NoJob
Ended(i) == Stored(i) /\ store[i].status \in Terminal

Elems(q) == {q[n] : n \in DOMAIN q}

\* A job as Cancel and run leave it when it ends: payload scrubbed, expiry set.
Finished(j, status, result) ==
    [j EXCEPT !.status = status, !.request = FALSE, !.expires = TRUE, !.result = result]

\* One Store call that writes: it succeeds, or fails and changes nothing.
Save(i, j) ==
    \/ store' = [store EXCEPT ![i] = j] /\ UNCHANGED faults
    \/ faults < MaxFaults /\ faults' = faults + 1 /\ UNCHANGED store

Idle(c) ==
    /\ cpc' = [cpc EXCEPT ![c] = "idle"]
    /\ cid' = [cid EXCEPT ![c] = None]
    /\ cjob' = [cjob EXCEPT ![c] = NoJob]
    /\ ckey' = [ckey EXCEPT ![c] = None]

-----------------------------------------------------------------------------
(* Submit and SubmitIdempotent *)

\* Mutant: the mapping is looked up without taking idemMu.
SubmitLookupUnlocked(c, k) ==
    /\ Running /\ cpc[c] = "idle"
    /\ idem[k] # NoRef => ~Stored(idem[k].id)
    /\ idem' = [idem EXCEPT ![k] = NoRef]
    /\ cpc' = [cpc EXCEPT ![c] = "create"]
    /\ ckey' = [ckey EXCEPT ![c] = k]
    /\ UNCHANGED <<phase, store, queue, pending, cancels, idemMu, workerVars, cid, cjob, used,
                   stops, faults, execs, keyOf, histVars>>

\* SubmitIdempotent's entry: take idemMu.  A mapping whose job is still stored
\* answers the call and changes nothing; one whose job is gone, or whose Get
\* fails, is dropped and the call goes on to submit.
SubmitLookup(c, k) ==
    /\ Running /\ cpc[c] = "idle" /\ idemMu = None
    /\ \/ /\ idem[k] # NoRef => ~Stored(idem[k].id)
          /\ UNCHANGED faults
       \/ /\ idem[k] # NoRef /\ faults < MaxFaults
          /\ faults' = faults + 1
    /\ idem' = [idem EXCEPT ![k] = NoRef]
    /\ idemMu' = c
    /\ cpc' = [cpc EXCEPT ![c] = "create"]
    /\ ckey' = [ckey EXCEPT ![c] = k]
    /\ UNCHANGED <<phase, store, queue, pending, cancels, workerVars, cid, cjob, used, stops,
                   execs, keyOf, histVars>>

\* submit of an invalid op or an oversized request, under idemMu.  (Without a
\* key it changes nothing.)
SubmitInvalid(c) ==
    /\ Running /\ cpc[c] = "create"
    /\ idemMu' = None
    /\ Idle(c)
    /\ UNCHANGED <<phase, store, queue, pending, cancels, idem, workerVars, used, stops, faults,
                   execs, keyOf, histVars>>

\* submit: a fresh id, and the QUEUED record created.  A failing Create ends
\* the call.
SubmitCreate(c, i, op) ==
    /\ Running /\ cpc[c] \in {"idle", "create"}
    /\ i \notin used
    /\ used' = used \cup {i}
    /\ Save(i, [op |-> op, status |-> "queued", request |-> TRUE, expires |-> FALSE,
                result |-> "none"])
    /\ IF faults' = faults
       THEN /\ cpc' = [cpc EXCEPT ![c] = "send"]
            /\ cid' = [cid EXCEPT ![c] = i]
            /\ UNCHANGED <<cjob, ckey, idemMu>>
       ELSE /\ Idle(c)
            /\ idemMu' = IF idemMu = c THEN None ELSE idemMu
    /\ UNCHANGED <<phase, queue, pending, cancels, idem, workerVars, stops, execs, keyOf, histVars>>

\* rememberKeyLocked: at capacity the oldest mapping goes.
Remembered == {k \in Keys : idem[k] # NoRef}
Oldest(k) == k \in Remembered /\ \A l \in Remembered : idem[k].at \subseteq idem[l].at

rememberKeyLocked(k, i) ==
    LET ref == [id |-> i, at |-> used]
    IN  IF Cardinality(Remembered) >= IdemMax
        THEN \E o \in Keys : Oldest(o) /\ idem' = [idem EXCEPT ![o] = NoRef, ![k] = ref]
        ELSE idem' = [idem EXCEPT ![k] = ref]

\* submit's select: the non-blocking send, and what SubmitIdempotent does when
\* it succeeds.  With the queue full the record is rolled back next.
SubmitSend(c) ==
    /\ Running /\ cpc[c] = "send"
    /\ \/ /\ Len(queue) < QueueSize
          /\ queue' = Append(queue, cid[c])
          /\ accepted' = accepted \cup {cid[c]}
          /\ IF ckey[c] = None
             THEN UNCHANGED idemVars
             ELSE /\ rememberKeyLocked(ckey[c], cid[c])
                  /\ idemMu' = None
                  /\ keyOf' = [keyOf EXCEPT ![cid[c]] = ckey[c]]
          /\ Idle(c)
       \/ /\ Len(queue) = QueueSize
          /\ cpc' = [cpc EXCEPT ![c] = "rollback"]
          /\ UNCHANGED <<queue, accepted, idemVars, cid, cjob, ckey>>
    /\ UNCHANGED <<phase, store, pending, cancels, workerVars, used, stops, faults, execs,
                   hooks, rejected, reaped>>

\* submit's default branch: Delete (its error ignored), answer ErrBusy.
SubmitRollback(c) ==
    /\ Running /\ cpc[c] = "rollback"
    /\ Save(cid[c], NoJob)
    /\ rejected' = rejected \cup {cid[c]}
    /\ idemMu' = IF idemMu = c THEN None ELSE idemMu
    /\ Idle(c)
    /\ UNCHANGED <<phase, queue, pending, cancels, idem, workerVars, used, stops, execs, keyOf,
                   hooks, accepted, reaped>>

-----------------------------------------------------------------------------
(* Cancel: Get, stop a registered execution, Save the copy as canceled,     *)
(* fireWebhook                                                             *)

CancelGet(c, i) ==
    /\ Running /\ c \in Cancellers /\ cpc[c] = "idle"
    /\ Stored(i) /\ ~Ended(i)          \* otherwise ErrNotFound, or nil at once
    /\ i \in accepted                  \* a client knows no other id
    /\ cpc' = [cpc EXCEPT ![c] = "signal"]
    /\ cid' = [cid EXCEPT ![c] = i]
    /\ cjob' = [cjob EXCEPT ![c] = store[i]]
    /\ UNCHANGED <<phase, store, queue, pending, cancels, idemVars, workerVars, ckey, used,
                   stops, faults, execs, histVars>>

CancelSignal(c) ==
    /\ Running /\ cpc[c] = "signal"
    /\ wctx' = [w \in Workers |-> IF cancels[cid[c]] = w THEN TRUE ELSE wctx[w]]
    /\ cpc' = [cpc EXCEPT ![c] = "save"]
    /\ UNCHANGED <<phase, store, queue, pending, cancels, idemVars, wpc, wid, wjob, wout, cid,
                   cjob, ckey, used, stops, faults, execs, histVars>>

CancelSave(c) ==
    /\ Running /\ cpc[c] = "save"
    /\ Save(cid[c], Finished(cjob[c], "canceled", cjob[c].result))
    /\ IF faults' = faults
       THEN cpc' = [cpc EXCEPT ![c] = "announce"] /\ UNCHANGED <<cid, cjob, ckey>>
       ELSE Idle(c)
    /\ UNCHANGED <<phase, queue, pending, cancels, idemVars, workerVars, used, stops, execs,
                   histVars>>

\* Mutant: Cancel does not fire the webhook.
CancelAnnounceSilent(c) ==
    /\ Running /\ cpc[c] = "announce"
    /\ Idle(c)
    /\ UNCHANGED <<phase, store, queue, pending, cancels, idemVars, workerVars, used, stops,
                   faults, execs, histVars>>

CancelAnnounce(c) ==
    /\ Running /\ cpc[c] = "announce"
    /\ hooks' = [hooks EXCEPT ![cid[c]] = @ \cup {"canceled"}]
    /\ Idle(c)
    /\ UNCHANGED <<phase, store, queue, pending, cancels, idemVars, workerVars, used, stops,
                   faults, execs, accepted, rejected, reaped>>

-----------------------------------------------------------------------------
(* worker and run *)

\* worker's select: both cases may be ready once the context is canceled, and
\* either may be chosen.
WorkerTake(w) ==
    /\ Running /\ wpc[w] = "idle" /\ queue # <<>>
    /\ queue' = Tail(queue)
    /\ wid' = [wid EXCEPT ![w] = Head(queue)]
    /\ wpc' = [wpc EXCEPT ![w] = "get"]
    /\ UNCHANGED <<phase, store, pending, cancels, idemVars, wjob, wctx, wout, clientVars, used,
                   stops, faults, execs, histVars>>

WorkerExit(w) ==
    /\ phase = "stopping" /\ wpc[w] = "idle"
    /\ wpc' = [wpc EXCEPT ![w] = "exited"]
    /\ UNCHANGED <<phase, store, queue, pending, cancels, idemVars, wid, wjob, wctx, wout,
                   clientVars, used, stops, faults, execs, histVars>>

\* The end of run: the worker forgets the job.
Release(w) ==
    /\ wpc' = [wpc EXCEPT ![w] = "idle"]
    /\ wid' = [wid EXCEPT ![w] = None]
    /\ wjob' = [wjob EXCEPT ![w] = NoJob]
    /\ wctx' = [wctx EXCEPT ![w] = FALSE]
    /\ wout' = [wout EXCEPT ![w] = "ok"]

\* run's Get: only a queued job goes on.
RunGet(w) ==
    /\ Running /\ wpc[w] = "get"
    /\ \/ /\ Stored(wid[w]) /\ store[wid[w]].status = "queued"
          /\ wjob' = [wjob EXCEPT ![w] = [store[wid[w]] EXCEPT !.status = "running"]]
          /\ wpc' = [wpc EXCEPT ![w] = "mark"]
          /\ UNCHANGED <<wid, wctx, wout, faults>>
       \/ /\ Stored(wid[w]) => store[wid[w]].status # "queued"
          /\ Release(w)
          /\ UNCHANGED faults
       \/ /\ faults < MaxFaults
          /\ faults' = faults + 1
          /\ Release(w)
    /\ UNCHANGED <<phase, store, queue, pending, cancels, idemVars, clientVars, used, stops,
                   execs, histVars>>

\* run's Save of the RUNNING copy; its failure is only logged.
RunMark(w) ==
    /\ Running /\ wpc[w] = "mark"
    /\ Save(wid[w], wjob[w])
    /\ wpc' = [wpc EXCEPT ![w] = "register"]
    /\ UNCHANGED <<phase, queue, pending, cancels, idemVars, wid, wjob, wctx, wout, clientVars,
                   used, stops, execs, histVars>>

\* cancels.Store, and the call of exec.
RunRegister(w) ==
    /\ Running /\ wpc[w] = "register"
    /\ cancels' = [cancels EXCEPT ![wid[w]] = w]
    /\ execs' = [execs EXCEPT ![wid[w]] = @ + 1]
    /\ wpc' = [wpc EXCEPT ![w] = "exec"]
    /\ UNCHANGED <<phase, store, queue, pending, idemVars, wid, wjob, wctx, wout, clientVars,
                   used, stops, faults, histVars>>

\* jobCtx is done: a Cancel reached it, or the serve context is.
CtxDone(w) == wctx[w] \/ phase = "stopping"

\* What exec can return.  A single operation under a done context may report
\* context.Canceled, or still end on its own when no wait saw the context; a
\* batch never returns an error for it, its unstarted items stay skipped.
Outcomes(w) ==
    {"ok", "fail"}
    \cup (IF CtxDone(w) /\ wjob[w].op = "single" THEN {"interrupted"} ELSE {})
    \cup (IF CtxDone(w) /\ wjob[w].op = "batch" THEN {"partial"} ELSE {})

\* exec returns; cancels.Delete.
RunReturn(w) ==
    /\ Running /\ wpc[w] = "exec"
    /\ \E o \in Outcomes(w) : wout' = [wout EXCEPT ![w] = o]
    /\ cancels' = [cancels EXCEPT ![wid[w]] = None]
    /\ wpc' = [wpc EXCEPT ![w] = "finish"]
    /\ UNCHANGED <<phase, store, queue, pending, idemVars, wid, wjob, wctx, clientVars, used,
                   stops, faults, execs, histVars>>

\* The rest of run: an interrupted execution writes nothing, any other saves
\* the terminal copy; a failing Save is only logged.
RunFinish(w) ==
    /\ Running /\ wpc[w] = "finish"
    /\ IF wout[w] = "interrupted"
       THEN Release(w) /\ UNCHANGED <<store, faults>>
       ELSE LET fin == CASE wout[w] = "fail"    -> Finished(wjob[w], "failed", "none")
                         [] wout[w] = "partial" -> Finished(wjob[w], "succeeded", "partial")
                         [] OTHER               -> Finished(wjob[w], "succeeded", "full")
            IN  /\ Save(wid[w], fin)
                /\ wjob' = [wjob EXCEPT ![w] = fin]
                /\ wpc' = [wpc EXCEPT ![w] = "announce"]
                /\ UNCHANGED <<wid, wctx, wout>>
    /\ UNCHANGED <<phase, queue, pending, cancels, idemVars, clientVars, used, stops, execs,
                   histVars>>

\* fireWebhook, whether or not the Save succeeded.
RunAnnounce(w) ==
    /\ Running /\ wpc[w] = "announce"
    /\ hooks' = [hooks EXCEPT ![wid[w]] = @ \cup {wjob[w].status}]
    /\ Release(w)
    /\ UNCHANGED <<phase, store, queue, pending, cancels, idemVars, clientVars, used, stops,
                   faults, execs, accepted, rejected, reaped>>

-----------------------------------------------------------------------------
(* Start, requeue, the reaper, and the end of the process *)

\* Reap of the jobs whose ExpiresAt is past.  Time is abstract: any set of
\* terminal jobs with an expiry may be the expired ones.
Reap(E) ==
    /\ Running /\ E # {}
    /\ \A i \in E : Ended(i) /\ store[i].expires
    /\ store' = [i \in Ids |-> IF i \in E THEN NoJob ELSE store[i]]
    /\ reaped' = reaped \cup E
    /\ UNCHANGED <<phase, procVars, used, stops, faults, hooks, accepted, rejected>>

\* Mutant: the id is sent again and again.
RequeueAgain(i) ==
    /\ Running /\ i \in pending /\ Len(queue) < QueueSize
    /\ queue' = Append(queue, i)
    /\ UNCHANGED <<phase, store, pending, cancels, idemVars, workerVars, clientVars, used, stops,
                   faults, execs, histVars>>

Requeue(i) ==
    /\ Running /\ i \in pending /\ Len(queue) < QueueSize
    /\ queue' = Append(queue, i)
    /\ pending' = pending \ {i}
    /\ UNCHANGED <<phase, store, cancels, idemVars, workerVars, clientVars, used, stops, faults,
                   execs, histVars>>

\* Mutant: every stored job is queued again.
RecoveredAll(i) == IF Stored(i) THEN [store[i] EXCEPT !.status = "queued"] ELSE store[i]

\* Mutant: an interrupted job is left RUNNING.
RecoveredNone(i) == store[i]

\* Recover: a job left RUNNING is QUEUED again, every QUEUED id is returned.
Recovered(i) ==
    IF Stored(i) /\ store[i].status = "running"
    THEN [store[i] EXCEPT !.status = "queued"] ELSE store[i]

\* Mutant: only the interrupted jobs are requeued.
StartInterrupted ==
    /\ phase = "down"
    /\ phase' = "up"
    /\ store' = [i \in Ids |-> Recovered(i)]
    /\ pending' = {i \in Ids : Stored(i) /\ store[i].status = "running"}
    /\ UNCHANGED <<queue, cancels, idemVars, workerVars, clientVars, used, stops, faults, execs,
                   histVars>>

Start ==
    /\ phase = "down"
    /\ phase' = "up"
    /\ store' = [i \in Ids |-> Recovered(i)]
    /\ pending' = {i \in Ids : Stored(i) /\ store[i].status \in {"queued", "running"}}
    /\ UNCHANGED <<queue, cancels, idemVars, workerVars, clientVars, used, stops, faults, execs,
                   histVars>>

\* SIGTERM: the serve context is canceled.
Shutdown ==
    /\ phase = "up" /\ stops < MaxStops
    /\ phase' = "stopping"
    /\ stops' = stops + 1
    /\ UNCHANGED <<store, procVars, used, faults, histVars>>

\* The process is gone, and with it every goroutine and the in-memory store.
Vanish ==
    /\ phase' = "down"
    /\ queue' = <<>>
    /\ cancels' = [i \in Ids |-> None]
    /\ idem' = [k \in Keys |-> NoRef] /\ idemMu' = None
    /\ wpc' = [w \in Workers |-> "idle"] /\ wid' = [w \in Workers |-> None]
    /\ wjob' = [w \in Workers |-> NoJob] /\ wctx' = [w \in Workers |-> FALSE]
    /\ wout' = [w \in Workers |-> "ok"]
    /\ cpc' = [c \in Clients |-> "idle"] /\ cid' = [c \in Clients |-> None]
    /\ cjob' = [c \in Clients |-> NoJob] /\ ckey' = [c \in Clients |-> None]
    /\ execs' = [i \in Ids |-> 0] /\ hooks' = [i \in Ids |-> {}]
    /\ keyOf' = [i \in Ids |-> None]
    /\ pending' = {}
    /\ store' = IF Durable THEN store ELSE [i \in Ids |-> NoJob]
    /\ UNCHANGED <<used, faults, accepted, rejected, reaped>>

\* serve's orderly end, once Wait has seen every worker return.
Stop ==
    /\ phase = "stopping" /\ \A w \in Workers : wpc[w] = "exited"
    /\ Vanish
    /\ UNCHANGED stops

Crash ==
    /\ Running /\ stops < MaxStops
    /\ stops' = stops + 1
    /\ Vanish

-----------------------------------------------------------------------------
Init ==
    /\ phase = "down"
    /\ store = [i \in Ids |-> NoJob]
    /\ queue = <<>>
    /\ cancels = [i \in Ids |-> None]
    /\ idem = [k \in Keys |-> NoRef] /\ idemMu = None
    /\ wpc = [w \in Workers |-> "idle"] /\ wid = [w \in Workers |-> None]
    /\ wjob = [w \in Workers |-> NoJob] /\ wctx = [w \in Workers |-> FALSE]
    /\ wout = [w \in Workers |-> "ok"]
    /\ cpc = [c \in Clients |-> "idle"] /\ cid = [c \in Clients |-> None]
    /\ cjob = [c \in Clients |-> NoJob] /\ ckey = [c \in Clients |-> None]
    /\ execs = [i \in Ids |-> 0]
    /\ keyOf = [i \in Ids |-> None]
    /\ pending = {}
    /\ used = {} /\ stops = 0 /\ faults = 0
    /\ hooks = [i \in Ids |-> {}]
    /\ accepted = {} /\ rejected = {} /\ reaped = {}

WorkerStep(w) ==
    \/ WorkerTake(w) \/ WorkerExit(w) \/ RunGet(w) \/ RunMark(w) \/ RunRegister(w)
    \/ RunReturn(w) \/ RunFinish(w) \/ RunAnnounce(w)

ClientStep(c) ==
    \/ SubmitInvalid(c) \/ SubmitSend(c) \/ SubmitRollback(c)
    \/ CancelSignal(c) \/ CancelSave(c) \/ CancelAnnounce(c)

Next ==
    \/ \E c \in Clients :
        \/ \E k \in Keys : SubmitLookup(c, k)
        \/ \E i \in Ids, op \in Ops : SubmitCreate(c, i, op)
        \/ \E i \in Ids : CancelGet(c, i)
        \/ ClientStep(c)
    \/ \E w \in Workers : WorkerStep(w)
    \/ \E E \in SUBSET Ids : Reap(E)
    \/ \E i \in Ids : Requeue(i)
    \/ Start \/ Shutdown \/ Stop \/ Crash

Spec == Init /\ [][Next]_vars

\* Scheduling: goroutines run, a started call goes on, a stopped process is
\* started again.  Whether clients call, the process stops or the store fails
\* is left open.  exec returns: native calls end or are killed by their
\* timeout.  A sender blocked on a channel is served before later ones.
Fairness ==
    /\ \A w \in Workers : WF_vars(WorkerStep(w))
    /\ \A c \in Clients : WF_vars(ClientStep(c))
    /\ \A i \in Ids : WF_vars(Requeue(i))
    /\ WF_vars(Start) /\ WF_vars(Stop)

FairSpec == Spec /\ Fairness

-----------------------------------------------------------------------------
(* Properties *)

TypeOK ==
    /\ phase \in {"down", "up", "stopping"}
    /\ store \in [Ids -> Job \cup {NoJob}]
    /\ queue \in Seq(Ids) /\ pending \subseteq Ids
    /\ cancels \in [Ids -> Workers \cup {None}]
    /\ idem \in [Keys -> [id: Ids \cup {None}, at: SUBSET Ids]]
    /\ idemMu \in Clients \cup {None}
    /\ wpc \in [Workers -> {"idle", "get", "mark", "register", "exec", "finish", "announce",
                        "exited"}]
    /\ wid \in [Workers -> Ids \cup {None}]
    /\ wjob \in [Workers -> Job \cup {NoJob}]
    /\ wctx \in [Workers -> BOOLEAN]
    /\ wout \in [Workers -> Outcome]
    /\ cpc \in [Clients -> {"idle", "create", "send", "rollback", "signal", "save",
                        "announce"}]
    /\ cid \in [Clients -> Ids \cup {None}]
    /\ cjob \in [Clients -> Job \cup {NoJob}]
    /\ ckey \in [Clients -> Keys \cup {None}]
    /\ used \subseteq Ids
    /\ stops \in 0..MaxStops /\ faults \in 0..MaxFaults
    /\ execs \in [Ids -> Nat]
    /\ hooks \in [Ids -> SUBSET Terminal]
    /\ accepted \subseteq Ids /\ rejected \subseteq Ids /\ reaped \subseteq Ids
    /\ keyOf \in [Ids -> Keys \cup {None}]

\* In one life of the process a job is executed at most once, whatever the
\* interleaving of submits, cancels, the reaper and the requeue of recovered
\* ids ("deduplicated by jobId").
ExecutedAtMostOnce == \A i \in Ids : execs[i] <= 1

Shape(j) ==
    /\ j.request <=> j.status \notin Terminal
    /\ j.expires <=> j.status \in Terminal
    /\ j.result # "none" <=> j.status = "succeeded"

\* run and Cancel scrub the payload exactly when a job ends: every record that
\* recovery may run again still carries its request, every ended one has none,
\* can be reaped, and holds a result exactly if it succeeded.  The copies that
\* run and Cancel hold keep this whatever else happened to the record.
RecordShape == \A i \in Ids : Stored(i) => Shape(store[i])

\* A job that has not ended is always in somebody's hands while the manager
\* serves: queued, still to be requeued, with the submit that created it, with
\* a worker, or with a Cancel that will end it.  Otherwise it would wait for
\* the next restart.  (A failing store call can leave such a job behind.)
Held(i) ==
    \/ i \in pending \/ i \in Elems(queue)
    \/ \E w \in Workers : wid[w] = i
    \/ \E c \in Clients : cid[c] = i
NoOrphan ==
    phase = "up" /\ faults = 0 => \A i \in Ids : Stored(i) /\ ~Ended(i) => Held(i)

\* "a rejected submit leaves nothing behind": a job answered ErrBusy is not in
\* the store, then or later, and never runs.
RejectedLeavesNothing ==
    faults = 0 => \A i \in rejected : ~Stored(i) /\ execs[i] = 0 /\ hooks[i] = {}

\* A repeated submit with the same key creates a second job only after the
\* first was reaped (or its mapping evicted: not with this few keys).
OneJobPerKey ==
    faults = 0 /\ Cardinality(Keys) <= IdemMax =>
        \A i, j \in Ids :
            keyOf[i] = keyOf[j] /\ keyOf[i] # None /\ i # j => i \in reaped \/ j \in reaped

\* A submit happens or it does not (manager.go Submit): a refused one leaves
\* nothing and a repeated one makes nothing, whatever other submits, workers,
\* cancels and restarts come in between its steps.
SubmitIsAtomic == RejectedLeavesNothing /\ OneJobPerKey

\* While the process lives, a terminal status in the store has been handed to
\* the webhook, or the Cancel or worker that wrote it is about to.  (Recovery
\* does not announce again what a crash kept from being announced.)
Announcing(i) ==
    \/ \E w \in Workers : wid[w] = i /\ wpc[w] = "announce" /\ wjob[w].status = store[i].status
    \/ \E c \in Clients : cid[c] = i /\ cpc[c] = "announce" /\ store[i].status = "canceled"
EndIsAnnounced ==
    stops = 0 => \A i \in Ids : Ended(i) => store[i].status \in hooks[i] \/ Announcing(i)

\* An outcome of run stands: succeeded never becomes failed or the reverse, and
\* neither goes back to queued or running.  It is only reaped, lost with the
\* in-memory store, or overwritten by a Cancel that read the job earlier.
OutcomeStands ==
    [][\A i \in Ids : Stored(i) /\ store[i].status \in {"succeeded", "failed"} =>
            store'[i] \in {store[i], NoJob} \/ store'[i].status = "canceled"]_store

\* jobs.go on Terminal: "a final state that will not change".
TerminalIsFinal ==
    [][\A i \in Ids : Ended(i) => store'[i] \in {store[i], NoJob}]_store

\* Over a durable store every job a client was given ends, and from then on is
\* ended until it is reaped, across shutdowns and crashes, unless a store call
\* failed.
EveryJobEnds ==
    \A i \in Ids : i \in accepted ~> [](Ended(i) \/ i \in reaped \/ faults > 0)
=============================================================================
