------------------------------- MODULE JobsInv ------------------------------
(***************************************************************************)
(* The inductive invariant of Jobs, for any set of ids, workers, clients   *)
(* and keys, any queue size, either store, and any number of stops and     *)
(* store faults, the lemmas its proof shares, and its preservation by the  *)
(* steps of submit and Cancel.                                             *)
(*                                                                         *)
(* The argument is ownership: a job that may still start is in exactly one *)
(* place - with the submit that created it, in the queue, in the list to   *)
(* be requeued, or with one worker.                                        *)
(***************************************************************************)
EXTENDS Jobs, TLAPS

Inj(q) == \A m, n \in DOMAIN q : q[m] = q[n] => m = n

Sending(c) == cpc[c] \in {"send", "rollback"}
Canceling(c) == cpc[c] \in {"signal", "save"}
Free(w) == wpc[w] \in {"idle", "exited"}
Unstarted(w) == wpc[w] \in {"get", "mark", "register"}

\* The queue holds an id once, and none that is still to be requeued.
QueueInv == Inj(queue) /\ \A i \in pending : i \notin Elems(queue)

\* A worker in run has an id that nobody else has.
WorkerInv ==
    /\ \A w \in Workers : Free(w) <=> wid[w] = None
    /\ \A w \in Workers : wid[w] \notin pending /\ wid[w] \notin Elems(queue)
    /\ \A v, w \in Workers : wid[v] = wid[w] /\ wid[v] # None => v = w

\* So has a client between Create and the end of submit.
ClientInv ==
    /\ \A c \in Clients : Sending(c) \/ Canceling(c) => cid[c] \in Ids
    /\ \A c \in Clients : Sending(c) =>
        /\ cid[c] \notin pending /\ cid[c] \notin Elems(queue)
        /\ \A w \in Workers : wid[w] # cid[c]
        /\ \A d \in Clients : Sending(d) /\ cid[d] = cid[c] => d = c

\* Whatever is anywhere was drawn by newID.
UsedInv ==
    /\ pending \subseteq used /\ Elems(queue) \subseteq used
    /\ \A w \in Workers : wid[w] # None => wid[w] \in used
    /\ \A c \in Clients : Sending(c) \/ Canceling(c) => cid[c] \in used
    /\ \A i \in Ids : Stored(i) => i \in used

\* A job that may still start has not been executed in this life.
ExecInv ==
    /\ \A i \in Ids : execs[i] \in {0, 1}
    /\ \A i \in Ids : i \notin used \/ i \in pending \/ i \in Elems(queue) => execs[i] = 0
    /\ \A w \in Workers : Unstarted(w) => execs[wid[w]] = 0
    /\ \A c \in Clients : Sending(c) => execs[cid[c]] = 0

\* While the process is down there is nothing but the store.
DownInv ==
    phase = "down" =>
        /\ queue = <<>> /\ pending = {}
        /\ \A w \in Workers : wpc[w] = "idle"
        /\ \A c \in Clients : cpc[c] = "idle"
        /\ \A i \in Ids : execs[i] = 0

\* A recorded outcome has no owner left who could replace it.
HasOutcome(i) == Stored(i) /\ store[i].status \in {"succeeded", "failed"}
SettledInv ==
    \A i \in Ids : HasOutcome(i) =>
        /\ i \notin pending /\ i \notin Elems(queue)
        /\ \A w \in Workers : wid[w] = i => wpc[w] = "announce"
        /\ \A c \in Clients : Sending(c) => cid[c] # i

\* The copies run and Cancel hold are of jobs that have not ended, until they
\* are to be announced.
WorkerCopies ==
    /\ \A w \in Workers : wpc[w] \in {"mark", "register", "exec", "finish"} =>
            wjob[w] \in Job /\ Shape(wjob[w]) /\ wjob[w].status = "running"
    /\ \A w \in Workers : wpc[w] = "announce" => wjob[w].status \in Terminal
ClientCopies ==
    \A c \in Clients : Canceling(c) =>
        cjob[c] \in Job /\ Shape(cjob[c]) /\ cjob[c].status \notin Terminal

IInv == /\ TypeOK /\ QueueInv /\ WorkerInv /\ ClientInv /\ UsedInv /\ ExecInv
        /\ DownInv /\ SettledInv /\ WorkerCopies /\ ClientCopies /\ RecordShape

-----------------------------------------------------------------------------
(* The queue as a set, and the records run and Cancel write *)

\* The queue of a new Manager.
LEMMA EmptyElems == Inj(<<>>) /\ Elems(<<>>) = {} /\ <<>> \in Seq(Ids)
BY DEF Inj, Elems

\* Sending an id that is not queued keeps the queue free of duplicates.
LEMMA AppendElems ==
    ASSUME NEW S, NEW q \in Seq(S), NEW x \in S
    PROVE  /\ Elems(Append(q, x)) = Elems(q) \cup {x}
           /\ Inj(q) /\ x \notin Elems(q) => Inj(Append(q, x))
<1>1. /\ Append(q, x) \in Seq(S) /\ DOMAIN Append(q, x) = 1..(Len(q) + 1)
      /\ DOMAIN q = 1..Len(q) /\ Len(q) \in Nat
      /\ Append(q, x)[Len(q) + 1] = x
      /\ \A n \in 1..Len(q) : Append(q, x)[n] = q[n]
  OBVIOUS
<1>2. Elems(Append(q, x)) = Elems(q) \cup {x}
  BY <1>1 DEF Elems
<1>3. ASSUME Inj(q), x \notin Elems(q) PROVE Inj(Append(q, x))
  BY <1>1, <1>3 DEF Inj, Elems
<1> QED BY <1>2, <1>3

\* Receiving the head removes it from the queue altogether.
LEMMA TailElems ==
    ASSUME NEW S, NEW q \in Seq(S), q # <<>>, Inj(q)
    PROVE  /\ Tail(q) \in Seq(S) /\ Inj(Tail(q))
           /\ Head(q) \in Elems(q) /\ Head(q) \in S
           /\ Elems(Tail(q)) = Elems(q) \ {Head(q)}
<1>1. /\ Len(q) \in Nat \ {0} /\ DOMAIN q = 1..Len(q)
      /\ Tail(q) \in Seq(S) /\ DOMAIN Tail(q) = 1..(Len(q) - 1)
      /\ Head(q) = q[1]
      /\ \A n \in 1..(Len(q) - 1) : Tail(q)[n] = q[n + 1]
  OBVIOUS
<1>2. Inj(Tail(q))
  BY <1>1 DEF Inj
<1>3. Head(q) \in Elems(q) /\ Head(q) \in S
  BY <1>1 DEF Elems
<1>4. Elems(Tail(q)) \subseteq Elems(q) \ {Head(q)}
  BY <1>1 DEF Elems, Inj
<1>5. ASSUME NEW y \in Elems(q), y # Head(q) PROVE y \in Elems(Tail(q))
  <2>1. PICK n \in 1..Len(q) : q[n] = y
    BY <1>1 DEF Elems
  <2>2. n - 1 \in 1..(Len(q) - 1) /\ Tail(q)[n - 1] = y
    BY <1>1, <1>5, <2>1
  <2> QED BY <1>1, <2>2, Zenon DEF Elems
<1> QED BY <1>1, <1>2, <1>3, <1>4, <1>5

\* A finished copy is a well-formed terminal record.
LEMMA FinishedShape ==
    ASSUME NEW j \in Job, NEW s \in Terminal, NEW r \in {"none", "full", "partial"},
           r # "none" <=> s = "succeeded"
    PROVE  /\ Finished(j, s, r) \in Job /\ Shape(Finished(j, s, r))
           /\ Finished(j, s, r).status = s
BY Zenon DEF Finished, Shape, Job, Status, Terminal

\* The record submit creates.
LEMMA QueuedShape ==
    ASSUME NEW op \in Ops
    PROVE  LET j == [op |-> op, status |-> "queued", request |-> TRUE, expires |-> FALSE,
                     result |-> "none"]
           IN  j \in Job /\ Shape(j) /\ j.status = "queued"
BY DEF Shape, Job, Status, Terminal

\* Taking a queued job, or recovering a running one, changes only its status.
LEMMA RestatusShape ==
    ASSUME NEW j \in Job, Shape(j), j.status \in {"queued", "running"},
           NEW s \in {"queued", "running"}
    PROVE  /\ [j EXCEPT !.status = s] \in Job
           /\ Shape([j EXCEPT !.status = s])
           /\ [j EXCEPT !.status = s].status = s
BY DEF Shape, Job, Status, Terminal

\* A store call writes its record or nothing, and counts its failures.
SaveFacts(i, j) ==
    /\ store' \in [Ids -> Job \cup {NoJob}] /\ faults' \in 0..MaxFaults
    /\ \A k \in Ids : k # i => store'[k] = store[k]
    /\ store'[i] \in {store[i], j}
    /\ faults' = faults => store'[i] = j

LEMMA SaveLemma ==
    ASSUME TypeOK, NEW i \in Ids, NEW j \in Job \cup {NoJob}, Save(i, j)
    PROVE  SaveFacts(i, j)
<1> USE DEF TypeOK, SaveFacts
<1>1. CASE store' = [store EXCEPT ![i] = j] /\ UNCHANGED faults
  BY <1>1
<1>2. CASE faults < MaxFaults /\ faults' = faults + 1 /\ UNCHANGED store
  <2>1. faults' \in 0..MaxFaults /\ faults' # faults
    BY <1>2, ConstAssumption
  <2> QED BY <1>2, <2>1
<1> QED BY <1>1, <1>2 DEF Save

\* What the end of a client's call, and of run, do to the caller.
IdleFacts(c) ==
    /\ cpc' \in [Clients -> {"idle", "create", "send", "rollback", "signal", "save",
                         "announce"}]
    /\ cid' \in [Clients -> Ids \cup {None}]
    /\ cjob' \in [Clients -> Job \cup {NoJob}]
    /\ ckey' \in [Clients -> Keys \cup {None}]
    /\ \A d \in Clients : d # c => cpc'[d] = cpc[d] /\ cid'[d] = cid[d] /\ cjob'[d] = cjob[d]
    /\ cpc'[c] = "idle"

LEMMA IdleLemma ==
    ASSUME TypeOK, NEW c \in Clients, Idle(c)
    PROVE  IdleFacts(c)
BY DEF TypeOK, Idle, IdleFacts

ReleaseFacts(w) ==
    /\ wpc' \in [Workers -> {"idle", "get", "mark", "register", "exec", "finish",
                         "announce", "exited"}]
    /\ wid' \in [Workers -> Ids \cup {None}]
    /\ wjob' \in [Workers -> Job \cup {NoJob}]
    /\ wctx' \in [Workers -> BOOLEAN]
    /\ wout' \in [Workers -> Outcome]
    /\ \A v \in Workers : v # w => wpc'[v] = wpc[v] /\ wid'[v] = wid[v] /\ wjob'[v] = wjob[v]
    /\ wpc'[w] = "idle" /\ wid'[w] = None

LEMMA ReleaseLemma ==
    ASSUME TypeOK, NEW w \in Workers, Release(w)
    PROVE  ReleaseFacts(w)
BY DEF TypeOK, Release, ReleaseFacts, Outcome

-----------------------------------------------------------------------------
(* Steps that hand no job to anybody *)

\* Workers keep their job or let it go, and clients do not get a new one.
WorkersQuiet ==
    \A w \in Workers :
        /\ wid'[w] \in {wid[w], None}
        /\ Free(w)' <=> wid'[w] = None
        /\ Unstarted(w)' => Unstarted(w) /\ wid'[w] = wid[w]
        /\ wpc[w] = "announce" => wpc'[w] = "announce" \/ wid'[w] = None
ClientsQuiet ==
    \A c \in Clients :
        /\ Sending(c)' => Sending(c) /\ cid'[c] = cid[c]
        /\ Canceling(c)' => cid'[c] \in Ids /\ cid'[c] \in used

\* None is in no channel and in no list.
LEMMA NoneNowhere == TypeOK => None \notin pending /\ None \notin Elems(queue)
<1> SUFFICES ASSUME TypeOK PROVE None \notin pending /\ None \notin Elems(queue)
  OBVIOUS
<1>1. \A n \in DOMAIN queue : queue[n] \in Ids
  BY DEF TypeOK
<1> QED BY <1>1, NoneAssumption DEF TypeOK, Elems

LEMMA WorkersUnchanged ==
    ASSUME WorkerInv, UNCHANGED <<wpc, wid>>
    PROVE  WorkersQuiet
BY DEF WorkerInv, WorkersQuiet, Free, Unstarted

LEMMA ClientsUnchanged ==
    ASSUME ClientInv, UsedInv, UNCHANGED <<cpc, cid>>
    PROVE  ClientsQuiet
BY DEF ClientInv, UsedInv, ClientsQuiet, Sending, Canceling

LEMMA IdleQuiet ==
    ASSUME ClientInv, UsedInv, NEW c \in Clients, IdleFacts(c)
    PROVE  ClientsQuiet
BY DEF ClientInv, UsedInv, ClientsQuiet, Sending, Canceling, IdleFacts

LEMMA ReleaseQuiet ==
    ASSUME WorkerInv, NEW w \in Workers, ReleaseFacts(w)
    PROVE  WorkersQuiet
BY DEF WorkerInv, WorkersQuiet, Free, Unstarted, ReleaseFacts

\* Such a step keeps every job where it was.
LEMMA ClaimFrame ==
    ASSUME IInv, WorkersQuiet, ClientsQuiet, UNCHANGED <<queue, pending, used, execs>>,
           phase' # "down", \A i \in Ids : Stored(i)' => i \in used
    PROVE  QueueInv' /\ WorkerInv' /\ ClientInv' /\ UsedInv' /\ ExecInv' /\ DownInv'
<1>1. QueueInv'
  BY DEF IInv, QueueInv
<1>2. WorkerInv'
  <2>1. None \notin pending /\ None \notin Elems(queue)
    BY NoneNowhere DEF IInv
  <2> QED BY <2>1 DEF IInv, WorkerInv, WorkersQuiet
<1>3. ClientInv'
  <2>1. \A c \in Clients : Sending(c) => cid[c] # None
    BY NoneAssumption DEF IInv, ClientInv
  <2> QED BY <2>1 DEF IInv, ClientInv, WorkersQuiet, ClientsQuiet
<1>4. UsedInv'
  BY DEF IInv, UsedInv, WorkersQuiet, ClientsQuiet
<1>5. ExecInv'
  BY DEF IInv, ExecInv, WorkersQuiet, ClientsQuiet
<1>6. DownInv'
  BY DEF DownInv
<1> QED BY <1>1, <1>2, <1>3, <1>4, <1>5, <1>6

\* And no recorded outcome gets an owner.
LEMMA SettledFrame ==
    ASSUME IInv, WorkersQuiet, ClientsQuiet, UNCHANGED <<queue, pending>>,
           \A i \in Ids : HasOutcome(i)' => HasOutcome(i)
    PROVE  SettledInv'
BY NoneAssumption DEF IInv, SettledInv, WorkersQuiet, ClientsQuiet

LEMMA WorkerCopiesUnchanged ==
    ASSUME WorkerCopies, UNCHANGED <<wpc, wjob>>
    PROVE  WorkerCopies'
BY DEF WorkerCopies

LEMMA ClientCopiesUnchanged ==
    ASSUME ClientCopies, UNCHANGED <<cpc, cjob>>
    PROVE  ClientCopies'
BY DEF ClientCopies, Canceling

LEMMA IdleCopies ==
    ASSUME ClientCopies, NEW c \in Clients, IdleFacts(c)
    PROVE  ClientCopies'
BY DEF ClientCopies, Canceling, IdleFacts

LEMMA ReleaseCopies ==
    ASSUME WorkerCopies, NEW w \in Workers, ReleaseFacts(w)
    PROVE  WorkerCopies'
BY DEF WorkerCopies, ReleaseFacts

\* A step that leaves the store alone keeps its records and outcomes.
LEMMA StoreUnchanged ==
    ASSUME IInv, UNCHANGED store
    PROVE  /\ RecordShape'
           /\ \A i \in Ids : Stored(i)' => i \in used
           /\ \A i \in Ids : HasOutcome(i)' => HasOutcome(i)
BY DEF IInv, RecordShape, UsedInv, Stored, HasOutcome

\* Writing one well-formed record of a known job keeps the records well-formed;
\* unless it is an outcome, no outcome is new.
LEMMA StoreWritten ==
    ASSUME IInv, NEW i \in Ids, i \in used, NEW j, j = NoJob \/ Shape(j), SaveFacts(i, j)
    PROVE  /\ RecordShape'
           /\ \A k \in Ids : Stored(k)' => k \in used
           /\ j = NoJob \/ j.status \notin {"succeeded", "failed"} =>
                \A k \in Ids : HasOutcome(k)' => HasOutcome(k)
<1>1. \A k \in Ids : k # i => store'[k] = store[k]
  BY DEF SaveFacts
<1>2. store'[i] = store[i] \/ store'[i] = j
  BY DEF SaveFacts
<1>3. RecordShape'
  BY <1>1, <1>2 DEF IInv, RecordShape, Stored
<1>4. \A k \in Ids : Stored(k)' => k \in used
  BY <1>1 DEF IInv, UsedInv, Stored
<1>5. ASSUME j = NoJob \/ j.status \notin {"succeeded", "failed"}, NEW k \in Ids, HasOutcome(k)'
      PROVE  HasOutcome(k)
  BY <1>1, <1>2, <1>5 DEF HasOutcome, Stored
<1> QED BY <1>3, <1>4, <1>5

(* submit *)

\* SubmitIdempotent takes the lock.
LEMMA LookupStep ==
    ASSUME IInv, NEW c \in Clients, NEW k \in Keys, SubmitLookup(c, k)
    PROVE  IInv'
<1>1. TypeOK'
  BY NoneAssumption, ConstAssumption
     DEF IInv, SubmitLookup, TypeOK, NoRef, histVars, workerVars
<1>2. WorkersQuiet /\ WorkerCopies'
  BY WorkersUnchanged, WorkerCopiesUnchanged, SMTT(20) DEF IInv, SubmitLookup, workerVars
<1>3. ClientsQuiet /\ ClientCopies'
  BY DEF IInv, TypeOK, SubmitLookup, ClientsQuiet, ClientInv, UsedInv, ClientCopies, Sending,
         Canceling
<1>4. UNCHANGED <<queue, pending, used, execs, store>> /\ phase' # "down"
  BY DEF SubmitLookup, Running
<1> QED BY <1>1, <1>2, <1>3, <1>4, StoreUnchanged, ClaimFrame, SettledFrame, SMTT(20) DEF IInv

\* submit refuses its arguments.
LEMMA InvalidStep ==
    ASSUME IInv, NEW c \in Clients, SubmitInvalid(c)
    PROVE  IInv'
<1>1. IdleFacts(c)
  BY IdleLemma, SMTT(20) DEF IInv, SubmitInvalid
<1>2. TypeOK'
  BY <1>1 DEF IInv, SubmitInvalid, TypeOK, IdleFacts, histVars, workerVars
<1>3. WorkersQuiet /\ WorkerCopies'
  BY WorkersUnchanged, WorkerCopiesUnchanged DEF IInv, SubmitInvalid, workerVars
<1>4. ClientsQuiet /\ ClientCopies'
  BY <1>1, IdleQuiet, IdleCopies DEF IInv
<1>5. UNCHANGED <<queue, pending, used, execs, store>> /\ phase' # "down"
  BY DEF SubmitInvalid, Running
<1> QED BY <1>2, <1>3, <1>4, <1>5, StoreUnchanged, ClaimFrame, SettledFrame DEF IInv

\* submit creates the record: the client has the only claim on a new id.
LEMMA CreateStep ==
    ASSUME IInv, NEW c \in Clients, NEW i \in Ids, NEW op \in Ops, SubmitCreate(c, i, op)
    PROVE  IInv'
<1> DEFINE j == [op |-> op, status |-> "queued", request |-> TRUE, expires |-> FALSE,
                 result |-> "none"]
<1>1. j \in Job /\ Shape(j) /\ j.status = "queued"
  BY QueuedShape
<1>2. i \notin used /\ SaveFacts(i, j)
  BY <1>1, SaveLemma DEF SubmitCreate, IInv
<1>3. /\ used' = used \cup {i} /\ phase' # "down" /\ cpc[c] \in {"idle", "create"}
      /\ UNCHANGED <<phase, queue, pending, cancels, idem, workerVars, stops, execs, keyOf,
                     histVars>>
      /\ idemMu' \in {idemMu, None}
  BY SMTT(20) DEF SubmitCreate, Running
<1>4. /\ cpc' \in [Clients -> {"idle", "create", "send", "rollback", "signal", "save",
                               "announce"}]
      /\ cid' \in [Clients -> Ids \cup {None}]
      /\ cjob' \in [Clients -> Job \cup {NoJob}]
      /\ ckey' \in [Clients -> Keys \cup {None}]
      /\ \A d \in Clients : d # c => cpc'[d] = cpc[d] /\ cid'[d] = cid[d] /\ cjob'[d] = cjob[d]
      /\ (cpc'[c] = "send" /\ cid'[c] = i) \/ cpc'[c] = "idle"
  <2>1. CASE faults' = faults
    BY <2>1, ZenonT(30) DEF SubmitCreate, IInv, TypeOK
  <2>2. CASE faults' # faults
    BY <2>2, ZenonT(30) DEF SubmitCreate, Idle, IInv, TypeOK
  <2> QED BY <2>1, <2>2
<1> HIDE DEF j
<1>5. TypeOK'
  BY <1>2, <1>3, <1>4 DEF IInv, TypeOK, SaveFacts, histVars, workerVars
<1>6. QueueInv' /\ WorkerInv' /\ DownInv' /\ WorkerCopies'
  BY <1>3, ZenonT(30) DEF IInv, QueueInv, WorkerInv, Free, DownInv, WorkerCopies, workerVars
<1>7. \A d \in Clients : d # c => /\ Sending(d)' <=> Sending(d)
                                  /\ Canceling(d)' <=> Canceling(d)
                                  /\ cid'[d] = cid[d] /\ cjob'[d] = cjob[d]
  BY <1>4 DEF Sending, Canceling
<1>8. ~Canceling(c)' /\ (Sending(c)' => cid'[c] = i)
  BY <1>4, SMTT(20) DEF Sending, Canceling
<1>9. /\ i \notin pending /\ i \notin Elems(queue) /\ \A w \in Workers : wid[w] # i
      /\ \A d \in Clients : Sending(d) => cid[d] # i
  BY <1>2, NoneAssumption, SMTT(20) DEF IInv, UsedInv
<1>10. ClientInv'
  BY <1>3, <1>7, <1>8, <1>9 DEF IInv, ClientInv, workerVars
<1>11. \A k \in Ids : (k # i => store'[k] = store[k]) /\ store'[i] \in {store[i], j}
  BY <1>2, SMTT(20) DEF SaveFacts
<1>12. UsedInv'
  BY <1>3, <1>7, <1>8, <1>11, SMTT(20) DEF IInv, UsedInv, Stored, workerVars
<1>13. ExecInv'
  <2>1. execs[i] = 0
    BY <1>2, SMTT(20) DEF IInv, ExecInv
  <2> QED BY <1>3, <1>7, <1>8, <2>1, SMTT(20) DEF IInv, ExecInv, Unstarted, workerVars
<1>14. SettledInv'
  <2>1. ~HasOutcome(i)'
    BY <1>1, <1>2, <1>11, SMTT(20) DEF IInv, UsedInv, HasOutcome, Stored
  <2>2. \A k \in Ids : HasOutcome(k)' => HasOutcome(k) /\ k # i
    BY <1>11, <2>1, SMTT(20) DEF HasOutcome, Stored
  <2> QED BY <1>3, <1>7, <1>8, <2>2, SMTT(20) DEF IInv, SettledInv, workerVars
<1>15. ClientCopies' /\ RecordShape'
  BY <1>1, <1>7, <1>8, <1>11, SMTT(20) DEF IInv, ClientCopies, RecordShape, Stored
<1> QED BY <1>5, <1>6, <1>10, <1>12, <1>13, <1>14, <1>15 DEF IInv

\* submit's send: the id moves from the client to the queue.
LEMMA SendStep ==
    ASSUME IInv, NEW c \in Clients, SubmitSend(c)
    PROVE  IInv'
<1>1. /\ cpc[c] = "send" /\ Sending(c) /\ phase' # "down" /\ cid[c] \in Ids
      /\ UNCHANGED <<phase, store, pending, cancels, workerVars, used, stops, faults, execs,
                     hooks, rejected, reaped>>
  BY SMTT(20) DEF SubmitSend, IInv, ClientInv, Sending, Running
<1>2. WorkerCopies' /\ RecordShape'
  BY <1>1, WorkerCopiesUnchanged, StoreUnchanged DEF IInv, workerVars
<1>3. CASE Len(queue) < QueueSize /\ queue' = Append(queue, cid[c]) /\ Idle(c)
           /\ accepted' = accepted \cup {cid[c]}
           /\ IF ckey[c] = None THEN UNCHANGED idemVars
              ELSE /\ rememberKeyLocked(ckey[c], cid[c]) /\ idemMu' = None
                   /\ keyOf' = [keyOf EXCEPT ![cid[c]] = ckey[c]]
  <2>1. IdleFacts(c)
    BY <1>3, IdleLemma, SMTT(20) DEF IInv
  <2>2. \A d \in Clients : /\ Sending(d)' <=> Sending(d) /\ d # c
                           /\ Canceling(d)' <=> Canceling(d)
                           /\ d # c => cid'[d] = cid[d] /\ cjob'[d] = cjob[d]
    BY <1>1, <2>1, SMTT(20) DEF IdleFacts, Sending, Canceling
  <2>3. /\ cid[c] \notin pending /\ cid[c] \notin Elems(queue)
        /\ \A w \in Workers : wid[w] # cid[c]
        /\ \A d \in Clients : Sending(d) /\ d # c => cid[d] # cid[c]
    BY <1>1, SMTT(20) DEF IInv, ClientInv
  <2>4. /\ Inj(queue') /\ queue' \in Seq(Ids) /\ Elems(queue') = Elems(queue) \cup {cid[c]}
    BY <1>1, <1>3, <2>3, AppendElems, SMTT(20) DEF IInv, TypeOK, QueueInv
  <2>5. /\ idem' \in [Keys -> [id: Ids \cup {None}, at: SUBSET Ids]]
        /\ idemMu' \in Clients \cup {None} /\ keyOf' \in [Ids -> Keys \cup {None}]
    <3>1. CASE ckey[c] = None
      BY <1>3, <3>1 DEF idemVars, IInv, TypeOK
    <3>2. CASE ckey[c] # None
      <4>1. used \subseteq Ids
        BY DEF IInv, TypeOK
      <4>2. ckey[c] \in Keys
        BY <3>2, SMTT(20) DEF IInv, TypeOK
      <4> DEFINE ref == [id |-> cid[c], at |-> used]
      <4>3. /\ ref \in [id: Ids \cup {None}, at: SUBSET Ids]
            /\ NoRef \in [id: Ids \cup {None}, at: SUBSET Ids]
        BY <1>1, <4>1, SMTT(20) DEF NoRef
      <4>4. \/ \E o \in Keys : idem' = [idem EXCEPT ![o] = NoRef, ![ckey[c]] = ref]
            \/ idem' = [idem EXCEPT ![ckey[c]] = ref]
        BY <1>3, <3>2 DEF rememberKeyLocked
      <4> HIDE DEF ref
      <4>5. ASSUME NEW o \in Keys, idem' = [idem EXCEPT ![o] = NoRef, ![ckey[c]] = ref]
            PROVE  idem' \in [Keys -> [id: Ids \cup {None}, at: SUBSET Ids]]
        BY <4>2, <4>3, <4>5, SMTT(20) DEF IInv, TypeOK
      <4>6. ASSUME idem' = [idem EXCEPT ![ckey[c]] = ref]
            PROVE  idem' \in [Keys -> [id: Ids \cup {None}, at: SUBSET Ids]]
        BY <4>2, <4>3, <4>6, SMTT(20) DEF IInv, TypeOK
      <4>7. idemMu' \in Clients \cup {None} /\ keyOf' \in [Ids -> Keys \cup {None}]
        BY <1>1, <1>3, <3>2, <4>2, SMTT(20) DEF IInv, TypeOK
      <4>8. idem' \in [Keys -> [id: Ids \cup {None}, at: SUBSET Ids]]
        BY <4>4, <4>5, <4>6, Zenon DEF IInv, TypeOK
      <4> QED BY <4>7, <4>8
    <3> QED BY <3>1, <3>2, SMTT(20)
  <2>6. TypeOK'
    BY <1>1, <1>3, <2>1, <2>4, <2>5 DEF IInv, TypeOK, IdleFacts, workerVars
  <2>7. QueueInv'
    BY <1>1, <2>3, <2>4, Zenon DEF IInv, QueueInv
  <2>8. WorkerInv'
    BY <1>1, <2>3, <2>4, ZenonT(30) DEF IInv, WorkerInv, Free, workerVars
  <2>9. ClientInv'
    <3>1. \A d \in Clients : (Sending(d) \/ Canceling(d))' => cid'[d] \in Ids
      BY <1>1, <2>2, Zenon DEF IInv, ClientInv, Sending, Canceling
    <3>2. ASSUME NEW d \in Clients, Sending(d)'
          PROVE  /\ cid'[d] \notin pending' /\ cid'[d] \notin Elems(queue')
                 /\ \A w \in Workers : wid'[w] # cid'[d]
                 /\ \A e \in Clients : Sending(e)' /\ cid'[e] = cid'[d] => e = d
      BY <1>1, <2>2, <2>3, <2>4, <3>2, Zenon DEF IInv, ClientInv, workerVars
    <3> QED BY <3>1, <3>2 DEF ClientInv
  <2>10. UsedInv'
    <3>1. \A d \in Clients : (Sending(d) \/ Canceling(d))' => cid'[d] \in used
      BY <1>1, <2>2, Zenon DEF IInv, UsedInv, Sending, Canceling
    <3>2. Elems(queue') \subseteq used
      BY <1>1, <2>4, Zenon DEF IInv, UsedInv
    <3> QED BY <1>1, <3>1, <3>2, Zenon DEF IInv, UsedInv, Stored, workerVars
  <2>11. ExecInv'
    BY <1>1, <2>2, <2>4, ZenonT(30) DEF IInv, ExecInv, Unstarted, workerVars
  <2>12. DownInv'
    BY <1>1 DEF DownInv
  <2>13. SettledInv'
    <3>1. ~HasOutcome(cid[c])
      BY <1>1, Zenon DEF IInv, SettledInv
    <3>2. \A i \in Ids : HasOutcome(i)' <=> HasOutcome(i)
      BY <1>1 DEF HasOutcome, Stored
    <3> QED BY <1>1, <2>2, <2>4, <3>1, <3>2, Zenon DEF IInv, SettledInv, workerVars
  <2>14. ClientCopies'
    BY <2>1, IdleCopies, SMTT(20) DEF IInv
  <2> QED BY <1>2, <2>6, <2>7, <2>8, <2>9, <2>10, <2>11, <2>12, <2>13, <2>14, SMTT(20) DEF IInv
<1>4. CASE cpc' = [cpc EXCEPT ![c] = "rollback"]
           /\ UNCHANGED <<queue, accepted, idemVars, cid, cjob, ckey>>
  <2>1. TypeOK'
    BY <1>1, <1>4 DEF IInv, TypeOK, idemVars, workerVars
  <2>2. WorkersQuiet
    BY <1>1, WorkersUnchanged, Zenon DEF IInv, workerVars
  <2>3. ClientsQuiet /\ ClientCopies'
    BY <1>1, <1>4, SMTT(20)
       DEF IInv, TypeOK, ClientsQuiet, ClientInv, UsedInv, ClientCopies, Sending, Canceling
  <2> QED BY <1>1, <1>2, <1>4, <2>1, <2>2, <2>3, StoreUnchanged, ClaimFrame, SettledFrame, SMTT(20)
          DEF IInv
<1> QED BY <1>3, <1>4, SMTT(20) DEF SubmitSend

\* submit's rollback: the record and the claim are gone.
LEMMA RollbackStep ==
    ASSUME IInv, NEW c \in Clients, SubmitRollback(c)
    PROVE  IInv'
<1>1. /\ phase' # "down" /\ cid[c] \in Ids /\ cid[c] \in used
      /\ Save(cid[c], NoJob) /\ Idle(c)
      /\ rejected' = rejected \cup {cid[c]} /\ idemMu' \in {idemMu, None}
      /\ UNCHANGED <<phase, queue, pending, cancels, idem, workerVars, used, stops, execs, keyOf,
                     hooks, accepted, reaped>>
  BY DEF SubmitRollback, IInv, ClientInv, UsedInv, Sending, Running
<1>2. SaveFacts(cid[c], NoJob) /\ IdleFacts(c)
  BY <1>1, SaveLemma, IdleLemma, SMTT(20) DEF IInv
<1>3. TypeOK'
  BY <1>1, <1>2 DEF IInv, TypeOK, SaveFacts, IdleFacts, workerVars
<1>4. WorkersQuiet /\ WorkerCopies'
  BY <1>1, WorkersUnchanged, WorkerCopiesUnchanged DEF IInv, workerVars
<1>5. ClientsQuiet /\ ClientCopies'
  BY <1>2, IdleQuiet, IdleCopies DEF IInv
<1>6. /\ RecordShape' /\ \A i \in Ids : Stored(i)' => i \in used
      /\ \A i \in Ids : HasOutcome(i)' => HasOutcome(i)
  BY <1>1, <1>2, StoreWritten, SMTT(20)
<1> QED BY <1>1, <1>3, <1>4, <1>5, <1>6, ClaimFrame, SettledFrame, SMTT(20) DEF IInv

-----------------------------------------------------------------------------
(* Cancel *)

\* Cancel's Get: the client holds a copy of a job that has not ended.
LEMMA CancelGetStep ==
    ASSUME IInv, NEW c \in Clients, NEW i \in Ids, CancelGet(c, i)
    PROVE  IInv'
<1>1. TypeOK'
  BY DEF IInv, TypeOK, CancelGet, histVars, workerVars, idemVars
<1>2. WorkersQuiet /\ WorkerCopies'
  BY WorkersUnchanged, WorkerCopiesUnchanged, SMTT(20) DEF IInv, CancelGet, workerVars
<1>3. ClientsQuiet
  BY SMTT(20) DEF IInv, TypeOK, CancelGet, ClientsQuiet, ClientInv, UsedInv, Sending, Canceling
<1>4. ClientCopies'
  BY DEF IInv, TypeOK, CancelGet, ClientCopies, Canceling, RecordShape, Stored, Ended
<1>5. UNCHANGED <<queue, pending, used, execs, store>> /\ phase' # "down"
  BY DEF CancelGet, Running
<1> QED BY <1>1, <1>2, <1>3, <1>4, <1>5, StoreUnchanged, ClaimFrame, SettledFrame, SMTT(20) DEF IInv

\* Cancel's call of the registered cancel function.
LEMMA CancelSignalStep ==
    ASSUME IInv, NEW c \in Clients, CancelSignal(c)
    PROVE  IInv'
<1>1. TypeOK'
  BY Zenon DEF IInv, TypeOK, CancelSignal, histVars, idemVars
<1>2. WorkersQuiet /\ WorkerCopies'
  BY WorkersUnchanged, WorkerCopiesUnchanged, ZenonT(30) DEF IInv, CancelSignal
<1>3. ClientsQuiet /\ ClientCopies'
  BY DEF IInv, TypeOK, CancelSignal, ClientsQuiet, ClientInv, UsedInv, ClientCopies, Sending,
         Canceling
<1>4. UNCHANGED <<queue, pending, used, execs, store>> /\ phase' # "down"
  BY Zenon DEF CancelSignal, Running
<1> QED BY <1>1, <1>2, <1>3, <1>4, StoreUnchanged, ClaimFrame, SettledFrame DEF IInv

\* Cancel's Save of its copy.
LEMMA CancelSaveStep ==
    ASSUME IInv, NEW c \in Clients, CancelSave(c)
    PROVE  IInv'
<1> DEFINE j == Finished(cjob[c], "canceled", cjob[c].result)
<1>1. /\ cpc[c] = "save" /\ phase' # "down" /\ cid[c] \in Ids /\ cid[c] \in used
      /\ Save(cid[c], j)
      /\ UNCHANGED <<phase, queue, pending, cancels, idemVars, workerVars, used, stops, execs,
                     histVars>>
  BY Zenon DEF CancelSave, IInv, ClientInv, UsedInv, Canceling, Running
<1>2. j \in Job /\ Shape(j) /\ j.status = "canceled"
  <2>1. cjob[c] \in Job /\ cjob[c].result = "none"
    BY <1>1, Zenon DEF IInv, ClientCopies, Canceling, Shape, Terminal
  <2>2. j = Finished(cjob[c], "canceled", "none")
    BY <2>1, Zenon
  <2>3. /\ Finished(cjob[c], "canceled", "none") \in Job
        /\ Shape(Finished(cjob[c], "canceled", "none"))
        /\ Finished(cjob[c], "canceled", "none").status = "canceled"
    BY <2>1, Zenon DEF Finished, Shape, Job, Status, Terminal
  <2> QED BY <2>2, <2>3, Zenon
<1>3. /\ cpc' \in [Clients -> {"idle", "create", "send", "rollback", "signal", "save",
                               "announce"}]
      /\ cid' \in [Clients -> Ids \cup {None}]
      /\ cjob' \in [Clients -> Job \cup {NoJob}]
      /\ ckey' \in [Clients -> Keys \cup {None}]
      /\ \A d \in Clients : d # c => cpc'[d] = cpc[d] /\ cid'[d] = cid[d] /\ cjob'[d] = cjob[d]
      /\ cpc'[c] \in {"idle", "announce"}
  <2>1. CASE faults' = faults
    BY <2>1, Zenon DEF CancelSave, IInv, TypeOK
  <2>2. CASE faults' # faults
    <3>1. Idle(c)
      BY <2>2, Zenon DEF CancelSave
    <3>2. IdleFacts(c)
      BY <3>1, IdleLemma DEF IInv
    <3> QED BY <3>2, Zenon DEF IdleFacts
  <2> QED BY <2>1, <2>2, Zenon
<1> HIDE DEF j
<1>4. SaveFacts(cid[c], j)
  BY <1>1, <1>2, SaveLemma, ZenonT(30) DEF IInv
<1>5. TypeOK'
  BY <1>1, <1>3, <1>4 DEF IInv, TypeOK, SaveFacts, histVars, workerVars, idemVars
<1>6. WorkersQuiet /\ WorkerCopies'
  BY <1>1, WorkersUnchanged, WorkerCopiesUnchanged, Zenon DEF IInv, workerVars
<1>7. ClientsQuiet /\ ClientCopies'
  BY <1>3, Zenon DEF IInv, ClientsQuiet, ClientInv, UsedInv, ClientCopies, Sending, Canceling
<1>8. /\ RecordShape' /\ \A i \in Ids : Stored(i)' => i \in used
      /\ \A i \in Ids : HasOutcome(i)' => HasOutcome(i)
  BY <1>1, <1>2, <1>4, StoreWritten, Zenon
<1> QED BY <1>1, <1>5, <1>6, <1>7, <1>8, ClaimFrame, SettledFrame, Zenon DEF IInv

\* Cancel's notification.
LEMMA CancelAnnounceStep ==
    ASSUME IInv, NEW c \in Clients, CancelAnnounce(c)
    PROVE  IInv'
<1>1. IdleFacts(c)
  BY IdleLemma, Zenon DEF IInv, CancelAnnounce
<1>2. TypeOK'
  BY <1>1, Zenon DEF IInv, CancelAnnounce, TypeOK, Terminal, IdleFacts, workerVars, idemVars
<1>3. WorkersQuiet /\ WorkerCopies'
  BY WorkersUnchanged, WorkerCopiesUnchanged, Zenon DEF IInv, CancelAnnounce, workerVars
<1>4. ClientsQuiet /\ ClientCopies'
  BY <1>1, IdleQuiet, IdleCopies DEF IInv
<1>5. UNCHANGED <<queue, pending, used, execs, store>> /\ phase' # "down"
  BY Zenon DEF CancelAnnounce, Running
<1> QED BY <1>2, <1>3, <1>4, <1>5, StoreUnchanged, ClaimFrame, SettledFrame DEF IInv
=============================================================================
