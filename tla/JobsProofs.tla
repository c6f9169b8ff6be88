----------------------------- MODULE JobsProofs -----------------------------
(***************************************************************************)
(* What holds of the job manager for every value of the constants.  The    *)
(* steps of the clients are in JobsInv; here are those of the workers, of  *)
(* the reaper and of the process itself, and the theorems.                 *)
(***************************************************************************)
EXTENDS JobsInv

(* worker and run *)

\* worker's receive: the id moves from the queue to the worker.
LEMMA TakeStep ==
    ASSUME IInv, NEW w \in Workers, WorkerTake(w)
    PROVE  IInv'
<1> DEFINE h == Head(queue)
<1>1. /\ Inj(queue') /\ queue' \in Seq(Ids) /\ h \in Ids /\ h \in Elems(queue)
      /\ Elems(queue') = Elems(queue) \ {h}
  BY TailElems DEF IInv, TypeOK, WorkerTake, QueueInv
<1>2. /\ wpc[w] = "idle" /\ phase' # "down"
      /\ wid' = [wid EXCEPT ![w] = h] /\ wpc' = [wpc EXCEPT ![w] = "get"]
      /\ UNCHANGED <<phase, store, pending, cancels, idemVars, wjob, wctx, wout, clientVars, used,
                     stops, faults, execs, histVars>>
  BY DEF WorkerTake, Running
<1> HIDE DEF h
<1>3. TypeOK'
  BY <1>1, <1>2 DEF IInv, TypeOK, idemVars, clientVars, histVars
<1>4. /\ wid'[w] = h /\ wpc'[w] = "get"
      /\ \A v \in Workers : v # w => wid'[v] = wid[v] /\ wpc'[v] = wpc[v]
  BY <1>2 DEF IInv, TypeOK
<1>5. QueueInv'
  BY <1>1, <1>2 DEF IInv, QueueInv
<1>6. h # None /\ h \notin pending /\ \A v \in Workers : wid[v] # h
  BY <1>1, NoneAssumption DEF IInv, QueueInv, WorkerInv
<1>7. WorkerInv'
  <2>1. \A v \in Workers : Free(v)' <=> wid'[v] = None
    BY <1>4, <1>6 DEF IInv, WorkerInv, Free
  <2>2. \A v \in Workers : wid'[v] \notin pending' /\ wid'[v] \notin Elems(queue')
    BY <1>1, <1>2, <1>4, <1>6 DEF IInv, WorkerInv
  <2>3. \A u, v \in Workers : wid'[u] = wid'[v] /\ wid'[u] # None => u = v
    BY <1>4, <1>6 DEF IInv, WorkerInv
  <2> QED BY <2>1, <2>2, <2>3 DEF WorkerInv
<1>8. \A c \in Clients : (Sending(c)' <=> Sending(c)) /\ (Canceling(c)' <=> Canceling(c))
                         /\ cid'[c] = cid[c]
  BY <1>2 DEF clientVars, Sending, Canceling
<1>9. ClientInv'
  <2>1. \A c \in Clients : Sending(c) => cid[c] # h
    BY <1>1 DEF IInv, ClientInv
  <2> QED BY <1>1, <1>2, <1>4, <1>8, <2>1 DEF IInv, ClientInv
<1>10. UsedInv'
  BY <1>1, <1>2, <1>4, <1>8 DEF IInv, UsedInv, Stored
<1>11. ExecInv'
  BY <1>1, <1>2, <1>4, <1>8 DEF IInv, ExecInv, Unstarted
<1>12. SettledInv'
  <2>1. \A i \in Ids : HasOutcome(i)' => HasOutcome(i) /\ i # h
    BY <1>1, <1>2 DEF IInv, SettledInv, HasOutcome, Stored
  <2> QED BY <1>1, <1>2, <1>4, <1>8, <2>1 DEF IInv, SettledInv
<1>13. WorkerCopies'
  BY <1>2, <1>4 DEF IInv, WorkerCopies
<1>14. DownInv' /\ ClientCopies' /\ RecordShape'
  BY <1>2, ClientCopiesUnchanged, StoreUnchanged DEF IInv, DownInv, clientVars
<1> QED BY <1>3, <1>5, <1>7, <1>9, <1>10, <1>11, <1>12, <1>13, <1>14 DEF IInv

\* worker's return on a canceled context.
LEMMA ExitStep ==
    ASSUME IInv, NEW w \in Workers, WorkerExit(w)
    PROVE  IInv'
<1>1. TypeOK'
  BY DEF IInv, TypeOK, WorkerExit, histVars, clientVars, idemVars
<1>2. WorkersQuiet /\ WorkerCopies'
  BY DEF IInv, TypeOK, WorkerExit, WorkersQuiet, WorkerInv, WorkerCopies, Free, Unstarted
<1>3. ClientsQuiet /\ ClientCopies'
  BY ClientsUnchanged, ClientCopiesUnchanged DEF IInv, WorkerExit, clientVars
<1>4. UNCHANGED <<queue, pending, used, execs, store>> /\ phase' # "down"
  BY DEF WorkerExit
<1> QED BY <1>1, <1>2, <1>3, <1>4, StoreUnchanged, ClaimFrame, SettledFrame DEF IInv

\* run's Get: the worker goes on with a running copy, or lets the job go.
LEMMA RunGetStep ==
    ASSUME IInv, NEW w \in Workers, RunGet(w)
    PROVE  IInv'
<1>1. /\ wpc[w] = "get" /\ phase' # "down" /\ wid[w] \in Ids
      /\ UNCHANGED <<phase, store, queue, pending, cancels, idemVars, clientVars, used, stops,
                     execs, histVars>>
  BY Zenon DEF RunGet, IInv, TypeOK, WorkerInv, Free, Running
<1>2. ClientsQuiet /\ ClientCopies'
  BY <1>1, ClientsUnchanged, ClientCopiesUnchanged DEF IInv, clientVars
<1>3. TypeOK' /\ WorkersQuiet /\ WorkerCopies'
  <2>1. CASE /\ Stored(wid[w]) /\ store[wid[w]].status = "queued"
             /\ wjob' = [wjob EXCEPT ![w] = [store[wid[w]] EXCEPT !.status = "running"]]
             /\ wpc' = [wpc EXCEPT ![w] = "mark"]
             /\ UNCHANGED <<wid, wctx, wout, faults>>
    <3> DEFINE j == [store[wid[w]] EXCEPT !.status = "running"]
    <3>1. j \in Job /\ Shape(j) /\ j.status = "running"
      <4>1. store[wid[w]] \in Job /\ Shape(store[wid[w]])
        BY <1>1, <2>1 DEF IInv, TypeOK, Stored, RecordShape
      <4> QED BY <2>1, <4>1, RestatusShape, Zenon
    <3>2. /\ wjob' = [wjob EXCEPT ![w] = j] /\ wpc' = [wpc EXCEPT ![w] = "mark"]
          /\ UNCHANGED <<wid, wctx, wout, faults>>
      BY <2>1
    <3> HIDE DEF j
    <3>3. TypeOK'
      BY <1>1, <3>1, <3>2 DEF IInv, TypeOK, idemVars, clientVars, histVars
    <3>4. WorkersQuiet
      BY <1>1, <3>2 DEF IInv, TypeOK, WorkersQuiet, WorkerInv, Free, Unstarted
    <3>5. WorkerCopies'
      BY <3>1, <3>2 DEF IInv, TypeOK, WorkerCopies
    <3> QED BY <3>3, <3>4, <3>5
  <2>2. ASSUME Release(w), faults' \in 0..MaxFaults
        PROVE  TypeOK' /\ WorkersQuiet /\ WorkerCopies'
    <3>1. ReleaseFacts(w)
      BY <2>2, ReleaseLemma DEF IInv
    <3>2. TypeOK'
      BY <1>1, <2>2, <3>1 DEF IInv, TypeOK, ReleaseFacts, idemVars, clientVars, histVars
    <3> QED BY <3>1, <3>2, ReleaseQuiet, ReleaseCopies DEF IInv
  <2>3. ASSUME faults < MaxFaults, faults' = faults + 1 PROVE faults' \in 0..MaxFaults
    BY <2>3, ConstAssumption DEF IInv, TypeOK
  <2>4. ASSUME faults' = faults PROVE faults' \in 0..MaxFaults
    BY <2>4, SMTT(20) DEF IInv, TypeOK
  <2> QED BY <2>1, <2>2, <2>3, <2>4 DEF RunGet
<1> QED BY <1>1, <1>2, <1>3, StoreUnchanged, ClaimFrame, SettledFrame DEF IInv

\* run's Save of the running copy.
LEMMA RunMarkStep ==
    ASSUME IInv, NEW w \in Workers, RunMark(w)
    PROVE  IInv'
<1>1. /\ wpc[w] = "mark" /\ phase' # "down" /\ wid[w] \in Ids /\ wid[w] \in used
      /\ Save(wid[w], wjob[w]) /\ wpc' = [wpc EXCEPT ![w] = "register"]
      /\ wjob[w] \in Job /\ Shape(wjob[w]) /\ wjob[w].status = "running"
      /\ UNCHANGED <<phase, queue, pending, cancels, idemVars, wid, wjob, wctx, wout, clientVars,
                     used, stops, execs, histVars>>
  BY Zenon DEF RunMark, IInv, TypeOK, WorkerInv, UsedInv, Free, WorkerCopies, Running
<1>2. SaveFacts(wid[w], wjob[w])
  BY <1>1, SaveLemma, SMTT(20) DEF IInv
<1>3. TypeOK'
  BY <1>1, <1>2, SMTT(20) DEF IInv, TypeOK, SaveFacts, idemVars, clientVars, histVars
<1>4. WorkersQuiet /\ WorkerCopies'
  BY <1>1 DEF IInv, TypeOK, WorkersQuiet, WorkerInv, WorkerCopies, Free, Unstarted
<1>5. ClientsQuiet /\ ClientCopies'
  BY <1>1, ClientsUnchanged, ClientCopiesUnchanged, Zenon DEF IInv, clientVars
<1>6. /\ RecordShape' /\ \A i \in Ids : Stored(i)' => i \in used
      /\ \A i \in Ids : HasOutcome(i)' => HasOutcome(i)
  BY <1>1, <1>2, StoreWritten, Zenon
<1> QED BY <1>1, <1>3, <1>4, <1>5, <1>6, ClaimFrame, SettledFrame DEF IInv

\* The start of an execution: the only one of this job in this life.
LEMMA RunRegisterStep ==
    ASSUME IInv, NEW w \in Workers, RunRegister(w)
    PROVE  IInv'
<1>1. /\ wpc[w] = "register" /\ phase' # "down" /\ wid[w] \in Ids /\ wid[w] \in used
      /\ execs[wid[w]] = 0
      /\ cancels' = [cancels EXCEPT ![wid[w]] = w]
      /\ execs' = [execs EXCEPT ![wid[w]] = @ + 1] /\ wpc' = [wpc EXCEPT ![w] = "exec"]
      /\ UNCHANGED <<phase, store, queue, pending, idemVars, wid, wjob, wctx, wout, clientVars,
                     used, stops, faults, histVars>>
  BY Zenon DEF RunRegister, IInv, TypeOK, WorkerInv, UsedInv, ExecInv, Unstarted, Free, Running
<1>2. TypeOK'
  BY <1>1, SMTT(20) DEF IInv, TypeOK, idemVars, clientVars, histVars
<1>3. WorkersQuiet /\ WorkerCopies'
  BY <1>1 DEF IInv, TypeOK, WorkersQuiet, WorkerInv, WorkerCopies, Free, Unstarted
<1>4. ClientsQuiet /\ ClientCopies'
  BY <1>1, ClientsUnchanged, ClientCopiesUnchanged DEF IInv, clientVars
<1>5. RecordShape' /\ SettledInv' /\ \A i \in Ids : Stored(i)' => i \in used
  BY <1>1, <1>3, <1>4, StoreUnchanged, SettledFrame
<1>6. QueueInv' /\ WorkerInv' /\ ClientInv' /\ UsedInv' /\ DownInv'
  <2>1. QueueInv' /\ DownInv'
    BY <1>1 DEF IInv, QueueInv, DownInv
  <2>2. WorkerInv'
    BY <1>1, <1>3, SMTT(20) DEF IInv, WorkerInv, WorkersQuiet
  <2>3. ClientInv'
    BY <1>1, <1>4, SMTT(20) DEF IInv, ClientInv, ClientsQuiet
  <2>4. UsedInv'
    BY <1>1, <1>4, <1>5, SMTT(20) DEF IInv, UsedInv, ClientsQuiet
  <2> QED BY <2>1, <2>2, <2>3, <2>4
<1>7. ExecInv'
  <2>1. execs'[wid[w]] = 1 /\ \A i \in Ids : i # wid[w] => execs'[i] = execs[i]
    BY <1>1, SMTT(20) DEF IInv, TypeOK
  <2>2. \A i \in Ids : execs'[i] \in {0, 1}
    BY <2>1 DEF IInv, ExecInv
  <2>3. \A i \in Ids : i \notin used' \/ i \in pending' \/ i \in Elems(queue') => execs'[i] = 0
    BY <1>1, <2>1, ZenonT(30) DEF IInv, ExecInv, WorkerInv
  <2>4. ASSUME NEW v \in Workers, Unstarted(v)' PROVE execs'[wid'[v]] = 0
    <3>1. v # w /\ Unstarted(v) /\ wid'[v] = wid[v]
      BY <1>1, <2>4 DEF IInv, TypeOK, Unstarted
    <3>2. wid[v] \in Ids /\ wid[v] # wid[w]
      BY <1>1, <3>1, Zenon DEF IInv, TypeOK, WorkerInv, Free, Unstarted
    <3> QED BY <2>1, <3>1, <3>2, SMTT(20) DEF IInv, ExecInv
  <2>5. ASSUME NEW c \in Clients, Sending(c)' PROVE execs'[cid'[c]] = 0
    <3>1. Sending(c) /\ cid'[c] = cid[c]
      BY <1>4, <2>5, SMTT(20) DEF ClientsQuiet
    <3>2. cid[c] \in Ids /\ cid[c] # wid[w] /\ execs[cid[c]] = 0
      BY <3>1, SMTT(20) DEF IInv, ClientInv, ExecInv
    <3> QED BY <2>1, <3>1, <3>2, SMTT(20)
  <2> QED BY <2>2, <2>3, <2>4, <2>5, SMTT(20) DEF ExecInv
<1> QED BY <1>2, <1>3, <1>4, <1>5, <1>6, <1>7 DEF IInv

\* exec returns.
LEMMA RunReturnStep ==
    ASSUME IInv, NEW w \in Workers, RunReturn(w)
    PROVE  IInv'
<1>1. PICK o \in Outcome : wout' = [wout EXCEPT ![w] = o]
  BY Zenon DEF RunReturn, Outcomes, Outcome
<1>2. /\ wpc[w] = "exec" /\ phase' # "down"
      /\ cancels' = [cancels EXCEPT ![wid[w]] = None] /\ wpc' = [wpc EXCEPT ![w] = "finish"]
      /\ UNCHANGED <<phase, store, queue, pending, idemVars, wid, wjob, wctx, clientVars, used,
                     stops, faults, execs, histVars>>
  BY DEF RunReturn, Running
<1>3. TypeOK'
  BY <1>1, <1>2, Zenon DEF IInv, TypeOK, idemVars, clientVars, histVars
<1>4. WorkersQuiet /\ WorkerCopies'
  BY <1>2 DEF IInv, TypeOK, WorkersQuiet, WorkerInv, WorkerCopies, Free, Unstarted
<1>5. ClientsQuiet /\ ClientCopies'
  BY <1>2, ClientsUnchanged, ClientCopiesUnchanged DEF IInv, clientVars
<1> QED BY <1>2, <1>3, <1>4, <1>5, StoreUnchanged, ClaimFrame, SettledFrame DEF IInv

\* The end of run: the outcome is recorded by the one worker that has the job,
\* which has only to announce it.
LEMMA RunFinishStep ==
    ASSUME IInv, NEW w \in Workers, RunFinish(w)
    PROVE  IInv'
<1>1. /\ wpc[w] = "finish" /\ phase' # "down" /\ wid[w] \in Ids /\ wid[w] \in used
      /\ wjob[w] \in Job
      /\ UNCHANGED <<phase, queue, pending, cancels, idemVars, clientVars, used, stops, execs,
                     histVars>>
  BY Zenon DEF RunFinish, IInv, TypeOK, WorkerInv, UsedInv, Free, WorkerCopies, Running
<1>2. ClientsQuiet /\ ClientCopies'
  BY <1>1, ClientsUnchanged, ClientCopiesUnchanged, SMTT(20) DEF IInv, clientVars
<1>3. CASE wout[w] = "interrupted"
  <2>1. Release(w) /\ UNCHANGED <<store, faults>>
    BY <1>3 DEF RunFinish
  <2>2. ReleaseFacts(w)
    BY <2>1, ReleaseLemma, SMTT(20) DEF IInv
  <2>3. TypeOK'
    BY <1>1, <2>1, <2>2 DEF IInv, TypeOK, ReleaseFacts, idemVars, clientVars, histVars
  <2>4. WorkersQuiet /\ WorkerCopies'
    BY <2>2, ReleaseQuiet, ReleaseCopies DEF IInv
  <2> QED BY <1>1, <1>2, <2>1, <2>3, <2>4, StoreUnchanged, ClaimFrame, SettledFrame DEF IInv
<1>4. ASSUME NEW s \in Terminal, NEW r \in {"none", "full", "partial"},
             r # "none" <=> s = "succeeded",
             Save(wid[w], Finished(wjob[w], s, r)),
             wjob' = [wjob EXCEPT ![w] = Finished(wjob[w], s, r)],
             wpc' = [wpc EXCEPT ![w] = "announce"], UNCHANGED <<wid, wctx, wout>>
      PROVE  IInv'
  <2> DEFINE j == Finished(wjob[w], s, r)
  <2>1. j \in Job /\ Shape(j) /\ j.status = s
    BY <1>1, <1>4, FinishedShape
  <2>2. wjob' = [wjob EXCEPT ![w] = j] /\ Save(wid[w], j)
    BY <1>4, SMTT(20)
  <2> HIDE DEF j
  <2>3. SaveFacts(wid[w], j)
    BY <1>1, <2>1, <2>2, SaveLemma, SMTT(20) DEF IInv
  <2>4. TypeOK'
    BY <1>1, <1>4, <2>1, <2>2, <2>3, SMTT(20) DEF IInv, TypeOK, SaveFacts, idemVars, clientVars,
       histVars
  <2>5. WorkersQuiet
    BY <1>1, <1>4, SMTT(20) DEF IInv, TypeOK, WorkersQuiet, WorkerInv, Free, Unstarted
  <2>6. WorkerCopies'
    BY <1>4, <2>1, <2>2 DEF IInv, TypeOK, WorkerCopies
  <2>7. RecordShape' /\ \A i \in Ids : Stored(i)' => i \in used
    BY <1>1, <2>1, <2>3, StoreWritten, Zenon
  <2>8. SettledInv'
    <3>1. \A i \in Ids : HasOutcome(i)' => HasOutcome(i) \/ i = wid[w]
      BY <2>3 DEF SaveFacts, HasOutcome, Stored
    <3>2. \A v \in Workers : wid'[v] = wid[v] /\ (v # w => wpc'[v] = wpc[v])
      BY <1>4 DEF IInv, TypeOK
    <3>3. wpc'[w] = "announce"
      BY <1>4 DEF IInv, TypeOK
    <3>4. /\ wid[w] \notin pending /\ wid[w] \notin Elems(queue)
          /\ \A v \in Workers : wid[v] = wid[w] => v = w
          /\ \A c \in Clients : Sending(c) => cid[c] # wid[w]
      BY <1>1, NoneAssumption DEF IInv, WorkerInv, ClientInv
    <3> QED BY <1>1, <1>2, <3>1, <3>2, <3>3, <3>4, ZenonT(30) DEF IInv, SettledInv, ClientsQuiet
  <2> QED BY <1>1, <1>2, <2>4, <2>5, <2>6, <2>7, <2>8, ClaimFrame, Zenon DEF IInv
<1>5. CASE wout[w] = "fail"
  BY <1>4, <1>5 DEF RunFinish, Terminal
<1>6. CASE wout[w] = "partial"
  BY <1>4, <1>6 DEF RunFinish, Terminal
<1>7. CASE wout[w] = "ok"
  BY <1>4, <1>7 DEF RunFinish, Terminal
<1> QED BY <1>3, <1>5, <1>6, <1>7, Zenon DEF IInv, TypeOK, Outcome

\* run's notification: the worker lets go of the job.
LEMMA RunAnnounceStep ==
    ASSUME IInv, NEW w \in Workers, RunAnnounce(w)
    PROVE  IInv'
<1>1. ReleaseFacts(w)
  BY ReleaseLemma, Zenon DEF IInv, RunAnnounce
<1>2. hooks' \in [Ids -> SUBSET Terminal]
  <2>1. wjob[w].status \in Terminal
    BY Zenon DEF IInv, RunAnnounce, WorkerCopies
  <2> QED BY <2>1, Zenon DEF IInv, RunAnnounce, TypeOK
<1>3. TypeOK'
  BY <1>1, <1>2 DEF IInv, RunAnnounce, TypeOK, ReleaseFacts, idemVars, clientVars
<1>4. WorkersQuiet /\ WorkerCopies'
  BY <1>1, ReleaseQuiet, ReleaseCopies DEF IInv
<1>5. ClientsQuiet /\ ClientCopies'
  BY ClientsUnchanged, ClientCopiesUnchanged, Zenon DEF IInv, RunAnnounce, clientVars
<1>6. UNCHANGED <<queue, pending, used, execs, store>> /\ phase' # "down"
  BY Zenon DEF RunAnnounce, Running
<1> QED BY <1>3, <1>4, <1>5, <1>6, StoreUnchanged, ClaimFrame, SettledFrame DEF IInv

(* The reaper, requeue, and the life of the process *)

\* The reaper.
LEMMA ReapStep ==
    ASSUME IInv, NEW E \in SUBSET Ids, Reap(E)
    PROVE  IInv'
<1>1. \A i \in Ids : store'[i] \in {store[i], NoJob}
  BY SMTT(20) DEF Reap
<1>2. TypeOK'
  BY <1>1 DEF IInv, TypeOK, Reap, procVars
<1>3. WorkersQuiet /\ WorkerCopies' /\ ClientsQuiet /\ ClientCopies'
  BY WorkersUnchanged, WorkerCopiesUnchanged, ClientsUnchanged, ClientCopiesUnchanged
     DEF IInv, Reap, procVars
<1>4. /\ RecordShape' /\ \A i \in Ids : Stored(i)' => i \in used
      /\ \A i \in Ids : HasOutcome(i)' => HasOutcome(i)
  BY <1>1, Zenon DEF IInv, RecordShape, UsedInv, HasOutcome, Stored
<1>5. UNCHANGED <<queue, pending, used, execs>> /\ phase' # "down"
  BY DEF Reap, Running, procVars
<1> QED BY <1>2, <1>3, <1>4, <1>5, ClaimFrame, SettledFrame DEF IInv

\* requeue: the id moves from the recovered list to the queue.
LEMMA RequeueStep ==
    ASSUME IInv, NEW i \in Ids, Requeue(i)
    PROVE  IInv'
<1>1. /\ i \in pending /\ pending' = pending \ {i} /\ phase' # "down"
      /\ UNCHANGED <<phase, store, cancels, idemVars, workerVars, clientVars, used, stops, faults,
                     execs, histVars>>
  BY SMTT(20) DEF Requeue, Running
<1>2. Inj(queue') /\ queue' \in Seq(Ids) /\ Elems(queue') = Elems(queue) \cup {i}
  <2>1. i \notin Elems(queue)
    BY <1>1, SMTT(20) DEF IInv, QueueInv
  <2> QED BY <2>1, AppendElems DEF IInv, TypeOK, Requeue, QueueInv
<1>3. TypeOK'
  BY <1>1, <1>2 DEF IInv, TypeOK, idemVars, workerVars, clientVars, histVars
<1>4. QueueInv' /\ DownInv'
  BY <1>1, <1>2, Zenon DEF IInv, QueueInv, DownInv
<1>5. WorkerInv'
  BY <1>1, <1>2, Zenon DEF IInv, WorkerInv, Free, workerVars
<1>6. \A c \in Clients : (Sending(c)' <=> Sending(c)) /\ (Canceling(c)' <=> Canceling(c))
                         /\ cid'[c] = cid[c]
  BY <1>1 DEF clientVars, Sending, Canceling
<1>7. ClientInv'
  BY <1>1, <1>2, <1>6, Zenon DEF IInv, ClientInv, workerVars
<1>8. UsedInv'
  BY <1>1, <1>2, <1>6, ZenonT(30) DEF IInv, UsedInv, Stored, workerVars
<1>9. ExecInv'
  BY <1>1, <1>2, <1>6, SMTT(20) DEF IInv, ExecInv, Unstarted, workerVars
<1>10. SettledInv'
  BY <1>1, <1>2, <1>6 DEF IInv, SettledInv, HasOutcome, Stored, workerVars
<1>11. WorkerCopies' /\ ClientCopies' /\ RecordShape'
  BY <1>1, WorkerCopiesUnchanged, ClientCopiesUnchanged, StoreUnchanged
     DEF IInv, workerVars, clientVars
<1> QED BY <1>3, <1>4, <1>5, <1>7, <1>8, <1>9, <1>10, <1>11 DEF IInv

\* Start: the recovered ids are the only ones anywhere.
LEMMA StartStep ==
    ASSUME IInv, Start
    PROVE  IInv'
<1>1. /\ queue = <<>> /\ Elems(queue) = {} /\ Inj(queue)
      /\ \A w \in Workers : wpc[w] = "idle" /\ wid[w] = None
      /\ \A c \in Clients : ~Sending(c) /\ ~Canceling(c)
      /\ \A i \in Ids : execs[i] = 0
  BY EmptyElems DEF IInv, DownInv, WorkerInv, Free, Sending, Canceling, Start
<1>2. /\ phase' = "up"
      /\ pending' = {i \in Ids : Stored(i) /\ store[i].status \in {"queued", "running"}}
      /\ UNCHANGED <<queue, cancels, idemVars, workerVars, clientVars, used, stops, faults, execs,
                     histVars>>
  BY SMTT(20) DEF Start
<1>3. ASSUME NEW i \in Ids
      PROVE  /\ store'[i] \in Job \cup {NoJob} /\ Stored(i)' = Stored(i)
             /\ Stored(i) => Shape(store'[i])
             /\ HasOutcome(i)' => HasOutcome(i)
  <2>1. store'[i] = Recovered(i)
    BY DEF Start
  <2>2. CASE Stored(i) /\ store[i].status = "running"
    <3>1. store'[i] = [store[i] EXCEPT !.status = "queued"]
      BY <2>1, <2>2, SMTT(20) DEF Recovered
    <3>2. store[i] \in Job /\ Shape(store[i])
      BY <2>2 DEF IInv, TypeOK, Stored, RecordShape
    <3>3. store'[i] \in Job /\ Shape(store'[i]) /\ store'[i].status = "queued"
      BY <2>2, <3>1, <3>2, RestatusShape, Zenon
    <3>4. store'[i] # NoJob
      BY <3>3, NoneAssumption, SMTT(20)
    <3> QED BY <2>2, <3>3, <3>4 DEF Stored, HasOutcome
  <2>3. CASE ~(Stored(i) /\ store[i].status = "running")
    <3>1. store'[i] = store[i]
      BY <2>1, <2>3, SMTT(20) DEF Recovered
    <3> QED BY <3>1 DEF IInv, TypeOK, Stored, HasOutcome, RecordShape
  <2> QED BY <2>2, <2>3, SMTT(20)
<1>4. store' \in [Ids -> Job \cup {NoJob}]
  BY <1>3, SMTT(20) DEF Start
<1>5. TypeOK'
  BY <1>2, <1>4 DEF IInv, TypeOK, idemVars, workerVars, clientVars, histVars
<1>6. QueueInv' /\ WorkerInv' /\ DownInv'
  BY <1>1, <1>2, NoneAssumption, Zenon DEF QueueInv, WorkerInv, Free, DownInv, workerVars
<1>7. \A c \in Clients : ~Sending(c)' /\ ~Canceling(c)'
  BY <1>1, <1>2, ZenonT(30) DEF clientVars, Sending, Canceling
<1>8. ClientInv'
  BY <1>7 DEF ClientInv
<1>9. UsedInv'
  BY <1>1, <1>2, <1>3, <1>7, Zenon DEF IInv, UsedInv, workerVars
<1>10. ExecInv'
  BY <1>1, <1>2, <1>7, Zenon DEF ExecInv, Unstarted, workerVars
<1>11. SettledInv'
  <2>1. \A i \in Ids : HasOutcome(i)' => i \notin pending'
    BY <1>2, <1>3 DEF HasOutcome
  <2> QED BY <1>1, <1>2, <1>7, <2>1, NoneAssumption, Zenon DEF SettledInv, workerVars
<1>12. WorkerCopies' /\ ClientCopies' /\ RecordShape'
  BY <1>2, <1>3, WorkerCopiesUnchanged, ClientCopiesUnchanged, Zenon
     DEF IInv, RecordShape, workerVars, clientVars
<1> QED BY <1>5, <1>6, <1>8, <1>9, <1>10, <1>11, <1>12, SMTT(20) DEF IInv

\* The end of the process leaves nothing but the store.
LEMMA VanishStep ==
    ASSUME IInv, Vanish, stops' \in 0..MaxStops
    PROVE  IInv'
<1>1. /\ store' \in [Ids -> Job \cup {NoJob}]
      /\ \A i \in Ids : store'[i] \in {store[i], NoJob}
  BY DEF IInv, TypeOK, Vanish
<1>2. /\ queue' = <<>> /\ Elems(queue') = {} /\ Inj(queue') /\ pending' = {}
      /\ \A w \in Workers : wpc'[w] = "idle" /\ wid'[w] = None
      /\ \A c \in Clients : cpc'[c] = "idle"
      /\ \A i \in Ids : execs'[i] = 0
      /\ used' = used
  BY EmptyElems DEF Vanish
<1>3. TypeOK'
  BY <1>1, NoneAssumption, EmptyElems, Zenon DEF IInv, TypeOK, Vanish, NoRef, Outcome
<1>4. QueueInv' /\ WorkerInv' /\ DownInv'
  BY <1>2, Zenon DEF QueueInv, WorkerInv, Free, DownInv
<1>5. \A c \in Clients : ~Sending(c)' /\ ~Canceling(c)'
  BY <1>2 DEF Sending, Canceling
<1>6. ClientInv' /\ ClientCopies'
  BY <1>5, Zenon DEF ClientInv, ClientCopies
<1>7. UsedInv'
  BY <1>1, <1>2, <1>5, ZenonT(30) DEF IInv, UsedInv, Stored
<1>8. ExecInv'
  BY <1>2, <1>5 DEF ExecInv, Unstarted
<1>9. SettledInv'
  BY <1>2, <1>5, NoneAssumption, Zenon DEF SettledInv
<1>10. WorkerCopies' /\ RecordShape'
  BY <1>1, <1>2, Zenon DEF IInv, WorkerCopies, RecordShape, Stored
<1> QED BY <1>3, <1>4, <1>6, <1>7, <1>8, <1>9, <1>10, SMTT(20) DEF IInv

\* A shutdown request changes no job.
LEMMA ShutdownStep ==
    ASSUME IInv, Shutdown
    PROVE  IInv'
<1>1. stops' \in 0..MaxStops
  BY ConstAssumption, SMTT(20) DEF IInv, TypeOK, Shutdown
<1>2. TypeOK'
  BY <1>1 DEF IInv, TypeOK, Shutdown, procVars, histVars
<1>3. WorkersQuiet /\ WorkerCopies' /\ ClientsQuiet /\ ClientCopies'
  BY WorkersUnchanged, WorkerCopiesUnchanged, ClientsUnchanged, ClientCopiesUnchanged
     DEF IInv, Shutdown, procVars
<1>4. UNCHANGED <<queue, pending, used, execs, store>> /\ phase' # "down"
  BY DEF Shutdown, procVars
<1> QED BY <1>2, <1>3, <1>4, StoreUnchanged, ClaimFrame, SettledFrame, SMTT(20) DEF IInv

\* Nothing changes.
LEMMA StutterStep ==
    ASSUME IInv, UNCHANGED vars
    PROVE  IInv'
<1> USE DEF vars, procVars
<1>1. TypeOK'
  BY SMTT(20) DEF IInv, TypeOK
<1>2. QueueInv' /\ WorkerInv' /\ DownInv'
  BY SMTT(20) DEF IInv, QueueInv, WorkerInv, Free, DownInv
<1>3. ClientInv' /\ UsedInv'
  BY SMTT(20) DEF IInv, ClientInv, UsedInv, Sending, Canceling, Stored
<1>4. ExecInv' /\ SettledInv'
  BY SMTT(20) DEF IInv, ExecInv, SettledInv, HasOutcome, Stored, Unstarted, Sending
<1>5. WorkerCopies' /\ ClientCopies' /\ RecordShape'
  BY WorkerCopiesUnchanged, ClientCopiesUnchanged, StoreUnchanged, SMTT(20) DEF IInv
<1> QED BY <1>1, <1>2, <1>3, <1>4, <1>5, SMTT(20) DEF IInv

-----------------------------------------------------------------------------
(* The theorems *)

\* A process that is down, over an empty store, satisfies the invariant.
LEMMA InitInv == Init => IInv
<1> SUFFICES ASSUME Init PROVE IInv
  BY SMTT(20)
<1> USE ConstAssumption, NoneAssumption, EmptyElems DEF Init
<1>1. TypeOK
  BY SMTT(20) DEF TypeOK, NoRef, Outcome
<1>2. QueueInv /\ WorkerInv
  BY SMTT(20) DEF QueueInv, WorkerInv, Free
<1>3. ClientInv /\ UsedInv
  BY SMTT(20) DEF ClientInv, UsedInv, Sending, Canceling, Stored
<1>4. ExecInv /\ DownInv
  BY SMTT(20) DEF ExecInv, DownInv, Unstarted, Sending
<1>5. SettledInv /\ WorkerCopies /\ ClientCopies /\ RecordShape
  BY DEF SettledInv, HasOutcome, WorkerCopies, ClientCopies, Canceling, RecordShape, Stored
<1> QED BY <1>1, <1>2, <1>3, <1>4, <1>5 DEF IInv

\* Every step of the manager preserves it.
LEMMA NextInv == IInv /\ [Next]_vars => IInv'
<1> SUFFICES ASSUME IInv, [Next]_vars PROVE IInv'
  OBVIOUS
<1>1. ASSUME NEW c \in Clients,
             \/ \E k \in Keys : SubmitLookup(c, k)
             \/ \E i \in Ids, op \in Ops : SubmitCreate(c, i, op)
             \/ \E i \in Ids : CancelGet(c, i)
      PROVE  IInv'
  BY <1>1, LookupStep, CreateStep, CancelGetStep
<1>2. ASSUME NEW c \in Clients, ClientStep(c) PROVE IInv'
  BY <1>2, InvalidStep, SendStep, RollbackStep, CancelSignalStep, CancelSaveStep,
     CancelAnnounceStep, SMTT(20) DEF ClientStep
<1>3. ASSUME NEW w \in Workers, WorkerStep(w) PROVE IInv'
  BY <1>3, TakeStep, ExitStep, RunGetStep, RunMarkStep, RunRegisterStep, RunReturnStep,
     RunFinishStep, RunAnnounceStep DEF WorkerStep
<1>4. ASSUME (\E E \in SUBSET Ids : Reap(E)) \/ (\E i \in Ids : Requeue(i)) PROVE IInv'
  BY <1>4, ReapStep, RequeueStep
<1>5. CASE Start
  BY <1>5, StartStep
<1>6. CASE Shutdown \/ UNCHANGED vars
  BY <1>6, ShutdownStep, StutterStep
<1>7. CASE Stop \/ Crash
  <2>1. Vanish
    BY <1>7, SMTT(20) DEF Stop, Crash
  <2>2. stops' \in 0..MaxStops
    BY <1>7, ConstAssumption DEF Stop, Crash, IInv, TypeOK
  <2> QED BY <2>1, <2>2, VanishStep
<1> QED BY <1>1, <1>2, <1>3, <1>4, <1>5, <1>6, <1>7 DEF Next

\* The inductive invariant holds in every reachable state.
THEOREM Invariance == Spec => []IInv
BY InitInv, NextInv, PTL DEF Spec

\* Every variable of the manager keeps its type, for any number of clients,
\* workers, keys and stops.
THEOREM TypeCorrect == Spec => []TypeOK
<1>1. IInv => TypeOK
  BY SMTT(20) DEF IInv
<1> QED BY <1>1, Invariance, PTL

\* Whatever is submitted, canceled, reaped, requeued or recovered, and however
\* the store calls of run, Cancel and submit interleave or fail, exec is called
\* at most once per job in one life of the process.
THEOREM AtMostOnce == Spec => []ExecutedAtMostOnce
<1>1. IInv => ExecutedAtMostOnce
  BY DEF IInv, ExecInv, ExecutedAtMostOnce
<1> QED BY <1>1, Invariance, PTL

\* A record recovery may run again still has its request; an ended one is
\* scrubbed, has an expiry, and has a result exactly if it succeeded.
THEOREM WellFormedRecords == Spec => []RecordShape
<1>1. IInv => RecordShape
  BY DEF IInv
<1> QED BY <1>1, Invariance, PTL

\* The outcome recorded by run is only ever reaped, lost with the in-memory
\* store, or overwritten by Cancel.
THEOREM OutcomesStand == Spec => OutcomeStands
<1> DEFINE Kept(i) == store'[i] \in {store[i], NoJob} \/ store'[i].status = "canceled"
<1>1. ASSUME IInv, Next, NEW i \in Ids, HasOutcome(i) PROVE Kept(i)
  <2> USE <1>1
  <2>1. /\ store[i] \in Job /\ i \in used
        /\ \A w \in Workers : wid[w] = i => wpc[w] = "announce"
    BY DEF IInv, TypeOK, HasOutcome, Stored, UsedInv, SettledInv
  <2>2. CASE store' = store
    BY <2>2, SMTT(20)
  <2>3. ASSUME NEW c \in Clients, NEW k \in Ids, NEW op \in Ops, SubmitCreate(c, k, op)
        PROVE  Kept(i)
    BY <2>1, <2>3, SMTT(20) DEF SubmitCreate, Save, IInv, TypeOK
  <2>4. ASSUME NEW c \in Clients, SubmitRollback(c) PROVE Kept(i)
    BY <2>4, SMTT(20) DEF SubmitRollback, Save, IInv, TypeOK
  <2>5. ASSUME NEW c \in Clients, CancelSave(c) PROVE Kept(i)
    <3>1. cjob[c] \in Job
      BY <2>5 DEF CancelSave, IInv, ClientCopies, Canceling
    <3> DEFINE j == Finished(cjob[c], "canceled", cjob[c].result)
    <3>2. j.status = "canceled"
      BY <3>1 DEF Finished, Job
    <3>3. store' = store \/ store' = [store EXCEPT ![cid[c]] = j]
      BY <2>5, Zenon DEF CancelSave, Save
    <3> HIDE DEF j
    <3> QED BY <3>2, <3>3, SMTT(20) DEF IInv, TypeOK
  <2>6. ASSUME NEW w \in Workers, RunMark(w) \/ RunFinish(w) PROVE Kept(i)
    <3>1. wid[w] # i
      BY <2>1, <2>6 DEF RunMark, RunFinish
    <3>2. \E j : store' = store \/ store' = [store EXCEPT ![wid[w]] = j]
      BY <2>6, SMTT(20) DEF RunMark, RunFinish, Save
    <3> QED BY <3>1, <3>2 DEF IInv, TypeOK
  <2>7. ASSUME NEW E \in SUBSET Ids, Reap(E) PROVE Kept(i)
    BY <2>7 DEF Reap
  <2>8. CASE Start
    BY <2>8, SMTT(20) DEF Start, Recovered, HasOutcome
  <2>9. CASE Stop \/ Crash
    BY <2>9 DEF Stop, Crash, Vanish
  <2>10. ASSUME NEW c \in Clients,
                \/ \E k \in Keys : SubmitLookup(c, k)
                \/ \E k \in Ids : CancelGet(c, k)
                \/ SubmitInvalid(c) \/ SubmitSend(c) \/ CancelSignal(c) \/ CancelAnnounce(c)
         PROVE  store' = store
    BY <2>10, Zenon DEF SubmitLookup, CancelGet, SubmitInvalid, SubmitSend, CancelSignal,
       CancelAnnounce
  <2>11. ASSUME NEW w \in Workers,
                \/ WorkerTake(w) \/ WorkerExit(w) \/ RunGet(w)
                \/ RunRegister(w) \/ RunReturn(w) \/ RunAnnounce(w)
         PROVE  store' = store
    BY <2>11 DEF WorkerTake, WorkerExit, RunGet, RunRegister, RunReturn, RunAnnounce
  <2>12. ASSUME (\E k \in Ids : Requeue(k)) \/ Shutdown PROVE store' = store
    BY <2>12, SMTT(20) DEF Requeue, Shutdown
  <2> QED BY <2>2, <2>3, <2>4, <2>5, <2>6, <2>7, <2>8, <2>9, <2>10, <2>11, <2>12, ZenonT(30)
          DEF Next, ClientStep, WorkerStep
<1>2. IInv /\ [Next]_vars =>
        [\A i \in Ids : Stored(i) /\ store[i].status \in {"succeeded", "failed"} => Kept(i)]_store
  BY <1>1 DEF HasOutcome, vars
<1> QED BY <1>2, Invariance, PTL DEF Spec, OutcomeStands
=============================================================================
