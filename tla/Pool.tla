------------------------------- MODULE Pool -------------------------------
(***************************************************************************)
(* The in-process provider: internal/native/pool.go, worker.go, open.go    *)
(* and the calls of instance.go they are made of.  A pool of Kalkan        *)
(* instances, each owned by one worker; callers hand a job to a free       *)
(* worker over an unbuffered channel and wait for its answer.              *)
(*                                                                         *)
(* A job is the list of library calls its method makes.  An instance keeps *)
(* what the calls leave behind: the key loaded last, every anchor loaded   *)
(* so far and the timestamp authority set last.  A caller's key and anchor *)
(* go by the caller's name.                                                *)
(***************************************************************************)
EXTENDS Integers, FiniteSets, Sequences

CONSTANTS PoolWorkers, PoolCallers,
          Caps,         \* the methods the loaded library version has
          PoolCalls,    \* the methods called: names of Operations
          TSAUrls,      \* authorities a request may name
          NoUrl,        \* the empty TSAURL, and the library's default
          NoCall

VARIABLES
  pool,      \* the workers of the opened pool, {} before Open
  shared,    \* the instances share one crypto engine
  inst,      \* what each instance holds
  work,      \* the job of each worker: [c, pc], NoCall when idle
  gone,      \* workers that returned
  call,      \* what each caller is doing
  answer,    \* the done channel of each caller's job (buffer of one)
  closing    \* Close: "open", "closed", "quit", "done"

poolVars == <<pool, shared, inst, work, gone, call, answer, closing>>

(* The calls of each method, in order.                                       *)
SignCMS == <<"loadKey", "loadTrusted", "tsaSetURL", "sign", "shape">>
SignXML == <<"loadKey", "loadTrusted", "tsaSetURL", "sign">>
SignWSSE == SignXML
SignHash == <<"loadKey", "sign">>
ExportOwnerCert == <<"loadKey", "sign">>
VerifyCMS == <<"loadTrusted", "verify">>
VerifyXML == VerifyCMS
ValidateCert == VerifyCMS
CertProperties == <<"read">>
Hash == <<"read">>
SelfTest == Hash

Operations ==
  [SignCMS |-> SignCMS, SignXML |-> SignXML, SignWSSE |-> SignWSSE, SignHash |-> SignHash,
   ExportOwnerCert |-> ExportOwnerCert, VerifyCMS |-> VerifyCMS, VerifyXML |-> VerifyXML,
   ValidateCert |-> ValidateCert, CertProperties |-> CertProperties, Hash |-> Hash,
   SelfTest |-> SelfTest]

ASSUME PoolAssumption == PoolCalls \subseteq DOMAIN Operations /\ NoUrl \notin TSAUrls

PoolInit ==
  /\ pool = {} /\ shared = FALSE /\ gone = {} /\ closing = "open"
  /\ inst = [w \in PoolWorkers |-> [key |-> NoCall, trusted |-> {}, tsa |-> NoUrl]]
  /\ work = [w \in PoolWorkers |-> NoCall]
  /\ call = [c \in PoolCallers |-> [st |-> "idle"]]
  /\ answer = [c \in PoolCallers |-> NoCall]

-----------------------------------------------------------------------------
(* Opening and closing *)

(* Open and newPool.  fallback: dlmopen fell back to the shared namespace.   *)
(* More than one instance is refused unless every one is isolated; a single  *)
(* instance is not isolated at all.                                          *)
Open(ws, isolated, fallback) ==
  /\ pool = {} /\ ws # {}
  /\ Cardinality(ws) = 1 \/ isolated
  /\ LET isolate == isolated /\ Cardinality(ws) > 1
     IN  /\ isolate => ~fallback
         /\ shared' = ~isolate
  /\ pool' = ws
  /\ UNCHANGED <<inst, work, gone, call, answer, closing>>

(* Close stores the flag, closes quit, waits for the workers.  Later calls   *)
(* wait for the first one (sync.Once).                                       *)
CloseStore ==
  /\ pool # {} /\ closing = "open" /\ closing' = "closed"
  /\ UNCHANGED <<pool, shared, inst, work, gone, call, answer>>

CloseQuit ==
  /\ closing = "closed" /\ closing' = "quit"
  /\ UNCHANGED <<pool, shared, inst, work, gone, call, answer>>

CloseWait ==
  /\ closing = "quit" /\ gone = pool /\ closing' = "done"
  /\ UNCHANGED <<pool, shared, inst, work, gone, call, answer>>

-----------------------------------------------------------------------------
(* submit *)

(* The error a call returns is not kept: nothing here depends on it.         *)
Return(c) == call' = [call EXCEPT ![c] = [st |-> "idle"]]

(* The capability check of the method and the closed check of submit; a call *)
(* that fails one returns at once (ErrUnsupported, ErrClosed).  Only the     *)
(* requests to sign have a TSAURL.                                           *)
Call(c, op, url) ==
  /\ pool # {} /\ call[c].st = "idle"
  /\ url # NoUrl => \E i \in DOMAIN Operations[op] : Operations[op][i] = "tsaSetURL"
  /\ op \in Caps /\ closing = "open"
  /\ call' = [call EXCEPT ![c] = [st |-> "queued", op |-> op, url |-> url]]
  /\ UNCHANGED <<pool, shared, inst, work, gone, answer, closing>>

(* The send meets the receive of an idle worker, which may still choose the  *)
(* job when quit is closed as well.                                          *)
Dispatch(c, w) ==
  /\ call[c].st = "queued" /\ w \in pool \ gone /\ work[w] = NoCall
  /\ call' = [call EXCEPT ![c].st = "waiting"]
  /\ work' = [work EXCEPT ![w] = [c |-> c, pc |-> 1]]
  /\ UNCHANGED <<pool, shared, inst, gone, answer, closing>>

Refused(c) ==
  /\ call[c].st = "queued" /\ closing \in {"quit", "done"} /\ Return(c)
  /\ UNCHANGED <<pool, shared, inst, work, gone, answer, closing>>

AbandonedAnyTime(c) ==
  /\ call[c].st \in {"queued", "waiting"} /\ Return(c)
  /\ UNCHANGED <<pool, shared, inst, work, gone, answer, closing>>

(* The context guards only the enqueue.  Done later, it changes only the     *)
(* error the caller is given.                                                *)
Abandoned(c) ==
  /\ call[c].st = "queued" /\ Return(c)
  /\ UNCHANGED <<pool, shared, inst, work, gone, answer, closing>>

(* The answer comes, however long it takes. *)
Answered(c) ==
  /\ call[c].st = "waiting" /\ answer[c] # NoCall
  /\ Return(c)
  /\ answer' = [answer EXCEPT ![c] = NoCall]
  /\ UNCHANGED <<pool, shared, inst, work, gone, closing>>

-----------------------------------------------------------------------------
(* The worker *)

Running(w) == work[w] # NoCall
JobOf(w) == call[work[w].c]
StepOf(w) == Operations[JobOf(w).op][work[w].pc]

(* The job ends: its error and what it used go to the caller.                *)
Finish(w, err) ==
  /\ answer' = [answer EXCEPT ![work[w].c] = [err |-> err, used |-> inst[w]]]
  /\ work' = [work EXCEPT ![w] = NoCall]

Advance(w) ==
  IF work[w].pc = Len(Operations[JobOf(w).op]) THEN Finish(w, "none")
  ELSE work' = [work EXCEPT ![w].pc = @ + 1] /\ UNCHANGED answer

loadKey(w) == inst' = [inst EXCEPT ![w].key = work[w].c]

loadTrusted(w) == inst' = [inst EXCEPT ![w].trusted = @ \cup {work[w].c}]

(* An empty URL sets nothing: the one set before stays.                      *)
tsaSetURL(w) == inst' = [inst EXCEPT ![w].tsa = IF JobOf(w).url = NoUrl THEN @ ELSE JobOf(w).url]

Effect(w) ==
  CASE StepOf(w) = "loadKey" -> loadKey(w)
    [] StepOf(w) = "loadTrusted" -> loadTrusted(w)
    [] StepOf(w) = "tsaSetURL" -> tsaSetURL(w)
    [] OTHER -> UNCHANGED inst

(* One call of the job.  Every call but tsaSetURL may fail, which ends the   *)
(* job; the shape check fails when the library left the buffer untouched.    *)
RunStep(w) ==
  /\ Running(w)
  /\ \/ Effect(w) /\ Advance(w)
     \/ StepOf(w) # "tsaSetURL" /\ UNCHANGED inst
        /\ Finish(w, IF StepOf(w) = "shape" THEN "emptyOutput" ELSE "native")
  /\ UNCHANGED <<pool, shared, gone, call, closing>>

Quit(w) ==
  /\ w \in pool \ gone /\ work[w] = NoCall /\ closing = "quit" /\ gone' = gone \cup {w}
  /\ UNCHANGED <<pool, shared, inst, work, call, answer, closing>>

PoolNext ==
  \/ \E ws \in SUBSET PoolWorkers, isolated, fallback \in BOOLEAN : Open(ws, isolated, fallback)
  \/ CloseStore \/ CloseQuit \/ CloseWait
  \/ \E c \in PoolCallers, op \in PoolCalls, url \in TSAUrls \cup {NoUrl} : Call(c, op, url)
  \/ \E c \in PoolCallers : Refused(c) \/ Abandoned(c) \/ Answered(c)
  \/ \E c \in PoolCallers, w \in PoolWorkers : Dispatch(c, w)
  \/ \E w \in PoolWorkers : RunStep(w) \/ Quit(w)

-----------------------------------------------------------------------------
(* Properties *)

Succeeded(c) == answer[c] # NoCall /\ answer[c].err = "none"
Calls(c, step) == \E i \in DOMAIN Operations[call[c].op] : Operations[call[c].op][i] = step

(* "One job is one atomic operation on one instance": whatever ran on that   *)
(* instance before or elsewhere meanwhile, a call is done with the caller's  *)
(* own key, with its own anchors in the store, and with the authority it     *)
(* named.  Earlier callers' anchors stay in the store beside them, and a     *)
(* call that names no authority uses the one the instance was left with.     *)
UsesItsOwn ==
  \A c \in PoolCallers : Succeeded(c) =>
    LET used == answer[c].used IN
    /\ Calls(c, "loadKey") => used.key = c
    /\ Calls(c, "loadTrusted") => c \in used.trusted
    /\ Calls(c, "tsaSetURL") /\ call[c].url # NoUrl => used.tsa = call[c].url

(* Two jobs run at once only on isolated instances: instances that share the *)
(* engine would crash the process.                                           *)
EngineIsSerial ==
  shared => Cardinality({w \in PoolWorkers : Running(w)}) <= 1

(* The job writes the caller's variables: a call that has returned, early or *)
(* not, has no job left running, and one that gave up never had one.         *)
ReturnedIsOver ==
  \A c \in PoolCallers :
    call[c].st \in {"idle", "queued"} => \A w \in PoolWorkers : Running(w) => work[w].c # c

(* Close leaves nobody behind: once it returned nothing runs, and every call *)
(* that reached a worker, also after quit was closed, has its answer.        *)
CloseDrains ==
  closing = "done" =>
    \A c \in PoolCallers : /\ \A w \in PoolWorkers : ~Running(w)
                           /\ call[c].st = "waiting" => answer[c] # NoCall

(* What a call through the pool relies on is its own (native/pool.go,      *)
(* instance.go): its key, its anchors and the authority it named are in    *)
(* the instance, no other job runs in its engine, its variables are        *)
(* written only while it waits, and Close does not leave it waiting.       *)
PoolIsSound ==
  /\ UsesItsOwn
  /\ EngineIsSerial
  /\ ReturnedIsOver
  /\ CloseDrains
=============================================================================
