# A TLA+ verification of qoltanba

qoltanba is a service that signs and verifies Kazakhstan NUC electronic
signatures over a native library (Kalkan) that leaks, crashes and may hang. The
cryptography is not what is hard to get right in this code; what surrounds it
is: an asynchronous job manager that must survive crashes, a batch runner, a
pool of child processes that are killed and replaced at any moment, caches
shared by concurrent requests, stateful protocols (challenges, authorization
codes, QR sessions, multi-party signing), message consumers, and verdicts that
are put together from partial answers. This directory holds TLA+ models of those
parts, the TLC configurations that check them on small instances, and TLAPS
proofs of central properties for every size.

## 1. The system and its parts

Requests arrive over REST, gRPC, a CLI or a message broker (Kafka, AMQP, NATS).
`transport/dispatch` maps an operation name to one call of `core.Service`, which
uses a `provider` (the port of the native library): either the in-process
`native` pool or the `cryptoworker` supervisor with one child process per slot.

| Part | What is hard in it | Module |
|---|---|---|
| `internal/jobs` | read-modify-write of a record without a lock, crash and recovery, a full queue | `Jobs` |
| `core/batch.go` | fail-fast racing the dispatcher, order of slot, counters and sink | `Batch`, `BatchContract` |
| `internal/cryptoworker` | late answers, lost slots, leaked children, Close | `Supervisor` |
| `internal/idempotency` and its front ends | eviction of a running entry, waiters, failures | `Idempotency` |
| `challenge`, `oidc`, `qr` | double use, expiry, polls racing pushes, restart | `Requests`, `Challenge`, `QR`, composed in `Login` |
| `multisign` | overlapping submissions, who meets which requirement | `Multisign` |
| `core` Validate, `ocspcache` | stale answers, late stores, pinned failures | `Revocation` |
| `core` Verify, VerifyAt, Archive, report, diagnosis | verdicts over partial failure, instants at a boundary | `Verification` |
| `core/chain.go`, issuer discovery | equal names, cross-certificates, retry | `Chain` |
| REST, gRPC, CLI and queue front ends | what was meant, cut streams, gates and registers | `Frontends` |
| job endpoints | two reads in one handler, lost answers | `JobApi` |
| `native` pool and workers | state an instance keeps, submit racing Close | `Pool` |
| `native` open, capabilities, `shim.c` | half-opened pools, buffer sizes | `Binding` |
| `internal/audit` | torn tail after a crash | `Audit` |
| `internal/crl` | downloads outside the lock, eviction, base and delta | `CRL` |
| `internal/trust`, `aia` | failed refresh, concurrent misses | `Trust` |
| `core` Sign, `dataref`, `keysource` | temporary files on every error path | `Signing` |
| `certwatch` | failed webhook, an answer that is lost | `Certwatch` |
| error paths of all transports | a fault taken for a verdict | `Failures` |
| `cms`, `core/timestamp.go`, `core/ltv.go` | archiving twice, checks that could not be made | `Container` |
| message consumers | redelivery, commit order, drain | `Delivery` |
| `cmd/qoltanba`, `compat` | start that fails half way, order of the stop | `Lifecycle` |
| `config` and the builders | two readers of one setting | `Config` |
| service key, receipts, signed QR | restart, damaged file, lifetimes | `ServiceKey` |

`PROJECT.json` lists every part with its files and says what of it is left out,
and maps every definition to the lines it models.

## 2. How the models are built

One action is one critical section, channel operation, store call or call into
another component: between two of them the code holds nothing, so other
goroutines may run. Where the code reads a record, works on the copy and writes
it back, the copy is part of the state and may be stale when it is written.
Components whose operations are functions of their inputs (`Verification`,
`Chain`, `Failures`, `Container`, parts of `Frontends` and `Config`) have one
step that poses any question within the bounds and steps that answer it; their
properties compare the answer with what it has to mean, stated independently of
the code's order of checks.

Components that interact closely are one model: `Jobs` (clients, workers,
reaper, store), `Supervisor` (calls, children, warmer, Close), `Login`
(confirmations, OIDC and QR over shared goroutines, clock and restarts),
`Lifecycle` (all parts of the process by their use of shared resources). Others
are taken at their contract: `Delivery` relies on what `Idempotency` shows,
`Frontends` on `BatchContract`, `JobApi` on the moves of a record in `Jobs`, and
`Revocation` on the three answers of `CRL`.

`MCServices`, `MCEngine` and `MCProgress` check several components side by side:
the variable `part`, chosen in the initial state, names the one that runs and
the variables of the others stand still. It saves a configuration per component
and changes nothing in what is explored of each. In `MCProgress`, which has
liveness properties, the others stand in a state with nothing left to do, so that
fairness asks nothing of them. The other `MC*` modules hold only symmetry sets
and constant values; `status_hit` and `delivery_skip` run `Revocation` and
`Delivery` by themselves.

A property of a larger component is a conjunction of named clauses, each stated
and explained in its module just before it (`SingleUse`, for instance, is
`ChallengeIsSingleUse`, `CodeIsSingleUse`, `SessionIsSingleUse` and
`VerifiedIsUsed`). An operator placed just before the definition it varies
(`ConsumeTwoSteps` before `Consume`) is a deliberately wrong variant: replacing
the definition by it must break the property, which shows that the property can
fail. Each property has one.

### The models, briefly

**Jobs.** `Cancel` is `CancelGet`, `CancelSignal`, `CancelSave`,
`CancelAnnounce`; `run` is `RunGet`, `RunMark`, `RunRegister`, `RunReturn`,
`RunFinish`, `RunAnnounce`; `Submit` is `SubmitLookup` (with a key, under
`idemMu`), `SubmitCreate`, `SubmitSend`, `SubmitRollback`. `Start` recovers,
`Shutdown` cancels the serve context, `Stop` and `Crash` end the process; with
`Durable = FALSE` the store goes with it. A record is its operation kind, status,
whether request and expiry are set, and its result. Time is abstract: the reaper
may delete any ended job that has an expiry (a positive TTL is assumed).

**Batch** follows `runBatch` access by access: the two looks at the flag around
the semaphore, the unlocked slot, the counters and the sink under the mutex, the
deferred release before the deferred `Done`. **BatchContract** is what a caller
may rely on, without any of these; `Contract` in `Batch` is the refinement
mapping.

**Supervisor** has `call` and `callOnce` with the one retry, the children
(alive, hung or dead, one frame in each pipe), the warmer and `Close`. Process
identities are reused once reaped. `Init` is the state `Start` returns.

**Idempotency** has the critical sections of `Do`, the end of `fn` and, outside
the lock, the closing of `done`, and what each front end does with the result.
`excused` collects the keys for which a second run has a known reason: the entry
was evicted while running or valid, or the REST wrapper ran the handler by
itself because its context ended or the leader panicked.

**Login** composes `Challenge` (issue, confirm split at the verification, the
authorization code flow with PKCE, the code store) and `QR` (create, push, relay
poll, completion, webhook, reaping; a push that its profile refuses is consumed in
one step and recorded as failed in another). **Multisign** reads, works on the
copy and writes it back; a container is the list of its signers' certificates, and
one person may have two.

**Revocation** is a lookup, an answer and a store by concurrent requests while
certificates are revoked. **Verification** computes Verify with its retry and its
composite confirmation, VerifyAt, Archive, the report and the diagnosis from what
library, chain and revocation check answer. **Chain** builds chains over every
PKI of two names and two keys, with `MaxChainDepth` links.

**Pool** has the callers, the workers and `Close`; a job is the list of library
calls of its method and an instance keeps what they leave behind. **Binding** has
Open with every way of failing, Close, the capability table, and what becomes of
the output of a call. Its sizes are scaled: 2^16 bytes is 2, 2^18 is 4, 2^20 is 8,
the largest capacity is `MaxCap`. **Audit** is the file as a list of lines, with
failed writes and fsyncs, power cuts, cut lines and reopening. **CRL** resolves a
base and a delta by two requests over resident or spooled bodies, **Trust** the
rebuild of the anchors, source by source, and the AIA cache, **Signing** one Sign
with its files, **Certwatch** the sweep and the webhook, **Failures** an error
from the return code to the client, **Container** evidence and timestamps.

**Delivery** is one of the three consumers with failed publishes, lost acks,
redelivery, dropped channels, stop, crash and restart. **Lifecycle** is the start
in order, with any part failing, the serving, and the stop in order. **Config** is
Load over four layers, Validate, and the builders reading the result.
**ServiceKey** is the key file over restarts and the statements signed with it,
with `DurationBits` for the overflow of a lifetime and `PerSecond` ticks in the
second that an expiry is cut to.

## 3. Runs

| Run | What it asks | Distinct states | Result |
|---|---|---|---|
| `jobs` | two clients, two workers, a key, a queue of one, one stop or crash over bbolt: at most one execution, no orphan, a submit happens or does not, outcomes stand | 1.26 million | holds |
| `jobs_live` | one store fault, one stop or crash: ends are announced; every accepted job ends unless the fault happened | 311 thousand | holds |
| `jobs_terminal` | a terminal status will not change | | violated |
| `supervisor` | two callers, two slots, a spare, Close at any time: slots, children, answers | 2.17 million | holds |
| `supervisor_live` | two callers, one slot, a spare, requests larger than the pipe: calls return until Close begins, Close returns, but for a request stuck in its write | 194 thousand | holds |
| `supervisor_close_call` | calls return after Close, too | | violated |
| `idem` | four requests on two keys, a cache of one entry, mixed front ends: coherence, one run per key, no lost waiter | 150 thousand | holds |
| `services` | `Login`, `Multisign`, `Revocation`, `Verification`, `Chain`, `Frontends`, `JobApi` | 1.50 million | holds |
| `status_hit` | an answer from the OCSP cache was a determined one | | violated |
| `engine` | `Pool`, `Binding`, `Signing`, `Container`, `Audit`, `CRL`, `Trust`, `Certwatch`, `ServiceKey`, `Config`, `Failures` | 1.65 million | holds |
| `progress` | `Batch` (all policies and concurrencies -1, 0, 1, 5 over three items: the contract is implemented, the call returns), `Delivery` (safety, and that every message is settled), `Lifecycle` | 280 thousand | holds |
| `delivery_skip` | no record is settled unanswered, on any broker | | violated |

The violated ones state what a comment in the source says; "findings" in
`PROJECT.json` quotes it. `Cancel` and `run` each save a copy they read earlier,
so each can overwrite what the other recorded as final. A call that has read the
closed flag before `Close` set it waits for a slot that `Close` keeps, and
`acquire` does not watch the stop channel. An OCSP answer "unknown" comes without
an error, so `Validate` reports it as undetermined and caches it all the same; the
next check is told from the cache that the certificate is determined not to be
revoked. On Kafka a poll with a failed reply is
left uncommitted, but the client's position has moved on and the commit of the
next clean poll covers it.

**Bounds.** They are chosen for the smallest instance in which the case in
question happens. Two jobs and a queue of one give a full queue, a recovered job
competing with a new one, and two workers on one store; a second client is needed
for a duplicate key. Three items with two tokens make the dispatcher wait while an
item fails. Two callers, two slots and one spare give a wait for a slot, a retry
on another slot and a warmer at work during Close; a budget of two operations
reaches recycling by count, by memory and by verdict. The liveness run has one
slot, so that a stuck call is in everybody's way, and a budget of one. A cache of
one entry with two keys evicts running entries. Two goroutines race for one code,
one session and each of two challenges, and a clock of two ticks beyond a TTL of
one separates valid, at the boundary and expired. Three people, one with two
certificates, and requirements that overlap, are disjoint or are only a count
cover first fit and its failure. Four journal lines with two power cuts allow a
cut line, a restart that continues it and a second cut. Two issues of base and
delta give an outdated one of each. Two messages and two polls are needed for a
commit that passes a failed record. Output sizes include each capacity, one below
and one above. Deadlock checking is off: a service with no request, a batch that
has returned and a process that has ended may stop. Symmetry is used only in runs
without liveness properties.

**Fairness.** Weak fairness of a goroutine's steps: the Go scheduler runs what is
runnable. It includes the end of an operation (`exec`, the handler), because the
driver bounds each by a timeout. Clients, cancellations, crashes, faults, expiry
and the death of a child are never forced. A stopped process is started again
(`Start`): the service manager does that. In `Supervisor`, receiving from the
channel of free slots is strongly fair, because Go serves blocked receivers in
order, and a call that waits for an answer goes on because its timer fires. The
write of a request is not bounded by the timer: with a request the pipe cannot
hold (`BigPayload = TRUE`, as in the liveness run) and a child that hangs, it is
never forced to end, and the properties name what waits for it. In `Delivery`,
polling, the steps of a worker and the broker's redelivery are weakly fair, and
taking a message is strongly fair, since a slot comes free again and again rather
than for good.

## 4. Proofs

All proofs are checked by TLAPS with no omitted step.

**Jobs** (`JobsInv`, `JobsProofs`): for
any sets of ids, workers, clients and keys, any queue size, either store and any
number of stops and faults: `TypeCorrect`, `AtMostOnce`, `WellFormedRecords` and
`OutcomesStand`. `ExecutedAtMostOnce` is not inductive. The invariant `IInv`
adds ownership: an id that may still start is in exactly one of the queue, the
list to requeue, a worker or the submit that created it (`QueueInv`,
`WorkerInv`, `ClientInv`), was drawn before (`UsedInv`) and has not been executed
in this life (`ExecInv`); nothing but the store survives the process (`DownInv`);
a recorded outcome has no owner left who could replace it (`SettledInv`); and the
copies held by `run` and `Cancel` are of unfinished jobs (`WorkerCopies`,
`ClientCopies`). One lemma per action shows that it is preserved. The in-memory
store and batch jobs cut by a shutdown (result "partial") are covered by these
proofs and by no run.

**Batch** (`BatchProofs`): for every number of items, requested concurrency and
pool size: `BatchTypeCorrect`, `ConcurrencyBounded`, `OneLateAtMost`,
`SinkFaithful`, and `Implements`, that every behaviour of `runBatch` is one of
`BatchContract`. The invariant says that the semaphore and the wait group count
the goroutines in the corresponding places, and the counters the slots written
and counted (`SemInv`, `WgInv`, `SumInv`), which needs cardinalities of sets
that change by one element. That at most one item starts after a failure is not
part of the contract: `OneLateAtMost` shows it.

**Supervisor** (`SupervisorInv`, `SupervisorProofs`): for any numbers of callers,
slots, spares and processes, any budget, requests of either size, with and without
Close: `SlotsAreConserved`, `AnswersAreOwn` and `ChildrenAreAccounted`, all from
`ExclusiveUse`, the invariance of `SInv`. A slot is in the channel, with one call
or taken by Close (`SlotInv`); a child is in one slot, one standby place or with
the warmer (`PlaceInv`); so its pipes hold at most the request or the answer of
the one call that waits on it, and a child nobody waits on is clean (`PipeInv`).

**Idempotency** (`IdempotencyProofs`): for any numbers of requests, keys and
entries and any size of the cache: `NobodyWaitsInVain` (`WaitersAreServed`),
`ReplaysOwnSuccess` (`DoneIsSuccess` and `AnswerFits`), `ClosedByOne`,
`CoherentCache` (`CacheIsCoherent`) and `OncePerKey` (`RunsOnce`). None is
inductive alone: a waiter is served because the entry it found in the index was
done or had a request that will close it. `ServedInv` says that of every indexed
entry (`Indexed`), with what each request holds on its way through `Do` (`Holds`)
and that an entry has one such owner (`OneOwner`). `ListInv` adds that the list of
recently used entries and the index hold the same entries, `OnceInv` that a run,
or a valid success, of a key that is not excused is the one in the index.

**Sign-in** (`QRProofs`, `LoginProofs`): for any numbers of goroutines,
challenges, codes, clients, sessions and restarts: `UsedOnce` (`SingleUse`),
`TokensStayBound` (`TokensAreBound`) and `VerifiedIsKept` (`VerifiedStands`). The
invariant is about who holds the right to an outcome: a consumed challenge is with
one request, then with one code, then with one grant (`Claims`), a code stands for
the authorization it was issued for (`CodesStand`), and a consumed session is with
the one request that may complete it, until the deadline after which copies read
earlier may be written back (`Copies`, `Completion`, `Refusals`).

The assumptions are the named ASSUMEs of the modules: sizes are natural numbers,
the "absent" values are not elements of the sets they stand beside.

**Only model-checked**: liveness and the one property with ENABLED (outside this
prover's reach), `NoOrphan`, `SubmitIsAtomic` and `EndIsAnnounced` of `Jobs`, and
the other components.

## 5. Where code and comments part, or a property has an exception

Properties are stated for what the code does. Where that is less than a reader
may expect, the property names the exception:

- *Jobs.* A batch job cut short by a shutdown is recorded as succeeded with
  skipped items. An outcome the store refuses is announced all the same, and the
  record stays running until a restart. The gRPC submit carries no idempotency
  key. The view that comes with REST's 409 may already be of an ended job, and a
  second read that fails for any reason is answered 404.
- *Supervisor.* `CallTimeout` "bounds one operation" (client.go:50), but the
  request is written before the timer starts (client.go:526): one that the pipe
  does not hold waits for a child that does not read, without a bound, with its
  slot, and Close waits for that slot.
- *Idempotency.* Eviction drops running entries, and the REST wrapper runs the
  handler itself when its wait is cut short: both allow a second run.
- *CRL.* A spooled body may be replaced between the copy of its metadata and its
  reading, so a delta may come with a base it does not fit (crl.go:21-25). A warm
  start evicts nothing: until the first store the spool may exceed the bound
  (crl.go:13).
- *Verification.* VerifyAt takes a status nobody determined for good, where
  historical.go:199-203 leaves an inconclusive check indeterminate. Discovered
  issuers count as anchors on the retry, against chain.go:20-21. A cached AIA miss
  stays for the life of the process and may replace a hit. A trust refresh with
  some sources failing shrinks the set.
- *Sign-in.* After its deadline a verified relay session may be overwritten by a
  status request that read it earlier. POST /oidc/authorize with an expired
  challenge answers 500.
- *Multisign.* Overlapping submissions lose a co-signer; the first fit may leave
  a requirement unmet that another assignment meets. The container a round is
  opened with is recorded without a look at who signed it twice
  (multisign.go:259-261), so one person with two certificates may meet two
  requirements.
- *Audit.* The adapter calls a dropped entry "visible as a gap"
  (adapter.go:13-14), but it takes no number, so it leaves none. A last line cut
  just before its newline is taken for a whole one, and the next entry is lost by
  being written onto it; after a failed fsync the next entry continues from the
  one before.
- *Pool, binding.* A call without a TSA URL uses the one set before, not the
  default (provider/types.go:77), and earlier callers' anchors stay in the store.
  Verify and validate use buffers that never grow, and recovered content of
  exactly 2^20 bytes is dropped from a valid answer (instance.go:270). An exported
  certificate is cut at its first zero byte (instance.go:141), which only DER has
  (pool.go:377-379). SignXML and SignWSSE do not check the shape of their output.
  The key store, the anchors, the signers' certificates and the signing time are
  asked of the library without looking at the capability table (shim.c:174-265).
- *Signing.* An inline key written to disk survives a crash of the process.
- *Certificate watch.* A notice the webhook took while its answer was lost is
  posted again, although the webhook is said to fire on a change of situation
  (watch.go:95-96).
- *Errors.* An error of the library while the signature of a timestamp is checked
  is reported as a signature that does not verify (timestamp.go:151-154).
- *Consumers.* When the broker closes the channel, AMQP's Run returns nil, so the
  service goes on without its consumer. NATS may start callbacks after Run waited.
- *Life cycle.* The watcher's sweep and the reapers are not waited for; a REST
  request may outlive the shutdown deadline; a failed listen closes the driver
  under the workers; gRPC's graceful stop and the waits for consumers and job
  workers have no deadline, so the stop ends only when their work does.
- *Configuration.* Validate does not read the OIDC client list; `"hard "` (with a
  space) is accepted and served as soft, against config.go:413; a malformed number
  or flag in the environment is zero or false; `receipts.signed-qr` without a
  setting that loads the service key mounts nothing (main.go:334, 672). All
  problems of the settings as they are come in one round, but a correction may
  call for another setting.
- *Front ends.* The command line's gate ignores verify-at and passes an empty
  batch. With verify-chain a valid signature whose chain does not verify counts as
  invalid in a register, where registry.go:19-21 calls an unverifiable chain
  indeterminate. A malformed item of a gRPC batch fails alone, where
  JSON refuses the request. An unfinished job is "unavailable" on a queue,
  FailedPrecondition on gRPC and 409 on REST.
- *Service key.* The key file is not written atomically. A lifetime of a signed
  document that overflows a duration wraps; the expiry is cut to its second
  (signedqr.go:124), so a document is refused up to a second before the end its
  issuer was told. UserInfo takes whatever the key has signed (oidc.go:269-272).
- *Containers.* Two signers with one serial number are reported as one.

## 6. Not modelled

- Generated API code (`*.pb.go`), developer tools, the console, portal and sandbox
  pages: no behaviour of the service depends on a state they keep.
- Certificate and property parsing, OID tables, ASN.1 walking: stateless reading
  of bytes; their results are inputs of the models. What they compute for every
  input is outside the reach of bounded data.
- Metrics, logging, wording and languages, response messages copied field by
  field, drawing of QR codes, discovery documents and JWKS: formatting.
- Configuration settings that are a single assignment; flag words and the proxy
  setting passed to the library as constants.
- The native library and the brokers themselves: environments that may answer,
  fail, hang, die or redeliver, as the code has to expect.
- The delivery of a job's webhook after the call is made.

## 7. Running

    tlc -workers 2 -config jobs.cfg MCJobs
    tlc -workers 2 -config services.cfg MCServices
    tlc -workers 2 -config status_hit.cfg Revocation
    tlapm JobsProofs.tla
    tlapm IdempotencyProofs.tla
