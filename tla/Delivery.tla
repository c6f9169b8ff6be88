------------------------------ MODULE Delivery ------------------------------
(***************************************************************************)
(* The queue consumers (internal/transport/kafka, amqp, nats) over the     *)
(* message processor (internal/transport/mq): messages are taken from the  *)
(* broker, at most as many at a time as there are slots, run through the   *)
(* idempotency cache, answered, and only then acknowledged.  Publishing a  *)
(* reply and acknowledging can fail, connections drop, the process stops   *)
(* in order or crashes and starts again with an empty cache.               *)
(*                                                                         *)
(* The cache is taken at its contract, which Idempotency.tla checks: one   *)
(* run per key at a time, a success is kept until it expires.  Every       *)
(* message carries its own key and wants a reply.  Which broker it is, is  *)
(* a choice of the initial state.                                          *)
(***************************************************************************)
EXTENDS Integers, Sequences, FiniteSets, FiniteSetsExt

CONSTANTS
    NumMsgs,    \* messages, 1 .. NumMsgs in the order of the log
    Slots,      \* the semaphore's capacity, as a set of worker slots
    MaxPoll,    \* records a Kafka poll brings at most
    MaxFaults,  \* bound on failed publishes, acks and commits
    MaxStarts   \* bound on the times the process is started

VARIABLES
    broker,     \* "kafka", "amqp", "nats"
    app,        \* the consumer: "up", "draining" (told to stop), "closed" (its
                \* channel is), "returned" (Run came back)
    at,         \* message -> at the broker: "queued", "out", "settled"; Kafka's
                \* records are "taken" and "answered" in between
    slot,       \* slot -> [pc, m]
    done,       \* messages with a success in the cache
    pos,        \* Kafka: the client's position
    poll,       \* Kafka: the records of the current poll
    clean,      \* Kafka: none of them failed so far
    faults, starts,
    \* history
    ran,        \* message -> successful runs, counted to 2
    lost,       \* messages whose cached success is gone (expired, crashed)
    replied,    \* messages a reply was published for
    skipped      \* Kafka: records of polls left uncommitted by this process

delivVars == <<broker, app, at, slot, done, pos, poll, clean, faults, starts,
               ran, lost, replied, skipped>>

Msgs == 1 .. NumMsgs
FreeSlot == [pc |-> "free", m |-> 0]
Busy == {w \in Slots: slot[w].pc # "free"}
DelivInit ==
    /\ broker \in {"kafka", "amqp", "nats"}
    /\ app = "up"
    /\ at = [m \in Msgs |-> "queued"]
    /\ slot = [w \in Slots |-> FreeSlot]
    /\ done = {} /\ pos = 1 /\ poll = {} /\ clean = TRUE
    /\ faults = 0 /\ starts = 1
    /\ ran = [m \in Msgs |-> 0]
    /\ lost = {} /\ replied = {} /\ skipped = {}

kafkaVars == <<pos, poll, clean, skipped>>
history == <<ran, lost, replied>>

Connected == app \in {"up", "draining"}
Fault == faults < MaxFaults /\ faults' = faults + 1

---------------------------------------------------------------------------
(***************************************************************************)
(* Taking messages.                                                        *)
(***************************************************************************)

\* kafka Run: a poll brings the records from the client's position on, and
\* the position moves past them whatever becomes of them.
PollFetches ==
    /\ broker = "kafka" /\ app = "up" /\ poll = {}
    /\ \E n \in 1 .. MaxPoll:
          /\ pos + n - 1 <= NumMsgs
          /\ poll' = pos .. (pos + n - 1)
          /\ pos' = pos + n
          /\ at' = [m \in Msgs |-> IF m \in poll' THEN "out" ELSE at[m]]
    /\ clean' = TRUE
    /\ UNCHANGED <<broker, app, slot, done, faults, starts, history, skipped>>

\* A slot for a message: of the poll (kafka handleBatch), or of the queue
\* (amqp Run, nats handler), where it becomes outstanding.  NATS callbacks
\* that are already queued still start while the subscription drains.
Take(w, m) ==
    /\ slot[w] = FreeSlot
    /\ \/ broker = "kafka" /\ m \in poll /\ at[m] = "out" /\ app \in {"up", "draining"}
       \/ broker = "amqp" /\ at[m] = "queued" /\ app = "up"
       \/ broker = "nats" /\ at[m] = "queued" /\ app \in {"up", "draining", "returned"}
    /\ at' = [at EXCEPT ![m] = IF broker = "kafka" THEN "taken" ELSE "out"]
    /\ slot' = [slot EXCEPT ![w] = [pc |-> "run", m |-> m]]
    /\ UNCHANGED <<broker, app, done, kafkaVars, faults, starts, history>>

---------------------------------------------------------------------------
(***************************************************************************)
(* mq.Processor.Process: the cached success, or a run, then the reply.     *)
(***************************************************************************)

\* The operation succeeds and is cached, or fails and is not; a second
\* delivery of the message that is already running waits for it.
Process(w) ==
    /\ slot[w].pc = "run"
    /\ slot' = [slot EXCEPT ![w].pc = "reply"]
    /\ LET m == slot[w].m
       IN  \/ m \in done /\ UNCHANGED <<done, ran>>
           \/ m \notin done /\ done' = done \cup {m}
                /\ ran' = [ran EXCEPT ![m] = IF @ = 0 THEN 1 ELSE 2]
           \/ m \notin done /\ UNCHANGED <<done, ran>>
    /\ UNCHANGED <<broker, app, at, kafkaVars, faults, starts, lost, replied>>

\* The reply is published, or that fails; without a connection it fails.
Publish(w) ==
    /\ slot[w].pc = "reply" /\ Connected
    /\ slot' = [slot EXCEPT ![w].pc = "replied"]
    /\ replied' = replied \cup {slot[w].m}
    /\ UNCHANGED <<broker, app, at, done, kafkaVars, faults, starts, ran, lost>>

PublishFails(w) ==
    /\ slot[w].pc = "reply"
    /\ IF Connected THEN Fault ELSE UNCHANGED faults
    /\ slot' = [slot EXCEPT ![w].pc = "unreplied"]
    /\ UNCHANGED <<broker, app, at, done, kafkaVars, starts, history>>

---------------------------------------------------------------------------
(***************************************************************************)
(* Settling: kafka handleBatch and Run's commit, amqp and nats handle.     *)
(***************************************************************************)

\* A failed reply acknowledged like a published one.
SettleRegardless(w) ==
    LET m == slot[w].m
    IN  /\ slot[w].pc = "unreplied" \/ (slot[w].pc = "replied" /\ Connected)
        /\ slot' = [slot EXCEPT ![w] = FreeSlot]
        /\ IF broker = "kafka"
           THEN /\ clean' = (clean /\ slot[w].pc = "replied")
                /\ at' = [at EXCEPT ![m] = "answered"]
           ELSE /\ at' = [at EXCEPT ![m] = "settled"]
                /\ UNCHANGED clean
        /\ UNCHANGED <<broker, app, done, pos, poll, skipped, faults, starts, history>>

\* AMQP forgets to put a message back.
SettleWithoutNack(w) ==
    LET m == slot[w].m
    IN  /\ slot[w].pc = "unreplied" \/ (slot[w].pc = "replied" /\ Connected)
        /\ slot' = [slot EXCEPT ![w] = FreeSlot]
        /\ IF broker = "kafka"
           THEN /\ clean' = (clean /\ slot[w].pc = "replied")
                /\ at' = [at EXCEPT ![m] = "answered"]
           ELSE /\ at' = [at EXCEPT ![m] = IF slot[w].pc = "replied" THEN "settled" ELSE @]
                /\ UNCHANGED clean
        /\ UNCHANGED <<broker, app, done, pos, poll, skipped, faults, starts, history>>

\* Kafka only notes the outcome.  AMQP acks, or puts the message back; NATS
\* acks, or leaves the message to be delivered again.
Settle(w) ==
    LET m == slot[w].m
    IN  /\ slot[w].pc = "unreplied" \/ (slot[w].pc = "replied" /\ Connected)
        /\ slot' = [slot EXCEPT ![w] = FreeSlot]
        /\ IF broker = "kafka"
           THEN /\ clean' = (clean /\ slot[w].pc = "replied")
                /\ at' = [at EXCEPT ![m] = "answered"]
           ELSE /\ at' = [at EXCEPT ![m] =
                            IF slot[w].pc = "replied" THEN "settled"
                            ELSE IF broker = "amqp" /\ @ = "out" THEN "queued" ELSE @]
                /\ UNCHANGED clean
        /\ UNCHANGED <<broker, app, done, pos, poll, skipped, faults, starts, history>>

\* The ack does not reach the broker; AMQP loses one only with its channel.
AckLost(w) ==
    /\ broker # "kafka" /\ slot[w].pc = "replied"
    /\ IF Connected THEN broker = "nats" /\ Fault ELSE UNCHANGED faults
    /\ slot' = [slot EXCEPT ![w] = FreeSlot]
    /\ UNCHANGED <<broker, app, at, done, kafkaVars, starts, history>>

\* The end of a poll: a clean one commits the position past it - and past
\* everything before it - a failed one commits nothing.
PollEnds ==
    /\ broker = "kafka" /\ poll # {} /\ \A m \in poll: at[m] = "answered"
    /\ poll' = {}
    /\ \/ /\ clean
          /\ at' = [m \in Msgs |-> IF m < pos THEN "settled" ELSE at[m]]
          /\ UNCHANGED <<faults, skipped>>
       \/ /\ ~clean
          /\ skipped' = skipped \cup poll
          /\ UNCHANGED <<at, faults>>
       \/ /\ clean /\ Fault
          /\ skipped' = skipped \cup poll
          /\ UNCHANGED at
    /\ UNCHANGED <<broker, app, slot, done, pos, clean, starts, history>>

---------------------------------------------------------------------------
(***************************************************************************)
(* The broker and the process.                                             *)
(***************************************************************************)

\* NATS delivers an unacknowledged message again after its AckWait, also
\* while the first delivery is still being worked on.
Redeliver(m) ==
    /\ broker = "nats" /\ at[m] = "out"
    /\ at' = [at EXCEPT ![m] = "queued"]
    /\ UNCHANGED <<broker, app, slot, done, kafkaVars, faults, starts, history>>

\* A cached success expires.
Expires(m) ==
    /\ m \in done
    /\ done' = done \ {m} /\ lost' = lost \cup {m}
    /\ UNCHANGED <<broker, app, at, slot, kafkaVars, faults, starts, ran, replied>>

\* Shutdown begins: nothing more is accepted.
Drain ==
    /\ app = "up" /\ starts < MaxStarts /\ app' = "draining"
    /\ UNCHANGED <<broker, at, slot, done, kafkaVars, faults, starts, history>>

\* Run waits for what is in flight: its deliveries, or the poll it is in.
RunReturns ==
    /\ app \in {"draining", "closed"} /\ Busy = {} /\ poll = {}
    /\ app' = "returned"
    /\ UNCHANGED <<broker, at, slot, done, kafkaVars, faults, starts, history>>

\* AMQP: the broker closes the channel; what is outstanding goes back to
\* the queue, and Run returns once the workers are through.
ChannelCloses ==
    /\ broker = "amqp" /\ app = "up" /\ Fault
    /\ app' = "closed"
    /\ at' = [m \in Msgs |-> IF at[m] = "out" THEN "queued" ELSE at[m]]
    /\ UNCHANGED <<broker, slot, done, kafkaVars, starts, history>>

\* The process is gone, in order or by a crash, and starts again: the cache
\* is empty, the broker delivers everything that was not settled, Kafka
\* from the committed position.
Restart ==
    /\ starts < MaxStarts /\ starts' = starts + 1
    /\ app' = "up"
    /\ slot' = [w \in Slots |-> FreeSlot]
    /\ done' = {} /\ lost' = lost \cup done
    /\ at' = [m \in Msgs |-> IF at[m] = "settled" THEN "settled" ELSE "queued"]
    /\ pos' = 1 + Cardinality({m \in Msgs: at[m] = "settled"})
    /\ poll' = {} /\ clean' = TRUE /\ skipped' = {m \in skipped: at[m] = "settled"}
    /\ UNCHANGED <<broker, faults, ran, replied>>

\* What a goroutine does next when nothing goes wrong, and when it has no
\* connection left.
WorkerStep(w) == \/ Process(w) \/ Publish(w) \/ Settle(w)
                 \/ ~Connected /\ (PublishFails(w) \/ AckLost(w))

DelivNext ==
    \/ PollFetches \/ PollEnds \/ Drain \/ RunReturns \/ ChannelCloses \/ Restart
    \/ \E m \in Msgs: Redeliver(m) \/ Expires(m) \/ \E w \in Slots: Take(w, m)
    \/ \E w \in Slots: WorkerStep(w) \/ PublishFails(w) \/ AckLost(w)

\* Goroutines run on, the broker delivers what it has.
DelivFair ==
    /\ WF_delivVars(PollFetches) /\ WF_delivVars(PollEnds)
    /\ \A w \in Slots: WF_delivVars(WorkerStep(w))
    /\ \A m \in Msgs: /\ WF_delivVars(Redeliver(m))
                      /\ SF_delivVars(\E w \in Slots: Take(w, m))

DelivSpec == DelivInit /\ [][DelivNext]_delivVars

---------------------------------------------------------------------------
(***************************************************************************)
(* Properties.                                                             *)
(***************************************************************************)

\* The delivery contract (kafka.go, amqp.go, nats.go: acked or committed
\* only after the reply is published): what the broker has forgotten was
\* answered, whatever failed, dropped or crashed in between.
NothingIsSkipped == \A m \in Msgs: at[m] = "settled" => m \in replied

\* It holds for AMQP and NATS.  On Kafka the exception is a record of a poll
\* left uncommitted: the client's position is past it, so the commit of the
\* next clean poll covers it unanswered (kafka.go, Run and handleBatch).
SettledMeansReplied ==
    \A m \in Msgs: at[m] = "settled" => m \in replied \/ (broker = "kafka" /\ m \in skipped)

\* A message delivered again - requeued, timed out while it was worked on,
\* or unacknowledged at a restart - is run once for as long as the cache
\* holds its success (mq.go, Process): the reply is repeated, the operation
\* is not.
OnceAcrossRedelivery == \A m \in Msgs \ lost: ran[m] <= 1

\* Run does not come back over work in flight (kafka.go handleBatch, amqp.go
\* Run: wg.Wait): what was accepted is answered and settled before the
\* connection is closed.  NATS is left out: callbacks its Drain still holds
\* may start after Run has waited.
DrainsBeforeReturn ==
    app = "returned" /\ broker # "nats" => Busy = {} /\ poll = {}

\* Every message is settled in the end, as long as the consumer stays
\* (nats.go, amqp.go, kafka.go): failed replies and lost acks only delay
\* it.  The ways out are a consumer that has returned or is returning, and
\* on Kafka a poll left uncommitted.
EveryMessageSettles ==
    \A m \in Msgs: at[m] = "queued" ~> (at[m] = "settled" \/ app # "up" \/ m \in skipped)

\* A broker's message is settled after its answer, run once and not left
\* behind by a Run that returns (kafka.go, amqp.go, nats.go, mq.go), over
\* failed replies, lost acks, redelivery and restarts.
SettledIsAnswered ==
    /\ SettledMeansReplied
    /\ OnceAcrossRedelivery
    /\ DrainsBeforeReturn
============================================================================
