----------------------------- MODULE Supervisor -----------------------------
(***************************************************************************)
(* The crypto-worker supervisor of internal/cryptoworker/client.go: a      *)
(* fixed set of slots, each with at most one child process that hosts the  *)
(* native library; calls that borrow a slot; a warmer that keeps pre-      *)
(* started children; and Close.                                            *)
(*                                                                         *)
(* A child may die or hang at any time.  Each of its two pipes holds at   *)
(* most one frame.  Init is the state that Start returns.                  *)
(***************************************************************************)
EXTENDS Integers, Sequences, Functions, FiniteSets

CONSTANTS Callers,            \* goroutines that call port operations
          Slots,              \* Config.size() slots
          Children,           \* process identities; reused once reaped
          Standby,            \* Config.standby()
          MaxOps,             \* Config.maxOps(), a positive budget
          RssCheckEvery,      \* rssCheckEvery
          KeepAfterRevoked,   \* Config.KeepAfterRevoked
          BigPayload,         \* requests are larger than the pipe's buffer
          MayClose,           \* whether Close is called
          None

ASSUME SupervisorAssumption ==
  /\ IsFiniteSet(Slots) /\ Slots # {} /\ IsFiniteSet(Children)
  /\ Standby \in Nat /\ MaxOps \in Nat \ {0} /\ RssCheckEvery \in Nat \ {0}
  /\ {KeepAfterRevoked, BigPayload, MayClose} \subseteq BOOLEAN
  /\ Cardinality(Children) > Cardinality(Slots) + Standby
  /\ None \notin Callers \cup Slots \cup Children
  /\ None \notin [to : Callers, revoked : BOOLEAN]

VARIABLES
  free,           \* the channel of idle slots, first in first out
  proc, ops,      \* slot.proc and slot.ops
  child,          \* every process: its state and what is in its pipes
  standby,        \* the channel of pre-warmed children
  warmRequest,    \* the one-place channel that wakes the warmer
  stop, closed,   \* the stop channel is closed; the closed flag
  wpc, wchild,    \* the warmer, and the child it has started
  kpc, drained,   \* the goroutine in Close, and how many slots it has taken
  pc, slot, attempt, retryable, ctx, answer   \* the calls

pool  == <<free, proc, ops, child>>
spare == <<standby, warmRequest>>
ends  == <<stop, closed, kpc, drained>>
warm  == <<wpc, wchild>>
calls == <<pc, slot, attempt, retryable, ctx, answer>>
vars  == <<pool, spare, ends, warm, calls>>

(* in: the request the child has not answered; out: the answer not yet read.  *)
NoChild == [st |-> "none", tainted |-> FALSE, in |-> None, out |-> None]
Fresh   == [st |-> "alive", tainted |-> FALSE, in |-> None, out |-> None]

(* Start: the first slot has served the capabilities call and gone to the    *)
(* end of the queue; the others have no child yet.                           *)
Init ==
  \E order \in Bijection(1 .. Cardinality(Slots), Slots) :
    LET k     == CHOOSE x \in Children : TRUE
        first == Head(order)
        keep  == MaxOps > 1
    IN  /\ free = Tail(order) \o <<first>>
        /\ proc = [s \in Slots |-> IF s = first /\ keep THEN k ELSE None]
        /\ ops = [s \in Slots |-> IF s = first /\ keep THEN 1 ELSE 0]
        /\ child = [x \in Children |-> IF x = k /\ keep THEN Fresh ELSE NoChild]
        /\ standby = << >> /\ warmRequest = (Standby > 0)
        /\ stop = FALSE /\ closed = FALSE /\ kpc = "open" /\ drained = 0
        /\ wpc = (IF Standby > 0 THEN "select" ELSE "exited") /\ wchild = None
        /\ pc = [c \in Callers |-> "idle"]
        /\ slot = [c \in Callers |-> None]
        /\ attempt = [c \in Callers |-> 0]
        /\ retryable = [c \in Callers |-> FALSE]
        /\ ctx = [c \in Callers |-> "live"]
        /\ answer = [c \in Callers |-> None]

(* retire: the child is killed and reaped, and the warmer is woken.          *)
retire(s) ==
  /\ child' = [x \in Children |-> IF x = proc[s] THEN NoChild ELSE child[x]]
  /\ proc' = [proc EXCEPT ![s] = None]
  /\ ops' = [ops EXCEPT ![s] = 0]
  /\ warmRequest' = (warmRequest \/ Standby > 0)

(* A new process gets an identity nobody has: which one makes no difference. *)
spawn(k) == /\ child[k] = NoChild /\ k = CHOOSE x \in Children : child[x] = NoChild
            /\ child' = [child EXCEPT ![k] = Fresh]

(* Whether the child that answered its o-th call is retired: what memory it  *)
(* holds when that is looked at is up to the library.                        *)
recycleReason(o, revoked) ==
  IF (revoked /\ ~KeepAfterRevoked) \/ o >= MaxOps THEN {TRUE}
  ELSE IF o % RssCheckEvery = 0 THEN BOOLEAN
  ELSE {FALSE}

-----------------------------------------------------------------------------
(* Calls *)

Call(c) ==
  /\ pc[c] = "idle"
  /\ pc' = [pc EXCEPT ![c] = "check"]
  /\ UNCHANGED <<pool, spare, ends, warm, slot, attempt, retryable, ctx, answer>>

(* call returns to its caller: the call's own state is gone.                 *)
Over(c) == /\ pc' = [pc EXCEPT ![c] = "idle"]
           /\ attempt' = [attempt EXCEPT ![c] = 0]
           /\ ctx' = [ctx EXCEPT ![c] = "live"]
           /\ answer' = [answer EXCEPT ![c] = None]

(* The caller's context ends. *)
CancelCall(c) ==
  /\ pc[c] # "idle" /\ ctx[c] = "live"
  /\ ctx' = [ctx EXCEPT ![c] = "done"]
  /\ UNCHANGED <<pool, spare, ends, warm, pc, slot, attempt, retryable, answer>>

(* acquire: the closed flag, read under the mutex that is then released.     *)
CheckClosed(c) ==
  /\ pc[c] = "check"
  /\ IF closed THEN Over(c)
     ELSE pc' = [pc EXCEPT ![c] = "acquire"] /\ UNCHANGED <<attempt, ctx, answer>>
  /\ UNCHANGED <<pool, spare, ends, warm, slot, retryable>>

(* acquire: the select between a free slot and the end of the context; a     *)
(* slot that has a child needs no other.                                     *)
Acquire(c) ==
  /\ pc[c] = "acquire" /\ free # << >>
  /\ slot' = [slot EXCEPT ![c] = Head(free)]
  /\ free' = Tail(free)
  /\ pc' = [pc EXCEPT ![c] = IF proc[Head(free)] = None THEN "have" ELSE "send"]
  /\ UNCHANGED <<proc, ops, child, spare, ends, warm, attempt, retryable, ctx,
                 answer>>

GiveUp(c) ==
  /\ pc[c] = "acquire" /\ ctx[c] = "done"
  /\ Over(c)
  /\ UNCHANGED <<pool, spare, ends, warm, slot, retryable>>

takeStandby(c) ==
  /\ pc[c] = "have" /\ standby # << >>
  /\ proc' = [proc EXCEPT ![slot[c]] = Head(standby)]
  /\ ops' = [ops EXCEPT ![slot[c]] = 0]
  /\ standby' = Tail(standby)
  /\ warmRequest' = TRUE
  /\ pc' = [pc EXCEPT ![c] = "send"]
  /\ UNCHANGED <<free, child, ends, warm, slot, attempt, retryable, ctx, answer>>

ColdStart(c) ==
  /\ pc[c] = "have" /\ standby = << >>
  /\ \E k \in Children : spawn(k) /\ proc' = [proc EXCEPT ![slot[c]] = k]
  /\ ops' = [ops EXCEPT ![slot[c]] = 0]
  /\ pc' = [pc EXCEPT ![c] = "send"]
  /\ UNCHANGED <<free, spare, ends, warm, slot, attempt, retryable, ctx, answer>>

ColdStartFails(c) ==
  /\ pc[c] = "have" /\ standby = << >>
  /\ retryable' = [retryable EXCEPT ![c] = FALSE]
  /\ pc' = [pc EXCEPT ![c] = "return"]
  /\ UNCHANGED <<pool, spare, ends, warm, slot, attempt, ctx, answer>>

(* writeFrame: a frame the pipe cannot hold waits for the child to read it,  *)
(* with neither the timer nor the context to end the wait.                   *)
Send(c) ==
  /\ pc[c] = "send"
  /\ child[proc[slot[c]]].st \in IF BigPayload THEN {"alive"} ELSE {"alive", "hung"}
  /\ child' = [child EXCEPT ![proc[slot[c]]].in = c]
  /\ pc' = [pc EXCEPT ![c] = "wait"]
  /\ UNCHANGED <<free, proc, ops, spare, ends, warm, slot, attempt, retryable,
                 ctx, answer>>

(* The last part of callOnce for an error: the child is retired whatever the *)
(* error was.                                                                *)
Abandon(c, again) ==
  /\ retire(slot[c])
  /\ retryable' = [retryable EXCEPT ![c] = again]
  /\ pc' = [pc EXCEPT ![c] = "return"]
  /\ UNCHANGED <<free, standby, ends, warm, slot, attempt, ctx, answer>>

(* The pipe breaks: the child died and left no answer.  A context that ended *)
(* meanwhile rules the retry out.                                            *)
Lost(c) ==
  /\ pc[c] \in {"send", "wait"}
  /\ child[proc[slot[c]]].st = "dead" /\ child[proc[slot[c]]].out = None
  /\ Abandon(c, ctx[c] = "live")

TimeoutKeepsChild(c) ==
  /\ pc[c] = "wait"
  /\ retryable' = [retryable EXCEPT ![c] = FALSE]
  /\ pc' = [pc EXCEPT ![c] = "return"]
  /\ UNCHANGED <<pool, spare, ends, warm, slot, attempt, ctx, answer>>

TimeoutAfterAnswer(c) ==
  pc[c] = "wait" /\ child[proc[slot[c]]].out # None /\ Abandon(c, FALSE)

(* The timer of process.call, which may fire when the answer is there too.   *)
Timeout(c) == pc[c] = "wait" /\ Abandon(c, FALSE)

CtxEnds(c) == pc[c] = "wait" /\ ctx[c] = "done" /\ Abandon(c, FALSE)

(* The answer is read, counted and decoded; the child is kept or recycled.   *)
Receive(c) ==
  LET s == slot[c]
      k == proc[s]
  IN  /\ pc[c] = "wait" /\ child[k].out # None
      /\ answer' = [answer EXCEPT ![c] = child[k].out.to]
      /\ \E recycle \in recycleReason(ops[s] + 1, child[k].out.revoked) :
           IF recycle
             THEN retire(s)
             ELSE /\ ops' = [ops EXCEPT ![s] = @ + 1]
                  /\ child' = [child EXCEPT ![k].out = None]
                  /\ UNCHANGED <<proc, warmRequest>>
      /\ retryable' = [retryable EXCEPT ![c] = FALSE]
      /\ pc' = [pc EXCEPT ![c] = "return"]
      /\ UNCHANGED <<free, standby, ends, warm, slot, attempt, ctx>>

(* An answer that does not decode: the child goes, the call fails.           *)
Garbled(c) ==
  /\ pc[c] = "wait" /\ child[proc[slot[c]]].out # None
  /\ Abandon(c, FALSE)

ReturnSlotOnce(c) ==
  /\ pc[c] = "return"
  /\ free' = IF retryable[c] THEN free ELSE Append(free, slot[c])
  /\ slot' = [slot EXCEPT ![c] = None]
  /\ IF retryable[c] /\ attempt[c] = 0
       THEN /\ pc' = [pc EXCEPT ![c] = "check"]
            /\ attempt' = [attempt EXCEPT ![c] = 1]
            /\ UNCHANGED <<ctx, answer>>
       ELSE Over(c)
  /\ retryable' = [retryable EXCEPT ![c] = FALSE]
  /\ UNCHANGED <<proc, ops, child, spare, ends, warm>>

(* The deferred return of the slot, and the loop of call: one more attempt.  *)
ReturnSlot(c) ==
  /\ pc[c] = "return"
  /\ free' = Append(free, slot[c])
  /\ slot' = [slot EXCEPT ![c] = None]
  /\ IF retryable[c] /\ attempt[c] = 0
       THEN /\ pc' = [pc EXCEPT ![c] = "check"]
            /\ attempt' = [attempt EXCEPT ![c] = 1]
            /\ UNCHANGED <<ctx, answer>>
       ELSE Over(c)
  /\ retryable' = [retryable EXCEPT ![c] = FALSE]
  /\ UNCHANGED <<proc, ops, child, spare, ends, warm>>

-----------------------------------------------------------------------------
(* Children: Serve answers one request at a time, with or without a revoked  *)
(* verdict; the library may abort the process, or never return.              *)

Answer(k) ==
  /\ child[k].st = "alive" /\ child[k].in # None /\ child[k].out = None
  /\ \E revoked \in BOOLEAN :
       child' = [child EXCEPT ![k].in = None,
                              ![k].out = [to |-> child[k].in, revoked |-> revoked],
                              ![k].tainted = @ \/ revoked]
  /\ UNCHANGED <<free, proc, ops, spare, ends, warm, calls>>

(* A child that hangs differs from one that is slow to answer only for the   *)
(* sender of a frame the pipe cannot hold, so before it has read a request.  *)
Fail(k) ==
  /\ \/ /\ BigPayload /\ child[k].st = "alive" /\ child[k].in = None
        /\ child' = [child EXCEPT ![k].st = "hung"]
     \/ /\ child[k].st \in {"alive", "hung"}
        /\ child' = [child EXCEPT ![k].st = "dead"]
  /\ UNCHANGED <<free, proc, ops, spare, ends, warm, calls>>

-----------------------------------------------------------------------------
(* The warmer: warmLoop *)

WarmWake ==
  /\ wpc = "select" /\ warmRequest
  /\ warmRequest' = FALSE /\ wpc' = "fill"
  /\ UNCHANGED <<pool, standby, ends, wchild, calls>>

(* The stop channel is closed: seen in the outer select and in the sleep.    *)
WarmStop ==
  /\ wpc \in {"select", "sleep"} /\ stop
  /\ wpc' = "exited"
  /\ UNCHANGED <<pool, spare, ends, wchild, calls>>

WarmFull ==
  /\ wpc = "fill" /\ Len(standby) >= Standby
  /\ wpc' = "select"
  /\ UNCHANGED <<pool, spare, ends, wchild, calls>>

WarmSpawn ==
  /\ wpc = "fill" /\ Len(standby) < Standby
  /\ \E k \in Children : spawn(k) /\ wchild' = k
  /\ wpc' = "put"
  /\ UNCHANGED <<free, proc, ops, spare, ends, calls>>

WarmSpawnFails ==
  /\ wpc = "fill" /\ Len(standby) < Standby
  /\ wpc' = "sleep"
  /\ UNCHANGED <<pool, spare, ends, wchild, calls>>

(* The delay is over; break leaves the loop that fills.                      *)
WarmWoken ==
  /\ wpc = "sleep"
  /\ wpc' = "select"
  /\ UNCHANGED <<pool, spare, ends, wchild, calls>>

WarmPut ==
  /\ wpc = "put" /\ Len(standby) < Standby
  /\ standby' = Append(standby, wchild)
  /\ wchild' = None /\ wpc' = "fill"
  /\ UNCHANGED <<pool, warmRequest, ends, calls>>

WarmDropLeaks ==
  /\ wpc = "put" /\ stop
  /\ wchild' = None /\ wpc' = "exited"
  /\ UNCHANGED <<pool, spare, ends, calls>>

(* Close came first: the child just started is killed.                       *)
WarmDrop ==
  /\ wpc = "put" /\ stop
  /\ child' = [child EXCEPT ![wchild] = NoChild]
  /\ wchild' = None /\ wpc' = "exited"
  /\ UNCHANGED <<free, proc, ops, spare, ends, calls>>

Warmer == \/ WarmWake \/ WarmStop \/ WarmFull \/ WarmSpawn \/ WarmSpawnFails
          \/ WarmWoken \/ WarmPut \/ WarmDrop

-----------------------------------------------------------------------------
(* Close; a second Close returns at once.                                    *)

CloseBegin ==
  /\ MayClose /\ kpc = "open"
  /\ closed' = TRUE /\ kpc' = "closed"
  /\ UNCHANGED <<pool, spare, stop, drained, warm, calls>>

CloseStop ==
  /\ kpc = "closed"
  /\ stop' = TRUE /\ kpc' = "stopped"
  /\ UNCHANGED <<pool, spare, closed, drained, warm, calls>>

(* warmerDone.Wait() *)
CloseWait ==
  /\ kpc = "stopped" /\ wpc = "exited"
  /\ kpc' = "drain"
  /\ UNCHANGED <<pool, spare, stop, closed, drained, warm, calls>>

(* One round of the first loop of Close. *)
CloseSlot ==
  /\ kpc = "drain" /\ drained < Cardinality(Slots) /\ free # << >>
  /\ retire(Head(free))
  /\ free' = Tail(free)
  /\ drained' = drained + 1
  /\ UNCHANGED <<standby, stop, closed, kpc, warm, calls>>

(* One round of the second loop, which ends when no spare is left.           *)
CloseStandby ==
  /\ kpc = "drain" /\ drained = Cardinality(Slots)
  /\ IF standby = << >>
       THEN kpc' = "done" /\ UNCHANGED <<child, standby>>
       ELSE /\ child' = [child EXCEPT ![Head(standby)] = NoChild]
            /\ standby' = Tail(standby) /\ UNCHANGED kpc
  /\ UNCHANGED <<free, proc, ops, warmRequest, stop, closed, drained, warm, calls>>

Closer == CloseStop \/ CloseWait \/ CloseSlot \/ CloseStandby

-----------------------------------------------------------------------------
InCall(c) == \/ CheckClosed(c) \/ GiveUp(c) \/ takeStandby(c)
             \/ ColdStart(c) \/ ColdStartFails(c) \/ Send(c) \/ Lost(c)
             \/ Timeout(c) \/ CtxEnds(c) \/ Receive(c) \/ Garbled(c)
             \/ ReturnSlot(c)

Next == \/ \E c \in Callers : Call(c) \/ CancelCall(c) \/ Acquire(c) \/ InCall(c)
        \/ \E k \in Children : Answer(k) \/ Fail(k)
        \/ Warmer \/ CloseBegin \/ Closer

Spec == Init /\ [][Next]_vars

(* Go runs what is runnable and timers fire.  A receive from the channel of  *)
(* free slots is strongly fair: blocked receivers are served in the order    *)
(* they came.  Nothing is assumed of callers, of contexts or of children.    *)
Fairness == /\ \A c \in Callers : WF_vars(InCall(c)) /\ SF_vars(Acquire(c))
            /\ WF_vars(Warmer) /\ SF_vars(CloseSlot)
            /\ WF_vars(CloseStop \/ CloseWait \/ CloseStandby)

FairSpec == Spec /\ Fairness

-----------------------------------------------------------------------------
(* Properties *)

PC == {"idle", "check", "acquire", "have", "send", "wait", "return"}

ChildType ==
  [st : {"none", "alive", "hung", "dead"}, tainted : BOOLEAN,
   in : Callers \cup {None},
   out : [to : Callers, revoked : BOOLEAN] \cup {None}]

(* Every variable of the supervisor has its type; the two channels never     *)
(* hold more than their capacity.                                            *)
TypeOK ==
  /\ free \in Seq(Slots) /\ Len(free) <= Cardinality(Slots)
  /\ proc \in [Slots -> Children \cup {None}]
  /\ ops \in [Slots -> 0 .. MaxOps - 1]
  /\ child \in [Children -> ChildType]
  /\ standby \in Seq(Children) /\ Len(standby) <= Standby
  /\ {warmRequest, stop, closed} \subseteq BOOLEAN
  /\ wpc \in {"select", "fill", "put", "sleep", "exited"}
  /\ wchild \in Children \cup {None} /\ drained \in 0 .. Cardinality(Slots)
  /\ kpc \in {"open", "closed", "stopped", "drain", "done"}
  /\ pc \in [Callers -> PC] /\ slot \in [Callers -> Slots \cup {None}]
  /\ attempt \in [Callers -> {0, 1}] /\ retryable \in [Callers -> BOOLEAN]
  /\ ctx \in [Callers -> {"live", "done"}]
  /\ answer \in [Callers -> Callers \cup {None}]

(* A slot is never lost and never in two places: it is in the channel once,  *)
(* or with one call, or was taken by Close.  Every error path of callOnce    *)
(* gives its slot back.                                                      *)
SlotsConserved ==
  /\ \A i, j \in DOMAIN free : i # j => free[i] # free[j]
  /\ \A c \in Callers : slot[c] # None =>
       /\ slot[c] \notin Range(free)
       /\ \A d \in Callers \ {c} : slot[d] # slot[c]
  /\ drained = Cardinality({s \in Slots : s \notin Range(free)
                                          /\ \A c \in Callers : slot[c] # s})

Owners(k) == {<<"slot", s>> : s \in {x \in Slots : proc[x] = k}}
               \cup {<<"standby", i>> : i \in {x \in DOMAIN standby : standby[x] = k}}
               \cup {<<"warmer", w>> : w \in {wchild} \cap {k}}

(* Every process that has been started and not reaped belongs to exactly one *)
(* slot, standby place or the warmer: no child leaks, none is shared by two  *)
(* calls, and nobody holds a child that was killed.                          *)
ChildrenOwned ==
  \A k \in Children : Cardinality(Owners(k)) = IF child[k].st = "none" THEN 0 ELSE 1

InUse == {slot[c] : c \in Callers}

(* A child that is not serving a call has clean pipes, has seen no revoked   *)
(* verdict and has budget left: no call ever starts on a child whose library *)
(* state is the known corruption trigger, or reads an answer meant for an    *)
(* earlier call that timed out or was cancelled.                             *)
IdleChildClean ==
  \A k \in Children :
    (/\ child[k].st # "none"
     /\ \A s \in InUse \cap Slots : proc[s] # k)
      => /\ child[k].in = None /\ child[k].out = None
         /\ ~KeepAfterRevoked => ~child[k].tainted

(* A call gets the answer to its own request, or none, and this is so        *)
(* because it starts on a clean child (callOnce, finish).                    *)
AnswerIsOwn ==
  /\ \A c \in Callers : answer[c] \in {c, None}
  /\ IdleChildClean

(* When Close has returned no child process is left, whatever calls, the     *)
(* warmer and the recycling were doing.                                      *)
ClosedLeavesNoChild == kpc = "done" => \A k \in Children : child[k] = NoChild

(* Child processes are accounted for from start to reap: each has its one    *)
(* place, and Close leaves none.                                             *)
ChildrenAccounted == TypeOK /\ ChildrenOwned /\ ClosedLeavesNoChild

(* Slots whose call cannot finish writing its request: the frame is larger   *)
(* than the pipe and the child no longer reads.  writeFrame comes before the *)
(* timer and the select on the context (process.call).                       *)
StuckSlots == {slot[c] : c \in {d \in Callers : /\ pc[d] = "send"
                                                /\ child[proc[slot[d]]].st = "hung"}}

(* Every call returns once the supervisor is being closed, too.              *)
CallsReturn == \A c \in Callers : pc[c] # "idle" ~> pc[c] = "idle"

(* Until Close is called every call returns, although children die or do not *)
(* answer, spares cannot be started and all slots are taken.  The one wait   *)
(* without an end is that of a frame the pipe cannot hold and a hung child   *)
(* does not read: it keeps its own call, and when every slot has one, those  *)
(* that wait for a slot.  CallTimeout, which Config says bounds one          *)
(* operation, does not bound that one.                                       *)
CallsReturnWhileOpen ==
  \A c \in Callers :
    pc[c] # "idle" ~> \/ pc[c] = "idle" \/ closed
                      \/ [](slot[c] \in StuckSlots \/ Slots \subseteq StuckSlots)

(* Close returns, whatever calls and the warmer were doing when it began,    *)
(* unless a call is stuck for good writing to a hung child: Close waits for  *)
(* its slot.                                                                 *)
CloseReturns == kpc = "closed" ~> kpc = "done" \/ [](StuckSlots # {})

=============================================================================
