----------------------------- MODULE MCProgress -----------------------------
(***************************************************************************)
(* The work of the process, which has to come to its end, for TLC: the     *)
(* items of a batch, the messages of a broker, and the life of the process *)
(* as a whole.  They are checked side by side: `part` names the one that   *)
(* runs.  The others stand in a state with nothing left to do, so that     *)
(* fairness asks nothing of them.                                          *)
(***************************************************************************)
EXTENDS Batch, Delivery, Lifecycle

VARIABLE part

MCVersions == {<<2>>, <<2, 0, 1>>, <<1, 9>>, <<2, 1>>}

(* Negative, zero, one and more than the number of items. *)
AnyConcurrency == {-1, 0, 1, 5}

progressVars == <<part, vars, delivVars, lifeVars>>

(* A batch that is not there to run. *)
NoBatch ==
    /\ opts = [failFast |-> FALSE, stream |-> FALSE, conc |-> 1]
    /\ ctxDone = FALSE /\ next = 0 /\ dpc = "returned"
    /\ gpc = [i \in Items |-> "none"] /\ res = [i \in Items |-> None]
    /\ results = [i \in Items |-> "skipped"] /\ failed = FALSE
    /\ sem = 0 /\ wg = 0 /\ mu = None /\ succeeded = 0 /\ failedN = 0
    /\ sent = <<>> /\ late = 0 /\ out = None

(* Every message answered and settled, the consumer back. *)
DelivAtRest ==
    /\ broker = "nats" /\ app = "returned"
    /\ at = [m \in Msgs |-> "settled"] /\ slot = [w \in Slots |-> FreeSlot]
    /\ done = {} /\ pos = NumMsgs + 1 /\ poll = {} /\ clean = TRUE
    /\ faults = 0 /\ starts = 1
    /\ ran = [m \in Msgs |-> 1] /\ lost = {} /\ replied = Msgs /\ skipped = {}

(* A process that had nothing to serve. *)
LifeAtRest ==
    /\ conf = [transports |-> {}, jobs |-> FALSE, watch |-> FALSE, audit |-> FALSE]
    /\ main = "exited" /\ code = 2 /\ ctx = "live"
    /\ held = [r \in Resources |-> "none"] /\ work = [a \in Actors |-> "off"]
    /\ deaf = {} /\ fit = FALSE /\ overdue = FALSE /\ found = {}

ProgressInit ==
    /\ part \in {"batch", "delivery", "lifecycle"}
    /\ IF part = "batch" THEN Init ELSE NoBatch
    /\ IF part = "delivery" THEN DelivInit ELSE DelivAtRest
    /\ IF part = "lifecycle" THEN LifeInit ELSE LifeAtRest

Still(p) ==
    /\ UNCHANGED part
    /\ p # "batch" => UNCHANGED vars
    /\ p # "delivery" => UNCHANGED delivVars
    /\ p # "lifecycle" => UNCHANGED lifeVars

ProgressNext ==
    \/ part = "batch" /\ Next /\ Still("batch")
    \/ part = "delivery" /\ DelivNext /\ Still("delivery")
    \/ part = "lifecycle" /\ LifeNext /\ Still("lifecycle")

ProgressSpec ==
    ProgressInit /\ [][ProgressNext]_progressVars /\ Fair /\ DelivFair
=============================================================================
