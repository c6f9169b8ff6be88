----------------------------- MODULE Frontends -----------------------------
(***************************************************************************)
(* One request on its way through a front end: REST (with an aggregate or  *)
(* an NDJSON answer), gRPC, the command line and the message queues.  Each *)
(* decodes its wire form (internal/transport/dto, grpc/map.go, dispatch),  *)
(* asks the domain, and delivers the answer, a batch's one piece at a time *)
(* where it streams.                                                       *)
(*                                                                         *)
(* The runner of a batch is module Batch: here its items just complete in  *)
(* any order, one at a time, as runBatch's sink promises.  What an answer  *)
(* says is module Verification, how a failure is worded module Failures.   *)
(***************************************************************************)
EXTENDS Naturals, Sequences, FiniteSets

CONSTANTS MaxItems,   \* the largest batch
          NoAsk       \* no request: another component runs

VARIABLES wanted,     \* the request, as the client put it
          stage,      \* "arrived", "running", "over"
          inputs,     \* what the domain is asked, in the order of the items
          results,    \* what it has answered so far, by item
          wire,       \* what has reached the client: items, summary, whole, error
          lost,       \* a send has failed (sendErr, pubErr; the connection is gone)
          answer,     \* how the transport ended the call
          register    \* the counts of a register

frontVars == <<wanted, stage, inputs, results, wire, lost, answer, register>>

-----------------------------------------------------------------------------
(* Requests. *)

Singles == {"sign", "verify", "verify-at", "archive", "extract", "cert-info", "cert-validate"}
Batches == {"sign-batch", "verify-batch", "extract-batch", "cert-info-batch", "cert-validate-batch"}

ItemOp(op) ==
    CASE op = "sign-batch" -> "sign" [] op \in {"verify-batch", "registry"} -> "verify"
      [] op = "extract-batch" -> "extract" [] op = "cert-info-batch" -> "cert-info"
      [] op = "cert-validate-batch" -> "cert-validate" [] OTHER -> op

(* One item: the fields its operation has, the others at their default.     *)
(* `revocation` is a pointer on the wire, "" when it is absent.             *)
Item(op) ==
    [format : IF op \in {"sign", "verify", "verify-at", "extract"} THEN {"cms", "xml", "", "bogus"} ELSE {""},
     policy : IF op = "sign" THEN {"", "cades-t", "xades-b"} ELSE {""},
     revocation : IF op = "verify" THEN {"", "on", "off"} ELSE {""},
     method : IF op \in {"verify", "verify-at", "cert-validate"} THEN {"", "crl"} ELSE {""},
     at : IF op = "verify-at" THEN {"past", ""} ELSE {""},
     payload : IF op \in {"archive", "cert-info"} THEN {"given", ""} ELSE {"given"}]

PlainItem(op) ==
    {i \in Item(op) : i.format \in {"cms", "bogus", ""} /\ i.policy = "" /\ i.revocation = "" /\ i.method = ""}

(* What each front end offers: the command line and the queues share one    *)
(* router, which knows no register; only batches stream.                    *)
Offered(via) ==
    CASE via = "rest" -> Singles \cup Batches \cup {"registry"}
      [] via = "ndjson" -> Batches
      [] OTHER -> Singles \cup Batches

(* protobuf has no shape to break and no policy field; only the command     *)
(* line has the gate.                                                       *)
Asks ==
    UNION {UNION {
        [via : {via}, op : {op}, gate : IF via = "cli" THEN BOOLEAN ELSE {FALSE},
         body : IF via = "grpc" THEN {"ok"} ELSE {"ok", "extra", "broken"},
         items : IF op \in Singles
                 THEN {<<i>> : i \in {j \in Item(op) : via = "grpc" => j.policy = ""}}
                 ELSE UNION {[1..n -> PlainItem(ItemOp(op))] : n \in 0..MaxItems}]
      : op \in Offered(via)} : via \in {"rest", "ndjson", "grpc", "cli", "mq"}}
    \cup [via : {"cli", "mq"}, op : {"unknown"}, gate : {FALSE}, body : {"ok"}, items : {<<>>}]

NoCounts == [total |-> 0, valid |-> 0, invalid |-> 0, indeterminate |-> 0, failed |-> 0]

FrontInit ==
    /\ wanted \in Asks /\ stage = "arrived" /\ inputs = <<>> /\ results = <<>>
    /\ wire = <<>> /\ lost = FALSE /\ answer = "none" /\ register = NoCounts

-----------------------------------------------------------------------------
(* From the wire to the domain's input. *)

Valid(format) == format \in {"cms", "xml"}

parseMethod(m) == IF m = "crl" THEN "crl" ELSE "ocsp"

(* The JSON transports: an unknown format is refused here, except that a   *)
(* named policy stands in for an absent one.                               *)
SignToCore(i) == [ok |-> Valid(i.format) \/ (i.format = "" /\ i.policy # ""), in |-> i]
VerifyToCore(i) == [ok |-> Valid(i.format), in |-> i]
VerifyAtToCore(i) == [ok |-> VerifyToCore(i).ok, in |-> [i EXCEPT !.method = parseMethod(i.method)]]
ExtractToCore(i) == [ok |-> Valid(i.format), in |-> i]
ArchiveToCore(i) == [ok |-> TRUE, in |-> i]
CertInfoToCore(i) == [ok |-> TRUE, in |-> [i EXCEPT !.method = parseMethod(i.method)]]
ValidateToCore(i) == [ok |-> TRUE, in |-> [i EXCEPT !.method = parseMethod(i.method)]]

ToCore(op, i) ==
    CASE op = "sign" -> SignToCore(i) [] op = "verify" -> VerifyToCore(i)
      [] op = "verify-at" -> VerifyAtToCore(i) [] op = "extract" -> ExtractToCore(i)
      [] op = "archive" -> ArchiveToCore(i) [] op = "cert-info" -> CertInfoToCore(i)
      [] op = "cert-validate" -> ValidateToCore(i)

(* gRPC: an unknown format becomes the empty one, which is the domain's to  *)
(* refuse; only the instant of verify-at is parsed here.                    *)
pbFormat(f) == IF Valid(f) THEN f ELSE ""
pbMethod(m) == IF m = "crl" THEN "crl" ELSE "ocsp"

signInputPB(i) == [i EXCEPT !.format = pbFormat(i.format), !.policy = ""]

verifyInputPB(i) == [i EXCEPT !.format = pbFormat(i.format), !.method = pbMethod(i.method)]

verifyAtInputPB(i) == [ok |-> i.at # "", in |-> verifyInputPB(i)]
certInputPB(i) == [i EXCEPT !.method = pbMethod(i.method)]

FromPB(op, i) ==
    CASE op = "verify-at" -> verifyAtInputPB(i)
      [] op = "sign" -> [ok |-> TRUE, in |-> signInputPB(i)]
      [] op \in {"verify", "extract"} -> [ok |-> TRUE, in |-> verifyInputPB(i)]
      [] op = "archive" -> [ok |-> TRUE, in |-> i]
      [] op \in {"cert-info", "cert-validate"} -> [ok |-> TRUE, in |-> certInputPB(i)]

Mapped(i) == IF wanted.via = "grpc" THEN FromPB(ItemOp(wanted.op), i) ELSE ToCore(ItemOp(wanted.op), i)

(* REST refuses fields it does not know; CLI and queues pass over them.     *)
Decodes ==
    CASE wanted.via = "grpc" -> TRUE
      [] wanted.via \in {"rest", "ndjson"} -> wanted.body = "ok"
      [] OTHER -> wanted.body # "broken" /\ wanted.op # "unknown"

(* The first item that cannot be mapped refuses the whole request.          *)
BatchItems ==
    IF Decodes /\ \A k \in DOMAIN wanted.items : Mapped(wanted.items[k]).ok
    THEN [ok |-> TRUE, inputs |-> [k \in DOMAIN wanted.items |-> Mapped(wanted.items[k]).in]]
    ELSE [ok |-> FALSE, inputs |-> <<>>]

-----------------------------------------------------------------------------
(* Delivery.  A broken connection stays broken; a publish may fail once.    *)

wantsStream == wanted.via = "ndjson"

Streams == wanted.op \in Batches /\ (wantsStream \/ wanted.via \in {"grpc", "mq"})

(* A message: an item of a batch by its index, or the kind of the others.   *)
Msg(kind) == [kind |-> kind, item |-> 0]
ItemMsg(k) == [kind |-> "item", item |-> k]

(* What a send can come to.  After a failed one, gRPC and the queues send   *)
(* nothing more; NDJSON goes on writing to a connection that is gone.       *)
SendBlindly(m) ==
    \/ wire' = Append(wire, m) /\ lost' = lost
    \/ wire' = wire /\ lost' = TRUE

Send(m) ==
    \/ ~lost /\ wire' = Append(wire, m) /\ lost' = FALSE
    \/ wire' = wire /\ lost' = TRUE

(* How a call ends when its last send failed: a queue's message goes back,  *)
(* a gRPC stream is aborted, the command line reports a fault.              *)
EndAs(outcome) ==
    answer' = CASE lost' /\ wanted.via = "mq" -> "nack"
                [] lost' /\ wanted.via = "grpc" /\ Streams -> "aborted"
                [] lost' /\ wanted.via = "cli" /\ outcome \in {"ok", "gate"} -> "fault"
                [] OTHER -> outcome

Refuse(why) ==
    /\ Send(Msg("error")) /\ EndAs(why)
    /\ stage' = "over"
    /\ UNCHANGED <<wanted, inputs, results, register>>

Decode ==
    /\ stage = "arrived"
    /\ IF BatchItems.ok
       THEN /\ stage' = "running" /\ inputs' = BatchItems.inputs
            /\ UNCHANGED <<wanted, results, wire, lost, answer, register>>
       ELSE Refuse("invalid")

-----------------------------------------------------------------------------
(* The domain's own checks, and its answer to one item. *)

policyProfiles == [p \in {"cades-t", "xades-b"} |-> IF p = "cades-t" THEN "cms" ELSE "xml"]

(* A policy names the format, and contradicting it is an error.             *)
applyPolicy(in) ==
    IF in.policy = "" THEN [ok |-> TRUE, format |-> in.format]
    ELSE [ok |-> in.format \in {"", policyProfiles[in.policy]}, format |-> policyProfiles[in.policy]]

Accepts(op, in) ==
    CASE op = "sign" -> applyPolicy(in).ok /\ Valid(applyPolicy(in).format)
      [] op \in {"verify", "extract"} -> Valid(in.format)
      [] op = "verify-at" -> in.at # "" /\ Valid(in.format)
      [] op \in {"archive", "cert-info"} -> in.payload # ""
      [] OTHER -> TRUE

(* `valid` is what VerifyOutput.Valid says, `verdict` what its report does: *)
(* a valid signature whose chain signatures do not check out is reported    *)
(* invalid when trust.verify-chain is on.  No output: the item failed.      *)
Failed == [output |-> FALSE, valid |-> FALSE, verdict |-> "none"]

Outputs ==
    {[output |-> TRUE, valid |-> TRUE, verdict |-> "valid"],
     [output |-> TRUE, valid |-> TRUE, verdict |-> "indeterminate"],
     [output |-> TRUE, valid |-> TRUE, verdict |-> "invalid"],
     [output |-> TRUE, valid |-> FALSE, verdict |-> "invalid"]}

Answers(k) ==
    {Failed} \cup (IF Accepts(ItemOp(wanted.op), inputs[k]) THEN Outputs ELSE {})

(* An item of a batch completes and, on a stream, goes out at once.         *)
ItemDone(k) ==
    /\ stage = "running" /\ wanted.op \notin Singles
    /\ k \in DOMAIN inputs \ DOMAIN results
    /\ \E r \in Answers(k) :
         results' = [j \in DOMAIN results \cup {k} |-> IF j = k THEN r ELSE results[j]]
    /\ IF Streams THEN Send(ItemMsg(k)) ELSE UNCHANGED <<wire, lost>>
    /\ UNCHANGED <<wanted, stage, inputs, answer, register>>

-----------------------------------------------------------------------------
(* The end of a call. *)

CountOf(P(_)) == Cardinality({k \in DOMAIN results : P(results[k])})

VerifyRegistry ==
    [total |-> Len(inputs),
     valid |-> CountOf(LAMBDA r : r.output /\ r.verdict = "valid"),
     invalid |-> CountOf(LAMBDA r : r.output /\ r.verdict = "invalid"),
     indeterminate |-> CountOf(LAMBDA r : r.output /\ r.verdict = "indeterminate"),
     failed |-> CountOf(LAMBDA r : ~r.output)]

(* The gate's view of a result: only verifications are judged.              *)
batchVerified == \A k \in DOMAIN results : results[k].output /\ results[k].valid

verifiedResult == wanted.op = "verify-batch" => batchVerified

Exit == IF wanted.gate /\ ~verifiedResult THEN "gate" ELSE "ok"

(* The one answer to a single operation. *)
HandleSingle ==
    /\ stage = "running" /\ wanted.op \in Singles /\ results = <<>>
    /\ \E r \in Answers(1) :
         /\ results' = <<r>>
         /\ Send(Msg(IF r.output THEN "whole" ELSE "error"))
         /\ EndAs(CASE ~r.output /\ ~Accepts(wanted.op, inputs[1]) -> "invalid"
                    [] ~r.output -> "fault"
                    [] wanted.gate /\ wanted.op = "verify" /\ ~r.valid -> "gate"
                    [] OTHER -> "ok")
    /\ stage' = "over"
    /\ UNCHANGED <<wanted, inputs, register>>

(* The end of a batch: a summary after the stream, or the aggregate.        *)
BatchDone ==
    /\ stage = "running" /\ wanted.op \notin Singles
    /\ DOMAIN results = DOMAIN inputs
    /\ Send(Msg(IF Streams THEN "summary" ELSE "whole"))
    /\ EndAs(Exit)
    /\ register' = IF wanted.op = "registry" THEN VerifyRegistry ELSE register
    /\ stage' = "over"
    /\ UNCHANGED <<wanted, inputs, results>>

FrontNext == Decode \/ HandleSingle \/ (\E k \in 1..MaxItems : ItemDone(k)) \/ BatchDone

-----------------------------------------------------------------------------
(* Properties. *)

Asking == wanted # NoAsk

Malformed(op, i) ==
    \/ op \in {"sign", "verify", "verify-at", "extract"} /\ i.format \notin {"cms", "xml"}
       /\ ~(op = "sign" /\ i.format = "" /\ i.policy # "")
    \/ op = "verify-at" /\ i.at = ""
    \/ op \in {"archive", "cert-info"} /\ i.payload = ""

(* A stream that ends is whole: a summary is the last message and follows  *)
(* every item exactly once, and a call that ends well on gRPC or a queue   *)
(* has delivered it, however sends fail along the way (streamBatch).       *)
StreamIsWhole ==
    Asking /\ Streams =>
        LET n == Len(wire)
            summary == Msg("summary")
        IN /\ \A j, k \in 1..n : wire[j] = wire[k] => j = k
           /\ (\E k \in 1..n : wire[k] = summary) =>
                 wire[n] = summary /\ {wire[k] : k \in 1..(n - 1)} = {ItemMsg(k) : k \in DOMAIN inputs}
           /\ answer = "ok" /\ wanted.via # "ndjson" => n > 0 /\ wire[n] = summary

(* The domain is asked what the client meant, whichever front end it used: *)
(* an absent revocationCheck leaves the check on, an explicit one decides, *)
(* the method defaults to OCSP and a policy supplies the format (dto.go    *)
(* ToCore; map.go verifyInputPB).                                          *)
AskedAsMeant ==
    Asking => \A k \in DOMAIN inputs :
        /\ (inputs[k].revocation = "off") = (wanted.items[k].revocation = "off")
        /\ (inputs[k].method = "crl") = (wanted.items[k].method = "crl")
        /\ Valid(wanted.items[k].format) => inputs[k].format = wanted.items[k].format
        /\ inputs[k].policy = wanted.items[k].policy

(* A malformed item is never served: JSON transports run nothing of a      *)
(* request that has one in its shape, and on gRPC that item fails; results *)
(* stay with the item they belong to (BatchItems, Valid).                  *)
MalformedIsNotServed ==
    Asking =>
        /\ \A k \in DOMAIN results : Malformed(ItemOp(wanted.op), wanted.items[k]) => ~results[k].output
        /\ answer = "ok" => \A k \in DOMAIN wanted.items :
              wanted.via # "grpc" /\ wanted.op \notin {"cert-info-batch"} => ~Malformed(ItemOp(wanted.op), wanted.items[k])
        /\ stage = "over" /\ answer \in {"ok", "gate"} => DOMAIN results = DOMAIN wanted.items

(* The gate lets a build pass only when every signature it was given came  *)
(* back valid: a failed or skipped item of a batch stops it like an        *)
(* invalid one (cli.go verified, batchVerified).                           *)
GateHolds ==
    Asking /\ wanted.gate /\ wanted.op \in {"verify", "verify-batch"} /\ answer = "ok" =>
        \A k \in DOMAIN wanted.items : results[k].valid

(* A register adds up: every document is counted once, one without an      *)
(* answer as failed and not as a bad signature, and one whose signature    *)
(* did not verify neither as valid nor as undetermined (registry.go        *)
(* VerifyRegistry).  A valid signature may count as invalid, by its chain. *)
RegisterAddsUp ==
    Asking /\ wanted.op = "registry" /\ answer = "ok" =>
        /\ register.valid + register.invalid + register.indeterminate + register.failed = register.total
        /\ register.total = Len(wanted.items)
        /\ register.failed = Cardinality({k \in DOMAIN results : ~results[k].output})
        /\ register.valid + register.indeterminate <= Cardinality({k \in DOMAIN results : results[k].valid})

(* Whichever front end a request comes through, the domain is asked what   *)
(* was meant, nothing malformed is served, and the stream, the gate's exit *)
(* code and the register that go back cover every item.                    *)
ServedAsAsked ==
    /\ StreamIsWhole
    /\ AskedAsMeant
    /\ MalformedIsNotServed
    /\ GateHolds
    /\ RegisterAddsUp
=============================================================================
