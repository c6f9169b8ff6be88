------------------------------- MODULE JobApi -------------------------------
(***************************************************************************)
(* The job endpoints of REST, gRPC and the message queues                  *)
(* (internal/transport/{rest,grpc,mq}/jobs.go): one client that submits,   *)
(* asks for the status or the result and cancels, retrying when an answer  *)
(* is lost, over a job that moves on meanwhile.                            *)
(*                                                                         *)
(* The manager is module Jobs.  Of it only the record is kept here, with   *)
(* every move that module allows, the late ones included, and the          *)
(* guarantee that a key names one job while its record lives.              *)
(***************************************************************************)
EXTENDS Naturals

CONSTANTS MaxTries,   \* how often the client sends a call
          NoJobCall     \* no call in hand

VARIABLES jobsOn,     \* the transports were given a manager
          jobRecord,  \* the status of the record; "none" before, "gone" after
          named,      \* the key its submit came with, "" if none
          made,       \* jobs created
          reaped,     \* the record has been gone
          call,       \* the call in hand
          step,       \* where its handler is
          during,     \* the states of the record since the call began
          reply,      \* its answer
          tries

jobApiVars == <<jobsOn, jobRecord, named, made, reaped, call, step, during, reply, tries>>

Ended == {"succeeded", "failed", "canceled"}
Unfinished == {"queued", "running"}

NoReply == [code |-> "none", status |-> "none"]

(* A key may come in the header, in the body, or not at all.                *)
JobCalls ==
    {c \in [via : {"rest", "grpc", "mq"}, op : {"submit", "status", "result", "cancel"},
            header : {"", "k"}, body : {"", "k", "l"}] :
        /\ c.op # "submit" => c.header = "" /\ c.body = ""
        /\ c.via # "rest" => c.header = ""
        /\ c.via = "grpc" => c.body = ""}

JobApiInit ==
    /\ jobsOn \in BOOLEAN
    /\ jobRecord = "none" /\ named = "" /\ made = 0 /\ reaped = FALSE
    /\ call = NoJobCall /\ step = "idle" /\ during = {} /\ reply = NoReply /\ tries = 0

(* What the manager, its workers and its reaper do to the record meanwhile. *)
(* A Save is unconditional: a worker's may land on a cancelled record, and  *)
(* a worker's or a Cancel's may bring back one that was reaped.             *)
Moves(from) ==
    CASE from = "queued" -> {"running", "canceled"}
      [] from = "running" -> Ended \cup {"queued"}
      [] from = "canceled" -> {"running", "succeeded", "failed", "gone"}
      [] from \in {"succeeded", "failed"} -> {"canceled", "gone"}
      [] from = "gone" -> {"running"} \cup Ended
      [] OTHER -> {}

JobMoves ==
    /\ jobRecord' \in Moves(jobRecord)
    /\ during' = during \cup {jobRecord'}
    /\ reaped' = (reaped \/ jobRecord' = "gone")
    /\ UNCHANGED <<jobsOn, named, made, call, step, reply, tries>>

-----------------------------------------------------------------------------
(* The client. *)

Ask ==
    /\ step = "idle"
    /\ \E c \in JobCalls :
         /\ jobRecord = "none" => c.op = "submit"
         /\ jobRecord # "none" => c.op # "submit"
         /\ call' = c
    /\ step' = "begin" /\ during' = {jobRecord} /\ reply' = NoReply /\ tries' = 1
    /\ UNCHANGED <<jobsOn, jobRecord, named, made, reaped>>

(* The answer was lost and the client sends the same call again.            *)
Retry ==
    /\ step = "answered" /\ tries < MaxTries
    /\ step' = "begin" /\ during' = {jobRecord} /\ reply' = NoReply /\ tries' = tries + 1
    /\ UNCHANGED <<jobsOn, jobRecord, named, made, reaped, call>>

Settle ==
    /\ step = "answered" /\ jobsOn
    /\ step' = "idle" /\ call' = NoJobCall /\ during' = {} /\ reply' = NoReply /\ tries' = 0
    /\ UNCHANGED <<jobsOn, jobRecord, named, made, reaped>>

-----------------------------------------------------------------------------
(* The handlers.  Each call of the manager reads the record once.           *)

Say(code, status) == /\ step' = "answered" /\ reply' = [code |-> code, status |-> status]

(* REST has no route, gRPC and the queues refuse, without a manager.        *)
JobsDisabled ==
    /\ step = "begin" /\ ~jobsOn
    /\ Say("unsupported", "none")
    /\ UNCHANGED <<jobsOn, jobRecord, named, made, reaped, call, during, tries>>

(* The header's key goes before the body's. *)
submitKey == IF call.header # "" THEN call.header ELSE call.body

HandleSubmit ==
    /\ step = "begin" /\ jobsOn /\ call.op = "submit"
    /\ IF submitKey # "" /\ submitKey = named /\ jobRecord # "gone"
       THEN Say("accepted", jobRecord) /\ UNCHANGED <<jobRecord, named, made, during>>
       ELSE \/ /\ jobRecord' = IF made = 0 THEN "queued" ELSE jobRecord
               /\ named' = IF made = 0 THEN submitKey ELSE named
               /\ made' = made + 1 /\ during' = during \cup {jobRecord', "queued"}
               /\ Say("accepted", "queued")
            \/ Say("refused", "none") /\ UNCHANGED <<jobRecord, named, made, during>>
    /\ UNCHANGED <<jobsOn, reaped, call, tries>>

(* The view of the record, or that there is none: status, and the second    *)
(* half of cancel.                                                          *)
HandleView ==
    /\ \/ step = "begin" /\ jobsOn /\ call.op = "status"
       \/ step = "view"
    /\ IF jobRecord = "gone" THEN Say("notfound", "none") ELSE Say("view", jobRecord)
    /\ UNCHANGED <<jobsOn, jobRecord, named, made, reaped, call, during, tries>>

HandleCancel ==
    /\ step = "begin" /\ jobsOn /\ call.op = "cancel"
    /\ CASE jobRecord = "gone" -> Say("notfound", "none") /\ UNCHANGED <<jobRecord, during>>
         [] jobRecord \in Ended -> step' = "view" /\ UNCHANGED <<jobRecord, during, reply>>
         [] OTHER -> /\ jobRecord' = "canceled" /\ during' = during \cup {"canceled"}
                     /\ step' = "view" /\ UNCHANGED reply
    /\ UNCHANGED <<jobsOn, named, made, reaped, call, tries>>

HandleResultUnlessDone ==
    /\ step = "begin" /\ jobsOn /\ call.op = "result"
    /\ CASE jobRecord = "gone" -> Say("notfound", "none")
         [] jobRecord = "succeeded" -> Say("result", jobRecord)
         [] call.via = "rest" -> step' = "unprocessable" /\ UNCHANGED reply
         [] OTHER -> Say(IF jobRecord \in Unfinished THEN "notready" ELSE "result", jobRecord)
    /\ UNCHANGED <<jobsOn, jobRecord, named, made, reaped, call, during, tries>>

(* Result.  REST reads the record again for the view it sends along.        *)
HandleResult ==
    /\ step = "begin" /\ jobsOn /\ call.op = "result"
    /\ CASE jobRecord = "gone" -> Say("notfound", "none")
         [] jobRecord = "succeeded" -> Say("result", jobRecord)
         [] call.via = "rest" ->
              step' = (IF jobRecord \in Unfinished THEN "conflict" ELSE "unprocessable") /\ UNCHANGED reply
         [] OTHER -> Say(IF jobRecord \in Unfinished THEN "notready" ELSE "result", jobRecord)
    /\ UNCHANGED <<jobsOn, jobRecord, named, made, reaped, call, during, tries>>

(* Whatever keeps that second read from a record is answered "not found".  *)
HandleResultView ==
    /\ step \in {"conflict", "unprocessable"}
    /\ \/ jobRecord # "gone" /\ Say(step, jobRecord)
       \/ Say("notfound", "none")
    /\ UNCHANGED <<jobsOn, jobRecord, named, made, reaped, call, during, tries>>

(* Everywhere else a failure of the store is told as one.                   *)
HandleFault ==
    /\ \/ step = "begin" /\ jobsOn /\ call.op # "submit"
       \/ step = "view"
    /\ Say("fault", "none")
    /\ UNCHANGED <<jobsOn, jobRecord, named, made, reaped, call, during, tries>>

JobApiNext ==
    \/ JobMoves \/ Ask \/ Retry \/ Settle
    \/ JobsDisabled \/ HandleSubmit \/ HandleView \/ HandleCancel \/ HandleResult \/ HandleResultView
    \/ HandleFault

-----------------------------------------------------------------------------
(* Every answer about a job was true while the call was open, although its *)
(* code and the view it carries come from two reads: the status is one the *)
(* record had, "not finished" means it was not, a failure code means it    *)
(* had ended otherwise, a cancel that is acknowledged found or left it     *)
(* ended, and "not found" means there was no record.  The last is not so   *)
(* of REST's result, whose second read says it of a store that failed.     *)
AnswerWasTrue ==
    /\ reply.status # "none" => reply.status \in during
    /\ reply.code \in {"conflict", "notready"} => during \cap Unfinished # {}
    /\ reply.code = "unprocessable" => during \cap {"failed", "canceled"} # {}
    /\ reply.code = "result" => reply.status \in Ended
    /\ reply.code = "notfound" /\ ~(call.via = "rest" /\ call.op = "result") => "gone" \in during
    /\ call # NoJobCall /\ call.op = "cancel" /\ reply.code = "view" => during \cap Ended # {}

(* A submit that is sent again with its key makes no second job, whether   *)
(* the key came in the header or in the body, until the first has been     *)
(* reaped.                                                                 *)
RetryMakesNoSecond ==
    call # NoJobCall /\ call.op = "submit" /\ (call.header # "" \/ call.body # "") /\ ~reaped
        => made <= 1

(* A client of the job endpoints can believe what it is told and can       *)
(* repeat what it sent, while the job moves on between the reads of one    *)
(* handler (rest/jobs.go, grpc/jobs.go, mq.go).                            *)
RetriesAreSafe ==
    /\ AnswerWasTrue
    /\ RetryMakesNoSecond
=============================================================================
