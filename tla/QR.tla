-------------------------------- MODULE QR --------------------------------
(***************************************************************************)
(* QR signing sessions: internal/qr/orchestrator.go over the session store *)
(* of store.go.  A session is read, kept as a copy by the request that     *)
(* read it, and written back whole; only Consume is an atomic update.      *)
(*                                                                         *)
(* A self-hosted session (profiles agnostic and egov) gets its signature   *)
(* from the app's POST; a relay session is polled from an upstream gateway *)
(* whenever the consumer asks for the status.                              *)
(***************************************************************************)
EXTENDS Requests

CONSTANTS Sessions,   \* random identifiers
          NoSess

VARIABLES sess,       \* the store
          created,    \* history: identifiers taken, with their deadline
          upstream,   \* the gateway's answer to a poll
          verified,   \* history: how often each session completed verified
          webhooks    \* history: terminal views sent, per session

qrVars == <<sess, created, upstream, verified, webhooks>>

QRInit == /\ sess = [s \in Sessions |-> NoSess]
          /\ created = [s \in Sessions |-> NoSess]
          /\ upstream = [s \in Sessions |-> "waiting"]
          /\ verified = [s \in Sessions |-> 0]
          /\ webhooks = [s \in Sessions |-> 0]

Terminal(rec) == rec.st \in {"verified", "failed", "expired"}

-----------------------------------------------------------------------------
(* The store, and the operations that take one step. *)

(* Create: a refusal (mode, profile, no data, Prepare fails) stores nothing. *)
Create(s) ==
  /\ created[s] = NoSess
  /\ \E relay \in BOOLEAN :
       LET rec == [st |-> "pending", used |-> FALSE, exp |-> now + TTL, relay |-> relay]
       IN  sess' = [sess EXCEPT ![s] = rec] /\ created' = [created EXCEPT ![s] = rec]
  /\ UNCHANGED <<upstream, verified, webhooks, req, now>>

(* Save writes the whole record, whether or not the session is still there.  *)
Save(s, rec) == sess' = [sess EXCEPT ![s] = rec]

Consumable1(s) == sess[s] # NoSess /\ ~sess[s].used

ReapSessions ==
  /\ \E s \in Sessions : sess[s] # NoSess /\ Expired(sess[s].exp)
  /\ sess' = [s \in Sessions |-> IF sess[s] # NoSess /\ Expired(sess[s].exp)
                                 THEN NoSess ELSE sess[s]]
  /\ UNCHANGED <<created, upstream, verified, webhooks, req, now>>

(* The gateway's procedure ends: signed, or canceled.                        *)
Gateway(s) ==
  /\ created[s] # NoSess /\ created[s].relay /\ upstream[s] = "waiting"
  /\ \E u \in {"signed", "cancelled"} : upstream' = [upstream EXCEPT ![s] = u]
  /\ UNCHANGED <<sess, created, verified, webhooks, req, now>>

-----------------------------------------------------------------------------
(* The end of a session: complete and fail, on the copy rec. *)

Finish(t, s, rec, status) ==
  /\ Save(s, [rec EXCEPT !.st = status])
  /\ verified' = IF status = "verified"
                 THEN [verified EXCEPT ![s] = Min2(@ + 1, 2)] ELSE verified
  /\ webhooks' = [webhooks EXCEPT ![s] = Min2(@ + 1, 2)]
  /\ Done(t)

(* complete: the signature is verified against the session's data.           *)
Complete(t) ==
  /\ req[t].op = "complete"
  /\ \E status \in {"verified", "failed"} : Finish(t, req[t].s, req[t].rec, status)
  /\ UNCHANGED <<created, upstream, now>>

-----------------------------------------------------------------------------
(* SubmitSignature: the app's POST. *)

(* Consumed, then refused when expired.  Else complete goes on with what the *)
(* body holds, or fail where it holds no signature: there complete can fail  *)
(* in the same way.  A relay session takes no signature from the app.        *)
Submit(t, s) ==
  /\ Free(t) /\ Consumable1(s)
  /\ LET rec == [sess[s] EXCEPT !.used = TRUE]
     IN  /\ Save(s, rec)
         /\ \/ Expired(rec.exp) /\ UNCHANGED req
            \/ /\ ~Expired(rec.exp) /\ ~rec.relay
               /\ Serve(t, [op |-> "complete", s |-> s, rec |-> rec])
            \/ /\ ~Expired(rec.exp) /\ rec.relay
               /\ Serve(t, [op |-> "refused", s |-> s, rec |-> rec])
  /\ UNCHANGED <<created, upstream, verified, webhooks, now>>

(* The fail of a relay session, on the copy that was consumed.               *)
SubmitRefused(t) ==
  /\ req[t].op = "refused"
  /\ Finish(t, req[t].s, req[t].rec, "failed")
  /\ UNCHANGED <<created, upstream, now>>

-----------------------------------------------------------------------------
(* Get: the consumer asks for the status. *)

GetBegin(t, s) ==
  /\ Free(t) /\ sess[s] # NoSess /\ ~Terminal(sess[s])
  /\ Serve(t, [op |-> "get", s |-> s, rec |-> sess[s]])
  /\ UNCHANGED <<sess, created, upstream, verified, webhooks, now>>

(* The copy is past its deadline: it is saved as expired. *)
GetExpire(t) ==
  /\ req[t].op = "get" /\ Expired(req[t].rec.exp)
  /\ Save(req[t].s, [req[t].rec EXCEPT !.st = "expired"])
  /\ Done(t)
  /\ UNCHANGED <<created, upstream, verified, webhooks, now>>

GetPollUnguarded(t) ==
  /\ req[t].op = "get"
  /\ Save(req[t].s, req[t].rec) /\ Done(t)
  /\ UNCHANGED <<created, upstream, verified, webhooks, now>>

(* A relay session is polled; nothing new, or an error, ends the request.    *)
GetPoll(t) ==
  /\ req[t].op = "get" /\ ~Expired(req[t].rec.exp)
  /\ \/ Done(t)
     \/ /\ req[t].rec.relay /\ upstream[req[t].s] # "waiting"
        /\ Serve(t, [req[t] EXCEPT !.op = upstream[req[t].s]])
  /\ UNCHANGED <<sess, created, upstream, verified, webhooks, now>>

(* pollRelay, rejected: fail with the copy that was read first.              *)
PollRejected(t) ==
  /\ req[t].op = "cancelled"
  /\ Finish(t, req[t].s, req[t].rec, "failed")
  /\ UNCHANGED <<created, upstream, now>>

(* pollRelay, signed: whoever consumes the session completes it.             *)
PollSigned(t) ==
  /\ req[t].op = "signed"
  /\ LET s == req[t].s IN
     IF Consumable1(s)
       THEN /\ Save(s, [sess[s] EXCEPT !.used = TRUE])
            /\ Serve(t, [op |-> "complete", s |-> s, rec |-> [sess[s] EXCEPT !.used = TRUE]])
       ELSE Done(t) /\ UNCHANGED sess
  /\ UNCHANGED <<created, upstream, verified, webhooks, now>>

QRRestart ==
  /\ sess' = IF Durable THEN sess ELSE [s \in Sessions |-> NoSess]
  /\ UNCHANGED <<created, upstream, verified, webhooks>>

QRNext ==
  \/ \E s \in Sessions : Create(s) \/ Gateway(s)
  \/ \E t \in Threads, s \in Sessions : Submit(t, s) \/ GetBegin(t, s)
  \/ \E t \in Threads : \/ Complete(t) \/ SubmitRefused(t) \/ GetExpire(t)
                        \/ GetPoll(t) \/ PollRejected(t) \/ PollSigned(t)
  \/ ReapSessions
=============================================================================
