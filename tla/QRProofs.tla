----------------------------- MODULE QRProofs -----------------------------
(***************************************************************************)
(* The inductive invariant of the QR sessions (QR), and that each of their *)
(* steps keeps it, for any number of goroutines and sessions.              *)
(*                                                                         *)
(* A consumed session is held by the one request that may complete it,     *)
(* until the deadline after which copies read earlier may be written back: *)
(* before it, only a gateway that canceled lets a request write a copy     *)
(* that does not know the session is used, and then nobody completes it.   *)
(* LoginProofs uses it for the sign-in surface as a whole.                 *)
(***************************************************************************)
EXTENDS QR, TLAPS

-----------------------------------------------------------------------------
(* The requests that serve a session *)

QROps == {"get", "signed", "cancelled", "complete", "refused"}
Statuses == {"pending", "verified", "failed", "expired"}
SessRec == [st : Statuses, used : BOOLEAN, exp : Int, relay : BOOLEAN]
QRReq == [op : QROps, s : Sessions, rec : SessRec]

ReqType ==
  /\ now \in Nat /\ DOMAIN req = Threads
  /\ \A t \in Threads : req[t].op \in QROps => req[t] \in QRReq

-----------------------------------------------------------------------------
(* The inductive invariant of the QR sessions *)

Stored(s) == sess[s] # NoSess

SessType ==
  /\ sess \in [Sessions -> {NoSess} \cup SessRec]
  /\ created \in [Sessions -> {NoSess} \cup SessRec]
  /\ upstream \in [Sessions -> {"waiting", "signed", "cancelled"}]
  /\ verified \in [Sessions -> 0 .. 2]
  /\ webhooks \in [Sessions -> 0 .. 2]

Serves(t, s) == req[t].op \in QROps /\ req[t].s = s
Completes(t, s) == req[t].op = "complete" /\ req[t].s = s

(* A record, stored or copied, is of the session that was created.           *)
Of(rec, s) ==
  created[s] # NoSess /\ rec.exp = created[s].exp /\ rec.relay = created[s].relay

(* Somebody has, or had, the right to complete the session.                  *)
Claimed(s) ==
  \/ \E t \in Threads : Completes(t, s)
  \/ verified[s] # 0
  \/ ~created[s].relay /\ webhooks[s] # 0

(* The copies of a session, in the store and with the requests.              *)
Copies(s) ==
  /\ created[s] = NoSess => verified[s] = 0 /\ webhooks[s] = 0
  /\ Stored(s) => Of(sess[s], s)
  /\ \A t \in Threads : Serves(t, s) => Of(req[t].rec, s)
  /\ \A t \in Threads : Completes(t, s) => req[t].rec.used = TRUE
  /\ \A t \in Threads : Serves(t, s) /\ req[t].op \in {"signed", "cancelled"} =>
       upstream[s] = req[t].op /\ req[t].rec.relay

(* Who may complete it, and what has come of that.                           *)
Completion(s) ==
  created[s] # NoSess =>
    /\ Claimed(s) /\ created[s].relay => upstream[s] = "signed"
    /\ Claimed(s) /\ ~Expired(created[s].exp) /\ Stored(s) => sess[s].used = TRUE
    /\ ~created[s].relay \/ ~Expired(created[s].exp) =>
         /\ \A t, u \in Threads : Completes(t, s) /\ Completes(u, s) => t = u
         /\ \A t \in Threads : Completes(t, s) => verified[s] = 0
         /\ verified[s] <= 1
    /\ ~created[s].relay =>
         /\ \A t \in Threads : Completes(t, s) => webhooks[s] = 0
         /\ webhooks[s] <= 1
    /\ Stored(s) /\ sess[s].st = "verified" => sess[s].used = TRUE /\ verified[s] # 0

(* A signature the app posted to a relay session is about to be refused, and *)
(* nobody else has got, or will get, to complete that session in time.       *)
Refusals(s) ==
  \A t \in Threads : Serves(t, s) /\ req[t].op = "refused" =>
    /\ req[t].rec.used = TRUE /\ created[s].relay
    /\ ~Expired(created[s].exp) =>
         /\ ~Claimed(s)
         /\ Stored(s) => sess[s].used = TRUE \/ upstream[s] = "cancelled"

SessInv == SessType /\ \A s \in Sessions : Copies(s) /\ Completion(s) /\ Refusals(s)

-----------------------------------------------------------------------------
(* What the steps are made of *)

LEMMA IdleFacts == Idle.op = "idle" /\ Idle.op \notin QROps
BY DEF Idle, QROps

(* Serving another request keeps the types, and so does serving none.        *)
LEMMA ServeType ==
  ASSUME ReqType, NEW t \in Threads, NEW r, r.op \in QROps => r \in QRReq, Serve(t, r), now' = now
  PROVE  ReqType'
<1>1. \A u \in Threads : req'[u] = IF u = t THEN r ELSE req[u]
  BY DEF ReqType, Serve
<1>2. now' \in Nat /\ DOMAIN req' = Threads
  BY DEF ReqType, Serve
<1>3. QRReq' = QRReq
  BY DEF QRReq, SessRec
<1> QED BY <1>1, <1>2, <1>3, Zenon DEF ReqType

LEMMA DoneType ==
  ASSUME ReqType, NEW t \in Threads, Done(t), now' = now
  PROVE  ReqType'
BY IdleFacts, ServeType DEF Done

LEMMA StillType ==
  ASSUME ReqType, req' = req, now' \in Nat
  PROVE  ReqType'
BY DEF ReqType, QRReq, SessRec

(* A step that writes nothing into the record of s, or deletes it; and that  *)
(* lets requests read it, look it up at the gateway, or end.                 *)
LEMMA SessionKept ==
  ASSUME NEW s \in Sessions, Copies(s), Completion(s), Refusals(s),
         now \in Int, now' \in Int, now <= now', created[s] # NoSess => created[s].exp \in Int,
         sess'[s] = sess[s] \/ sess'[s] = NoSess,
         upstream'[s] = upstream[s] \/ upstream[s] = "waiting",
         created'[s] = created[s], verified'[s] = verified[s], webhooks'[s] = webhooks[s],
         \A t \in Threads : Serves(t, s)' =>
           \/ req'[t] = req[t]
           \/ /\ req'[t].op \notin {"complete", "refused"} /\ Of(req'[t].rec, s)
              /\ req'[t].op \in {"signed", "cancelled"} =>
                   upstream'[s] = req'[t].op /\ req'[t].rec.relay
  PROVE  Copies(s)' /\ Completion(s)' /\ Refusals(s)'
<1>1. \A t \in Threads : Completes(t, s)' => Completes(t, s) /\ req'[t] = req[t]
  BY DEF Completes, Serves, QROps
<1>2. Claimed(s)' => Claimed(s)
  BY <1>1 DEF Claimed
<1>3. Stored(s)' => Stored(s) /\ sess'[s] = sess[s]
  BY DEF Stored
<1>4. Copies(s)'
  <2>1. Stored(s)' => Of(sess[s], s)'
    BY <1>3 DEF Copies, Of
  <2>2. ASSUME NEW t \in Threads, Serves(t, s)'
        PROVE  /\ Of(req[t].rec, s)'
               /\ req'[t].op \in {"signed", "cancelled"} =>
                    upstream'[s] = req'[t].op /\ req'[t].rec.relay
    <3>1. CASE req'[t] = req[t]
      <4>1. Serves(t, s)
        BY <2>2, <3>1 DEF Serves
      <4> QED BY <3>1, <4>1, SMT DEF Copies, Of
    <3> QED BY <2>2, <3>1, SMT DEF Of
  <2> QED BY <1>1, <2>1, <2>2, SMT DEF Copies
<1>5. created[s] # NoSess /\ ~Expired(created[s].exp)' => ~Expired(created[s].exp)
  BY SMT DEF Expired
<1>6. Completion(s)'
  <2> SUFFICES ASSUME created[s] # NoSess PROVE Completion(s)'
    BY Zenon DEF Completion
  <2>1. (Claimed(s) /\ created[s].relay => upstream[s] = "signed")'
    BY <1>2, SMT DEF Completion
  <2>2. (Claimed(s) /\ ~Expired(created[s].exp) /\ Stored(s) => sess[s].used = TRUE)'
    BY <1>2, <1>3, <1>5, SMT DEF Completion
  <2>3. (Stored(s) /\ sess[s].st = "verified" => sess[s].used = TRUE /\ verified[s] # 0)'
    BY <1>3, SMT DEF Completion
  <2> QED BY <1>1, <1>5, <2>1, <2>2, <2>3, SMT DEF Completion
<1>7. Refusals(s)'
  <2> SUFFICES ASSUME NEW t \in Threads, Serves(t, s)', req'[t].op = "refused"
               PROVE  /\ req'[t].rec.used = TRUE /\ created[s].relay
                      /\ ~Expired(created[s].exp)' =>
                           /\ ~Claimed(s)'
                           /\ Stored(s)' => sess'[s].used = TRUE \/ upstream'[s] = "cancelled"
    BY Zenon DEF Refusals
  <2>1. req'[t] = req[t] /\ Serves(t, s) /\ req[t].op = "refused"
    BY DEF Serves
  <2>2. created[s] # NoSess
    BY <2>1 DEF Copies, Of
  <2>3. /\ req[t].rec.used = TRUE /\ created[s].relay
        /\ ~Expired(created[s].exp) =>
             ~Claimed(s) /\ (Stored(s) => sess[s].used = TRUE \/ upstream[s] = "cancelled")
    BY <2>1, Zenon DEF Refusals
  <2> QED BY <1>2, <1>3, <1>5, <2>1, <2>2, <2>3, SMT
<1> QED BY <1>4, <1>6, <1>7

(* What a request that serves a session is made of.                          *)
LEMMA ServesFacts ==
  ASSUME ReqType, NEW t \in Threads, req[t].op \in QROps
  PROVE  req[t].s \in Sessions /\ req[t].rec \in SessRec
BY DEF ReqType, QRReq

LEMMA SessIntType ==
  ASSUME SessInv, NEW s \in Sessions, created[s] # NoSess
  PROVE  created[s] \in SessRec /\ created[s].exp \in Int
BY DEF SessInv, SessType, SessRec

(* A step that writes one session leaves the others alone.                   *)
LEMMA OneSession ==
  ASSUME SessInv, ReqType, NEW s \in Sessions, SessType', UNCHANGED <<created, upstream, now>>,
         \A d \in Sessions \ {s} :
           sess'[d] = sess[d] /\ verified'[d] = verified[d] /\ webhooks'[d] = webhooks[d],
         \A u \in Threads : req'[u] = req[u] \/ req'[u].op \notin QROps \/ req'[u].s = s,
         Copies(s)', Completion(s)', Refusals(s)'
  PROVE  SessInv'
<1>1. ASSUME NEW d \in Sessions, d # s
      PROVE  Copies(d)' /\ Completion(d)' /\ Refusals(d)'
  <2>1. \A u \in Threads : Serves(u, d)' => req'[u] = req[u]
    BY <1>1 DEF Serves
  <2>2. now \in Int
    BY DEF ReqType
  <2> QED BY <1>1, <2>1, <2>2, SessIntType, SessionKept DEF SessInv
<1> QED BY <1>1 DEF SessInv

(* Create. *)
LEMMA CreateStep ==
  ASSUME ReqType, SessInv, NEW s \in Sessions, Create(s)
  PROVE  SessInv'
<1> USE DEF Create
<1>1. SessType /\ Copies(s)
  BY DEF SessInv
<1>2. PICK relay \in BOOLEAN :
        LET rec == [st |-> "pending", used |-> FALSE, exp |-> now + TTL, relay |-> relay]
        IN  sess' = [sess EXCEPT ![s] = rec] /\ created' = [created EXCEPT ![s] = rec]
  BY Zenon
<1>3. PICK rec \in SessRec : rec = [st |-> "pending", used |-> FALSE, exp |-> now + TTL,
                              relay |-> relay]
  <2>1. now + TTL \in Int
    BY RequestsAssumption DEF ReqType
  <2>2. [st |-> "pending", used |-> FALSE, exp |-> now + TTL, relay |-> relay] \in SessRec
    BY <2>1, Zenon DEF SessRec, Statuses
  <2> QED BY <2>2, Zenon
<1>4. sess' = [sess EXCEPT ![s] = rec] /\ created' = [created EXCEPT ![s] = rec]
  BY <1>2, <1>3, Zenon
<1>5. SessType'
  BY <1>1, <1>4, SMT DEF SessType, SessRec
<1>6. \A d \in Sessions \ {s} : sess'[d] = sess[d] /\ created'[d] = created[d]
  BY <1>1, <1>4 DEF SessType
<1>7. sess'[s] = rec /\ created'[s] = rec
  BY <1>1, <1>4 DEF SessType
<1>8. ASSUME NEW d \in Sessions, d # s
      PROVE  Copies(d)' /\ Completion(d)' /\ Refusals(d)'
  <2>1. now \in Int
    BY DEF ReqType
  <2> QED BY <1>6, <1>8, <2>1, SessIntType, SessionKept DEF SessInv
<1>9. verified'[s] = 0 /\ webhooks'[s] = 0 /\ \A t \in Threads : ~Serves(t, s)
  BY <1>1 DEF Copies, Of
<1>10. \A t \in Threads : ~Serves(t, s)' /\ ~Completes(t, s)'
  BY <1>9 DEF Serves, Completes, QROps
<1>11. Copies(s)'
  <2>1. (Stored(s) => Of(sess[s], s))'
    BY <1>7, Zenon DEF Of, Stored
  <2> QED BY <1>9, <1>10, <2>1, SMT DEF Copies
<1>12. ~Claimed(s)'
  BY <1>9, <1>10 DEF Claimed
<1>13. Completion(s)'
  BY <1>3, <1>7, <1>9, <1>10, <1>12, SMT DEF Completion
<1>14. Refusals(s)'
  BY <1>10 DEF Refusals
<1> QED BY <1>5, <1>8, <1>11, <1>13, <1>14 DEF SessInv

(* complete and fail write the record once more, and end the request.        *)
LEMMA FinishFacts ==
  ASSUME ReqType, SessInv, NEW t \in Threads, NEW s \in Sessions, NEW rec \in SessRec,
         NEW status \in Statuses, Finish(t, s, rec, status)
  PROVE  /\ UNCHANGED <<created, upstream>> => SessType'
         /\ sess'[s] = [rec EXCEPT !.st = status]
         /\ verified'[s] = IF status = "verified" THEN Min2(verified[s] + 1, 2) ELSE verified[s]
         /\ webhooks'[s] = Min2(webhooks[s] + 1, 2)
         /\ \A d \in Sessions \ {s} :
              sess'[d] = sess[d] /\ verified'[d] = verified[d] /\ webhooks'[d] = webhooks[d]
         /\ \A u \in Threads : req'[u] = IF u = t THEN Idle ELSE req[u]
<1> USE DEF Finish, Save
<1>1. SessType
  BY DEF SessInv
<1>2. [rec EXCEPT !.st = status] \in SessRec
  BY DEF SessRec
<1>3. \A n \in 0 .. 2 : Min2(n + 1, 2) \in 0 .. 2
  BY SMT DEF Min2
<1>4. sess' \in [Sessions -> {NoSess} \cup SessRec]
  BY <1>1, <1>2, Zenon DEF SessType
<1>5. webhooks' \in [Sessions -> 0 .. 2] /\ verified' \in [Sessions -> 0 .. 2]
  BY <1>1, <1>3 DEF SessType
<1>6. \A u \in Threads : req'[u] = IF u = t THEN Idle ELSE req[u]
  BY DEF Done, Serve, ReqType
<1>7. UNCHANGED <<created, upstream>> => SessType'
  BY <1>1, <1>4, <1>5 DEF SessType, SessRec
<1>8. /\ sess'[s] = [rec EXCEPT !.st = status]
      /\ \A d \in Sessions \ {s} : sess'[d] = sess[d]
  BY <1>1, Zenon DEF SessType
<1>9. /\ webhooks'[s] = Min2(webhooks[s] + 1, 2)
      /\ verified'[s] = IF status = "verified" THEN Min2(verified[s] + 1, 2) ELSE verified[s]
      /\ \A d \in Sessions \ {s} : verified'[d] = verified[d] /\ webhooks'[d] = webhooks[d]
  BY <1>1 DEF SessType
<1> QED BY <1>6, <1>7, <1>8, <1>9, Zenon

(* A status written into a record changes nothing else of it.                *)
LEMMA StatusFacts ==
  ASSUME NEW rec \in SessRec, NEW status \in Statuses
  PROVE  LET new == [rec EXCEPT !.st = status]
         IN  /\ new \in SessRec /\ new.st = status
             /\ new.used = rec.used /\ new.exp = rec.exp /\ new.relay = rec.relay
BY DEF SessRec

LEMMA UsedFacts ==
  ASSUME NEW rec \in SessRec
  PROVE  LET new == [rec EXCEPT !.used = TRUE]
         IN  /\ new \in SessRec /\ new.st = rec.st
             /\ new.used = TRUE /\ new.exp = rec.exp /\ new.relay = rec.relay
BY Zenon DEF SessRec

(* complete: the request had the right to the session, and spends it.        *)
LEMMA CompleteStep ==
  ASSUME ReqType, SessInv, NEW t \in Threads, Complete(t)
  PROVE  SessInv'
<1> USE DEF Complete
<1>1. req[t].op \in QROps
  BY DEF QROps
<1>2. PICK s \in Sessions, rec \in SessRec : s = req[t].s /\ rec = req[t].rec
  BY <1>1, ServesFacts
<1>3. PICK status \in {"verified", "failed"} : Finish(t, s, rec, status)
  BY <1>2
<1>4. status \in Statuses
  BY DEF Statuses
<1>5. PICK new \in SessRec :
        /\ new = [rec EXCEPT !.st = status]
        /\ new.st = status /\ new.used = rec.used /\ new.exp = rec.exp /\ new.relay = rec.relay
  BY <1>4, StatusFacts, Zenon
<1>6. /\ SessType' /\ sess'[s] = new
      /\ verified'[s] = IF status = "verified" THEN Min2(verified[s] + 1, 2) ELSE verified[s]
      /\ webhooks'[s] = Min2(webhooks[s] + 1, 2)
      /\ \A d \in Sessions \ {s} :
           sess'[d] = sess[d] /\ verified'[d] = verified[d] /\ webhooks'[d] = webhooks[d]
      /\ \A u \in Threads : req'[u] = IF u = t THEN Idle ELSE req[u]
  BY <1>3, <1>4, <1>5, FinishFacts
<1>7. Copies(s) /\ Completion(s) /\ verified[s] \in 0 .. 2 /\ webhooks[s] \in 0 .. 2
  BY DEF SessInv, SessType
<1>8. Serves(t, s) /\ Completes(t, s) /\ Claimed(s)
  BY <1>1, <1>2 DEF Serves, Completes, Claimed
<1>9. Of(rec, s) /\ rec.used = TRUE
  BY <1>2, <1>7, <1>8 DEF Copies
<1>10. /\ \A u \in Threads : Serves(u, s)' => Serves(u, s) /\ req'[u] = req[u] /\ u # t
       /\ \A u \in Threads : Completes(u, s)' => Completes(u, s) /\ req'[u] = req[u] /\ u # t
  BY <1>6, IdleFacts, SMT DEF Serves, Completes
<1>11. Copies(s)'
  <2>1. Of(sess[s], s)'
    BY <1>5, <1>6, <1>9, SMT DEF Of
  <2>2. ASSUME NEW u \in Threads, Serves(u, s)'
        PROVE  Of(req[u].rec, s)'
    <3>1. Of(req[u].rec, s) /\ req'[u] = req[u]
      BY <1>7, <1>10, <2>2 DEF Copies
    <3> QED BY <3>1 DEF Of
  <2>3. created'[s] # NoSess
    BY <1>9 DEF Of
  <2>4. ASSUME NEW u \in Threads
        PROVE  /\ Completes(u, s)' => req'[u].rec.used = TRUE
               /\ Serves(u, s)' /\ req'[u].op \in {"signed", "cancelled"} =>
                    upstream'[s] = req'[u].op /\ req'[u].rec.relay
    BY <1>7, <1>10, Zenon DEF Copies
  <2> QED BY <2>1, <2>2, <2>3, <2>4, Zenon DEF Copies
<1>12. Completion(s)'
  <2>1. /\ created[s] # NoSess
        /\ created[s].relay => upstream[s] = "signed"
        /\ new.used = TRUE
    BY <1>5, <1>7, <1>8, <1>9 DEF Of, Completion
  <2>2. ASSUME ~created[s].relay \/ ~Expired(created[s].exp)
        PROVE  verified[s] = 0 /\ verified'[s] <= 1 /\ \A u \in Threads : ~Completes(u, s)'
    <3>1. verified[s] = 0 /\ \A u, v \in Threads : Completes(u, s) /\ Completes(v, s) => u = v
      BY <1>7, <1>8, <2>1, <2>2, SMT DEF Completion
    <3> QED BY <1>6, <1>8, <1>10, <3>1, SMT DEF Min2
  <2>3. ASSUME ~created[s].relay
        PROVE  webhooks'[s] <= 1
    <3>1. webhooks[s] = 0
      BY <1>7, <1>8, <2>1, <2>3, SMT DEF Completion
    <3> QED BY <1>6, <3>1, SMT DEF Min2
  <2>4. new.st = "verified" => verified'[s] # 0
    BY <1>5, <1>6, <1>7, SMT DEF Min2
  <2>5. Expired(created[s].exp)' <=> Expired(created[s].exp)
    BY DEF Expired
  <2> QED BY <1>6, <2>1, <2>2, <2>3, <2>4, <2>5, SMT DEF Completion
<1>13. \A u \in Threads : req'[u] = req[u] \/ req'[u].op \notin QROps \/ req'[u].s = s
  BY <1>6, IdleFacts
<1>14. Refusals(s)'
  <2>1. Refusals(s) /\ (Expired(created[s].exp)' <=> Expired(created[s].exp))
    BY DEF SessInv, Expired
  <2> QED BY <1>8, <1>10, <2>1, Zenon DEF Refusals
<1> QED BY <1>6, <1>11, <1>12, <1>13, <1>14, OneSession

(* PollRejected, GetExpire and SubmitRefused: a copy that was read earlier   *)
(* is written back over whatever the session has become.  Only the deadline, *)
(* a gateway that canceled, or a signature refused lets it: then nobody has  *)
(* completed the session in time.  Submit past the deadline does no more.    *)
LEMMA StaleStep ==
  ASSUME ReqType, SessInv, NEW s \in Sessions, NEW new \in SessRec,
         Of(new, s), new.st # "verified",
         \/ Expired(created[s].exp)
         \/ created[s].relay /\ upstream[s] = "cancelled"
         \/ ~Claimed(s) /\ new.used = TRUE,
         UNCHANGED <<created, upstream, now, verified>>, SessType', sess'[s] = new,
         webhooks'[s] # webhooks[s] => created[s].relay,
         \A d \in Sessions \ {s} : sess'[d] = sess[d] /\ webhooks'[d] = webhooks[d],
         \A u \in Threads : req'[u] = req[u] \/ req'[u] = Idle
  PROVE  SessInv'
<1>1. Copies(s) /\ Completion(s) /\ created[s] # NoSess
  BY DEF SessInv, Of
<1>2. /\ \A u \in Threads : Serves(u, s)' => Serves(u, s) /\ req'[u] = req[u]
      /\ \A u \in Threads : Completes(u, s)' => Completes(u, s) /\ req'[u] = req[u]
  BY IdleFacts, SMT DEF Serves, Completes
<1>3. Copies(s)'
  <2>1. Of(sess[s], s)'
    BY SMT DEF Of
  <2>2. ASSUME NEW u \in Threads, Serves(u, s)'
        PROVE  Of(req[u].rec, s)'
    <3>1. Of(req[u].rec, s) /\ req'[u] = req[u]
      BY <1>1, <1>2, <2>2 DEF Copies
    <3> QED BY <3>1 DEF Of
  <2>3. ASSUME NEW u \in Threads
        PROVE  /\ Completes(u, s)' => req'[u].rec.used = TRUE
               /\ Serves(u, s)' /\ req'[u].op \in {"signed", "cancelled"} =>
                    upstream'[s] = req'[u].op /\ req'[u].rec.relay
    BY <1>1, <1>2, ZenonT(30) DEF Copies
  <2> QED BY <1>1, <2>1, <2>2, <2>3, Zenon DEF Copies
<1>4. Claimed(s)' => Claimed(s)
  <2>1. (\E u \in Threads : Completes(u, s))' => \E u \in Threads : Completes(u, s)
    BY <1>2
  <2>2. verified'[s] # 0 => verified[s] # 0
    OBVIOUS
  <2>3. (~created[s].relay /\ webhooks[s] # 0)' => ~created[s].relay /\ webhooks[s] # 0
    OBVIOUS
  <2> QED BY <2>1, <2>2, <2>3, Zenon DEF Claimed
<1>5. Claimed(s) => Expired(created[s].exp)
  BY <1>1, SMT DEF Completion
<1>6. Expired(created[s].exp)' <=> Expired(created[s].exp)
  BY DEF Expired
<1>7. Completion(s)'
  <2>1. ~created[s].relay => webhooks'[s] = webhooks[s]
    OBVIOUS
  <2> QED BY <1>1, <1>2, <1>4, <1>5, <1>6, <2>1, Zenon DEF Completion
<1>8. \A u \in Threads : req'[u] = req[u] \/ req'[u].op \notin QROps \/ req'[u].s = s
  BY IdleFacts
<1>9. Refusals(s)'
  <2>1. Refusals(s)
    BY DEF SessInv
  <2>2. ~Expired(created[s].exp)' => new.used = TRUE \/ upstream'[s] = "cancelled"
    BY <1>6
  <2> QED BY <1>2, <1>4, <1>6, <2>1, <2>2, Zenon DEF Refusals
<1> QED BY <1>3, <1>7, <1>8, <1>9, OneSession

LEMMA GetExpireStep ==
  ASSUME ReqType, SessInv, NEW t \in Threads, GetExpire(t)
  PROVE  SessInv'
<1> USE DEF GetExpire
<1>1. req[t].op \in QROps
  BY DEF QROps
<1>2. PICK s \in Sessions, rec \in SessRec : s = req[t].s /\ rec = req[t].rec
  BY <1>1, ServesFacts
<1>3. "expired" \in Statuses
  BY DEF Statuses
<1>4. PICK new \in SessRec :
        /\ new = [rec EXCEPT !.st = "expired"]
        /\ new.st = "expired" /\ new.used = rec.used /\ new.exp = rec.exp /\ new.relay = rec.relay
  BY <1>3, StatusFacts, Zenon
<1>5. SessType /\ Copies(s)
  BY DEF SessInv
<1>6. sess' = [sess EXCEPT ![s] = new] /\ req' = [req EXCEPT ![t] = Idle]
  BY <1>2, <1>4 DEF Save, Done, Serve
<1>7. SessType' /\ sess'[s] = new /\ \A d \in Sessions \ {s} : sess'[d] = sess[d]
  BY <1>5, <1>6, SMT DEF SessType, SessRec
<1>8. \A u \in Threads : req'[u] = IF u = t THEN Idle ELSE req[u]
  BY <1>6 DEF ReqType
<1>9. Serves(t, s) /\ Of(rec, s)
  BY <1>1, <1>2, <1>5 DEF Serves, Copies
<1>10. Of(new, s) /\ Expired(created[s].exp) /\ new.st # "verified"
  BY <1>2, <1>4, <1>9 DEF Of
<1>11. UNCHANGED <<created, upstream, now, verified, webhooks>>
  OBVIOUS
<1> QED BY <1>7, <1>8, <1>10, <1>11, StaleStep, Zenon

LEMMA PollRejectedStep ==
  ASSUME ReqType, SessInv, NEW t \in Threads, PollRejected(t)
  PROVE  SessInv'
<1> USE DEF PollRejected
<1>1. req[t].op \in QROps
  BY DEF QROps
<1>2. PICK s \in Sessions, rec \in SessRec : s = req[t].s /\ rec = req[t].rec
  BY <1>1, ServesFacts
<1>3. "failed" \in Statuses
  BY DEF Statuses
<1>4. PICK new \in SessRec :
        /\ new = [rec EXCEPT !.st = "failed"]
        /\ new.st = "failed" /\ new.used = rec.used /\ new.exp = rec.exp /\ new.relay = rec.relay
  BY <1>3, StatusFacts, Zenon
<1>5. Finish(t, s, rec, "failed") /\ verified' = verified
  BY <1>2 DEF Finish
<1>6. /\ SessType' /\ sess'[s] = new
      /\ \A d \in Sessions \ {s} : sess'[d] = sess[d] /\ webhooks'[d] = webhooks[d]
      /\ \A u \in Threads : req'[u] = IF u = t THEN Idle ELSE req[u]
  BY <1>3, <1>4, <1>5, FinishFacts
<1>7. Copies(s)
  BY DEF SessInv
<1>8. Serves(t, s) /\ Of(rec, s) /\ upstream[s] = "cancelled" /\ rec.relay
  BY <1>1, <1>2, <1>7 DEF Serves, Copies
<1>9. Of(new, s) /\ created[s].relay /\ new.st # "verified"
  BY <1>4, <1>8, SMTT(20) DEF Of
<1> QED BY <1>5, <1>6, <1>8, <1>9, StaleStep, Zenon

LEMMA SubmitRefusedStep ==
  ASSUME ReqType, SessInv, NEW t \in Threads, SubmitRefused(t)
  PROVE  SessInv'
<1> USE DEF SubmitRefused
<1>1. req[t].op \in QROps
  BY DEF QROps
<1>2. PICK s \in Sessions, rec \in SessRec : s = req[t].s /\ rec = req[t].rec
  BY <1>1, ServesFacts
<1>3. "failed" \in Statuses
  BY DEF Statuses
<1>4. PICK new \in SessRec :
        /\ new = [rec EXCEPT !.st = "failed"]
        /\ new.st = "failed" /\ new.used = rec.used /\ new.exp = rec.exp /\ new.relay = rec.relay
  BY <1>3, StatusFacts, Zenon
<1>5. Finish(t, s, rec, "failed") /\ verified' = verified
  BY <1>2 DEF Finish
<1>6. /\ SessType' /\ sess'[s] = new
      /\ \A d \in Sessions \ {s} : sess'[d] = sess[d] /\ webhooks'[d] = webhooks[d]
      /\ \A u \in Threads : req'[u] = IF u = t THEN Idle ELSE req[u]
  BY <1>3, <1>4, <1>5, FinishFacts
<1>7. Copies(s) /\ Refusals(s)
  BY DEF SessInv
<1>8. Serves(t, s) /\ Of(rec, s)
  BY <1>1, <1>2, <1>7 DEF Serves, Copies
<1>9. /\ rec.used = TRUE /\ created[s].relay
      /\ Expired(created[s].exp) \/ ~Claimed(s)
  BY <1>2, <1>7, <1>8, Zenon DEF Refusals
<1>10. Of(new, s) /\ new.used = TRUE /\ new.st # "verified"
  <2>1. Of(new, s)
    BY <1>4, <1>8 DEF Of
  <2>2. "failed" # "verified"
    OBVIOUS
  <2> QED BY <1>4, <1>9, <2>1, <2>2, Zenon
<1> QED BY <1>5, <1>6, <1>9, <1>10, StaleStep, Zenon

(* Submit and PollSigned: whoever finds the session unused takes it, to      *)
(* complete it, or to refuse the signature where the gateway has it.         *)
LEMMA TakeStep ==
  ASSUME ReqType, ReqType', SessInv, NEW t \in Threads, NEW s \in Sessions, NEW new \in SessRec,
         NEW op \in {"complete", "refused"},
         Stored(s), sess[s].used # TRUE, Of(new, s), new.used = TRUE,
         sess' = [sess EXCEPT ![s] = new], UNCHANGED <<created, upstream, now, verified, webhooks>>,
         op = "complete" => /\ created[s].relay => upstream[s] = "signed"
                            /\ created[s].relay \/ ~Expired(created[s].exp),
         op = "refused" => created[s].relay /\ ~Expired(created[s].exp),
         new.st # "verified", \A u \in Threads : u # t => req'[u] = req[u],
         req'[t] = [op |-> op, s |-> s, rec |-> new]
  PROVE  SessInv'
<1>1. Copies(s) /\ Completion(s) /\ created[s] # NoSess /\ SessType
  BY DEF SessInv, Of
<1>2. SessType' /\ sess'[s] = new /\ \A d \in Sessions \ {s} : sess'[d] = sess[d]
  BY <1>1, SMT DEF SessType, SessRec
<1>3. /\ Serves(t, s)' /\ req'[t].rec = new /\ req'[t].op = op
      /\ \A u \in Threads : Serves(u, s)' => u = t \/ (Serves(u, s) /\ req'[u] = req[u])
      /\ \A u \in Threads : Completes(u, s)' => u = t \/ (Completes(u, s) /\ req'[u] = req[u])
  BY DEF Serves, Completes, QROps
<1>4. Copies(s)'
  <2>1. Of(sess[s], s)'
    BY <1>2, SMT DEF Of
  <2>2. ASSUME NEW u \in Threads, Serves(u, s)'
        PROVE  Of(req[u].rec, s)'
    <3>1. Of(req'[u].rec, s)
      BY <1>1, <1>3, <2>2 DEF Copies
    <3> QED BY <3>1 DEF Of
  <2>3. ASSUME NEW u \in Threads
        PROVE  /\ Completes(u, s)' => req'[u].rec.used = TRUE
               /\ Serves(u, s)' /\ req'[u].op \in {"signed", "cancelled"} =>
                    upstream'[s] = req'[u].op /\ req'[u].rec.relay
    BY <1>1, <1>3, ZenonT(30) DEF Copies
  <2> QED BY <1>1, <2>1, <2>2, <2>3, Zenon DEF Copies
<1>5. ~Expired(created[s].exp) => ~Claimed(s)
  BY <1>1, Zenon DEF Completion
<1>6. ~Expired(created[s].exp) =>
        /\ verified[s] = 0 /\ (~created[s].relay => webhooks[s] = 0)
        /\ \A u \in Threads : ~Completes(u, s)
  BY <1>5, Zenon DEF Claimed
<1>7. Expired(created[s].exp)' <=> Expired(created[s].exp)
  BY DEF Expired
<1>8. op = "refused" => ~Claimed(s)'
  BY <1>3, <1>6, SMT DEF Claimed, Completes
<1>9. Completion(s)'
  <2>1. ASSUME ~created[s].relay \/ ~Expired(created[s].exp)
        PROVE  /\ \A u, v \in Threads : Completes(u, s)' /\ Completes(v, s)' => u = v
               /\ verified[s] = 0
    BY <1>3, <1>6, <2>1, Zenon
  <2>2. ASSUME ~created[s].relay
        PROVE  webhooks[s] = 0
    BY <1>6, <2>2, Zenon
  <2>3. (Claimed(s) /\ created[s].relay => upstream[s] = "signed")'
    BY <1>8
  <2> QED BY <1>2, <1>7, <2>1, <2>2, <2>3, SMT DEF Completion
<1>10. Refusals(s)'
  <2>1. Refusals(s)
    BY DEF SessInv
  <2>2. ASSUME NEW u \in Threads, u # t, Serves(u, s)', req'[u].op = "refused"
        PROVE  /\ req'[u].rec.used = TRUE /\ created[s].relay
               /\ Expired(created[s].exp) \/ op = "refused"
    <3>1. Serves(u, s) /\ req'[u] = req[u]
      BY <1>3, <2>2
    <3>2. /\ req[u].rec.used = TRUE /\ created[s].relay
          /\ ~Expired(created[s].exp) => upstream[s] = "cancelled"
      BY <2>1, <2>2, <3>1, Zenon DEF Refusals
    <3>3. ~Expired(created[s].exp) => op # "complete"
      BY <3>2
    <3> QED BY <3>1, <3>2, <3>3, Zenon
  <2>3. ASSUME NEW u \in Threads, Serves(u, s)', req'[u].op = "refused"
        PROVE  /\ req'[u].rec.used = TRUE /\ created'[s].relay
               /\ ~Expired(created[s].exp)' => ~Claimed(s)'
    <3>1. CASE u = t
      BY <1>3, <1>8, <2>3, <3>1, Zenon
    <3>2. CASE u # t
      BY <1>7, <1>8, <2>2, <2>3, <3>2, Zenon
    <3> QED BY <3>1, <3>2
  <2> QED BY <1>2, <2>3, Zenon DEF Refusals
<1>11. \A u \in Threads : req'[u] = req[u] \/ req'[u].op \notin QROps \/ req'[u].s = s
  BY SMTT(20)
<1> QED BY <1>2, <1>4, <1>9, <1>10, <1>11, OneSession, SMTT(20)

LEMMA SubmitStep ==
  ASSUME ReqType, SessInv, NEW t \in Threads, NEW s \in Sessions, Submit(t, s)
  PROVE  ReqType' /\ SessInv'
<1>1. SessType /\ Copies(s) /\ Completion(s) /\ Stored(s) /\ sess[s].used # TRUE
  BY Zenon DEF SessInv, Submit, Consumable1, Stored
<1>2. Of(sess[s], s) /\ sess[s] \in SessRec /\ sess[s].st # "verified"
  <2>1. Of(sess[s], s) /\ created[s] # NoSess
    BY <1>1 DEF Copies, Of
  <2>2. sess[s] \in SessRec
    BY <1>1 DEF SessType, Stored
  <2>3. sess[s].st # "verified"
    BY <1>1, <2>1, Zenon DEF Completion
  <2> QED BY <2>1, <2>2, <2>3, SMTT(20)
<1>3. PICK new \in SessRec :
        /\ new = [sess[s] EXCEPT !.used = TRUE] /\ new.st = sess[s].st
        /\ new.used = TRUE /\ new.exp = sess[s].exp /\ new.relay = sess[s].relay
  BY <1>2, UsedFacts, Zenon
<1>4. Of(new, s) /\ new.st # "verified" /\ new.exp = created[s].exp /\ new.relay = created[s].relay
  BY <1>2, <1>3 DEF Of
<1>5. Free(t) /\ UNCHANGED <<created, upstream, now>> /\ DOMAIN req = Threads
  BY DEF Submit, ReqType
<1>6. /\ Save(s, new) /\ UNCHANGED <<verified, webhooks>>
      /\ \/ Expired(new.exp) /\ req' = req
         \/ \E op \in {"complete", "refused"} :
              /\ ~Expired(new.exp) /\ (op = "refused" <=> new.relay)
              /\ Serve(t, [op |-> op, s |-> s, rec |-> new])
  BY <1>3, Zenon DEF Submit
<1>7. /\ sess' = [sess EXCEPT ![s] = new] /\ sess'[s] = new
      /\ \A d \in Sessions \ {s} : sess'[d] = sess[d]
      /\ sess' \in [Sessions -> {NoSess} \cup SessRec]
  BY <1>1, <1>6 DEF Save, SessType
<1>8. CASE Expired(new.exp) /\ req' = req
  <2>1. SessType'
    BY <1>1, <1>5, <1>6, <1>7 DEF SessType, SessRec
  <2>2. ReqType'
    BY <1>5, <1>8, StillType DEF ReqType
  <2>3. /\ \A u \in Threads : req'[u] = req[u]
        /\ \A d \in Sessions \ {s} : sess'[d] = sess[d] /\ webhooks'[d] = webhooks[d]
        /\ sess'[s] = new /\ webhooks'[s] = webhooks[s]
        /\ UNCHANGED <<created, upstream, now, verified>>
    BY <1>5, <1>6, <1>7, <1>8
  <2> QED BY <1>4, <1>8, <2>1, <2>2, <2>3, StaleStep, Zenon
<1>9. CASE \E op \in {"complete", "refused"} :
             /\ ~Expired(new.exp) /\ (op = "refused" <=> new.relay)
             /\ Serve(t, [op |-> op, s |-> s, rec |-> new])
  <2>1. PICK op \in {"complete", "refused"} :
          /\ ~Expired(new.exp) /\ (op = "refused" <=> new.relay)
          /\ Serve(t, [op |-> op, s |-> s, rec |-> new])
    BY <1>9, Zenon
  <2>2. PICK r \in QRReq : r = [op |-> op, s |-> s, rec |-> new]
    BY Zenon DEF QRReq, QROps
  <2>3. ReqType'
    BY <1>5, <2>1, <2>2, ServeType
  <2>4. /\ req'[t] = [op |-> op, s |-> s, rec |-> new]
        /\ \A u \in Threads : u # t => req'[u] = req[u]
    BY <1>5, <2>1, SMTT(20) DEF Serve
  <2>5. /\ op = "complete" => /\ created[s].relay => upstream[s] = "signed"
                              /\ created[s].relay \/ ~Expired(created[s].exp)
        /\ op = "refused" => created[s].relay /\ ~Expired(created[s].exp)
        /\ UNCHANGED <<created, upstream, now, verified, webhooks>>
    BY <1>4, <1>5, <1>6, <2>1
  <2> QED BY <1>1, <1>3, <1>4, <1>7, <2>3, <2>4, <2>5, TakeStep, Zenon
<1> QED BY <1>6, <1>8, <1>9

LEMMA PollSignedStep ==
  ASSUME ReqType, SessInv, NEW t \in Threads, PollSigned(t)
  PROVE  ReqType' /\ SessInv'
<1> USE DEF PollSigned
<1>1. req[t].op \in QROps
  BY DEF QROps
<1>2. PICK s \in Sessions, rec \in SessRec : s = req[t].s /\ rec = req[t].rec
  BY <1>1, ServesFacts
<1>3. SessType /\ Copies(s) /\ Completion(s) /\ Refusals(s) /\ DOMAIN req = Threads
  BY DEF SessInv, ReqType
<1>4. Serves(t, s) /\ Of(rec, s) /\ upstream[s] = "signed" /\ rec.relay
  BY <1>1, <1>2, <1>3 DEF Serves, Copies
<1>5. CASE Consumable1(s)
  <2>1. Stored(s) /\ sess[s].used # TRUE
    BY <1>5, Zenon DEF Consumable1, Stored
  <2>2. Of(sess[s], s) /\ created[s] # NoSess
    BY <1>3, <2>1 DEF Copies, Of
  <2>3. sess[s] \in SessRec
    BY <1>3, <2>1, Zenon DEF SessType, Stored
  <2>4. sess[s].st # "verified"
    BY <1>3, <2>1, <2>2, Zenon DEF Completion
  <2>5. PICK new \in SessRec :
          /\ new = [sess[s] EXCEPT !.used = TRUE] /\ new.st = sess[s].st
          /\ new.used = TRUE /\ new.exp = sess[s].exp /\ new.relay = sess[s].relay
    BY <2>3, UsedFacts, Zenon
  <2>6. Of(new, s) /\ new.st # "verified" /\ created[s].relay
    BY <1>4, <2>2, <2>4, <2>5 DEF Of
  <2>7. sess' = [sess EXCEPT ![s] = new] /\ Serve(t, [op |-> "complete", s |-> s, rec |-> new])
    BY <1>2, <1>5, <2>5, Zenon DEF Save
  <2>8. PICK r \in QRReq : r = [op |-> "complete", s |-> s, rec |-> new]
    BY Zenon DEF QRReq, QROps
  <2>9. ReqType'
    BY <2>7, <2>8, ServeType
  <2>10. /\ req'[t] = [op |-> "complete", s |-> s, rec |-> new]
         /\ \A u \in Threads : u # t => req'[u] = req[u]
    BY <1>3, <2>7 DEF Serve
  <2>11. "complete" \in {"complete", "refused"} /\ "complete" # "refused"
    OBVIOUS
  <2> QED BY <1>4, <2>1, <2>5, <2>6, <2>7, <2>9, <2>10, <2>11, TakeStep, Zenon
<1>6. CASE ~Consumable1(s)
  <2>1. Done(t) /\ UNCHANGED qrVars
    BY <1>2, <1>6 DEF qrVars
  <2>2. ReqType'
    BY <2>1, DoneType
  <2>3. \A u \in Threads : req'[u] = req[u] \/ req'[u].op \notin QROps
    BY <1>3, <2>1, IdleFacts DEF Done, Serve
  <2>4. \A d \in Sessions \ {s} :
           sess'[d] = sess[d] /\ verified'[d] = verified[d] /\ webhooks'[d] = webhooks[d]
    BY <2>1 DEF qrVars
  <2>5. SessType' /\ now \in Int
    BY <1>3, <2>1 DEF SessType, SessRec, qrVars, ReqType
  <2>6. \A u \in Threads : Serves(u, s)' => req'[u] = req[u]
    BY <2>3 DEF Serves
  <2>7. Copies(s)' /\ Completion(s)' /\ Refusals(s)'
    BY <1>3, <2>1, <2>5, <2>6, SessIntType, SessionKept DEF qrVars
  <2> QED BY <2>2, <2>3, <2>4, <2>5, <2>7, OneSession
<1> QED BY <1>5, <1>6

(* The steps that write no record: requests that begin, look or end, the     *)
(* gateway, the reaper, the clock and a restart.                             *)
LEMMA QuietStep ==
  ASSUME ReqType, ReqType', SessInv, SessType', now <= now',
         UNCHANGED <<created, verified, webhooks>>,
         \A s \in Sessions : sess'[s] = sess[s] \/ sess'[s] = NoSess,
         \A s \in Sessions : upstream'[s] = upstream[s] \/ upstream[s] = "waiting",
         \A t \in Threads :
           \/ req'[t] = req[t]
           \/ req'[t].op \notin QROps
           \/ /\ req'[t].op \notin {"complete", "refused"} /\ Of(req'[t].rec, req'[t].s)
              /\ req'[t].op \in {"signed", "cancelled"} =>
                   upstream'[req'[t].s] = req'[t].op /\ req'[t].rec.relay
  PROVE  SessInv'
<1>1. ASSUME NEW s \in Sessions
      PROVE  Copies(s)' /\ Completion(s)' /\ Refusals(s)'
  <2>1. now \in Int /\ now' \in Int
    BY DEF ReqType
  <2>2. ASSUME NEW t \in Threads, Serves(t, s)'
        PROVE  \/ req'[t] = req[t]
               \/ /\ req'[t].op \notin {"complete", "refused"} /\ Of(req'[t].rec, s)
                  /\ req'[t].op \in {"signed", "cancelled"} =>
                       upstream'[s] = req'[t].op /\ req'[t].rec.relay
    BY <2>2, Zenon DEF Serves
  <2> QED BY <2>1, <2>2, SessIntType, SessionKept, SMTT(20) DEF SessInv
<1> QED BY <1>1, SMTT(20) DEF SessInv

LEMMA GetBeginStep ==
  ASSUME ReqType, SessInv, NEW t \in Threads, NEW s \in Sessions, GetBegin(t, s)
  PROVE  ReqType' /\ SessInv'
<1> USE DEF GetBegin
<1>1. SessType /\ Copies(s) /\ Stored(s) /\ DOMAIN req = Threads /\ now \in Int
  BY SMTT(20) DEF SessInv, Stored, ReqType
<1>2. sess[s] \in SessRec /\ Of(sess[s], s)
  BY <1>1 DEF SessType, Stored, Copies
<1>3. PICK r \in QRReq : r = [op |-> "get", s |-> s, rec |-> sess[s]]
  BY <1>2 DEF QRReq, QROps
<1>4. Serve(t, r)
  BY <1>3
<1>5. ReqType'
  BY <1>4, ServeType
<1>6. \A u \in Threads : req'[u] = IF u = t THEN r ELSE req[u]
  BY <1>1, <1>4 DEF Serve
<1>7. SessType'
  BY <1>1 DEF SessType, SessRec
<1>8. r.op = "get" /\ r.s = s /\ Of(r.rec, s)
  BY <1>2, <1>3
<1>9. \A u \in Threads : req'[u] = req[u] \/ (req'[u].op = "get" /\ Of(req'[u].rec, req'[u].s))
  BY <1>6, <1>8, Zenon
<1> QED BY <1>1, <1>5, <1>7, <1>9, QuietStep

LEMMA GetPollStep ==
  ASSUME ReqType, SessInv, NEW t \in Threads, GetPoll(t)
  PROVE  ReqType' /\ SessInv'
<1> USE DEF GetPoll
<1>1. req[t].op \in QROps
  BY DEF QROps
<1>2. PICK s \in Sessions, rec \in SessRec : s = req[t].s /\ rec = req[t].rec
  BY <1>1, ServesFacts
<1>3. SessType /\ Copies(s) /\ DOMAIN req = Threads /\ now \in Int
  BY DEF SessInv, ReqType
<1>4. Serves(t, s) /\ Of(rec, s)
  BY <1>1, <1>2, <1>3 DEF Serves, Copies
<1>5. SessType'
  BY <1>3 DEF SessType, SessRec
<1>6. CASE Done(t)
  <2>1. ReqType'
    BY <1>6, DoneType
  <2>2. \A u \in Threads : req'[u] = req[u] \/ req'[u].op \notin QROps
    BY <1>3, <1>6, IdleFacts DEF Done, Serve
  <2> QED BY <1>3, <1>5, <2>1, <2>2, QuietStep
<1>7. CASE rec.relay /\ upstream[s] # "waiting" /\ Serve(t, [req[t] EXCEPT !.op = upstream[s]])
  <2>1. upstream[s] \in {"signed", "cancelled"}
    BY <1>3, <1>7 DEF SessType
  <2>2. req[t] \in QRReq
    BY <1>1 DEF ReqType
  <2>3. PICK r \in QRReq : /\ r = [req[t] EXCEPT !.op = upstream[s]]
                           /\ r.op = upstream[s] /\ r.s = s /\ r.rec = rec
    BY <1>2, <2>1, <2>2, SMT DEF QRReq, QROps
  <2>4. Serve(t, r)
    BY <1>7, <2>3
  <2>5. ReqType'
    BY <2>4, ServeType
  <2>6. \A u \in Threads : req'[u] = IF u = t THEN r ELSE req[u]
    BY <1>3, <2>4 DEF Serve
  <2>7. /\ r.op \notin {"complete", "refused"} /\ Of(r.rec, r.s)
        /\ r.op \in {"signed", "cancelled"} => upstream'[r.s] = r.op /\ r.rec.relay
    BY <1>4, <1>7, <2>1, <2>3
  <2>8. \A u \in Threads :
          \/ req'[u] = req[u]
          \/ /\ req'[u].op \notin {"complete", "refused"} /\ Of(req'[u].rec, req'[u].s)
             /\ req'[u].op \in {"signed", "cancelled"} =>
                  upstream'[req'[u].s] = req'[u].op /\ req'[u].rec.relay
    BY <2>6, <2>7, Zenon
  <2> QED BY <1>3, <1>5, <2>5, <2>8, QuietStep
<1> QED BY <1>2, <1>6, <1>7

LEMMA GatewayStep ==
  ASSUME ReqType, SessInv, NEW s \in Sessions, Gateway(s)
  PROVE  ReqType' /\ SessInv'
<1> USE DEF Gateway
<1>1. SessType /\ now \in Int
  BY DEF SessInv, ReqType
<1>2. ReqType'
  BY StillType DEF ReqType
<1>3. SessType'
  BY <1>1 DEF SessType, SessRec
<1>4. \A d \in Sessions : upstream'[d] = upstream[d] \/ upstream[d] = "waiting"
  BY <1>1 DEF SessType
<1> QED BY <1>1, <1>2, <1>3, <1>4, QuietStep

LEMMA ReapSessionsStep ==
  ASSUME ReqType, SessInv, ReapSessions
  PROVE  ReqType' /\ SessInv'
<1> USE DEF ReapSessions
<1>1. SessType /\ now \in Int
  BY DEF SessInv, ReqType
<1>2. ReqType'
  BY StillType DEF ReqType
<1>3. \A s \in Sessions : sess'[s] = sess[s] \/ sess'[s] = NoSess
  BY Zenon
<1>4. sess' \in [Sessions -> {NoSess} \cup SessRec]
  BY <1>1, Zenon DEF SessType
<1>5. SessType'
  BY <1>1, <1>4 DEF SessType, SessRec
<1> QED BY <1>1, <1>2, <1>3, <1>5, QuietStep

(* Every step of the QR sessions keeps their part of the invariant.          *)
LEMMA QRNextStep ==
  ASSUME ReqType, SessInv, QRNext
  PROVE  ReqType' /\ SessInv'
<1>1. ASSUME NEW s \in Sessions, Create(s)
      PROVE  ReqType' /\ SessInv'
  <2>1. ReqType'
    BY <1>1, StillType DEF Create, ReqType
  <2> QED BY <1>1, <2>1, CreateStep
<1>2. ASSUME NEW t \in Threads, Complete(t) \/ SubmitRefused(t) \/ GetExpire(t) \/ PollRejected(t)
      PROVE  ReqType' /\ SessInv'
  <2>1. Done(t) /\ now' = now
    BY <1>2, Zenon DEF Complete, SubmitRefused, GetExpire, PollRejected, Finish
  <2>2. ReqType'
    BY <2>1, DoneType
  <2> QED BY <1>2, <2>2, CompleteStep, SubmitRefusedStep, GetExpireStep, PollRejectedStep
<1> QED BY <1>1, <1>2, GatewayStep, SubmitStep, GetBeginStep, GetPollStep, PollSignedStep,
           ReapSessionsStep, Zenon DEF QRNext

(* What these steps do to the requests of anybody else: nothing.             *)
Served == QROps \cup {"idle"}

LEMMA QRServesQR ==
  ASSUME ReqType, SessInv, QRNext
  PROVE  \A t \in Threads : req'[t] = req[t] \/ req'[t].op \in Served
<1>1. DOMAIN req = Threads /\ SessType
  BY DEF ReqType, SessInv
<1>2. ASSUME NEW t \in Threads, Done(t)
      PROVE  \A u \in Threads : req'[u] = req[u] \/ req'[u].op \in Served
  BY <1>1, <1>2, IdleFacts DEF Done, Serve, Served
<1>3. ASSUME NEW t \in Threads, NEW r, r.op \in QROps, Serve(t, r)
      PROVE  \A u \in Threads : req'[u] = req[u] \/ req'[u].op \in Served
  BY <1>1, <1>3 DEF Serve, Served
<1>4. ASSUME NEW t \in Threads, NEW s \in Sessions, Submit(t, s)
      PROVE  \A u \in Threads : req'[u] = req[u] \/ req'[u].op \in Served
  <2>1. PICK rec : \/ req' = req
                   \/ Serve(t, [op |-> "complete", s |-> s, rec |-> rec])
                   \/ Serve(t, [op |-> "refused", s |-> s, rec |-> rec])
    BY <1>4, Zenon DEF Submit
  <2>2. /\ [op |-> "complete", s |-> s, rec |-> rec].op \in QROps
        /\ [op |-> "refused", s |-> s, rec |-> rec].op \in QROps
    BY DEF QROps
  <2> QED BY <1>3, <2>1, <2>2, Zenon
<1>5. ASSUME NEW t \in Threads, NEW s \in Sessions, GetBegin(t, s)
      PROVE  \A u \in Threads : req'[u] = req[u] \/ req'[u].op \in Served
  <2>1. [op |-> "get", s |-> s, rec |-> sess[s]].op \in QROps
    BY DEF QROps
  <2> QED BY <1>3, <1>5, <2>1, Zenon DEF GetBegin
<1>6. ASSUME NEW t \in Threads, GetPoll(t)
      PROVE  \A u \in Threads : req'[u] = req[u] \/ req'[u].op \in Served
  <2>1. CASE Done(t)
    BY <1>2, <2>1
  <2>2. CASE upstream[req[t].s] # "waiting" /\ Serve(t, [req[t] EXCEPT !.op = upstream[req[t].s]])
    <3>1. req[t].op \in QROps
      BY <1>6 DEF GetPoll, QROps
    <3>2. req[t] \in QRReq /\ req[t].s \in Sessions
      BY <3>1, ServesFacts DEF ReqType
    <3>3. upstream[req[t].s] \in QROps
      BY <1>1, <2>2, <3>2 DEF SessType, QROps
    <3>4. [req[t] EXCEPT !.op = upstream[req[t].s]].op \in QROps
      BY <3>2, <3>3 DEF QRReq
    <3> QED BY <1>3, <2>2, <3>4, Zenon
  <2> QED BY <1>6, <2>1, <2>2 DEF GetPoll
<1>7. ASSUME NEW t \in Threads, PollSigned(t)
      PROVE  \A u \in Threads : req'[u] = req[u] \/ req'[u].op \in Served
  <2>1. PICK s, rec : Serve(t, [op |-> "complete", s |-> s, rec |-> rec]) \/ Done(t)
    BY <1>7, Zenon DEF PollSigned
  <2>2. [op |-> "complete", s |-> s, rec |-> rec].op \in QROps
    BY DEF QROps
  <2> QED BY <1>2, <1>3, <2>1, <2>2, Zenon
<1>8. ASSUME NEW t \in Threads, Complete(t) \/ SubmitRefused(t) \/ GetExpire(t) \/ PollRejected(t)
      PROVE  \A u \in Threads : req'[u] = req[u] \/ req'[u].op \in Served
  <2>1. Done(t)
    BY <1>8, Zenon DEF Complete, SubmitRefused, GetExpire, PollRejected, Finish
  <2> QED BY <1>2, <2>1
<1>9. ASSUME NEW s \in Sessions, Create(s) \/ Gateway(s)
      PROVE  \A u \in Threads : req'[u] = req[u] \/ req'[u].op \in Served
  BY <1>9 DEF Create, Gateway
<1>10. ReapSessions => \A u \in Threads : req'[u] = req[u] \/ req'[u].op \in Served
  BY DEF ReapSessions
<1> QED BY <1>4, <1>5, <1>6, <1>7, <1>8, <1>9, <1>10, Zenon DEF QRNext

(* What is in the store changes by one of these.                             *)
LEMMA Writers ==
  ASSUME SessInv, QRNext, NEW s \in Sessions, sess'[s] # sess[s], sess'[s] # NoSess
  PROVE  \/ created[s] = NoSess
         \/ Consumable1(s)
         \/ \E t \in Threads :
              /\ req[t].s = s
              /\ \/ req[t].op \in {"complete", "refused"}
                 \/ req[t].op = "get" /\ Expired(req[t].rec.exp)
                 \/ req[t].op = "cancelled"
<1>1. DOMAIN sess = Sessions
  BY DEF SessInv, SessType
<1>2. \A d, rec : Save(d, rec) => d = s
  BY <1>1, SMTT(20) DEF Save
<1>3. CASE \E d \in Sessions : Create(d)
  BY <1>1, <1>3 DEF Create
<1>4. CASE \E t \in Threads, d \in Sessions : Submit(t, d)
  <2>1. PICK d \in Sessions : Consumable1(d) /\ \E rec : Save(d, rec)
    BY <1>4, Zenon DEF Submit
  <2> QED BY <1>2, <2>1
<1>5. CASE \E t \in Threads : Complete(t) \/ SubmitRefused(t) \/ GetExpire(t) \/ PollRejected(t)
  <2>1. PICK t \in Threads : Complete(t) \/ SubmitRefused(t) \/ GetExpire(t) \/ PollRejected(t)
    BY <1>5
  <2>2. \E rec : Save(req[t].s, rec)
    BY <2>1, Zenon DEF Complete, SubmitRefused, GetExpire, PollRejected, Finish
  <2> QED BY <1>2, <2>1, <2>2, Zenon DEF Complete, SubmitRefused, GetExpire, PollRejected
<1>6. CASE \E t \in Threads : PollSigned(t)
  <2>1. PICK t \in Threads : PollSigned(t)
    BY <1>6
  <2>2. Consumable1(req[t].s) /\ \E rec : Save(req[t].s, rec)
    BY <2>1, Zenon DEF PollSigned
  <2> QED BY <1>2, <2>2
<1>7. CASE ReapSessions
  BY <1>7, Zenon DEF ReapSessions
<1>8. CASE \/ \E d \in Sessions : Gateway(d)
           \/ \E t \in Threads, d \in Sessions : GetBegin(t, d)
           \/ \E t \in Threads : GetPoll(t)
  BY <1>8, Zenon DEF Gateway, GetBegin, GetPoll
<1> QED BY <1>3, <1>4, <1>5, <1>6, <1>7, <1>8, Zenon DEF QRNext
=============================================================================
