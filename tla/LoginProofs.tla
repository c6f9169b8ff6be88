---------------------------- MODULE LoginProofs ----------------------------
(***************************************************************************)
(* What Login checks on a small instance, proved for any number of         *)
(* goroutines, challenges, codes, clients and sessions: challenges, codes  *)
(* and QR sessions are good for one thing once, tokens are bound to the    *)
(* authorization they come from, and a verified session stays verified     *)
(* until its deadline.                                                     *)
(*                                                                         *)
(* The argument is about who holds the right to an outcome.  A consumed    *)
(* challenge is held by the request that consumed it, then by the code it  *)
(* was traded for, then by the grant: never by two of them, and never      *)
(* while the store would let it be consumed again (ChalInv).  The sessions *)
(* are QRProofs' part (SessInv).                                           *)
(***************************************************************************)
EXTENDS Login, QRProofs

-----------------------------------------------------------------------------
(* The inductive invariant of the challenges and codes *)

ChalOps == {"confirm", "login", "authorize"}

ChalReq == [op : {"confirm", "login"}, owner : {"service", "oidc"}, c : Challenges]
           \cup [op : {"authorize"}, owner : {"oidc"}, c : Challenges, a : AuthorizeRequest]

HolderType == \A t \in Threads : req[t].op \in ChalOps => req[t] \in ChalReq

ChalType ==
  /\ chal \in [Challenges -> {NoChal} \cup [owner : {"service", "oidc"}, exp : Int, used : BOOLEAN]]
  /\ codes \in [Codes -> {NoCode} \cup [a : AuthorizeRequest, c : Challenges, exp : Int]]
  /\ grants \in [Challenges -> 0 .. 2]
  /\ asked \in [Codes -> {NoCode} \cup AuthorizeRequest]
  /\ tokens \subseteq [k : Codes, q : TokenRequest, ok : BOOLEAN]

(* The store will not let the challenge be consumed (again). *)
Spent(c) == c \in issued /\ (chal[c] # NoChal => chal[c].used = TRUE)

Holds(t, c) == req[t].op \in ChalOps /\ req[t].c = c
Live(k) == codes[k] # NoCode
Stands(k, c) == Live(k) /\ codes[k].c = c

(* A challenge is held by one request, one code or one grant. *)
Claims ==
  \A c \in Challenges :
    /\ chal[c] # NoChal => c \in issued
    /\ \A t \in Threads : Holds(t, c) =>
         /\ Spent(c) /\ grants[c] = 0
         /\ \A u \in Threads : Holds(u, c) => u = t
         /\ \A k \in Codes : ~Stands(k, c)
    /\ \A k \in Codes : Stands(k, c) =>
         /\ Spent(c) /\ grants[c] = 0
         /\ \A m \in Codes : Stands(m, c) => m = k
    /\ grants[c] # 0 => Spent(c) /\ grants[c] = 1

(* A code stands for the authorization it was issued for, and is gone from   *)
(* the store once the token endpoint has answered for it.                    *)
CodesStand ==
  /\ \A t \in Threads : req[t].op = "authorize" => ValidateAuthorize(req[t].a)
  /\ \A k \in Codes : Live(k) => /\ k \in issued
                                 /\ codes[k].a = asked[k] /\ ValidateAuthorize(asked[k])
  /\ \A x \in tokens : x.k \in issued /\ ~Live(x.k)

ChalInv == HolderType /\ ChalType /\ Claims /\ CodesStand /\ CodeIsSingleUse /\ TokensAreBound

IInv == ReqType /\ ChalInv /\ SessInv

-----------------------------------------------------------------------------
(* Steps of the challenges and codes *)

LEMMA IdleHolds == Idle.op \notin ChalOps
BY DEF Idle, ChalOps

LEMMA HolderFacts ==
  ASSUME HolderType, NEW t \in Threads, req[t].op \in ChalOps
  PROVE  req[t].c \in Challenges /\ (req[t].op = "authorize" => req[t].a \in AuthorizeRequest)
BY SMT DEF HolderType, ChalReq

LEMMA HolderKept ==
  ASSUME HolderType, \A t \in Threads : req'[t] = req[t] \/ req'[t].op \notin ChalOps
  PROVE  HolderType'
BY Zenon DEF HolderType, ChalReq, AuthorizeRequest

(* The parts of the invariant that read the requests and the code store    *)
(* through their entries only.                                               *)
LEMMA TokensKept ==
  ASSUME ChalInv, UNCHANGED <<asked, tokens>>, issued \subseteq issued',
         \A k \in Codes : Live(k)' => Live(k) /\ codes'[k] = codes[k],
         \A t \in Threads : req'[t].op = "authorize" => ValidateAuthorize(req'[t].a)
  PROVE  CodesStand' /\ CodeIsSingleUse' /\ TokensAreBound'
<1>1. \A x \in tokens : x.k \in Codes
  BY DEF ChalInv, ChalType
<1>2. CodesStand'
  BY <1>1, SMT DEF ChalInv, CodesStand, ValidateAuthorize
<1>3. CodeIsSingleUse' /\ TokensAreBound'
  BY DEF ChalInv, CodeIsSingleUse, TokensAreBound
<1> QED BY <1>2, <1>3

(* A step that leaves challenges and codes alone, and lets no request lay    *)
(* hold of a challenge.                                                      *)
LEMMA ChalKept ==
  ASSUME ChalInv, UNCHANGED chalVars,
         \A t \in Threads : req'[t] = req[t] \/ req'[t].op \notin ChalOps
  PROVE  ChalInv'
<1> USE DEF chalVars
<1>1. ChalType'
  BY DEF ChalInv, ChalType, AuthorizeRequest, TokenRequest
<1>2. \A t \in Threads, c \in Challenges : Holds(t, c)' => Holds(t, c)
  BY DEF Holds
<1>3. \A c \in Challenges : Spent(c)' <=> Spent(c)
  BY DEF Spent
<1>4. \A k \in Codes, c \in Challenges : Stands(k, c)' <=> Stands(k, c)
  BY DEF Stands, Live
<1>5. Claims'
  BY <1>2, <1>3, <1>4, SMT DEF ChalInv, Claims
<1>6. \A k \in Codes : Live(k)' => Live(k) /\ codes'[k] = codes[k]
  BY DEF Live
<1>7. \A t \in Threads : req'[t].op = "authorize" => ValidateAuthorize(req'[t].a)
  BY SMT DEF ChalInv, CodesStand, ChalOps
<1> QED BY <1>1, <1>5, <1>6, <1>7, HolderKept, TokensKept DEF ChalInv

(* Issue and Provider.Challenge take a fresh identifier.                     *)
LEMMA IssueStep ==
  ASSUME ReqType, ChalInv, NEW c \in Challenges, NEW o \in {"service", "oidc"}, Issue(c, o)
  PROVE  ReqType' /\ ChalInv'
<1> USE DEF Issue
<1>1. ReqType'
  BY StillType DEF ReqType
<1>2. now + TTL \in Int /\ DOMAIN chal = Challenges
  BY RequestsAssumption DEF ReqType, ChalInv, ChalType
<1>3. ChalType'
  BY <1>2, SMT DEF ChalInv, ChalType, AuthorizeRequest, TokenRequest
<1>4. \A d \in Challenges : d # c => chal'[d] = chal[d]
  BY <1>2
<1>5. \A d \in Challenges : Spent(d) => Spent(d)'
  BY <1>4, Zenon DEF Spent
<1>6. \A k \in Codes : Live(k)' => Live(k) /\ codes'[k] = codes[k]
  BY DEF Live
<1>7. \A k \in Codes, d \in Challenges : Stands(k, d)' <=> Stands(k, d)
  BY DEF Stands, Live
<1>8. \A t \in Threads, d \in Challenges : Holds(t, d)' <=> Holds(t, d)
  BY DEF Holds
<1>9. Claims'
  BY <1>4, <1>5, <1>7, <1>8, SMT DEF ChalInv, Claims
<1>10. \A t \in Threads : req'[t].op = "authorize" => ValidateAuthorize(req'[t].a)
  BY SMT DEF ChalInv, CodesStand
<1>11. issued \subseteq issued'
  OBVIOUS
<1>12. HolderType'
  BY HolderKept DEF ChalInv
<1> QED BY <1>1, <1>3, <1>6, <1>9, <1>10, <1>11, <1>12, TokensKept DEF ChalInv

(* Consume: what could be consumed was held by nobody, and is held now by    *)
(* the request, or by nobody when the deadline has passed.                   *)
LEMMA ConsumeStep ==
  ASSUME ReqType, ChalInv, NEW t \in Threads, NEW c \in Challenges, NEW r \in ChalReq,
         r.c = c, r.op = "authorize" => ValidateAuthorize(r.a), Consume(t, c, r),
         UNCHANGED <<codes, issued, grants, asked, tokens, now>>
  PROVE  ReqType' /\ ChalInv'
<1> DEFINE q == IF Consumable(c, r.owner) /\ ~Expired(chal[c].exp) THEN r ELSE Idle
<1>1. Serve(t, q) /\ q.op \notin QROps
  <2>1. r.op \notin QROps
    BY SMT DEF ChalReq, QROps
  <2> QED BY <2>1, IdleFacts, Zenon DEF Consume
<1>2. ReqType'
  BY <1>1, ServeType
<1>3. chal \in [Challenges -> {NoChal} \cup [owner : {"service", "oidc"}, exp : Int,
used : BOOLEAN]]
  BY DEF ChalInv, ChalType
<1>4. ChalType'
  <2>1. chal[c] # NoChal => [chal EXCEPT ![c].used = TRUE] \in
          [Challenges -> {NoChal} \cup [owner : {"service", "oidc"}, exp : Int, used : BOOLEAN]]
    <3>1. ASSUME chal[c] # NoChal
          PROVE  [chal[c] EXCEPT !.used = TRUE] \in [owner : {"service", "oidc"}, exp : Int,
          used : BOOLEAN]
      BY <1>3, <3>1, ZenonT(30)
    <3> QED BY <1>3, <3>1
  <2>2. chal' \in [Challenges -> {NoChal} \cup [owner : {"service", "oidc"}, exp : Int,
  used : BOOLEAN]]
    BY <1>3, <2>1, Zenon DEF Consume, Consumable
  <2> QED BY <2>2 DEF ChalInv, ChalType, AuthorizeRequest, TokenRequest
<1>5. \A d \in Challenges : Spent(d) => Spent(d)'
  BY <1>3, SMT DEF Consume, Spent
<1>6. Consumable(c, r.owner) => Spent(c)' /\ ~Spent(c)
  BY <1>3, SMT DEF Consume, Spent, Consumable, ChalInv, Claims
<1>7. \A d \in Challenges : chal'[d] # NoChal => chal[d] # NoChal
  BY <1>3, SMT DEF Consume, Consumable
<1>8. req' = [req EXCEPT ![t] = q] /\ DOMAIN req = Threads
  BY <1>1 DEF Serve, ReqType
<1>9. \A u \in Threads : req'[u] = IF u = t THEN q ELSE req[u]
  BY <1>8
<1>10. \A u \in Threads, d \in Challenges : Holds(u, d)' =>
         (u # t /\ Holds(u, d)) \/ (u = t /\ d = c /\ Consumable(c, r.owner))
  BY <1>9, IdleHolds, SMT DEF Holds
<1>11. \A k \in Codes : Live(k)' => Live(k) /\ codes'[k] = codes[k]
  BY DEF Live
<1>12. \A k \in Codes, d \in Challenges : Stands(k, d)' <=> Stands(k, d)
  BY DEF Stands, Live
<1>13. Claims'
  BY <1>5, <1>6, <1>7, <1>10, <1>12, SMTT(20) DEF ChalInv, Claims
<1>14. \A u \in Threads : req'[u].op = "authorize" => ValidateAuthorize(req'[u].a)
  BY <1>9, IdleFacts, SMT DEF ChalInv, CodesStand
<1>15. HolderType'
  <2>1. \A u \in Threads : req'[u].op \in ChalOps => req'[u] \in ChalReq
    BY <1>9, IdleHolds, Zenon DEF ChalInv, HolderType
  <2> QED BY <2>1, Zenon DEF HolderType, ChalReq, AuthorizeRequest
<1> QED BY <1>2, <1>4, <1>11, <1>13, <1>14, <1>15, TokensKept DEF ChalInv

(* ConfirmEnd and LoginEnd: the request that held the challenge gives it to  *)
(* the grant, or drops it.                                                   *)
LEMMA GrantStep ==
  ASSUME ReqType, ChalInv, NEW t \in Threads, req[t].op \in {"confirm", "login"},
         (grants' = [grants EXCEPT ![req[t].c] = Min2(@ + 1, 2)]) \/ UNCHANGED grants,
         Done(t), UNCHANGED <<chal, codes, issued, asked, tokens, now>>
  PROVE  ReqType' /\ ChalInv'
<1>1. ReqType'
  BY DoneType
<1>2. req' = [req EXCEPT ![t] = Idle] /\ DOMAIN req = Threads
  BY DEF Done, Serve, ReqType
<1>3. \A u \in Threads : req'[u] = IF u = t THEN Idle ELSE req[u]
  BY <1>2
<1>4. req[t].c \in Challenges /\ Holds(t, req[t].c)
  BY HolderFacts DEF ChalInv, Holds, ChalOps
<1>5. PICK c \in Challenges : c = req[t].c
  BY <1>4
<1>6. grants \in [Challenges -> 0 .. 2] /\ grants[c] = 0 /\ Holds(t, c)
  BY <1>4, <1>5, SMT DEF ChalInv, ChalType, Claims
<1>7. grants' = [grants EXCEPT ![c] = 1] \/ grants' = grants
  BY <1>5, <1>6, SMT DEF Min2
<1>8. ChalType'
  <2>1. grants' \in [Challenges -> 0 .. 2]
    BY <1>6, <1>7, SMT
  <2> QED BY <2>1 DEF ChalInv, ChalType, AuthorizeRequest, TokenRequest
<1>9. \A d \in Challenges : Spent(d)' <=> Spent(d)
  BY DEF Spent
<1>10. \A u \in Threads, d \in Challenges : Holds(u, d)' => u # t /\ Holds(u, d)
  BY <1>3, IdleHolds, SMT DEF Holds
<1>11. \A k \in Codes : Live(k)' => Live(k) /\ codes'[k] = codes[k]
  BY DEF Live
<1>12. \A k \in Codes, d \in Challenges : Stands(k, d)' <=> Stands(k, d)
  BY DEF Stands, Live
<1>13. \A d \in Challenges : grants'[d] = grants[d] \/ (d = c /\ grants'[d] = 1)
  BY <1>6, <1>7, SMTT(20)
<1>14. Claims'
  BY <1>6, <1>9, <1>10, <1>12, <1>13, SMTT(20) DEF ChalInv, Claims
<1>15. \A u \in Threads : req'[u].op = "authorize" => ValidateAuthorize(req'[u].a)
  BY <1>3, IdleFacts, SMT DEF ChalInv, CodesStand
<1>16. HolderType'
  BY <1>3, IdleHolds, HolderKept DEF ChalInv
<1> QED BY <1>1, <1>8, <1>11, <1>14, <1>15, <1>16, TokensKept, SMTT(20) DEF ChalInv

(* CompleteAuthorization: the request trades its challenge for a fresh code  *)
(* bound to what was asked, or drops it.                                     *)
LEMMA AuthorizeStep ==
  ASSUME ReqType, ChalInv, NEW t \in Threads, AuthorizeEnd(t)
  PROVE  ReqType' /\ ChalInv'
<1> USE DEF AuthorizeEnd
<1>1. ReqType'
  BY DoneType
<1>2. req' = [req EXCEPT ![t] = Idle] /\ DOMAIN req = Threads
  BY DEF Done, Serve, ReqType
<1>3. \A u \in Threads : req'[u] = IF u = t THEN Idle ELSE req[u]
  BY <1>2
<1>4. req[t].c \in Challenges /\ Holds(t, req[t].c) /\ req[t].a \in AuthorizeRequest
  BY HolderFacts DEF ChalInv, Holds, ChalOps
<1>5. PICK c \in Challenges, a \in AuthorizeRequest : c = req[t].c /\ a = req[t].a
  BY <1>4
<1>6. CASE UNCHANGED <<codes, asked, issued>>
  <2>1. \A u \in Threads : req'[u] = req[u] \/ req'[u].op \notin ChalOps
    BY <1>3, IdleHolds
  <2> QED BY <1>1, <1>6, <2>1, ChalKept, SMTT(20) DEF chalVars
<1>7. ASSUME NEW k \in Codes \ issued,
             codes' = [codes EXCEPT ![k] = [a |-> a, c |-> c, exp |-> now + TTL]],
             asked' = [asked EXCEPT ![k] = a], issued' = issued \cup {k}
      PROVE  ChalInv'
  <2>1. /\ codes \in [Codes -> {NoCode} \cup [a : AuthorizeRequest, c : Challenges, exp : Int]]
        /\ asked \in [Codes -> {NoCode} \cup AuthorizeRequest]
        /\ now + TTL \in Int
        /\ tokens \subseteq [k : Codes, q : TokenRequest, ok : BOOLEAN]
    BY RequestsAssumption, SMTT(20) DEF ChalInv, ChalType, ReqType
  <2>2. ChalType'
    <3>1. codes' \in [Codes -> {NoCode} \cup [a : AuthorizeRequest, c : Challenges, exp : Int]]
      BY <1>7, <2>1, SMTT(20)
    <3>2. asked' \in [Codes -> {NoCode} \cup AuthorizeRequest]
      BY <1>7, <2>1, SMTT(20)
    <3> QED BY <3>1, <3>2, SMTT(20) DEF ChalInv, ChalType, AuthorizeRequest, TokenRequest
  <2>3. \A d \in Challenges : Spent(d) => Spent(d)'
    BY <1>7, SMTT(20) DEF Spent
  <2>4. \A u \in Threads, d \in Challenges : Holds(u, d)' => u # t /\ Holds(u, d)
    BY <1>3, IdleHolds, SMTT(20) DEF Holds
  <2>5. \A m \in Codes : m # k => codes'[m] = codes[m] /\ asked'[m] = asked[m]
    BY <1>7, <2>1
  <2>6. codes'[k].a = a /\ codes'[k].c = c /\ asked'[k] = a /\ ~Live(k)
    BY <1>7, <2>1 DEF ChalInv, CodesStand
  <2>7. \A m \in Codes, d \in Challenges : Stands(m, d)' => Stands(m, d) \/ (m = k /\ d = c)
    BY <2>5, <2>6, SMTT(20) DEF Stands, Live
  <2>8. Holds(t, c) /\ ValidateAuthorize(a)
    BY <1>4, <1>5 DEF ChalInv, CodesStand
  <2>9. \A d \in Challenges : ~Stands(k, d)
    BY <2>6, SMTT(20) DEF Stands
  <2>10. Claims'
    BY <1>7, <2>3, <2>4, <2>7, <2>8, <2>9, SMTT(20) DEF ChalInv, Claims
  <2>11. \A u \in Threads : req'[u].op = "authorize" => ValidateAuthorize(req'[u].a)
    BY <1>3, IdleFacts, SMT DEF ChalInv, CodesStand
  <2>12. \A x \in tokens : x.k \in Codes /\ x.k \in issued /\ x.k # k
    BY <1>7, <2>1, SMTT(20) DEF ChalInv, CodesStand
  <2>13. CodesStand'
    BY <1>7, <2>5, <2>6, <2>8, <2>11, <2>12, SMTT(20) DEF ChalInv, CodesStand, Live,
       ValidateAuthorize
  <2>14. CodeIsSingleUse' /\ TokensAreBound'
    BY <2>5, <2>12, SMTT(20) DEF ChalInv, CodeIsSingleUse, TokensAreBound
  <2>15. HolderType'
    BY <1>3, IdleHolds, HolderKept, Zenon DEF ChalInv
  <2> QED BY <2>2, <2>10, <2>13, <2>14, <2>15, SMTT(20) DEF ChalInv
<1> QED BY <1>1, <1>5, <1>6, <1>7, SMTT(20)

(* Exchange: the code leaves the store, and gives what it held to the grant  *)
(* when the request for tokens is the one it was issued for.                 *)
LEMMA ExchangeStep ==
  ASSUME ReqType, ChalInv, NEW k \in Codes, NEW q \in TokenRequest, Exchange(k, q)
  PROVE  ReqType' /\ ChalInv'
<1> USE DEF Exchange
<1>1. ReqType'
  BY StillType DEF ReqType
<1>2. /\ codes \in [Codes -> {NoCode} \cup [a : AuthorizeRequest, c : Challenges, exp : Int]]
      /\ grants \in [Challenges -> 0 .. 2]
      /\ tokens \subseteq [k : Codes, q : TokenRequest, ok : BOOLEAN]
  BY DEF ChalInv, ChalType
<1>3. PICK c \in Challenges : c = codes[k].c
  BY <1>2
<1>4. Live(k) /\ Stands(k, c)
  BY <1>3 DEF Live, Stands
<1>5. PICK ok \in BOOLEAN : ok = (~Expired(codes[k].exp) /\ BindingHolds(k, q))
  BY Zenon
<1>6. /\ tokens' = tokens \cup {[k |-> k, q |-> q, ok |-> ok]}
      /\ IF ok THEN grants' = [grants EXCEPT ![c] = Min2(@ + 1, 2)] ELSE UNCHANGED grants
  BY <1>3, <1>5, Zenon DEF Exchanged, Accepted
<1>7. grants[c] = 0
  BY <1>4 DEF ChalInv, Claims
<1>8. \A d \in Challenges : grants'[d] = grants[d] \/ (d = c /\ grants'[d] = 1)
  BY <1>2, <1>6, <1>7, SMT DEF Min2
<1>9. codes' = [codes EXCEPT ![k] = NoCode]
  BY SMTT(20) DEF take
<1>10. ChalType'
  <2>1. grants' \in [Challenges -> 0 .. 2]
    BY <1>2, <1>6, <1>7, SMT DEF Min2
  <2>2. codes' \in [Codes -> {NoCode} \cup [a : AuthorizeRequest, c : Challenges, exp : Int]]
    BY <1>2, <1>9, SMTT(20)
  <2>3. tokens' \subseteq [k : Codes, q : TokenRequest, ok : BOOLEAN]
    BY <1>2, <1>6
  <2> QED BY <2>1, <2>2, <2>3 DEF ChalInv, ChalType, AuthorizeRequest, TokenRequest
<1>11. \A d \in Challenges : Spent(d)' <=> Spent(d)
  BY DEF Spent
<1>12. \A t \in Threads, d \in Challenges : Holds(t, d)' <=> Holds(t, d)
  BY DEF Holds
<1>13. /\ ~Live(k)'
       /\ \A m \in Codes : m # k => codes'[m] = codes[m] /\ (Live(m)' <=> Live(m))
  BY <1>2, <1>9, SMTT(20) DEF Live
<1>14. \A m \in Codes, d \in Challenges : Stands(m, d)' => m # k /\ Stands(m, d)
  BY <1>13, SMTT(20) DEF Stands
<1>15. Claims'
  <2>1. Claims /\ chal' = chal /\ issued' = issued
    BY DEF ChalInv
  <2>2. /\ Spent(c) /\ \A t \in Threads : ~Holds(t, c)
        /\ \A m \in Codes : m # k => ~Stands(m, c)
    BY <1>4, <2>1, SMTT(20) DEF Claims
  <2>3. ASSUME NEW d \in Challenges, NEW t \in Threads, Holds(t, d)'
        PROVE  /\ Spent(d)' /\ grants'[d] = 0
               /\ \A u \in Threads : Holds(u, d)' => u = t
               /\ \A m \in Codes : ~Stands(m, d)'
    BY <1>8, <1>11, <1>12, <1>14, <2>1, <2>2, <2>3, SMTT(20) DEF Claims
  <2>4. ASSUME NEW d \in Challenges, NEW m \in Codes, Stands(m, d)'
        PROVE  /\ Spent(d)' /\ grants'[d] = 0
               /\ \A n \in Codes : Stands(n, d)' => n = m
    BY <1>8, <1>11, <1>14, <2>1, <2>2, <2>4, SMTT(20) DEF Claims
  <2>5. ASSUME NEW d \in Challenges, grants'[d] # 0
        PROVE  Spent(d)' /\ grants'[d] = 1
    <3>1. grants[d] # 0 => Spent(d) /\ grants[d] = 1
      BY <2>1, Zenon DEF Claims
    <3>2. CASE grants'[d] = grants[d]
      BY <1>11, <2>5, <3>1, <3>2, Zenon
    <3>3. CASE d = c /\ grants'[d] = 1
      BY <1>11, <2>2, <3>3, Zenon
    <3> QED BY <1>8, <3>2, <3>3, Zenon
  <2>6. \A d \in Challenges : chal'[d] # NoChal => d \in issued'
    BY <2>1, SMTT(20) DEF Claims
  <2> QED BY <2>3, <2>4, <2>5, <2>6, Zenon DEF Claims
<1>16. \A x \in tokens : x.k \in Codes /\ x.k # k
  BY <1>2, <1>4, SMTT(20) DEF ChalInv, CodesStand
<1>17. CodesStand'
  <2>1. \A m \in Codes : Live(m)' => m # k /\ Live(m) /\ codes'[m] = codes[m]
    BY <1>13, SMTT(20)
  <2>2. k \in issued
    BY <1>4, SMTT(20) DEF ChalInv, CodesStand
  <2>3. \A x \in tokens' : x.k \in issued /\ ~Live(x.k)'
    BY <1>6, <1>13, <1>16, <2>2, SMTT(20) DEF ChalInv, CodesStand, Live
  <2> QED BY <2>1, <2>3, SMTT(20) DEF ChalInv, CodesStand, ValidateAuthorize, Live
<1>18. CodeIsSingleUse'
  BY <1>6, <1>16, SMT DEF ChalInv, CodeIsSingleUse
<1>19. ok => /\ q.client = asked[k].client /\ q.uri = asked[k].uri
             /\ IF q.client \in PublicClients THEN q.verifier ELSE q.secret
  <2>1. ok => BindingHolds(k, q)
    BY <1>5, Zenon
  <2>2. codes[k].a = asked[k] /\ ValidateAuthorize(asked[k])
    BY <1>4 DEF ChalInv, CodesStand
  <2>3. q.client \notin PublicClients => q.secret
    BY SMTT(20)
  <2>4. BindingHolds(k, q) => /\ q.client = asked[k].client /\ q.uri = asked[k].uri
                              /\ q.client \in PublicClients => q.verifier
    BY <2>2, SMTT(20) DEF BindingHolds, ValidateAuthorize
  <2> QED BY <2>1, <2>3, <2>4, Zenon
<1>20. TokensAreBound'
  BY <1>6, <1>19, SMT DEF ChalInv, TokensAreBound
<1>21. HolderType'
  BY HolderKept, SMTT(20) DEF ChalInv
<1> QED BY <1>1, <1>10, <1>15, <1>17, <1>18, <1>20, <1>21, SMTT(20) DEF ChalInv

(* The reapers, and a restart: the store forgets, it does not unspend.       *)
LEMMA ForgetStep ==
  ASSUME ChalInv, UNCHANGED <<issued, grants, asked, tokens>>,
         DOMAIN chal' = Challenges, DOMAIN codes' = Codes,
         chal' \in [Challenges -> {NoChal} \cup [owner : {"service", "oidc"}, exp : Int,
         used : BOOLEAN]],
         codes' \in [Codes -> {NoCode} \cup [a : AuthorizeRequest, c : Challenges, exp : Int]],
         \A c \in Challenges : chal'[c] = chal[c] \/ chal'[c] = NoChal,
         \A k \in Codes : codes'[k] = codes[k] \/ codes'[k] = NoCode,
         \A t \in Threads : req'[t] = req[t] \/ req'[t].op \notin ChalOps
  PROVE  ChalInv'
<1>1. ChalType'
  BY SMTT(20) DEF ChalInv, ChalType, AuthorizeRequest, TokenRequest
<1>2. \A t \in Threads, c \in Challenges : Holds(t, c)' => Holds(t, c)
  BY DEF Holds
<1>3. \A c \in Challenges : Spent(c) => Spent(c)'
  BY SMTT(20) DEF Spent
<1>4. \A k \in Codes : Live(k)' => Live(k) /\ codes'[k] = codes[k]
  BY SMTT(20) DEF Live
<1>5. \A k \in Codes, c \in Challenges : Stands(k, c)' => Stands(k, c)
  BY <1>4, SMTT(20) DEF Stands
<1>6. Claims'
  BY <1>2, <1>3, <1>5, SMTT(20) DEF ChalInv, Claims
<1>7. \A t \in Threads : req'[t].op = "authorize" => ValidateAuthorize(req'[t].a)
  BY SMTT(20) DEF ChalInv, CodesStand, ChalOps
<1>8. HolderType'
  BY HolderKept, SMTT(20) DEF ChalInv
<1> QED BY <1>1, <1>4, <1>6, <1>7, <1>8, TokensKept, SMTT(20) DEF ChalInv

LEMMA ReapChalStep ==
  ASSUME ReqType, ChalInv, ReapProvider \/ ReapService
  PROVE  ReqType' /\ ChalInv'
<1>1. UNCHANGED <<req, now, issued, grants, asked, tokens>>
  BY DEF ReapProvider, ReapService
<1>2. ReqType'
  BY <1>1, StillType DEF ReqType
<1>3. \/ chal' = [c \in Challenges |-> IF chal[c] # NoChal /\ chal[c].owner = "oidc"
                                        /\ Expired(chal[c].exp) THEN NoChal ELSE chal[c]]
      \/ chal' = [c \in Challenges |-> IF chal[c] # NoChal /\ chal[c].owner = "service"
                                        /\ Expired(chal[c].exp) THEN NoChal ELSE chal[c]]
  BY DEF ReapProvider, ReapService, ReapChallenges
<1>4. codes' = codes \/ codes' = [k \in Codes |-> IF codes[k] # NoCode /\ Expired(codes[k].exp)
                                                  THEN NoCode ELSE codes[k]]
  BY DEF ReapProvider, ReapService
<1>5. ChalType
  BY DEF ChalInv
<1>6. /\ DOMAIN chal' = Challenges
      /\ \A c \in Challenges : chal'[c] = chal[c] \/ chal'[c] = NoChal
  BY <1>3, Zenon
<1>7. /\ DOMAIN codes' = Codes
      /\ \A k \in Codes : codes'[k] = codes[k] \/ codes'[k] = NoCode
  BY <1>4, <1>5, Zenon DEF ChalType
<1>8. chal' \in [Challenges -> {NoChal} \cup [owner : {"service", "oidc"}, exp : Int,
used : BOOLEAN]]
  BY <1>3, <1>5, Zenon DEF ChalType
<1>9. codes' \in [Codes -> {NoCode} \cup [a : AuthorizeRequest, c : Challenges, exp : Int]]
  BY <1>4, <1>5, Zenon DEF ChalType
<1> QED BY <1>1, <1>2, <1>6, <1>7, <1>8, <1>9, ForgetStep

LEMMA RestartChalStep ==
  ASSUME ReqType, ChalInv, Restart
  PROVE  ReqType' /\ ChalInv'
<1>1. now' = now /\ req' = [t \in Threads |-> Idle]
  BY DEF Restart
<1>2. ReqType'
  BY <1>1, IdleFacts, Zenon DEF ReqType
<1>3. ChalType /\ ChalRestart
  BY DEF ChalInv, Restart
<1>4. /\ DOMAIN chal' = Challenges /\ DOMAIN codes' = Codes
      /\ \A c \in Challenges : chal'[c] = chal[c] \/ chal'[c] = NoChal
      /\ \A k \in Codes : codes'[k] = codes[k] \/ codes'[k] = NoCode
  BY <1>3, Zenon DEF ChalRestart, ChalType
<1>5. chal' \in [Challenges -> {NoChal} \cup [owner : {"service", "oidc"}, exp : Int,
used : BOOLEAN]]
  BY <1>3, Zenon DEF ChalRestart, ChalType
<1>6. codes' \in [Codes -> {NoCode} \cup [a : AuthorizeRequest, c : Challenges, exp : Int]]
  BY <1>3, Zenon DEF ChalRestart, ChalType
<1>7. \A t \in Threads : req'[t] = req[t] \/ req'[t].op \notin ChalOps
  BY <1>1, IdleHolds
<1> QED BY <1>2, <1>3, <1>4, <1>5, <1>6, <1>7, ForgetStep DEF ChalRestart

(* Every step of the challenges and codes keeps their part of the invariant. *)
LEMMA ChalNextStep ==
  ASSUME ReqType, ChalInv, ChalNext
  PROVE  ReqType' /\ ChalInv'
<1>1. ASSUME NEW c \in Challenges, Issue(c, "service") \/ Issue(c, "oidc")
      PROVE  ReqType' /\ ChalInv'
  BY <1>1, IssueStep, SMTT(20)
<1>2. ASSUME NEW t \in Threads, ConfirmEnd(t)
      PROVE  ReqType' /\ ChalInv'
  <2>1. (grants' = [grants EXCEPT ![req[t].c] = Min2(@ + 1, 2)]) \/ UNCHANGED grants
    BY <1>2, SMTT(20) DEF ConfirmEnd, Accepted
  <2> QED BY <1>2, <2>1, GrantStep, SMTT(20) DEF ConfirmEnd
<1>3. ASSUME NEW t \in Threads, LoginEnd(t)
      PROVE  ReqType' /\ ChalInv'
  <2>1. (grants' = [grants EXCEPT ![req[t].c] = Min2(@ + 1, 2)]) \/ UNCHANGED grants
    BY <1>3, Zenon DEF LoginEnd, Accepted
  <2> QED BY <1>3, <2>1, GrantStep DEF LoginEnd
<1>4. ASSUME NEW t \in Threads, AuthorizeEnd(t)
      PROVE  ReqType' /\ ChalInv'
  BY <1>4, AuthorizeStep
<1>5. ASSUME NEW t \in Threads, NEW c \in Challenges, ConfirmBegin(t, c)
      PROVE  ReqType' /\ ChalInv'
  <2>1. PICK r \in ChalReq : r = [op |-> "confirm", owner |-> "service", c |-> c]
    BY Zenon DEF ChalReq
  <2>2. Consume(t, c, r)
    BY <1>5, <2>1 DEF ConfirmBegin
  <2> QED BY <1>5, <2>1, <2>2, ConsumeStep DEF ConfirmBegin
<1>6. ASSUME NEW t \in Threads, NEW c \in Challenges, LoginBegin(t, c)
      PROVE  ReqType' /\ ChalInv'
  <2>1. PICK r \in ChalReq : r = [op |-> "login", owner |-> "oidc", c |-> c]
    BY Zenon DEF ChalReq
  <2>2. Consume(t, c, r)
    BY <1>6, <2>1, SMTT(20) DEF LoginBegin
  <2> QED BY <1>6, <2>1, <2>2, ConsumeStep DEF LoginBegin
<1>7. ASSUME NEW t \in Threads, NEW c \in Challenges, NEW a \in AuthorizeRequest,
AuthorizeBegin(t, c, a)
      PROVE  ReqType' /\ ChalInv'
  <2>1. PICK r \in ChalReq : r = [op |-> "authorize", owner |-> "oidc", c |-> c, a |-> a]
    BY Zenon DEF ChalReq
  <2>2. Consume(t, c, r) /\ ValidateAuthorize(r.a)
    BY <1>7, <2>1 DEF AuthorizeBegin
  <2> QED BY <1>7, <2>1, <2>2, ConsumeStep DEF AuthorizeBegin
<1>8. ASSUME NEW k \in Codes, NEW q \in TokenRequest, Exchange(k, q)
      PROVE  ReqType' /\ ChalInv'
  BY <1>8, ExchangeStep, SMTT(20)
<1> QED BY <1>1, <1>2, <1>3, <1>4, <1>5, <1>6, <1>7, <1>8, ReapChalStep, Zenon DEF ChalNext

-----------------------------------------------------------------------------
(* The two sides together *)

LEMMA RestartSessStep ==
  ASSUME ReqType, ReqType', SessInv, Restart
  PROVE  SessInv'
<1> USE DEF Restart, QRRestart
<1>1. SessType /\ now \in Int
  BY DEF SessInv, ReqType
<1>2. \A s \in Sessions : sess'[s] = sess[s] \/ sess'[s] = NoSess
  BY Zenon
<1>3. sess' \in [Sessions -> {NoSess} \cup SessRec]
  BY <1>1, Zenon DEF SessType
<1>4. SessType'
  BY <1>1, <1>3 DEF SessType, SessRec
<1>5. \A t \in Threads : req'[t].op \notin QROps
  BY IdleFacts
<1> QED BY <1>1, <1>2, <1>4, <1>5, QuietStep, SMTT(20)

LEMMA ChalServesChal ==
  ASSUME ReqType, ChalNext
  PROVE  \A t \in Threads : req'[t] = req[t] \/ req'[t].op \notin QROps
<1>1. DOMAIN req = Threads
  BY DEF ReqType
<1>2. ASSUME NEW t \in Threads, Done(t)
      PROVE  \A u \in Threads : req'[u] = req[u] \/ req'[u].op \notin QROps
  BY <1>1, <1>2, IdleFacts DEF Done, Serve
<1>3. ASSUME NEW t \in Threads, NEW c, NEW r, r.op \in ChalOps, Consume(t, c, r)
      PROVE  \A u \in Threads : req'[u] = req[u] \/ req'[u].op \notin QROps
  <2>1. PICK q : Serve(t, q) /\ (q = r \/ q = Idle)
    BY <1>3, Zenon DEF Consume
  <2>2. q.op \notin QROps
    BY <1>3, <2>1, IdleFacts, SMTT(20) DEF ChalOps, QROps
  <2> QED BY <1>1, <2>1, <2>2 DEF Serve
<1>4. ASSUME NEW t \in Threads, ConfirmEnd(t) \/ LoginEnd(t) \/ AuthorizeEnd(t)
      PROVE  \A u \in Threads : req'[u] = req[u] \/ req'[u].op \notin QROps
  <2>1. Done(t)
    BY <1>4 DEF ConfirmEnd, LoginEnd, AuthorizeEnd
  <2> QED BY <1>2, <2>1, SMTT(20)
<1>5. ASSUME NEW t \in Threads, NEW c \in Challenges,
             ConfirmBegin(t, c) \/ LoginBegin(t,
             c) \/ \E a \in AuthorizeRequest : AuthorizeBegin(t, c, a)
      PROVE  \A u \in Threads : req'[u] = req[u] \/ req'[u].op \notin QROps
  <2>1. \/ Consume(t, c, [op |-> "confirm", owner |-> "service", c |-> c])
        \/ Consume(t, c, [op |-> "login", owner |-> "oidc", c |-> c])
        \/ \E a : Consume(t, c, [op |-> "authorize", owner |-> "oidc", c |-> c, a |-> a])
    BY <1>5, Zenon DEF ConfirmBegin, LoginBegin, AuthorizeBegin
  <2>2. /\ [op |-> "confirm", owner |-> "service", c |-> c].op \in ChalOps
        /\ [op |-> "login", owner |-> "oidc", c |-> c].op \in ChalOps
        /\ \A a : [op |-> "authorize", owner |-> "oidc", c |-> c, a |-> a].op \in ChalOps
    BY DEF ChalOps
  <2> QED BY <1>3, <2>1, <2>2, Zenon
<1>6. ASSUME \/ \E c \in Challenges : Issue(c, "service") \/ Issue(c, "oidc")
             \/ \E k \in Codes, q \in TokenRequest : Exchange(k, q)
             \/ ReapProvider \/ ReapService
      PROVE  \A u \in Threads : req'[u] = req[u] \/ req'[u].op \notin QROps
  BY <1>6, Zenon DEF Issue, Exchange, ReapProvider, ReapService
<1> QED BY <1>4, <1>5, <1>6, Zenon DEF ChalNext

LEMMA ClockStands == ChalNext => now' = now
<1>1. ASSUME NEW c \in Challenges, Issue(c, "service") \/ Issue(c, "oidc")
      PROVE  now' = now
  BY <1>1, SMTT(20) DEF Issue
<1>2. ASSUME NEW t \in Threads, ConfirmEnd(t) \/ LoginEnd(t) \/ AuthorizeEnd(t)
      PROVE  now' = now
  BY <1>2, SMTT(20) DEF ConfirmEnd, LoginEnd, AuthorizeEnd
<1>3. ASSUME NEW t \in Threads, NEW c \in Challenges, NEW a \in AuthorizeRequest,
             ConfirmBegin(t, c) \/ LoginBegin(t, c) \/ AuthorizeBegin(t, c, a)
      PROVE  now' = now
  BY <1>3 DEF ConfirmBegin, LoginBegin, AuthorizeBegin
<1>4. ASSUME NEW t \in Threads, NEW c \in Challenges, ConfirmBegin(t, c) \/ LoginBegin(t, c)
      PROVE  now' = now
  BY <1>4 DEF ConfirmBegin, LoginBegin
<1>5. ASSUME NEW k \in Codes, NEW q \in TokenRequest, Exchange(k, q)
      PROVE  now' = now
  BY <1>5 DEF Exchange
<1>6. ReapProvider \/ ReapService => now' = now
  BY DEF ReapProvider, ReapService
<1> QED BY <1>1, <1>2, <1>3, <1>4, <1>5, <1>6, Zenon DEF ChalNext

LEMMA InitInv == Init => IInv
<1> SUFFICES ASSUME Init PROVE IInv
  OBVIOUS
<1> USE DEF Init, ChalInit, QRInit
<1>1. ReqType /\ \A t \in Threads : req[t].op \notin ChalOps /\ req[t].op \notin QROps
  BY IdleFacts, IdleHolds DEF ReqType
<1>2. ChalInv
  <2>1. ChalType
    BY SMTT(20) DEF ChalType
  <2>2. Claims
    BY <1>1, SMTT(20) DEF Claims, Holds, Stands, Live
  <2>3. CodesStand /\ CodeIsSingleUse /\ TokensAreBound
    BY <1>1 DEF CodesStand, Live, CodeIsSingleUse, TokensAreBound, ChalOps
  <2>4. HolderType
    BY <1>1 DEF HolderType
  <2> QED BY <2>1, <2>2, <2>3, <2>4 DEF ChalInv
<1>3. SessInv
  <2>1. SessType
    BY SMTT(20) DEF SessType
  <2>2. \A s \in Sessions : Copies(s) /\ Completion(s) /\ Refusals(s)
    BY <1>1 DEF Copies, Completion, Refusals, Stored, Serves, Completes, QROps
  <2> QED BY <2>1, <2>2 DEF SessInv
<1> QED BY <1>1, <1>2, <1>3 DEF IInv

LEMMA NextInv == IInv /\ [Next]_vars => IInv'
<1> SUFFICES ASSUME IInv, [Next]_vars PROVE IInv'
  OBVIOUS
<1>1. ReqType /\ ChalInv /\ SessInv /\ now \in Int
  BY DEF IInv, ReqType
<1>2. CASE ChalNext /\ UNCHANGED <<qrVars, restarts>>
  <2>1. ReqType' /\ ChalInv'
    BY <1>1, <1>2, ChalNextStep
  <2>2. now' = now
    BY <1>2, ClockStands
  <2>3. \A t \in Threads : req'[t] = req[t] \/ req'[t].op \notin QROps
    BY <1>1, <1>2, ChalServesChal, SMTT(20)
  <2>4. SessType' /\ UNCHANGED <<sess, upstream, created, verified, webhooks>>
    BY <1>1, <1>2, SMTT(20) DEF SessInv, SessType, SessRec, qrVars
  <2>5. SessInv'
    BY <1>1, <2>1, <2>2, <2>3, <2>4, QuietStep
  <2> QED BY <2>1, <2>5 DEF IInv
<1>3. CASE QRNext /\ UNCHANGED <<chalVars, restarts>>
  <2>1. ReqType' /\ SessInv'
    BY <1>1, <1>3, QRNextStep
  <2>2. \A t \in Threads : req'[t] = req[t] \/ req'[t].op \notin ChalOps
    BY <1>1, <1>3, QRServesQR DEF Served, QROps, ChalOps
  <2>3. ChalInv'
    BY <1>1, <1>3, <2>2, ChalKept
  <2> QED BY <2>1, <2>3 DEF IInv
<1>4. CASE Tick
  <2>1. ReqType' /\ now <= now'
    BY <1>1, <1>4, StillType DEF Tick, ReqType
  <2>2. ChalInv'
    BY <1>1, <1>4, ChalKept, SMTT(20) DEF Tick
  <2>3. SessType' /\ UNCHANGED <<sess, upstream, created, verified, webhooks, req>>
    BY <1>1, <1>4, SMTT(20) DEF Tick, SessInv, SessType, SessRec, qrVars
  <2>4. SessInv'
    BY <1>1, <2>1, <2>3, QuietStep
  <2> QED BY <2>1, <2>2, <2>4, SMTT(20) DEF IInv
<1>5. CASE Restart
  BY <1>1, <1>5, RestartChalStep, RestartSessStep DEF IInv
<1>6. CASE UNCHANGED vars
  <2>1. ReqType' /\ now' = now
    BY <1>1, <1>6, StillType DEF vars, ReqType
  <2>2. ChalInv'
    BY <1>1, <1>6, ChalKept, SMTT(20) DEF vars
  <2>3. SessType' /\ UNCHANGED <<sess, upstream, created, verified, webhooks, req>>
    BY <1>1, <1>6, SMTT(20) DEF vars, SessInv, SessType, SessRec, qrVars
  <2>4. SessInv'
    BY <1>1, <2>1, <2>3, QuietStep
  <2> QED BY <2>1, <2>2, <2>4 DEF IInv
<1> QED BY <1>2, <1>3, <1>4, <1>5, <1>6 DEF Next

(* The inductive invariant holds of every behaviour of the sign-in surface.  *)
THEOREM LoginInvariance == Spec => []IInv
BY InitInv, NextInv, PTL DEF Spec

(* Challenges, authorization codes and QR sessions are good for one thing    *)
(* once, whatever requests race for them and over restarts: Consume of the   *)
(* challenge store and of the session store, and take of the code store, are *)
(* the only ways to a grant, a token or a completion, and each hands the     *)
(* right to it to one request.                                               *)
THEOREM UsedOnce == Spec => []SingleUse
<1>1. IInv => SingleUse
  <2> SUFFICES ASSUME IInv PROVE SingleUse
    OBVIOUS
  <2>1. ChallengeIsSingleUse
    BY DEF IInv, ChalInv, Claims, ChalType, ChallengeIsSingleUse
  <2>2. CodeIsSingleUse
    BY SMTT(20) DEF IInv, ChalInv
  <2>3. SessionIsSingleUse
    BY SMTT(20) DEF IInv, SessInv, Completion, SessionIsSingleUse
  <2>4. VerifiedIsUsed
    BY SMT DEF IInv, SessInv, Copies, Completion, Of, VerifiedIsUsed, Known, Stored
  <2> QED BY <2>1, <2>2, <2>3, <2>4 DEF SingleUse
<1> QED BY <1>1, LoginInvariance, PTL

(* Tokens go only to the client and redirect URI the code was issued for,    *)
(* and, for a public client, to who knows the verifier: Exchange compares    *)
(* with what ValidateAuthorize let through.                                  *)
THEOREM TokensStayBound == Spec => []TokensAreBound
<1>1. IInv => TokensAreBound
  BY DEF IInv, ChalInv
<1> QED BY <1>1, LoginInvariance, PTL

-----------------------------------------------------------------------------
(* The action property *)

(* Before its deadline no step takes back a session that was verified: the   *)
(* copies the requests still hold are only written back past the deadline,   *)
(* or when the gateway canceled, and then nobody could verify it.            *)
THEOREM VerifiedIsKept == Spec => VerifiedStands
<1>1. ASSUME IInv, [Next]_vars, NEW s \in Sessions, Known(s), Known(s)', sess[s].st = "verified",
             ~Expired(sess[s].exp), sess'[s] # sess[s]
      PROVE  FALSE
  <2>1. Copies(s) /\ Completion(s) /\ Refusals(s) /\ ReqType /\ SessInv
    BY <1>1, SMTT(20) DEF IInv, SessInv
  <2>2. created[s] # NoSess /\ ~Expired(created[s].exp)
    BY <1>1, <2>1 DEF Copies, Of, Known, Stored
  <2>3. sess[s].used = TRUE /\ verified[s] # 0 /\ Claimed(s)
    BY <1>1, <2>1, <2>2, Zenon DEF Completion, Claimed, Known, Stored
  <2>4. \A t \in Threads : ~Completes(t, s)
    BY <2>1, <2>2, <2>3, Zenon DEF Completion
  <2>5. created[s].relay => upstream[s] = "signed"
    BY <2>1, <2>2, <2>3, Zenon DEF Completion
  <2>6. QRNext
    BY <1>1, Zenon DEF Next, Tick, Restart, QRRestart, qrVars, vars, Known
  <2>7. ~Consumable1(s) /\ sess'[s] # NoSess
    BY <1>1, <2>3 DEF Consumable1, Known
  <2>8. PICK t \in Threads :
          /\ req[t].s = s
          /\ \/ req[t].op \in {"complete", "refused"}
             \/ req[t].op = "get" /\ Expired(req[t].rec.exp)
             \/ req[t].op = "cancelled"
    BY <1>1, <2>1, <2>2, <2>6, <2>7, Writers, Zenon
  <2>9. Serves(t, s)
    BY <2>8, SMTT(20) DEF Serves, QROps
  <2>10. /\ Of(req[t].rec, s)
         /\ req[t].op = "cancelled" => upstream[s] = "cancelled" /\ req[t].rec.relay
    BY <2>1, <2>9, SMTT(20) DEF Copies
  <2>11. CASE req[t].op = "complete"
    BY <2>4, <2>8, <2>11, SMTT(20) DEF Completes
  <2>12. CASE req[t].op = "get" /\ Expired(req[t].rec.exp)
    BY <2>2, <2>10, <2>12 DEF Of
  <2>13. CASE req[t].op = "cancelled"
    BY <2>5, <2>10, <2>13 DEF Of
  <2>14. CASE req[t].op = "refused"
    BY <2>1, <2>2, <2>3, <2>9, <2>14, Zenon DEF Refusals
  <2> QED BY <2>8, <2>11, <2>12, <2>13, <2>14, SMTT(20)
<1>2. IInv /\ [Next]_vars =>
        [\A s \in Sessions :
           Known(s) /\ Known(s)' /\ sess[s].st = "verified" /\ ~Expired(sess[s].exp)
             => sess'[s].st = "verified"]_vars
  BY <1>1, Zenon
<1> QED BY <1>2, LoginInvariance, PTL DEF Spec, VerifiedStands
=============================================================================
