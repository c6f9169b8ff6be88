----------------------------- MODULE Challenge -----------------------------
(***************************************************************************)
(* Challenge and response: the store of internal/challenge/store.go, the   *)
(* confirmation service of challenge.go, and the OIDC provider built on    *)
(* the same store (internal/oidc), with the authorization codes of         *)
(* authcode.go.                                                            *)
(*                                                                         *)
(* The service and the provider each hold a store of their own, so a       *)
(* challenge belongs to one of them.  Verification of a signature, a call  *)
(* into the core service, separates the consumption of a challenge from    *)
(* what is done with the verdict.                                          *)
(***************************************************************************)
EXTENDS Requests

CONSTANTS Challenges,     \* random identifiers
          Codes,
          Clients,        \* registered relying parties
          PublicClients,  \* those without a secret
          RequireOCSP,    \* the provider's setting
          NoChal, NoCode

ASSUME ChallengeAssumption ==
  PublicClients \subseteq Clients /\ RequireOCSP \in BOOLEAN

VARIABLES chal,     \* the stores: challenge -> record
          codes,    \* the code store
          issued,   \* history: challenges and codes whose identifier is taken
          grants,   \* history: what each challenge was accepted for, counted
          asked,    \* history: the authorization request a code stands for
          tokens    \* history: answers of the token endpoint to codes it knew

chalVars == <<chal, codes, issued, grants, asked, tokens>>

ChalInit == /\ chal = [c \in Challenges |-> NoChal]
            /\ codes = [k \in Codes |-> NoCode]
            /\ issued = {}
            /\ grants = [c \in Challenges |-> 0]
            /\ asked = [k \in Codes |-> NoCode]
            /\ tokens = {}

(* Each client has registered one redirect URI, which goes by its name.      *)
AuthorizeRequest == [client : Clients, uri : Clients, pkce : {"none", "plain", "S256"}]
TokenRequest == [client : Clients, uri : Clients, secret : BOOLEAN, verifier : BOOLEAN]

-----------------------------------------------------------------------------
(* The store. *)

(* Issue and Provider.Challenge: a fresh identifier, a deadline.             *)
Issue(c, owner) ==
  /\ c \notin issued
  /\ chal' = [chal EXCEPT ![c] = [owner |-> owner, exp |-> now + TTL, used |-> FALSE]]
  /\ issued' = issued \cup {c}
  /\ UNCHANGED <<codes, grants, asked, tokens, req, now>>

Consumable(c, owner) == chal[c] # NoChal /\ chal[c].owner = owner /\ ~chal[c].used

(* Consume marks the challenge used; the caller then looks at the deadline.  *)
(* What goes on is request r; a refusal (unknown, used, expired) ends here.  *)
ConsumeTwoSteps(t, c, r) ==
  /\ Serve(t, IF Consumable(c, r.owner) /\ ~Expired(chal[c].exp) THEN r ELSE Idle)
  /\ UNCHANGED chal

Consume(t, c, r) ==
  /\ chal' = IF Consumable(c, r.owner) THEN [chal EXCEPT ![c].used = TRUE] ELSE chal
  /\ Serve(t, IF Consumable(c, r.owner) /\ ~Expired(chal[c].exp) THEN r ELSE Idle)

(* Reap of either store.                                                     *)
ReapChallenges(owner) ==
  /\ \E c \in Challenges : chal[c] # NoChal /\ chal[c].owner = owner /\ Expired(chal[c].exp)
  /\ chal' = [c \in Challenges |-> IF chal[c] # NoChal /\ chal[c].owner = owner
                                        /\ Expired(chal[c].exp) THEN NoChal ELSE chal[c]]

Accepted(c) == grants' = [grants EXCEPT ![c] = Min2(@ + 1, 2)]

-----------------------------------------------------------------------------
(* The confirmation service. *)

ConfirmBegin(t, c) ==
  /\ Free(t)
  /\ Consume(t, c, [op |-> "confirm", owner |-> "service", c |-> c])
  /\ UNCHANGED <<codes, issued, grants, asked, tokens, now>>

(* The verdict of core.Verify on the signature and, when it is asked for, of *)
(* core.Validate on the signer's certificate.  A check that failed softly is *)
(* "inconclusive"; one that ended without a status and without a failure     *)
(* (nobody to ask, or a responder that does not know) is "undetermined".     *)
Verdict == [sig : {"error", "invalid", "noclaims", "valid"},
            rev : {"error", "inconclusive", "undetermined", "revoked", "good"}]

(* A revocation check that could not run, or was inconclusive, fails the     *)
(* confirmation; an undetermined one is read as not revoked.                 *)
Confirmed(v, check) ==
  v.sig \in {"valid", "noclaims"} /\ (check => v.rev \in {"good", "undetermined"})

ConfirmEnd(t) ==
  /\ req[t].op = "confirm"
  /\ \E ok \in {Confirmed(v, check) : v \in Verdict, check \in BOOLEAN} :
       IF ok THEN Accepted(req[t].c) ELSE UNCHANGED grants
  /\ Done(t)
  /\ UNCHANGED <<chal, codes, issued, asked, tokens, now>>

-----------------------------------------------------------------------------
(* The OIDC provider. *)

(* Verify: the API grant, tokens for a signed challenge. *)
LoginBegin(t, c) ==
  /\ Free(t)
  /\ Consume(t, c, [op |-> "login", owner |-> "oidc", c |-> c])
  /\ UNCHANGED <<codes, issued, grants, asked, tokens, now>>

(* verifyChallengeSignature after Consume: the signer needs a subject, and   *)
(* of the revocation verdicts only an error and "revoked" refuse.            *)
SignatureStands(v) ==
  v.sig = "valid" /\ (RequireOCSP => v.rev \in {"good", "undetermined", "inconclusive"})

LoginEnd(t) ==
  /\ req[t].op = "login"
  /\ \E ok \in {SignatureStands(v) : v \in Verdict} :
       IF ok THEN Accepted(req[t].c) ELSE UNCHANGED grants
  /\ Done(t)
  /\ UNCHANGED <<chal, codes, issued, asked, tokens, now>>

(* ValidateAuthorize, of requests for response_type=code. *)
ValidateAuthorize(a) ==
  /\ a.uri = a.client
  /\ a.client \in PublicClients => a.pkce = "S256"
  /\ a.pkce # "plain"

(* CompleteAuthorization: a refused request leaves the challenge alone.      *)
AuthorizeBegin(t, c, a) ==
  /\ Free(t) /\ ValidateAuthorize(a)
  /\ Consume(t, c, [op |-> "authorize", owner |-> "oidc", c |-> c, a |-> a])
  /\ UNCHANGED <<codes, issued, grants, asked, tokens, now>>

(* ... and, the signature verified, a code bound to the request.             *)
AuthorizeEnd(t) ==
  /\ req[t].op = "authorize"
  /\ \E ok \in {SignatureStands(v) : v \in Verdict} :
       IF ok
         THEN \E k \in Codes \ issued :
                /\ codes' = [codes EXCEPT ![k] = [a |-> req[t].a, c |-> req[t].c,
                                                  exp |-> now + TTL]]
                /\ asked' = [asked EXCEPT ![k] = req[t].a]
                /\ issued' = issued \cup {k}
         ELSE UNCHANGED <<codes, asked, issued>>
  /\ Done(t)
  /\ UNCHANGED <<chal, grants, tokens, now>>

BindingHolds(k, q) ==
  /\ codes[k].a.client = q.client /\ codes[k].a.uri = q.uri
  /\ codes[k].a.pkce # "none" => q.verifier

take(k) == codes' = [codes EXCEPT ![k] = NoCode]

Exchanged(k, q, ok) ==
  /\ tokens' = tokens \cup {[k |-> k, q |-> q, ok |-> ok]}
  /\ IF ok THEN Accepted(codes[k].c) ELSE UNCHANGED grants

ExchangeUnbound(k, q) ==
  /\ codes[k] # NoCode
  /\ q.client \notin PublicClients => q.secret
  /\ take(k)
  /\ Exchanged(k, q, ~Expired(codes[k].exp))
  /\ UNCHANGED <<chal, issued, asked, req, now>>

(* Exchange: the client is authenticated first, then the code is taken, for  *)
(* good, and only then is what it is bound to compared.                      *)
Exchange(k, q) ==
  /\ codes[k] # NoCode
  /\ q.client \notin PublicClients => q.secret
  /\ take(k)
  /\ Exchanged(k, q, ~Expired(codes[k].exp) /\ BindingHolds(k, q))
  /\ UNCHANGED <<chal, issued, asked, req, now>>

(* The provider's reaper deletes expired codes, then expired challenges.     *)
ReapProvider ==
  /\ \/ \E k \in Codes : codes[k] # NoCode /\ Expired(codes[k].exp)
     \/ \E c \in Challenges : chal[c] # NoChal /\ chal[c].owner = "oidc" /\ Expired(chal[c].exp)
  /\ codes' = [k \in Codes |-> IF codes[k] # NoCode /\ Expired(codes[k].exp)
                               THEN NoCode ELSE codes[k]]
  /\ chal' = [c \in Challenges |-> IF chal[c] # NoChal /\ chal[c].owner = "oidc"
                                        /\ Expired(chal[c].exp) THEN NoChal ELSE chal[c]]
  /\ UNCHANGED <<issued, grants, asked, tokens, req, now>>

ReapService ==
  /\ ReapChallenges("service")
  /\ UNCHANGED <<codes, issued, grants, asked, tokens, req, now>>

(* What a restart leaves: codes live in memory only.                         *)
ChalRestart ==
  /\ chal' = IF Durable THEN chal ELSE [c \in Challenges |-> NoChal]
  /\ codes' = [k \in Codes |-> NoCode]
  /\ UNCHANGED <<issued, grants, asked, tokens>>

ChalNext ==
  \/ \E c \in Challenges : Issue(c, "service") \/ Issue(c, "oidc")
  \/ \E t \in Threads : ConfirmEnd(t) \/ LoginEnd(t) \/ AuthorizeEnd(t)
  \/ \E t \in Threads, c \in Challenges :
       \/ ConfirmBegin(t, c) \/ LoginBegin(t, c)
       \/ \E a \in AuthorizeRequest : AuthorizeBegin(t, c, a)
  \/ \E k \in Codes, q \in TokenRequest : Exchange(k, q)
  \/ ReapProvider \/ ReapService
=============================================================================
