------------------------------- MODULE Login -------------------------------
(***************************************************************************)
(* The sign-in surface as a whole: confirmations, OIDC logins and QR       *)
(* sessions served by the same goroutines under one clock, reaped in the   *)
(* background, through restarts of the process.                            *)
(***************************************************************************)
EXTENDS Challenge, QR

CONSTANT MaxRestarts   \* bound on restarts
VARIABLE restarts

vars == <<chalVars, qrVars, now, req, restarts>>

Init == /\ ChalInit /\ QRInit
        /\ now = 0 /\ restarts = 0
        /\ req = [t \in Threads |-> Idle]

Tick == now < MaxTime /\ now' = now + 1 /\ UNCHANGED <<chalVars, qrVars, req, restarts>>

Restart == /\ restarts < MaxRestarts /\ restarts' = restarts + 1
           /\ ChalRestart /\ QRRestart
           /\ req' = [t \in Threads |-> Idle]
           /\ UNCHANGED now

Next == \/ ChalNext /\ UNCHANGED <<qrVars, restarts>>
        \/ QRNext /\ UNCHANGED <<chalVars, restarts>>
        \/ Tick \/ Restart

Spec == Init /\ [][Next]_vars

-----------------------------------------------------------------------------
(* Properties *)

Present(c) == chal[c] # NoChal
Known(s) == sess[s] # NoSess

(* A challenge is accepted for one thing once: one confirmation, or one      *)
(* token set, directly or through one code, whatever requests race for it,   *)
(* and over restarts ("Consume is the anti-replay seam").                    *)
ChallengeIsSingleUse == \A c \in Challenges : grants[c] <= 1

(* "a code is only valid for the client, the redirect URI and the PKCE       *)
(* verifier it was issued against", and tokens for a public client have      *)
(* always been asked for with the verifier.                                  *)
TokensAreBound ==
  \A x \in tokens : x.ok =>
    /\ x.q.client = asked[x.k].client /\ x.q.uri = asked[x.k].uri
    /\ IF x.q.client \in PublicClients THEN x.q.verifier ELSE x.q.secret

(* "a code is single-use": whoever presents it first, rightly or wrongly,    *)
(* spends it, so the token endpoint answers for a code it knows only once.   *)
CodeIsSingleUse == \A x, y \in tokens : x.k = y.k => x = y

(* SubmitSignature "is single-use": a self-hosted session is completed once, *)
(* its webhook fired once.  A relay session is verified once as long as its  *)
(* deadline has not passed: from then on a status request may write back a   *)
(* copy that was read before the session was consumed.                       *)
SessionIsSingleUse ==
  \A s \in Sessions : created[s] # NoSess =>
    /\ ~created[s].relay => verified[s] <= 1 /\ webhooks[s] <= 1
    /\ ~Expired(created[s].exp) => verified[s] <= 1

(* Before its deadline no request, status poll or late failure takes back a  *)
(* session that has been verified.                                           *)
VerifiedStands ==
  [][\A s \in Sessions : Known(s) /\ Known(s)' /\ sess[s].st = "verified" /\ ~Expired(sess[s].exp)
       => sess'[s].st = "verified"]_vars

(* A signature accepted for a session is only ever reported on one that was  *)
(* consumed for it: a verified record is marked used.                        *)
VerifiedIsUsed == \A s \in Sessions : Known(s) /\ sess[s].st = "verified" => sess[s].used

(* Challenges, authorization codes and QR sessions are good for one thing  *)
(* once, by whichever of the flows that share their stores they are spent, *)
(* over racing requests and restarts.                                      *)
SingleUse ==
  /\ ChallengeIsSingleUse
  /\ CodeIsSingleUse
  /\ SessionIsSingleUse
  /\ VerifiedIsUsed
=============================================================================
