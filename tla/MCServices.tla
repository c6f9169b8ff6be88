----------------------------- MODULE MCServices -----------------------------
(***************************************************************************)
(* The flows served to users and the verdicts they rest on, for TLC: the   *)
(* sign-in surface, co-signing rounds, revocation checks, verification and *)
(* chain building, and the front ends and job endpoints.  They are checked *)
(* side by side: `part` names the one that runs, and the variables of the  *)
(* others stand still.                                                     *)
(***************************************************************************)
EXTENDS Login, Multisign, Revocation, Verification, Chain, Frontends, JobApi

CONSTANT Off    \* the question of a pure component while another one runs
VARIABLE part

(* Goroutines, and certificates whose revocation is asked for, are           *)
(* interchangeable.                                                          *)
Perms == Permutations(Threads) \cup Permutations(Checkers) \cup Permutations(Subjects)

(* A seed with somebody uninvited, and one with two certificates of one      *)
(* person; a requirement by person, and one by a role only a certificate has. *)
MCHolder == [c \in Certs |-> IF c = "bob2" THEN "bob" ELSE c]
MCSeeds == {<<>>, <<"eve", "bob">>, <<"bob", "bob2">>}
MCRules == {[required |-> <<{"ann"}, {"bob", "bob2"}>>, min |-> 0],
            [required |-> <<{"ann", "bob", "bob2"}, {"ann", "bob2"}>>, min |-> 0],
            [required |-> <<>>, min |-> 2]}

loginVars == <<chalVars, qrVars, restarts>>
pureVars == <<verifyVars, chainVars, frontVars, jobApiVars>>
servicesVars == <<part, vars, roundVars, revVars, pureVars>>

(* Components with many initial states take them only when it is their turn. *)
ServicesInit ==
  /\ part \in {"challenge", "qr", "multisign", "revocation", "verification", "chain", "front", "jobapi"}
  /\ Init /\ RoundInit
  /\ RevInit /\ (part # "revocation" => policy = "soft")
  /\ IF part = "verification" THEN VerifyInit ELSE ask = Off /\ ans = <<>>
  /\ IF part = "chain" THEN ChainInit ELSE pki = Off /\ built = NoCert
  /\ IF part = "front" THEN FrontInit
     ELSE /\ wanted = NoAsk /\ stage = "over" /\ inputs = <<>> /\ results = <<>>
          /\ wire = <<>> /\ lost = FALSE /\ answer = "none" /\ register = NoCounts
  /\ JobApiInit /\ (part # "jobapi" => jobsOn)

(* The challenges and the QR sessions of Login share goroutines and clock    *)
(* but no record, and take turns too.                                        *)

(* The deadline of the round passes: the one instant a round depends on.     *)
RoundTick == opened /\ now < TTL /\ now' = now + 1 /\ UNCHANGED <<roundVars, req>>

ServicesNext ==
  \/ /\ part \in {"challenge", "qr"} /\ Next
     /\ IF part = "qr" THEN UNCHANGED chalVars ELSE UNCHANGED qrVars
     /\ UNCHANGED <<part, roundVars, revVars, pureVars>>
  \/ /\ part = "multisign" /\ (RoundNext \/ RoundTick)
     /\ UNCHANGED <<part, loginVars, revVars, pureVars>>
  \/ /\ part = "revocation" /\ RevNext
     /\ UNCHANGED <<part, vars, roundVars, pureVars>>
  \/ /\ part = "verification" /\ VerifyNext
     /\ UNCHANGED <<part, vars, roundVars, revVars, chainVars, frontVars, jobApiVars>>
  \/ /\ part = "chain" /\ Build
     /\ UNCHANGED <<part, vars, roundVars, revVars, verifyVars, frontVars, jobApiVars>>
  \/ /\ part = "front" /\ FrontNext
     /\ UNCHANGED <<part, vars, roundVars, revVars, verifyVars, chainVars, jobApiVars>>
  \/ /\ part = "jobapi" /\ JobApiNext
     /\ UNCHANGED <<part, vars, roundVars, revVars, verifyVars, chainVars, frontVars>>

ServicesSpec == ServicesInit /\ [][ServicesNext]_servicesVars
=============================================================================
