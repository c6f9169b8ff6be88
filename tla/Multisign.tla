----------------------------- MODULE Multisign -----------------------------
(***************************************************************************)
(* Multi-party signing: internal/multisign/multisign.go over the stores of *)
(* store.go.  A round collects the signatures of several people in one     *)
(* container.  The service reads a round, works on the copy and writes the *)
(* copy back whole; nothing compares it with what is stored by then.       *)
(*                                                                         *)
(* Rounds do not share state, so one is modelled.  A signer is known by    *)
(* the certificate used; a person may have several.  A container is the    *)
(* list of its signers; a requirement is the set of certificates that      *)
(* match it (the IIN, BIN and role comparison).                            *)
(***************************************************************************)
EXTENDS Requests, SequencesExt

CONSTANTS Certs,
          Holder,       \* identityOf: whose certificate it is
          MaxSigners,   \* bound on the signatures of a container
          RoundRules,   \* the rules a round may be opened with: [required, min]
          Seeds,        \* the containers it may be opened with, <<>> for none
          NoRound

ASSUME MultisignAssumption ==
  RoundRules \subseteq [required : Seq(SUBSET Certs), min : Nat]

VARIABLES round,        \* the store
          opened,       \* history: the identifier is taken
          overlapped    \* history: a copy was taken or the round deleted
                        \* while another request held a copy

roundVars == <<round, opened, overlapped>>

RoundInit == round = NoRound /\ opened = FALSE /\ overlapped = FALSE

(* What may be submitted: every list of distinct certificates, also two of   *)
(* one person.                                                               *)
Containers == UNION {{c \in [1 .. n -> Certs] : IsInjective(c)} : n \in 1 .. MaxSigners}

-----------------------------------------------------------------------------
(* A session and its requirements. *)

satisfiedByMatch(r, i) == \E x \in ToSet(r.collected) : x.cert \in r.required[i]

satisfied(r, i) == \E x \in ToSet(r.collected) : x.sat = i

Remaining(r) == {i \in DOMAIN r.required : ~satisfied(r, i)}

complete(r) == IF r.required # <<>> THEN Remaining(r) = {} ELSE Len(r.collected) >= r.min

Holders(certs) == {Holder[c] : c \in certs}

alreadyCollected(r, p) == \E x \in ToSet(r.collected) : Holder[x.cert] = Holder[p]

(* The first requirement that is unmet and that p matches; 0 for none (-1).  *)
record(r, p) ==
  LET fits == {i \in Remaining(r) : p \in r.required[i]}
  IN  [cert |-> p, sat |-> IF fits = {} THEN 0 ELSE Min(fits)]

(* Signers are compared by who they are, not by certificate.                 *)
containsAll(signers, collected) ==
  \A x \in ToSet(collected) : Holder[x.cert] \in Holders(ToSet(signers))

(* The status after signatures were added. *)
Judged(r) == IF complete(r) THEN [r EXCEPT !.status = "complete"] ELSE r

(* The loop of Submit over the container's signers: someone who was not      *)
(* invited, or whose slot is filled, refuses the whole submission.           *)
Collect(r, signers) ==
  LET add(acc, p) ==
        IF acc = NoRound \/ alreadyCollected(acc, p) THEN acc
        ELSE IF acc.required # <<>> /\ record(acc, p).sat = 0 THEN NoRound
        ELSE [acc EXCEPT !.collected = Append(@, record(acc, p))]
  IN  FoldLeft(add, r, signers)

SubmittedAfresh(r, signers) ==
  LET new == Collect([r EXCEPT !.collected = <<>>], signers)
  IN  IF ~containsAll(signers, r.collected) \/ new = NoRound THEN NoRound
      ELSE Judged([new EXCEPT !.container = signers])

(* Submit from the verified container to Save; NoRound for a refusal.        *)
Submitted(r, signers) ==
  LET new == Collect(r, signers)
  IN  IF ~containsAll(signers, r.collected) \/ new = NoRound \/ new = r THEN NoRound
      ELSE Judged([new EXCEPT !.container = signers])

-----------------------------------------------------------------------------
(* The service. *)

(* Create: the signers of a seed are recorded, invited or not, and one       *)
(* person as often as the seed has them.                                     *)
CreateRound(rule, seed) ==
  /\ ~opened /\ (rule.required # <<>> \/ rule.min > 0)
  /\ LET add(acc, p) == [acc EXCEPT !.collected = Append(@, record(acc, p))]
         r == [status |-> "pending", required |-> rule.required, min |-> rule.min,
               container |-> seed, collected |-> <<>>, exp |-> now + TTL]
     IN  round' = IF seed = <<>> THEN r ELSE Judged(FoldLeft(add, r, seed))
  /\ opened' = TRUE
  /\ UNCHANGED <<overlapped, req, now>>

Serving == {t \in Threads : ~Free(t)}

(* The store's Save: refused when the round is gone; the durable store looks *)
(* and writes in two transactions.                                           *)
SaveRound(t, r) ==
  IF round = NoRound THEN Done(t) /\ UNCHANGED round
  ELSE IF Durable THEN Serve(t, [op |-> "put", r |-> r]) /\ UNCHANGED round
  ELSE Done(t) /\ round' = r

Put(t) ==
  /\ req[t].op = "put"
  /\ round' = req[t].r /\ Done(t)
  /\ UNCHANGED <<opened, overlapped, now>>

(* Get, and what Submit does first: a pending round past its deadline is     *)
(* saved as expired.                                                         *)
GetRound(t) ==
  /\ Free(t) /\ round # NoRound /\ round.status = "pending"
  /\ Serve(t, [op |-> IF Expired(round.exp) THEN "expire" ELSE "submit", r |-> round])
  /\ overlapped' = (overlapped \/ Serving # {})
  /\ UNCHANGED <<round, opened, now>>

ExpireRound(t) ==
  /\ req[t].op = "expire"
  /\ SaveRound(t, [req[t].r EXCEPT !.status = "expired"])
  /\ UNCHANGED <<opened, overlapped, now>>

(* signersOf verifies the container; the rest of Submit follows.             *)
SubmitRound(t) ==
  /\ req[t].op = "submit"
  /\ \E valid \in BOOLEAN, c \in Containers :
       LET new == Submitted(req[t].r, c)
       IN  IF valid /\ new # NoRound THEN SaveRound(t, new) ELSE Done(t) /\ UNCHANGED round
  /\ UNCHANGED <<opened, overlapped, now>>

CancelRound ==
  /\ round # NoRound /\ round' = NoRound
  /\ overlapped' = (overlapped \/ Serving # {})
  /\ UNCHANGED <<opened, req, now>>

RoundNext ==
  \/ \E rule \in RoundRules, seed \in Seeds : CreateRound(rule, seed)
  \/ \E t \in Threads : GetRound(t) \/ ExpireRound(t) \/ SubmitRound(t) \/ Put(t)
  \/ CancelRound

-----------------------------------------------------------------------------
(* Properties *)

RoundOpen == round # NoRound

(* Nobody is in the round with two certificates: the container has each      *)
(* person once, with the certificate that was collected.  Otherwise identity *)
(* and certificate come apart: a seed counts one person twice (Create), a    *)
(* second certificate stands in for the one that met a requirement, and one  *)
(* in the container is passed over (containsAll, alreadyCollected).          *)
OneCertificateEach ==
  /\ \A c, d \in ToSet(round.container) : Holder[c] = Holder[d] => c = d
  /\ \A x \in ToSet(round.collected) : x.cert \in ToSet(round.container)

(* A round that reports complete has in its container a signature of someone *)
(* who could meet each requirement, or has counted enough; and where nobody  *)
(* uses two certificates it is a different signer for every requirement,     *)
(* with a certificate that meets it, or enough of them: what the first-fit   *)
(* assignment of record calls met can be met, and no concurrent write makes  *)
(* it up.                                                                    *)
CompleteMeansEveryone ==
  RoundOpen /\ round.status = "complete" =>
    LET signers == ToSet(round.container)
        slots == DOMAIN round.required
    IN  /\ \A i \in slots : Holders(round.required[i]) \cap Holders(signers) # {}
        /\ slots = {} => Len(round.collected) >= round.min
        /\ OneCertificateEach =>
             IF slots = {} THEN Cardinality(signers) >= round.min
             ELSE \E f \in [slots -> signers] :
                    IsInjective(f) /\ \A i \in slots : f[i] \in round.required[i]

(* While the requirements name disjoint people and nobody uses two           *)
(* certificates, a round is pending only as long as somebody's signature is  *)
(* missing from its container.  (Where two requirements fit one signer the   *)
(* first fit may leave the other unmet.)                                     *)
PendingMeansWaiting ==
  RoundOpen /\ round.status = "pending" /\ round.required # <<>> /\ OneCertificateEach
    /\ (\A i, j \in DOMAIN round.required :
          i # j => Holders(round.required[i]) \cap Holders(round.required[j]) = {})
  => \E i \in DOMAIN round.required : round.required[i] \cap ToSet(round.container) = {}

(* Whoever was collected still has a signature in the container, and no      *)
(* requirement is met twice; nobody is collected twice in a round that was   *)
(* not opened with a container holding them twice.                           *)
ContainerCarriesCollected ==
  RoundOpen =>
    /\ \A x \in ToSet(round.collected) : Holder[x.cert] \in Holders(ToSet(round.container))
    /\ \A i, j \in DOMAIN round.collected :
         LET x == round.collected[i] y == round.collected[j]
         IN  i # j => /\ x.sat = y.sat => x.sat = 0
                      /\ Holder[x.cert] = Holder[y.cert] =>
                           \E seed \in Seeds : {x.cert, y.cert} \subseteq ToSet(seed)

(* Requests served one after another lose nothing: no collected signer       *)
(* disappears, a closed round keeps its status, a cancelled one stays away.  *)
(* Requests that overlap may do all three.                                   *)
SerialRoundsKeep ==
  [][opened /\ ~overlapped' =>
       /\ ~RoundOpen => ~RoundOpen'
       /\ RoundOpen /\ RoundOpen' =>
            /\ ToSet(round.collected) \subseteq ToSet(round'.collected)
            /\ round.status # "pending" => round'.status = round.status]_roundVars

(* What a round says agrees with the container it hands out (multisign.go  *)
(* record): its status, its list of signers and the signatures, however    *)
(* submissions overlap.                                                    *)
RoundIsSound ==
  /\ CompleteMeansEveryone
  /\ PendingMeansWaiting
  /\ ContainerCarriesCollected
=============================================================================
