---------------------------- MODULE Verification ----------------------------
(***************************************************************************)
(* The verdicts of the domain service (internal/core): Verify, VerifyAt    *)
(* and Archive (service.go, historical.go, ltv.go), the diagnosis and the  *)
(* report made of a verification (explain.go, report.go), and the journal  *)
(* entry it leaves.  Each is one function of the request, the service's    *)
(* settings and what the library, the chain builder and the revocation     *)
(* check answer, so a behaviour is: any such question, then its answer.    *)
(*                                                                         *)
(* The library's answers to one Verify:                                    *)
(*   first  the verification itself;                                       *)
(*   retry  the same with the discovered issuers loaded ("none" when the   *)
(*          service has no fetcher or nothing was discovered);             *)
(*   math   the same with the certificate-time gate off.                   *)
(* "ok" is valid; "bad" a negative verdict; "anchor" one of the verdicts a *)
(* missing issuer produces; "hard" no verdict (closed, not ready, ctx).    *)
(***************************************************************************)
EXTENDS Integers, Sequences, FiniteSets, SequencesExt

CONSTANTS
    Instants,   \* instants a revocation or a question can be placed at
    NoTime      \* an instant that is not given

VARIABLES
    ask,    \* the question: request, settings and the world's answers
    ans     \* the answer, or the empty record

verifyVars == <<ask, ans>>

\* What Validate answers about a certificate (Revocation.tla): an error, or
\* a status; lib is the soft failure the library reported, if any.
RevAnswers ==
    [err: {FALSE}, det: {TRUE}, revoked: {TRUE}, at: Instants \cup {NoTime}, lib: {FALSE}]
      \cup [err: {FALSE}, det: BOOLEAN, revoked: {FALSE}, at: {NoTime}, lib: {FALSE}]
      \cup [err: {FALSE}, det: {FALSE}, revoked: BOOLEAN, at: {NoTime}, lib: {TRUE}]
      \cup [err: {TRUE}, det: {FALSE}, revoked: {FALSE}, at: {NoTime}, lib: {FALSE}]

\* No status: the check was not asked for, or not reached.
NotChecked == [err |-> FALSE, det |-> FALSE, revoked |-> FALSE, at |-> NoTime, lib |-> FALSE]

\* The facts about one signer of a container.  pem: the certificate can be
\* read; window and then: now and the asked instant against its validity
\* ("none": no bounds); found: AIA discovered an issuer above it.
Facts == [pem: BOOLEAN, window: {"in", "out", "none"}, then: {"in", "out", "none"},
          complete: BOOLEAN, anchored: BOOLEAN, crypto: BOOLEAN, found: BOOLEAN,
          rev: RevAnswers]

---------------------------------------------------------------------------
(***************************************************************************)
(* Verify.                                                                 *)
(***************************************************************************)

\* isAnchorFailure and isSoftVerifyFailure on the library's answers.
isAnchorFailure(a) == a = "anchor"
isSoftVerifyFailure(a) == a \in {"bad", "anchor"}

\* The retry with the discovered issuers loaded.
Retried(q) == /\ q.lib.retry # "none"
              /\ q.checkTime
              /\ isAnchorFailure(q.lib.first)
              /\ q.signers # <<>>

LibAnswer(q) == IF Retried(q) THEN q.lib.retry ELSE q.lib.first

\* buildSigners: the discovered issuers are looked up like configured ones.
buildSigners(q) ==
    [i \in DOMAIN q.signers |->
        LET f == q.signers[i]
        IN  [facts |-> f, valid |-> LibAnswer(q) = "ok", rev |-> NotChecked,
             anchored |-> f.anchored \/ (Retried(q) /\ f.found),
             crypto |-> q.verifyChain /\ f.crypto]]

\* The confirmation without looking at the anchors.
compositeConfirmsUnanchored(q, signers) ==
    /\ signers # <<>>
    /\ \A i \in DOMAIN signers: signers[i].crypto
    /\ q.lib.math = "ok"

\* The library refused on the time gate alone: chain, anchor, window and
\* the signature without the gate, all of them, for every signer.
compositeConfirms(q, signers) ==
    /\ signers # <<>>
    /\ \A i \in DOMAIN signers:
          signers[i].crypto /\ signers[i].anchored /\ signers[i].facts.window = "in"
    /\ q.lib.math = "ok"

Overridden(q, signers) == /\ LibAnswer(q) # "ok"
                          /\ q.verifyChain
                          /\ q.checkTime
                          /\ isAnchorFailure(LibAnswer(q))
                          /\ compositeConfirms(q, signers)

\* Every signer that has a certificate is asked about; a determined
\* revocation takes the verdict back, an undetermined answer only warns.
checkRevocation(q, out) ==
    LET asked == [i \in DOMAIN out.signers |->
                    IF out.signers[i].facts.pem
                    THEN [out.signers[i] EXCEPT !.rev = out.signers[i].facts.rev,
                            !.valid = @ /\ ~(out.signers[i].facts.rev.det
                                             /\ out.signers[i].facts.rev.revoked)]
                    ELSE out.signers[i]]
    IN  [out EXCEPT !.signers = asked,
                    !.valid = @ /\ \A i \in DOMAIN asked:
                        ~(asked[i].rev.det /\ asked[i].rev.revoked)]

\* embedEvidence: the responses just collected and the readable chains;
\* nothing to embed, or a container that takes none, is no archive.
attachArchive(q, out) ==
    [out EXCEPT !.archive =
        q.embeds /\ \E i \in DOMAIN out.signers: out.signers[i].facts.pem]

\* The whole of Verify after its input checks.  err: an error is returned;
\* journal: the outcome attachSynthesis records, none on an error.
Verify(q) ==
    LET signers == buildSigners(q)
        over    == Overridden(q, signers)
        found   == [valid   |-> LibAnswer(q) = "ok" \/ over,
                    signers |-> IF over THEN [i \in DOMAIN signers |->
                                                [signers[i] EXCEPT !.valid = TRUE]]
                                ELSE signers,
                    archive |-> FALSE]
        checked == IF found.valid /\ q.revCheck THEN checkRevocation(q, found) ELSE found
        kept    == IF found.valid /\ q.revCheck /\ q.archive
                   THEN attachArchive(q, checked) ELSE checked
        valid   == kept.valid /\ signers # <<>>
        failed  == LibAnswer(q) # "ok" /\ ~over
        err     == failed /\ ~isSoftVerifyFailure(LibAnswer(q))
    IN  [valid |-> valid, signers |-> kept.signers, archive |-> kept.archive,
         lib |-> failed, err |-> err,
         journal |-> IF err THEN "none" ELSE IF valid THEN "valid" ELSE "invalid"]

---------------------------------------------------------------------------
(***************************************************************************)
(* VerifyAt and Archive: two uses of Verify.                               *)
(***************************************************************************)

\* Good now was good then; revoked now was revoked then from its time on.
revocationAt(f, at) ==
    IF ~f.pem \/ f.rev.err \/ (f.rev.lib /\ ~f.rev.revoked) THEN [good |-> TRUE, det |-> FALSE]
    ELSE IF ~f.rev.revoked THEN [good |-> TRUE, det |-> TRUE]
    ELSE IF f.rev.at = NoTime THEN [good |-> FALSE, det |-> FALSE]
    ELSE [good |-> at < f.rev.at, det |-> TRUE]

\* withinValidityAt and the conjunction over the three facts.
assessSignerAt(s, at) ==
    LET revocation == revocationAt(s.facts, at)
    IN  [valid |-> s.valid /\ s.facts.then = "in" /\ revocation.good,
         det   |-> s.facts.then # "none" /\ revocation.det]

VerifyAt(q) ==
    LET v == Verify([q EXCEPT !.checkTime = FALSE, !.revCheck = FALSE])
        each == {assessSignerAt(v.signers[i], q.at): i \in DOMAIN v.signers}
    IN  [err   |-> v.err,
         valid |-> ~v.err /\ v.signers # <<>> /\ \A s \in each: s.valid,
         det   |-> ~v.err /\ \A s \in each: s.det]

revokedSigners(out) == {i \in DOMAIN out.signers: out.signers[i].rev.det /\ out.signers[i].rev.revoked}

\* Revocation first, so that it gets its own refusal; then the verdict,
\* then the evidence.
Archive(q) ==
    LET v == Verify([q EXCEPT !.checkTime = FALSE, !.revCheck = TRUE, !.archive = TRUE])
    IN  IF \/ v.err \/ v.signers = <<>>
           \/ revokedSigners(v) # {} /\ ~q.allowRevoked
           \/ revokedSigners(v) = {} /\ ~v.valid
        THEN "refused"
        ELSE IF v.archive THEN "archived" ELSE "unavailable"

---------------------------------------------------------------------------
(***************************************************************************)
(* The diagnosis and the report.                                           *)
(***************************************************************************)

severity == [fail |-> 4, unknown |-> 3, warn |-> 2, pass |-> 1, skipped |-> 0]

\* merge over the signers: the worst status, from a passing start.
Worst(statuses) ==
    CHOOSE s \in statuses \cup {"pass"}:
        \A t \in statuses \cup {"pass"}: severity[s] >= severity[t]

OverSigners(out, Status(_)) ==
    IF out.signers = <<>> THEN "skipped"
    ELSE Worst({Status(out.signers[i]): i \in DOMAIN out.signers})

signatureStep(out) == IF out.valid THEN "pass" ELSE "fail"

certificateTimeStep(q, out) ==
    LET Status(s) == CASE s.facts.window = "none" -> "unknown"
                       [] s.facts.window = "in" -> "pass"
                       [] s.facts.window = "out" -> IF q.checkTime THEN "fail" ELSE "warn"
    IN  OverSigners(out, Status)

chainCompleteStep(out) ==
    LET Status(s) == IF s.facts.complete THEN "pass" ELSE "warn"
    IN  OverSigners(out, Status)

trustAnchorStep(out) ==
    LET Status(s) == IF s.anchored THEN "pass" ELSE "warn"
    IN  OverSigners(out, Status)

chainSignaturesStep(q, out) ==
    LET Status(s) == IF s.crypto THEN "pass" ELSE "fail"
    IN  IF q.verifyChain THEN OverSigners(out, Status) ELSE "skipped"

\* Not knowing is unknown, unless nothing was asked because the signature
\* failed first.
revocationStep(out) ==
    LET Status(s) == CASE ~s.rev.det -> "unknown"
                       [] s.rev.det /\ s.rev.revoked -> "fail"
                       [] s.rev.det /\ ~s.rev.revoked -> "pass"
        answered == \E i \in DOMAIN out.signers:
                        out.signers[i].rev.det /\ ~out.signers[i].rev.revoked
        step == OverSigners(out, Status)
    IN  IF ~out.valid /\ ~answered /\ step = "unknown" THEN "skipped" ELSE step

buildDiagnosis(q, out) ==
    <<signatureStep(out), certificateTimeStep(q, out), chainCompleteStep(out),
      trustAnchorStep(out), chainSignaturesStep(q, out), revocationStep(out)>>

\* The first step that failed or is unknown decides.
verdictFrom(out, steps) ==
    LET hits == SelectSeq(steps, LAMBDA s: s \in {"fail", "unknown"})
    IN  CASE ~out.valid -> "invalid"
          [] out.valid /\ hits = <<>> -> "valid"
          [] out.valid /\ hits # <<>> -> IF hits[1] = "fail" THEN "invalid" ELSE "indeterminate"

\* The flag and the steps, as buildReport puts them together.
buildReport(q, out) == [verdict |-> verdictFrom(out, buildDiagnosis(q, out)),
                        steps   |-> buildDiagnosis(q, out)]

---------------------------------------------------------------------------
(***************************************************************************)
(* Questions and answers.  A second signer stands beside the one whose     *)
(* facts range over everything.                                            *)
(***************************************************************************)

Good == [pem |-> TRUE, window |-> "in", then |-> "in", complete |-> TRUE, anchored |-> TRUE,
         crypto |-> TRUE, found |-> FALSE,
         rev |-> [err |-> FALSE, det |-> TRUE, revoked |-> FALSE, at |-> NoTime, lib |-> FALSE]]

\* A certificate without bounds has none at the past instant either, and one
\* that cannot be read has neither bounds nor a revocation answer.
Possible(f) == /\ (f.window = "none") <=> (f.then = "none")
               /\ ~f.pem => f.window = "none" /\ f.rev.err

SignerLists == LET one == {f \in Facts: Possible(f)}
              IN  {<<>>} \cup {<<f>>: f \in one} \cup {<<f, Good>>: f \in one}

Libraries == [first: {"ok", "bad", "hard"}, retry: {"none"}, math: {"bad"}]
               \cup [first: {"anchor"}, retry: {"none", "ok", "bad", "anchor", "hard"},
                     math: {"ok", "bad"}]

VerifyInit ==
    /\ ask \in [op: {"verify"}, checkTime: BOOLEAN, revCheck: BOOLEAN, archive: {FALSE},
                verifyChain: BOOLEAN, embeds: {TRUE}, allowRevoked: {FALSE},
                at: {NoTime}, lib: Libraries, signers: SignerLists]
             \cup [op: {"at"}, checkTime: {TRUE}, revCheck: {TRUE}, archive: {FALSE},
                   verifyChain: {FALSE}, embeds: {TRUE}, allowRevoked: {FALSE},
                   at: Instants, lib: Libraries, signers: SignerLists]
             \cup [op: {"archive"}, checkTime: {TRUE}, revCheck: {TRUE}, archive: {FALSE},
                   verifyChain: BOOLEAN, embeds: BOOLEAN, allowRevoked: BOOLEAN,
                   at: {NoTime}, lib: Libraries, signers: SignerLists]
    /\ ans = <<>>

Answer(op, a) == ask.op = op /\ ans = <<>> /\ ans' = <<a>> /\ UNCHANGED ask

AskVerify == Answer("verify", [out |-> Verify(ask), report |-> buildReport(ask, Verify(ask))])
AskVerifyAt == Answer("at", VerifyAt(ask))
AskArchive == Answer("archive", Archive(ask))

VerifyNext == AskVerify \/ AskVerifyAt \/ AskArchive

---------------------------------------------------------------------------
(***************************************************************************)
(* What the verdicts promise.                                              *)
(***************************************************************************)

Given(op) == ans # <<>> /\ ask.op = op

\* The library accepted the signature, with or without the time gate.
LibraryAccepted == "ok" \in {ask.lib.first, ask.lib.retry, ask.lib.math}

\* A valid verdict is earned (service.go, Verify): somebody signed, the
\* library accepted the signature, no signer is known to be revoked when
\* that was asked, every signer is valid; and where the library refused
\* under the time gate, whichever of the two attempts it was, every
\* signer's chain verifies and its window is open.  Such a chain ends in a
\* configured anchor unless issuers were discovered for the retry: those
\* join the list compositeConfirms' anchors are looked up in.
ValidIsEarned ==
    Given("verify") /\ ans[1].out.valid =>
        /\ ask.signers # <<>> /\ LibraryAccepted
        /\ \A i \in DOMAIN ask.signers:
              LET f == ask.signers[i]
              IN  /\ ans[1].out.signers[i].valid
                  /\ ask.revCheck /\ f.pem => ~(f.rev.det /\ f.rev.revoked)
                  /\ (ask.lib.first = "anchor" /\ ask.lib.retry # "ok") =>
                        /\ f.crypto /\ f.window = "in"
                        /\ ask.lib.retry = "none" => f.anchored

\* The report says valid only of a verification in which nothing was left
\* open (explain.go, report.go): every signer's revocation was asked and
\* answered with good, every window is known, and what was asked of time
\* and chain held.  A flag that says valid while the revocation check
\* never answered is reported indeterminate.
ReportLeavesNothingOpen ==
    Given("verify") /\ ans[1].report.verdict = "valid" =>
        /\ ans[1].out.valid /\ ask.revCheck
        /\ \A i \in DOMAIN ask.signers:
              LET f == ask.signers[i]
              IN  /\ f.pem /\ f.rev.det /\ ~f.rev.revoked
                  /\ f.window # "none" /\ (ask.checkTime => f.window = "in")
                  /\ ask.verifyChain => f.crypto

\* A determinate "was valid then" (historical.go, VerifyAt) says that the
\* signature holds, that the certificate was read and its window covered
\* the instant, that the revocation check neither failed nor reported a
\* failure, and that a revocation it found is placed after the instant.
\* It does not say that the check came to a status: revocationAt does not
\* look at Determinate, so a certificate without a responder, or one the
\* responder does not know, counts as good then.
ThenIsPlaced ==
    Given("at") /\ ans[1].valid /\ ans[1].det =>
        /\ ask.signers # <<>> /\ LibraryAccepted
        /\ \A i \in DOMAIN ask.signers:
              LET f == ask.signers[i]
              IN  /\ f.pem /\ f.then = "in" /\ ~f.rev.err
                  /\ f.rev.lib => f.rev.revoked
                  /\ f.rev.revoked => f.rev.at # NoTime /\ ask.at < f.rev.at

\* An archive preserves what verified (ltv.go, Archive): a container whose
\* signature the library accepted, with at least one certificate in it,
\* and with a revoked signer only when that was asked for.
ArchiveIsOfASignature ==
    Given("archive") /\ ans[1] = "archived" =>
        /\ ask.lib.first = "ok" /\ ask.embeds
        /\ \E i \in DOMAIN ask.signers: ask.signers[i].pem
        /\ ask.allowRevoked \/ \A i \in DOMAIN ask.signers:
              ~(ask.signers[i].pem /\ ask.signers[i].rev.det /\ ask.signers[i].rev.revoked)

\* What a favourable verdict rests on was there, be it the valid flag, the
\* report, the verdict for an earlier instant or the archive (service.go,
\* report.go, historical.go, ltv.go).
VerdictIsEarned ==
    /\ ValidIsEarned
    /\ ReportLeavesNothingOpen
    /\ ThenIsPlaced
    /\ ArchiveIsOfASignature
============================================================================
