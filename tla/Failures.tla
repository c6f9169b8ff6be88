------------------------------ MODULE Failures ------------------------------
(***************************************************************************)
(* What becomes of a failure on its way to the client.                     *)
(*                                                                         *)
(* The library answers with a return code; the driver (internal/native)    *)
(* gives it a sentinel; a crypto-worker child writes the error on a pipe   *)
(* and the service rebuilds it (internal/cryptoworker); the domain takes   *)
(* it for a verdict or gives it a kind (internal/core/errors.go); REST,    *)
(* gRPC, the command line and the queues each put the kind in their own    *)
(* terms.  The refusals of the job manager and of the sign-in flows have   *)
(* maps of their own.  Messages, actions and languages are left out.       *)
(***************************************************************************)
EXTENDS Naturals, FiniteSets

CONSTANT None      \* nothing yet

VARIABLES trip,    \* the call: what the driver makes of it, and where it runs
          frame,   \* the answer the child wrote on the pipe
          got,    \* what the domain gets from the driver's port
          told     \* what the client is told, per transport

failVars == <<trip, frame, got, told>>

-----------------------------------------------------------------------------
(* The library's codes and the driver's sentinels. *)

(* The sentinel of a return code; "none" where the code has none.          *)
sentinelFor(code) ==
    CASE code = "kcrInvalidPassword" -> "ErrInvalidPassword"
      [] code = "kcrKeyNotFound" -> "ErrKeyNotFound"
      [] code = "kcrCertNotFound" -> "ErrCertNotFound"
      [] code \in {"kcrCertExpired", "kcrCertWrongDate"} -> "ErrCertExpired"
      [] code = "kcrCertTimeInvalid" -> "ErrCertTimeInvalid"
      [] code = "kcrCertParseError" -> "ErrCertParse"
      [] code = "kcrXMLParseError" -> "ErrXMLParse"
      [] code = "kcrUnknownCMSFormat" -> "ErrCMSFormat"
      [] code \in {"kcrParamError", "kcrInvalidFlag"} -> "ErrInvalidParam"
      [] code = "kcrSignFormat" -> "ErrSignFormatMismatch"
      [] code = "kcrVerifySignError" -> "ErrSignatureInvalid"
      [] code = "kcrNoSignFound" -> "ErrNoSignature"
      [] code \in {"kcrCheckChainError", "kcrIsNotCACert"} -> "ErrChainInvalid"
      [] code \in {"kcrCACertNotFound", "kcrLoadTrustedCertsErr"} -> "ErrCARequired"
      [] code \in {"kcrOCSPReqErr", "kcrOCSPConnErr"} -> "ErrOCSPRequest"
      [] code = "kcrBufferTooSmall" -> "ErrBufferTooSmall"
      [] code = "kcrLibraryNotInitialized" -> "ErrNotReady"
      [] OTHER -> "none"

(* The codes; kcrOther stands for those without a name in the driver.      *)
Codes ==
    {"kcrInvalidPassword", "kcrKeyNotFound", "kcrCertNotFound", "kcrCertExpired",
     "kcrCertWrongDate", "kcrCertTimeInvalid", "kcrCertParseError", "kcrXMLParseError",
     "kcrUnknownCMSFormat", "kcrParamError", "kcrInvalidFlag", "kcrSignFormat",
     "kcrVerifySignError", "kcrNoSignFound", "kcrCheckChainError", "kcrIsNotCACert",
     "kcrCACertNotFound", "kcrLoadTrustedCertsErr", "kcrOCSPReqErr", "kcrOCSPConnErr",
     "kcrBufferTooSmall", "kcrLibraryNotInitialized", "kcrOther"}

(* An error value: a native one carries operation and code around the      *)
(* sentinel; "canceled" and "deadline" are the caller's context; a "none"   *)
(* sentinel without a code is an error the service has no name for.         *)
Nil == [native |-> FALSE, code |-> "kcrOK", sent |-> "nil"]
Plain(s) == [native |-> FALSE, code |-> "kcrOK", sent |-> s]
NewNativeError(c, s) == [native |-> TRUE, code |-> c, sent |-> s]

nativeErr(code) == NewNativeError(code, sentinelFor(code))

(* Success without a container: a native error whose code is zero.         *)
emptyOutputErr == NewNativeError("kcrOK", "ErrEmptyOutput")

-----------------------------------------------------------------------------
(* The catalog of messages, which is also how errors cross the pipe. *)

catalog ==
    [ErrInvalidPassword |-> "container.password.invalid", ErrKeyNotFound |-> "key.not_found",
     ErrCertNotFound |-> "cert.not_found", ErrCertExpired |-> "cert.expired",
     ErrCertTimeInvalid |-> "cert.time_invalid", ErrCertParse |-> "cert.parse_error",
     ErrSignFormatMismatch |-> "sign.format_mismatch", ErrSignatureInvalid |-> "signature.invalid",
     ErrNoSignature |-> "signature.absent", ErrChainInvalid |-> "chain.invalid",
     ErrCARequired |-> "ca.required", ErrOCSPRequest |-> "ocsp.request_failed",
     ErrXMLParse |-> "xml.parse_error", ErrEmptyOutput |-> "output.empty",
     ErrCMSFormat |-> "cms.format_unknown", ErrInvalidParam |-> "request.invalid_parameter",
     ErrBufferTooSmall |-> "buffer.too_small", ErrUnsupported |-> "operation.unsupported",
     ErrNotReady |-> "service.not_ready", ErrClosed |-> "service.closed"]

(* The key of an error, and the code shown with it. *)
Explain(err) ==
    [code |-> IF err.native THEN err.code ELSE "kcrOK",
     key |-> IF err.sent \in DOMAIN catalog THEN catalog[err.sent]
             ELSE IF err.native THEN "library.error" ELSE ""]

SentinelForKey(key) ==
    IF \E s \in DOMAIN catalog : catalog[s] = key
    THEN CHOOSE s \in DOMAIN catalog : catalog[s] = key
    ELSE "none"

(* On the wire: the key, and for a native error its operation and code.    *)
encodeError(err) ==
    IF err = Nil THEN None
    ELSE [key |-> Explain(err).key, op |-> err.native, code |-> err.code]


decode(w) ==
    IF w = None THEN Nil
    ELSE IF w.code # "kcrOK" \/ w.op THEN NewNativeError(w.code, SentinelForKey(w.key))
    ELSE Plain(SentinelForKey(w.key))

-----------------------------------------------------------------------------
(* What the driver can make of a call: a result and an error, either, both *)
(* (a failed verification still names the signers) or a panic.             *)

Ops == {"sign", "verify", "validate"}

Kinds == {"invalid", "unsupported", "unavailable", "canceled", "internal"}

(* What the job manager and the sign-in flows refuse with; "fault" is an    *)
(* error from below that is none of theirs, for QR of the kind it has.      *)
ChallengeGone == {"ErrChallengeNotFound", "ErrChallengeExpired", "ErrChallengeUsed"}

Refusals ==
    [job |-> {"ErrNotFound", "ErrInvalidOp", "ErrTooLarge", "ErrBusy", "ErrNotReady"},
     challenge |-> {"ErrNotFound", "ErrExpired", "ErrUsed", "fault"},
     qr |-> {"ErrSessionNotFound", "ErrSessionUsed", "ErrSessionExpired", "ErrSignatureRejected",
             "ErrCertRevoked", "ErrUnsupportedProfile", "ErrUnsupportedMode", "ErrAuthUnavailable",
             "ErrNoData", "ErrAppOnly"} \cup Kinds,
     multisign |-> {"ErrNotFound", "ErrSessionClosed", "ErrNoNewSigner", "ErrLostSigner",
                    "ErrNotInvited", "ErrAlreadySigned", "ErrInvalid", "fault"},
     oidc |-> ChallengeGone \cup {"ErrSignatureRejected", "ErrCertRevoked", "ErrTokenInvalid",
                                 "ErrTokenExpired", "fault"},
     authorize |-> ChallengeGone \cup {"ErrUnknownClient", "ErrRedirectMismatch", "ErrUnsupportedFlow",
                                      "ErrPKCERequired", "ErrPKCEFailed", "ErrCodeInvalid", "ErrClientAuth",
                                      "ErrSignatureRejected", "ErrCertRevoked", "fault"}]

Flows == DOMAIN Refusals

Outcomes(op) ==
    {[out |-> "full", err |-> Nil, panics |-> FALSE]}
    \cup [out : {IF op = "sign" THEN "empty" ELSE "filled"}, err : {nativeErr(c) : c \in Codes},
          panics : {FALSE}]
    \cup [out : {"empty"}, panics : {FALSE},
          err : {Plain("ErrUnsupported"), Plain("ErrClosed"), Plain("none")}
                \cup (IF op = "sign" THEN {emptyOutputErr} ELSE {})]
    \cup [out : {"empty"}, err : {Nil}, panics : {TRUE}]
    \cup (IF op = "validate" THEN {[out |-> "revoked", err |-> Nil, panics |-> FALSE]} ELSE {})

(* What the call itself can add: the caller gave up, and on the service's   *)
(* side of the pipe a timeout, a child lost twice, a closed supervisor.     *)
OwnErrors(where) ==
    {Plain("canceled"), Plain("deadline")}
    \cup (IF where = "child" THEN {Plain("none"), Plain("ErrClosed")} ELSE {})

Quiet == [out |-> "empty", err |-> Nil, panics |-> FALSE]

Trips ==
    UNION {UNION {
        [op : {op}, where : {at}, outcome : {o \in Outcomes(op) : o.panics => at = "child"},
         own : {Nil}, refusal : {""}]
        \cup [op : {op}, where : {at}, outcome : {Quiet}, own : OwnErrors(at), refusal : {""}]
      : at \in {"here", "child"}} : op \in Ops}
    \cup UNION {[op : {f}, where : {"here"}, outcome : {Quiet}, own : {Nil}, refusal : Refusals[f]]
                : f \in Flows}

FailInit == trip \in Trips /\ frame = None /\ got = None /\ told = None

(* The child's side: a panic becomes an error answer, and the result goes  *)
(* with the error.  A revoked verdict is marked for the supervisor.        *)
reply(o) ==
    IF o.panics THEN [out |-> "empty", err |-> encodeError(Plain("none")), revoked |-> FALSE]
    ELSE [out |-> o.out, err |-> encodeError(o.err), revoked |-> o.out = "revoked"]

ChildAnswers ==
    /\ trip.op \in Ops /\ trip.where = "child" /\ trip.own = Nil /\ frame = None
    /\ frame' = reply(trip.outcome)
    /\ UNCHANGED <<trip, got, told>>

(* The service's side of the pipe: result and error are both rebuilt.      *)
Receive ==
    /\ frame # None /\ got = None
    /\ got' = [out |-> frame.out, err |-> decode(frame.err)]
    /\ UNCHANGED <<trip, frame, told>>

(* The driver in this process, and the failures of the call itself.        *)
Direct ==
    /\ trip.op \in Ops /\ (trip.where = "here" \/ trip.own # Nil)
    /\ got = None
    /\ got' = [out |-> trip.outcome.out, err |-> IF trip.own # Nil THEN trip.own ELSE trip.outcome.err]
    /\ UNCHANGED <<trip, frame, told>>

-----------------------------------------------------------------------------
(* The domain. *)

classify(err) ==
    CASE err.sent \in {"canceled", "deadline"} -> "canceled"
      [] err.sent = "ErrUnsupported" -> "unsupported"
      [] err.sent \in {"ErrNotReady", "ErrClosed"} -> "unavailable"
      [] err.sent \in {"ErrInvalidPassword", "ErrKeyNotFound", "ErrCertNotFound", "ErrCertExpired",
                       "ErrCertTimeInvalid", "ErrCertParse", "ErrSignFormatMismatch", "ErrXMLParse",
                       "ErrCMSFormat", "ErrInvalidParam", "ErrCARequired"} -> "invalid"
      [] OTHER -> "internal"

softVerifyFailure(err) ==
    \/ err.sent \in {"ErrSignatureInvalid", "ErrNoSignature", "ErrChainInvalid",
                     "ErrCertExpired", "ErrCertTimeInvalid"}
    \/ err.native /\ err.sent \notin {"ErrUnsupported", "ErrNotReady", "ErrClosed"}

-----------------------------------------------------------------------------
(* The transports. *)

statusFor(kind) ==
    CASE kind = "invalid" -> 400 [] kind = "unsupported" -> 501
      [] kind = "unavailable" -> 503 [] kind = "canceled" -> 408 [] OTHER -> 500

grpcError(kind) ==
    CASE kind = "invalid" -> "InvalidArgument" [] kind = "unsupported" -> "Unimplemented"
      [] kind = "unavailable" -> "Unavailable" [] kind = "canceled" -> "Canceled"
      [] OTHER -> "Internal"

exitFor(kind) ==
    CASE kind = "invalid" -> 2 [] kind = "unsupported" -> 3
      [] kind = "unavailable" -> 4 [] kind = "canceled" -> 5 [] OTHER -> 1

(* The queues name the kind, and count only an invalid request as the       *)
(* client's own error.                                                      *)
errorFrom(kind) == [kind |-> kind, outcome |-> IF kind = "invalid" THEN "client_error" ELSE "server_error"]

InTheirTerms(kind) ==
    [rest |-> statusFor(kind), grpc |-> grpcError(kind), cli |-> exitFor(kind), mq |-> errorFrom(kind)]

AnsweredOK == [rest |-> 200, grpc |-> "OK", cli |-> 0, mq |-> [kind |-> "", outcome |-> "ok"]]

(* A verification or a revocation check that fails softly is an answer;    *)
(* anything else that fails is an error of the kind the domain gave it.    *)
Tell ==
    /\ got # None /\ told = None
    /\ told' = IF got.err = Nil \/ (trip.op \in {"verify", "validate"} /\ softVerifyFailure(got.err))
               THEN AnsweredOK
               ELSE InTheirTerms(classify(got.err))
    /\ UNCHANGED <<trip, frame, got>>

-----------------------------------------------------------------------------
(* The refusals of the job manager, as each transport puts them. *)

(* A job that is not finished is answered by handleJobResult with 409.      *)
writeJobError(e) ==
    CASE e = "ErrNotFound" -> 404 [] e = "ErrInvalidOp" -> statusFor("invalid")
      [] e = "ErrTooLarge" -> 413 [] e = "ErrBusy" -> 503 [] e = "ErrNotReady" -> 409

jobGRPCError(e) ==
    CASE e = "ErrNotFound" -> "NotFound" [] e = "ErrInvalidOp" -> "InvalidArgument"
      [] e = "ErrTooLarge" -> "ResourceExhausted" [] e = "ErrBusy" -> "Unavailable"
      [] e = "ErrNotReady" -> "FailedPrecondition" [] OTHER -> "Internal"

jobReplyError(e) ==
    CASE e \in {"ErrNotFound", "ErrInvalidOp", "ErrTooLarge"} -> "invalid"
      [] e \in {"ErrNotReady", "ErrBusy"} -> "unavailable" [] OTHER -> "internal"

jobOutcome(e) ==
    IF e \in {"ErrNotFound", "ErrInvalidOp", "ErrTooLarge", "ErrNotReady"}
    THEN "client_error" ELSE "server_error"

-----------------------------------------------------------------------------
(* The refusals of the sign-in and signing flows, over REST. *)

challengeError(e) ==
    statusFor(IF e \in {"ErrNotFound", "ErrExpired", "ErrUsed"} THEN "invalid" ELSE "internal")

(* Faults of the domain and the driver keep their kind. *)
writeQRError(e) ==
    CASE e \in {"ErrSessionNotFound", "ErrAppOnly"} -> 404
      [] e \in {"ErrSessionUsed", "ErrSessionExpired"} -> 409
      [] e = "ErrAuthUnavailable" -> 501
      [] e \in {"ErrSignatureRejected", "ErrCertRevoked", "ErrNoData", "ErrUnsupportedMode",
                "ErrUnsupportedProfile"} -> statusFor("invalid")
      [] OTHER -> statusFor(e)

multisignError(e) ==
    statusFor(IF e \in {"ErrNotFound", "ErrSessionClosed", "ErrNoNewSigner", "ErrLostSigner",
                        "ErrNotInvited", "ErrAlreadySigned", "ErrInvalid"}
              THEN "invalid" ELSE "internal")

writeOIDCError(e) ==
    CASE e \in ChallengeGone -> 400
      [] e \in {"ErrSignatureRejected", "ErrCertRevoked", "ErrTokenInvalid", "ErrTokenExpired"} -> 401
      [] OTHER -> 500

oauthErrorFor(e) ==
    CASE e \in {"ErrUnknownClient", "ErrClientAuth"} -> 401
      [] e \in {"ErrCodeInvalid", "ErrPKCEFailed", "ErrUnsupportedFlow", "ErrPKCERequired",
                "ErrRedirectMismatch"} -> 400
      [] e \in {"ErrSignatureRejected", "ErrCertRevoked"} -> 403
      [] OTHER -> 500

RefusalOf(flow, e) ==
    LET over(status) == [rest |-> status, grpc |-> "", cli |-> 0, mq |-> [kind |-> "", outcome |-> ""]]
    IN CASE flow = "job" -> [rest |-> writeJobError(e), grpc |-> jobGRPCError(e), cli |-> 0,
                             mq |-> [kind |-> jobReplyError(e), outcome |-> jobOutcome(e)]]
         [] flow = "challenge" -> over(challengeError(e))
         [] flow = "qr" -> over(writeQRError(e))
         [] flow = "multisign" -> over(multisignError(e))
         [] flow = "oidc" -> over(writeOIDCError(e))
         [] flow = "authorize" -> over(oauthErrorFor(e))

Refuse ==
    /\ trip.op \in Flows /\ told = None
    /\ told' = RefusalOf(trip.op, trip.refusal)
    /\ UNCHANGED <<trip, frame, got>>

FailNext == ChildAnswers \/ Receive \/ Direct \/ Tell \/ Refuse

-----------------------------------------------------------------------------
(* Properties; there is no trip while another component runs. *)

OnTrip == trip # None

(* The crypto workers are transparent: for whatever the driver makes of a  *)
(* call, short of a panic, the domain sees over the pipe the result, the   *)
(* kind, the message key and the choice between verdict and fault that it  *)
(* would see from a driver in its own process (encodeError and decode).    *)
PipeIsTransparent ==
    OnTrip /\ frame # None /\ got # None /\ ~trip.outcome.panics =>
        /\ got.out = trip.outcome.out
        /\ classify(got.err) = classify(trip.outcome.err)
        /\ softVerifyFailure(got.err) = softVerifyFailure(trip.outcome.err)
        /\ Explain(got.err) = Explain(trip.outcome.err)

(* A fault is never dressed as a verdict: when the driver panicked, is not *)
(* ready, is closed or cannot do the operation, or the call was cut short, *)
(* no client is told that the check was made (isSoftVerifyFailure).        *)
FaultsAreNotVerdicts ==
    OnTrip /\ trip.op \in Ops /\ told # None =>
        LET err == IF trip.own # Nil THEN trip.own ELSE trip.outcome.err
        IN trip.outcome.panics \/ err.sent \in {"ErrUnsupported", "ErrNotReady", "ErrClosed", "canceled",
                                               "deadline"} \/ (err.sent = "none" /\ ~err.native)
           => told.rest >= 400 /\ told.grpc # "OK" /\ told.cli # 0 /\ told.mq.outcome = "server_error"

(* All transports draw the same distinctions: two calls that one transport *)
(* answers alike are answered alike by every other, so the kind can be     *)
(* read back from any of them (statusFor, grpcError, exitFor, errorFrom).  *)
TransportsAgree ==
    OnTrip /\ trip.op \in Ops /\ told # None =>
        \A kind \in Kinds :
            LET t == InTheirTerms(kind)
            IN (told.rest = t.rest \/ told.grpc = t.grpc \/ told.cli = t.cli \/ told.mq = t.mq) => told = t

(* Later is not never: a job that is refused or unfinished for now is      *)
(* answered with "come back" on every transport that offers jobs, and one  *)
(* that can never be served is not.                                        *)
LaterIsNotNever ==
    OnTrip /\ trip.op = "job" /\ told # None =>
        LET later == trip.refusal \in {"ErrBusy", "ErrNotReady"}
        IN /\ (told.rest \in {503, 409}) = later
           /\ (told.grpc \in {"Unavailable", "FailedPrecondition"}) = later
           /\ (told.mq.kind = "unavailable") = later

(* A refusal of a flow is answered as the client's doing, a fault from     *)
(* below as the service's, or over QR as its kind has it.  Left out: the   *)
(* login page, where a challenge that is gone is answered as a server      *)
(* error (oauthErrorFor).                                                  *)
RefusalIsNotAFault ==
    OnTrip /\ trip.op \in Flows \ {"job"} /\ told # None =>
        \/ trip.refusal = "fault" /\ told.rest = 500
        \/ trip.refusal \in Kinds /\ told.rest = statusFor(trip.refusal)
        \/ trip.refusal \notin Kinds \cup {"fault"} /\ told.rest \in (400..499) \cup {501}
        \/ trip.op = "authorize" /\ trip.refusal \in ChallengeGone

=============================================================================
