------------------------------ MODULE Signing ------------------------------
(***************************************************************************)
(* One Sign (internal/core/service.go): the checks of the request and its  *)
(* policy (policy.go), the data by reference (internal/dataref), the key   *)
(* (internal/keysource), the native call and its one retry, the journal,   *)
(* and the temporary files on the way: a fetched document is spooled to    *)
(* disk, an inline key is written to disk for the library to load by path. *)
(***************************************************************************)
EXTENDS Integers, Sequences, FiniteSets

CONSTANTS NotGiven  \* a request field that is not set

VARIABLES
    order,      \* the request and the service's settings
    pc,         \* where Sign is
    temps,      \* temporary files on disk
    anchorsOf,  \* the anchors the last native call had: "none", "store", "own"
    journal,    \* outcomes recorded
    signed      \* what is returned: ok with format and level, or the error's kind

signVars == <<order, pc, temps, anchorsOf, journal, signed>>

Formats == {"cms", "xml", "wsse"}
policyProfiles == [cadesB |-> [format |-> "cms", timestamp |-> FALSE],
                   cadesT |-> [format |-> "cms", timestamp |-> TRUE],
                   xadesB |-> [format |-> "xml", timestamp |-> FALSE],
                   xadesT |-> [format |-> "xml", timestamp |-> TRUE]]

SignRequests ==
    [verifyOnly: BOOLEAN, policy: DOMAIN policyProfiles \cup {NotGiven, "other"},
     format: Formats \cup {NotGiven, "other"}, timestamp: BOOLEAN \cup {NotGiven},
     default: BOOLEAN, coSign: BOOLEAN, data: {"inline", "path", "url"},
     key: {"inline", "path"}, noCheckTime: BOOLEAN]

SignInit ==
    /\ order \in {r \in SignRequests:
                  /\ r.verifyOnly => r.policy = NotGiven /\ r.data = "inline" /\ r.key = "path"
                  /\ r.coSign => r.data # "path"}
    /\ pc = "checks" /\ temps = {} /\ anchorsOf = "none"
    /\ journal = <<>> /\ signed = [kind |-> "none", format |-> NotGiven, level |-> NotGiven]

Output(kind, format, level) == [kind |-> kind, format |-> format, level |-> level]
Fails(kind) == signed' = Output(kind, NotGiven, NotGiven)

---------------------------------------------------------------------------

\* The policy fills in format and timestamp; it contradicts no format that
\* the request names, and a timestamp the request sets stands.
applyPolicy ==
    IF order.policy = NotGiven THEN [ok |-> TRUE, format |-> order.format, timestamp |-> order.timestamp]
    ELSE IF \/ order.policy \notin DOMAIN policyProfiles
            \/ order.format \notin {NotGiven, policyProfiles[order.policy].format}
    THEN [ok |-> FALSE, format |-> NotGiven, timestamp |-> NotGiven]
    ELSE [ok |-> TRUE, format |-> policyProfiles[order.policy].format,
          timestamp |-> IF order.timestamp = NotGiven
                        THEN policyProfiles[order.policy].timestamp ELSE order.timestamp]

\* The tri-state: the service's default where nobody said.
withTS == IF applyPolicy.timestamp = NotGiven THEN order.default ELSE applyPolicy.timestamp

\* Sign up to resolveData.
Checks ==
    /\ pc = "checks"
    /\ IF \/ order.verifyOnly \/ ~applyPolicy.ok \/ applyPolicy.format \notin Formats
          \/ (order.coSign \/ order.data # "inline") /\ applyPolicy.format # "cms"
       THEN pc' = "done" /\ Fails("invalid")
       ELSE pc' = "data" /\ UNCHANGED signed
    /\ UNCHANGED <<order, temps, anchorsOf, journal>>

\* dataref.Resolve: nothing for an inline payload; a path is looked at; a
\* URL is fetched into a spool file, which a failed or oversized copy
\* removes again.
resolveData ==
    /\ pc = "data"
    /\ \/ pc' = "key" /\ temps' = temps \cup (IF order.data = "url" THEN {"spool"} ELSE {})
          /\ UNCHANGED signed
       \/ order.data # "inline" /\ pc' = "done" /\ UNCHANGED temps
          /\ \E kind \in {"invalid", "unavailable"}: Fails(kind)
    /\ UNCHANGED <<order, anchorsOf, journal>>

\* The spool file's release is deferred only after the key was resolved.
resolveKeyLeaky ==
    /\ pc = "key"
    /\ \/ pc' = "sign" /\ temps' = temps \cup (IF order.key = "inline" THEN {"key"} ELSE {})
          /\ UNCHANGED signed
       \/ pc' = "done" /\ UNCHANGED temps /\ Fails("invalid")
    /\ UNCHANGED <<order, anchorsOf, journal>>

\* keysource.Resolve: an inline key is written to a private file, removed
\* when a step of that fails; a failure releases the data.
resolveKey ==
    /\ pc = "key"
    /\ \/ pc' = "sign" /\ temps' = temps \cup (IF order.key = "inline" THEN {"key"} ELSE {})
          /\ UNCHANGED signed
       \/ pc' = "done" /\ temps' = temps \ {"spool"} /\ Fails("invalid")
    /\ UNCHANGED <<order, anchorsOf, journal>>

\* The native call, with the store's anchors when the time is checked; an
\* anchor failure of it is retried, once, with the signer's own chain.
signWith ==
    /\ pc = "sign"
    /\ anchorsOf' = IF order.noCheckTime THEN "none" ELSE "store"
    /\ \/ pc' = "signed" \/ pc' = "failed"
       \/ ~order.noCheckTime /\ pc' = "retry"
    /\ UNCHANGED <<order, temps, journal, signed>>

\* signerChainAnchors: no chain is no retry.
Retry ==
    /\ pc = "retry"
    /\ \/ pc' = "failed" /\ UNCHANGED anchorsOf
       \/ pc' \in {"signed", "failed"} /\ anchorsOf' = "own"
    /\ UNCHANGED <<order, temps, journal, signed>>

\* The end of either: the journal, the output, then the deferred releases
\* of the key and the data.
Ends ==
    /\ pc \in {"signed", "failed"}
    /\ pc' = "done" /\ temps' = temps \ {"spool", "key"}
    /\ journal' = Append(journal, IF pc = "signed" THEN "ok" ELSE "error")
    /\ IF pc = "failed" THEN Fails("error")
       ELSE signed' = Output("ok", applyPolicy.format, IF withTS THEN "T" ELSE "BES")
    /\ UNCHANGED <<order, anchorsOf>>

SignNext == Checks \/ resolveData \/ resolveKey \/ signWith \/ Retry \/ Ends

---------------------------------------------------------------------------

\* No temporary file outlives the call, whichever step of it fails, and the
\* files the request needs are on disk for as long as the library may read
\* them (service.go, Sign; dataref.go, fetch; keysource.go, resolveInline):
\* what is left behind would be the document or a private key.
FilesLastAsLongAsTheCall ==
    /\ pc = "done" => temps = {}
    /\ pc \in {"sign", "retry", "signed", "failed"} =>
          temps = (IF order.data = "url" THEN {"spool"} ELSE {})
                    \cup (IF order.key = "inline" THEN {"key"} ELSE {})

\* What comes back is what was asked for (policy.go, service.go Sign): the
\* format the request or its policy names, never one against the other; a
\* timestamp exactly when the request says so, else when the policy does,
\* else when the service does; and the journal has one entry if the library
\* was asked and none if it was not.
SignedAsAsked ==
    pc = "done" =>
        /\ journal = CASE signed.kind = "ok" -> <<"ok">>
                       [] signed.kind = "error" -> <<"error">>
                       [] signed.kind \in {"invalid", "unavailable"} -> <<>>
        /\ signed.kind = "ok" =>
             /\ order.format # NotGiven => signed.format = order.format
             /\ order.policy # NotGiven => signed.format = policyProfiles[order.policy].format
             /\ signed.level = "T" <=>
                  IF order.timestamp # NotGiven THEN order.timestamp
                  ELSE IF order.policy # NotGiven THEN policyProfiles[order.policy].timestamp
                  ELSE order.default

\* A signing call (service.go, Sign) gives what was asked for and takes its
\* temporary files with it, whichever step fails.
SignIsClean ==
    /\ FilesLastAsLongAsTheCall
    /\ SignedAsAsked
============================================================================
