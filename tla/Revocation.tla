----------------------------- MODULE Revocation -----------------------------
(***************************************************************************)
(* The revocation check of one certificate (internal/core/service.go,      *)
(* Validate with revocation.go) by concurrent requests, over the shared    *)
(* cache of OCSP answers (internal/ocspcache), while certificates are      *)
(* revoked and the responder answers, does not know or fails.  The managed *)
(* CRL is what CRL.tla's CRLFor gives: reliable, unreliable, or none.      *)
(*                                                                         *)
(* A request is three steps, because the native call in the middle takes   *)
(* time: it looks the cache up, the responder answers, the answer is       *)
(* stored and returned.  asof is the instant the answer is about.          *)
(***************************************************************************)
EXTENDS Integers, Sequences, FiniteSets, FiniteSetsExt

CONSTANTS
    Checkers,       \* concurrent requests
    Subjects,       \* certificates asked about
    MaxEntries,     \* ocspcache: entries the cache keeps
    GoodTTL,        \* ocspcache: lifetime of a clean answer
    RevokedTTL,     \* ocspcache: lifetime of a revocation
    CallTime,       \* the longest native call (its timeout)
    MaxClock,       \* bound on the clock
    MaxStored,      \* bound on the answers stored before the last requests
    NoSubject       \* no certificate

VARIABLES
    clock,      \* time
    revoked,    \* certificate -> revoked by its CA
    policy,     \* the service's crlFailPolicy: "soft" or "hard"
    cache,      \* certificate -> <<entry>> or <<>>
    seq,        \* insertion counter, for eviction
    chk         \* request -> its state

revVars == <<clock, revoked, policy, cache, seq, chk>>

Nobody == [pc |-> "free", cert |-> NoSubject, path |-> "none", since |-> 0,
           said |-> "none", asof |-> 0, out |-> <<>>]

\* What is asked for: OCSP; a CRL check that has a list (the request's own,
\* a reliable one of CRLFor) or leaves the library to it; one whose managed
\* list is unreliable or not available.
Routes == {"ocsp", "crl", "crl-unusable"}

RevInit ==
    /\ clock = 0
    /\ revoked = [s \in Subjects |-> FALSE]
    /\ policy \in {"soft", "hard"}
    /\ cache = [s \in Subjects |-> <<>>]
    /\ seq = 0
    /\ chk = [t \in Checkers |-> Nobody]

---------------------------------------------------------------------------
(***************************************************************************)
(* The cache (ocspcache/cache.go).                                         *)
(***************************************************************************)

\* The lookup that does not look at the expiry, and the one that does.
LiveForever(s) == cache[s] # <<>>
Live(s) == cache[s] # <<>> /\ cache[s][1].expires > clock
Held(c) == {s \in Subjects: c[s] # <<>>}

\* Expired entries go first, then the oldest, until the bound holds.
evictLocked(c) ==
    IF Cardinality(Held(c)) <= MaxEntries THEN c
    ELSE LET fresh  == {s \in Held(c): c[s][1].expires > clock}
             Newer(s) == {r \in fresh: c[r][1].seq > c[s][1].seq}
             stay   == {s \in fresh: Cardinality(Newer(s)) < MaxEntries}
         IN  [s \in Subjects |-> IF s \in stay THEN c[s] ELSE <<>>]

\* The entry dated from the responder's answer as far as it can be: a
\* responder's nextUpdate only shortens the lifetime.
Store(s, said, asof) ==
    LET ttl == IF said = "revoked" THEN RevokedTTL ELSE GoodTTL
        put == <<[said |-> said, asof |-> asof, expires |-> clock + ttl, seq |-> seq]>>
    IN  /\ seq' = seq + 1
        /\ cache' = evictLocked([cache EXCEPT ![s] = put])

---------------------------------------------------------------------------
(***************************************************************************)
(* Validate.                                                               *)
(***************************************************************************)

Returns(t, out) == chk' = [chk EXCEPT ![t] = [Nobody EXCEPT !.out = <<out>>]]

\* A cached answer is rendered as a determined one.
cachedValidateOutput(e) ==
    [err |-> FALSE, det |-> TRUE, revoked |-> e.said = "revoked",
     said |-> e.said, age |-> clock - e.asof, cached |-> TRUE]

Undetermined == [err |-> FALSE, det |-> FALSE, revoked |-> FALSE,
                 said |-> "none", age |-> 0, cached |-> FALSE]
Rejected == [Undetermined EXCEPT !.err = TRUE]

\* CRL falls back to OCSP when the managed CRL is not reliable, unless the
\* policy is hard.
EffectiveMethod(route) ==
    CASE route = "crl-unusable" -> IF policy = "hard" THEN "refuse" ELSE "ocsp"
      [] route # "crl-unusable" -> route

\* Up to the native call: the method and its fail policy, the responder the
\* certificate names (or none), the cache.
Validate(t, s, route, named) ==
    LET eff == EffectiveMethod(route)
        req == [Nobody EXCEPT !.pc = "calling", !.cert = s, !.path = eff, !.since = clock]
    IN  /\ chk[t].pc = "free"
        /\ seq < MaxStored
        /\ UNCHANGED <<clock, revoked, policy, seq>>
        /\ \/ /\ eff = "refuse"
              /\ Returns(t, Rejected)
              /\ UNCHANGED cache
           \/ /\ eff = "ocsp" /\ ~named
              /\ Returns(t, Undetermined)
              /\ UNCHANGED cache
           \/ /\ eff = "ocsp" /\ named /\ Live(s)
              /\ Returns(t, cachedValidateOutput(cache[s][1]))
              /\ UNCHANGED cache
           \/ /\ eff = "ocsp" /\ named /\ ~Live(s)
              /\ cache' = [cache EXCEPT ![s] = <<>>]
              /\ chk' = [chk EXCEPT ![t] = req]
           \/ /\ eff = "crl"
              /\ chk' = [chk EXCEPT ![t] = req]
              /\ UNCHANGED cache

\* The native call: the responder says what is true now, that it does not
\* know, or nothing.  A CRL check is against a list of some time since.
Native(t) ==
    /\ chk[t].pc = "calling"
    /\ LET truth == IF revoked[chk[t].cert] THEN "revoked" ELSE "good"
           says == IF chk[t].path = "crl"
                   THEN {truth, "good"} ELSE {truth, "unknown", "none"}
       IN  \E said \in says: chk' = [chk EXCEPT ![t].pc = "told", ![t].said = said, ![t].asof = clock]
    /\ UNCHANGED <<clock, revoked, policy, cache, seq>>

\* The status: unknown is undetermined, a soft failure is too.
StatusOf(r) == [err |-> FALSE, det |-> r.said \in {"good", "revoked"}, revoked |-> r.said = "revoked",
                said |-> r.said, age |-> clock - r.asof, cached |-> FALSE]

\* The answer is returned; whatever came without an error is stored,
\* "unknown" included.
Conclude(t) ==
    /\ chk[t].pc = "told"
    /\ Returns(t, StatusOf(chk[t]))
    /\ IF chk[t].path = "ocsp" /\ chk[t].said # "none"
       THEN Store(chk[t].cert, chk[t].said, chk[t].asof)
       ELSE UNCHANGED <<cache, seq>>
    /\ UNCHANGED <<clock, revoked, policy>>

---------------------------------------------------------------------------
(***************************************************************************)
(* The world.                                                              *)
(***************************************************************************)

Revoke == /\ \E s \in Subjects: ~revoked[s] /\ revoked' = [revoked EXCEPT ![s] = TRUE]
          /\ UNCHANGED <<clock, policy, cache, seq, chk>>

\* No native call outlasts its timeout.
Passes == /\ clock < MaxClock
          /\ \A t \in Checkers: chk[t].pc \in {"calling", "told"} => clock < chk[t].since + CallTime
          /\ clock' = clock + 1
          /\ UNCHANGED <<revoked, policy, cache, seq, chk>>

RevNext ==
    \/ \E t \in Checkers, s \in Subjects, r \in Routes, named \in BOOLEAN:
          Validate(t, s, r, named)
    \/ \E t \in Checkers: Native(t) \/ Conclude(t)
    \/ Revoke \/ Passes

RevSpec == RevInit /\ [][RevNext]_revVars

---------------------------------------------------------------------------
(***************************************************************************)
(* Properties.                                                             *)
(***************************************************************************)

Told == {chk[t].out[1]: t \in {u \in Checkers: chk[u].out # <<>>}}

\* A clean answer is never older than the lifetime the cache gives it plus
\* the longest call (service.go, Validate; ocspcache, Lookup and Store): a
\* revocation is seen by every OCSP check that starts later than that,
\* however lookups, slow calls and late stores of other requests
\* interleave with it.
GoodIsFresh ==
    \A o \in Told: o.said = "good" => o.age < GoodTTL + CallTime

\* What a check that failed says is never served to another request
\* (service.go, Validate: only a clean answer is worth caching): an outage
\* of the responder ends with the outage, not a lifetime later.
FailureIsNotPinned ==
    /\ \A s \in Subjects: cache[s] # <<>> => cache[s][1].said # "none"
    /\ \A o \in Told: o.cached => o.said # "none"

\* The cache keeps its bound by dropping old answers, never the one just
\* stored (ocspcache, Store and evictLocked), whichever requests fill it.
NewestStays ==
    /\ Cardinality(Held(cache')) <= MaxEntries
    /\ seq' # seq => \E s \in Held(cache'): cache'[s][1].seq = seq

\* What the check itself answers is determined exactly when the responder
\* or the list said good or revoked (service.go, Validate): not when it
\* does not know, fails or is not there to ask.
DeterminedWasSaid ==
    \A o \in Told: ~o.cached => (o.det <=> o.said \in {"good", "revoked"})

\* "Only clean answers are cached, so a hit is always a determined one"
\* (service.go, cachedValidateOutput): the responder whose answer a hit
\* repeats, as determined, said good or revoked.
HitIsDetermined ==
    \A o \in Told: o.cached /\ o.det => o.said \in {"good", "revoked"}

\* A revocation status is earned (service.go, Validate over ocspcache): what
\* the check answers was said, a good answer is recent, a failure is not
\* cached, and the step that stores an answer keeps it.  That an answer from
\* the cache was said as well is HitIsDetermined, which the code breaks.
StatusIsEarned ==
    [][GoodIsFresh' /\ FailureIsNotPinned' /\ DeterminedWasSaid' /\ NewestStays]_revVars
============================================================================
