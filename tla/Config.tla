------------------------------- MODULE Config -------------------------------
(***************************************************************************)
(* From what an operator wrote to what runs: config.Load merges the        *)
(* defaults, a file, the environment and the flags; Validate lists what is *)
(* wrong with the result; runServe then builds each subsystem from it.     *)
(* Validate and the builders are separate readers of the same settings, so *)
(* what one accepts the other has to be able to use.                       *)
(***************************************************************************)
EXTENDS Integers, Sequences, FiniteSets

CONSTANTS Unset,       \* a subsystem that is not there
          MaxRounds    \* bound: corrections by the operator

VARIABLES
    given,      \* what each layer says: partial functions from keys to raw text
    settings,   \* what Load resolved
    origins,    \* the layer each setting came from
    phase,      \* how far the start has come
    problems,   \* what Validate reported
    cause,      \* why a start failed after validation
    built,      \* the subsystems
    rounds      \* corrections made so far

configVars == <<given, settings, origins, phase, problems, cause, built, rounds>>

-----------------------------------------------------------------------------
(* The registry: the settings the properties below are about, with the raw  *)
(* values an operator may write in place of the default.  "junk" is text no *)
(* reader understands; "hard " carries a blank that a file, a flag and the  *)
(* environment keep and a side file loses.  Kafka stands for the consumers. *)

Stored == {"jobs", "oidc", "challenge", "multisign", "qr"}

Entry(section, name, kind, def, raw) ==
    [key |-> <<section, name>>, kind |-> kind, def |-> def, raw |-> raw]

Durations == {"", "1h", "-1h", "junk"}

registry ==
    {Entry("lib", "path", "string", "", {"so"}),
     Entry("lib", "isolated", "bool", "false", {"true", "junk"}),
     Entry("pool", "workers", "int", "1", {"0", "2", "junk"}),
     Entry("http", "enabled", "bool", "false", {"true"}),
     Entry("kafka", "brokers", "list", "", {"b"}), Entry("kafka", "topic", "string", "", {"t"}),
     Entry("kafka", "group", "string", "qoltanba", {""}),
     Entry("crypto-worker", "enabled", "bool", "true", {"false", "junk"}),
     Entry("crypto-worker", "timeout", "string", "1h", Durations \ {"1h"}),
     Entry("crypto-worker", "processes", "int", "0", {"-1", "2"}),
     Entry("audit", "enabled", "bool", "false", {"true"}), Entry("audit", "path", "string", "", {"p"}),
     Entry("certwatch", "enabled", "bool", "false", {"true"}), Entry("certwatch", "dir", "string", "", {"d"}),
     Entry("certwatch", "interval", "string", "1h", Durations \ {"1h"}),
     Entry("trust", "crl-cache", "bool", "false", {"true"}),
     Entry("trust", "crl-fail-policy", "string", "soft", {"", "hard", "hard ", "junk"}),
     Entry("trust", "refresh-interval", "string", "", {"off", "1h", "-1h", "junk"}),
     Entry("trust", "use-rk-registry", "bool", "false", {"true"}),
     Entry("receipts", "enabled", "bool", "false", {"true"}),
     Entry("receipts", "signed-qr", "bool", "false", {"true"}),
     Entry("oidc", "issuer", "string", "", {"i"}), Entry("oidc", "clients", "list", "", {"c", "junk"}),
     Entry("qr", "default-profile", "string", "agnostic", {"relay", "junk"}),
     Entry("qr", "default-mode", "string", "sign", {"auth", "junk"}),
     Entry("qr", "relay-url", "string", "", {"r"})}
    \cup UNION {{Entry(s, "enabled", "bool", "false", {"true"}),
                 Entry(s, "store", "string", "memory", {"", "bolt", "junk"}),
                 Entry(s, "bolt-path", "string", "", {"p"}),
                 Entry(s, "ttl", "string", "1h", Durations \ {"1h"})} : s \in Stored}

Settings == {e.key : e \in registry}
EntryOf == [k \in Settings |-> CHOOSE e \in registry : e.key = k]

-----------------------------------------------------------------------------
(* Load. *)

TrimSpace(v) == IF v = "hard " THEN "hard" ELSE v

(* The environment is lenient: what is no bool is false, what is no int 0.  *)
parse(k, v) ==
    CASE EntryOf[k].kind = "bool" /\ v \notin {"true", "false"} -> "false"
      [] EntryOf[k].kind = "int" /\ v \notin {"-1", "0", "1", "2"} -> "0"
      [] OTHER -> v

(* A readable side file goes before the variable; an unreadable one is      *)
(* passed over.                                                             *)
fromEnv(g) ==
    LET side == {k \in DOMAIN g.side : g.side[k] # "unreadable"}
    IN [k \in side \cup DOMAIN g.env |->
          IF k \in side THEN parse(k, TrimSpace(g.side[k])) ELSE parse(k, g.env[k])]

(* A typed flag or file value that is no bool and no int is an error: a     *)
(* flag's at once, a file's only if nothing above it replaced it.           *)
Unreadable(k, v) == EntryOf[k].kind \in {"bool", "int"} /\ v = "junk"

Merge(over, under) == [k \in DOMAIN over \cup DOMAIN under |-> IF k \in DOMAIN over THEN over[k] ELSE under[k]]

(* Each layer goes over the ones before it. *)
Layers(g) ==
    <<[name |-> "file", says |-> g.file], [name |-> "env", says |-> fromEnv(g)], [name |-> "flag", says |-> g.flag]>>

Resolved(g) ==
    LET upto[n \in 0..3] ==
          IF n = 0 THEN [k \in Settings |-> EntryOf[k].def] ELSE Merge(Layers(g)[n].says, upto[n - 1])
    IN upto[3]

Origins(g) ==
    LET upto[n \in 0..3] ==
          IF n = 0 THEN [k \in Settings |-> "default"]
          ELSE Merge([k \in DOMAIN Layers(g)[n].says |-> Layers(g)[n].name], upto[n - 1])
    IN upto[3]

Load ==
    /\ phase = "start"
    /\ settings' = Resolved(given) /\ origins' = Origins(given)
    /\ phase' = IF \/ \E k \in DOMAIN given.flag : Unreadable(k, given.flag[k])
                   \/ \E k \in Settings : Unreadable(k, settings'[k])
                THEN "unreadable" ELSE "loaded"
    /\ UNCHANGED <<given, problems, cause, built, rounds>>

-----------------------------------------------------------------------------
(* Validate: the settings it complains about, block by block. *)

On(s) == settings[<<s, "enabled">>] = "true"
Blank(s, n) == TrimSpace(settings[<<s, n>>]) = ""
NoDuration(s, n) == settings[<<s, n>>] = "junk"

Complain(s, n, wrong) == IF wrong THEN {<<s, n>>} ELSE {}

libProblems ==
    Complain("lib", "path", Blank("lib", "path"))
    \cup Complain("pool", "workers", settings[<<"pool", "workers">>] \in {"-1", "0"})
    \cup Complain("lib", "isolated", settings[<<"pool", "workers">>] = "2" /\ settings[<<"lib", "isolated">>] # "true")

mqProblems ==
    Complain("kafka", "topic", ~Blank("kafka", "brokers") /\ Blank("kafka", "topic"))
    \cup Complain("kafka", "group", ~Blank("kafka", "brokers") /\ Blank("kafka", "group"))

workerProblems ==
    IF ~On("crypto-worker") THEN {}
    ELSE Complain("crypto-worker", "timeout", NoDuration("crypto-worker", "timeout"))
         \cup Complain("crypto-worker", "processes", settings[<<"crypto-worker", "processes">>] = "-1")

watchProblems ==
    Complain("audit", "path", On("audit") /\ Blank("audit", "path"))
    \cup Complain("certwatch", "dir", On("certwatch") /\ Blank("certwatch", "dir"))
    \cup Complain("certwatch", "interval", On("certwatch") /\ NoDuration("certwatch", "interval"))

trustProblems ==
    Complain("trust", "refresh-interval", NoDuration("trust", "refresh-interval"))
    \cup Complain("trust", "crl-fail-policy", TrimSpace(settings[<<"trust", "crl-fail-policy">>]) = "junk")

storeProblemsLax(s) ==
    IF ~On(s) THEN {} ELSE Complain(s, "ttl", NoDuration(s, "ttl"))

(* The five sections with a store differ in one thing: jobs wants it named. *)
storeProblems(s) ==
    IF ~On(s) THEN {}
    ELSE Complain(s, "store", settings[<<s, "store">>] \notin {"memory", "bolt"} \cup (IF s = "jobs" THEN {} ELSE {""}))
         \cup Complain(s, "bolt-path", settings[<<s, "store">>] = "bolt" /\ Blank(s, "bolt-path"))
         \cup Complain(s, "ttl", NoDuration(s, "ttl"))

qrProblems ==
    IF ~On("qr") THEN {}
    ELSE Complain("qr", "relay-url", settings[<<"qr", "default-profile">>] = "relay" /\ Blank("qr", "relay-url"))
         \cup Complain("qr", "default-profile", settings[<<"qr", "default-profile">>] = "junk")
         \cup Complain("qr", "default-mode", \/ settings[<<"qr", "default-mode">>] = "junk"
                                             \/ settings[<<"qr", "default-mode">>] = "auth" /\ ~On("oidc"))

Problems ==
    libProblems \cup mqProblems \cup workerProblems \cup watchProblems \cup trustProblems
    \cup UNION {storeProblems(s) : s \in Stored}
    \cup Complain("oidc", "issuer", On("oidc") /\ Blank("oidc", "issuer"))
    \cup qrProblems

Judge(found) ==
    /\ phase = "loaded"
    /\ problems' = found
    /\ phase' = IF found = {} THEN "valid" ELSE "invalid"
    /\ UNCHANGED <<given, settings, origins, cause, built, rounds>>

Validate == Judge(Problems)

(* The operator corrects what was reported, on the command line and without *)
(* switching a section on, and starts again.  A store may be corrected to   *)
(* bolt and a profile to relay, which ask for a path and an address.        *)
Corrections(k) ==
    CASE k = <<"pool", "workers">> -> {"1"}
      [] k[2] = "isolated" -> {"true"}
      [] k[2] = "processes" -> {"0"}
      [] k[2] = "store" -> {"memory", "bolt"}
      [] k[2] = "default-profile" -> {"agnostic", "relay"}
      [] k[2] = "default-mode" -> {"sign"}
      [] k[2] = "crl-fail-policy" -> {"soft", "hard"}
      [] k[2] \in {"ttl", "timeout", "interval", "refresh-interval"} -> {"1h"}
      [] OTHER -> {"named"}

Correct ==
    /\ phase = "invalid" /\ rounds < MaxRounds
    /\ \E new \in [problems -> UNION {Corrections(k) : k \in problems}] :
         /\ \A k \in problems : new[k] \in Corrections(k)
         /\ given' = [given EXCEPT !.flag = Merge(new, @)]
    /\ phase' = "start" /\ rounds' = rounds + 1
    /\ UNCHANGED <<settings, origins, problems, cause, built>>

-----------------------------------------------------------------------------
(* The builders, in runServe's order.  What they need from outside (a key   *)
(* file, a database, a journal) may be missing: an outage.                  *)

(* Durations: an hour, minus an hour, or zero for what does not parse.      *)
parseDurationOr0(v) == CASE v = "1h" -> 1 [] v = "-1h" -> -1 [] OTHER -> 0

Window == 2    \* a default of the subsystem's own

withDefaults(d) == IF d <= 0 THEN Window ELSE d

ResolveTTL(s) == withDefaults(parseDurationOr0(settings[<<s, "ttl">>]))

TrustRefreshInterval ==
    CASE Blank("trust", "refresh-interval") ->
            IF settings[<<"trust", "use-rk-registry">>] = "true" THEN 24 ELSE 0
      [] OTHER -> parseDurationOr0(settings[<<"trust", "refresh-interval">>])

ResolveProcesses ==
    CASE settings[<<"crypto-worker", "processes">>] = "2" -> 2
      [] settings[<<"pool", "workers">>] = "2" -> 2
      [] OTHER -> 1

Fail(why) ==
    /\ phase' = "failed" /\ cause' = why
    /\ UNCHANGED <<given, settings, origins, problems, built, rounds>>

(* One builder: it sees phase `at`, adds its subsystem and goes on.         *)
Add(at, next, s, what) ==
    /\ phase = at /\ phase' = next
    /\ built' = [built EXCEPT ![s] = what]
    /\ UNCHANGED <<given, settings, origins, problems, cause, rounds>>

Outage(at, wants) == phase = at /\ wants /\ Fail("outage")

(* The HTTP switch stands for the gRPC one too. *)
AnyTransport == On("http") \/ ~Blank("kafka", "brokers")

NoTransport == phase = "valid" /\ ~AnyTransport /\ Fail("no transport")

loadServiceKey ==
    LET wanted == On("oidc") \/ On("receipts")
    IN \/ phase = "valid" /\ AnyTransport /\ Add("valid", "engine", "key", IF wanted THEN "key" ELSE Unset)
       \/ phase = "valid" /\ AnyTransport /\ Outage("valid", wanted)

(* The domain service: where the operations run, the fail policy, receipts, *)
(* the journal and the refresh of anchors.                                  *)
buildService ==
    \/ Add("engine", "jobs", "engine",
           [children |-> IF On("crypto-worker") THEN ResolveProcesses ELSE 0,
            timeout |-> withDefaults(parseDurationOr0(settings[<<"crypto-worker", "timeout">>])),
            pool |-> IF settings[<<"pool", "workers">>] = "2" THEN 2 ELSE 1,
            hard |-> settings[<<"trust", "crl-cache">>] = "true" /\ settings[<<"trust", "crl-fail-policy">>] = "hard",
            refresh |-> TrustRefreshInterval,
            receipts |-> On("receipts") /\ built["key"] # Unset,
            journal |-> On("audit")])
    \/ Outage("engine", TRUE)

(* The store switch of every builder: bolt is opened, anything else is      *)
(* memory.                                                                  *)
StoreOf(s) == [durable |-> settings[<<s, "store">>] = "bolt", ttl |-> ResolveTTL(s)]

Opens(at, s) == Outage(at, On(s) /\ settings[<<s, "store">>] = "bolt")

buildStored(s, next) == Opens(s, s) \/ Add(s, next, s, IF On(s) THEN StoreOf(s) ELSE Unset)

buildJobs == buildStored("jobs", "oidc")

buildOIDC ==
    LET clients == settings[<<"oidc", "clients">>]
    IN \/ phase = "oidc" /\ On("oidc") /\ built["key"] # Unset /\ Opens("oidc", "oidc")
       \/ /\ phase = "oidc" /\ On("oidc") /\ (built["key"] = Unset \/ clients = "junk")
          /\ Fail(IF built["key"] = Unset THEN "no key" ELSE "clients")
       \/ /\ phase = "oidc"
          /\ On("oidc") => built["key"] # Unset /\ clients # "junk"
          /\ Add("oidc", "certwatch", "oidc", IF On("oidc") THEN StoreOf("oidc") ELSE Unset)

buildWatcher ==
    Add("certwatch", "challenge", "certwatch",
        IF On("certwatch")
        THEN [dir |-> settings[<<"certwatch", "dir">>],
              interval |-> withDefaults(parseDurationOr0(settings[<<"certwatch", "interval">>]))]
        ELSE Unset)

buildChallenge == buildStored("challenge", "multisign")

buildMultisign == buildStored("multisign", "qr")

(* QR: the relay profile exists with a gateway, sign-in with a provider.    *)
buildQR ==
    \/ Opens("qr", "qr")
    \/ Add("qr", "serve", "qr",
           IF On("qr")
           THEN [durable |-> StoreOf("qr").durable, ttl |-> StoreOf("qr").ttl,
                 profiles |-> {"agnostic", "egov"} \cup (IF settings[<<"qr", "relay-url">>] # "" THEN {"relay"} ELSE {}),
                 profile |-> settings[<<"qr", "default-profile">>],
                 mode |-> settings[<<"qr", "default-mode">>],
                 issuer |-> built["oidc"] # Unset]
           ELSE Unset)

(* Signed documents are mounted with the REST routes, when there is a key.  *)
serveDocuments ==
    Add("serve", "up", "documents",
        IF On("http") /\ settings[<<"receipts", "signed-qr">>] = "true" /\ built["key"] # Unset
        THEN built["key"] ELSE Unset)

-----------------------------------------------------------------------------
(* What operators write: a file over some related settings; and over the    *)
(* library's, every layer at once.                                          *)

Empty == [k \in {} |-> ""]

Bases == Merge([k \in {<<"lib", "path">>} |-> "so"], [k \in {<<"http", "enabled">>} |-> "true"])

Related ==
    {{<<s, "enabled">>, <<s, "store">>, <<s, "bolt-path">>, <<s, "ttl">>} : s \in Stored}
    \cup {{<<"http", "enabled">>, <<"kafka", "brokers">>, <<"kafka", "topic">>, <<"kafka", "group">>},
          {<<"crypto-worker", n>> : n \in {"enabled", "timeout", "processes"}},
          {<<"audit", "enabled">>, <<"audit", "path">>,
           <<"certwatch", "enabled">>, <<"certwatch", "dir">>, <<"certwatch", "interval">>},
          {<<"trust", n>> : n \in {"crl-cache", "crl-fail-policy", "refresh-interval", "use-rk-registry"}},
          {<<"oidc", "enabled">>, <<"oidc", "issuer">>, <<"oidc", "clients">>,
           <<"receipts", "enabled">>, <<"receipts", "signed-qr">>},
          {<<"oidc", "enabled">>, <<"oidc", "issuer">>, <<"qr", "enabled">>, <<"qr", "default-mode">>,
           <<"qr", "default-profile">>, <<"qr", "relay-url">>}}

Says(keys) ==
    UNION {{f \in [some -> UNION {EntryOf[k].raw : k \in some}] : \A k \in some : f[k] \in EntryOf[k].raw}
             : some \in SUBSET keys}

Library == {<<"lib", "isolated">>, <<"pool", "workers">>}

One(keys) == {f \in Says(keys) : Cardinality(DOMAIN f) <= 1}

OperatorInputs ==
    {[file |-> Merge(f, Bases), env |-> Empty, side |-> Empty, flag |-> Empty] : f \in UNION {Says(r) : r \in Related}}
    \cup {[file |-> f, env |-> e, side |-> d, flag |-> g] :
             f \in {Bases} \cup {Merge(h, Bases) : h \in Says(Library)} \cup Says({<<"lib", "path">>}),
             e \in Says(Library),
             d \in One(Library) \cup {[k \in {l} |-> "unreadable"] : l \in Library},
             g \in One(Library)}
    \cup {[file |-> Bases, env |-> e, side |-> d, flag |-> Empty] :
             e \in Says({<<"trust", "crl-fail-policy">>}), d \in Says({<<"trust", "crl-fail-policy">>})}

Subsystems == Stored \cup {"key", "engine", "certwatch", "documents"}

ConfigInit ==
    /\ given \in OperatorInputs
    /\ settings = Empty /\ origins = Empty /\ phase = "start" /\ problems = {} /\ cause = "none"
    /\ built = [s \in Subsystems |-> Unset] /\ rounds = 0

ConfigNext ==
    \/ Load \/ Validate \/ Correct \/ NoTransport \/ loadServiceKey \/ buildService
    \/ buildJobs \/ buildOIDC \/ buildWatcher \/ buildChallenge \/ buildMultisign \/ buildQR
    \/ serveDocuments

-----------------------------------------------------------------------------
(* Properties. *)

(* The value in force is the one the most specific layer gave, and the     *)
(* origin config dump shows is that layer: a flag beats the environment, a *)
(* readable side file beats the variable, a variable beats the file        *)
(* (Load, fromEnv).                                                        *)
OriginTellsTheTruth ==
    phase \notin {"start", "unreadable"} => \A k \in DOMAIN settings :
        LET side == k \in DOMAIN given.side /\ given.side[k] # "unreadable"
        IN /\ k \in DOMAIN given.flag => origins[k] = "flag" /\ settings[k] = given.flag[k]
           /\ k \notin DOMAIN given.flag /\ side =>
                origins[k] = "env" /\ settings[k] = parse(k, TrimSpace(given.side[k]))
           /\ k \notin DOMAIN given.flag /\ ~side /\ k \in DOMAIN given.env =>
                origins[k] = "env" /\ settings[k] = parse(k, given.env[k])
           /\ origins[k] = "file" => settings[k] = given.file[k]
           /\ origins[k] = "default" => k \notin DOMAIN given.file /\ settings[k] = EntryOf[k].def

(* Operators see every problem at once: once what Validate reported has    *)
(* been corrected, a further complaint is only about the path or the       *)
(* address that the correction itself called for (a store corrected to     *)
(* bolt, a profile to relay), and the second correction is always accepted *)
(* (Validate).                                                             *)
NothingHeldBack ==
    /\ rounds > 0 /\ phase = "invalid" => \A k \in problems :
         \/ k[2] = "bolt-path" /\ origins[<<k[1], "store">>] = "flag"
         \/ k = <<"qr", "relay-url">> /\ origins[<<"qr", "default-profile">>] = "flag"
    /\ rounds > 1 => phase # "invalid"

(* A configuration Validate accepted can be built: what still stops a      *)
(* start is a file or database that is not there, no transport at all, or  *)
(* the client list, which Validate does not read (buildOIDC and the other  *)
(* builders of main.go).                                                   *)
AcceptedBuilds == phase = "failed" => cause \in {"outage", "no transport", "clients"}

(* What runs is what was configured: a section switched on is there, in    *)
(* the store it names and with a window that is not empty; QR sessions     *)
(* have the profile and the sign-in they default to; receipts have a key;  *)
(* a consumer has its topic; there is a child to serve and a deadline to   *)
(* end it; several engines are isolated.  Two switches ask for more than   *)
(* themselves.  The fail-closed CRL policy is in force with the CRL cache  *)
(* on and the word written without a blank: Validate trims the word and    *)
(* accepts one with a blank, buildService compares it as it is and serves  *)
(* it soft.  Signed documents are served over REST when logins or receipts *)
(* brought a key; alone, the switch is accepted and mounts nothing         *)
(* (Validate against the builders of main.go).                             *)
ServedAsConfigured ==
    phase = "up" =>
        /\ \A s \in Stored :
             /\ On(s) = (built[s] # Unset)
             /\ On(s) => /\ built[s].ttl > 0
                         /\ settings[<<s, "ttl">>] = "1h" => built[s].ttl = 1
                         /\ settings[<<s, "store">>] \in IF built[s].durable THEN {"bolt"} ELSE {"memory", ""}
                         /\ built[s].durable => settings[<<s, "bolt-path">>] # ""
        /\ On("qr") => built["qr"].profile \in built["qr"].profiles /\ (built["qr"].mode = "auth" => built["qr"].issuer)
        /\ On("receipts") => built["engine"].receipts
        /\ On("oidc") => built["key"] # Unset
        /\ built["engine"].timeout > 0 /\ (On("crypto-worker") => built["engine"].children > 0)
        /\ built["engine"].pool > 1 => settings[<<"lib", "isolated">>] = "true"
        /\ built["engine"].hard => TrimSpace(settings[<<"trust", "crl-fail-policy">>]) = "hard"
        /\ settings[<<"trust", "crl-fail-policy">>] = "hard" /\ settings[<<"trust", "crl-cache">>] = "true" =>
             built["engine"].hard
        /\ built["documents"] # Unset => settings[<<"receipts", "signed-qr">>] = "true"
        /\ settings[<<"receipts", "signed-qr">>] = "true" /\ On("http") /\ (On("oidc") \/ On("receipts")) =>
             built["documents"] # Unset
        /\ On("certwatch") => built["certwatch"].dir # "" /\ built["certwatch"].interval > 0
        /\ settings[<<"kafka", "brokers">>] # "" =>
             settings[<<"kafka", "topic">>] # "" /\ settings[<<"kafka", "group">>] # ""

(* From the layers to the running service: the most specific layer wins,   *)
(* no problem is held back for a later start, what was accepted can be     *)
(* built, and what runs is what was asked for, within the two limits       *)
(* ServedAsConfigured names (config.go, main.go).                          *)
ConfigIsHonoured ==
    /\ OriginTellsTheTruth
    /\ NothingHeldBack
    /\ AcceptedBuilds
    /\ ServedAsConfigured
=============================================================================
