------------------------------ MODULE MCEngine ------------------------------
(***************************************************************************)
(* What every operation is built on, for TLC: the native library and its   *)
(* in-process driver, the signing call, the CMS container, the audit       *)
(* journal, the CRL cache, the trust store and issuer fetcher, the         *)
(* certificate watcher, the service key, the configuration and the paths   *)
(* an error takes.  They are checked side by side: `part` names the one    *)
(* that runs, and the variables of the others stand still.                 *)
(***************************************************************************)
EXTENDS Pool, Audit, CRL, Trust, Signing, Certwatch, Failures, Container,
        Config, ServiceKey, Binding

CONSTANT Off    \* what a part holds while another one runs
VARIABLE part

(* Workers and goroutines are interchangeable. *)
Perms == Permutations(PoolWorkers) \cup Permutations(PoolCallers) \cup Permutations(CRLThreads)

engineVars == <<part, poolVars, auditVars, crlVars, trustVars, signVars, watchVars, failVars,
                containerVars, configVars, keyVars, bindingVars>>

(* Components with many initial states take them only when it is their turn. *)
EngineInit ==
  /\ part \in {"pool", "audit", "crl", "trust", "signing", "certwatch", "failures", "container",
             "config", "key", "binding"}
  /\ PoolInit /\ WatchInit
  /\ AuditInit /\ (part # "audit" => sync)
  /\ CRLInit /\ (part # "crl" => ~spooled /\ maxBytes = Max(ByteCaps))
  /\ TrustInit /\ (part # "trust" => url = "up")
  /\ IF part = "signing" THEN SignInit
     ELSE /\ order = Off /\ pc = "off" /\ temps = {} /\ anchorsOf = "none"
          /\ journal = <<>> /\ signed = Off
  /\ IF part = "failures" THEN FailInit
     ELSE trip = None /\ frame = None /\ got = None /\ told = None
  /\ IF part = "container" THEN ContainerInit
     ELSE /\ original = Box("signedData", "der", <<>>) /\ box = original
          /\ allowed = {} /\ embeds = <<>> /\ said = <<>>
  /\ IF part = "config" THEN ConfigInit
     ELSE /\ given = Off /\ settings = Empty /\ origins = Empty /\ phase = "off"
          /\ problems = {} /\ cause = "none" /\ built = Off /\ rounds = 0
  /\ KeyInit /\ (part # "key" => keyPath)
  /\ BindingInit /\ (part # "binding" => table = AllFunctions)

Still(p) ==
  /\ UNCHANGED part
  /\ p # "pool" => UNCHANGED poolVars
  /\ p # "audit" => UNCHANGED auditVars
  /\ p # "crl" => UNCHANGED crlVars
  /\ p # "trust" => UNCHANGED trustVars
  /\ p # "signing" => UNCHANGED signVars
  /\ p # "certwatch" => UNCHANGED watchVars
  /\ p # "failures" => UNCHANGED failVars
  /\ p # "container" => UNCHANGED containerVars
  /\ p # "config" => UNCHANGED configVars
  /\ p # "key" => UNCHANGED keyVars
  /\ p # "binding" => UNCHANGED bindingVars

EngineNext ==
  \/ part = "pool" /\ PoolNext /\ Still("pool")
  \/ part = "audit" /\ AuditNext /\ Still("audit")
  \/ part = "crl" /\ CRLNext /\ Still("crl")
  \/ part = "trust" /\ TrustNext /\ Still("trust")
  \/ part = "signing" /\ SignNext /\ Still("signing")
  \/ part = "certwatch" /\ WatchNext /\ Still("certwatch")
  \/ part = "failures" /\ FailNext /\ Still("failures")
  \/ part = "container" /\ ContainerNext /\ Still("container")
  \/ part = "config" /\ ConfigNext /\ Still("config")
  \/ part = "key" /\ KeyNext /\ Still("key")
  \/ part = "binding" /\ BindingNext /\ Still("binding")

EngineSpec == EngineInit /\ [][EngineNext]_engineVars
=============================================================================
