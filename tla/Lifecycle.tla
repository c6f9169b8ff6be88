----------------------------- MODULE Lifecycle -----------------------------
(***************************************************************************)
(* The service process (cmd/qoltanba/main.go): the driver is opened and    *)
(* the library judged (internal/compat), the journal and the stores are    *)
(* opened, the job workers, the watcher and the transports started, and,   *)
(* once the context ends, everything is drained and closed, in order.      *)
(* Work goes on meanwhile in every part that still runs: a piece of it     *)
(* uses the driver, then the journal and the stores.                       *)
(***************************************************************************)
EXTENDS Integers, Sequences, FiniteSets, FiniteSetsExt

CONSTANTS
    Versions,   \* versions the library or the requirement may have, as lists
    Unparsed    \* a version that is not one: "unknown", not numbers

VARIABLES
    conf,       \* what is enabled: [transports, jobs, watch, audit]
    main,       \* where the main goroutine is
    code,       \* the exit status it leaves with
    ctx,        \* the serve context: "live", "canceled"
    held,        \* resource -> "none", "open", "closed"
    work,       \* actor -> "off", "idle", "busy", "ran" (past the driver), "gone"
    deaf,       \* servers that accept nothing any more
    \* history
    fit,        \* the library meets what is asked of it
    overdue,       \* REST's Shutdown gave up on a request
    found       \* <<actor, resource>>: work that came upon a closed resource

lifeVars == <<conf, main, code, ctx, held, work, deaf, fit, overdue, found>>

Resources == {"driver", "journal", "jobstore", "sessions"}
Actors == {"rest", "grpc", "mq", "jobs", "watch"}

LifeInit ==
    /\ conf \in [transports: SUBSET {"rest", "grpc", "mq"}, jobs: BOOLEAN, watch: BOOLEAN,
                 audit: BOOLEAN]
    /\ main = "config" /\ code = 0 /\ ctx = "live"
    /\ held = [r \in Resources |-> "none"]
    /\ work = [a \in Actors |-> "off"]
    /\ deaf = {} /\ fit = FALSE /\ overdue = FALSE /\ found = {}

---------------------------------------------------------------------------
(***************************************************************************)
(* The judgement of the library (internal/compat).                         *)
(***************************************************************************)

\* -1, 0, 1: the first segment that differs, missing ones being zero.
compareVersions(a, b) ==
    LET n     == Max({Len(a), Len(b)})
        Seg(v, i) == IF i <= Len(v) THEN v[i] ELSE 0
        diff  == {i \in 1 .. n: Seg(a, i) # Seg(b, i)}
    IN  IF diff = {} THEN 0
        ELSE IF Seg(a, Min(diff)) < Seg(b, Min(diff)) THEN -1 ELSE 1

\* No minimum is <<>>.
versionCheck(version, min) ==
    [status |-> IF min = <<>> THEN "pass"
                ELSE IF Unparsed \in {version, min} THEN "warn"
                ELSE IF compareVersions(version, min) < 0 THEN "fail" ELSE "pass",
     critical |-> FALSE]

selfTestCheck(self) ==
    [status |-> CASE self = "ok" -> "pass" [] self = "wrong" -> "fail" [] self = "skipped" -> "warn",
     critical |-> self = "wrong"]

capabilityChecks(required, optional) ==
    {[status |-> IF required THEN "pass" ELSE "fail", critical |-> FALSE],
     [status |-> IF optional THEN "pass" ELSE "warn", critical |-> FALSE]}

Evaluate(lib, min) ==
    {versionCheck(lib.version, min), selfTestCheck(lib.self)}
      \cup capabilityChecks(lib.required, lib.optional)

MustRefuse(checks, policy) ==
    LET failed == {c \in checks: c.status = "fail"}
    IN  \/ \E c \in failed: c.critical
        \/ failed # {} /\ policy = "strict"

Libraries == [version: Versions \cup {Unparsed}, self: {"ok", "wrong", "skipped"},
              required: BOOLEAN, optional: BOOLEAN]

\* What a strict start promises, with the versions compared as the numbers
\* their segments are the digits of.
Number(v) == LET Seg(i) == IF i <= Len(v) THEN v[i] ELSE 0
             IN  100 * Seg(1) + 10 * Seg(2) + Seg(3)
Meets(lib, min, policy) ==
    /\ lib.self # "wrong"
    /\ policy = "strict" =>
          /\ lib.required
          /\ min # <<>> /\ Unparsed \notin {min, lib.version} => Number(lib.version) >= Number(min)

---------------------------------------------------------------------------
(***************************************************************************)
(* Start.                                                                  *)
(***************************************************************************)

\* main returns; serve's deferred stop ends the context.
Ends(status) == main' = "closer" /\ code' = status /\ ctx' = "canceled"

\* runServe up to buildService: nothing to serve is a usage error.
Configure ==
    /\ main = "config"
    /\ IF conf.transports = {} THEN main' = "exited" /\ code' = 2
       ELSE main' = "driver" /\ UNCHANGED code
    /\ UNCHANGED <<conf, ctx, held, work, deaf, fit, overdue, found>>

\* buildService, openDriver: the driver is opened and judged; a driver that
\* is refused, or whose self-test cannot be called, is closed again.
openDriver ==
    /\ main = "driver"
    /\ \/ /\ main' = "exited" /\ code' = 1
          /\ \/ UNCHANGED held
             \/ held' = [held EXCEPT !["driver"] = "closed"]
          /\ UNCHANGED fit
       \/ \E lib \in Libraries, min \in Versions \cup {Unparsed, <<>>}, policy \in {"strict", "warn", "off"}:
             /\ fit' = Meets(lib, min, policy)
             /\ IF MustRefuse(Evaluate(lib, min), policy)
                THEN main' = "exited" /\ code' = 1 /\ held' = [held EXCEPT !["driver"] = "closed"]
                ELSE main' = "journal" /\ UNCHANGED code /\ held' = [held EXCEPT !["driver"] = "open"]
    /\ UNCHANGED <<conf, ctx, work, deaf, overdue, found>>

\* ... the trust directory is read and the journal opened; when either
\* fails the driver is closed.
openJournal ==
    /\ main = "journal"
    /\ \/ /\ main' = "exited" /\ code' = 1
          /\ held' = [held EXCEPT !["driver"] = "closed"]
       \/ /\ main' = "subsystems" /\ UNCHANGED code
          /\ held' = [held EXCEPT !["journal"] = IF conf.audit THEN "open" ELSE "none"]
    /\ UNCHANGED <<conf, ctx, work, deaf, fit, overdue, found>>

\* runServe: buildJobs, then the services with a store of their own; the
\* first that fails ends the start, and closer runs.
buildSubsystems ==
    /\ main = "subsystems"
    /\ LET jobstore == IF conf.jobs THEN "open" ELSE "none"
       IN  \/ /\ main' = "start" /\ UNCHANGED code
              /\ held' = [held EXCEPT !["jobstore"] = jobstore, !["sessions"] = "open"]
           \/ /\ main' = "closer" /\ code' = 1
              /\ \/ UNCHANGED held
                 \/ held' = [held EXCEPT !["jobstore"] = jobstore]
    /\ UNCHANGED <<conf, ctx, work, deaf, fit, overdue, found>>

\* serve: the workers and the watcher start first, then the transports one
\* by one.  A job store that cannot be recovered or a listener that cannot
\* be opened ends it there.
Starts(as) == work' = [a \in Actors |-> IF a \in as THEN "idle" ELSE work[a]]

startWorkers ==
    /\ main = "start"
    /\ \/ conf.jobs /\ Ends(1) /\ UNCHANGED work
       \/ /\ main' = "listen" /\ UNCHANGED <<code, ctx>>
          /\ Starts({a \in {"jobs", "watch"}: conf[a]})
    /\ UNCHANGED <<conf, held, deaf, fit, overdue, found>>

listen ==
    /\ main = "listen"
    /\ \/ /\ conf.transports \cap {"rest", "grpc"} # {}
          /\ Ends(1)
          /\ \/ UNCHANGED work
             \/ {"rest", "grpc"} \subseteq conf.transports /\ Starts({"rest"})
       \/ main' = "serving" /\ UNCHANGED <<code, ctx>> /\ Starts(conf.transports)
    /\ UNCHANGED <<conf, held, deaf, fit, overdue, found>>

---------------------------------------------------------------------------
(***************************************************************************)
(* Work.                                                                   *)
(***************************************************************************)

\* What each actor touches after the driver.
Touches(a) == CASE a \in {"rest", "grpc"} -> {"journal", "jobstore", "sessions"}
                [] a = "mq" -> {"journal", "jobstore"}
                [] a = "jobs" -> {"journal", "jobstore"}
                [] a = "watch" -> {}
Closed(rs) == {r \in rs: held[r] = "closed"}
Finds(a, rs) == found' = found \cup {<<a, r>>: r \in Closed(rs)}

\* A request, message, job or sweep begins.  The consumers take no message
\* once the context has ended; a job worker's select may still pick a job.
Begin(a) ==
    /\ main # "exited" /\ work[a] = "idle" /\ a \notin deaf
    /\ a \in {"mq", "watch"} => ctx = "live"
    /\ work' = [work EXCEPT ![a] = "busy"]
    /\ UNCHANGED <<conf, main, code, ctx, held, deaf, fit, overdue, found>>

UseDriver(a) ==
    /\ main # "exited" /\ work[a] = "busy"
    /\ work' = [work EXCEPT ![a] = "ran"]
    /\ Finds(a, {"driver"})
    /\ UNCHANGED <<conf, main, code, ctx, held, deaf, fit, overdue>>

Finish(a) ==
    /\ main # "exited" /\ work[a] = "ran"
    /\ work' = [work EXCEPT ![a] = "idle"]
    /\ Finds(a, Touches(a))
    /\ UNCHANGED <<conf, main, code, ctx, held, deaf, fit, overdue>>

\* Consumers, workers and the watcher return when the context has ended; a
\* consumer whose channel the broker closed returns before that.
Leave(a) ==
    /\ main # "exited" /\ work[a] = "idle"
    /\ a \in {"mq", "jobs", "watch"} /\ (ctx = "canceled" \/ a = "mq")
    /\ work' = [work EXCEPT ![a] = "gone"]
    /\ UNCHANGED <<conf, main, code, ctx, held, deaf, fit, overdue, found>>

---------------------------------------------------------------------------
(***************************************************************************)
(* Stop.                                                                   *)
(***************************************************************************)

\* A signal, or a server or consumer that failed; REST's Shutdown closes
\* the listener at once.
EndContext ==
    /\ main = "serving"
    /\ ctx' = "canceled" /\ main' = "rest" /\ deaf' = {"rest"}
    /\ UNCHANGED <<conf, code, held, work, fit, overdue, found>>

Over(a) == work[a] \in {"off", "idle", "gone"}
Returned(a) == work[a] \in {"off", "gone"}

\* Shutdown waits for the requests under way, up to its deadline; then gRPC
\* stops accepting.
ShutdownREST ==
    /\ main = "rest"
    /\ main' = "grpc" /\ deaf' = {"rest", "grpc"}
    /\ overdue' = ~Over("rest")
    /\ UNCHANGED <<conf, code, ctx, held, work, fit, found>>

\* GracefulStop has no deadline.
GracefulStop ==
    /\ main = "grpc" /\ Over("grpc")
    /\ main' = "mq"
    /\ UNCHANGED <<conf, code, ctx, held, work, deaf, fit, overdue, found>>

WaitMQ ==
    /\ main = "mq" /\ Returned("mq")
    /\ main' = "jobs"
    /\ UNCHANGED <<conf, code, ctx, held, work, deaf, fit, overdue, found>>

Closes(rs) == held' = [r \in Resources |-> IF r \in rs /\ held[r] = "open" THEN "closed" ELSE held[r]]

\* The job store closed under the workers.
CloseJobsAtOnce ==
    /\ main = "jobs"
    /\ main' = "stores" /\ Closes({"jobstore"})
    /\ UNCHANGED <<conf, code, ctx, work, deaf, fit, overdue, found>>

CloseJobs ==
    /\ main = "jobs" /\ Returned("jobs")
    /\ main' = "stores" /\ Closes({"jobstore"})
    /\ UNCHANGED <<conf, code, ctx, work, deaf, fit, overdue, found>>

CloseStores ==
    /\ main = "stores"
    /\ main' = "closer" /\ Closes({"sessions"})
    /\ UNCHANGED <<conf, code, ctx, work, deaf, fit, overdue, found>>

\* buildService's closer, deferred by runServe: the journal, the driver,
\* the end.
CloseJournal ==
    /\ main = "closer"
    /\ main' = "last" /\ Closes({"journal"})
    /\ UNCHANGED <<conf, code, ctx, work, deaf, fit, overdue, found>>

CloseDriver ==
    /\ main = "last"
    /\ main' = "exited" /\ Closes({"driver"})
    /\ UNCHANGED <<conf, code, ctx, work, deaf, fit, overdue, found>>

Startup == \/ Configure \/ openDriver \/ openJournal \/ buildSubsystems \/ startWorkers
           \/ listen
Shutdown == \/ ShutdownREST \/ GracefulStop \/ WaitMQ \/ CloseJobs \/ CloseStores
            \/ CloseJournal \/ CloseDriver

LifeNext == \/ Startup \/ EndContext \/ Shutdown
            \/ \E a \in Actors: Begin(a) \/ UseDriver(a) \/ Finish(a) \/ Leave(a)

---------------------------------------------------------------------------

\* No request, message or job comes upon a driver, journal or store that is
\* already closed (serve's shutdown order): the transports are drained
\* before the workers are waited for, the workers before their store is
\* closed, everything before the journal and the driver.  The exceptions
\* are a REST request that outlived Shutdown's deadline, the watcher, whose
\* sweep nobody waits for, and a start that failed half way.
DrainedBeforeClosed ==
    \A x \in found: \/ x[1] = "rest" /\ overdue
                    \/ x = <<"watch", "driver">>
                    \/ code = 1

\* Nothing is served, and no job run, on a library that computes wrongly or,
\* under the strict policy, lacks a required capability or is older than the
\* minimum (compat.Evaluate, MustRefuse; buildService).
ServesOnlyFit == (\E a \in Actors: work[a] # "off") => fit

\* The process leaves no journal or driver open, however far its start got,
\* and after an orderly stop no store (buildService's error paths, closer).
NothingLeftOpen ==
    main = "exited" => /\ held["driver"] # "open" /\ held["journal"] # "open"
                       /\ code = 0 => \A r \in Resources: held[r] # "open"

\* Told to stop, the process can always go on to its end (serve): main is
\* never left waiting for somebody who only takes new work or waits too.
StopNeverStalls ==
    ctx = "canceled" /\ main # "exited" =>
        \/ ENABLED Shutdown
        \/ \E a \in Actors: ENABLED (UseDriver(a) \/ Finish(a) \/ Leave(a))

\* The process serves only between a start that succeeded and an orderly
\* stop (main.go serve, buildService): in that order, on a fit library,
\* with nothing left open and nobody waited for in vain.
ShutdownIsOrderly ==
    /\ DrainedBeforeClosed
    /\ ServesOnlyFit
    /\ NothingLeftOpen
    /\ StopNeverStalls
============================================================================
