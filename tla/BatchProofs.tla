---------------------------- MODULE BatchProofs ----------------------------
(***************************************************************************)
(* Proofs about the batch runner, for any number of items, any requested   *)
(* concurrency and any pool size.                                          *)
(***************************************************************************)
EXTENDS Batch, FiniteSetTheorems, TLAPS

Active     == {i \in Items : gpc[i] \notin {"none", "done"}}
Counted(o) == {i \in Items : /\ gpc[i] \in {"emit", "release", "exit", "done"}
                             /\ res[i] = o}

(* Where the dispatcher is, against which goroutines exist. *)
DispInv == /\ dpc \in {"acquire", "recheck", "spawn"} => next < N
           /\ \A i \in Items : gpc[i] = "none" <=> next <= i
           /\ dpc \in {"wait", "returned"} => \/ next = N
                                              \/ ctxDone
                                              \/ opts.failFast /\ failed

(* A slot holds the goroutine's own result from the step that writes it on.  *)
ResInv == \A i \in Items :
            /\ gpc[i] \notin {"none", "fn"} => res[i] \in Outcomes
            /\ gpc[i] = "flag" => res[i] = "error" /\ opts.failFast
            /\ results[i] = IF gpc[i] \in {"none", "fn", "flag", "slot"}
                            THEN "skipped" ELSE res[i]

(* The flag is raised only under fail-fast, by an item that did fail.        *)
FlagInv == failed => /\ opts.failFast
                     /\ \E i \in Items : /\ gpc[i] \notin {"none", "fn", "flag"}
                                         /\ res[i] = "error"

LateInv == /\ late <= 1
           /\ late = 1 => /\ dpc \in {"check", "wait", "returned"}
                          /\ ctxDone \/ failed

(* The critical section of mu. *)
MuInv == \A i \in Items : gpc[i] = "emit" <=> mu = i

(* The semaphore, the wait group and the counters count what they should.    *)
SemInv   == /\ sem = Cardinality(Live) + (IF dpc \in {"recheck", "spawn"} THEN 1 ELSE 0)
            /\ sem <= opts.conc
WgInv    == wg = Cardinality(Active)
SumInv   == /\ succeeded = Cardinality(Counted("ok"))
            /\ failedN = Cardinality(Counted("error"))

EndInv   == dpc = "returned" => /\ wg = 0
                                /\ out = [total |-> N, succeeded |-> succeeded,
                                          failed |-> failedN, results |-> results]

SinkInv  == /\ \A a \in 1 .. Len(sent) :
                 /\ gpc[sent[a][1]] \in {"release", "exit", "done"}
                 /\ sent[a][2] = res[sent[a][1]]
            /\ \A a, b \in 1 .. Len(sent) : a # b => sent[a][1] # sent[b][1]
            /\ opts.stream => \A i \in Items :
                 gpc[i] \in {"release", "exit", "done"}
                   => \E a \in 1 .. Len(sent) : sent[a] = <<i, res[i]>>

Control == TypeOK /\ DispInv /\ ResInv /\ FlagInv /\ LateInv /\ MuInv
Counts  == SemInv /\ WgInv /\ SumInv
IInv    == Control /\ Counts /\ EndInv /\ SinkInv

-----------------------------------------------------------------------------
(* The items of a batch are finitely many; adding or removing one of them    *)
(* changes a count by one.                                                   *)
LEMMA Counting ==
  ASSUME NEW S \in SUBSET Items
  PROVE  /\ IsFiniteSet(S) /\ Cardinality(S) \in Nat
         /\ \A x \in Items \ S : Cardinality(S \cup {x}) = Cardinality(S) + 1
         /\ \A x \in S : Cardinality(S \ {x}) = Cardinality(S) - 1
         /\ Cardinality(S) = 0 => S = {}
<1>1. IsFiniteSet(Items)
  BY FS_Interval, BatchAssumption DEF Items
<1>2. IsFiniteSet(S)
  BY <1>1, FS_Subset
<1> QED
  BY <1>2, FS_CardinalityType, FS_AddElement, FS_RemoveElement, FS_EmptySet

(* A goroutine in flight holds a token and a unit of the wait group.         *)
LEMMA InFlight ==
  ASSUME SemInv, WgInv
  PROVE  /\ Cardinality(Live) \in Nat
         /\ dpc \in {"recheck", "spawn"} => sem \in Nat \ {0}
         /\ \A i \in Live : sem \in Nat \ {0}
         /\ \A i \in Active : wg \in Nat \ {0}
<1>1. /\ Cardinality(Live) \in Nat
      /\ Cardinality(Live) = 0 => Live = {}
  <2>1. Live \in SUBSET Items
    BY DEF Live
  <2> QED
    BY <2>1, Counting
<1>2. /\ Cardinality(Active) \in Nat
      /\ Cardinality(Active) = 0 => Active = {}
  <2>1. Active \in SUBSET Items
    BY DEF Active
  <2> QED
    BY <2>1, Counting
<1> QED
  BY <1>1, <1>2 DEF SemInv, WgInv

(* The effective concurrency is positive for every request and pool size.    *)
LEMMA ConcPositive ==
  \A c \in Requested : EffectiveConc(c) \in Nat \ {0}
  BY BatchAssumption DEF EffectiveConc, DefaultConc

(* The runner starts in the invariant. *)
LEMMA InitIInv == Init => IInv
<1> SUFFICES ASSUME Init PROVE IInv
  OBVIOUS
<1> USE DEF Init
<1>0. /\ opts \in [failFast : BOOLEAN, stream : BOOLEAN, conc : Nat \ {0}]
      /\ opts.conc \in Nat \ {0}
  <2>1. {EffectiveConc(c) : c \in Requested} \subseteq Nat \ {0}
    BY ConcPositive
  <2> QED
    BY <2>1
<1>1. TypeOK
  <2>1. next \in 0 .. N /\ sent \in Seq(Items \X Outcomes)
    BY BatchAssumption
  <2>2. res \in [Items -> Outcomes \cup {None}] /\ results \in [Items -> Statuses]
    BY DEF Statuses
  <2> QED
    BY <1>0, <2>1, <2>2, Zenon DEF TypeOK, DPC, GPC
<1>2. Control
  BY <1>1, BatchAssumption, NoneIsNoItem
  DEF Control, DispInv, ResInv, FlagInv, LateInv, MuInv, Items, Outcomes
<1>3. Live = {} /\ Active = {} /\ Counted("ok") = {} /\ Counted("error") = {}
  BY DEF Live, Active, Counted
<1>4. Counts
  <2>1. SemInv
    BY <1>0, <1>3, FS_EmptySet DEF SemInv
  <2>2. WgInv /\ SumInv
    BY <1>3, FS_EmptySet, Zenon DEF WgInv, SumInv
  <2> QED
    BY <2>1, <2>2 DEF Counts
<1> QED
  BY <1>2, <1>4 DEF IInv, EndInv, SinkInv

-----------------------------------------------------------------------------
(* The control part of the invariant is kept by every step.                  *)
LEMMA ControlStep == IInv /\ [Next]_vars => Control'
<1> SUFFICES ASSUME IInv, [Next]_vars PROVE Control'
  OBVIOUS
<1> USE BatchAssumption, NoneIsNoItem
    DEF IInv, Control, TypeOK, DispInv, ResInv, FlagInv, LateInv, MuInv,
        DPC, GPC, Outcomes, Statuses, disp, sums
<1>1. CASE LoopHead
  BY <1>1 DEF LoopHead, Stop
<1>2. CASE Acquire
  BY <1>2 DEF Acquire
<1>3. CASE Recheck
  <2>1. sem \in Nat \ {0}
    BY <1>3, InFlight DEF Recheck, Counts
  <2> QED
    BY <1>3, <2>1 DEF Recheck, Stop
<1>4. CASE Spawn
  BY <1>4 DEF Spawn, Items
<1>5. CASE Return
  BY <1>5 DEF Return
<1>6. CASE CancelCtx
  BY <1>6 DEF CancelCtx
<1>7. ASSUME NEW i \in Items, Goroutine(i) PROVE Control'
  <2>1. CASE Run(i)
    BY <2>1 DEF Run
  <2>2. CASE RaiseFlag(i)
    <3>1. /\ TypeOK' /\ DispInv' /\ ResInv' /\ MuInv' /\ LateInv'
      BY <2>2 DEF RaiseFlag
    <3>2. FlagInv'
      <4>1. opts.failFast
        BY <2>2 DEF RaiseFlag
      <4> QED
        BY <2>2, <4>1 DEF RaiseFlag
    <3> QED
      BY <3>1, <3>2
  <2>3. CASE WriteSlot(i)
    BY <2>3 DEF WriteSlot
  <2>4. CASE Count(i)
    BY <2>4 DEF Count
  <2>5. CASE Emit(i)
    BY <2>5 DEF Emit
  <2>6. CASE Release(i)
    <3>1. sem \in Nat \ {0}
      BY <2>6, InFlight DEF Release, Counts, Live
    <3> QED
      BY <2>6, <3>1 DEF Release
  <2>7. CASE Done(i)
    <3>1. wg \in Nat \ {0}
      BY <2>7, InFlight DEF Done, Counts, Active
    <3> QED
      BY <2>7, <3>1 DEF Done
  <2> QED
    BY <1>7, <2>1, <2>2, <2>3, <2>4, <2>5, <2>6, <2>7, Zenon DEF Goroutine
<1>8. CASE UNCHANGED vars
  BY <1>8 DEF vars
<1> QED
  BY <1>1, <1>2, <1>3, <1>4, <1>5, <1>6, <1>7, <1>8, Zenon DEF Next, Dispatcher

-----------------------------------------------------------------------------
(* Which sets of goroutines a step changes: a goroutine enters Live and      *)
(* Active when it is spawned, Counted under the mutex, and leaves Live and   *)
(* Active in its two deferred calls.                                         *)
LEMMA SetsFrame ==
  ASSUME gpc' = gpc, res' = res
  PROVE  Live' = Live /\ Active' = Active /\ \A o : Counted(o)' = Counted(o)
  BY DEF Live, Active, Counted

LEMMA SetsGoroutine ==
  ASSUME IInv, NEW i \in Items, Goroutine(i)
  PROVE  /\ Live' = IF gpc[i] = "release" THEN Live \ {i} ELSE Live
         /\ Active' = IF gpc[i] = "exit" THEN Active \ {i} ELSE Active
         /\ \A o \in Outcomes :
              Counted(o)' = IF gpc[i] = "lock" /\ res[i] = o
                            THEN Counted(o) \cup {i} ELSE Counted(o)
         /\ i \in Live <=> gpc[i] # "exit"
         /\ i \in Active
         /\ gpc[i] = "lock" => \A o \in Outcomes : i \notin Counted(o)
<1> USE DEF IInv, Control, TypeOK, Live, Active, Counted
<1>1. CASE Run(i)
  BY <1>1 DEF Run
<1>2. CASE RaiseFlag(i)
  BY <1>2 DEF RaiseFlag
<1>3. CASE WriteSlot(i)
  BY <1>3 DEF WriteSlot
<1>4. CASE Count(i)
  BY <1>4 DEF Count
<1>5. CASE Emit(i)
  BY <1>5 DEF Emit
<1>6. CASE Release(i)
  BY <1>6 DEF Release
<1>7. CASE Done(i)
  BY <1>7 DEF Done
<1> QED
  BY <1>1, <1>2, <1>3, <1>4, <1>5, <1>6, <1>7, Zenon DEF Goroutine

(* The semaphore, the wait group and the summary counters keep counting what *)
(* they should.                                                              *)
LEMMA CountsStep == IInv /\ [Next]_vars => Counts'
<1> SUFFICES ASSUME IInv, [Next]_vars PROVE Counts'
  OBVIOUS
<1>0. /\ opts.conc \in Nat /\ sem \in Nat /\ wg \in Nat
      /\ succeeded \in Nat /\ failedN \in Nat
      /\ SemInv /\ WgInv /\ SumInv
      /\ Cardinality(Live) \in Nat
  BY InFlight DEF IInv, Control, TypeOK, Counts
<1>1. ASSUME gpc' = gpc, res' = res, opts' = opts, wg' = wg, sums' = sums,
             sem' - (IF dpc' \in {"recheck", "spawn"} THEN 1 ELSE 0)
               = sem - (IF dpc \in {"recheck", "spawn"} THEN 1 ELSE 0),
             sem' <= opts.conc, sem' \in Nat
      PROVE  Counts'
  <2>1. SemInv'
    BY <1>0, <1>1, SetsFrame DEF SemInv
  <2>2. WgInv' /\ SumInv'
    BY <1>0, <1>1, SetsFrame DEF WgInv, SumInv, sums
  <2> QED
    BY <2>1, <2>2 DEF Counts
<1>2. CASE LoopHead \/ Return \/ CancelCtx \/ UNCHANGED vars
  BY <1>0, <1>1, <1>2 DEF LoopHead, Return, CancelCtx, vars, disp, SemInv
<1>3. CASE Acquire
  BY <1>0, <1>1, <1>3 DEF Acquire
<1>4. CASE Recheck
  <2>1. sem \in Nat \ {0}
    BY <1>0, <1>4, InFlight DEF Recheck
  <2> QED
    BY <1>0, <1>1, <1>4, <2>1 DEF Recheck, SemInv
<1>5. CASE Spawn
  <2>1. /\ next \in Items \ Live /\ next \in Items \ Active
        /\ Live' = Live \cup {next} /\ Active' = Active \cup {next}
        /\ \A o : Counted(o)' = Counted(o)
    <3>1. next \in Items /\ gpc[next] = "none"
      BY <1>5, BatchAssumption DEF Spawn, IInv, Control, TypeOK, DispInv, Items
    <3> QED
      BY <1>5, <3>1 DEF Spawn, IInv, Control, TypeOK, Live, Active, Counted
  <2>2. Live \in SUBSET Items /\ Active \in SUBSET Items
    BY DEF Live, Active
  <2>3. /\ Cardinality(Live') = Cardinality(Live) + 1
        /\ Cardinality(Active') = Cardinality(Active) + 1
    BY <2>1, <2>2, Counting
  <2>4. SemInv'
    BY <1>0, <1>5, <2>3 DEF Spawn, SemInv
  <2>5. WgInv' /\ SumInv'
    BY <1>0, <1>5, <2>1, <2>3 DEF Spawn, WgInv, SumInv, sums
  <2> QED
    BY <2>4, <2>5 DEF Counts
<1>6. ASSUME NEW i \in Items, Goroutine(i) PROVE Counts'
  <2>0. /\ gpc[i] \in GPC /\ dpc' = dpc /\ opts' = opts
        /\ sem' = IF gpc[i] = "release" THEN sem - 1 ELSE sem
        /\ wg' = IF gpc[i] = "exit" THEN wg - 1 ELSE wg
        /\ succeeded' = IF gpc[i] = "lock" /\ res[i] = "ok"
                        THEN succeeded + 1 ELSE succeeded
        /\ failedN' = IF gpc[i] = "lock" /\ res[i] = "error"
                      THEN failedN + 1 ELSE failedN
    BY <1>6 DEF Goroutine, Run, RaiseFlag, WriteSlot, Count, Emit, Release, Done,
                disp, sums, IInv, Control, TypeOK, ResInv, Outcomes, GPC
  <2>1. Live \in SUBSET Items /\ Active \in SUBSET Items
        /\ Counted("ok") \in SUBSET Items /\ Counted("error") \in SUBSET Items
    BY DEF Live, Active, Counted
  <2>2. Cardinality(Live') = IF gpc[i] = "release" THEN Cardinality(Live) - 1
                                                   ELSE Cardinality(Live)
    BY <1>6, <2>1, SetsGoroutine, Counting
  <2>3. Cardinality(Active') = IF gpc[i] = "exit" THEN Cardinality(Active) - 1
                                                  ELSE Cardinality(Active)
    BY <1>6, <2>1, SetsGoroutine, Counting
  <2>4. ASSUME NEW o \in Outcomes
        PROVE  Cardinality(Counted(o)') = IF gpc[i] = "lock" /\ res[i] = o
                                          THEN Cardinality(Counted(o)) + 1
                                          ELSE Cardinality(Counted(o))
    <3>1. Counted(o) \in SUBSET Items
      BY DEF Counted
    <3> QED
      BY <1>6, <3>1, SetsGoroutine, Counting
  <2>5. SemInv'
    BY <1>0, <2>0, <2>2 DEF SemInv
  <2>6. WgInv'
    BY <1>0, <2>0, <2>3 DEF WgInv
  <2>7. SumInv'
    BY <1>0, <2>0, <2>4 DEF SumInv, Outcomes
  <2> QED
    BY <2>5, <2>6, <2>7, SMTT(20) DEF Counts
<1> QED
  BY <1>2, <1>3, <1>4, <1>5, <1>6 DEF Next, Dispatcher

-----------------------------------------------------------------------------
(* While a goroutine is active the batch has not returned.                   *)
LEMMA ActiveHolds ==
  ASSUME IInv, NEW i \in Items, Goroutine(i)
  PROVE  dpc # "returned" /\ out = None
<1>1. wg \in Nat \ {0}
  BY SetsGoroutine, InFlight DEF IInv, Counts
<1> QED
  BY <1>1 DEF IInv, EndInv, Control, TypeOK

(* The returned summary is the final one. *)
LEMMA EndStep == IInv /\ [Next]_vars => EndInv'
<1> SUFFICES ASSUME IInv, [Next]_vars PROVE EndInv'
  OBVIOUS
<1> USE DEF EndInv
<1>1. CASE LoopHead \/ Acquire \/ Recheck \/ Spawn
  BY <1>1 DEF LoopHead, Acquire, Recheck, Spawn
<1>2. CASE Return
  BY <1>2 DEF Return, sums
<1>3. CASE CancelCtx \/ UNCHANGED vars
  BY <1>3 DEF CancelCtx, vars, disp, sums, IInv
<1>4. ASSUME NEW i \in Items, Goroutine(i) PROVE EndInv'
  BY <1>4, ActiveHolds, Zenon DEF Goroutine, Run, RaiseFlag, WriteSlot, Count, Emit,
                           Release, Done, disp
<1> QED
  BY <1>1, <1>2, <1>3, <1>4 DEF Next, Dispatcher

(* The sink: one entry for each goroutine past its critical section.         *)
LEMMA SinkStep == IInv /\ [Next]_vars => SinkInv'
<1> SUFFICES ASSUME IInv, [Next]_vars PROVE SinkInv'
  OBVIOUS
<1>0. /\ SinkInv /\ sent \in Seq(Items \X Outcomes)
      /\ gpc \in [Items -> GPC] /\ res \in [Items -> Outcomes \cup {None}]
  BY SMTT(20) DEF IInv, Control, TypeOK
<1>a. \A a \in 1 .. Len(sent) : sent[a][1] \in Items
  BY <1>0
<1> DEFINE Past(x) == x \in {"release", "exit", "done"}
<1>1. ASSUME UNCHANGED <<opts, sent>>, gpc' \in [Items -> GPC],
             \A j \in Items : Past(gpc'[j]) <=> Past(gpc[j]),
             \A j \in Items : Past(gpc[j]) => res'[j] = res[j]
      PROVE  SinkInv'
  BY <1>0, <1>a, <1>1, ZenonT(30) DEF SinkInv
<1>2. CASE LoopHead \/ Acquire \/ Recheck \/ Return \/ CancelCtx \/ UNCHANGED vars
  BY <1>0, <1>1, <1>2 DEF LoopHead, Acquire, Recheck, Return, CancelCtx, vars
<1>3. CASE Spawn
  <2>1. next \in Items /\ gpc[next] = "none"
    BY <1>3, BatchAssumption DEF Spawn, IInv, Control, TypeOK, DispInv, Items
  <2> QED
    BY <1>0, <1>1, <1>3, <2>1 DEF Spawn, GPC
<1>4. ASSUME NEW i \in Items, Goroutine(i), ~Emit(i) PROVE SinkInv'
  BY <1>0, <1>1, <1>4 DEF Goroutine, Run, RaiseFlag, WriteSlot, Count, Release,
                          Done, GPC
<1>5. ASSUME NEW i \in Items, Emit(i) PROVE SinkInv'
  <2>1. /\ gpc[i] = "emit" /\ res' = res /\ opts' = opts
        /\ gpc' = [gpc EXCEPT ![i] = "release"]
        /\ sent' = IF opts.stream THEN Append(sent, <<i, res[i]>>) ELSE sent
    BY <1>5 DEF Emit
  <2>2. \A a \in 1 .. Len(sent) : sent[a][1] # i
    BY <1>0, <2>1 DEF SinkInv
  <2>3. CASE ~opts.stream
    BY <1>0, <1>a, <2>1, <2>3 DEF SinkInv
  <2>4. CASE opts.stream
    <3>1. /\ Len(sent) \in Nat /\ Len(sent') = Len(sent) + 1
          /\ \A a \in 1 .. Len(sent) : sent'[a] = sent[a]
          /\ sent'[Len(sent) + 1] = <<i, res[i]>>
      BY <1>0, <2>1, <2>4
    <3>2. \A a \in 1 .. Len(sent') : a \in 1 .. Len(sent) \/ a = Len(sent) + 1
      BY <3>1
    <3>3. \A a \in 1 .. Len(sent') :
                 /\ gpc'[sent'[a][1]] \in {"release", "exit", "done"}
                 /\ sent'[a][2] = res[sent'[a][1]]
      BY <1>0, <1>a, <2>1, <3>1, <3>2 DEF SinkInv
    <3>4. \A a, b \in 1 .. Len(sent') : a # b => sent'[a][1] # sent'[b][1]
      BY <1>0, <2>2, <3>1, <3>2 DEF SinkInv
    <3>5. \A j \in Items : gpc'[j] \in {"release", "exit", "done"}
             => \E a \in 1 .. Len(sent') : sent'[a] = <<j, res[j]>>
      <4> SUFFICES ASSUME NEW j \in Items, gpc'[j] \in {"release", "exit", "done"}
                   PROVE  \E a \in 1 .. Len(sent') : sent'[a] = <<j, res[j]>>
        BY Zenon
      <4>1. CASE j = i
        BY <3>1, <4>1
      <4>2. CASE j # i
        <5>1. PICK a \in 1 .. Len(sent) : sent[a] = <<j, res[j]>>
          BY <1>0, <2>1, <2>4, <4>2, Zenon DEF SinkInv
        <5> QED
          BY <3>1, <5>1
      <4> QED
        BY <4>1, <4>2
    <3> QED
      BY <2>1, <3>3, <3>4, <3>5, Zenon DEF SinkInv
  <2> QED
    BY <2>3, <2>4
<1> QED
  BY <1>2, <1>3, <1>4, <1>5 DEF Next, Dispatcher

(* The invariant of the batch runner: semaphore, wait group, counters, slots *)
(* and sink each agree with where the goroutines of runBatch are.            *)
THEOREM BatchInvariance == Spec => []IInv
<1>1. IInv /\ [Next]_vars => IInv'
  BY ControlStep, CountsStep, EndStep, SinkStep DEF IInv
<1> QED
  BY <1>1, InitIInv, PTL DEF Spec

(* The type invariant of runBatch holds in every reachable state.            *)
THEOREM BatchTypeCorrect == Spec => []TypeOK
<1>1. IInv => TypeOK
  BY DEF IInv, Control
<1> QED
  BY <1>1, BatchInvariance, PTL

(* runBatch never runs more items at once than the effective concurrency and *)
(* gives back every token.                                                   *)
THEOREM ConcurrencyBounded == Spec => []Bounded
<1>1. IInv => Bounded
  <2> SUFFICES ASSUME IInv PROVE Bounded
    OBVIOUS
  <2>1. /\ Cardinality(Live) \in Nat /\ sem \in Nat /\ opts.conc \in Nat
        /\ SemInv /\ WgInv
    BY InFlight DEF IInv, Control, TypeOK, Counts
  <2>2. Cardinality(Live) <= opts.conc
    BY <2>1 DEF SemInv
  <2>3. ASSUME dpc = "returned" PROVE sem = 0
    <3>1. wg = 0 /\ Active \in SUBSET Items
      BY <2>3 DEF IInv, EndInv, Active
    <3>2. Live \subseteq Active
      BY DEF Live, Active
    <3>3. Live = {}
      BY <2>1, <3>1, <3>2, Counting, Zenon DEF WgInv
    <3> QED
      BY <2>1, <2>3, <3>3, FS_EmptySet DEF SemInv
  <2> QED
    BY <2>2, <2>3 DEF Bounded
<1> QED
  BY <1>1, BatchInvariance, PTL

(* At most one item starts after a failure under fail-fast, or after a       *)
(* cancellation of the batch's context.                                      *)
THEOREM OneLateAtMost == Spec => []AtMostOneLate
<1>1. IInv => AtMostOneLate
  BY DEF IInv, Control, LateInv, AtMostOneLate
<1> QED
  BY <1>1, BatchInvariance, PTL

(* The sink sees exactly the results of the items that ran, each once.       *)
THEOREM SinkFaithful == Spec => []SinkAgrees
<1>1. IInv => SinkAgrees
  <2> SUFFICES ASSUME IInv PROVE SinkAgrees
    OBVIOUS
  <2>0. /\ SinkInv /\ ResInv /\ sent \in Seq(Items \X Outcomes)
        /\ gpc \in [Items -> GPC]
    BY DEF IInv, Control, TypeOK
  <2>1. \A a \in 1 .. Len(sent) : results[sent[a][1]] = sent[a][2]
    BY <2>0 DEF SinkInv, ResInv
  <2>2. ASSUME opts.stream, dpc = "returned", NEW i \in Items,
               out.results[i] # "skipped"
        PROVE  \E a \in 1 .. Len(sent) : sent[a] = <<i, results[i]>>
    <3>1. wg = 0 /\ out.results = results /\ WgInv
      BY <2>2 DEF IInv, EndInv, Counts
    <3>2. Active \in SUBSET Items
      BY DEF Active
    <3>3. Active = {}
      BY <3>1, <3>2, Counting DEF WgInv
    <3>4. gpc[i] = "done" /\ results[i] = res[i]
      BY <2>0, <2>2, <3>1, <3>3 DEF Active, ResInv, GPC
    <3> QED
      BY <2>0, <2>2, <3>4 DEF SinkInv
  <2> QED
    BY <2>0, <2>1, <2>2, Zenon DEF SinkInv, SinkAgrees
<1> QED
  BY <1>1, BatchInvariance, PTL

-----------------------------------------------------------------------------
(* The contract counts with the same Cardinality. *)
LEMMA SameCount == \A S : Contract!Cardinality(S) = Cardinality(S)
  BY Zenon DEF Cardinality, Contract!Cardinality, IsFiniteSet, Contract!IsFiniteSet

(* When the wait group is empty every started item is done: the slots alone  *)
(* tell which items ran, and the counters count them.                        *)
LEMMA AllSettled ==
  ASSUME IInv, wg = 0
  PROVE  /\ Contract!With(results, "skipped") = next .. N - 1
         /\ succeeded = Cardinality(Contract!With(results, "ok"))
         /\ failedN = Cardinality(Contract!With(results, "error"))
         /\ failed => Contract!With(results, "error") # {}
<1>1. Active = {}
  <2>1. Active \in SUBSET Items
    BY DEF Active
  <2> QED
    BY <2>1, Counting, Zenon DEF IInv, Counts, WgInv
<1>2. /\ gpc \in [Items -> GPC] /\ ResInv /\ DispInv /\ next \in 0 .. N
      /\ SumInv /\ FlagInv
  BY DEF IInv, Control, Counts, TypeOK
<1>3. \A i \in Items :
        /\ next <= i => gpc[i] = "none" /\ results[i] = "skipped"
        /\ ~(next <= i) => gpc[i] = "done" /\ results[i] = res[i]
                           /\ res[i] \in Outcomes
  BY <1>1, <1>2 DEF ResInv, DispInv, Active, GPC
<1>4. Contract!With(results, "skipped") = next .. N - 1
  <2>1. \A i \in Items : results[i] = "skipped" <=> next <= i
    BY <1>3 DEF Outcomes
  <2>2. \A i : i \in next .. N - 1 <=> i \in Items /\ next <= i
    BY <1>2, BatchAssumption DEF Items
  <2> QED
    BY <2>1, <2>2 DEF Contract!With, Contract!Items, Items
<1>5. ASSUME NEW o \in Outcomes PROVE Contract!With(results, o) = Counted(o)
  BY <1>3 DEF Outcomes, Contract!With, Contract!Items, Items, Counted
<1>6. failed => Contract!With(results, "error") # {}
  BY <1>2, <1>3, <1>5 DEF FlagInv, Outcomes, Counted
<1> QED
  BY <1>2, <1>4, <1>5, <1>6 DEF SumInv, Outcomes

(* runBatch implements BatchContract: Spawn starts an item, WriteSlot gives  *)
(* it its outcome, Return returns a summary that counts the slots; every     *)
(* other step of the dispatcher and the goroutines is invisible.             *)
THEOREM Implements == Spec => ImplementsContract
<1>1. Init => Contract!Init
  <2> SUFFICES ASSUME Init PROVE Contract!Init
    OBVIOUS
  <2>1. opts.failFast \in BOOLEAN
    BY DEF Init
  <2> QED
    BY <2>1 DEF Init, Contract!Init, Contract!Items, Items
<1>2. IInv /\ [Next]_vars => [Contract!Next]_(Contract!vars)
  <2> SUFFICES ASSUME IInv, [Next]_vars
               PROVE  Contract!Next \/ UNCHANGED Contract!vars
    OBVIOUS
  <2> USE DEF disp, sums
  <2>1. CASE LoopHead \/ Acquire \/ Recheck \/ UNCHANGED vars
    BY <2>1 DEF LoopHead, Acquire, Recheck, vars, Contract!vars
  <2>2. CASE Spawn
    <3>1. out = None /\ next < N
      BY <2>2 DEF Spawn, IInv, Control, TypeOK, DispInv
    <3>2. Contract!StartItem
      BY <2>2, <3>1 DEF Spawn, Contract!StartItem
    <3> QED
      BY <3>2 DEF Contract!Next
  <2>3. CASE Return
    <3>1. wg = 0 /\ out = None /\ DispInv
      BY <2>3 DEF Return, IInv, Control, TypeOK
    <3>2. Contract!MayStop
      BY <2>3, <3>1, AllSettled, SMTT(20) DEF Return, DispInv, Contract!MayStop
    <3>3. Contract!ReturnBatch
      <4>1. out' = [total |-> N, succeeded |-> succeeded, failed |-> failedN,
                    results |-> results]
        BY <2>3 DEF Return
      <4>2. UNCHANGED <<opts.failFast, ctxDone, next, results>>
        BY <2>3 DEF Return
      <4> HIDE DEF disp, sums
      <4> QED
        BY <3>1, <3>2, <4>1, <4>2, AllSettled, SameCount DEF Contract!ReturnBatch
    <3> QED
      BY <3>3, SMTT(20) DEF Contract!Next
  <2>4. CASE CancelCtx
    <3>1. Contract!CancelBatch
      BY <2>4 DEF CancelCtx, Contract!CancelBatch
    <3> QED
      BY <3>1 DEF Contract!Next
  <2>5. ASSUME NEW i \in Items, Goroutine(i)
        PROVE  Contract!Next \/ UNCHANGED Contract!vars
    <3>1. CASE WriteSlot(i)
      <4>1. out = None
        BY <2>5, ActiveHolds, SMTT(20)
      <4>2. i < next /\ results[i] = "skipped" /\ res[i] \in {"ok", "error"}
        BY <3>1, BatchAssumption
        DEF WriteSlot, IInv, Control, TypeOK, DispInv, ResInv, Items, Outcomes
      <4>3. Contract!FinishItem(i)
        BY <3>1, <4>1, <4>2, Zenon DEF WriteSlot, Contract!FinishItem
      <4> QED
        BY <2>5, <4>3 DEF Contract!Next, Contract!Items, Items
    <3>2. CASE ~WriteSlot(i)
      BY <2>5, <3>2 DEF Goroutine, Run, RaiseFlag, Count, Emit, Release, Done,
                        Contract!vars
    <3> QED
      BY <3>1, <3>2
  <2> QED
    BY <2>1, <2>2, <2>3, <2>4, <2>5 DEF Next, Dispatcher
<1> QED
  BY <1>1, <1>2, BatchInvariance, PTL DEF Spec, ImplementsContract, Contract!Spec
=============================================================================
