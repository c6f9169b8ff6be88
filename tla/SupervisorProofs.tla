-------------------------- MODULE SupervisorProofs --------------------------
(***************************************************************************)
(* The theorems about the supervisor: SupervisorInv's invariant holds in   *)
(* every reachable state, and the properties follow from it.               *)
(***************************************************************************)
EXTENDS SupervisorInv, FiniteSetTheorems, SequenceTheorems

LEMMA InitSlots ==
  ASSUME NEW order \in Bijection(1 .. Cardinality(Slots), Slots)
  PROVE  LET q == Tail(order) \o <<Head(order)>>
         IN  q \in Seq(Slots) /\ Distinct(q) /\ Range(q) = Slots /\ Head(order) \in Slots
<1> DEFINE N == Cardinality(Slots)
           q == Tail(order) \o <<Head(order)>>
<1>1. N \in Nat \ {0}
  BY SupervisorAssumption, FS_CardinalityType, FS_EmptySet
<1>2. /\ order \in [1 .. N -> Slots]
      /\ \A i, j \in 1 .. N : i # j => order[i] # order[j]
  BY DEF Bijection, Injection, IsInjective
<1>3. order \in Seq(Slots) /\ Len(order) = N
  BY <1>1, <1>2
<1>4. order # << >>
  BY <1>1, <1>3
<1>5. Distinct(order)
  BY <1>1, <1>2 DEF Distinct
<1>6. /\ Tail(order) \in Seq(Slots) /\ Len(Tail(order)) = N - 1
      /\ Distinct(Tail(order)) /\ Head(order) \in Slots
      /\ Head(order) \notin Range(Tail(order))
  BY <1>3, <1>4, <1>5, TakeHead, SMTT(20)
<1>7. PICK t \in Seq(Slots), h \in Slots :
        /\ t = Tail(order) /\ h = Head(order)
        /\ Len(t) = N - 1 /\ Distinct(t) /\ h \notin Range(t)
  BY <1>6, Zenon
<1>8. q \in Seq(Slots) /\ Len(q) = N /\ Distinct(q)
  <2>1. t \o <<h>> = Append(t, h)
    BY AppendIsConcat
  <2>2. Append(t, h) \in Seq(Slots) /\ Len(Append(t, h)) = Len(t) + 1 /\ Distinct(Append(t, h))
    BY <1>7, PutLast, Zenon
  <2>3. Len(t) + 1 = N
    BY <1>1, <1>7
  <2>4. q = Append(t, h)
    BY <2>1, <1>7, Zenon
  <2>5. QED BY <2>2, <2>3, <2>4, Zenon
<1>9. DOMAIN q = 1 .. N /\ q \in [1 .. N -> Slots]
  BY <1>8, LenProperties, Zenon
<1>10. q \in Injection(1 .. N, Slots)
  BY <1>8, <1>9, Zenon DEF Injection, IsInjective, Distinct
<1>11. Cardinality(1 .. N) = N
  BY <1>1, FS_Interval
<1>12. q \in Surjection(1 .. N, Slots)
  BY <1>10, <1>11, FS_Injection, SupervisorAssumption, SMTT(20)
<1>13. Range(q) = Slots
  BY <1>9, <1>12, Zenon DEF Surjection, Range
<1>14. QED BY <1>6, <1>8, <1>13

LEMMA SInit == Init => SInv
<1> SUFFICES ASSUME Init PROVE SInv
  OBVIOUS
<1> DEFINE k == CHOOSE x \in Children : TRUE
<1>1. PICK order \in Bijection(1 .. Cardinality(Slots), Slots) :
        /\ free = Tail(order) \o <<Head(order)>>
        /\ proc = [s \in Slots |-> IF s = Head(order) /\ MaxOps > 1 THEN k ELSE None]
        /\ ops = [s \in Slots |-> IF s = Head(order) /\ MaxOps > 1 THEN 1 ELSE 0]
        /\ child = [x \in Children |-> IF x = k /\ MaxOps > 1 THEN Fresh ELSE NoChild]
  BY Zenon DEF Init
<1>2. /\ standby = << >> /\ warmRequest = (Standby > 0)
      /\ stop = FALSE /\ closed = FALSE /\ kpc = "open" /\ drained = 0
      /\ wpc = (IF Standby > 0 THEN "select" ELSE "exited") /\ wchild = None
      /\ pc = [c \in Callers |-> "idle"]
      /\ slot = [c \in Callers |-> None]
      /\ attempt = [c \in Callers |-> 0]
      /\ retryable = [c \in Callers |-> FALSE]
      /\ ctx = [c \in Callers |-> "live"]
      /\ answer = [c \in Callers |-> None]
  BY DEF Init
<1>3. k \in Children /\ None \notin Children
  <2>1. Cardinality(Slots) \in Nat /\ Cardinality(Children) \in Nat
    BY SupervisorAssumption, FS_CardinalityType
  <2>2. Children # {}
    BY <2>1, SupervisorAssumption, FS_EmptySet, SMTT(20)
  <2>3. QED BY <2>2, SupervisorAssumption
<1>4. free \in Seq(Slots) /\ Distinct(free) /\ Range(free) = Slots /\ Head(order) \in Slots
  BY <1>1, InitSlots, SMTT(20)
<1>5. Fresh \in ChildType /\ NoChild \in ChildType
  BY DEF Fresh, NoChild, ChildType
<1>6. standby \in Seq(Children) /\ Len(standby) = 0 /\ Range(standby) = {} /\ Distinct(standby)
  BY <1>2, EmptySeq DEF Range, Distinct
<1>7. Types
  <2>1. Cardinality(Slots) \in Nat /\ MaxOps \in Nat \ {0} /\ Standby \in Nat
    BY SupervisorAssumption, FS_CardinalityType
  <2>2. ops \in [Slots -> 0 .. MaxOps - 1]
    BY <1>1, <2>1
  <2>3. proc \in [Slots -> Children \cup {None}] /\ child \in [Children -> ChildType]
    BY <1>1, <1>3, <1>5
  <2>4. warmRequest \in BOOLEAN
    <3>1. (Standby > 0) \in BOOLEAN
      BY <2>1
    <3>2. QED BY <1>2, <3>1, Zenon
  <2>5. /\ Len(standby) <= Standby /\ drained \in 0 .. Cardinality(Slots)
    BY <1>2, <1>6, <2>1
  <2>6. /\ wpc \in {"select", "fill", "put", "sleep", "exited"}
        /\ wchild \in Children \cup {None} /\ stop \in BOOLEAN /\ closed \in BOOLEAN
        /\ kpc \in {"open", "closed", "stopped", "drain", "done"}
        /\ pc \in [Callers -> PC] /\ slot \in [Callers -> Slots \cup {None}]
        /\ attempt \in [Callers -> {0, 1}] /\ retryable \in [Callers -> BOOLEAN]
        /\ ctx \in [Callers -> {"live", "done"}]
        /\ answer \in [Callers -> Callers \cup {None}]
    BY <1>2, Zenon DEF PC
  <2>7. QED BY <1>4, <1>6, <2>1, <2>2, <2>3, <2>4, <2>5, <2>6 DEF Types
<1>8. SlotInv
  <2>1. {s \in Slots : s \notin Range(free) /\ \A c \in Callers : slot[c] # s} = {}
    BY <1>4
  <2>2. drained = Cardinality({s \in Slots : /\ s \notin Range(free)
                                             /\ \A c \in Callers : slot[c] # s})
    BY <1>2, <2>1, FS_EmptySet, Zenon
  <2>3. QED BY <1>2, <1>4, <2>2 DEF SlotInv, SlotsConserved, Distinct, Held
<1>9. CallInv
  BY <1>2, <1>4 DEF CallInv, Taken
<1>10. PlaceInv
  BY <1>1, <1>2, <1>3, <1>4, <1>6, SMTT(20) DEF PlaceInv, Fresh, NoChild
<1>11. PipeInv
  BY <1>1, <1>2 DEF PipeInv, Pipes, WaitsOn, Fresh, NoChild
<1>12. CloseInv /\ AnswerInv
  BY <1>2 DEF CloseInv, AnswerInv
<1>13. QED BY <1>7, <1>8, <1>9, <1>10, <1>11, <1>12, SMTT(20) DEF SInv

-----------------------------------------------------------------------------
LEMMA SlotNext == ASSUME SInv, Next PROVE SlotInv'
<1> USE DEF Held
<1>0. /\ free \in Seq(Slots) /\ Distinct(free) /\ slot \in [Callers -> Slots \cup {None}]
      /\ pc \in [Callers -> PC] /\ drained \in Nat /\ None \notin Slots
  BY SupervisorAssumption DEF SInv, Types, SlotInv, SlotsConserved, Distinct
<1> DEFINE Out == {s \in Slots : s \notin Range(free) /\ \A c \in Callers : slot[c] # s}
<1>1. CASE Kept
  BY <1>1 DEF SInv, SlotInv, SlotsConserved, Kept
<1>2. ASSUME NEW c \in Callers, Acquire(c) PROVE SlotInv'
  <2>1. PICK h \in Slots, t \in Seq(Slots) :
          /\ h = Head(free) /\ t = Tail(free) /\ h \in Range(free)
          /\ Distinct(t) /\ Range(t) = Range(free) \ {h}
    BY <1>0, <1>2, TakeHead, Zenon DEF Acquire
  <2>2. /\ free' = t /\ slot' = [slot EXCEPT ![c] = h] /\ drained' = drained /\ pc[c] = "acquire"
        /\ (pc' = [pc EXCEPT ![c] = "have"] \/ pc' = [pc EXCEPT ![c] = "send"])
    BY <1>2, <2>1, Zenon DEF Acquire, ends
  <2>3. slot[c] = None
    BY <2>2 DEF SInv, SlotInv
  <2>4. Out' = Out
    BY <1>0, <2>1, <2>2, <2>3, SMTT(20)
  <2>5. \A b \in Callers : slot'[b] # None =>
          slot'[b] \notin Range(free') /\ \A d \in Callers \ {b} : slot'[d] # slot'[b]
    BY <1>0, <2>1, <2>2, SMTT(20) DEF SInv, SlotInv, SlotsConserved
  <2>6. \A b \in Callers : slot'[b] # None <=> pc'[b] \in Held
    BY <1>0, <2>2 DEF SInv, SlotInv
  <2>7. drained' = Cardinality(Out')
    BY <2>2, <2>4, Zenon DEF SInv, SlotInv, SlotsConserved
  <2>8. \A i, j \in DOMAIN free' : i # j => free'[i] # free'[j]
    BY <2>1, <2>2, SMTT(20) DEF Distinct
  <2>9. QED BY <2>5, <2>6, <2>7, <2>8, SMTT(20) DEF SlotInv, SlotsConserved
<1>3. ASSUME NEW c \in Callers, ReturnSlot(c) PROVE SlotInv'
  <2>1. PICK s \in Slots :
          /\ s = slot[c] /\ s \notin Range(free) /\ \A d \in Callers \ {c} : slot[d] # s
    BY <1>3, CallHas DEF ReturnSlot
  <2>2. PICK q \in Seq(Slots) :
          q = Append(free, s) /\ Distinct(q) /\ Range(q) = Range(free) \cup {s}
    <3>1. /\ Append(free, s) \in Seq(Slots) /\ Distinct(Append(free, s))
          /\ Range(Append(free, s)) = Range(free) \cup {s}
      BY <1>0, <2>1, PutLast, SMTT(20)
    <3>2. QED BY <3>1, Zenon
  <2>3. /\ free' = q /\ slot' = [slot EXCEPT ![c] = None] /\ drained' = drained
        /\ (pc' = [pc EXCEPT ![c] = "check"] \/ pc' = [pc EXCEPT ![c] = "idle"])
    BY <1>3, <2>1, <2>2, SMTT(20) DEF ReturnSlot, Over, ends
  <2>4. Out' = Out
    BY <1>0, <2>1, <2>2, <2>3, SMTT(20)
  <2>5. \A b \in Callers : slot'[b] # None =>
          slot'[b] \notin Range(free') /\ \A d \in Callers \ {b} : slot'[d] # slot'[b]
    BY <1>0, <2>1, <2>2, <2>3, SMTT(20) DEF SInv, SlotInv, SlotsConserved
  <2>6. \A b \in Callers : slot'[b] # None <=> pc'[b] \in Held
    BY <1>0, <2>3 DEF SInv, SlotInv
  <2>7. drained' = Cardinality(Out')
    BY <2>3, <2>4, Zenon DEF SInv, SlotInv, SlotsConserved
  <2>8. \A i, j \in DOMAIN free' : i # j => free'[i] # free'[j]
    BY <2>2, <2>3, SMTT(20) DEF Distinct
  <2>9. QED BY <2>5, <2>6, <2>7, <2>8 DEF SlotInv, SlotsConserved
<1>4. ASSUME CloseSlot PROVE SlotInv'
  <2>1. PICK h \in Slots, t \in Seq(Slots) :
          /\ h = Head(free) /\ t = Tail(free) /\ h \in Range(free)
          /\ Distinct(t) /\ Range(t) = Range(free) \ {h}
    BY <1>0, <1>4, TakeHead, Zenon DEF CloseSlot
  <2>2. free' = t /\ slot' = slot /\ drained' = drained + 1 /\ pc' = pc
    BY <1>4, <2>1, SMTT(20) DEF CloseSlot, calls
  <2>3. \A c \in Callers : slot[c] # h
    BY <1>0, <2>1 DEF SInv, SlotInv, SlotsConserved
  <2>4. Out' = Out \cup {h} /\ h \notin Out
    BY <1>0, <2>1, <2>2, <2>3, SMTT(20)
  <2>5. IsFiniteSet(Out)
    BY SupervisorAssumption, FS_Subset
  <2>6. Cardinality(Out') = Cardinality(Out) + 1
    BY <2>4, <2>5, FS_AddElement, Zenon
  <2>7. drained = Cardinality(Out)
    BY DEF SInv, SlotInv, SlotsConserved
  <2>8. drained' = Cardinality(Out')
    BY <2>2, <2>6, <2>7, SMTT(20)
  <2>9. \A b \in Callers : slot'[b] # None =>
          slot'[b] \notin Range(free') /\ \A d \in Callers \ {b} : slot'[d] # slot'[b]
    BY <1>0, <2>1, <2>2, SMTT(20) DEF SInv, SlotInv, SlotsConserved
  <2>10. QED BY <2>1, <2>2, <2>8, <2>9, SMTT(20) DEF SInv, SlotInv, SlotsConserved, Distinct
<1>5. QED BY <1>1, <1>2, <1>3, <1>4, SlotsMove, SMTT(20)

-----------------------------------------------------------------------------
LEMMA SNext == SInv /\ [Next]_vars => SInv'
<1> SUFFICES ASSUME SInv, [Next]_vars PROVE SInv'
  OBVIOUS
<1>1. CASE Next
  <2>1. UseInv'
    BY <1>1, UseNext
  <2>2. QED
    BY <1>1, <2>1, TypesNext, SlotNext, AnswerNext, CloseNext, SMTT(20) DEF SInv, UseInv
<1>2. CASE UNCHANGED vars
  <2> USE <1>2 DEF vars, pool, spare, ends, warm, calls
  <2>1. Types' /\ AnswerInv' /\ CloseInv'
    BY DEF SInv, Types, AnswerInv, CloseInv
  <2>2. SlotInv'
    BY Zenon DEF SInv, SlotInv, SlotsConserved
  <2>3. Still
    BY DEF Still
  <2>4. UseInv'
    BY <2>3, StillUse
  <2>5. QED BY <2>1, <2>2, <2>4, SMTT(20) DEF SInv, UseInv
<1>3. QED BY <1>1, <1>2

-----------------------------------------------------------------------------
\* The inductive invariant holds in every reachable state of the supervisor.
THEOREM ExclusiveUse == Spec => []SInv
<1>1. QED BY SInit, SNext, PTL DEF Spec

\* Start, callOnce and Close: a slot is in the channel once, with one call, or
\* taken by Close, on every error path and whatever interleaves.
THEOREM SlotsAreConserved == Spec => []SlotsConserved
<1>1. SInv => SlotsConserved
  BY DEF SInv, SlotInv
<1>2. QED BY <1>1, ExclusiveUse, PTL

\* callOnce and finish: a call never gets the answer to another call's request,
\* and a child that serves no call is clean.
THEOREM AnswersAreOwn == Spec => []AnswerIsOwn
<1>1. ASSUME SInv PROVE AnswerIsOwn
  <2>1. ASSUME NEW k \in Children, \A s \in InUse \cap Slots : proc[s] # k
        PROVE  /\ child[k].in = None /\ child[k].out = None
               /\ ~KeepAfterRevoked => ~child[k].tainted
    <3>1. \A c \in Callers : ~WaitsOn(c, k)
      <4>1. ASSUME NEW c \in Callers, pc[c] = "wait" PROVE proc[slot[c]] # k
        BY <1>1, <2>1, <4>1, CallHas, SMTT(20) DEF Held, InUse
      <4>2. QED BY <4>1 DEF WaitsOn
    <3>2. Pipes(k)
      BY <1>1 DEF SInv, PipeInv
    <3>3. QED BY <3>1, <3>2 DEF Pipes
  <2>2. IdleChildClean
    BY <2>1 DEF IdleChildClean
  <2>3. QED BY <1>1, <2>2, SMTT(20) DEF SInv, AnswerInv, AnswerIsOwn
<1>2. QED BY <1>1, ExclusiveUse, PTL

-----------------------------------------------------------------------------
LEMMA FreeFits == ASSUME SInv PROVE Len(free) <= Cardinality(Slots)
<1>1. /\ free \in Seq(Slots) /\ IsFiniteSet(Slots) /\ Cardinality(Slots) \in Nat
  BY SupervisorAssumption, FS_CardinalityType, Zenon DEF SInv, Types
<1>2. /\ Len(free) \in Nat /\ free \in [1 .. Len(free) -> Slots] /\ DOMAIN free = 1 .. Len(free)
  BY <1>1, LenProperties
<1>3. IsFiniteSet(1 .. Len(free)) /\ Cardinality(1 .. Len(free)) = Len(free)
  BY <1>2, FS_Interval, SMTT(20)
<1>4. \A i, j \in 1 .. Len(free) : i # j => free[i] # free[j]
  BY <1>2, Zenon DEF SInv, SlotInv, SlotsConserved
<1>5. ~(Cardinality(Slots) < Cardinality(1 .. Len(free)))
  BY <1>1, <1>2, <1>3, <1>4, FS_PigeonHole
<1>6. QED BY <1>1, <1>2, <1>3, <1>5, SMTT(20)

\* A child's places are none or one.
LEMMA OneOwner ==
  ASSUME SInv, NEW k \in Children
  PROVE  Cardinality(Owners(k)) = IF child[k].st = "none" THEN 0 ELSE 1
<1> DEFINE A == {x \in Slots : proc[x] = k}
           B == {x \in DOMAIN standby : standby[x] = k}
           C == {wchild} \cap {k}
<1>0. Owners(k) = {<<"slot", s>> : s \in A} \cup {<<"standby", i>> : i \in B}
                    \cup {<<"warmer", w>> : w \in C}
  BY DEF Owners
<1>1. B # {} <=> k \in Range(standby)
  BY DEF Range
<1>2. CASE child[k].st = "none"
  <2>1. A = {} /\ B = {} /\ C = {}
    BY <1>1, <1>2 DEF SInv, PlaceInv
  <2>2. Owners(k) = {}
    BY <1>0, <2>1
  <2>3. QED BY <1>2, <2>2, FS_EmptySet, SMTT(20)
<1>3. CASE child[k].st # "none"
  <2>0. SUFFICES \E o : Owners(k) = {o}
    BY <1>3, FS_Singleton, Zenon
  <2>1. ASSUME NEW s \in Slots, proc[s] = k PROVE \E o : Owners(k) = {o}
    <3>1. A = {s}
      BY <2>1, SupervisorAssumption, SMTT(20) DEF SInv, PlaceInv
    <3>2. B = {} /\ C = {}
      BY <1>1, <2>1, SupervisorAssumption, SMTT(20) DEF SInv, PlaceInv
    <3>3. Owners(k) = {<<"slot", s>>}
      BY <1>0, <3>1, <3>2
    <3>4. QED BY <3>3, Zenon
  <2>2. ASSUME NEW i \in DOMAIN standby, standby[i] = k PROVE \E o : Owners(k) = {o}
    <3>0. k \in Range(standby)
      BY <2>2 DEF Range
    <3>1. B = {i}
      BY <2>2 DEF SInv, PlaceInv, Distinct
    <3>2. A = {} /\ C = {}
      BY <3>0, SupervisorAssumption DEF SInv, PlaceInv
    <3>3. Owners(k) = {<<"standby", i>>}
      BY <1>0, <3>1, <3>2
    <3>4. QED BY <3>3, Zenon
  <2>3. ASSUME wchild = k PROVE \E o : Owners(k) = {o}
    <3>1. A = {} /\ B = {} /\ C = {k}
      BY <1>1, <2>3, SupervisorAssumption, SMTT(20) DEF SInv, PlaceInv
    <3>2. Owners(k) = {<<"warmer", k>>}
      BY <1>0, <3>1
    <3>3. QED BY <3>2, Zenon
  <2>4. (\E s \in Slots : proc[s] = k) \/ k \in Range(standby) \/ wchild = k
    BY <1>3, Zenon DEF SInv, PlaceInv
  <2>5. QED BY <2>1, <2>2, <2>3, <2>4, Zenon DEF Range
<1>4. QED BY <1>2, <1>3

\* After Close every slot is taken, no spare is left and the warmer has gone.
LEMMA AllReaped == ASSUME SInv PROVE ClosedLeavesNoChild
<1> DEFINE T == {s \in Slots : s \notin Range(free) /\ \A c \in Callers : slot[c] # s}
<1>1. SUFFICES ASSUME kpc = "done", NEW k \in Children PROVE child[k] = NoChild
  BY DEF ClosedLeavesNoChild
<1>2. Cardinality(T) = Cardinality(Slots) /\ standby = << >> /\ wpc = "exited"
  BY <1>1 DEF SInv, SlotInv, SlotsConserved, CloseInv
<1>3. T = Slots
  BY <1>2, FS_Subset, SupervisorAssumption, SMTT(20)
<1>4. \A s \in Slots : proc[s] = None
  BY <1>3 DEF SInv, CallInv, Taken
<1>5. Range(standby) = {} /\ wchild = None
  BY <1>2 DEF SInv, PlaceInv, Range
<1>6. child[k].st = "none"
  BY <1>4, <1>5, SupervisorAssumption, SMTT(20) DEF SInv, PlaceInv
<1>7. QED BY <1>6 DEF SInv, PipeInv, Pipes

\* Start, warmLoop, retire and Close: a process is started into one place, never
\* leaks from it and is gone when Close has returned.
THEOREM ChildrenAreAccounted == Spec => []ChildrenAccounted
<1>1. ASSUME SInv PROVE ChildrenAccounted
  <2>1. TypeOK
    BY <1>1, FreeFits DEF SInv, Types, TypeOK
  <2>2. ChildrenOwned
    BY <1>1, OneOwner, Zenon DEF ChildrenOwned
  <2>3. QED BY <1>1, <2>1, <2>2, AllReaped, SMTT(20) DEF ChildrenAccounted
<1>2. QED BY <1>1, ExclusiveUse, PTL

=============================================================================
