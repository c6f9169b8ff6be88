---------------------------- MODULE SupervisorInv ----------------------------
(***************************************************************************)
(* For any number of callers, slots, spares and processes, with and        *)
(* without Close: slots are conserved, every process has one place and is  *)
(* reaped by Close, and a call gets the answer to its own request.         *)
(*                                                                         *)
(* The argument is exclusive use.  A slot is in the channel, with one      *)
(* call, or taken by Close; a child is in one slot, one standby place or   *)
(* with the warmer.  So the pipes of a child can only hold the request or  *)
(* the answer of the one call that waits on it, and a child that call is   *)
(* done with is either gone or clean.                                      *)
(***************************************************************************)
EXTENDS Supervisor, TLAPS

Held == {"have", "send", "wait", "return"}

\* TypeOK without the bound on the channel of slots, which follows from the rest.
Types ==
  /\ Cardinality(Slots) \in Nat /\ free \in Seq(Slots)
  /\ proc \in [Slots -> Children \cup {None}]
  /\ ops \in [Slots -> 0 .. MaxOps - 1]
  /\ child \in [Children -> ChildType]
  /\ standby \in Seq(Children) /\ Len(standby) <= Standby
  /\ warmRequest \in BOOLEAN /\ stop \in BOOLEAN /\ closed \in BOOLEAN
  /\ wpc \in {"select", "fill", "put", "sleep", "exited"}
  /\ wchild \in Children \cup {None} /\ drained \in 0 .. Cardinality(Slots)
  /\ kpc \in {"open", "closed", "stopped", "drain", "done"}
  /\ pc \in [Callers -> PC] /\ slot \in [Callers -> Slots \cup {None}]
  /\ attempt \in [Callers -> {0, 1}] /\ retryable \in [Callers -> BOOLEAN]
  /\ ctx \in [Callers -> {"live", "done"}]
  /\ answer \in [Callers -> Callers \cup {None}]

\* A call has a slot while it is inside callOnce.
SlotInv == /\ SlotsConserved
           /\ \A c \in Callers : slot[c] # None <=> pc[c] \in Held

Taken(s) == s \notin Range(free) /\ \A c \in Callers : slot[c] # s

\* Whether the slot of a call has a child; a slot that Close took has none.
CallInv ==
  /\ \A c \in Callers : /\ pc[c] = "have" => proc[slot[c]] = None
                        /\ pc[c] \in {"send", "wait"} => proc[slot[c]] # None
  /\ \A s \in Slots : Taken(s) => proc[s] = None

Distinct(q) == \A i, j \in DOMAIN q : i # j => q[i] # q[j]

\* The places of a child exclude one another, and a started child has one.
PlaceInv ==
  /\ \A s, t \in Slots : proc[s] # None /\ proc[s] = proc[t] => s = t
  /\ Distinct(standby)
  /\ \A s \in Slots : proc[s] \notin Range(standby)
  /\ wchild # None => wchild \notin Range(standby) /\ \A s \in Slots : proc[s] # wchild
  /\ wchild # None <=> wpc = "put"
  /\ \A k \in Children :
       child[k].st # "none" <=>
         (\E s \in Slots : proc[s] = k) \/ k \in Range(standby) \/ wchild = k

WaitsOn(c, k) == pc[c] = "wait" /\ proc[slot[c]] = k

\* What is in the pipes of a child belongs to the call that waits on it, and a
\* library that has seen a revoked certificate is known by its unread answer.
Pipes(k) ==
  /\ child[k].st = "none" => child[k] = NoChild
  /\ child[k].in # None \/ child[k].out # None => \E c \in Callers : WaitsOn(c, k)
  /\ \A c \in Callers : WaitsOn(c, k) =>
       child[k].in \in {None, c} /\ (child[k].out # None => child[k].out.to = c)
  /\ child[k].out # None => child[k].in = None
  /\ ~KeepAfterRevoked /\ child[k].tainted => child[k].out # None /\ child[k].out.revoked

PipeInv == \A k \in Children : Pipes(k)

CloseInv == /\ kpc \in {"drain", "done"} => wpc = "exited"
            /\ kpc = "done" => drained = Cardinality(Slots) /\ standby = << >>

AnswerInv == \A c \in Callers : answer[c] \in {c, None}

\* The inductive invariant.
SInv == /\ Types /\ SlotInv /\ CallInv /\ PlaceInv /\ PipeInv /\ CloseInv /\ AnswerInv

-----------------------------------------------------------------------------
(* Channels without duplicates *)

LEMMA LenFacts ==
  ASSUME NEW S, NEW q \in Seq(S)
  PROVE  Len(q) \in Nat /\ DOMAIN q = 1 .. Len(q) /\ \A i \in DOMAIN q : q[i] \in S
OBVIOUS

LEMMA HeadTail ==
  ASSUME NEW S, NEW q \in Seq(S), q # << >>
  PROVE  /\ Len(q) \in Nat \ {0} /\ DOMAIN q = 1 .. Len(q) /\ Head(q) = q[1] /\ Head(q) \in S
         /\ Tail(q) \in Seq(S) /\ Len(Tail(q)) = Len(q) - 1
         /\ DOMAIN Tail(q) = 1 .. Len(q) - 1
         /\ \A i \in 1 .. Len(q) - 1 : Tail(q)[i] = q[i + 1]
<1>1. Len(q) \in Nat /\ DOMAIN q = 1 .. Len(q) /\ Len(q) # 0
  OBVIOUS
<1>2. Head(q) = q[1] /\ Head(q) \in S
  BY <1>1
<1>3. Tail(q) \in Seq(S) /\ Len(Tail(q)) = Len(q) - 1
  BY <1>1
<1>4. DOMAIN Tail(q) = 1 .. Len(q) - 1
  BY <1>3
<1>5. \A i \in 1 .. Len(q) - 1 : Tail(q)[i] = q[i + 1]
  BY <1>1
<1>6. QED BY <1>1, <1>2, <1>3, <1>4, <1>5

LEMMA AppendFacts ==
  ASSUME NEW S, NEW q \in Seq(S), NEW x \in S
  PROVE  /\ Append(q, x) \in Seq(S) /\ Len(Append(q, x)) = Len(q) + 1
         /\ Len(q) \in Nat /\ DOMAIN q = 1 .. Len(q)
         /\ DOMAIN Append(q, x) = 1 .. Len(q) + 1
         /\ \A i \in 1 .. Len(q) : Append(q, x)[i] = q[i]
         /\ Append(q, x)[Len(q) + 1] = x
<1>1. Len(q) \in Nat /\ DOMAIN q = 1 .. Len(q)
  OBVIOUS
<1>2. Append(q, x) \in Seq(S) /\ Len(Append(q, x)) = Len(q) + 1
  OBVIOUS
<1>3. DOMAIN Append(q, x) = 1 .. Len(q) + 1
  BY <1>1, <1>2
<1>4. \A i \in 1 .. Len(q) : Append(q, x)[i] = q[i]
  BY <1>1
<1>5. Append(q, x)[Len(q) + 1] = x
  BY <1>1
<1>6. QED BY <1>1, <1>2, <1>3, <1>4, <1>5

LEMMA TakeHead ==
  ASSUME NEW S, NEW q \in Seq(S), q # << >>, Distinct(q)
  PROVE  /\ Head(q) \in S /\ Head(q) \in Range(q)
         /\ Tail(q) \in Seq(S) /\ Len(Tail(q)) = Len(q) - 1 /\ Distinct(Tail(q))
         /\ Range(Tail(q)) = Range(q) \ {Head(q)}
<1>1. /\ Len(q) \in Nat \ {0} /\ DOMAIN q = 1 .. Len(q) /\ Head(q) = q[1]
  BY HeadTail
<1>2. /\ Head(q) \in S /\ Tail(q) \in Seq(S) /\ Len(Tail(q)) = Len(q) - 1
      /\ \A i \in 1 .. Len(Tail(q)) : Tail(q)[i] = q[i + 1]
  BY HeadTail
<1>3. DOMAIN Tail(q) = 1 .. Len(q) - 1
  BY <1>2, LenFacts
<1>4. Distinct(Tail(q))
  BY <1>1, <1>2, <1>3 DEF Distinct
<1>5. ASSUME NEW x \in Range(Tail(q)) PROVE x \in Range(q) \ {Head(q)}
  <2>1. PICK i \in 1 .. Len(q) - 1 : x = q[i + 1]
    BY <1>2, <1>3, <1>5 DEF Range
  <2>2. i + 1 \in DOMAIN q /\ 1 \in DOMAIN q /\ i + 1 # 1
    BY <1>1
  <2>3. QED BY <1>1, <2>1, <2>2 DEF Range, Distinct
<1>6. ASSUME NEW x \in Range(q) \ {Head(q)} PROVE x \in Range(Tail(q))
  <2>1. PICK i \in 1 .. Len(q) : x = q[i]
    BY <1>1 DEF Range
  <2>2. i - 1 \in 1 .. Len(q) - 1 /\ (i - 1) + 1 = i
    BY <1>1, <2>1
  <2>3. QED BY <1>2, <1>3, <2>1, <2>2, Zenon DEF Range
<1>7. Head(q) \in Range(q)
  BY <1>1 DEF Range
<1>8. QED BY <1>2, <1>4, <1>5, <1>6, <1>7

LEMMA PutLast ==
  ASSUME NEW S, NEW q \in Seq(S), NEW x \in S, x \notin Range(q), Distinct(q)
  PROVE  /\ Append(q, x) \in Seq(S) /\ Len(Append(q, x)) = Len(q) + 1
         /\ Distinct(Append(q, x)) /\ Range(Append(q, x)) = Range(q) \cup {x}
<1>1. /\ Append(q, x) \in Seq(S) /\ Len(Append(q, x)) = Len(q) + 1
      /\ \A i \in 1 .. Len(q) : Append(q, x)[i] = q[i]
      /\ Append(q, x)[Len(q) + 1] = x
  BY AppendFacts
<1>2. /\ Len(q) \in Nat /\ DOMAIN q = 1 .. Len(q)
      /\ DOMAIN Append(q, x) = 1 .. Len(q) + 1
  BY <1>1, LenFacts
<1>3. \A i \in DOMAIN q : q[i] # x
  BY DEF Range
<1>4. Distinct(Append(q, x))
  BY <1>1, <1>2, <1>3 DEF Distinct
<1>5. Range(Append(q, x)) = Range(q) \cup {x}
  BY <1>1, <1>2 DEF Range
<1>6. QED BY <1>1, <1>4, <1>5

-----------------------------------------------------------------------------
(* The types *)

\* The slot and the child of a call.
LEMMA CallHas ==
  ASSUME SInv, NEW c \in Callers, pc[c] \in Held
  PROVE  /\ slot[c] \in Slots /\ slot[c] \notin Range(free)
         /\ \A d \in Callers \ {c} : slot[d] # slot[c]
         /\ pc[c] = "have" => proc[slot[c]] = None
         /\ pc[c] \in {"send", "wait"} => proc[slot[c]] \in Children
BY DEF SInv, Types, SlotInv, SlotsConserved, CallInv

LEMMA RetireTypes ==
  ASSUME Types, NEW s \in Slots, retire(s)
  PROVE  /\ child' \in [Children -> ChildType] /\ proc' \in [Slots -> Children \cup {None}]
         /\ ops' \in [Slots -> 0 .. MaxOps - 1] /\ warmRequest' \in BOOLEAN
<1>1. NoChild \in ChildType
  BY DEF NoChild, ChildType
<1>2. 0 \in 0 .. MaxOps - 1
  BY SupervisorAssumption
<1>3. child' \in [Children -> ChildType]
  BY <1>1 DEF retire, Types
<1>4. proc' \in [Slots -> Children \cup {None}] /\ ops' \in [Slots -> 0 .. MaxOps - 1]
  BY <1>2 DEF retire, Types
<1>5. (Standby > 0) \in BOOLEAN
  BY SupervisorAssumption
<1>6. QED BY <1>3, <1>4, <1>5 DEF retire, Types

\* The updates of a child's record.
LEMMA ChildFields ==
  ASSUME NEW r \in ChildType
  PROVE  /\ \A x \in Callers \cup {None} : [r EXCEPT !.in = x] \in ChildType
         /\ [r EXCEPT !.out = None] \in ChildType
         /\ \A x \in {"hung", "dead"} : [r EXCEPT !.st = x] \in ChildType
         /\ \A x \in Callers, v, t \in BOOLEAN :
              [r EXCEPT !.in = None, !.out = [to |-> x, revoked |-> v], !.tainted = t] \in ChildType
<1>1. \A x \in Callers \cup {None} : [r EXCEPT !.in = x] \in ChildType
  BY DEF ChildType
<1>2. [r EXCEPT !.out = None] \in ChildType
  BY DEF ChildType
<1>3. \A x \in {"hung", "dead"} : [r EXCEPT !.st = x] \in ChildType
  BY DEF ChildType
<1>4. ASSUME NEW x \in Callers, NEW v \in BOOLEAN, NEW t \in BOOLEAN
      PROVE  [r EXCEPT !.in = None, !.out = [to |-> x, revoked |-> v], !.tainted = t] \in ChildType
  <2>1. [to |-> x, revoked |-> v] \in [to : Callers, revoked : BOOLEAN]
    OBVIOUS
  <2>2. QED BY <2>1, Zenon DEF ChildType
<1>5. QED BY <1>1, <1>2, <1>3, <1>4, Zenon

LEMMA SpawnTypes ==
  ASSUME Types, NEW k \in Children, spawn(k)
  PROVE  child' \in [Children -> ChildType]
<1>1. Fresh \in ChildType
  BY DEF Fresh, ChildType
<1>2. QED BY <1>1 DEF spawn, Types

LEMMA OverTypes ==
  ASSUME Types, NEW c \in Callers, Over(c)
  PROVE  /\ pc' \in [Callers -> PC] /\ attempt' \in [Callers -> {0, 1}]
         /\ ctx' \in [Callers -> {"live", "done"}] /\ answer' \in [Callers -> Callers \cup {None}]
BY DEF Types, Over, PC

\* Whatever a step does it leaves every variable with its type.
LEMMA TypesNext == ASSUME SInv, Next PROVE Types'
<1> USE DEF pool, spare, ends, warm, calls, PC
<1>0. Types /\ 0 \in 0 .. MaxOps - 1
  BY SupervisorAssumption DEF SInv
<1>1. ASSUME NEW c \in Callers, Call(c) \/ CancelCall(c) PROVE Types'
  BY <1>0, <1>1, ZenonT(30) DEF Call, CancelCall, Types
<1>2. ASSUME NEW c \in Callers, CheckClosed(c) \/ GiveUp(c) PROVE Types'
  <2>1. CASE Over(c)
    BY <1>0, <1>2, <2>1, OverTypes DEF CheckClosed, GiveUp, Types
  <2>2. CASE ~Over(c)
    BY <1>0, <1>2, <2>2, Zenon DEF CheckClosed, GiveUp, Types
  <2>3. QED BY <2>1, <2>2
<1>3. ASSUME NEW c \in Callers, Acquire(c) PROVE Types'
  <2>1. Head(free) \in Slots /\ Tail(free) \in Seq(Slots)
    BY <1>0, <1>3, HeadTail DEF Acquire, Types
  <2>2. QED BY <1>0, <1>3, <2>1, SMTT(20) DEF Acquire, Types
<1>4. ASSUME NEW c \in Callers, takeStandby(c) PROVE Types'
  <2>1. PICK h \in Children, t \in Seq(Children) :
          h = Head(standby) /\ t = Tail(standby) /\ Len(t) = Len(standby) - 1
    BY <1>0, <1>4, HeadTail, Zenon DEF takeStandby, Types
  <2>2. Len(t) <= Standby
    BY <1>0, <2>1, SupervisorAssumption, LenFacts DEF Types
  <2>3. QED BY <1>0, <1>4, <2>1, <2>2, Zenon DEF takeStandby, Types
<1>5. ASSUME NEW c \in Callers, ColdStart(c) PROVE Types'
  <2>1. ops' \in [Slots -> 0 .. MaxOps - 1]
    BY <1>0, <1>5, Zenon DEF ColdStart, Types
  <2>2. PICK k \in Children : spawn(k) /\ proc' = [proc EXCEPT ![slot[c]] = k]
    BY <1>5, Zenon DEF ColdStart
  <2>3. child' \in [Children -> ChildType] /\ proc' \in [Slots -> Children \cup {None}]
    BY <1>0, <2>2, SpawnTypes, Zenon DEF Types
  <2>4. QED BY <1>0, <1>5, <2>1, <2>3 DEF ColdStart, Types
<1>6. ASSUME NEW c \in Callers, ColdStartFails(c) PROVE Types'
  BY <1>0, <1>6 DEF ColdStartFails, Types
<1>7. ASSUME NEW c \in Callers, Send(c) PROVE Types'
  <2>1. proc[slot[c]] \in Children
    BY <1>7, CallHas DEF Send, Held
  <2>2. [child[proc[slot[c]]] EXCEPT !.in = c] \in ChildType
    BY <1>0, <2>1, ChildFields, Zenon DEF Types
  <2>3. child' \in [Children -> ChildType]
    BY <1>0, <1>7, <2>2, Zenon DEF Send, Types
  <2>4. QED BY <1>0, <1>7, <2>3 DEF Send, Types
<1>8. ASSUME NEW c \in Callers, NEW again \in BOOLEAN, Abandon(c, again), pc[c] \in Held
      PROVE  Types'
  <2>1. slot[c] \in Slots
    BY <1>8, CallHas
  <2>2. QED BY <1>0, <1>8, <2>1, RetireTypes DEF Abandon, Types
<1>9. ASSUME NEW c \in Callers, Lost(c) \/ Timeout(c) \/ CtxEnds(c) \/ Garbled(c) PROVE Types'
  <2>1. \E again \in BOOLEAN : Abandon(c, again)
    BY <1>9, Zenon DEF Lost, Timeout, CtxEnds, Garbled
  <2>2. pc[c] \in Held
    BY <1>9, Zenon DEF Lost, Timeout, CtxEnds, Garbled, Held
  <2>3. QED BY <1>8, <2>1, <2>2
<1>10. ASSUME NEW c \in Callers, Receive(c) PROVE Types'
  <2> DEFINE s == slot[c]
             k == proc[s]
  <2>1. s \in Slots /\ k \in Children
    BY <1>10, CallHas DEF Receive, Held
  <2>2. child[k].out.to \in Callers /\ child[k].out.revoked \in BOOLEAN
    BY <1>0, <1>10, <2>1 DEF Receive, Types, ChildType
  <2>3. answer' \in [Callers -> Callers \cup {None}]
    BY <1>0, <1>10, <2>2 DEF Receive, Types
  <2>4. CASE retire(s)
    BY <1>0, <1>10, <2>1, <2>3, <2>4, RetireTypes DEF Receive, Types
  <2>5. CASE ~retire(s)
    <3>1. /\ FALSE \in recycleReason(ops[s] + 1, child[k].out.revoked)
          /\ ops' = [ops EXCEPT ![s] = @ + 1]
          /\ child' = [child EXCEPT ![k].out = None]
          /\ UNCHANGED <<proc, warmRequest>>
      BY <1>10, <2>2, <2>5, Zenon DEF Receive, recycleReason
    <3>2. ~(ops[s] + 1 >= MaxOps)
      BY <3>1, Zenon DEF recycleReason
    <3>3. ops' \in [Slots -> 0 .. MaxOps - 1]
      BY <1>0, <2>1, <3>1, <3>2, SupervisorAssumption, SMTT(20) DEF Types
    <3>4. child' \in [Children -> ChildType]
      <4>1. [child[k] EXCEPT !.out = None] \in ChildType
        BY <1>0, <2>1, ChildFields, Zenon DEF Types
      <4>2. QED BY <1>0, <3>1, <4>1, Zenon DEF Types
    <3>5. QED BY <1>0, <1>10, <2>3, <3>1, <3>3, <3>4 DEF Receive, Types
  <2>6. QED BY <2>4, <2>5
<1>11. ASSUME NEW c \in Callers, ReturnSlot(c) PROVE Types'
  <2>1. slot[c] \in Slots
    BY <1>11, CallHas DEF ReturnSlot, Held
  <2>2. free' \in Seq(Slots)
    BY <1>0, <1>11, <2>1, AppendFacts DEF ReturnSlot, Types
  <2>3. CASE Over(c)
    BY <1>0, <1>11, <2>2, <2>3, OverTypes DEF ReturnSlot, Types
  <2>4. CASE ~Over(c)
    BY <1>0, <1>11, <2>2, <2>4, ZenonT(30) DEF ReturnSlot, Types
  <2>5. QED BY <2>3, <2>4
<1>12. ASSUME NEW k \in Children, Answer(k) PROVE Types'
  <2>1. child[k] \in ChildType /\ child[k].in \in Callers
    BY <1>0, <1>12 DEF Answer, Types, ChildType
  <2>2. PICK v \in BOOLEAN :
          child' = [child EXCEPT ![k].in = None,
                                 ![k].out = [to |-> child[k].in, revoked |-> v],
                                 ![k].tainted = @ \/ v]
    BY <1>12, Zenon DEF Answer
  <2>3. (child[k].tainted \/ v) \in BOOLEAN
    OBVIOUS
  <2>4. [child[k] EXCEPT !.in = None, !.out = [to |-> child[k].in, revoked |-> v],
                         !.tainted = (child[k].tainted \/ v)] \in ChildType
    BY <2>1, <2>3, ChildFields, Zenon
  <2>5. child' \in [Children -> ChildType]
    BY <1>0, <2>2, <2>4 DEF Types
  <2>6. QED BY <1>0, <1>12, <2>5 DEF Answer, Types
<1>13. ASSUME NEW k \in Children, Fail(k) PROVE Types'
  <2>1. PICK x \in {"hung", "dead"} : child' = [child EXCEPT ![k].st = x]
    BY <1>13 DEF Fail
  <2>2. [child[k] EXCEPT !.st = x] \in ChildType
    BY <1>0, ChildFields, Zenon DEF Types
  <2>3. child' \in [Children -> ChildType]
    BY <1>0, <2>1, <2>2 DEF Types
  <2>4. QED BY <1>0, <1>13, <2>3 DEF Fail, Types
<1>14. ASSUME WarmWake \/ WarmStop \/ WarmFull \/ WarmSpawnFails \/ WarmWoken PROVE Types'
  BY <1>0, <1>14, Zenon DEF WarmWake, WarmStop, WarmFull, WarmSpawnFails, WarmWoken, Types
<1>15. ASSUME WarmSpawn PROVE Types'
  <2>1. PICK k \in Children : spawn(k) /\ wchild' = k
    BY <1>15 DEF WarmSpawn
  <2>2. QED BY <1>0, <1>15, <2>1, SpawnTypes DEF WarmSpawn, Types
<1>16. ASSUME WarmPut PROVE Types'
  <2>1. wchild \in Children
    BY <1>16 DEF SInv, Types, PlaceInv, WarmPut
  <2>2. standby' \in Seq(Children) /\ Len(standby') = Len(standby) + 1
    BY <1>0, <1>16, <2>1, AppendFacts DEF WarmPut, Types
  <2>3. Len(standby') <= Standby
    BY <1>0, <1>16, <2>2, SupervisorAssumption, LenFacts DEF WarmPut, Types
  <2>4. QED BY <1>0, <1>16, <2>2, <2>3 DEF WarmPut, Types
<1>17. NoChild \in ChildType
  BY DEF NoChild, ChildType
<1>18. ASSUME WarmDrop PROVE Types'
  BY <1>0, <1>17, <1>18, Zenon DEF WarmDrop, Types
<1>19. ASSUME CloseBegin \/ CloseStop \/ CloseWait PROVE Types'
  BY <1>0, <1>19, Zenon DEF CloseBegin, CloseStop, CloseWait, Types
<1>20. ASSUME CloseSlot PROVE Types'
  <2>1. Head(free) \in Slots /\ Tail(free) \in Seq(Slots)
    BY <1>0, <1>20, HeadTail DEF CloseSlot, Types
  <2>2. drained' \in 0 .. Cardinality(Slots)
    BY <1>0, <1>20, SupervisorAssumption DEF CloseSlot, Types
  <2>3. QED BY <1>0, <1>20, <2>1, <2>2, RetireTypes, SMTT(20) DEF CloseSlot, Types
<1>21. ASSUME CloseStandby PROVE Types'
  <2>1. CASE standby = << >>
    BY <1>0, <1>21, <2>1 DEF CloseStandby, Types
  <2>2. CASE standby # << >>
    <3>1. PICK t \in Seq(Children) : t = Tail(standby) /\ Len(t) = Len(standby) - 1
      BY <1>0, <2>2, HeadTail, Zenon DEF Types
    <3>2. Len(t) <= Standby
      BY <1>0, <3>1, SupervisorAssumption, LenFacts DEF Types
    <3>3. QED BY <1>0, <1>17, <1>21, <2>2, <3>1, <3>2, Zenon DEF CloseStandby, Types
  <2>3. QED BY <2>1, <2>2
<1>22. QED
  BY <1>1, <1>2, <1>3, <1>4, <1>5, <1>6, <1>7, <1>9, <1>10, <1>11, <1>12, <1>13, <1>14,
     <1>15, <1>16, <1>18, <1>19, <1>20, <1>21 DEF Next, InCall, Warmer, Closer

-----------------------------------------------------------------------------
(* The slots *)

Kept == UNCHANGED <<free, slot, drained>> /\ \A c \in Callers : pc'[c] \in Held <=> pc[c] \in Held

\* Only three steps move a slot.
LEMMA SlotsMove ==
  ASSUME SInv, Next
  PROVE  Kept \/ (\E c \in Callers : Acquire(c) \/ ReturnSlot(c)) \/ CloseSlot
<1> USE DEF pool, spare, ends, warm, calls, Held
<1>0. pc \in [Callers -> PC]
  BY DEF SInv, Types
<1>1. ASSUME NEW c \in Callers, Call(c) \/ CancelCall(c) PROVE Kept
  BY <1>0, <1>1 DEF Call, CancelCall, Kept
<1>2. ASSUME NEW c \in Callers, CheckClosed(c) \/ GiveUp(c) PROVE Kept
  BY <1>0, <1>2 DEF CheckClosed, GiveUp, Over, Kept
<1>3. ASSUME NEW c \in Callers, takeStandby(c) \/ ColdStart(c) \/ ColdStartFails(c) \/ Send(c)
      PROVE Kept
  BY <1>0, <1>3, SMTT(20) DEF takeStandby, ColdStart, ColdStartFails, Send, Kept
<1>4. ASSUME NEW c \in Callers, Lost(c) \/ Timeout(c) \/ CtxEnds(c) \/ Garbled(c) PROVE Kept
  BY <1>0, <1>4 DEF Lost, Timeout, CtxEnds, Garbled, Abandon, Kept
<1>5. ASSUME NEW c \in Callers, Receive(c) PROVE Kept
  BY <1>0, <1>5 DEF Receive, Kept
<1>6. ASSUME NEW k \in Children, Answer(k) \/ Fail(k) PROVE Kept
  BY <1>6, Zenon DEF Answer, Fail, Kept
<1>7. ASSUME Warmer PROVE Kept
  BY <1>7 DEF Warmer, WarmWake, WarmStop, WarmFull, WarmSpawn, WarmSpawnFails, WarmWoken,
              WarmPut, WarmDrop, Kept
<1>8. ASSUME CloseBegin \/ CloseStop \/ CloseWait \/ CloseStandby PROVE Kept
  BY <1>8 DEF CloseBegin, CloseStop, CloseWait, CloseStandby, Kept
<1>9. QED BY <1>1, <1>2, <1>3, <1>4, <1>5, <1>6, <1>7, <1>8 DEF Next, InCall, Closer

-----------------------------------------------------------------------------
(* Close, and the answers given *)

LEMMA AnswerNext == ASSUME SInv, Next PROVE AnswerInv'
<1> USE DEF pool, spare, ends, warm, calls
<1>0. AnswerInv /\ answer \in [Callers -> Callers \cup {None}]
  BY DEF SInv, Types
<1>1. ASSUME NEW c \in Callers, Receive(c) PROVE AnswerInv'
  <2> DEFINE k == proc[slot[c]]
  <2>1. k \in Children /\ WaitsOn(c, k)
    BY <1>1, CallHas, SMTT(20) DEF Receive, Held, WaitsOn
  <2>2. child[k].out.to = c
    BY <1>1, <2>1 DEF SInv, PipeInv, Pipes, Receive
  <2>3. answer' = [answer EXCEPT ![c] = c]
    BY <1>1, <2>2 DEF Receive
  <2>4. QED BY <1>0, <2>3 DEF AnswerInv
<1>2. ASSUME NEW c \in Callers, CheckClosed(c) \/ GiveUp(c) \/ ReturnSlot(c) PROVE AnswerInv'
  BY <1>0, <1>2, SMTT(20) DEF CheckClosed, GiveUp, ReturnSlot, Over, AnswerInv
<1>3. ASSUME NEW c \in Callers,
             \/ Call(c) \/ CancelCall(c) \/ Acquire(c) \/ takeStandby(c) \/ ColdStart(c)
             \/ ColdStartFails(c) \/ Send(c) \/ Lost(c) \/ Timeout(c) \/ CtxEnds(c) \/ Garbled(c)
      PROVE  AnswerInv'
  BY <1>0, <1>3 DEF Call, CancelCall, Acquire, takeStandby, ColdStart, ColdStartFails, Send, Lost,
                    Timeout, CtxEnds, Garbled, Abandon, AnswerInv
<1>4. ASSUME NEW k \in Children, Answer(k) \/ Fail(k) PROVE AnswerInv'
  BY <1>0, <1>4, Zenon DEF Answer, Fail, AnswerInv
<1>5. ASSUME Warmer \/ CloseBegin \/ Closer PROVE AnswerInv'
  BY <1>0, <1>5 DEF Warmer, WarmWake, WarmStop, WarmFull, WarmSpawn, WarmSpawnFails, WarmWoken,
                    WarmPut, WarmDrop, CloseBegin, Closer, CloseStop, CloseWait, CloseSlot,
                    CloseStandby, AnswerInv
<1>6. QED BY <1>1, <1>2, <1>3, <1>4, <1>5 DEF Next, InCall

LEMMA CloseNext == ASSUME SInv, Next PROVE CloseInv'
<1> USE DEF pool, spare, ends, warm, calls
<1>0. CloseInv
  BY DEF SInv
<1>1. ASSUME NEW c \in Callers,
             \/ Call(c) \/ CancelCall(c) \/ Acquire(c) \/ CheckClosed(c) \/ GiveUp(c)
             \/ ColdStart(c) \/ ColdStartFails(c) \/ Send(c) \/ Lost(c) \/ Timeout(c)
             \/ CtxEnds(c) \/ Garbled(c) \/ Receive(c) \/ ReturnSlot(c)
      PROVE  CloseInv'
  BY <1>0, <1>1, Zenon
     DEF Call, CancelCall, Acquire, CheckClosed, GiveUp, ColdStart, ColdStartFails, Send, Lost,
         Timeout, CtxEnds, Garbled, Abandon, Receive, ReturnSlot, CloseInv
<1>2. ASSUME NEW c \in Callers, takeStandby(c) PROVE CloseInv'
  BY <1>0, <1>2 DEF takeStandby, CloseInv
<1>3. ASSUME NEW k \in Children, Answer(k) \/ Fail(k) PROVE CloseInv'
  BY <1>0, <1>3, Zenon DEF Answer, Fail, CloseInv
<1>4. ASSUME Warmer PROVE CloseInv'
  BY <1>0, <1>4 DEF Warmer, WarmWake, WarmStop, WarmFull, WarmSpawn, WarmSpawnFails, WarmWoken,
                    WarmPut, WarmDrop, CloseInv
<1>5. ASSUME CloseBegin \/ Closer PROVE CloseInv'
  BY <1>0, <1>5, Zenon DEF CloseBegin, Closer, CloseStop, CloseWait, CloseSlot, CloseStandby,
     CloseInv
<1>6. QED BY <1>1, <1>2, <1>3, <1>4, <1>5 DEF Next, InCall

-----------------------------------------------------------------------------
(* The use of children: CallInv, PlaceInv and PipeInv, step by step *)

UseInv == CallInv /\ PlaceInv /\ PipeInv

LEMMA PipesSame ==
  ASSUME NEW k \in Children, Pipes(k), child'[k] = child[k],
         \A c \in Callers : WaitsOn(c, k)' <=> WaitsOn(c, k)
  PROVE  Pipes(k)'
BY DEF Pipes

LEMMA PipesClean ==
  ASSUME NEW k \in Children, child'[k] \in {Fresh, NoChild}
  PROVE  Pipes(k)'
<1>1. /\ child'[k].in = None /\ child'[k].out = None /\ child'[k].tainted = FALSE
      /\ child'[k].st = "none" => child'[k] = NoChild
  <2>1. CASE child'[k] = Fresh
    BY <2>1 DEF Fresh
  <2>2. CASE child'[k] = NoChild
    BY <2>2 DEF NoChild
  <2>3. QED BY <2>1, <2>2, Zenon
<1>2. QED BY <1>1 DEF Pipes

\* The steps that touch neither slot nor child.
Still == /\ UNCHANGED <<free, slot, proc, child, standby, wchild>>
         /\ wpc' = "put" <=> wpc = "put"
         /\ \A c \in Callers : \/ pc'[c] = pc[c] \/ (pc[c] \notin Held /\ pc'[c] \notin Held)
                               \/ (pc[c] = "have" /\ pc'[c] = "return")

LEMMA StillUse == ASSUME SInv, Still PROVE UseInv'
<1>1. CallInv'
  BY SMTT(20) DEF SInv, CallInv, Still, Held, Taken
<1>2. PlaceInv'
  BY SMTT(20) DEF SInv, PlaceInv, Still, Distinct
<1>3. ASSUME NEW k \in Children PROVE Pipes(k)'
  <2>1. \A c \in Callers : WaitsOn(c, k)' <=> WaitsOn(c, k)
    BY DEF Still, WaitsOn, Held
  <2>2. QED BY <2>1, PipesSame DEF Still, SInv, PipeInv
<1>4. QED BY <1>1, <1>2, <1>3 DEF UseInv, PipeInv

LEMMA AcquireUse == ASSUME SInv, NEW c \in Callers, Acquire(c) PROVE UseInv'
<1>0. /\ free \in Seq(Slots) /\ Distinct(free) /\ slot \in [Callers -> Slots \cup {None}]
      /\ pc \in [Callers -> PC] /\ None \notin Slots
  BY SupervisorAssumption DEF SInv, Types, SlotInv, SlotsConserved, Distinct
<1>1. PICK h \in Slots, t \in Seq(Slots) :
        h = Head(free) /\ t = Tail(free) /\ h \in Range(free) /\ Range(t) = Range(free) \ {h}
  BY <1>0, TakeHead, Zenon DEF Acquire
<1>2. /\ free' = t /\ slot' = [slot EXCEPT ![c] = h] /\ pc[c] = "acquire"
      /\ pc' = [pc EXCEPT ![c] = IF proc[h] = None THEN "have" ELSE "send"]
      /\ UNCHANGED <<proc, child, standby, wchild, wpc>>
  BY <1>1, SMTT(20) DEF Acquire, spare, warm
<1>3. slot[c] = None
  BY <1>2, SMTT(20) DEF SInv, SlotInv, Held
<1>4. \A s \in Slots : Taken(s)' => Taken(s)
  BY <1>0, <1>1, <1>2, <1>3, SMTT(20) DEF Taken
<1>5. CallInv'
  BY <1>0, <1>2, <1>4, SMTT(20) DEF SInv, CallInv
<1>6. PlaceInv'
  BY <1>2 DEF SInv, PlaceInv, Distinct
<1>7. ASSUME NEW k \in Children PROVE Pipes(k)'
  <2>1. \A d \in Callers : WaitsOn(d, k)' <=> WaitsOn(d, k)
    BY <1>0, <1>2 DEF WaitsOn
  <2>2. QED BY <1>2, <2>1, PipesSame, SMTT(20) DEF SInv, PipeInv
<1>8. QED BY <1>5, <1>6, <1>7, SMTT(20) DEF UseInv, PipeInv

LEMMA ReturnUse == ASSUME SInv, NEW c \in Callers, ReturnSlot(c) PROVE UseInv'
<1>0. /\ free \in Seq(Slots) /\ Distinct(free) /\ slot \in [Callers -> Slots \cup {None}]
      /\ pc \in [Callers -> PC]
  BY DEF SInv, Types, SlotInv, SlotsConserved, Distinct
<1>1. PICK s \in Slots : s = slot[c] /\ s \notin Range(free)
  BY CallHas DEF ReturnSlot, Held
<1>2. Range(Append(free, s)) = Range(free) \cup {s}
  BY <1>0, <1>1, PutLast
<1>3. /\ Range(free') = Range(free) \cup {s} /\ slot' = [slot EXCEPT ![c] = None]
      /\ (pc' = [pc EXCEPT ![c] = "check"] \/ pc' = [pc EXCEPT ![c] = "idle"])
      /\ UNCHANGED <<proc, child, standby, wchild, wpc>> /\ pc[c] = "return"
  BY <1>1, <1>2 DEF ReturnSlot, Over, spare, warm
<1>4. \A x \in Slots : Taken(x)' => Taken(x)
  BY <1>0, <1>1, <1>3, SMTT(20) DEF Taken
<1>5. CallInv'
  BY <1>0, <1>3, <1>4, SMTT(20) DEF SInv, CallInv
<1>6. PlaceInv'
  BY <1>3 DEF SInv, PlaceInv, Distinct
<1>7. ASSUME NEW k \in Children PROVE Pipes(k)'
  <2>1. \A d \in Callers : WaitsOn(d, k)' <=> WaitsOn(d, k)
    BY <1>0, <1>3 DEF WaitsOn
  <2>2. QED BY <1>3, <2>1, PipesSame, SMTT(20) DEF SInv, PipeInv
<1>8. QED BY <1>5, <1>6, <1>7 DEF UseInv, PipeInv

LEMMA TakeStandbyUse == ASSUME SInv, NEW c \in Callers, takeStandby(c) PROVE UseInv'
<1>0. /\ standby \in Seq(Children) /\ Distinct(standby) /\ None \notin Children
      /\ proc \in [Slots -> Children \cup {None}] /\ pc \in [Callers -> PC]
  BY SupervisorAssumption, Zenon DEF SInv, Types, PlaceInv
<1>1. PICK h \in Children, t \in Seq(Children) :
        /\ h = Head(standby) /\ t = Tail(standby) /\ h \in Range(standby)
        /\ Distinct(t) /\ Range(t) = Range(standby) \ {h}
  BY <1>0, TakeHead, Zenon DEF takeStandby
<1>2. PICK s \in Slots :
        s = slot[c] /\ proc[s] = None /\ \A d \in Callers \ {c} : slot[d] # s
  BY CallHas DEF takeStandby, Held
<1>3. /\ proc' = [proc EXCEPT ![s] = h] /\ standby' = t
      /\ pc[c] = "have" /\ pc' = [pc EXCEPT ![c] = "send"]
      /\ UNCHANGED <<free, slot, child, wchild, wpc>>
  BY <1>1, <1>2 DEF takeStandby, warm
<1>4. CallInv'
  <2>1. \A x \in Slots : Taken(x)' => Taken(x) /\ x # s
    BY <1>2, <1>3, SMTT(20) DEF Taken
  <2>2. QED BY <1>0, <1>2, <1>3, <2>1 DEF SInv, CallInv
<1>5. PlaceInv'
  <2>1. \A x \in Slots : proc[x] # h
    BY <1>1 DEF SInv, PlaceInv
  <2>2. h # wchild
    BY <1>0, <1>1, SMTT(20) DEF SInv, PlaceInv
  <2>3. /\ \A x, y \in Slots : proc'[x] # None /\ proc'[x] = proc'[y] => x = y
        /\ \A x \in Slots : proc'[x] \notin Range(standby')
    BY <1>0, <1>1, <1>2, <1>3, <2>1, SMTT(20) DEF SInv, PlaceInv
  <2>4. wchild' # None => wchild' \notin Range(standby') /\ \A x \in Slots : proc'[x] # wchild'
    BY <1>0, <1>1, <1>2, <1>3, <2>2, SMTT(20) DEF SInv, PlaceInv
  <2>5. ASSUME NEW k \in Children
        PROVE  child'[k].st # "none" <=>
                 (\E x \in Slots : proc'[x] = k) \/ k \in Range(standby') \/ wchild' = k
    BY <1>0, <1>1, <1>2, <1>3 DEF SInv, PlaceInv
  <2>6. Distinct(standby)' /\ (wchild' # None <=> wpc' = "put")
    BY <1>1, <1>3 DEF SInv, PlaceInv, Distinct
  <2>7. QED BY <2>3, <2>4, <2>5, <2>6, SMTT(20) DEF PlaceInv
<1>6. ASSUME NEW k \in Children PROVE Pipes(k)'
  <2>1. \A d \in Callers : WaitsOn(d, k)' <=> WaitsOn(d, k)
    BY <1>0, <1>2, <1>3 DEF WaitsOn
  <2>2. QED BY <1>3, <2>1, PipesSame DEF SInv, PipeInv
<1>7. QED BY <1>4, <1>5, <1>6 DEF UseInv, PipeInv

\* A process that has just been started has no place yet.
LEMMA SpawnUse ==
  ASSUME SInv, NEW k \in Children, spawn(k)
  PROVE  /\ child' = [child EXCEPT ![k] = Fresh]
         /\ \A s \in Slots : proc[s] # k
         /\ k \notin Range(standby) /\ wchild # k
<1>1. child[k].st = "none" /\ child' = [child EXCEPT ![k] = Fresh]
  BY DEF spawn, NoChild
<1>2. QED BY <1>1 DEF SInv, PlaceInv

LEMMA ColdStartUse == ASSUME SInv, NEW c \in Callers, ColdStart(c) PROVE UseInv'
<1>0. /\ None \notin Children /\ child \in [Children -> ChildType]
      /\ proc \in [Slots -> Children \cup {None}] /\ pc \in [Callers -> PC]
  BY SupervisorAssumption DEF SInv, Types
<1>1. PICK s \in Slots :
        s = slot[c] /\ proc[s] = None /\ \A d \in Callers \ {c} : slot[d] # s
  BY CallHas DEF ColdStart, Held
<1>2. PICK k \in Children : spawn(k) /\ proc' = [proc EXCEPT ![s] = k]
  BY <1>1, Zenon DEF ColdStart
<1>3. /\ child' = [child EXCEPT ![k] = Fresh] /\ \A x \in Slots : proc[x] # k
      /\ k \notin Range(standby) /\ wchild # k
  BY <1>2, SpawnUse
<1>4. /\ pc[c] = "have" /\ pc' = [pc EXCEPT ![c] = "send"]
      /\ UNCHANGED <<free, slot, standby, wchild, wpc>>
  BY DEF ColdStart, spare, warm
<1>5. CallInv'
  <2>1. \A x \in Slots : Taken(x)' => Taken(x) /\ x # s
    BY <1>1, <1>4 DEF Taken
  <2>2. QED BY <1>0, <1>1, <1>2, <1>4, <2>1, SMTT(20) DEF SInv, CallInv
<1>6. PlaceInv'
  <2>1. /\ \A x, y \in Slots : proc'[x] # None /\ proc'[x] = proc'[y] => x = y
        /\ \A x \in Slots : proc'[x] \notin Range(standby')
        /\ wchild' # None => wchild' \notin Range(standby') /\ \A x \in Slots : proc'[x] # wchild'
    BY <1>0, <1>1, <1>2, <1>3, <1>4, SMTT(20) DEF SInv, PlaceInv
  <2>2. ASSUME NEW x \in Children
        PROVE  child'[x].st # "none" <=>
                 (\E y \in Slots : proc'[y] = x) \/ x \in Range(standby') \/ wchild' = x
    <3>1. CASE x = k
      BY <1>0, <1>2, <1>3, <3>1, SMTT(20) DEF Fresh
    <3>2. CASE x # k
      <4>1. (\E y \in Slots : proc'[y] = x) <=> (\E y \in Slots : proc[y] = x)
        BY <1>0, <1>1, <1>2, <3>2
      <4>2. child'[x] = child[x]
        BY <1>0, <1>3, <3>2, SMTT(20)
      <4>3. QED BY <1>4, <4>1, <4>2 DEF SInv, PlaceInv
    <3>3. QED BY <3>1, <3>2
  <2>3. Distinct(standby)' /\ (wchild' # None <=> wpc' = "put")
    BY <1>4 DEF SInv, PlaceInv, Distinct
  <2>4. QED BY <2>1, <2>2, <2>3 DEF PlaceInv
<1>7. ASSUME NEW x \in Children PROVE Pipes(x)'
  <2>1. CASE x = k
    BY <1>0, <1>3, <2>1, PipesClean
  <2>2. CASE x # k
    <3>1. \A d \in Callers : WaitsOn(d, x)' <=> WaitsOn(d, x)
      BY <1>0, <1>1, <1>2, <1>4 DEF WaitsOn
    <3>2. QED BY <1>0, <1>3, <2>2, <3>1, PipesSame DEF SInv, PipeInv
  <2>3. QED BY <2>1, <2>2
<1>8. QED BY <1>5, <1>6, <1>7, SMTT(20) DEF UseInv, PipeInv

LEMMA SendUse == ASSUME SInv, NEW c \in Callers, Send(c) PROVE UseInv'
<1>0. child \in [Children -> ChildType] /\ pc \in [Callers -> PC]
  BY DEF SInv, Types
<1>1. PICK s \in Slots, k \in Children :
        s = slot[c] /\ k = proc[s] /\ \A d \in Callers \ {c} : slot[d] # s
  BY CallHas DEF Send, Held
<1>2. /\ child' = [child EXCEPT ![k].in = c] /\ child[k].st \in {"alive", "hung"}
      /\ pc[c] = "send" /\ pc' = [pc EXCEPT ![c] = "wait"]
      /\ UNCHANGED <<free, slot, proc, standby, wchild, wpc>>
  BY <1>1 DEF Send, spare, warm
<1>3. /\ child'[k] = [child[k] EXCEPT !.in = c]
      /\ \A x \in Children : x # k => child'[x] = child[x]
  BY <1>0, <1>2
<1>4. /\ child'[k].in = c /\ child'[k].out = child[k].out /\ child'[k].st = child[k].st
      /\ child'[k].tainted = child[k].tainted
  BY <1>0, <1>3, SMTT(20) DEF ChildType
<1>5. \A d \in Callers : ~WaitsOn(d, k)
  <2>1. SUFFICES ASSUME NEW d \in Callers, pc[d] = "wait", proc[slot[d]] = k PROVE FALSE
    BY DEF WaitsOn
  <2>2. slot[d] \in Slots /\ slot[d] # s
    BY <1>1, <1>2, <2>1, CallHas DEF Held
  <2>3. QED BY <1>1, <2>1, <2>2, SupervisorAssumption, SMTT(20) DEF SInv, PlaceInv
<1>6. CallInv'
  BY <1>0, <1>2 DEF SInv, CallInv, Taken
<1>7. \A x \in Children : child'[x].st # "none" <=> child[x].st # "none"
  BY <1>3, <1>4, Zenon
<1>8. PlaceInv'
  BY <1>2, <1>7 DEF SInv, PlaceInv, Distinct
<1>9. ASSUME NEW x \in Children PROVE Pipes(x)'
  <2>1. CASE x = k
    <3>1. child[k].out = None /\ (KeepAfterRevoked \/ ~child[k].tainted)
      BY <1>5 DEF SInv, PipeInv, Pipes
    <3>2. WaitsOn(c, k)' /\ \A d \in Callers \ {c} : ~WaitsOn(d, k)'
      BY <1>0, <1>1, <1>2, <1>5 DEF WaitsOn
    <3>3. QED BY <1>2, <1>4, <2>1, <3>1, <3>2, SMTT(20) DEF Pipes
  <2>2. CASE x # k
    <3>1. \A d \in Callers : WaitsOn(d, x)' <=> WaitsOn(d, x)
      BY <1>0, <1>1, <1>2, <2>2, SMTT(20) DEF WaitsOn
    <3>2. QED BY <1>3, <2>2, <3>1, PipesSame DEF SInv, PipeInv
  <2>3. QED BY <2>1, <2>2
<1>10. QED BY <1>6, <1>8, <1>9 DEF UseInv, PipeInv

\* retire takes the child of one slot, and nobody else had it.
LEMMA RetirePlaces ==
  ASSUME SInv, NEW s \in Slots, retire(s), UNCHANGED <<standby, wchild, wpc>>
  PROVE  /\ PlaceInv'
         /\ proc' = [proc EXCEPT ![s] = None]
         /\ \A k \in Children : /\ k = proc[s] => child'[k] = NoChild
                                /\ k # proc[s] => child'[k] = child[k]
<1>0. /\ None \notin Children /\ proc \in [Slots -> Children \cup {None}]
      /\ standby \in Seq(Children)
  BY SupervisorAssumption DEF SInv, Types
<1>1. /\ proc' = [proc EXCEPT ![s] = None]
      /\ \A k \in Children : /\ k = proc[s] => child'[k] = NoChild
                             /\ k # proc[s] => child'[k] = child[k]
  BY SMTT(20) DEF retire
<1>2. None \notin Range(standby)
  BY <1>0, LenFacts DEF Range
<1>3. /\ \A x, y \in Slots : proc'[x] # None /\ proc'[x] = proc'[y] => x = y
      /\ \A x \in Slots : proc'[x] \notin Range(standby')
      /\ wchild' # None => wchild' \notin Range(standby') /\ \A x \in Slots : proc'[x] # wchild'
  BY <1>0, <1>1, <1>2, Zenon DEF SInv, PlaceInv
<1>4. ASSUME NEW k \in Children
      PROVE  child'[k].st # "none" <=>
               (\E x \in Slots : proc'[x] = k) \/ k \in Range(standby') \/ wchild' = k
  <2>1. CASE k = proc[s]
    <3>1. child'[k].st = "none"
      BY <1>1, <2>1 DEF NoChild
    <3>2. \A x \in Slots : proc'[x] # k
      BY <1>0, <1>1, <2>1 DEF SInv, PlaceInv
    <3>3. k \notin Range(standby') /\ wchild' # k
      BY <1>0, <2>1, SMTT(20) DEF SInv, PlaceInv
    <3>4. QED BY <3>1, <3>2, <3>3, SMTT(20)
  <2>2. CASE k # proc[s]
    <3>1. (\E x \in Slots : proc'[x] = k) <=> (\E x \in Slots : proc[x] = k)
      BY <1>0, <1>1, <2>2, SMTT(20)
    <3>2. QED BY <1>1, <2>2, <3>1, SMTT(20) DEF SInv, PlaceInv
  <2>3. QED BY <2>1, <2>2
<1>5. Distinct(standby)' /\ (wchild' # None <=> wpc' = "put")
  BY SMTT(20) DEF SInv, PlaceInv, Distinct
<1>6. QED BY <1>1, <1>3, <1>4, <1>5, SMTT(20) DEF PlaceInv

\* A call ends with the child of its slot retired: Lost, Timeout, CtxEnds,
\* Garbled, and Receive when the child is recycled.
LEMMA RetireUse ==
  ASSUME SInv, NEW c \in Callers, pc[c] \in {"send", "wait"}, retire(slot[c]),
         pc' = [pc EXCEPT ![c] = "return"], UNCHANGED <<free, slot, standby, wchild, wpc>>
  PROVE  UseInv'
<1>0. /\ None \notin Children /\ proc \in [Slots -> Children \cup {None}] /\ pc \in [Callers -> PC]
  BY SupervisorAssumption, SMTT(20) DEF SInv, Types
<1>1. PICK s \in Slots, k \in Children :
        s = slot[c] /\ k = proc[s] /\ \A d \in Callers \ {c} : slot[d] # s
  BY CallHas, SMTT(20) DEF Held
<1>2. /\ PlaceInv' /\ proc' = [proc EXCEPT ![s] = None]
      /\ child'[k] = NoChild /\ \A x \in Children : x # k => child'[x] = child[x]
  BY <1>1, RetirePlaces
<1>3. CallInv'
  <2>1. \A x \in Slots : Taken(x)' => Taken(x)
    BY DEF Taken
  <2>2. QED BY <1>0, <1>1, <1>2, <2>1 DEF SInv, CallInv
<1>4. ASSUME NEW x \in Children PROVE Pipes(x)'
  <2>1. CASE x = k
    BY <1>2, <2>1, PipesClean, SMTT(20)
  <2>2. CASE x # k
    <3>1. \A d \in Callers : WaitsOn(d, x)' <=> WaitsOn(d, x)
      <4>1. ASSUME NEW d \in Callers, d # c, pc[d] = "wait"
            PROVE  slot[d] \in Slots /\ proc'[slot[d]] = proc[slot[d]]
        BY <1>0, <1>1, <1>2, <4>1, CallHas DEF Held
      <4>2. QED BY <1>0, <1>1, <2>2, <4>1, SMTT(20) DEF WaitsOn
    <3>2. QED BY <1>2, <2>2, <3>1, PipesSame DEF SInv, PipeInv
  <2>3. QED BY <2>1, <2>2, SMTT(20)
<1>5. QED BY <1>2, <1>3, <1>4, SMTT(20) DEF UseInv, PipeInv

\* The answer is read and the child kept: it is clean again.
LEMMA KeepUse ==
  ASSUME SInv, NEW c \in Callers, Receive(c), ~retire(slot[c])
  PROVE  UseInv'
<1>0. child \in [Children -> ChildType] /\ pc \in [Callers -> PC]
  BY DEF SInv, Types
<1>1. PICK s \in Slots, k \in Children :
        s = slot[c] /\ k = proc[s] /\ \A d \in Callers \ {c} : slot[d] # s
  BY CallHas DEF Receive, Held
<1>2. child[k].out # None /\ child[k].out.revoked \in BOOLEAN
  BY <1>0, <1>1 DEF Receive, ChildType
<1>3. /\ FALSE \in recycleReason(ops[s] + 1, child[k].out.revoked)
      /\ child' = [child EXCEPT ![k].out = None]
      /\ pc[c] = "wait" /\ pc' = [pc EXCEPT ![c] = "return"]
      /\ UNCHANGED <<free, slot, proc, standby, wchild, wpc>>
  BY <1>1, <1>2, Zenon DEF Receive, recycleReason, warm
<1>4. KeepAfterRevoked \/ ~child[k].out.revoked
  BY <1>3, Zenon DEF recycleReason
<1>5. /\ child'[k] = [child[k] EXCEPT !.out = None]
      /\ \A x \in Children : x # k => child'[x] = child[x]
  BY <1>0, <1>3
<1>6. /\ child'[k].in = child[k].in /\ child'[k].out = None /\ child'[k].st = child[k].st
      /\ child'[k].tainted = child[k].tainted
  BY <1>0, <1>5, SMTT(20) DEF ChildType
<1>7. child[k].in = None /\ (KeepAfterRevoked \/ ~child[k].tainted) /\ child[k].st # "none"
  <2>1. Pipes(k)
    BY SMTT(20) DEF SInv, PipeInv
  <2>2. child[k].st # "none"
    BY <1>1 DEF SInv, PlaceInv
  <2>3. QED BY <1>2, <1>4, <2>1, <2>2 DEF Pipes
<1>8. CallInv'
  BY <1>0, <1>3 DEF SInv, CallInv, Taken
<1>9. \A x \in Children : child'[x].st # "none" <=> child[x].st # "none"
  BY <1>5, <1>6, Zenon
<1>10. PlaceInv'
  BY <1>3, <1>9 DEF SInv, PlaceInv, Distinct
<1>11. ASSUME NEW x \in Children PROVE Pipes(x)'
  <2>1. CASE x = k
    BY <1>6, <1>7, <2>1 DEF Pipes
  <2>2. CASE x # k
    <3>1. \A d \in Callers : WaitsOn(d, x)' <=> WaitsOn(d, x)
      BY <1>0, <1>1, <1>3, <2>2 DEF WaitsOn
    <3>2. QED BY <1>5, <2>2, <3>1, PipesSame DEF SInv, PipeInv
  <2>3. QED BY <2>1, <2>2, SMTT(20)
<1>12. QED BY <1>8, <1>10, <1>11 DEF UseInv, PipeInv

LEMMA AnswerUse == ASSUME SInv, NEW k \in Children, Answer(k) PROVE UseInv'
<1>0. child \in [Children -> ChildType] /\ child[k].in \in Callers /\ child[k].out = None
  BY DEF SInv, Types, Answer, ChildType
<1>1. PICK v \in BOOLEAN :
        child' = [child EXCEPT ![k].in = None,
                               ![k].out = [to |-> child[k].in, revoked |-> v],
                               ![k].tainted = @ \/ v]
  BY Zenon DEF Answer
<1>2. UNCHANGED <<free, slot, proc, standby, wchild, wpc, pc>> /\ child[k].st = "alive"
  BY DEF Answer, spare, warm, calls
<1>3. /\ child'[k].in = None /\ child'[k].out = [to |-> child[k].in, revoked |-> v]
      /\ child'[k].tainted = (child[k].tainted \/ v) /\ child'[k].st = "alive"
      /\ \A x \in Children : x # k => child'[x] = child[x]
  BY <1>0, <1>1, <1>2 DEF ChildType
<1>4. \A d \in Callers, x \in Children : WaitsOn(d, x)' <=> WaitsOn(d, x)
  BY <1>2, SMTT(20) DEF WaitsOn
<1>5. CallInv'
  BY <1>2, SMTT(20) DEF SInv, CallInv, Taken
<1>6. \A x \in Children : child'[x].st # "none" <=> child[x].st # "none"
  BY <1>2, <1>3, SMTT(20)
<1>7. PlaceInv'
  BY <1>2, <1>6 DEF SInv, PlaceInv, Distinct
<1>8. Pipes(k)'
  <2>1. Pipes(k) /\ child[k].in # None
    BY <1>0, SupervisorAssumption, SMTT(20) DEF SInv, PipeInv
  <2>2. \A d \in Callers : WaitsOn(d, k) => child[k].in = d
    BY <2>1, SMTT(20) DEF Pipes
  <2>3. \E d \in Callers : WaitsOn(d, k)
    BY <2>1, SMTT(20) DEF Pipes
  <2>4. KeepAfterRevoked \/ ~child[k].tainted
    BY <1>0, <2>1, SMTT(20) DEF Pipes
  <2>5. /\ child'[k].out.to = child[k].in /\ child'[k].out.revoked = v
    BY <1>3
  <2>6. ~KeepAfterRevoked /\ child'[k].tainted => child'[k].out.revoked
    BY <1>3, <2>4, <2>5, Zenon
  <2>7. child'[k].out # None
    <3>1. [to |-> child[k].in, revoked |-> v] \in [to : Callers, revoked : BOOLEAN]
      BY <1>0
    <3>2. QED BY <1>3, <3>1, SupervisorAssumption
  <2>8. QED BY <1>3, <1>4, <2>2, <2>3, <2>5, <2>6, <2>7, Zenon DEF Pipes
<1>9. ASSUME NEW x \in Children PROVE Pipes(x)'
  <2>1. CASE x # k
    BY <1>3, <1>4, <2>1, PipesSame DEF SInv, PipeInv
  <2>2. QED BY <1>8, <2>1, SMTT(20)
<1>10. QED BY <1>5, <1>7, <1>9 DEF UseInv, PipeInv

LEMMA FailUse == ASSUME SInv, NEW k \in Children, Fail(k) PROVE UseInv'
<1>0. child \in [Children -> ChildType]
  BY DEF SInv, Types
<1>1. PICK x \in {"hung", "dead"} : child' = [child EXCEPT ![k].st = x]
  BY DEF Fail
<1>2. UNCHANGED <<free, slot, proc, standby, wchild, wpc, pc>> /\ child[k].st # "none"
  BY DEF Fail, spare, warm, calls
<1>3. /\ child'[k].in = child[k].in /\ child'[k].out = child[k].out
      /\ child'[k].tainted = child[k].tainted /\ child'[k].st # "none"
      /\ \A y \in Children : y # k => child'[y] = child[y]
  BY <1>0, <1>1 DEF ChildType
<1>4. \A d \in Callers, y \in Children : WaitsOn(d, y)' <=> WaitsOn(d, y)
  BY <1>2 DEF WaitsOn
<1>5. CallInv'
  BY <1>2, Zenon DEF SInv, CallInv, Taken
<1>6. \A y \in Children : child'[y].st # "none" <=> child[y].st # "none"
  BY <1>2, <1>3, SMTT(20)
<1>7. PlaceInv'
  BY <1>2, <1>6 DEF SInv, PlaceInv, Distinct
<1>8. Pipes(k)'
  <2>1. Pipes(k)
    BY DEF SInv, PipeInv
  <2>2. QED BY <1>3, <1>4, <2>1, Zenon DEF Pipes
<1>9. ASSUME NEW y \in Children PROVE Pipes(y)'
  <2>1. CASE y # k
    BY <1>3, <1>4, <2>1, PipesSame, Zenon DEF SInv, PipeInv
  <2>2. QED BY <1>8, <2>1
<1>10. QED BY <1>5, <1>7, <1>9 DEF UseInv, PipeInv

LEMMA WarmSpawnUse == ASSUME SInv, WarmSpawn PROVE UseInv'
<1>0. child \in [Children -> ChildType] /\ None \notin Children
  BY SupervisorAssumption DEF SInv, Types
<1>1. PICK k \in Children : spawn(k) /\ wchild' = k
  BY DEF WarmSpawn
<1>2. /\ wpc = "fill" /\ wpc' = "put" /\ UNCHANGED <<free, slot, proc, standby, pc>>
  BY DEF WarmSpawn, spare, calls
<1>3. /\ child' = [child EXCEPT ![k] = Fresh] /\ \A x \in Slots : proc[x] # k
      /\ k \notin Range(standby)
  BY <1>1, SpawnUse
<1>4. wchild = None
  BY <1>2, SMTT(20) DEF SInv, PlaceInv
<1>5. CallInv'
  BY <1>2 DEF SInv, CallInv, Taken
<1>6. \A d \in Callers, y \in Children : WaitsOn(d, y)' <=> WaitsOn(d, y)
  BY <1>2 DEF WaitsOn
<1>7. ASSUME NEW y \in Children
      PROVE  child'[y].st # "none" <=>
               (\E s \in Slots : proc'[s] = y) \/ y \in Range(standby') \/ wchild' = y
  <2>1. CASE y = k
    BY <1>0, <1>1, <1>3, <2>1, SMTT(20) DEF Fresh
  <2>2. CASE y # k
    BY <1>0, <1>1, <1>2, <1>3, <1>4, <2>2, SMTT(20) DEF SInv, PlaceInv
  <2>3. QED BY <2>1, <2>2, SMTT(20)
<1>8. PlaceInv'
  BY <1>0, <1>1, <1>2, <1>3, <1>7 DEF SInv, PlaceInv, Distinct
<1>9. ASSUME NEW y \in Children PROVE Pipes(y)'
  <2>1. CASE y = k
    BY <1>0, <1>3, <2>1, PipesClean
  <2>2. CASE y # k
    BY <1>0, <1>3, <1>6, <2>2, PipesSame DEF SInv, PipeInv
  <2>3. QED BY <2>1, <2>2
<1>10. QED BY <1>5, <1>8, <1>9, SMTT(20) DEF UseInv, PipeInv

LEMMA WarmPutUse == ASSUME SInv, WarmPut PROVE UseInv'
<1>0. /\ standby \in Seq(Children) /\ Distinct(standby) /\ wchild \in Children
      /\ None \notin Children /\ wchild \notin Range(standby)
  BY SupervisorAssumption, Zenon DEF SInv, Types, PlaceInv, WarmPut
<1>1. /\ Distinct(Append(standby, wchild))
      /\ Range(Append(standby, wchild)) = Range(standby) \cup {wchild}
  BY <1>0, PutLast
<1>2. /\ standby' = Append(standby, wchild) /\ wchild' = None /\ wpc' = "fill"
      /\ UNCHANGED <<free, slot, proc, child, pc>>
  BY DEF WarmPut, pool, calls
<1>3. PICK q : q = standby' /\ Distinct(q) /\ Range(q) = Range(standby) \cup {wchild}
  BY <1>1, <1>2, Zenon
<1>4. CallInv'
  BY <1>2, Zenon DEF SInv, CallInv, Taken
<1>5. PlaceInv'
  <2>1. \A s \in Slots : proc[s] # wchild
    BY <1>0, SMTT(20) DEF SInv, PlaceInv
  <2>2. \A s \in Slots : proc'[s] \notin Range(standby')
    BY <1>2, <1>3, <2>1, SMTT(20) DEF SInv, PlaceInv
  <2>3. ASSUME NEW y \in Children
        PROVE  child'[y].st # "none" <=>
                 (\E s \in Slots : proc'[s] = y) \/ y \in Range(standby') \/ wchild' = y
    BY <1>0, <1>2, <1>3 DEF SInv, PlaceInv
  <2>4. Distinct(standby)'
    BY <1>3 DEF Distinct
  <2>5. /\ \A s, t \in Slots : proc'[s] # None /\ proc'[s] = proc'[t] => s = t
        /\ wchild' = None /\ wpc' # "put"
    BY <1>2, Zenon DEF SInv, PlaceInv
  <2>6. QED BY <2>2, <2>3, <2>4, <2>5, SMTT(20) DEF PlaceInv
<1>6. ASSUME NEW y \in Children PROVE Pipes(y)'
  <2>1. \A d \in Callers : WaitsOn(d, y)' <=> WaitsOn(d, y)
    BY <1>2, SMTT(20) DEF WaitsOn
  <2>2. QED BY <1>2, <2>1, PipesSame, SMTT(20) DEF SInv, PipeInv
<1>7. QED BY <1>4, <1>5, <1>6 DEF UseInv, PipeInv

LEMMA WarmDropUse == ASSUME SInv, WarmDrop PROVE UseInv'
<1>0. child \in [Children -> ChildType] /\ None \notin Children
  BY SupervisorAssumption DEF SInv, Types
<1>1. PICK k \in Children : k = wchild /\ k \notin Range(standby) /\ \A s \in Slots : proc[s] # k
  BY DEF WarmDrop, SInv, Types, PlaceInv
<1>2. /\ child' = [child EXCEPT ![k] = NoChild] /\ wchild' = None /\ wpc' = "exited"
      /\ UNCHANGED <<free, slot, proc, standby, pc>>
  BY <1>1, SMTT(20) DEF WarmDrop, spare, calls
<1>3. CallInv'
  BY <1>2, SMTT(20) DEF SInv, CallInv, Taken
<1>4. ASSUME NEW y \in Children
      PROVE  child'[y].st # "none" <=>
               (\E s \in Slots : proc'[s] = y) \/ y \in Range(standby') \/ wchild' = y
  <2>1. CASE y = k
    BY <1>0, <1>1, <1>2, <2>1 DEF NoChild
  <2>2. CASE y # k
    BY <1>0, <1>1, <1>2, <2>2, SMTT(20) DEF SInv, PlaceInv
  <2>3. QED BY <2>1, <2>2
<1>5. PlaceInv'
  BY <1>2, <1>4 DEF SInv, PlaceInv, Distinct
<1>6. ASSUME NEW y \in Children PROVE Pipes(y)'
  <2>1. \A d \in Callers : WaitsOn(d, y)' <=> WaitsOn(d, y)
    BY <1>2 DEF WaitsOn
  <2>2. CASE y = k
    BY <1>0, <1>2, <2>2, PipesClean
  <2>3. CASE y # k
    BY <1>0, <1>2, <2>1, <2>3, PipesSame DEF SInv, PipeInv
  <2>4. QED BY <2>2, <2>3
<1>7. QED BY <1>3, <1>5, <1>6 DEF UseInv, PipeInv

\* Close takes a slot nobody has, so nobody waits on its child.
LEMMA CloseSlotUse == ASSUME SInv, CloseSlot PROVE UseInv'
<1>0. /\ free \in Seq(Slots) /\ Distinct(free) /\ slot \in [Callers -> Slots \cup {None}]
      /\ None \notin Slots /\ proc \in [Slots -> Children \cup {None}]
  BY SupervisorAssumption, Zenon DEF SInv, Types, SlotInv, SlotsConserved, Distinct
<1>1. PICK h \in Slots, t \in Seq(Slots) :
        h = Head(free) /\ t = Tail(free) /\ h \in Range(free) /\ Range(t) = Range(free) \ {h}
  BY <1>0, TakeHead, Zenon DEF CloseSlot
<1>2. /\ free' = t /\ retire(h) /\ UNCHANGED <<slot, pc, standby, wchild, wpc>>
  BY <1>1 DEF CloseSlot, warm, calls
<1>3. \A c \in Callers : slot[c] # h
  BY <1>0, <1>1, SMTT(20) DEF SInv, SlotInv, SlotsConserved
<1>4. /\ PlaceInv' /\ proc' = [proc EXCEPT ![h] = None]
      /\ \A x \in Children : /\ x = proc[h] => child'[x] = NoChild
                             /\ x # proc[h] => child'[x] = child[x]
  BY <1>2, RetirePlaces, SMTT(20)
<1>5. \A c \in Callers : pc[c] \in Held => slot[c] \in Slots /\ proc'[slot[c]] = proc[slot[c]]
  BY <1>0, <1>3, <1>4, CallHas
<1>6. CallInv'
  <2>1. \A x \in Slots : Taken(x)' => x = h \/ Taken(x)
    BY <1>1, <1>2, SMTT(20) DEF Taken
  <2>2. \A x \in Slots : Taken(x)' => proc'[x] = None
    BY <1>0, <1>4, <2>1 DEF SInv, CallInv
  <2>3. QED BY <1>2, <1>5, <2>2, Zenon DEF SInv, CallInv, Held
<1>7. ASSUME NEW y \in Children PROVE Pipes(y)'
  <2>1. \A d \in Callers : WaitsOn(d, y)' <=> WaitsOn(d, y)
    BY <1>2, <1>5, SMTT(20) DEF WaitsOn, Held
  <2>2. CASE y = proc[h]
    BY <1>4, <2>2, PipesClean
  <2>3. CASE y # proc[h]
    BY <1>4, <2>1, <2>3, PipesSame, Zenon DEF SInv, PipeInv
  <2>4. QED BY <2>2, <2>3, SMTT(20)
<1>8. QED BY <1>4, <1>6, <1>7 DEF UseInv, PipeInv

LEMMA CloseStandbyUse == ASSUME SInv, CloseStandby, standby # << >> PROVE UseInv'
<1>0. /\ standby \in Seq(Children) /\ Distinct(standby) /\ child \in [Children -> ChildType]
      /\ None \notin Children
  BY SupervisorAssumption, Zenon DEF SInv, Types, PlaceInv
<1>1. PICK h \in Children, t \in Seq(Children) :
        /\ h = Head(standby) /\ t = Tail(standby) /\ h \in Range(standby) /\ Distinct(t)
        /\ Range(t) = Range(standby) \ {h}
  BY <1>0, TakeHead, Zenon
<1>2. /\ child' = [child EXCEPT ![h] = NoChild] /\ standby' = t
      /\ UNCHANGED <<free, slot, proc, wchild, wpc, pc>>
  BY <1>1, SMTT(20) DEF CloseStandby, warm, calls
<1>3. CallInv'
  BY <1>2, SMTT(20) DEF SInv, CallInv, Taken
<1>4. ASSUME NEW y \in Children
      PROVE  child'[y].st # "none" <=>
               (\E s \in Slots : proc'[s] = y) \/ y \in Range(standby') \/ wchild' = y
  <2>1. CASE y = h
    <3>1. child'[y].st = "none"
      BY <1>0, <1>2, <2>1, SMTT(20) DEF NoChild
    <3>2. QED BY <1>0, <1>1, <1>2, <2>1, <3>1, SMTT(20) DEF SInv, PlaceInv
  <2>2. CASE y # h
    BY <1>0, <1>1, <1>2, <2>2, SMTT(20) DEF SInv, PlaceInv
  <2>3. QED BY <2>1, <2>2, SMTT(20)
<1>5. /\ \A s \in Slots : proc'[s] \notin Range(standby')
      /\ wchild' # None => wchild' \notin Range(standby') /\ \A s \in Slots : proc'[s] # wchild'
      /\ wchild' # None <=> wpc' = "put"
      /\ \A s, u \in Slots : proc'[s] # None /\ proc'[s] = proc'[u] => s = u
  BY <1>1, <1>2 DEF SInv, PlaceInv
<1>6. Distinct(standby)'
  BY <1>1, <1>2, SMTT(20) DEF Distinct
<1>7. PlaceInv'
  BY <1>4, <1>5, <1>6 DEF PlaceInv
<1>8. ASSUME NEW y \in Children PROVE Pipes(y)'
  <2>1. \A d \in Callers : WaitsOn(d, y)' <=> WaitsOn(d, y)
    BY <1>2 DEF WaitsOn
  <2>2. CASE y = h
    BY <1>0, <1>2, <2>2, PipesClean
  <2>3. CASE y # h
    BY <1>0, <1>2, <2>1, <2>3, PipesSame DEF SInv, PipeInv
  <2>4. QED BY <2>2, <2>3, SMTT(20)
<1>9. QED BY <1>3, <1>7, <1>8 DEF UseInv, PipeInv

\* The steps of calls, the warmer and Close that move no slot and no child.
LEMMA StillNext ==
  ASSUME SInv,
         \/ \E c \in Callers : \/ Call(c) \/ CancelCall(c) \/ CheckClosed(c) \/ GiveUp(c)
                               \/ ColdStartFails(c)
         \/ WarmWake \/ WarmStop \/ WarmFull \/ WarmSpawnFails \/ WarmWoken
         \/ CloseBegin \/ CloseStop \/ CloseWait \/ (CloseStandby /\ standby = << >>)
  PROVE  Still
<1> USE DEF pool, spare, ends, warm, calls, Held, Still
<1>0. pc \in [Callers -> PC]
  BY SMTT(20) DEF SInv, Types
<1>1. ASSUME NEW c \in Callers, Call(c) \/ CancelCall(c) PROVE Still
  BY <1>0, <1>1 DEF Call, CancelCall
<1>2. ASSUME NEW c \in Callers, CheckClosed(c) \/ GiveUp(c) \/ ColdStartFails(c) PROVE Still
  BY <1>0, <1>2, Zenon DEF CheckClosed, GiveUp, Over, ColdStartFails
<1>3. ASSUME WarmWake \/ WarmStop \/ WarmFull \/ WarmSpawnFails \/ WarmWoken PROVE Still
  BY <1>3, ZenonT(30) DEF WarmWake, WarmStop, WarmFull, WarmSpawnFails, WarmWoken
<1>4. ASSUME CloseBegin \/ CloseStop \/ CloseWait PROVE Still
  BY <1>4, SMTT(20) DEF CloseBegin, CloseStop, CloseWait
<1>5. ASSUME CloseStandby, standby = << >> PROVE Still
  BY <1>5, SMTT(20) DEF CloseStandby
<1>6. QED BY <1>1, <1>2, <1>3, <1>4, <1>5, Zenon

LEMMA UseNext == ASSUME SInv, Next PROVE UseInv'
<1>1. ASSUME NEW c \in Callers, Lost(c) \/ Timeout(c) \/ CtxEnds(c) \/ Garbled(c) PROVE UseInv'
  <2>1. pc[c] \in {"send", "wait"} /\ \E again : Abandon(c, again)
    BY <1>1, Zenon DEF Lost, Timeout, CtxEnds, Garbled
  <2>2. /\ retire(slot[c]) /\ pc' = [pc EXCEPT ![c] = "return"]
        /\ UNCHANGED <<free, slot, standby, wchild, wpc>>
    BY <2>1, Zenon DEF Abandon, warm
  <2>3. QED BY <2>1, <2>2, RetireUse, Zenon
<1>2. ASSUME NEW c \in Callers, Receive(c) PROVE UseInv'
  <2>1. CASE retire(slot[c])
    <3>1. /\ pc[c] \in {"send", "wait"} /\ pc' = [pc EXCEPT ![c] = "return"]
          /\ UNCHANGED <<free, slot, standby, wchild, wpc>>
      BY <1>2 DEF Receive, warm
    <3>2. QED BY <2>1, <3>1, RetireUse, Zenon
  <2>2. QED BY <1>2, <2>1, KeepUse
<1>3. ASSUME NEW c \in Callers,
             \/ Acquire(c) \/ ReturnSlot(c) \/ takeStandby(c) \/ ColdStart(c) \/ Send(c)
      PROVE  UseInv'
  BY <1>3, AcquireUse, ReturnUse, TakeStandbyUse, ColdStartUse, SendUse
<1>4. ASSUME NEW k \in Children, Answer(k) \/ Fail(k) PROVE UseInv'
  BY <1>4, AnswerUse, FailUse
<1>5. ASSUME WarmSpawn \/ WarmPut \/ WarmDrop \/ CloseSlot PROVE UseInv'
  BY <1>5, WarmSpawnUse, WarmPutUse, WarmDropUse, CloseSlotUse
<1>6. ASSUME CloseStandby, standby # << >> PROVE UseInv'
  BY <1>6, CloseStandbyUse
<1>7. QED
  BY <1>1, <1>2, <1>3, <1>4, <1>5, <1>6, StillNext, StillUse DEF Next, InCall, Warmer, Closer

=============================================================================
