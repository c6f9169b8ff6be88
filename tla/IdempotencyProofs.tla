------------------------- MODULE IdempotencyProofs --------------------------
(***************************************************************************)
(* For any number of requests, keys, entries and any size of the cache:    *)
(* whoever waits on an entry is served, what is replayed is a success of   *)
(* the same key, the list and the index agree, and fn runs once per key.   *)
(*                                                                         *)
(* The first part is about ownership of the done channel.  An entry that   *)
(* is not done and can still be reached, by the index or by a waiter, has  *)
(* the one request that registered it, which has still to close it.  The   *)
(* list of the recently used decides only which keys leave the index, and  *)
(* plays no part: an index that loses any keys at any time keeps the       *)
(* invariant.  The second part adds the list and the history of successes. *)
(***************************************************************************)
EXTENDS Idempotency, TLAPS

EntryType == [key : Keys \cup {None}, state : {"running", "ok", "refused", "panic"},
              done : BOOLEAN, expired : BOOLEAN]

\* What the proof needs of the types: everything but the list.
Shape ==
  /\ byKey \in [Keys -> Entries \cup {None}]
  /\ entry \in [Entries -> EntryType]
  /\ pc \in [Callers -> {"idle", "run", "close", "wait", "reply", "direct"}]
  /\ key \in [Callers -> Keys \cup {None}]
  /\ mine \in [Callers -> Entries \cup {None}]
  /\ got \in [Callers -> Entries \cup {None}]

\* The request that registered the entry and has still to close its channel.
Owns(c, e) == pc[c] \in {"run", "close"} /\ mine[c] = e

\* What a request holds while it is inside Do.
Holds(c) ==
  /\ pc[c] \in {"idle", "direct"} => mine[c] = None
  /\ pc[c] \in {"run", "close", "wait", "reply"} =>
       mine[c] \in Entries /\ key[c] \in Keys /\ entry[mine[c]].key = key[c]
  /\ pc[c] \in {"run", "close"} => ~entry[mine[c]].done
  /\ pc[c] = "run" => entry[mine[c]].state = "running"
  /\ pc[c] = "close" => entry[mine[c]].state # "running"
  /\ pc[c] = "reply" => entry[mine[c]].done
  /\ pc[c] = "reply" /\ got[c] # None => got[c] = mine[c] /\ entry[got[c]].state = "ok"

\* What the index says of an entry.
Indexed(k) ==
  byKey[k] # None =>
    /\ byKey[k] \in Entries /\ entry[byKey[k]].key = k
    /\ entry[byKey[k]].state \in {"running", "ok"}
    /\ entry[byKey[k]].done => entry[byKey[k]].state = "ok"
    /\ ~entry[byKey[k]].done => \E c \in Callers : Owns(c, byKey[k])

OneOwner == \A c, d \in Callers : \A e \in Entries : Owns(c, e) /\ Owns(d, e) => c = d

\* The inductive invariant.
ServedInv ==
  /\ Shape /\ OneOwner /\ WaitersAreServed
  /\ \A c \in Callers : Holds(c)
  /\ \A k \in Keys : Indexed(k)

\* Collect (the garbage collector) keeps whatever is indexed or referred to.
LEMMA CollectKeeps ==
  ASSUME NEW ent, NEW list, NEW index \in [Keys -> Entries \cup {None}],
         NEW refs \in [Callers -> Entries \cup {None}], NEW e \in Entries,
         (\E k \in Keys : index[k] = e) \/ (\E c \in Callers : refs[c] = e)
  PROVE  Collect(ent, index, list, refs)[e] = ent[e]
<1>1. e \in Range(index) \cup Range(refs)
  BY DEF Range
<1>2. QED BY <1>1 DEF Collect

LEMMA CollectType ==
  ASSUME NEW ent \in [Entries -> EntryType], NEW list, NEW index, NEW refs
  PROVE  Collect(ent, index, list, refs) \in [Entries -> EntryType]
<1>1. NoEntry \in EntryType
  BY DEF NoEntry, EntryType
<1>2. QED BY <1>1 DEF Collect

LEMMA ServedInit == Init => ServedInv
BY IdemAssumption DEF Init, ServedInv, Shape, OneOwner, WaitersAreServed, Holds, Indexed, Owns,
   NoEntry, EntryType

LEMMA ReplayServed ==
  ASSUME ServedInv, NEW c \in Callers, NEW k \in Keys, Replay(c, k)
  PROVE  ServedInv'
<1>0. Shape' /\ OneOwner'
  BY IdemAssumption DEF Replay, ServedInv, Shape, OneOwner, Owns, Indexed, history
<1>1. WaitersAreServed'
  BY IdemAssumption DEF Replay, ServedInv, Shape, WaitersAreServed, Owns, Indexed, history
<1>2. ASSUME NEW d \in Callers PROVE Holds(d)'
  BY IdemAssumption DEF Replay, ServedInv, Shape, Holds, Indexed, history
<1>3. ASSUME NEW j \in Keys PROVE Indexed(j)'
  BY IdemAssumption DEF Replay, ServedInv, Shape, Holds, Indexed, Owns, history
<1>4. QED BY <1>0, <1>1, <1>2, <1>3 DEF ServedInv

LEMMA CoalesceServed ==
  ASSUME ServedInv, NEW c \in Callers, NEW k \in Keys, Coalesce(c, k)
  PROVE  ServedInv'
<1>1. Shape' /\ OneOwner'
  BY IdemAssumption DEF Coalesce, ServedInv, Shape, OneOwner, Owns, Indexed, history, cache
<1>2. WaitersAreServed'
  BY IdemAssumption DEF Coalesce, ServedInv, Shape, WaitersAreServed, Owns, Indexed, history, cache
<1>3. ASSUME NEW d \in Callers PROVE Holds(d)'
  BY IdemAssumption DEF Coalesce, ServedInv, Shape, Holds, Indexed, history, cache
<1>4. ASSUME NEW j \in Keys PROVE Indexed(j)'
  BY IdemAssumption DEF Coalesce, ServedInv, Shape, Holds, Indexed, Owns, history, cache
<1>5. QED BY <1>1, <1>2, <1>3, <1>4 DEF ServedInv

\* Whatever removeLocked and evictLocked drop from the index, and whatever the
\* list is: of a registration the index keeps old entries under their own keys
\* and gets at most the new one, under the key that was asked for.
LEMMA RegisterIndex ==
  ASSUME ServedInv, NEW c \in Callers, NEW k \in Keys, RegisterNew(c, k)
  PROVE  \E e \in Entries :
           /\ entry[e] = NoEntry
           /\ byKey' \in [Keys -> Entries \cup {None}]
           /\ \A y \in Keys : \/ byKey'[y] = None
                              \/ y # k /\ byKey'[y] = byKey[y]
                              \/ y = k /\ byKey'[y] = e
           /\ mine' = [mine EXCEPT ![c] = e]
           /\ \E list : entry' = Collect([entry EXCEPT ![e].key = k], byKey', list, mine')
<1> DEFINE kept == IF byKey[k] = None THEN <<byKey, lru>>
                                      ELSE removeLocked(byKey[k], byKey, lru)
           after(e) == evictLocked(e, k, [kept[1] EXCEPT ![k] = e], <<e>> \o kept[2])
<1>1. PICK e \in Entries :
        /\ entry[e] = NoEntry
        /\ byKey' = after(e)[1]
        /\ mine' = [mine EXCEPT ![c] = e]
        /\ entry' = Collect([entry EXCEPT ![e].key = k], byKey', lru', mine')
  BY Zenon DEF RegisterNew
<1>2. /\ kept[1] \in [Keys -> Entries \cup {None}]
      /\ \A y \in Keys \ {k} : kept[1][y] \in {byKey[y], None}
  <2>1. CASE byKey[k] = None
    BY <2>1 DEF ServedInv, Shape
  <2>2. CASE byKey[k] # None
    <3>1. kept[1] = [byKey EXCEPT ![k] = None]
      BY <2>2, Zenon DEF removeLocked, ServedInv, Indexed
    <3>2. QED BY <3>1, Zenon DEF ServedInv, Shape
  <2>3. QED BY <2>1, <2>2
<1> DEFINE index == [kept[1] EXCEPT ![k] = e]
<1>3. /\ index \in [Keys -> Entries \cup {None}]
      /\ \A y \in Keys : (y = k /\ index[y] = e) \/ (y # k /\ index[y] \in {byKey[y], None})
  <2> HIDE DEF kept
  <2> QED BY <1>2
<1>4. byKey' \in [Keys -> Entries \cup {None}] /\ \A y \in Keys : byKey'[y] \in {index[y], None}
  <2> HIDE DEF index, kept
  <2>1. byKey' = evictLocked(e, k, index, <<e>> \o kept[2])[1]
    BY <1>1 DEF index
  <2>2. QED BY <2>1, <1>3 DEF evictLocked
<1> HIDE DEF index, kept, after
<1>5. QED BY <1>1, <1>3, <1>4, Zenon

\* RegisterNew: the new entry was unreachable, so nobody else waits on it or
\* owns it, and whatever can still be reached keeps its record.
LEMMA RegisterServed ==
  ASSUME ServedInv, NEW c \in Callers, NEW k \in Keys, Register(c, k)
  PROVE  ServedInv'
<1>0. RegisterNew(c, k) /\ pc[c] = "idle"
  BY DEF Register
<1>1. PICK e \in Entries :
        /\ entry[e] = NoEntry
        /\ byKey' \in [Keys -> Entries \cup {None}]
        /\ \A y \in Keys : \/ byKey'[y] = None
                           \/ y # k /\ byKey'[y] = byKey[y]
                           \/ y = k /\ byKey'[y] = e
        /\ mine' = [mine EXCEPT ![c] = e]
        /\ \E list : entry' = Collect([entry EXCEPT ![e].key = k], byKey', list, mine')
  BY <1>0, RegisterIndex, Zenon
<1>2. /\ key' = [key EXCEPT ![c] = k] /\ pc' = [pc EXCEPT ![c] = "run"]
      /\ got' = got
  BY <1>0 DEF RegisterNew
<1> DEFINE ent == [entry EXCEPT ![e].key = k]
<1>3. /\ ent \in [Entries -> EntryType]
      /\ ent[e] = [NoEntry EXCEPT !.key = k]
      /\ \A x \in Entries \ {e} : ent[x] = entry[x]
  BY <1>1, Zenon DEF ServedInv, Shape, EntryType, NoEntry
<1>4. Shape'
  <2> HIDE DEF ent
  <2>1. entry' \in [Entries -> EntryType]
    <3>1. PICK list : entry' = Collect(ent, byKey', list, mine')
      BY <1>1 DEF ent
    <3>2. ent \in [Entries -> EntryType]
      BY <1>3
    <3>3. QED BY <3>1, <3>2, CollectType
  <2>2. QED BY <2>1, <1>1, <1>2, Zenon DEF ServedInv, Shape
<1>5. /\ \A d \in Callers \ {c} : mine[d] # e
      /\ \A j \in Keys : byKey[j] # e
  <2>1. entry[e].key = None
    BY <1>1 DEF NoEntry
  <2>2. QED BY <2>1, IdemAssumption DEF ServedInv, Shape, Holds, Indexed
<1>6. ASSUME NEW x \in Entries,
             (\E d \in Callers : mine'[d] = x) \/ (\E j \in Keys : byKey'[j] = x)
      PROVE  entry'[x] = ent[x]
  <2>1. mine' \in [Callers -> Entries \cup {None}]
    BY <1>4 DEF Shape
  <2> HIDE DEF ent
  <2>2. PICK list : entry' = Collect(ent, byKey', list, mine')
    BY <1>1 DEF ent
  <2>3. byKey' \in [Keys -> Entries \cup {None}]
    BY <1>1
  <2>4. Collect(ent, byKey', list, mine')[x] = ent[x]
    BY <1>6, <2>1, <2>3, CollectKeeps
  <2>5. QED BY <2>2, <2>4
<1> HIDE DEF ent
<1>7. entry'[e] = [NoEntry EXCEPT !.key = k] /\ mine'[c] = e
  BY <1>1, <1>3, <1>6, Zenon DEF ServedInv, Shape
<1>8. \A d \in Callers \ {c} : /\ mine'[d] = mine[d] /\ pc'[d] = pc[d] /\ key'[d] = key[d]
                               /\ mine[d] \in Entries => entry'[mine[d]] = entry[mine[d]]
  BY <1>1, <1>2, <1>3, <1>5, <1>6, Zenon DEF ServedInv, Shape
<1>9. OneOwner'
  BY <1>2, <1>5, <1>7, <1>8 DEF ServedInv, Shape, OneOwner, Owns
<1>10. WaitersAreServed'
  <2> SUFFICES ASSUME NEW d \in Callers, pc'[d] = "wait"
               PROVE  \/ entry'[mine'[d]].done
                      \/ \E b \in Callers : mine'[b] = mine'[d] /\ pc'[b] \in {"run", "close"}
    BY DEF WaitersAreServed
  <2>1. d # c /\ pc[d] = "wait" /\ mine[d] \in Entries
    BY <1>2, <1>8 DEF ServedInv, Shape, Holds
  <2>2. entry[mine[d]].done \/ \E b \in Callers : mine[b] = mine[d] /\ pc[b] \in {"run", "close"}
    BY <2>1 DEF ServedInv, WaitersAreServed
  <2>3. ASSUME NEW b \in Callers, mine[b] = mine[d], pc[b] \in {"run", "close"}
        PROVE  b # c
    BY <1>0, <2>3
  <2>4. QED BY <1>8, <2>1, <2>2, <2>3
<1>11. ASSUME NEW d \in Callers PROVE Holds(d)'
  <2>1. CASE d = c
    BY <2>1, <1>1, <1>2, <1>7, IdemAssumption DEF ServedInv, Shape, Holds, NoEntry
  <2>2. CASE d # c
    BY <2>2, <1>2, <1>8, IdemAssumption DEF ServedInv, Shape, Holds
  <2>3. QED BY <2>1, <2>2
<1>12. ASSUME NEW j \in Keys PROVE Indexed(j)'
  <2>1. CASE byKey'[j] = e
    <3>1. j = k
      BY <1>1, <1>5, <2>1, IdemAssumption
    <3>2. Owns(c, e)'
      BY <1>2, <1>7 DEF Owns, ServedInv, Shape
    <3>3. QED BY <2>1, <3>1, <3>2, <1>7 DEF Indexed, NoEntry
  <2>2. CASE byKey'[j] # e /\ byKey'[j] # None
    <3>1. byKey'[j] = byKey[j] /\ byKey[j] \in Entries /\ entry'[byKey[j]] = entry[byKey[j]]
      BY <1>1, <1>3, <1>6, <2>2, ZenonT(30)
    <3>2. \A d \in Callers : Owns(d, byKey[j]) => Owns(d, byKey[j])'
      BY <1>0, <1>8, <3>1 DEF Owns
    <3>3. QED BY <2>2, <3>1, <3>2 DEF Indexed, ServedInv
  <2>3. QED BY <2>1, <2>2 DEF Indexed
<1>13. QED BY <1>4, <1>9, <1>10, <1>11, <1>12 DEF ServedInv

\* StoreOk and StoreError: the record of a running entry gets its outcome; one
\* that failed is not, or no longer, in the index.
LEMMA StoreServed ==
  ASSUME ServedInv, NEW c \in Callers, StoreOk(c) \/ StoreError(c)
  PROVE  ServedInv'
<1>0. PICK o \in {"ok", "refused", "panic"} :
        /\ entry' = [entry EXCEPT ![mine[c]].state = o]
        /\ o # "ok" => byKey' = IF byKey[key[c]] = mine[c]
                                THEN [byKey EXCEPT ![key[c]] = None] ELSE byKey
        /\ o = "ok" => byKey' = byKey
  <2>1. CASE StoreOk(c)
    BY <2>1 DEF StoreOk
  <2>2. CASE StoreError(c)
    <3>1. entry[mine[c]].key = key[c]
      BY <2>2 DEF StoreError, ServedInv, Holds
    <3>2. QED BY <2>2, <3>1, Zenon DEF StoreError, removeLocked
  <2>3. QED BY <2>1, <2>2
<1>1. /\ pc[c] = "run" /\ pc' = [pc EXCEPT ![c] = "close"]
      /\ UNCHANGED <<key, mine, got>>
  BY DEF StoreOk, StoreError
<1>2. mine[c] \in Entries /\ key[c] \in Keys /\ entry[mine[c]].key = key[c]
  BY <1>1 DEF ServedInv, Holds
<1>3. /\ entry' \in [Entries -> EntryType]
      /\ entry'[mine[c]] = [entry[mine[c]] EXCEPT !.state = o]
      /\ \A x \in Entries \ {mine[c]} : entry'[x] = entry[x]
  BY <1>0, <1>2 DEF ServedInv, Shape, EntryType
<1>4. \A x \in Entries : entry'[x].key = entry[x].key /\ entry'[x].done = entry[x].done
  BY <1>2, <1>3 DEF ServedInv, Shape, EntryType
<1>5. Shape'
  BY <1>0, <1>1, <1>2, <1>3 DEF ServedInv, Shape
<1>6. OneOwner'
  BY <1>1 DEF ServedInv, Shape, OneOwner, Owns
<1>7. WaitersAreServed'
  BY <1>1, <1>4 DEF ServedInv, Shape, WaitersAreServed, Holds
<1>8. ASSUME NEW d \in Callers PROVE Holds(d)'
  <2>1. CASE d = c
    BY <2>1, <1>1, <1>2, <1>3, <1>4 DEF ServedInv, Shape, EntryType, Holds
  <2>2. CASE d # c /\ pc[d] \in {"run", "close"}
    <3>1. mine[d] # mine[c] /\ mine[d] \in Entries
      BY <2>2, <1>1, <1>2 DEF ServedInv, Holds, OneOwner, Owns
    <3>2. QED BY <2>2, <3>1, <1>1, <1>3 DEF ServedInv, Shape, Holds
  <2>3. CASE d # c /\ pc[d] = "reply"
    <3>1. mine[d] # mine[c] /\ mine[d] \in Entries
      BY <2>3, <1>1, <1>2 DEF ServedInv, Holds
    <3>2. QED BY <2>3, <3>1, <1>1, <1>3 DEF ServedInv, Shape, Holds
  <2>4. CASE d # c /\ pc[d] \in {"idle", "direct", "wait"}
    BY <2>4, <1>1, <1>4 DEF ServedInv, Shape, Holds
  <2>5. QED BY <2>1, <2>2, <2>3, <2>4 DEF ServedInv, Shape
<1>9. ASSUME NEW j \in Keys PROVE Indexed(j)'
  <2> SUFFICES ASSUME byKey'[j] # None PROVE Indexed(j)'
    BY DEF Indexed
  <2>1. byKey'[j] = byKey[j] /\ byKey[j] \in Entries /\ entry[byKey[j]].key = j
    BY <1>0, <1>2 DEF ServedInv, Shape, Indexed
  <2>2. \A d \in Callers : Owns(d, byKey[j]) => Owns(d, byKey[j])'
    BY <1>1, <2>1 DEF Owns, ServedInv, Shape
  <2>3. byKey[j] = mine[c] => o = "ok"
    BY <1>0, <1>2, <2>1 DEF ServedInv, Shape
  <2>4. QED BY <1>2, <1>3, <2>1, <2>2, <2>3 DEF ServedInv, Shape, EntryType, Indexed
<1>10. QED BY <1>5, <1>6, <1>7, <1>8, <1>9 DEF ServedInv

\* What CloseDone, WaitCancelled, Reply and DirectEnds have in common: the
\* request lets go of its entry, having closed its channel if it owned it.
Leaves(c, ent) ==
  /\ \/ pc[c] \in {"wait", "reply", "direct"} /\ ent = entry
     \/ pc[c] = "close" /\ ent = [entry EXCEPT ![mine[c]].done = TRUE]
  /\ \E v \in {"idle", "direct"} : pc' = [pc EXCEPT ![c] = v]
  /\ mine' = [mine EXCEPT ![c] = None]
  /\ got' = [got EXCEPT ![c] = None]
  /\ \E k \in Keys \cup {None} : key' = [key EXCEPT ![c] = k]
  /\ byKey' = byKey
  /\ entry' = Collect(ent, byKey, lru, mine')

LEMMA LeavesServed ==
  ASSUME ServedInv, NEW c \in Callers, NEW ent, Leaves(c, ent)
  PROVE  ServedInv'
<1>1. /\ \A d \in Callers \ {c} : /\ mine'[d] = mine[d] /\ pc'[d] = pc[d]
                                  /\ key'[d] = key[d] /\ got'[d] = got[d]
      /\ mine'[c] = None /\ pc'[c] \in {"idle", "direct"} /\ got'[c] = None
      /\ byKey' = byKey
  BY DEF Leaves, ServedInv, Shape
<1>2. /\ ent \in [Entries -> EntryType]
      /\ \A x \in Entries : /\ x # mine[c] => ent[x] = entry[x]
                            /\ ent[x].key = entry[x].key /\ ent[x].state = entry[x].state
                            /\ entry[x].done => ent[x].done
                            /\ Owns(c, x) => ent[x].done
                            /\ ~Owns(c, x) => ent[x] = entry[x]
  <2>1. CASE ent = entry /\ pc[c] \in {"wait", "reply", "direct"}
    BY <2>1 DEF ServedInv, Shape, Owns
  <2>2. CASE pc[c] = "close" /\ ent = [entry EXCEPT ![mine[c]].done = TRUE]
    <3>1. mine[c] \in Entries /\ entry \in [Entries -> EntryType]
      BY <2>2 DEF ServedInv, Shape, Holds
    <3>2. /\ ent \in [Entries -> EntryType]
          /\ ent[mine[c]] = [entry[mine[c]] EXCEPT !.done = TRUE]
          /\ \A x \in Entries \ {mine[c]} : ent[x] = entry[x]
      BY <2>2, <3>1, Zenon DEF EntryType
    <3>3. /\ ent[mine[c]].done /\ ent[mine[c]].key = entry[mine[c]].key
          /\ ent[mine[c]].state = entry[mine[c]].state
      BY <3>1, <3>2 DEF EntryType
    <3>4. \A x \in Entries : Owns(c, x) <=> x = mine[c]
      BY <2>2 DEF Owns
    <3>5. QED BY <3>1, <3>2, <3>3, <3>4, Zenon
  <2>3. QED BY <2>1, <2>2 DEF Leaves
<1>3. Shape'
  BY <1>2, CollectType DEF Leaves, ServedInv, Shape
<1>4. ASSUME NEW x \in Entries,
             (\E d \in Callers : mine'[d] = x) \/ (\E j \in Keys : byKey[j] = x)
      PROVE  entry'[x] = ent[x]
  <2>1. mine' \in [Callers -> Entries \cup {None}] /\ byKey \in [Keys -> Entries \cup {None}]
    BY <1>3 DEF Shape, ServedInv
  <2>2. Collect(ent, byKey, lru, mine')[x] = ent[x]
    BY <1>4, <2>1, CollectKeeps
  <2>3. QED BY <2>2 DEF Leaves
<1>5. OneOwner'
  BY <1>1 DEF ServedInv, OneOwner, Owns
<1>6. WaitersAreServed'
  <2> SUFFICES ASSUME NEW d \in Callers, pc'[d] = "wait"
               PROVE  \/ entry'[mine'[d]].done
                      \/ \E b \in Callers : mine'[b] = mine'[d] /\ pc'[b] \in {"run", "close"}
    BY DEF WaitersAreServed
  <2>1. d # c /\ pc[d] = "wait" /\ mine'[d] = mine[d] /\ mine[d] \in Entries
    BY <1>1 DEF ServedInv, Holds
  <2>2. entry'[mine[d]] = ent[mine[d]]
    BY <1>4, <2>1
  <2>3. entry[mine[d]].done \/ \E b \in Callers : mine[b] = mine[d] /\ pc[b] \in {"run", "close"}
    BY <2>1 DEF ServedInv, WaitersAreServed
  <2>4. CASE Owns(c, mine[d])
    BY <1>2, <2>1, <2>2, <2>4
  <2>5. CASE ~Owns(c, mine[d])
    BY <1>1, <1>2, <2>1, <2>2, <2>3, <2>5 DEF Owns
  <2>6. QED BY <2>4, <2>5
<1>7. ASSUME NEW d \in Callers PROVE Holds(d)'
  <2>1. CASE d = c
    BY <2>1, <1>1 DEF Holds
  <2>2. CASE d # c /\ mine[d] \in Entries
    <3>1. entry'[mine[d]] = ent[mine[d]] /\ mine'[d] = mine[d]
      BY <1>1, <1>4, <2>2
    <3>2. pc[d] \in {"run", "close"} => ent[mine[d]] = entry[mine[d]]
      BY <1>2, <2>2, SMTT(20) DEF ServedInv, OneOwner, Owns
    <3>3. QED BY <1>1, <1>2, <2>2, <3>1, <3>2 DEF ServedInv, Holds
  <2>3. CASE d # c /\ mine[d] \notin Entries
    BY <1>1, <2>3 DEF ServedInv, Holds
  <2>4. QED BY <2>1, <2>2, <2>3
<1>8. ASSUME NEW j \in Keys PROVE Indexed(j)'
  <2> SUFFICES ASSUME byKey[j] # None PROVE Indexed(j)'
    BY <1>1 DEF Indexed
  <2>1. byKey[j] \in Entries /\ byKey'[j] = byKey[j]
    BY <1>1 DEF ServedInv, Indexed
  <2>2. entry'[byKey[j]] = ent[byKey[j]]
    BY <1>4, <2>1
  <2>3. CASE Owns(c, byKey[j])
    <3>1. entry[byKey[j]].state # "running"
      BY <2>3 DEF Leaves, Owns, ServedInv, Holds
    <3>2. QED BY <1>2, <2>1, <2>2, <2>3, <3>1 DEF ServedInv, Indexed
  <2>4. CASE ~Owns(c, byKey[j])
    <3>1. \A d \in Callers : Owns(d, byKey[j]) => Owns(d, byKey[j])'
      BY <1>1, <2>4 DEF Owns
    <3>2. QED BY <1>2, <2>1, <2>2, <2>4, <3>1 DEF ServedInv, Indexed
  <2>5. QED BY <2>3, <2>4
<1>9. QED BY <1>3, <1>5, <1>6, <1>7, <1>8 DEF ServedInv

\* Expire: the mark of age changes nothing the argument rests on.
LEMMA ExpireServed ==
  ASSUME ServedInv, NEW e \in Entries, Expire(e)
  PROVE  ServedInv'
<1>1. /\ entry' \in [Entries -> EntryType]
      /\ \A x \in Entries : /\ entry'[x].key = entry[x].key /\ entry'[x].done = entry[x].done
                            /\ entry'[x].state = entry[x].state
  BY Zenon DEF Expire, ServedInv, Shape, EntryType
<1>2. UNCHANGED <<byKey, pc, key, mine, got>>
  BY DEF Expire
<1>3. Shape' /\ OneOwner'
  BY <1>1, <1>2 DEF ServedInv, Shape, OneOwner, Owns
<1>4. WaitersAreServed'
  BY <1>1, <1>2 DEF ServedInv, WaitersAreServed, Holds
<1>5. \A d \in Callers : Holds(d)'
  BY <1>1, <1>2 DEF ServedInv, Holds
<1>6. ASSUME NEW k \in Keys PROVE Indexed(k)'
  BY <1>1, <1>2 DEF ServedInv, Indexed, Owns
<1>7. QED BY <1>3, <1>4, <1>5, <1>6 DEF ServedInv

\* WaitEnds: the waiter takes the outcome of the entry whose channel is closed.
LEMMA WaitEndsServed ==
  ASSUME ServedInv, NEW c \in Callers, WaitEnds(c)
  PROVE  ServedInv'
<1>1. /\ pc[c] = "wait" /\ entry[mine[c]].done /\ mine[c] \in Entries
      /\ UNCHANGED <<byKey, entry, key, mine>>
      /\ pc' = [pc EXCEPT ![c] = "reply"]
      /\ got' = [got EXCEPT ![c] = IF entry[mine[c]].state = "ok" THEN mine[c] ELSE None]
  BY DEF WaitEnds, cache, ServedInv, Holds
<1>2. Shape' /\ OneOwner'
  BY <1>1 DEF ServedInv, Shape, OneOwner, Owns
<1>3. WaitersAreServed'
  BY <1>1 DEF ServedInv, Shape, WaitersAreServed
<1>4. ASSUME NEW d \in Callers PROVE Holds(d)'
  BY <1>1 DEF ServedInv, Shape, Holds
<1>5. ASSUME NEW k \in Keys PROVE Indexed(k)'
  BY <1>1 DEF ServedInv, Shape, Indexed, Owns
<1>6. QED BY <1>2, <1>3, <1>4, <1>5 DEF ServedInv

LEMMA StepLeaves ==
  ASSUME ServedInv, NEW c \in Callers,
         CloseDone(c) \/ WaitCancelled(c) \/ Reply(c) \/ DirectEnds(c)
  PROVE  \E ent : Leaves(c, ent)
<1>1. /\ key[c] \in Keys \cup {None} /\ None \in Keys \cup {None}
      /\ key = [key EXCEPT ![c] = key[c]]
  BY DEF ServedInv, Shape
<1>2. CASE CloseDone(c)
  <2>1. Leaves(c, [entry EXCEPT ![mine[c]].done = TRUE])
    BY <1>1, <1>2, SMTT(20) DEF CloseDone, Leaves, GoDirect, Answered
  <2>2. QED BY <2>1
<1>3. CASE WaitCancelled(c) \/ Reply(c) \/ DirectEnds(c)
  <2>1. Leaves(c, entry)
    BY <1>1, <1>3 DEF WaitCancelled, Reply, DirectEnds, Leaves, GoDirect, Answered
  <2>2. QED BY <2>1
<1>4. QED BY <1>2, <1>3

LEMMA NextServed == ServedInv /\ [Next]_vars => ServedInv'
<1> SUFFICES ASSUME ServedInv, [Next]_vars PROVE ServedInv'
  OBVIOUS
<1>1. ASSUME NEW c \in Callers, NEW k \in Keys, Replay(c, k) PROVE ServedInv'
  BY <1>1, ReplayServed
<1>2. ASSUME NEW c \in Callers, NEW k \in Keys, Coalesce(c, k) PROVE ServedInv'
  BY <1>2, CoalesceServed
<1>3. ASSUME NEW c \in Callers, NEW k \in Keys, Register(c, k) PROVE ServedInv'
  BY <1>3, RegisterServed
<1>4. ASSUME NEW c \in Callers, StoreOk(c) \/ StoreError(c) PROVE ServedInv'
  BY <1>4, StoreServed
<1>5. ASSUME NEW c \in Callers, CloseDone(c) \/ WaitCancelled(c) \/ Reply(c) \/ DirectEnds(c)
      PROVE  ServedInv'
  BY <1>5, StepLeaves, LeavesServed
<1>6. ASSUME NEW c \in Callers, WaitEnds(c) PROVE ServedInv'
  BY <1>6, WaitEndsServed
<1>7. ASSUME NEW e \in Entries, Expire(e) PROVE ServedInv'
  BY <1>7, ExpireServed, SMTT(20)
<1>8. CASE UNCHANGED vars
  BY <1>8 DEF vars, cache, ServedInv, Shape, OneOwner, WaitersAreServed, Holds, Indexed, Owns
<1>9. \A c \in Callers : KeysOf(c) \subseteq Keys
  BY IdemAssumption DEF KeysOf
<1>10. QED BY <1>1, <1>2, <1>3, <1>4, <1>5, <1>6, <1>7, <1>8, <1>9 DEF Next, Call, Step

LEMMA ServedAlways == Spec => []ServedInv
BY ServedInit, NextServed, PTL DEF Spec

\* However many requests share however few entries, nobody waits in Do on a
\* channel that no request will close (cache.go Do: the wait on e.done and the
\* deferred close): eviction in flight, a key taken over by a new entry, a
\* failure and a panic included.
THEOREM NobodyWaitsInVain == Spec => []WaitersAreServed
<1>1. ServedInv => WaitersAreServed
  BY DEF ServedInv
<1>2. QED BY <1>1, ServedAlways, PTL

\* The cache replays successes only, each under its own key (cache.go Do: the
\* done entry found in the index, and the result a waiter takes from its entry).
THEOREM ReplaysOwnSuccess == Spec => [](DoneIsSuccess /\ AnswerFits)
<1>1. ServedInv => DoneIsSuccess
  BY DEF ServedInv, DoneIsSuccess, Indexed
<1>2. ServedInv => AnswerFits
  BY DEF ServedInv, AnswerFits, Holds
<1>3. QED BY <1>1, <1>2, ServedAlways, PTL

\* At most one request runs an entry's fn and closes its channel, although the
\* entry may have left the index (cache.go Do: close(e.done) happens once).
THEOREM ClosedByOne == Spec => []OneOwner
<1>1. ServedInv => OneOwner
  BY DEF ServedInv
<1>2. QED BY <1>1, ServedAlways, PTL

-----------------------------------------------------------------------------
(* The list of the recently used *)

Inj(q) == \A m, n \in DOMAIN q : q[m] = q[n] => m = n

\* What SubSeq and the concatenation of lists hold.
LEMMA SubFacts ==
  ASSUME NEW q \in Seq(Entries), NEW a \in 1 .. Len(q) + 1, NEW b \in 0 .. Len(q)
  PROVE  \E s \in Seq(Entries) :
           /\ s = SubSeq(q, a, b) /\ Len(s) = (IF a <= b THEN b - a + 1 ELSE 0)
           /\ DOMAIN s = 1 .. Len(s)
           /\ \A n \in 1 .. Len(s) : s[n] = q[a + n - 1]
<1> DEFINE s == SubSeq(q, a, b)
<1>1. /\ s \in Seq(Entries) /\ Len(s) = (IF a <= b THEN b - a + 1 ELSE 0)
      /\ DOMAIN s = 1 .. Len(s)
  OBVIOUS
<1>2. \A n \in 1 .. Len(s) : s[n] = q[a + n - 1]
  OBVIOUS
<1> HIDE DEF s
<1>3. s = SubSeq(q, a, b)
  BY DEF s
<1>4. QED BY <1>1, <1>2, <1>3, Zenon

LEMMA CatFacts ==
  ASSUME NEW p \in Seq(Entries), NEW q \in Seq(Entries)
  PROVE  \E s \in Seq(Entries) :
           /\ s = p \o q /\ Len(s) = Len(p) + Len(q) /\ DOMAIN s = 1 .. Len(s)
           /\ \A n \in 1 .. Len(s) : s[n] = IF n <= Len(p) THEN p[n] ELSE q[n - Len(p)]
<1> DEFINE s == p \o q
<1>1. s \in Seq(Entries) /\ Len(s) = Len(p) + Len(q) /\ DOMAIN s = 1 .. Len(s)
  OBVIOUS
<1>2. \A n \in 1 .. Len(s) : s[n] = IF n <= Len(p) THEN p[n] ELSE q[n - Len(p)]
  OBVIOUS
<1> HIDE DEF s
<1>3. s = p \o q
  BY DEF s
<1>4. QED BY <1>1, <1>2, <1>3, Zenon

\* lru.Remove takes out one element.
LEMMA Removed ==
  ASSUME NEW q \in Seq(Entries), Inj(q), NEW e
  PROVE  /\ Without(q, e) \in Seq(Entries) /\ Inj(Without(q, e))
         /\ Range(Without(q, e)) = Range(q) \ {e}
         /\ Len(Without(q, e)) = IF e \in Range(q) THEN Len(q) - 1 ELSE Len(q)
<1>1. CASE e \notin Range(q)
  BY <1>1, Zenon DEF Without
<1>2. CASE e \in Range(q)
  <2> DEFINE i == CHOOSE n \in DOMAIN q : q[n] = e
  <2>1. i \in 1 .. Len(q) /\ q[i] = e
    <3>1. \E n \in DOMAIN q : q[n] = e
      BY <1>2, Zenon DEF Range
    <3>2. i \in DOMAIN q /\ q[i] = e
      BY <3>1, Zenon
    <3>3. QED BY <3>2
  <2>2. Without(q, e) = SubSeq(q, 1, i - 1) \o SubSeq(q, i + 1, Len(q))
    BY <1>2, Zenon DEF Without
  <2> HIDE DEF i
  <2>3. /\ i - 1 \in 0 .. Len(q) /\ i + 1 \in 1 .. Len(q) + 1 /\ Len(q) \in 0 .. Len(q)
        /\ 1 \in 1 .. Len(q) + 1
    BY <2>1
  <2>4. PICK a \in Seq(Entries) :
          /\ a = SubSeq(q, 1, i - 1) /\ Len(a) = (IF 1 <= i - 1 THEN (i - 1) - 1 + 1 ELSE 0)
          /\ \A n \in 1 .. Len(a) : a[n] = q[1 + n - 1]
    BY <2>3, SubFacts, Zenon
  <2>5. PICK b \in Seq(Entries) :
          /\ b = SubSeq(q, i + 1, Len(q))
          /\ Len(b) = (IF i + 1 <= Len(q) THEN Len(q) - (i + 1) + 1 ELSE 0)
          /\ \A n \in 1 .. Len(b) : b[n] = q[(i + 1) + n - 1]
    BY <2>3, SubFacts, Zenon
  <2>6. PICK r \in Seq(Entries) :
          /\ r = a \o b /\ Len(r) = Len(a) + Len(b) /\ DOMAIN r = 1 .. Len(r)
          /\ \A n \in 1 .. Len(r) : r[n] = IF n <= Len(a) THEN a[n] ELSE b[n - Len(a)]
    BY CatFacts, Zenon
  <2>7. Without(q, e) = r
    BY <2>2, <2>4, <2>5, <2>6, Zenon
  <2> DEFINE up(n) == IF n < i THEN n ELSE n + 1
  <2>8. Len(r) = Len(q) - 1 /\ Len(q) \in Nat /\ DOMAIN q = 1 .. Len(q)
    <3>1. Len(a) = i - 1 /\ Len(b) = Len(q) - i /\ Len(r) = Len(a) + Len(b)
      BY <2>1, <2>4, <2>5, <2>6
    <3>2. QED BY <2>1, <3>1
  <2>9. ASSUME NEW n \in 1 .. Len(r) PROVE up(n) \in 1 .. Len(q) /\ r[n] = q[up(n)]
    <3>1. Len(a) = i - 1 /\ Len(b) = Len(q) - i
      BY <2>1, <2>4, <2>5
    <3>2. CASE n < i
      <4>1. n \in 1 .. Len(a) /\ r[n] = a[n] /\ 1 + n - 1 = n
        BY <2>1, <2>6, <3>1, <3>2
      <4>2. a[n] = q[n]
        BY <2>4, <4>1
      <4>3. QED BY <2>1, <3>2, <4>1, <4>2
    <3>3. CASE n >= i
      <4>1. /\ n - (i - 1) \in 1 .. Len(b) /\ r[n] = b[n - (i - 1)]
            /\ (i + 1) + (n - (i - 1)) - 1 = n + 1 /\ n + 1 \in 1 .. Len(q)
        BY <2>1, <2>6, <2>8, <3>1, <3>3, SMTT(20)
      <4>2. b[n - (i - 1)] = q[n + 1]
        BY <2>5, <4>1, SMTT(20)
      <4>3. QED BY <2>1, <3>3, <4>1, <4>2
    <3>4. QED BY <2>1, <3>2, <3>3
  <2>10. Inj(r)
    <3> SUFFICES ASSUME NEW m \in 1 .. Len(r), NEW n \in 1 .. Len(r), r[m] = r[n] PROVE m = n
      BY <2>6 DEF Inj
    <3>1. up(m) = up(n)
      BY <2>8, <2>9, Zenon DEF Inj
    <3>2. QED BY <2>1, <2>8, <3>1
  <2>11. ASSUME NEW n \in 1 .. Len(r) PROVE r[n] \in Range(q) \ {e}
    <3>1. up(n) \in DOMAIN q /\ up(n) # i /\ r[n] = q[up(n)]
      BY <2>1, <2>8, <2>9
    <3> HIDE DEF up
    <3>2. QED BY <2>1, <2>8, <3>1, Zenon DEF Inj, Range
  <2>12. ASSUME NEW n \in 1 .. Len(q), q[n] # e PROVE q[n] \in Range(r)
    <3>1. PICK m \in 1 .. Len(r) : up(m) = n
      <4>1. CASE n < i
        <5>1. n \in 1 .. Len(r) /\ up(n) = n
          BY <2>1, <2>8, <4>1
        <5>2. QED BY <5>1, Zenon
      <4>2. CASE n > i
        <5>1. n - 1 \in 1 .. Len(r) /\ up(n - 1) = n
          BY <2>1, <2>8, <4>2
        <5>2. QED BY <5>1, Zenon
      <4>3. QED BY <2>1, <2>12, <4>1, <4>2
    <3>2. m \in DOMAIN r /\ r[m] = q[n]
      BY <2>6, <2>9, <3>1
    <3>3. QED BY <3>2, Zenon DEF Range
  <2> HIDE DEF up
  <2>13. Range(r) = Range(q) \ {e}
    <3>1. ASSUME NEW x \in Range(r) PROVE x \in Range(q) \ {e}
      <4>1. PICK n \in DOMAIN r : x = r[n]
        BY <3>1, Zenon DEF Range
      <4>2. QED BY <2>6, <2>11, <4>1, Zenon
    <3>2. ASSUME NEW x \in Range(q) \ {e} PROVE x \in Range(r)
      <4>1. PICK n \in DOMAIN q : x = q[n]
        BY <3>2, Zenon DEF Range
      <4>2. QED BY <2>8, <2>12, <3>2, <4>1, Zenon
    <3>3. QED BY <3>1, <3>2, Zenon
  <2>14. QED BY <1>2, <2>7, <2>8, <2>10, <2>13
<1>3. QED BY <1>1, <1>2

\* lru.PushFront.
LEMMA Pushed ==
  ASSUME NEW q \in Seq(Entries), Inj(q), NEW e \in Entries, e \notin Range(q)
  PROVE  /\ <<e>> \o q \in Seq(Entries) /\ Inj(<<e>> \o q)
         /\ Range(<<e>> \o q) = {e} \cup Range(q)
         /\ Len(<<e>> \o q) = Len(q) + 1 /\ (<<e>> \o q)[1] = e
<1> DEFINE r == <<e>> \o q
<1>1. /\ r \in Seq(Entries) /\ Len(r) = Len(q) + 1 /\ r[1] = e
      /\ \A n \in 2 .. Len(r) : r[n] = q[n - 1]
  OBVIOUS
<1> HIDE DEF r
<1>2. \A n \in 2 .. Len(r) : r[n] \in Range(q)
  BY <1>1 DEF Range
<1>3. Inj(r)
  BY <1>1, <1>2 DEF Inj
<1>4. Range(r) \subseteq {e} \cup Range(q)
  BY <1>1, <1>2 DEF Range
<1>5. ASSUME NEW n \in 1 .. Len(q) PROVE q[n] \in Range(r)
  <2>1. n + 1 \in DOMAIN r /\ r[n + 1] = q[n]
    BY <1>1
  <2>2. QED BY <2>1, Zenon DEF Range
<1>6. {e} \cup Range(q) \subseteq Range(r)
  BY <1>1, <1>5 DEF Range
<1>7. QED BY <1>1, <1>3, <1>4, <1>6 DEF r

\* A list is its first m elements and the others.
LEMMA Split ==
  ASSUME NEW q \in Seq(Entries), Inj(q), NEW m \in 1 .. Len(q)
  PROVE  /\ SubSeq(q, 1, m) \in Seq(Entries) /\ Inj(SubSeq(q, 1, m))
         /\ Len(SubSeq(q, 1, m)) = m
         /\ Range(SubSeq(q, 1, m)) = Range(q) \ Range(SubSeq(q, m + 1, Len(q)))
         /\ Range(SubSeq(q, m + 1, Len(q))) \subseteq Range(q)
         /\ q[1] \in Range(SubSeq(q, 1, m))
<1>0. /\ 1 \in 1 .. Len(q) + 1 /\ m \in 0 .. Len(q) /\ m + 1 \in 1 .. Len(q) + 1
      /\ Len(q) \in 0 .. Len(q) /\ Len(q) \in Nat /\ DOMAIN q = 1 .. Len(q)
  OBVIOUS
<1>1. PICK f \in Seq(Entries) :
        /\ f = SubSeq(q, 1, m) /\ Len(f) = (IF 1 <= m THEN m - 1 + 1 ELSE 0)
        /\ DOMAIN f = 1 .. Len(f)
        /\ \A n \in 1 .. Len(f) : f[n] = q[1 + n - 1]
  BY <1>0, SubFacts, Zenon
<1>2. PICK o \in Seq(Entries) :
        /\ o = SubSeq(q, m + 1, Len(q))
        /\ Len(o) = (IF m + 1 <= Len(q) THEN Len(q) - (m + 1) + 1 ELSE 0)
        /\ DOMAIN o = 1 .. Len(o)
        /\ \A n \in 1 .. Len(o) : o[n] = q[(m + 1) + n - 1]
  BY <1>0, SubFacts, Zenon
<1>3. /\ Len(f) = m /\ DOMAIN f = 1 .. m
      /\ \A n \in 1 .. m : f[n] = q[n] /\ n \in DOMAIN q
  BY <1>0, <1>1
<1>4. Len(o) = Len(q) - m /\ DOMAIN o = 1 .. Len(q) - m
  <2>1. Len(o) = Len(q) - m
    <3>1. CASE m + 1 <= Len(q)
      <4>1. Len(o) = Len(q) - (m + 1) + 1
        BY <1>2, <3>1, Zenon
      <4>2. QED BY <1>0, <4>1
    <3>2. CASE ~(m + 1 <= Len(q))
      <4>1. Len(o) = 0
        BY <1>2, <3>2, Zenon
      <4>2. \A a \in Nat : \A n \in 0 .. a : n + 1 <= a \/ n = a
        OBVIOUS
      <4>3. m = Len(q)
        BY <1>0, <3>2, <4>2, Zenon
      <4>4. QED BY <1>0, <4>1, <4>3
    <3>3. QED BY <3>1, <3>2, Zenon
  <2>2. QED BY <1>2, <2>1, Zenon
<1>5. ASSUME NEW n \in DOMAIN o PROVE o[n] = q[n + m] /\ n + m \in DOMAIN q /\ n + m > m
  <2>1. n \in 1 .. Len(o) /\ n \in 1 .. Len(q) - m /\ (m + 1) + n - 1 = n + m
    BY <1>4
  <2>2. o[n] = q[n + m]
    BY <1>2, <2>1
  <2>3. QED BY <1>0, <2>1, <2>2, SMTT(20)
<1>6. Inj(f)
  BY <1>3 DEF Inj
<1>7. ASSUME NEW n \in DOMAIN f, NEW x \in DOMAIN o PROVE f[n] # o[x]
  <2>1. /\ n \in DOMAIN q /\ x + m \in DOMAIN q /\ f[n] = q[n] /\ o[x] = q[x + m]
        /\ n \in 1 .. m /\ x + m > m
    BY <1>3, <1>5, Zenon
  <2>2. n # x + m
    BY <2>1
  <2>3. QED BY <2>1, <2>2, Zenon DEF Inj
<1>8. ASSUME NEW n \in DOMAIN q, q[n] \notin Range(o) PROVE q[n] \in Range(f)
  <2>1. CASE n > m
    <3>1. n - m \in DOMAIN o /\ (n - m) + m = n
      BY <1>0, <1>4, <2>1
    <3>2. o[n - m] = q[n]
      BY <1>5, <3>1
    <3>3. QED BY <3>1, <3>2, <1>8, Zenon DEF Range
  <2>2. CASE ~(n > m)
    <3>1. n \in DOMAIN f /\ f[n] = q[n]
      BY <1>0, <1>3, <2>2
    <3>2. QED BY <3>1, Zenon DEF Range
  <2>3. QED BY <2>1, <2>2
<1>9. Range(o) \subseteq Range(q)
  BY <1>5, Zenon DEF Range
<1>10. Range(f) \subseteq Range(q) \ Range(o)
  BY <1>3, <1>7, Zenon DEF Range
<1>11. Range(q) \ Range(o) \subseteq Range(f)
  BY <1>8, Zenon DEF Range
<1>12. q[1] \in Range(f)
  <2>1. 1 \in DOMAIN f /\ f[1] = q[1]
    BY <1>3
  <2>2. QED BY <2>1, Zenon DEF Range
<1>13. QED BY <1>1, <1>2, <1>3, <1>6, <1>9, <1>10, <1>11, <1>12, Zenon

\* evictLocked keeps the front of the list.
LEMMA Cut ==
  ASSUME NEW q \in Seq(Entries), Inj(q), q # << >>
  PROVE  LET front == SubSeq(q, 1, IF Len(q) < MaxEntries THEN Len(q) ELSE MaxEntries)
             over  == SubSeq(q, MaxEntries + 1, Len(q))
         IN  /\ front \in Seq(Entries) /\ Inj(front) /\ Len(front) <= MaxEntries
             /\ Range(front) = Range(q) \ Range(over)
             /\ Range(over) \subseteq Range(q)
             /\ q[1] \in Range(front)
<1>1. MaxEntries \in Nat \ {0} /\ Len(q) \in Nat \ {0}
  BY IdemAssumption
<1>2. CASE Len(q) < MaxEntries
  <2>1. Len(q) \in 1 .. Len(q) /\ Len(q) <= MaxEntries
    BY <1>1, <1>2
  <2>2. /\ Range(SubSeq(q, MaxEntries + 1, Len(q))) = {}
        /\ Range(SubSeq(q, Len(q) + 1, Len(q))) = {}
    <3>1. /\ DOMAIN SubSeq(q, MaxEntries + 1, Len(q)) = {}
          /\ DOMAIN SubSeq(q, Len(q) + 1, Len(q)) = {}
      BY <1>1, <1>2
    <3>2. QED BY <3>1, Zenon DEF Range
  <2>3. /\ SubSeq(q, 1, Len(q)) \in Seq(Entries) /\ Inj(SubSeq(q, 1, Len(q)))
        /\ Len(SubSeq(q, 1, Len(q))) = Len(q)
        /\ Range(SubSeq(q, 1, Len(q))) = Range(q) \ Range(SubSeq(q, Len(q) + 1, Len(q)))
        /\ q[1] \in Range(SubSeq(q, 1, Len(q)))
    BY <2>1, Split, Zenon
  <2>4. Len(SubSeq(q, 1, Len(q))) <= MaxEntries
    BY <2>1, <2>3, Zenon
  <2>5. QED BY <1>2, <2>2, <2>3, <2>4, Zenon
<1>3. CASE ~(Len(q) < MaxEntries)
  <2>1. MaxEntries \in 1 .. Len(q) /\ MaxEntries <= MaxEntries
    BY <1>1, <1>3
  <2>2. QED BY <1>3, <2>1, Split, Zenon
<1>4. QED BY <1>2, <1>3

\* Replay moves the entry to the front.
LEMMA Moved ==
  ASSUME NEW q \in Seq(Entries), Inj(q), NEW e \in Range(q)
  PROVE  LET r == <<e>> \o Without(q, e)
         IN  r \in Seq(Entries) /\ Inj(r) /\ Range(r) = Range(q) /\ Len(r) = Len(q)
<1>1. e \in Entries
  BY DEF Range
<1>2. PICK w : w = Without(q, e)
  OBVIOUS
<1>3. /\ w \in Seq(Entries) /\ Inj(w) /\ Range(w) = Range(q) \ {e}
      /\ Len(w) = Len(q) - 1
  BY <1>2, Removed, Zenon
<1>4. e \notin Range(w)
  BY <1>3, Zenon
<1>5. PICK r : r = <<e>> \o w
  BY Zenon
<1>6. /\ r \in Seq(Entries) /\ Inj(r) /\ Range(r) = {e} \cup Range(w) /\ Len(r) = Len(w) + 1
  BY <1>1, <1>3, <1>4, <1>5, Pushed, Zenon
<1>7. Range(r) = Range(q)
  BY <1>3, <1>6
<1>8. Len(r) = Len(q)
  BY <1>3, <1>6
<1>9. QED BY <1>2, <1>5, <1>6, <1>7, <1>8, Zenon

-----------------------------------------------------------------------------
(* The invariant behind CacheIsCoherent and RunsOnce *)

\* The list and the index hold the same entries.
ListInv ==
  /\ lru \in Seq(Entries) /\ Len(lru) <= MaxEntries /\ Inj(lru)
  /\ \A k \in Keys : byKey[k] # None => byKey[k] \in Range(lru)
  /\ \A e \in Range(lru) : entry[e].key \in Keys /\ byKey[entry[e].key] = e

\* A run under a key that is not excused has its entry in the index, and so has
\* a success that is still valid.  Only a success grows old.
OnceInv ==
  /\ \A c \in Callers : pc[c] = "run" /\ key[c] \notin excused => byKey[key[c]] = mine[c]
  /\ \A c \in Callers : pc[c] = "direct" => key[c] \in excused
  /\ \A k \in Keys \ excused : valid[k] # 0 =>
       /\ valid[k] = 1 /\ byKey[k] # None
       /\ entry[byKey[k]].state = "ok" /\ ~entry[byKey[k]].expired
  /\ \A e \in Entries : entry[e].expired => entry[e].state = "ok"

HistoryType == valid \in [Keys -> 0 .. 2] /\ excused \subseteq Keys

CacheInv == ServedInv /\ ListInv /\ HistoryType /\ OnceInv

\* What the recency list holds are entries: lru is a sequence of them.
LEMMA ListedFacts ==
  ASSUME NEW list \in Seq(Entries)
  PROVE  Range(list) \subseteq Entries
BY DEF Range

\* Collect keeps whatever is in the list, too.
LEMMA CollectListed ==
  ASSUME NEW ent, NEW list, NEW index, NEW refs, NEW e \in Entries, e \in Range(list)
  PROVE  Collect(ent, index, list, refs)[e] = ent[e]
BY DEF Collect

LEMMA CollectAny ==
  ASSUME NEW ent, NEW list, NEW index, NEW refs, NEW e \in Entries
  PROVE  Collect(ent, index, list, refs)[e] \in {ent[e], NoEntry}
BY DEF Collect

\* A registration: the expired entry of the key goes, the new one comes to the
\* front of the list and into the index, and the entries D at the end of the
\* list leave both.
Registered(c, k, e, D) ==
  /\ entry[e] = NoEntry /\ e \notin Range(lru)
  /\ lru' \in Seq(Entries) /\ Inj(lru') /\ Len(lru') <= MaxEntries
  /\ Range(lru') = {e} \cup ((Range(lru) \ {byKey[k]}) \ D)
  /\ \A y \in Keys : byKey'[y] = IF y = k THEN e
                                ELSE IF \E x \in D : entry[x].key = y THEN None
                                ELSE byKey[y]
  /\ excused' = excused \cup {entry[x].key : x \in {z \in D : ~entry[z].expired}}
  /\ mine' = [mine EXCEPT ![c] = e]
  /\ entry' = Collect([entry EXCEPT ![e].key = k], byKey', lru', mine')

LEMMA RegisterList ==
  ASSUME CacheInv, NEW c \in Callers, NEW k \in Keys, RegisterNew(c, k)
  PROVE  \E e \in Entries : \E D \in SUBSET (Range(lru) \ {byKey[k]}) : Registered(c, k, e, D)
<1> DEFINE kept == IF byKey[k] = None THEN <<byKey, lru>>
                                      ELSE removeLocked(byKey[k], byKey, lru)
           after(e) == evictLocked(e, k, [kept[1] EXCEPT ![k] = e], <<e>> \o kept[2])
<1>1. PICK e \in Entries :
        /\ entry[e] = NoEntry
        /\ byKey' = after(e)[1] /\ lru' = after(e)[2]
        /\ mine' = [mine EXCEPT ![c] = e]
        /\ entry' = Collect([entry EXCEPT ![e].key = k], byKey', lru', mine')
        /\ excused' = excused \cup {entry[x].key :
             x \in {z \in Range(kept[2]) \ Range(after(e)[2]) : ~entry[z].expired}}
  BY Zenon DEF RegisterNew
<1>2. /\ byKey \in [Keys -> Entries \cup {None}] /\ lru \in Seq(Entries) /\ Inj(lru)
      /\ Range(lru) \subseteq Entries
  BY DEF CacheInv, ServedInv, Shape, ListInv, Range
<1>3. e \notin Range(lru)
  <2>1. entry[e].key = None
    BY <1>1 DEF NoEntry
  <2>2. QED BY <2>1, IdemAssumption, Zenon DEF CacheInv, ListInv
<1>4. PICK K \in Seq(Entries) : /\ K = kept[2] /\ Inj(K)
                                /\ Range(K) = Range(lru) \ {byKey[k]}
  <2>1. CASE byKey[k] = None
    <3>1. kept[2] = lru /\ Range(lru) = Range(lru) \ {byKey[k]}
      BY <1>2, <2>1, IdemAssumption
    <3>2. QED BY <1>2, <3>1, Zenon
  <2>2. CASE byKey[k] # None
    <3>1. kept[2] = Without(lru, byKey[k])
      BY <2>2 DEF removeLocked
    <3>2. QED BY <1>2, <3>1, Removed, Zenon
  <2>3. QED BY <2>1, <2>2
<1>5. PICK index : /\ index = [kept[1] EXCEPT ![k] = e]
                   /\ index = [byKey EXCEPT ![k] = e]
  <2>1. CASE byKey[k] = None
    BY <2>1, Zenon
  <2>2. CASE byKey[k] # None
    <3>1. kept[1] = [byKey EXCEPT ![k] = None]
      BY <2>2, Zenon DEF removeLocked, CacheInv, ServedInv, Indexed
    <3>2. [kept[1] EXCEPT ![k] = e] = [byKey EXCEPT ![k] = e]
      BY <1>2, <3>1, Zenon
    <3>3. QED BY <3>2, Zenon
  <2>3. QED BY <2>1, <2>2
<1>6. PICK q \in Seq(Entries) : /\ q = <<e>> \o K /\ Inj(q)
                                /\ Range(q) = {e} \cup Range(K) /\ q[1] = e /\ q # << >>
  <2>1. e \notin Range(K)
    BY <1>3, <1>4
  <2>2. PICK q : q = <<e>> \o K
    BY Zenon
  <2>3. /\ q \in Seq(Entries) /\ Inj(q) /\ Range(q) = {e} \cup Range(K)
        /\ q[1] = e /\ Len(q) = Len(K) + 1
    BY <1>4, <2>1, <2>2, Pushed, Zenon
  <2>4. q # << >>
    BY <1>4, <2>3
  <2>5. QED BY <2>2, <2>3, <2>4, Zenon
<1>7. PICK front, over :
        /\ front \in Seq(Entries)
        /\ front = SubSeq(q, 1, IF Len(q) < MaxEntries THEN Len(q) ELSE MaxEntries)
        /\ over = SubSeq(q, MaxEntries + 1, Len(q))
        /\ Inj(front) /\ Len(front) <= MaxEntries
        /\ Range(front) = Range(q) \ Range(over)
        /\ Range(over) \subseteq Range(q) /\ e \in Range(front)
  <2>1. PICK f : f = SubSeq(q, 1, IF Len(q) < MaxEntries THEN Len(q) ELSE MaxEntries)
    BY Zenon
  <2>2. PICK o : o = SubSeq(q, MaxEntries + 1, Len(q))
    BY Zenon
  <2>3. /\ f \in Seq(Entries) /\ Inj(f) /\ Len(f) <= MaxEntries
        /\ Range(f) = Range(q) \ Range(o) /\ Range(o) \subseteq Range(q) /\ q[1] \in Range(f)
    BY <1>6, <2>1, <2>2, Cut, Zenon
  <2>4. e \in Range(f)
    BY <1>6, <2>3, Zenon
  <2>5. QED BY <2>1, <2>2, <2>3, <2>4, Zenon
<1>8. after(e) = evictLocked(e, k, index, q)
  BY <1>4, <1>5, <1>6, Zenon
<1> HIDE DEF kept, after
<1> DEFINE D == Range(over)
<1>9. /\ lru' = front
      /\ byKey' = [y \in Keys |-> IF \E x \in D : (IF x = e THEN k ELSE entry[x].key) = y
                                  THEN None ELSE index[y]]
  <2> DEFINE rest == [y \in Keys |-> IF \E x \in D : (IF x = e THEN k ELSE entry[x].key) = y
                                   THEN None ELSE index[y]]
  <2>1. after(e) = <<rest, front>>
    BY <1>7, <1>8, Zenon DEF evictLocked
  <2> HIDE DEF rest
  <2>2. after(e)[1] = rest /\ after(e)[2] = front
    BY <2>1
  <2>3. lru' = front /\ byKey' = rest
    BY <1>1, <2>2, Zenon
  <2>4. QED BY <2>3, Zenon DEF rest
<1> HIDE DEF D
<1>10. D \subseteq Range(K) /\ e \notin D
  BY <1>6, <1>7 DEF D
<1>11. D \in SUBSET (Range(lru) \ {byKey[k]})
  BY <1>4, <1>10, SMTT(20)
<1>12. Range(lru') = {e} \cup ((Range(lru) \ {byKey[k]}) \ D)
  BY <1>4, <1>6, <1>7, <1>9, <1>10 DEF D
<1>13. Range(kept[2]) \ Range(after(e)[2]) = D
  BY <1>1, <1>3, <1>4, <1>9, <1>10, <1>12, SMTT(20)
<1>14. \A x \in D : entry[x].key # k
  BY <1>11 DEF CacheInv, ListInv
<1>15. ASSUME NEW y \in Keys
       PROVE  byKey'[y] = IF y = k THEN e
                          ELSE IF \E x \in D : entry[x].key = y THEN None ELSE byKey[y]
  <2>1. (\E x \in D : (IF x = e THEN k ELSE entry[x].key) = y)
        <=> (\E x \in D : entry[x].key = y)
    BY <1>10, Zenon
  <2>2. byKey'[y] = IF \E x \in D : entry[x].key = y THEN None ELSE index[y]
    BY <1>9, <2>1, Zenon
  <2>3. index[y] = IF y = k THEN e ELSE byKey[y]
    BY <1>2, <1>5
  <2>4. CASE y = k
    BY <1>14, <2>2, <2>3, <2>4, Zenon
  <2>5. CASE y # k
    BY <2>2, <2>3, <2>5, Zenon
  <2>6. QED BY <2>4, <2>5
<1>16. excused' = excused \cup {entry[x].key : x \in {z \in D : ~entry[z].expired}}
  BY <1>1, <1>13, Zenon
<1>17. lru' \in Seq(Entries) /\ Inj(lru') /\ Len(lru') <= MaxEntries
  BY <1>7, <1>9, Zenon
<1>18. Registered(c, k, e, D)
  BY <1>1, <1>3, <1>12, <1>15, <1>16, <1>17, Zenon DEF Registered
<1>19. QED BY <1>11, <1>18, Zenon

LEMMA RegisterCache ==
  ASSUME CacheInv, NEW c \in Callers, NEW k \in Keys, Register(c, k)
  PROVE  ListInv' /\ HistoryType' /\ OnceInv'
<1>0. /\ RegisterNew(c, k) /\ pc[c] = "idle"
      /\ byKey[k] # None => entry[byKey[k]].done /\ entry[byKey[k]].expired
  BY DEF Register
<1>a. PICK e \in Entries : \E D \in SUBSET (Range(lru) \ {byKey[k]}) : Registered(c, k, e, D)
  BY <1>0, RegisterList, Zenon
<1>b. PICK D \in SUBSET (Range(lru) \ {byKey[k]}) : Registered(c, k, e, D)
  BY <1>a, Zenon
<1>1. /\ entry[e] = NoEntry /\ e \notin Range(lru)
      /\ lru' \in Seq(Entries) /\ Inj(lru') /\ Len(lru') <= MaxEntries
      /\ Range(lru') = {e} \cup ((Range(lru) \ {byKey[k]}) \ D)
      /\ \A y \in Keys : byKey'[y] = IF y = k THEN e
                                    ELSE IF \E x \in D : entry[x].key = y THEN None
                                    ELSE byKey[y]
      /\ excused' = excused \cup {entry[x].key : x \in {z \in D : ~entry[z].expired}}
      /\ mine' = [mine EXCEPT ![c] = e]
      /\ entry' = Collect([entry EXCEPT ![e].key = k], byKey', lru', mine')
  BY <1>b, Zenon DEF Registered
<1>2. /\ key' = [key EXCEPT ![c] = k] /\ pc' = [pc EXCEPT ![c] = "run"] /\ valid' = valid
  BY <1>0 DEF RegisterNew
<1>3. /\ entry \in [Entries -> EntryType] /\ Range(lru) \subseteq Entries
      /\ \A x \in Range(lru) : entry[x].key \in Keys /\ byKey[entry[x].key] = x
  BY DEF CacheInv, ServedInv, Shape, ListInv, Range
<1> DEFINE ent == [entry EXCEPT ![e].key = k]
<1>4. /\ ent[e].key = k /\ ent[e].expired = FALSE
      /\ \A x \in Entries \ {e} : ent[x] = entry[x]
  BY <1>1, <1>3 DEF NoEntry, EntryType
<1>5. entry' = Collect(ent, byKey', lru', mine')
  BY <1>1, Zenon
<1> HIDE DEF ent
<1>6. \A x \in Range(lru') : entry'[x] = ent[x]
  BY <1>1, <1>3, <1>5, CollectListed
<1>7. \A x \in Entries : entry'[x] \in {ent[x], NoEntry}
  BY <1>5, CollectAny, Zenon
<1>8. \A x \in Range(lru') : x = e \/ (x \in Range(lru) /\ entry'[x] = entry[x]
                                        /\ x # byKey[k] /\ x \notin D)
  BY <1>1, <1>3, <1>4, <1>6, Zenon
<1>9. e \in Range(lru') /\ entry'[e].key = k /\ byKey'[k] = e
  BY <1>1, <1>4, <1>6, Zenon
<1>10. \A y \in Keys : y # k /\ byKey[y] # None /\ byKey[y] \notin D =>
         byKey'[y] = byKey[y] /\ byKey[y] \in Range(lru')
  <2> SUFFICES ASSUME NEW y \in Keys, y # k, byKey[y] # None, byKey[y] \notin D
               PROVE  byKey'[y] = byKey[y] /\ byKey[y] \in Range(lru')
    BY Zenon
  <2>1. byKey[y] \in Range(lru) /\ entry[byKey[y]].key = y
    BY DEF CacheInv, ServedInv, Indexed, ListInv
  <2>2. byKey[y] # byKey[k]
    BY <2>1 DEF CacheInv, ServedInv, Indexed
  <2>3. ~ \E x \in D : entry[x].key = y
    BY <1>3, <2>1
  <2>4. QED BY <1>1, <2>1, <2>2, <2>3
<1>11. ListInv'
  <2>1. ASSUME NEW y \in Keys, byKey'[y] # None PROVE byKey'[y] \in Range(lru')
    <3>1. CASE y = k
      BY <1>9, <3>1
    <3>2. CASE y # k
      <4>1. byKey'[y] = byKey[y] /\ byKey[y] # None /\ ~ \E x \in D : entry[x].key = y
        BY <1>1, <2>1, <3>2, Zenon
      <4>2. byKey[y] \notin D
        BY <4>1 DEF CacheInv, ServedInv, Indexed
      <4>3. QED BY <1>10, <3>2, <4>1, <4>2
    <3>3. QED BY <3>1, <3>2
  <2>2. ASSUME NEW x \in Range(lru') PROVE entry'[x].key \in Keys /\ byKey'[entry'[x].key] = x
    <3>1. CASE x = e
      BY <1>9, <3>1
    <3>2. CASE x # e
      <4>1. /\ x \in Range(lru) /\ entry'[x] = entry[x] /\ x # byKey[k] /\ x \notin D
            /\ entry[x].key \in Keys /\ byKey[entry[x].key] = x
        BY <1>3, <1>8, <3>2, Zenon
      <4>2. x # None
        BY <1>3, <4>1, IdemAssumption
      <4>3. entry[x].key # k
        BY <4>1
      <4>4. QED BY <1>10, <4>1, <4>2, <4>3, Zenon
    <3>3. QED BY <3>1, <3>2
  <2>3. QED BY <1>1, <2>1, <2>2, Zenon DEF ListInv
<1>12. HistoryType'
  <2>1. {entry[x].key : x \in {z \in D : ~entry[z].expired}} \subseteq Keys
    BY <1>3
  <2>2. QED BY <1>1, <1>2, <2>1 DEF CacheInv, HistoryType
<1>13. \A x \in D : entry[x].expired \/ entry[x].key \in excused'
  BY <1>1
<1>14. OnceInv'
  <2>1. ASSUME NEW d \in Callers, pc'[d] = "run", key'[d] \notin excused'
        PROVE  byKey'[key'[d]] = mine'[d]
    <3>1. CASE d = c
      <4>1. key'[d] = k /\ mine'[d] = e
        BY <1>1, <1>2, <3>1, SMTT(20) DEF CacheInv, ServedInv, Shape
      <4>2. QED BY <1>9, <4>1
    <3>2. CASE d # c
      <4>1. pc[d] = "run" /\ key'[d] = key[d] /\ mine'[d] = mine[d] /\ key[d] \notin excused
        BY <1>1, <1>2, <2>1, <3>2, SMTT(20) DEF CacheInv, ServedInv, Shape
      <4>2. /\ byKey[key[d]] = mine[d] /\ key[d] \in Keys /\ mine[d] \in Entries
            /\ ~entry[mine[d]].done /\ entry[mine[d]].state = "running"
            /\ entry[mine[d]].key = key[d]
        BY <4>1, SMTT(20) DEF CacheInv, OnceInv, ServedInv, Holds
      <4>3. mine[d] # None /\ key[d] # k
        BY <1>0, <4>2, IdemAssumption, SMTT(20)
      <4>4. ~entry[mine[d]].expired
        BY <4>2 DEF CacheInv, OnceInv
      <4>5. mine[d] \notin D
        BY <1>13, <2>1, <4>1, <4>2, <4>4
      <4>6. QED BY <1>10, <4>1, <4>2, <4>3, <4>5
    <3>3. QED BY <3>1, <3>2
  <2>2. ASSUME NEW d \in Callers, pc'[d] = "direct" PROVE key'[d] \in excused'
    <3>1. d # c /\ pc[d] = "direct" /\ key'[d] = key[d]
      BY <1>2, <2>2, SMTT(20) DEF CacheInv, ServedInv, Shape
    <3>2. QED BY <1>1, <3>1 DEF CacheInv, OnceInv
  <2>3. ASSUME NEW y \in Keys \ excused', valid'[y] # 0
        PROVE  /\ valid'[y] = 1 /\ byKey'[y] # None
               /\ entry'[byKey'[y]].state = "ok" /\ ~entry'[byKey'[y]].expired
    <3>1. /\ valid[y] = 1 /\ byKey[y] # None
          /\ entry[byKey[y]].state = "ok" /\ ~entry[byKey[y]].expired
      BY <1>1, <1>2, <2>3, SMTT(20) DEF CacheInv, OnceInv
    <3>2. y # k /\ entry[byKey[y]].key = y
      BY <1>0, <3>1 DEF CacheInv, ServedInv, Indexed
    <3>3. byKey[y] \notin D
      BY <1>13, <2>3, <3>1, <3>2
    <3>4. byKey'[y] = byKey[y] /\ byKey[y] \in Range(lru')
      BY <1>10, <3>1, <3>2, <3>3
    <3>5. byKey[y] # e
      <4>1. byKey[y] \in Range(lru)
        BY <3>1, SMTT(20) DEF CacheInv, ListInv
      <4>2. QED BY <1>1, <4>1, SMTT(20)
    <3>6. entry'[byKey[y]] = entry[byKey[y]]
      BY <1>8, <3>4, <3>5, SMTT(20)
    <3>7. QED BY <1>2, <3>1, <3>4, <3>6
  <2>4. ASSUME NEW x \in Entries, entry'[x].expired PROVE entry'[x].state = "ok"
    <3>1. entry'[x] # NoEntry
      BY <2>4 DEF NoEntry
    <3>2. entry'[x] = ent[x] /\ x # e
      BY <1>4, <1>7, <2>4, <3>1
    <3>3. QED BY <1>4, <2>4, <3>2 DEF CacheInv, OnceInv
  <2>5. QED BY <2>1, <2>2, <2>3, <2>4, Zenon DEF OnceInv
<1>15. QED BY <1>11, <1>12, <1>14

\* A step that keeps the index, the elements of the list, the runs and the
\* history, and of the entries all but the done mark, keeps the invariant.
CacheKept ==
  /\ lru' \in Seq(Entries) /\ Inj(lru') /\ Len(lru') <= MaxEntries
  /\ Range(lru') = Range(lru) /\ byKey' = byKey
  /\ \A x \in Range(lru) : entry'[x].key = entry[x].key /\ entry'[x].state = entry[x].state
                            /\ entry'[x].expired = entry[x].expired
  /\ \A x \in Entries : entry'[x].expired => entry'[x].state = "ok"
  /\ excused \subseteq excused' /\ HistoryType'
  /\ \A k \in Keys \ excused' : valid'[k] = valid[k]
  /\ \A d \in Callers : pc'[d] = "run" =>
       pc[d] = "run" /\ key'[d] = key[d] /\ mine'[d] = mine[d]
  /\ \A d \in Callers : pc'[d] = "direct" => key'[d] \in excused'

LEMMA KeptCache ==
  ASSUME CacheInv, CacheKept
  PROVE  ListInv' /\ HistoryType' /\ OnceInv'
<1>1. ListInv'
  BY ZenonT(30) DEF CacheInv, ListInv, CacheKept
<1>2. OnceInv'
  <2>1. ASSUME NEW d \in Callers, pc'[d] = "run", key'[d] \notin excused'
        PROVE  byKey'[key'[d]] = mine'[d]
    <3>1. /\ pc[d] = "run" /\ key'[d] = key[d] /\ mine'[d] = mine[d] /\ byKey' = byKey
          /\ key[d] \notin excused
      BY <2>1 DEF CacheKept
    <3>2. byKey[key[d]] = mine[d]
      BY <3>1, Zenon DEF CacheInv, OnceInv
    <3>3. QED BY <3>1, <3>2, Zenon
  <2>2. ASSUME NEW k \in Keys \ excused', valid'[k] # 0
        PROVE  /\ valid'[k] = 1 /\ byKey'[k] # None
               /\ entry'[byKey'[k]].state = "ok" /\ ~entry'[byKey'[k]].expired
    <3>1. /\ valid[k] = 1 /\ byKey[k] # None
          /\ entry[byKey[k]].state = "ok" /\ ~entry[byKey[k]].expired
      BY <2>2 DEF CacheInv, OnceInv, CacheKept
    <3>2. byKey[k] \in Range(lru)
      BY <3>1 DEF CacheInv, ListInv
    <3>3. QED BY <2>2, <3>1, <3>2 DEF CacheKept
  <2>3. \A d \in Callers : pc'[d] = "direct" => key'[d] \in excused'
    BY DEF CacheKept
  <2>4. \A x \in Entries : entry'[x].expired => entry'[x].state = "ok"
    BY Zenon DEF CacheKept
  <2>5. QED BY <2>1, <2>2, <2>3, <2>4, Zenon DEF OnceInv
<1>3. QED BY <1>1, <1>2 DEF CacheKept

LEMMA ReplayCache ==
  ASSUME CacheInv, NEW c \in Callers, NEW k \in Keys, Replay(c, k)
  PROVE  ListInv' /\ HistoryType' /\ OnceInv'
<1>1. /\ byKey[k] # None /\ byKey[k] \in Range(lru)
      /\ lru' = <<byKey[k]>> \o Without(lru, byKey[k])
      /\ lru \in Seq(Entries) /\ Inj(lru) /\ Len(lru) <= MaxEntries
  BY Zenon DEF Replay, CacheInv, ListInv
<1>2. /\ lru' \in Seq(Entries) /\ Inj(lru') /\ Range(lru') = Range(lru)
      /\ Len(lru') = Len(lru)
  BY <1>1, Moved, Zenon
<1>3. UNCHANGED <<byKey, entry, valid, excused>>
  BY DEF Replay, history
<1>4. ASSUME NEW d \in Callers
      PROVE  /\ pc'[d] = "run" => /\ pc[d] = "run" /\ key'[d] = key[d] /\ mine'[d] = mine[d]
             /\ pc'[d] = "direct" => key'[d] \in excused
  BY SMTT(20) DEF Replay, CacheInv, OnceInv, ServedInv, Shape
<1>5. CacheKept
  BY <1>1, <1>2, <1>3, <1>4 DEF CacheKept, CacheInv, OnceInv, HistoryType
<1>6. QED BY <1>5, KeptCache

\* Coalesce, WaitEnds and stuttering leave the cache alone.
LEMMA AloneCache ==
  ASSUME CacheInv, (\E c \in Callers, k \in Keys : Coalesce(c, k)) \/ UNCHANGED vars
                   \/ (\E c \in Callers : WaitEnds(c))
  PROVE  ListInv' /\ HistoryType' /\ OnceInv'
<1>1. UNCHANGED <<byKey, lru, entry, valid, excused>>
  BY DEF Coalesce, WaitEnds, vars, cache, history
<1>2. ASSUME NEW d \in Callers
      PROVE  /\ pc'[d] = "run" => /\ pc[d] = "run" /\ key'[d] = key[d] /\ mine'[d] = mine[d]
             /\ pc'[d] = "direct" => key'[d] \in excused
  BY SMTT(20) DEF Coalesce, WaitEnds, vars, CacheInv, OnceInv, ServedInv, Shape
<1>3. CacheKept
  BY <1>1, <1>2 DEF CacheKept, CacheInv, ListInv, OnceInv, HistoryType
<1>4. QED BY <1>3, KeptCache, SMTT(20)

\* The four ways out of Do: the list is left alone, and what is counted twice
\* is excused.
LEMMA LeavesCache ==
  ASSUME CacheInv, NEW c \in Callers,
         CloseDone(c) \/ WaitCancelled(c) \/ Reply(c) \/ DirectEnds(c)
  PROVE  ListInv' /\ HistoryType' /\ OnceInv'
<1>1. PICK ent : Leaves(c, ent)
  BY StepLeaves DEF CacheInv
<1>2. lru' = lru /\ byKey' = byKey
  BY DEF CloseDone, WaitCancelled, Reply, DirectEnds
<1>3. \A x \in Entries : /\ ent[x].key = entry[x].key /\ ent[x].state = entry[x].state
                         /\ ent[x].expired = entry[x].expired
  <2>1. CASE ent = entry
    BY <2>1
  <2>2. CASE pc[c] = "close" /\ ent = [entry EXCEPT ![mine[c]].done = TRUE]
    BY <2>2 DEF CacheInv, ServedInv, Shape, EntryType
  <2>3. QED BY <1>1, <2>1, <2>2 DEF Leaves
<1>4. \A x \in Entries : entry'[x] \in {ent[x], NoEntry}
  BY <1>1, CollectAny DEF Leaves
<1>5. \A x \in Range(lru) : x \in Entries /\ entry'[x] = ent[x]
  <2>1. Range(lru) \subseteq Entries
    BY ListedFacts DEF CacheInv, ListInv
  <2>2. QED BY <1>1, <2>1, CollectListed DEF Leaves
<1>6. \A x \in Entries : entry'[x].expired => entry'[x].state = "ok"
  BY <1>3, <1>4, SMTT(20) DEF CacheInv, OnceInv, NoEntry
<1>7. pc[c] \in {"close", "wait", "reply"} => key[c] \in Keys
  BY DEF CacheInv, ServedInv, Holds
<1>8. pc[c] = "direct" => key[c] \in excused
  BY DEF CacheInv, OnceInv
<1>9. /\ excused \subseteq excused' /\ excused' \subseteq Keys
      /\ pc'[c] = "direct" => key'[c] \in excused'
  <2>1. CASE GoDirect(c) /\ pc[c] \in {"close", "wait", "reply"}
    BY <1>7, <2>1 DEF GoDirect, CacheInv, HistoryType, ServedInv, Shape
  <2>2. CASE Answered(c) /\ UNCHANGED excused
    BY <2>2 DEF Answered, CacheInv, HistoryType, ServedInv, Shape
  <2>3. QED BY <2>1, <2>2 DEF CloseDone, WaitCancelled, Reply, DirectEnds
<1>10. valid' \in [Keys -> 0 .. 2] /\ \A k \in Keys \ excused' : valid'[k] = valid[k]
  <2>1. CASE valid' = valid
    BY <2>1, SMTT(20) DEF CacheInv, HistoryType
  <2>2. CASE pc[c] = "direct" /\ valid' = Succeeded(key[c])
    BY <1>8, <1>9, <2>2 DEF Succeeded, CacheInv, HistoryType
  <2>3. QED BY <2>1, <2>2 DEF CloseDone, WaitCancelled, Reply, DirectEnds
<1>11. ASSUME NEW d \in Callers
       PROVE  /\ pc'[d] = "run" => /\ pc[d] = "run" /\ key'[d] = key[d] /\ mine'[d] = mine[d]
              /\ pc'[d] = "direct" => key'[d] \in excused'
  BY <1>1, <1>9, SMTT(20) DEF Leaves, CacheInv, OnceInv, ServedInv, Shape
<1>12. CacheKept
  BY <1>2, <1>3, <1>5, <1>6, <1>9, <1>10, <1>11 DEF CacheKept, CacheInv, ListInv, HistoryType
<1>13. QED BY <1>12, KeptCache

LEMMA StoreOkCache ==
  ASSUME CacheInv, NEW c \in Callers, StoreOk(c)
  PROVE  ListInv' /\ HistoryType' /\ OnceInv'
<1>1. /\ pc[c] = "run" /\ mine[c] \in Entries /\ key[c] \in Keys
      /\ entry[mine[c]].key = key[c] /\ entry[mine[c]].state = "running"
      /\ ~entry[mine[c]].expired
  BY DEF StoreOk, CacheInv, ServedInv, Holds, OnceInv
<1>2. /\ UNCHANGED <<byKey, lru, key, mine, excused>> /\ valid' = Succeeded(key[c])
      /\ pc' = [pc EXCEPT ![c] = "close"]
  BY DEF StoreOk
<1>3. /\ entry'[mine[c]].key = key[c] /\ entry'[mine[c]].state = "ok"
      /\ entry'[mine[c]].expired = entry[mine[c]].expired
      /\ \A x \in Entries \ {mine[c]} : entry'[x] = entry[x]
  BY <1>1, SMTT(20) DEF StoreOk, CacheInv, ServedInv, Shape, EntryType
<1>4. Range(lru) \subseteq Entries
  BY ListedFacts DEF CacheInv, ListInv
<1>5. ListInv'
  <2>1. \A x \in Range(lru) : entry'[x].key = entry[x].key
    BY <1>1, <1>3, <1>4, SMTT(20)
  <2>2. QED BY <1>2, <2>1 DEF CacheInv, ListInv
<1>6. /\ valid \in [Keys -> 0 .. 2] /\ valid' \in [Keys -> 0 .. 2]
      /\ \A k \in Keys \ {key[c]} : valid'[k] = valid[k]
      /\ valid'[key[c]] = IF valid[key[c]] = 0 THEN 1 ELSE 2
  BY <1>1, <1>2 DEF Succeeded, CacheInv, HistoryType
<1>7. OnceInv'
  <2>1. ASSUME NEW d \in Callers, pc'[d] = "run", key'[d] \notin excused'
        PROVE  byKey'[key'[d]] = mine'[d]
    BY <1>2, <2>1 DEF CacheInv, OnceInv, ServedInv, Shape
  <2>2. ASSUME NEW d \in Callers, pc'[d] = "direct" PROVE key'[d] \in excused'
    BY <1>2, <2>2, SMTT(20) DEF CacheInv, OnceInv, ServedInv, Shape
  <2>3. ASSUME NEW k \in Keys \ excused', valid'[k] # 0
        PROVE  /\ valid'[k] = 1 /\ byKey'[k] # None
               /\ entry'[byKey'[k]].state = "ok" /\ ~entry'[byKey'[k]].expired
    <3>1. CASE k = key[c]
      <4>1. byKey[k] = mine[c]
        BY <1>1, <1>2, <2>3, <3>1, SMTT(20) DEF CacheInv, OnceInv
      <4>2. valid[k] = 0
        BY <1>1, <1>2, <2>3, <4>1, SMTT(20) DEF CacheInv, OnceInv
      <4>3. mine[c] # None
        BY <1>1, IdemAssumption, SMTT(20)
      <4>4. QED BY <1>1, <1>2, <1>3, <1>6, <3>1, <4>1, <4>2, <4>3, SMTT(20)
    <3>2. CASE k # key[c]
      <4>1. /\ valid'[k] = valid[k] /\ valid[k] = 1 /\ byKey[k] # None
            /\ entry[byKey[k]].state = "ok" /\ ~entry[byKey[k]].expired
        BY <1>2, <1>6, <2>3, <3>2, SMTT(20) DEF CacheInv, OnceInv
      <4>2. byKey[k] \in Entries /\ byKey[k] # mine[c]
        BY <1>1, <4>1, SMTT(20) DEF CacheInv, ServedInv, Indexed
      <4>3. QED BY <1>2, <1>3, <4>1, <4>2, SMTT(20)
    <3>3. QED BY <3>1, <3>2, SMTT(20)
  <2>4. ASSUME NEW x \in Entries, entry'[x].expired PROVE entry'[x].state = "ok"
    BY <1>1, <1>3, <2>4 DEF CacheInv, OnceInv
  <2>5. QED BY <2>1, <2>2, <2>3, <2>4, Zenon DEF OnceInv
<1>8. HistoryType'
  BY <1>2, <1>6 DEF CacheInv, HistoryType
<1>9. QED BY <1>5, <1>7, <1>8

LEMMA StoreErrorCache ==
  ASSUME CacheInv, NEW c \in Callers, StoreError(c)
  PROVE  ListInv' /\ HistoryType' /\ OnceInv'
<1>1. /\ pc[c] = "run" /\ mine[c] \in Entries /\ key[c] \in Keys
      /\ entry[mine[c]].key = key[c] /\ entry[mine[c]].state = "running"
      /\ ~entry[mine[c]].expired
  BY DEF StoreError, CacheInv, ServedInv, Holds, OnceInv
<1>2. /\ UNCHANGED <<key, mine, valid, excused>> /\ pc' = [pc EXCEPT ![c] = "close"]
  BY DEF StoreError, history
<1>3. /\ entry'[mine[c]].key = key[c] /\ ~entry'[mine[c]].expired
      /\ \A x \in Entries \ {mine[c]} : entry'[x] = entry[x]
  BY <1>1, SMTT(20) DEF StoreError, CacheInv, ServedInv, Shape, EntryType
<1>4. /\ Range(lru) \subseteq Entries /\ lru \in Seq(Entries) /\ Inj(lru)
      /\ Len(lru) <= MaxEntries /\ byKey \in [Keys -> Entries \cup {None}]
  BY DEF CacheInv, ServedInv, Shape, ListInv, Range
<1>5. HistoryType'
  BY <1>2, SMTT(20) DEF CacheInv, HistoryType
<1>6. /\ lru' \in Seq(Entries) /\ Inj(lru') /\ Len(lru') <= MaxEntries
      /\ Range(lru') = Range(lru) \ (IF byKey[key[c]] = mine[c] THEN {mine[c]} ELSE {})
      /\ byKey' = IF byKey[key[c]] = mine[c] THEN [byKey EXCEPT ![key[c]] = None] ELSE byKey
  <2>1. CASE byKey[key[c]] = mine[c]
    <3>1. lru' = Without(lru, mine[c]) /\ byKey' = [byKey EXCEPT ![key[c]] = None]
      <4>1. /\ lru' = removeLocked(mine[c], byKey, lru)[2]
            /\ byKey' = removeLocked(mine[c], byKey, lru)[1]
        BY <2>1, Zenon DEF StoreError
      <4>2. removeLocked(mine[c], byKey, lru)
              = <<[byKey EXCEPT ![key[c]] = None], Without(lru, mine[c])>>
        BY <1>1, Zenon DEF removeLocked
      <4>3. QED BY <4>1, <4>2
    <3>2. /\ lru' \in Seq(Entries) /\ Inj(lru') /\ Range(lru') = Range(lru) \ {mine[c]}
          /\ Len(lru') = IF mine[c] \in Range(lru) THEN Len(lru) - 1 ELSE Len(lru)
      BY <1>4, <3>1, Removed, Zenon
    <3>3. Len(lru') <= MaxEntries
      BY <1>4, <3>2, IdemAssumption
    <3>4. QED BY <2>1, <3>1, <3>2, <3>3, Zenon
  <2>2. CASE byKey[key[c]] # mine[c]
    BY <1>4, <2>2 DEF StoreError
  <2>3. QED BY <2>1, <2>2
<1>7. \A x \in Range(lru) : entry'[x].key = entry[x].key
  BY <1>1, <1>3, <1>4, SMTT(20)
<1>8. ASSUME NEW k \in Keys, byKey[k] # mine[c] PROVE byKey'[k] = byKey[k]
  BY <1>4, <1>6, <1>8
<1>9. ListInv'
  <2>1. ASSUME NEW k \in Keys, byKey'[k] # None PROVE byKey'[k] \in Range(lru')
    <3>1. byKey'[k] = byKey[k] /\ byKey[k] \in Range(lru) /\ entry[byKey[k]].key = k
      BY <1>1, <1>4, <1>6, <2>1, SMTT(20) DEF CacheInv, ServedInv, Indexed, ListInv
    <3>2. byKey[key[c]] = mine[c] => byKey[k] # mine[c]
      BY <1>1, <1>4, <1>6, <2>1, <3>1, SMTT(20)
    <3>3. QED BY <1>6, <3>1, <3>2, SMTT(20)
  <2>2. ASSUME NEW x \in Range(lru') PROVE entry'[x].key \in Keys /\ byKey'[entry'[x].key] = x
    <3>1. x \in Range(lru) /\ (byKey[key[c]] = mine[c] => x # mine[c])
      BY <1>6, <2>2
    <3>2. entry'[x].key = entry[x].key /\ entry[x].key \in Keys /\ byKey[entry[x].key] = x
      BY <1>7, <3>1 DEF CacheInv, ListInv
    <3>3. QED BY <1>4, <1>6, <3>1, <3>2, SMTT(20)
  <2>3. QED BY <1>6, <2>1, <2>2, Zenon DEF ListInv
<1>10. OnceInv'
  <2>1. ASSUME NEW d \in Callers, pc'[d] = "run", key'[d] \notin excused'
        PROVE  byKey'[key'[d]] = mine'[d]
    <3>1. /\ d # c /\ pc[d] = "run" /\ key'[d] = key[d] /\ mine'[d] = mine[d]
          /\ key[d] \notin excused
      BY <1>2, <2>1, SMTT(20) DEF CacheInv, ServedInv, Shape
    <3>2. byKey[key[d]] = mine[d] /\ key[d] \in Keys /\ mine[d] \in Entries
      BY <3>1, SMTT(20) DEF CacheInv, OnceInv, ServedInv, Holds
    <3>3. mine[d] # mine[c]
      BY <1>1, <3>1 DEF CacheInv, ServedInv, OneOwner, Owns
    <3>4. QED BY <1>8, <3>1, <3>2, <3>3
  <2>2. ASSUME NEW d \in Callers, pc'[d] = "direct" PROVE key'[d] \in excused'
    BY <1>2, <2>2, SMTT(20) DEF CacheInv, OnceInv, ServedInv, Shape
  <2>3. ASSUME NEW k \in Keys \ excused', valid'[k] # 0
        PROVE  /\ valid'[k] = 1 /\ byKey'[k] # None
               /\ entry'[byKey'[k]].state = "ok" /\ ~entry'[byKey'[k]].expired
    <3>1. /\ valid'[k] = 1 /\ byKey[k] # None
          /\ entry[byKey[k]].state = "ok" /\ ~entry[byKey[k]].expired
      BY <1>2, <2>3 DEF CacheInv, OnceInv
    <3>2. byKey[k] # mine[c] /\ byKey[k] \in Entries
      BY <1>1, <1>4, <3>1, SMTT(20)
    <3>3. QED BY <1>3, <1>8, <3>1, <3>2, SMTT(20)
  <2>4. ASSUME NEW x \in Entries, entry'[x].expired PROVE entry'[x].state = "ok"
    BY <1>1, <1>3, <2>4 DEF CacheInv, OnceInv
  <2>5. QED BY <2>1, <2>2, <2>3, <2>4, Zenon DEF OnceInv
<1>11. QED BY <1>5, <1>9, <1>10

LEMMA ExpireCache ==
  ASSUME CacheInv, NEW e \in Entries, Expire(e)
  PROVE  ListInv' /\ HistoryType' /\ OnceInv'
<1>1. /\ e \in Range(lru) /\ entry[e].state = "ok" /\ entry[e].key \in Keys
      /\ UNCHANGED <<byKey, lru, pc, key, mine, excused>>
  BY DEF Expire, CacheInv, ListInv
<1>2. /\ entry'[e].key = entry[e].key /\ entry'[e].state = "ok"
      /\ \A x \in Entries \ {e} : entry'[x] = entry[x]
  BY <1>1 DEF Expire, CacheInv, ServedInv, Shape, EntryType
<1>3. /\ valid' \in [Keys -> 0 .. 2] /\ valid'[entry[e].key] = 0
      /\ \A k \in Keys \ {entry[e].key} : valid'[k] = valid[k]
  BY <1>1, SMTT(20) DEF Expire, CacheInv, HistoryType
<1>4. ListInv'
  <2>1. \A x \in Range(lru) : entry'[x].key = entry[x].key
    <3>1. Range(lru) \subseteq Entries
      BY ListedFacts DEF CacheInv, ListInv
    <3>2. ASSUME NEW x \in Entries PROVE entry'[x].key = entry[x].key
      <4>1. CASE x = e
        BY <1>2, <4>1, Zenon
      <4>2. CASE x # e
        BY <1>2, <4>2, Zenon
      <4> QED BY <4>1, <4>2, Zenon
    <3> QED BY <3>1, <3>2, Zenon
  <2>2. QED BY <1>1, <2>1, SMTT(20) DEF CacheInv, ListInv
<1>5. HistoryType'
  BY <1>1, <1>3, SMTT(20) DEF CacheInv, HistoryType
<1>6. OnceInv'
  <2>1. ASSUME NEW k \in Keys \ excused', valid'[k] # 0
        PROVE  /\ valid'[k] = 1 /\ byKey'[k] # None
               /\ entry'[byKey'[k]].state = "ok" /\ ~entry'[byKey'[k]].expired
    <3>1. /\ k # entry[e].key /\ valid'[k] = 1 /\ byKey[k] # None
          /\ entry[byKey[k]].state = "ok" /\ ~entry[byKey[k]].expired
      BY <1>1, <1>3, <2>1, SMTT(20) DEF CacheInv, OnceInv
    <3>2. byKey[k] \in Entries \ {e}
      BY <3>1, SMTT(20) DEF CacheInv, ServedInv, Indexed
    <3>3. QED BY <1>1, <1>2, <3>1, <3>2, SMTT(20)
  <2>2. \A x \in Entries : entry'[x].expired => entry'[x].state = "ok"
    BY <1>2 DEF CacheInv, OnceInv
  <2>3. QED BY <1>1, <2>1, <2>2, SMTT(20) DEF CacheInv, OnceInv
<1>7. QED BY <1>4, <1>5, <1>6

LEMMA CacheInit == Init => CacheInv
<1> SUFFICES ASSUME Init PROVE CacheInv
  OBVIOUS
<1>1. lru = << >> /\ Range(lru) = {} /\ Len(lru) = 0 /\ Inj(lru) /\ lru \in Seq(Entries)
  BY DEF Init, Range, Inj
<1>2. ListInv
  BY <1>1, IdemAssumption DEF Init, ListInv
<1>3. HistoryType /\ OnceInv
  BY DEF Init, HistoryType, OnceInv, NoEntry
<1>4. QED BY <1>2, <1>3, ServedInit DEF CacheInv

LEMMA CacheNext == CacheInv /\ [Next]_vars => CacheInv'
<1> SUFFICES ASSUME CacheInv, [Next]_vars PROVE CacheInv'
  OBVIOUS
<1> DEFINE P == ListInv' /\ HistoryType' /\ OnceInv'
<1>1. \A c \in Callers : KeysOf(c) \subseteq Keys
  BY IdemAssumption DEF KeysOf
<1>2. ASSUME NEW c \in Callers, NEW k \in Keys, Call(c, k) PROVE P
  <2>1. CASE Replay(c, k)
    BY <2>1, ReplayCache
  <2>2. CASE Coalesce(c, k)
    BY <2>2, AloneCache, Zenon
  <2>3. CASE Register(c, k)
    BY <2>3, RegisterCache
  <2>4. QED BY <1>2, <2>1, <2>2, <2>3 DEF Call
<1>3. ASSUME NEW c \in Callers, Step(c) \/ WaitCancelled(c) PROVE P
  <2>1. CASE StoreOk(c)
    BY <2>1, StoreOkCache
  <2>2. CASE StoreError(c)
    BY <2>2, StoreErrorCache
  <2>3. CASE WaitEnds(c)
    BY <2>3, AloneCache, Zenon
  <2>4. CASE CloseDone(c) \/ WaitCancelled(c) \/ Reply(c) \/ DirectEnds(c)
    BY <2>4, LeavesCache
  <2>5. QED BY <1>3, <2>1, <2>2, <2>3, <2>4 DEF Step
<1>4. ASSUME NEW e \in Entries, Expire(e) PROVE P
  BY <1>4, ExpireCache
<1>5. ASSUME UNCHANGED vars PROVE P
  BY <1>5, AloneCache, Zenon
<1> HIDE DEF P
<1>6. P
  BY <1>1, <1>2, <1>3, <1>4, <1>5 DEF Next
<1>7. ServedInv'
  BY NextServed, SMTT(20) DEF CacheInv
<1>8. QED BY <1>6, <1>7 DEF CacheInv, P

LEMMA CacheAlways == Spec => []CacheInv
BY CacheInit, CacheNext, PTL DEF Spec

\* The cache is coherent whatever its size and however many requests use it
\* (cache.go Do, removeLocked, evictLocked): the list stays within its bound,
\* it and the index hold the same entries, one per key, and what they hand out
\* is a success of the key that was asked for.
THEOREM CoherentCache == Spec => []CacheIsCoherent
<1>1. CacheInv => TypeOK
  BY SMTT(20) DEF CacheInv, ServedInv, Shape, EntryType, ListInv, HistoryType, TypeOK
<1>2. CacheInv => IndexesAgree
  <2> SUFFICES ASSUME CacheInv PROVE IndexesAgree
    OBVIOUS
  <2>1. \A i \in DOMAIN lru : lru[i] \in Range(lru)
    BY SMTT(20) DEF Range
  <2>2. QED BY <2>1 DEF CacheInv, ServedInv, Indexed, ListInv, Inj, IndexesAgree
<1>3. CacheInv => DoneIsSuccess
  BY SMTT(20) DEF CacheInv, ServedInv, DoneIsSuccess, Indexed
<1>4. CacheInv => AnswerFits
  BY DEF CacheInv, ServedInv, AnswerFits, Holds
<1>5. CacheInv => CacheIsCoherent
  BY <1>1, <1>2, <1>3, <1>4 DEF CacheIsCoherent
<1>6. QED BY <1>5, CacheAlways, PTL

\* Do runs fn once per key, at a time and within the lifetime of its success
\* (cache.go Do), for any number of concurrent duplicates and any size of the
\* cache.  The only exceptions are the two the cache has on purpose: an entry
\* evicted before its time, and a handler REST runs by itself.
THEOREM OncePerKey == Spec => []RunsOnce
<1>1. ASSUME CacheInv, NEW k \in Keys \ excused PROVE \A c, d \in Running(k) : c = d
  <2>1. \A c \in Running(k) : c \in Callers /\ Owns(c, byKey[k]) /\ byKey[k] \in Entries
    BY <1>1 DEF Running, Owns, CacheInv, OnceInv, ServedInv, Holds
  <2>2. QED BY <1>1, <2>1, SMTT(20) DEF CacheInv, ServedInv, OneOwner
<1>2. CacheInv => SingleFlight
  BY <1>1, SMTT(20) DEF SingleFlight
<1>3. CacheInv => OnceWithinTTL
  BY DEF CacheInv, OnceInv, HistoryType, OnceWithinTTL
<1>4. CacheInv => RunsOnce
  BY <1>2, <1>3 DEF RunsOnce
<1>5. QED BY <1>4, CacheAlways, PTL
=============================================================================
