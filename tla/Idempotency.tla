---------------------------- MODULE Idempotency ----------------------------
(***************************************************************************)
(* The idempotency cache of internal/idempotency/cache.go and the two      *)
(* kinds of front end that use it: the REST wrapper (internal/transport/   *)
(* rest/idempotency.go), which runs the handler itself when the cache      *)
(* gives no usable answer, and those that then answer with the error: the  *)
(* gRPC interceptor and the message processor (internal/transport/mq).     *)
(*                                                                         *)
(* A step is one critical section of the cache's mutex together with what  *)
(* its goroutine does before it without touching shared state (fn ends,    *)
(* then the result is stored), or the closing of an entry's done channel,  *)
(* which happens outside the lock.                                         *)
(***************************************************************************)
EXTENDS Integers, Sequences, Functions, FiniteSets

CONSTANTS Callers,    \* requests in progress
          Rest,       \* those that came over REST
          Keys,
          RestKeys,   \* a cache key names its front end: the keys of REST
          Entries,    \* cache entries; an identity is reused when unreachable
          MaxEntries, \* the cache's max
          MayCancel,  \* whether contexts end
          None

ASSUME IdemAssumption ==
  /\ Rest \subseteq Callers /\ RestKeys \subseteq Keys /\ IsFiniteSet(Callers)
  /\ MaxEntries \in Nat \ {0} /\ MayCancel \in BOOLEAN
  /\ IsFiniteSet(Entries) /\ Cardinality(Entries) >= MaxEntries + Cardinality(Callers)
  /\ None \notin Callers \cup Keys \cup Entries

VARIABLES byKey,   \* key -> entry
          lru,     \* the list, most recently used first
          entry,   \* what each entry holds
          pc, key, mine, got,   \* the callers
          valid,   \* history: per key, successful runs still within the TTL
          excused  \* history: keys evicted early, or run outside the cache

cache   == <<byKey, lru, entry>>
history == <<valid, excused>>
vars    == <<cache, pc, key, mine, got, history>>

NoEntry == [key |-> None, state |-> "running", done |-> FALSE, expired |-> FALSE]

Init == /\ byKey = [k \in Keys |-> None]
        /\ lru = << >>
        /\ entry = [e \in Entries |-> NoEntry]
        /\ pc = [c \in Callers |-> "idle"]
        /\ key = [c \in Callers |-> None]
        /\ mine = [c \in Callers |-> None]
        /\ got = [c \in Callers |-> None]
        /\ valid = [k \in Keys |-> 0]
        /\ excused = {}

(* Entries nobody can reach any more are collected.                          *)
Collect(ent, index, list, refs) ==
  [e \in Entries |-> IF e \in Range(list) \cup Range(index) \cup Range(refs)
                     THEN ent[e] ELSE NoEntry]

(* The list without the element of e. *)
Without(list, e) ==
  LET i == CHOOSE n \in DOMAIN list : list[n] = e
  IN  IF e \in Range(list) THEN SubSeq(list, 1, i - 1) \o SubSeq(list, i + 1, Len(list))
                           ELSE list

(* removeLocked, on the pair of indexes. *)
removeLocked(e, index, list) ==
  <<[index EXCEPT ![entry[e].key] = None], Without(list, e)>>

(* evictLocked: the least recently used entries go, in flight or not.  The   *)
(* entry x for key k has just been pushed, and its record is not in `entry'. *)
evictLocked(x, k, index, list) ==
  LET over == SubSeq(list, MaxEntries + 1, Len(list))
      gone == Range(over)
      keyOf(e) == IF e = x THEN k ELSE entry[e].key
  IN  <<[y \in Keys |-> IF \E e \in gone : keyOf(e) = y THEN None ELSE index[y]],
        SubSeq(list, 1, IF Len(list) < MaxEntries THEN Len(list) ELSE MaxEntries)>>

(* One more success of key k; two stands for more than one.                  *)
Succeeded(k) == [valid EXCEPT ![k] = IF @ = 0 THEN 1 ELSE 2]

-----------------------------------------------------------------------------
(* Do, the first critical section. *)

Answered(c) == /\ pc' = [pc EXCEPT ![c] = "idle"]
               /\ mine' = [mine EXCEPT ![c] = None]
               /\ key' = [key EXCEPT ![c] = None]
               /\ got' = [got EXCEPT ![c] = None]

(* The REST wrapper runs the handler without the cache.                      *)
GoDirect(c) == /\ pc' = [pc EXCEPT ![c] = "direct"]
               /\ mine' = [mine EXCEPT ![c] = None]
               /\ got' = [got EXCEPT ![c] = None]
               /\ excused' = excused \cup {key[c]}
               /\ UNCHANGED key

KeysOf(c) == IF c \in Rest THEN RestKeys ELSE Keys \ RestKeys

(* A completed entry within its TTL: replayed. *)
Replay(c, k) ==
  LET e == byKey[k] IN
  /\ pc[c] = "idle" /\ e # None /\ entry[e].done /\ ~entry[e].expired
  /\ lru' = <<e>> \o Without(lru, e)
  /\ got' = [got EXCEPT ![c] = e]
  /\ pc' = [pc EXCEPT ![c] = "reply"]
  /\ mine' = [mine EXCEPT ![c] = e]
  /\ key' = [key EXCEPT ![c] = k]
  /\ UNCHANGED <<byKey, entry, history>>

(* An entry in flight: the caller waits outside the lock. *)
Coalesce(c, k) ==
  /\ pc[c] = "idle" /\ byKey[k] # None /\ ~entry[byKey[k]].done
  /\ mine' = [mine EXCEPT ![c] = byKey[k]]
  /\ key' = [key EXCEPT ![c] = k]
  /\ pc' = [pc EXCEPT ![c] = "wait"]
  /\ UNCHANGED <<cache, got, history>>

RegisterNew(c, k) ==
  /\ \E e \in {x \in Entries : entry[x] = NoEntry} :
       LET kept  == IF byKey[k] = None THEN <<byKey, lru>>
                                       ELSE removeLocked(byKey[k], byKey, lru)
           after == evictLocked(e, k, [kept[1] EXCEPT ![k] = e], <<e>> \o kept[2])
           lost  == {x \in Range(kept[2]) \ Range(after[2]) : ~entry[x].expired}
       IN  /\ byKey' = after[1] /\ lru' = after[2]
           /\ mine' = [mine EXCEPT ![c] = e]
           /\ entry' = Collect([entry EXCEPT ![e].key = k], byKey', lru', mine')
           /\ excused' = excused \cup {entry[x].key : x \in lost}
  /\ key' = [key EXCEPT ![c] = k]
  /\ pc' = [pc EXCEPT ![c] = "run"]
  /\ UNCHANGED <<got, valid>>

RegisterIgnoringTTL(c, k) ==
  /\ pc[c] = "idle" /\ (byKey[k] # None => entry[byKey[k]].done)
  /\ RegisterNew(c, k)

(* No entry, or an expired one that is dropped: a new entry is registered.   *)
Register(c, k) ==
  /\ pc[c] = "idle"
  /\ byKey[k] # None => entry[byKey[k]].done /\ entry[byKey[k]].expired
  /\ RegisterNew(c, k)

-----------------------------------------------------------------------------
(* The runner: the end of fn with the second critical section, and the       *)
(* closing of done.  fn may succeed, give an error that stands for the       *)
(* answer (a non-2xx response, a domain error), or panic, which runGuarded   *)
(* turns into an error.                                                      *)

StoreOk(c) ==
  /\ pc[c] = "run"
  /\ valid' = Succeeded(key[c])
  /\ entry' = [entry EXCEPT ![mine[c]].state = "ok"]
  /\ pc' = [pc EXCEPT ![c] = "close"]
  /\ UNCHANGED <<byKey, lru, key, mine, got, excused>>

StoreErrorAnyEntry(c) ==
  /\ pc[c] = "run"
  /\ \E o \in {"refused", "panic"} : entry' = [entry EXCEPT ![mine[c]].state = o]
  /\ byKey' = [byKey EXCEPT ![key[c]] = None]
  /\ lru' = Without(lru, mine[c])
  /\ pc' = [pc EXCEPT ![c] = "close"]
  /\ UNCHANGED <<key, mine, got, history>>

(* A failure is never cached; an entry that another one has replaced stays   *)
(* out of the indexes.                                                       *)
StoreError(c) ==
  /\ pc[c] = "run"
  /\ \E o \in {"refused", "panic"} : entry' = [entry EXCEPT ![mine[c]].state = o]
  /\ IF byKey[key[c]] = mine[c]
       THEN LET rest == removeLocked(mine[c], byKey, lru)
            IN  byKey' = rest[1] /\ lru' = rest[2]
       ELSE UNCHANGED <<byKey, lru>>
  /\ pc' = [pc EXCEPT ![c] = "close"]
  /\ UNCHANGED <<key, mine, got, history>>

CloseDoneOnlyOk(c) ==
  /\ pc[c] = "close"
  /\ Answered(c)
  /\ entry' = Collect([entry EXCEPT ![mine[c]].done = (entry[mine[c]].state = "ok")],
                      byKey, lru, mine')
  /\ UNCHANGED <<byKey, lru, history>>

(* close(e.done); the front end answers.  A panic leaves REST no response to *)
(* flush: it runs the handler again.                                         *)
CloseDone(c) ==
  /\ pc[c] = "close"
  /\ IF c \in Rest /\ entry[mine[c]].state = "panic"
       THEN GoDirect(c) ELSE Answered(c) /\ UNCHANGED excused
  /\ entry' = Collect([entry EXCEPT ![mine[c]].done = TRUE], byKey, lru, mine')
  /\ UNCHANGED <<byKey, lru, valid>>

-----------------------------------------------------------------------------
(* The waiter, and the end of Do in the front ends. *)

WaitEnds(c) ==
  /\ pc[c] = "wait" /\ entry[mine[c]].done
  /\ got' = [got EXCEPT ![c] = IF entry[mine[c]].state = "ok" THEN mine[c] ELSE None]
  /\ pc' = [pc EXCEPT ![c] = "reply"]
  /\ UNCHANGED <<cache, key, mine, history>>

(* The waiter's context ends: REST runs the handler, the others answer with  *)
(* the error.                                                                *)
WaitCancelled(c) ==
  /\ MayCancel /\ pc[c] = "wait"
  /\ IF c \in Rest THEN GoDirect(c) ELSE Answered(c) /\ UNCHANGED excused
  /\ entry' = Collect(entry, byKey, lru, mine')
  /\ UNCHANGED <<byKey, lru, valid>>

(* The front end of a replayed or coalesced call has Do's result.            *)
Reply(c) ==
  /\ pc[c] = "reply"
  /\ IF c \in Rest /\ entry[mine[c]].state = "panic"
       THEN GoDirect(c) ELSE Answered(c) /\ UNCHANGED excused
  /\ entry' = Collect(entry, byKey, lru, mine')
  /\ UNCHANGED <<byKey, lru, valid>>

(* The handler, run outside the cache, ends. *)
DirectEnds(c) ==
  /\ pc[c] = "direct"
  /\ \E ok \in BOOLEAN : valid' = IF ok THEN Succeeded(key[c]) ELSE valid
  /\ Answered(c)
  /\ entry' = Collect(entry, byKey, lru, mine')
  /\ UNCHANGED <<byKey, lru, excused>>

(* The TTL of a result passes. *)
Expire(e) ==
  /\ e \in Range(lru) /\ entry[e].state = "ok" /\ ~entry[e].expired
  /\ entry' = [entry EXCEPT ![e].expired = TRUE]
  /\ valid' = [valid EXCEPT ![entry[e].key] = 0]
  /\ UNCHANGED <<byKey, lru, pc, key, mine, got, excused>>

(* Do is called with key k. *)
Call(c, k) == Replay(c, k) \/ Coalesce(c, k) \/ Register(c, k)

Step(c) == \/ StoreOk(c) \/ StoreError(c) \/ CloseDone(c) \/ WaitEnds(c)
           \/ Reply(c) \/ DirectEnds(c)

Next == \/ \E c \in Callers : \/ \E k \in KeysOf(c) : Call(c, k)
                              \/ Step(c) \/ WaitCancelled(c)
        \/ \E e \in Entries : Expire(e)

Spec == Init /\ [][Next]_vars

-----------------------------------------------------------------------------
(* Properties *)

Running(k) == {c \in Callers : pc[c] \in {"run", "direct"} /\ key[c] = k}

(* Every variable has its type, and the list never holds more than           *)
(* MaxEntries.                                                               *)
TypeOK ==
  /\ byKey \in [Keys -> Entries \cup {None}]
  /\ lru \in Seq(Entries) /\ Len(lru) <= MaxEntries
  /\ entry \in [Entries -> [key : Keys \cup {None},
                            state : {"running", "ok", "refused", "panic"},
                            done : BOOLEAN, expired : BOOLEAN]]
  /\ pc \in [Callers -> {"idle", "run", "close", "wait", "reply", "direct"}]
  /\ key \in [Callers -> Keys \cup {None}]
  /\ mine \in [Callers -> Entries \cup {None}]
  /\ got \in [Callers -> Entries \cup {None}]
  /\ valid \in [Keys -> 0 .. 2] /\ excused \subseteq Keys

(* The map and the list index the same entries, one per key, although an     *)
(* entry may be evicted, and its key taken over by a new entry, while the    *)
(* call that registered it is still running and fails afterwards.            *)
IndexesAgree ==
  /\ \A k \in Keys : byKey[k] # None => byKey[k] \in Range(lru) /\ entry[byKey[k]].key = k
  /\ \A i \in DOMAIN lru : byKey[entry[lru[i]].key] = lru[i]
  /\ \A i, j \in DOMAIN lru : i # j => lru[i] # lru[j]

(* "A present done-entry is always a success (failures are dropped)".        *)
DoneIsSuccess ==
  \A k \in Keys : byKey[k] # None /\ entry[byKey[k]].done => entry[byKey[k]].state = "ok"

(* What a call is handed as the cached answer is a success of its own key.   *)
AnswerFits == \A c \in Callers : pc[c] = "reply" /\ got[c] # None =>
                entry[got[c]].state = "ok" /\ entry[got[c]].key = key[c]

(* Concurrent duplicates coalesce: one run per key at a time, for the keys   *)
(* whose entry was not evicted early and whose handler REST never ran by     *)
(* itself.  These two are the only ways to a second run.                     *)
SingleFlight == \A k \in Keys \ excused : \A c, d \in Running(k) : c = d

(* Do runs fn at most once per key within the TTL: no second success while   *)
(* the first is valid, with the same two exceptions.                         *)
OnceWithinTTL == \A k \in Keys \ excused : valid[k] <= 1

(* Whoever waits on an entry waits for something that comes: its done        *)
(* channel is closed, or the call that registered it has still to close it.  *)
(* Eviction, a takeover of the key or a panic never separates the two.       *)
WaitersAreServed ==
  \A c \in Callers : pc[c] = "wait" =>
    \/ entry[mine[c]].done
    \/ \E d \in Callers : /\ mine[d] = mine[c]
                          /\ pc[d] \in {"run", "close"}

(* The cache is coherent (cache.go): bounded, with one index, holding      *)
(* successes only, each handed out under its own key, although a run may   *)
(* outlive its entry's place in the cache.                                 *)
CacheIsCoherent ==
  /\ TypeOK
  /\ IndexesAgree
  /\ DoneIsSuccess
  /\ AnswerFits

(* Do runs fn once per key (cache.go Do), at a time and within the         *)
(* lifetime of the success.                                                *)
RunsOnce ==
  /\ SingleFlight
  /\ OnceWithinTTL
=============================================================================
