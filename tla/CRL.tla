-------------------------------- MODULE CRL --------------------------------
(***************************************************************************)
(* The CRL cache: internal/crl/crl.go.  One certificate names a base CRL   *)
(* and a delta CRL; concurrent requests resolve both through the cache,    *)
(* which holds the metadata in memory and the bodies in memory or in a     *)
(* spool directory.  The directory is written and read outside the lock.   *)
(*                                                                         *)
(* The authority publishes numbered issues.  Issue n of the base has CRL   *)
(* number n, issue n of the delta needs a base of number n, and both are   *)
(* good until instant n.                                                   *)
(***************************************************************************)
EXTENDS Integers, FiniteSets, SequencesExt

CONSTANTS CRLThreads,
          MaxIssue,     \* bound on the issues published
          ByteCaps,     \* what MaxBytes may be configured to
          MaxWarm,      \* bound on restarts
          NoCRL

CRLKeys == {"base", "delta"}
SizeOf(key) == IF key = "base" THEN 2 ELSE 1

ASSUME CRLAssumption == MaxIssue \in Nat /\ ByteCaps \subseteq Nat /\ MaxWarm \in Nat

VARIABLES
  spooled,   \* whether bodies go to the spool directory
  maxBytes,  \* the cache's cap
  clock, issue,
  entries,   \* metadata and resident body per key: [num, body], NoCRL if absent
  files,     \* the spool directory
  lru,       \* keys of entries, least recently used first
  total,
  look,      \* what each request is doing
  answers,   \* the last result of each request
  warm,      \* restarts so far
  sinceStart \* history, since the start: [stored, overlap], something was
             \* stored, two requests were under way at once

crlVars == <<spooled, maxBytes, clock, issue, entries, files, lru, total, look, answers, warm, sinceStart>>

IdleLook == [pc |-> "idle"]

CRLInit ==
  /\ spooled \in BOOLEAN /\ maxBytes \in ByteCaps /\ clock = 0 /\ issue = 1 /\ total = 0 /\ lru = <<>> /\ warm = 0
  /\ sinceStart = [stored |-> FALSE, overlap |-> FALSE]
  /\ entries = [k \in CRLKeys |-> NoCRL] /\ files = [k \in CRLKeys |-> NoCRL]
  /\ look = [t \in CRLThreads |-> IdleLook] /\ answers = [t \in CRLThreads |-> NoCRL]

(* The authority and the clock: issue n+1 may appear before or after n ran out. *)
Publish ==
  /\ issue < MaxIssue /\ issue' = issue + 1
  /\ UNCHANGED <<spooled, maxBytes, clock, entries, files, lru, total, look, answers, warm, sinceStart>>

ClockTick ==
  /\ clock < MaxIssue /\ clock' = clock + 1
  /\ UNCHANGED <<spooled, maxBytes, issue, entries, files, lru, total, look, answers, warm, sinceStart>>

-----------------------------------------------------------------------------
(* get *)

Touched(key) == Append(Remove(lru, key), key)

(* The first lookup of CRLFor is the base. *)
CRLFor(t) ==
  /\ look[t] = IdleLook
  /\ look' = [look EXCEPT ![t] = [pc |-> "lookup", key |-> "base", base |-> NoCRL]]
  /\ answers' = [answers EXCEPT ![t] = NoCRL]
  /\ sinceStart' = [sinceStart EXCEPT !.overlap = @ \/ \E u \in CRLThreads : look[u] # IdleLook]
  /\ UNCHANGED <<spooled, maxBytes, clock, issue, entries, files, lru, total, warm>>

(* The entry is copied under the lock; the rest of get works on the copy.    *)
Lookup(t) ==
  LET r == look[t]
      e == entries[r.key]
  IN
  /\ r.pc = "lookup"
  /\ lru' = IF e = NoCRL THEN lru ELSE Touched(r.key)
  /\ look' = [look EXCEPT ![t] =
       [pc |-> IF e # NoCRL /\ clock < e.num THEN "read" ELSE "fetch",
        key |-> r.key, base |-> r.base, meta |-> e]]
  /\ UNCHANGED <<spooled, maxBytes, clock, issue, entries, files, total, answers, warm, sinceStart>>

body(key, e) == IF e.body # NoCRL THEN e.body ELSE files[key]

consistentNot(base, delta) == TRUE

(* The delta's base number must not exceed the number of the base held.      *)
consistent(base, delta) == delta <= base

(* CRLFor with what get returned: num from the metadata, body what was read. *)
Got(t, num, bd, fresh) ==
  LET r == look[t] IN
  IF r.key = "base"
  THEN /\ look' = [look EXCEPT ![t] = [pc |-> "lookup", key |-> "delta",
                                       base |-> [num |-> num, body |-> bd, fresh |-> fresh]]]
       /\ UNCHANGED answers
  ELSE /\ look' = [look EXCEPT ![t] = IdleLook]
       /\ answers' = [answers EXCEPT ![t] =
            [base |-> r.base.body,
             reliable |-> r.base.fresh /\ fresh /\ consistent(r.base.num, num),
             delta |-> IF fresh /\ consistent(r.base.num, num) THEN bd ELSE NoCRL]]

(* Nothing to be had: no CRL at all, or a base without its delta.            *)
GotNothing(t) ==
  LET r == look[t] IN
  /\ look' = [look EXCEPT ![t] = IdleLook]
  /\ answers' = [answers EXCEPT ![t] =
       IF r.key = "base" THEN NoCRL
       ELSE [base |-> r.base.body, reliable |-> FALSE, delta |-> NoCRL]]

(* A fresh entry: its body is read, from the spool after the lock was left.  *)
ReadBody(t) ==
  LET r == look[t] b == body(r.key, r.meta) IN
  /\ r.pc = "read"
  /\ IF b # NoCRL THEN Got(t, r.meta.num, b, TRUE)
     ELSE look' = [look EXCEPT ![t].pc = "fetch"] /\ UNCHANGED answers
  /\ UNCHANGED <<spooled, maxBytes, clock, issue, entries, files, lru, total, warm, sinceStart>>

(* The download is answered with the issue of that moment, or fails and the  *)
(* copy serves, whatever its age.                                            *)
Fetch(t) ==
  LET r == look[t] IN
  /\ r.pc = "fetch"
  /\ \/ /\ look' = [look EXCEPT ![t] = [pc |-> "write", key |-> r.key, base |-> r.base, new |-> issue]]
        /\ UNCHANGED answers
     \/ IF r.meta # NoCRL /\ body(r.key, r.meta) # NoCRL
        THEN Got(t, r.meta.num, body(r.key, r.meta), FALSE) ELSE GotNothing(t)
  /\ UNCHANGED <<spooled, maxBytes, clock, issue, entries, files, lru, total, warm, sinceStart>>

(* store, before the lock: the body goes to the spool, or stays resident     *)
(* when that fails or there is none.                                         *)
WriteBody(t) ==
  LET r == look[t] IN
  /\ r.pc = "write"
  /\ \E ok \in BOOLEAN :
       /\ ok => spooled
       /\ files' = IF ok THEN [files EXCEPT ![r.key] = r.new] ELSE files
       /\ look' = [look EXCEPT ![t] = [pc |-> "store", key |-> r.key, base |-> r.base,
                     meta |-> [num |-> r.new, body |-> IF ok THEN NoCRL ELSE r.new], new |-> r.new]]
  /\ UNCHANGED <<spooled, maxBytes, clock, issue, entries, lru, total, answers, warm, sinceStart>>

-----------------------------------------------------------------------------
(* store and evictLocked, under the lock. *)

(* Least recently used first, never the entry just stored.  With two keys    *)
(* there is one victim at most.                                              *)
evictLocked(keep, order, tot) ==
  LET victims == SelectSeq(order, LAMBDA k : k # keep)
  IN  IF tot > maxBytes /\ victims # <<>>
      THEN [out |-> {Head(victims)}, total |-> tot - SizeOf(Head(victims))]
      ELSE [out |-> {}, total |-> tot]

Store(t) ==
  LET r == look[t]
      old == entries[r.key]
      order == Touched(r.key)
      ev == evictLocked(r.key, order, total - (IF old = NoCRL THEN 0 ELSE SizeOf(r.key)) + SizeOf(r.key))
      gone(k) == k \in ev.out /\ entries[k].body = NoCRL   \* its file goes
      left == old # NoCRL /\ old.body = NoCRL /\ r.meta.body # NoCRL  \* the old path is removed
  IN
  /\ r.pc = "store"
  /\ entries' = [k \in CRLKeys |-> IF k = r.key THEN r.meta ELSE IF k \in ev.out THEN NoCRL ELSE entries[k]]
  /\ files' = [k \in CRLKeys |-> IF gone(k) \/ (k = r.key /\ left) THEN NoCRL ELSE files[k]]
  /\ lru' = SelectSeq(order, LAMBDA k : k \notin ev.out)
  /\ total' = ev.total
  /\ Got(t, r.new, r.new, TRUE)
  /\ sinceStart' = [sinceStart EXCEPT !.stored = TRUE]
  /\ UNCHANGED <<spooled, maxBytes, clock, issue, warm>>

(* A restart: requests and memory are gone, warmStart adopts the spool.      *)
warmStart ==
  /\ warm < MaxWarm /\ warm' = warm + 1
  /\ look' = [t \in CRLThreads |-> IdleLook] /\ answers' = [t \in CRLThreads |-> NoCRL]
  /\ entries' = [k \in CRLKeys |-> IF files[k] = NoCRL THEN NoCRL ELSE [num |-> files[k], body |-> NoCRL]]
  /\ lru' = SetToSeq({k \in CRLKeys : files[k] # NoCRL})
  /\ total' = (IF files["base"] = NoCRL THEN 0 ELSE SizeOf("base"))
              + (IF files["delta"] = NoCRL THEN 0 ELSE SizeOf("delta"))
  /\ sinceStart' = [stored |-> FALSE, overlap |-> FALSE]
  /\ UNCHANGED <<spooled, maxBytes, clock, issue, files>>

CRLNext ==
  \/ Publish \/ ClockTick \/ warmStart
  \/ \E t \in CRLThreads : \/ CRLFor(t) \/ Lookup(t) \/ ReadBody(t) \/ Fetch(t)
                           \/ WriteBody(t) \/ Store(t)

-----------------------------------------------------------------------------
(* Properties *)

(* The size accounting and the recency list agree with the entries, and from *)
(* the first store on the cache is within its cap or holds one entry.  A     *)
(* warm start evicts nothing, so until then the spool may exceed the cap.    *)
CacheAccounts ==
  /\ ToSet(lru) = {k \in CRLKeys : entries[k] # NoCRL} /\ Len(lru) = Cardinality(ToSet(lru))
  /\ total = (IF entries["base"] = NoCRL THEN 0 ELSE SizeOf("base"))
             + (IF entries["delta"] = NoCRL THEN 0 ELSE SizeOf("delta"))
  /\ sinceStart.stored => total <= maxBytes \/ Len(lru) = 1

(* "The delta's BaseCRLNumber must not exceed our base CRLNumber": a delta is *)
(* handed out only with a base it applies to, however the issues change and  *)
(* the cache evicts; of resident bodies however requests overlap, of spooled *)
(* ones while none did.  get reads a spooled body after it left the lock, so *)
(* a request that overlaps may have put another issue in the file.           *)
DeltaFits ==
  ~spooled \/ ~sinceStart.overlap =>
    \A t \in CRLThreads : answers[t] # NoCRL /\ answers[t].delta # NoCRL =>
      answers[t].delta <= answers[t].base

(* The CRL cache (crl.go) counts what it holds, keeps its cap once it has  *)
(* stored something, and pairs a delta with a base it applies to, except   *)
(* where requests overlap over a spooled body.                             *)
CRLCacheIsSound ==
  /\ CacheAccounts
  /\ DeltaFits
=============================================================================
