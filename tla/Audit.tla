------------------------------- MODULE Audit -------------------------------
(***************************************************************************)
(* The audit journal: internal/audit/log.go and adapter.go, read back by   *)
(* internal/transport/rest/audit.go.  Entries are appended to a file, each *)
(* carrying its number and the hash of the one before; a restart reads the *)
(* end of the file and continues the chain.                                *)
(*                                                                         *)
(* A line of the file is an entry or Garbage, which does not parse.  The   *)
(* hash is injective: it stands for everything it was computed from.       *)
(***************************************************************************)
EXTENDS Integers, FiniteSets, SequencesExt

CONSTANTS Events, Genesis, Garbage,
          MaxLines,     \* bound on the lines of the file
          MaxCrashes    \* bound on stops and power cuts

ASSUME AuditAssumption == MaxLines \in Nat /\ MaxCrashes \in Nat

VARIABLES
  sync,      \* Config.Sync: every entry is fsynced
  file,      \* the lines of the journal
  synced,    \* how many of them an fsync has confirmed
  cut,       \* its last line lacks the newline
  up,        \* the process has the journal open
  head,      \* its chain head
  stuck,     \* bufio.Writer keeps its first error
  crashes,
  acked,     \* history: entries Append returned
  unsynced,  \* history: an entry was written and its fsync failed, so that
             \* the head still points before it
  damaged,   \* history: the first line that a fault has spoilt, 0 if none
  swallowed  \* history: entries Append returned whose line joined a cut one

auditVars == <<sync, file, synced, cut, up, head, stuck, crashes, acked, unsynced, damaged, swallowed>>

NewChain == [seq |-> 0, hash |-> Genesis]

AuditInit ==
  /\ sync \in BOOLEAN
  /\ file = <<>> /\ synced = 0 /\ cut = FALSE /\ up = TRUE /\ head = NewChain /\ stuck = FALSE
  /\ crashes = 0 /\ acked = {} /\ unsynced = FALSE /\ damaged = 0 /\ swallowed = {}

(* The number, the facts and the previous hash.                              *)
hashOf(seq, ev, prev) == <<seq, ev, prev>>

EntryAfter(h, ev) ==
  [seq |-> h.seq + 1, ev |-> ev, prev |-> h.hash, hash |-> hashOf(h.seq + 1, ev, h.hash)]

HeadAt(e) == [seq |-> e.seq, hash |-> e.hash]

(* A line written at the end of the file joins one that was cut short.       *)
Written(line) == IF cut THEN Append(Front(file), Garbage) ELSE Append(file, line)

(* What a line spoils: a cut line by joining it, else itself when the head   *)
(* it continues is not the end of the file.                                  *)
Damage ==
  CASE damaged # 0 -> damaged
    [] damaged = 0 /\ cut -> Len(file)
    [] damaged = 0 /\ ~cut /\ unsynced -> Len(file) + 1
    [] OTHER -> 0

-----------------------------------------------------------------------------
(* Append, called by Sink.Record, which drops the event when Append fails.   *)
(* It also fails, with nothing changed, when the signer does.                *)

AppendOk(ev) ==
  LET e == EntryAfter(head, ev) IN
  /\ up /\ ~stuck /\ Len(file) < MaxLines
  /\ file' = Written(e) /\ cut' = FALSE
  /\ synced' = IF sync THEN Len(file') ELSE synced
  /\ head' = HeadAt(e)
  /\ acked' = acked \cup {e}
  /\ unsynced' = FALSE /\ damaged' = Damage
  /\ swallowed' = IF cut THEN swallowed \cup {e} ELSE swallowed
  /\ UNCHANGED <<sync, up, stuck, crashes>>

(* The write stops after none, a part or all but the newline of the line.    *)
(* The writer refuses everything from then on.                               *)
AppendCut(ev) ==
  /\ up /\ ~stuck /\ Len(file) < MaxLines /\ stuck' = TRUE
  /\ \/ UNCHANGED <<file, cut, damaged>>
     \/ /\ \E line \in {Garbage, EntryAfter(head, ev)} : file' = Written(line)
        /\ cut' = TRUE /\ damaged' = Damage
  /\ UNCHANGED <<sync, synced, up, head, crashes, acked, unsynced, swallowed>>

(* The line is in the file, but Sync failed and the head stays.              *)
AppendUnsynced(ev) ==
  /\ sync /\ up /\ ~stuck /\ Len(file) < MaxLines
  /\ file' = Written(EntryAfter(head, ev)) /\ cut' = FALSE /\ unsynced' = TRUE
  /\ damaged' = Damage
  /\ UNCHANGED <<sync, synced, up, head, stuck, crashes, acked, swallowed>>

-----------------------------------------------------------------------------
(* Stopping and starting *)

(* The process ends.  Lines that were not fsynced may be lost with the       *)
(* machine's memory.                                                         *)
Crash(n) ==
  /\ up /\ up' = FALSE /\ crashes < MaxCrashes /\ crashes' = crashes + 1
  /\ n \in synced .. Len(file)
  /\ file' = SubSeq(file, 1, n) /\ cut' = (cut /\ n = Len(file))
  /\ damaged' = IF n < damaged THEN 0 ELSE damaged
  /\ UNCHANGED <<sync, synced, head, stuck, acked, unsynced, swallowed>>

tailFirst(lines) == IF lines = <<>> THEN NewChain ELSE HeadAt(lines[1])

tail(lines) == IF lines = <<>> THEN NewChain ELSE HeadAt(Last(lines))

(* Open: refused when a line does not parse.                                 *)
Reopen ==
  /\ ~up /\ Garbage \notin ToSet(file) /\ up' = TRUE
  /\ head' = tail(file) /\ stuck' = FALSE /\ unsynced' = FALSE
  /\ UNCHANGED <<sync, file, synced, cut, crashes, acked, damaged, swallowed>>

AuditNext ==
  \/ \E ev \in Events : AppendOk(ev) \/ AppendCut(ev) \/ AppendUnsynced(ev)
  \/ \E n \in 0 .. MaxLines : Crash(n)
  \/ Reopen

-----------------------------------------------------------------------------
(* Verify, over the whole file, without a signature key.                     *)
Intact(lines) ==
  \A i \in DOMAIN lines :
    LET e == lines[i] IN
    /\ e # Garbage
    /\ e.seq = i /\ e.prev = (IF i = 1 THEN Genesis ELSE lines[i - 1].hash)
    /\ e.hash = hashOf(e.seq, e.ev, e.prev)

(* Properties *)

(* Damage is confined: through restarts, lost tails, failed writes and       *)
(* failed fsyncs, Verify gets past every line before the first one written   *)
(* onto a cut line or after a failed fsync, and without such a one past the  *)
(* whole file but for a last line that is itself cut.  An event that Append  *)
(* could not write leaves no mark: the next entry takes its number.          *)
DamageIsConfined ==
  Intact(CASE damaged # 0 -> SubSeq(file, 1, damaged - 1)
           [] damaged = 0 /\ cut /\ Last(file) = Garbage -> Front(file)
           [] OTHER -> file)

(* "A failed write cannot leave the next entry chained to something          *)
(* unwritten": the head is an entry of the file, unless that was spoilt by   *)
(* the line written onto it, and it is the last one unless the fsync of a    *)
(* later one failed.                                                         *)
HeadIsWritten ==
  up /\ ~stuck =>
    /\ Garbage \notin ToSet(file) =>
         head = NewChain \/ \E i \in DOMAIN file : head = HeadAt(file[i])
    /\ ~unsynced /\ (file # <<>> => Last(file) # Garbage) => head = tail(file)

(* With sync on, an entry Append returned stays in the journal, also over a  *)
(* power cut, but for at most one in each run of the service: the one that   *)
(* was written onto a last line cut just before its newline, which Open      *)
(* takes for a whole one.                                                    *)
AckedStays ==
  sync => acked \subseteq ToSet(file) \cup swallowed /\ Cardinality(swallowed) <= crashes

(* Nothing can be removed unseen: of an intact journal, only the end can be  *)
(* missing.  Taking any other line out makes Verify fail.                    *)
RemovalShows ==
  Intact(file) => \A i \in 1 .. Len(file) - 1 : ~Intact(RemoveAt(file, i))

(* What the journal can be relied on for (audit/log.go), over power cuts,  *)
(* failed writes and restarts: it continues from an entry it holds, it     *)
(* loses of what it acknowledged at most an entry a restart, what was      *)
(* recorded before a fault still verifies, and a removal shows.            *)
JournalIsSound ==
  /\ DamageIsConfined
  /\ HeadIsWritten
  /\ AckedStays
  /\ RemovalShows
=============================================================================
