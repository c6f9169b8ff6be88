----------------------------- MODULE ServiceKey -----------------------------
(***************************************************************************)
(* The one RS256 key the service signs its own statements with, and the    *)
(* statements: id and access tokens, verification receipts and documents   *)
(* carried by a QR code.  All are JWS of the same key, told apart by their *)
(* claims, and are checked long after the process that signed them is gone *)
(* (oidc/signer.go, oidc.go, signedqr.go, receipt.go).                     *)
(***************************************************************************)
EXTENDS Integers, FiniteSets

CONSTANTS NoKey,          \* no key, no file
          MaxStatements,  \* bound: statements signed
          MaxBoots,       \* bound: starts of the process
          LastTick,       \* bound: the clock
          DurationBits    \* the width of a duration, in ticks

VARIABLES
    keyPath,    \* whether oidc.key-path is set
    keyFile,    \* the key in that file, NoKey, or 0 for what does not parse
    signer,     \* the key in the running process, NoKey when it is down
    boots,      \* starts so far; a key generated by the n-th is n
    tick,       \* the clock, in fractions of a second
    issued,     \* every statement signed
    lastCheck   \* the last statement checked, and the answer

keyVars == <<keyPath, keyFile, signer, boots, tick, issued, lastCheck>>

NoCheck == [by |-> "none", what |-> {}, ok |-> FALSE, at |-> 0, key |-> NoKey]

KeyInit ==
    /\ keyPath \in BOOLEAN /\ keyFile = NoKey /\ signer = NoKey
    /\ boots = 0 /\ tick = 0 /\ issued = {} /\ lastCheck = NoCheck

-----------------------------------------------------------------------------
(* The key. *)

(* WriteFile truncates, then writes: a fault or a kill between the two      *)
(* leaves a file that does not parse.                                       *)
WriteKey ==
    \/ keyFile' = boots' /\ signer' = boots'
    \/ keyFile' = 0 /\ signer' = NoKey

LoadOrGenerateAnyway ==
    CASE ~keyPath -> signer' = boots' /\ keyFile' = keyFile
      [] keyPath /\ keyFile \notin {0, NoKey} -> signer' = keyFile /\ keyFile' = keyFile
      [] OTHER -> WriteKey

(* No path: a key for this process.  A file: its key, or no start.  No file:*)
(* a new key, written before it is used.                                    *)
LoadOrGenerate ==
    CASE ~keyPath -> signer' = boots' /\ keyFile' = keyFile
      [] keyPath /\ keyFile = 0 -> signer' = NoKey /\ keyFile' = keyFile
      [] keyPath /\ keyFile \notin {0, NoKey} -> signer' = keyFile /\ keyFile' = keyFile
      [] OTHER -> WriteKey

Boot ==
    /\ signer = NoKey /\ boots < MaxBoots
    /\ boots' = boots + 1
    /\ LoadOrGenerate
    /\ UNCHANGED <<keyPath, tick, issued, lastCheck>>

Exit ==
    /\ signer # NoKey /\ signer' = NoKey
    /\ UNCHANGED <<keyPath, keyFile, boots, tick, issued, lastCheck>>

(* The file is damaged on disk. *)
DamageKey ==
    /\ keyFile \notin {0, NoKey} /\ keyFile' = 0
    /\ UNCHANGED <<keyPath, signer, boots, tick, issued, lastCheck>>

Pass ==
    /\ tick < LastTick /\ tick' = tick + 1
    /\ UNCHANGED <<keyPath, keyFile, signer, boots, issued, lastCheck>>

-----------------------------------------------------------------------------
(* Statements.  The claims carry whole seconds: `exp` is the second in      *)
(* which the lifetime ends.  `until` is that end to the tick, which Issue   *)
(* reports as ExpiresAt, and `never` says that there is none.               *)

PerSecond == 2    \* ticks of a second

Unix(t) == t \div PerSecond

Sign(type, until, never) ==
    [key |-> signer, type |-> type, iat |-> tick, exp |-> Unix(until), until |-> until, never |-> never]

Adds(statements) ==
    /\ signer # NoKey /\ Cardinality(issued \cup statements) <= MaxStatements
    /\ issued' = issued \cup statements
    /\ UNCHANGED <<keyPath, keyFile, signer, boots, tick, lastCheck>>

TokenTTL == PerSecond

(* The pair of a login. *)
IssueTokens == Adds({Sign("id", tick + TokenTTL, FALSE), Sign("access", tick + TokenTTL, FALSE)})

(* A receipt attests to a moment and does not expire. *)
issueReceipt == Adds({Sign("receipt", 0, TRUE)})

DefaultTTL == 2 * PerSecond

(* A lifetime in a duration of so many bits wraps around.                   *)
Wrapped(d) == ((d + 2^(DurationBits - 1)) % 2^DurationBits) - 2^(DurationBits - 1)

(* A document: a year unless a lifetime is asked for, and nothing that is   *)
(* too large to scan.                                                       *)
IssueDocument(ttlSeconds, fits) ==
    /\ fits
    /\ LET ttl == IF ttlSeconds > 0 THEN Wrapped(ttlSeconds * PerSecond) ELSE DefaultTTL
       IN Adds({Sign("document", tick + ttl, FALSE)})

-----------------------------------------------------------------------------
(* Checks. *)

(* The signature, then the expiry: good up to the beginning of the second   *)
(* exp, that instant included.                                              *)
Verify(s) == s.key = signer /\ (s.never \/ tick <= s.exp * PerSecond)

Answer(by, s, ok) ==
    /\ signer # NoKey
    /\ lastCheck' = [by |-> by, what |-> {s}, ok |-> ok, at |-> tick, key |-> signer]
    /\ UNCHANGED <<keyPath, keyFile, signer, boots, tick, issued>>

(* A scanned payload is a document only if it says so.                      *)
VerifyDocument(s) == Answer("document", s, Verify(s) /\ s.type = "document")

(* The bearer's claims: signature and expiry, whatever the statement is.    *)
UserInfo(s) == Answer("userinfo", s, Verify(s))

Ask(s) == VerifyDocument(s) \/ UserInfo(s)

KeyNext ==
    \/ Boot \/ Exit \/ DamageKey \/ Pass
    \/ IssueTokens \/ issueReceipt
    \/ \E ttl \in {0, 1, 2^(DurationBits - 1) \div PerSecond}, fits \in BOOLEAN : IssueDocument(ttl, fits)
    \/ \E s \in issued : Ask(s)

-----------------------------------------------------------------------------
(* Properties. *)

(* With a key path set, the key outlives the process: whatever was ever    *)
(* signed can be checked by every later process that starts, and a key     *)
(* file that was damaged stops the start rather than being replaced        *)
(* (LoadOrGenerate).                                                       *)
KeyOutlivesTheProcess ==
    keyPath /\ signer # NoKey => \A s \in issued : s.key = signer

(* A yes is about a statement of this very key whose lifetime is not over, *)
(* and a scanned document is a document: a receipt or a token, though      *)
(* signed by the same key, does not pass as one.  UserInfo tells no kinds  *)
(* apart, so there a yes says only the first (Signer.Verify,               *)
(* signedqr.Verify, Provider.UserInfo).                                    *)
YesIsEarned ==
    lastCheck.ok => \A s \in lastCheck.what :
        /\ s \in issued /\ s.key = lastCheck.key
        /\ s.never \/ lastCheck.at <= s.until
        /\ lastCheck.by = "document" => s.type = "document"

(* A no is deserved, to the second: a document is refused only by a        *)
(* process with another key, or less than a second before the end of the   *)
(* lifetime it was issued for, or later.  The second is lost where exp     *)
(* takes the whole seconds of an end that Issue reports exactly.  It is    *)
(* stated for lifetimes a duration can hold (signedqr.Issue,               *)
(* Signer.Verify).                                                         *)
NoIsDeserved ==
    lastCheck.by = "document" /\ ~lastCheck.ok => \A s \in lastCheck.what :
        \/ s.type # "document" \/ s.until < s.iat
        \/ s.key # lastCheck.key \/ lastCheck.at > s.until - PerSecond

(* What the service signed with its key is accepted over restarts and      *)
(* damaged key files, never past its lifetime and up to the last second of *)
(* it, and only documents pass as documents (oidc/signer.go, signedqr).    *)
StatementsHold ==
    /\ KeyOutlivesTheProcess
    /\ YesIsEarned
    /\ NoIsDeserved
=============================================================================
