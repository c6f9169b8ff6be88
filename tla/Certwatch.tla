----------------------------- MODULE Certwatch -----------------------------
(***************************************************************************)
(* The certificate watcher: internal/certwatch/watch.go.  One goroutine    *)
(* sweeps the watched files, keeps the last state of each and posts an     *)
(* event to a webhook when the situation of a certificate changes.         *)
(*                                                                         *)
(* The world moves while a sweep is under way.  A certificate has a time   *)
(* left (0 expired, 1 inside the warning window, 2 fine) and an answer the *)
(* revocation check would get.                                             *)
(***************************************************************************)
EXTENDS Integers, Sequences, FiniteSets, SequencesExt

CONSTANTS Watched,     \* the files, as a set
          MaxMoves     \* bound on changes of the world

ASSUME CertwatchAssumption == MaxMoves \in Nat

(* unreadable: the file does not hold a certificate; error: the check failed; *)
(* soft: the library could not decide; undetermined: no responder was named   *)
(* or it did not know the certificate, and no error is reported.              *)
Answers == {"unreadable", "error", "soft", "undetermined", "revoked", "good"}

VARIABLES
  world,      \* per file: [left, answer]
  moves,
  todo,       \* the files the sweep has still to look at
  seen,       \* per file: the last State
  notified,   \* per file: the event kind last sent
  posting,    \* the webhook call in progress: [file, kind], or <<>>
  posted,     \* history: the last event the webhook took, per file, and
              \* whether its answer came back: [kind, sure]
  since       \* history: the kinds found since then

watchVars == <<world, moves, todo, seen, notified, posting, posted, since>>

WatchInit ==
  /\ world = [f \in Watched |-> [left |-> 2, answer |-> "good"]] /\ moves = 0
  /\ todo = <<>> /\ posting = <<>>
  /\ seen = [f \in Watched |-> [error |-> FALSE, revoked |-> FALSE, left |-> 2]]
  /\ notified = [f \in Watched |-> ""] /\ posted = [f \in Watched |-> [kind |-> "", sure |-> TRUE]]
  /\ since = [f \in Watched |-> {}]

Move(f) ==
  /\ moves < MaxMoves /\ moves' = moves + 1
  /\ \E a \in Answers, l \in 0 .. 2 :
       /\ l <= world[f].left
       /\ world' = [world EXCEPT ![f] = [left |-> l, answer |-> a]]
  /\ UNCHANGED <<todo, seen, notified, posting, posted, since>>

(* A tick of Start: Sweep lists the files, in the directory's order.         *)
Sweep ==
  /\ todo = <<>> /\ posting = <<>>
  /\ todo' = SetToSeq(Watched)
  /\ UNCHANGED <<world, moves, seen, notified, posting, posted, since>>

check(f) ==
  LET w == world[f]
  IN  [error |-> w.answer \in {"unreadable", "error", "soft"},
       revoked |-> w.answer = "revoked",
       left |-> IF w.answer = "unreadable" THEN 2 ELSE w.left]

eventKind(s) ==
  CASE s.error -> "check_failed"
    [] ~s.error /\ s.revoked -> "revoked"
    [] ~s.error /\ ~s.revoked /\ s.left = 0 -> "expired"
    [] ~s.error /\ ~s.revoked /\ s.left = 1 -> "expiring"
    [] OTHER -> ""

(* Up to the webhook call: the kind is noted before it is sent.              *)
notify(f, kind) ==
  IF kind = notified[f] THEN UNCHANGED <<notified, posting>>
  ELSE /\ notified' = [notified EXCEPT ![f] = kind]
       /\ posting' = IF kind = "" THEN <<>> ELSE <<f, kind>>

(* The loop body of Sweep.                                                   *)
SweepOne ==
  /\ todo # <<>> /\ posting = <<>>
  /\ LET f == Head(todo)
         s == check(f)
     IN  /\ seen' = [seen EXCEPT ![f] = s]
         /\ since' = [since EXCEPT ![f] = @ \cup {eventKind(s)}]
         /\ notify(f, eventKind(s))
  /\ todo' = Tail(todo)
  /\ UNCHANGED <<world, moves, posted>>

PostFailedKeeps ==
  /\ posting # <<>> /\ posting' = <<>>
  /\ UNCHANGED <<world, moves, todo, seen, notified, posted, since>>

Took(f, kind, sure) ==
  /\ posted' = [posted EXCEPT ![f] = [kind |-> kind, sure |-> sure]]
  /\ since' = [since EXCEPT ![f] = {kind}]

(* postEvent and the rest of notify: after a failure the kind is forgotten,  *)
(* so that the next sweep sends it again.  The webhook may have taken the    *)
(* event all the same: the reply was lost, late or not a success.            *)
PostFailed ==
  /\ posting # <<>> /\ posting' = <<>>
  /\ notified' = [notified EXCEPT ![posting[1]] = ""]
  /\ Took(posting[1], posting[2], FALSE) \/ UNCHANGED <<posted, since>>
  /\ UNCHANGED <<world, moves, todo, seen>>

PostTaken ==
  /\ posting # <<>> /\ posting' = <<>>
  /\ Took(posting[1], posting[2], TRUE)
  /\ UNCHANGED <<world, moves, todo, seen, notified>>

WatchNext ==
  \/ \E f \in Watched : Move(f)
  \/ Sweep \/ SweepOne \/ PostFailed \/ PostTaken

-----------------------------------------------------------------------------
(* Properties *)

(* "A failed webhook must not hide the finding": whatever was found last and *)
(* needs attention is what the webhook acknowledged last, or is on its way,  *)
(* or will be sent again by the next sweep.                                  *)
FindingIsRaised ==
  \A f \in Watched :
    LET kind == eventKind(seen[f])
    IN  kind # "" => \/ posted[f] = [kind |-> kind, sure |-> TRUE] /\ notified[f] = kind
                     \/ posting = <<f, kind>>
                     \/ notified[f] = ""

(* "A webhook fires on a change of situation rather than on every poll": the *)
(* event it acknowledged last is sent again only after a sweep found         *)
(* something else.  One it took without an answer is sent again.             *)
OncePerSituation ==
  \A f \in Watched :
    posting # <<>> /\ posting[1] = f /\ posting[2] = posted[f].kind /\ posted[f].sure =>
      since[f] # {posted[f].kind}

(* A finding is raised until the webhook acknowledges it, and then not     *)
(* again while nothing changes (watch.go notify): no failed post loses it  *)
(* and no sweep repeats what was acknowledged.                             *)
RaisedUntilTaken == FindingIsRaised /\ OncePerSituation
=============================================================================
