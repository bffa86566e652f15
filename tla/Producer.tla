------------------------------ MODULE Producer ------------------------------
(***************************************************************************)
(* enqueue_notification of notifications/services/producer.py, called by   *)
(* the REST serializer, the GraphQL mutation and the demo command, and the *)
(* admin action that clones failed notifications without going through it. *)
(*                                                                         *)
(* A request stands for the notification it would create; a client that    *)
(* retries sends another request with the same key. PostgreSQL, at READ    *)
(* COMMITTED, is external: a row is seen by others once its transaction    *)
(* commits, and an INSERT waits for an open transaction that holds the     *)
(* same value of a unique column.                                          *)
(***************************************************************************)
EXTENDS Naturals, FiniteSets

CONSTANTS
  Requests,                 \* calls of enqueue_notification
  Clones,                   \* clones made by the admin action
  Keys,                     \* idempotency keys
  Key,                      \* [Requests \cup Clones -> Keys \cup {NoKey}]
  NoKey, NoAnswer,
  MaxRejected,              \* bound: commits that fail
  MaxCrashes                \* bound: processes killed

All == Requests \cup Clones

ASSUME ProducerAssumption ==
  /\ IsFiniteSet(Requests) /\ IsFiniteSet(Clones) /\ Requests \cap Clones = {}
  /\ NoKey \notin Keys /\ NoAnswer \notin All
  /\ Key \in [All -> Keys \cup {NoKey}]
  /\ \A c \in Clones : Key[c] = NoKey
  /\ MaxRejected \in Nat /\ MaxCrashes \in Nat

Row  == {"none", "open", "committed"}
Step == {"start", "get", "insert", "outbox", "commit", "reread", "schedule",
         "done", "error", "dead"}
Over == {"done", "error", "dead"}

VARIABLES
  notification,  \* the Notification row a process inserts
  outbox,        \* its NotificationOutbox row
  step,
  answer,        \* the notification the caller is given
  scheduled,     \* dispatch messages sent for the outbox row
  rejected, crashes

vars == <<notification, outbox, step, answer, scheduled, rejected, crashes>>

TypeOK ==
  /\ notification \in [All -> Row] /\ outbox \in [All -> Row]
  /\ step \in [All -> Step]
  /\ answer \in [All -> All \cup {NoAnswer}]
  /\ scheduled \in [All -> Nat]
  /\ rejected \in Nat /\ crashes \in Nat

Init ==
  /\ notification = [p \in All |-> "none"]
  /\ outbox = notification
  /\ step = [p \in All |-> "start"]
  /\ answer = [p \in All |-> NoAnswer]
  /\ scheduled = [p \in All |-> 0]
  /\ rejected = 0 /\ crashes = 0

-----------------------------------------------------------------------------
(* Operators whose name ends in a slip are wrong variants of the one that  *)
(* follows them and no part of Spec: mistakes the properties would catch.  *)

Goto(p, s) == step' = [step EXCEPT ![p] = s]

SameKey(p, q)  == Key[p] # NoKey /\ Key[p] = Key[q]
Visible(p)     == {q \in All : SameKey(p, q) /\ notification[q] = "committed"}
OpenTwins(p)   == {q \in All \ {p} : SameKey(p, q) /\ notification[q] = "open"}

(* atomic() opens the transaction; without a key there is nothing to get.  *)
Start(p) ==
  /\ step[p] = "start" /\ p \in Requests
  /\ Goto(p, IF Key[p] = NoKey THEN "insert" ELSE "get")
  /\ UNCHANGED <<notification, outbox, answer, scheduled, rejected, crashes>>

(* The first query of get_or_create. A row that is found is the answer,    *)
(* and the transaction ends without a write.                               *)
Get(p) ==
  /\ step[p] = "get"
  /\ \/ \E q \in Visible(p) :
          Goto(p, "done") /\ answer' = [answer EXCEPT ![p] = q]
     \/ Visible(p) = {} /\ Goto(p, "insert") /\ UNCHANGED answer
  /\ UNCHANGED <<notification, outbox, scheduled, rejected, crashes>>

InsertUnkeyed(p) ==         \* no unique index on the key
  /\ step[p] = "insert"
  /\ Goto(p, "outbox")
  /\ notification' = [notification EXCEPT ![p] = "open"]
  /\ answer' = [answer EXCEPT ![p] = p]
  /\ UNCHANGED <<outbox, scheduled, rejected, crashes>>

InsertUncaught(p) ==        \* IntegrityError of the savepoint reaches the caller
  /\ step[p] = "insert" /\ OpenTwins(p) = {}
  /\ \/ /\ Visible(p) = {}
        /\ Goto(p, "outbox")
        /\ notification' = [notification EXCEPT ![p] = "open"]
        /\ answer' = [answer EXCEPT ![p] = p]
     \/ Visible(p) # {} /\ Goto(p, "error") /\ UNCHANGED <<notification, answer>>
  /\ UNCHANGED <<outbox, scheduled, rejected, crashes>>

(* The INSERT, in a savepoint: it waits until no open transaction holds    *)
(* the key. If one has committed it meanwhile, IntegrityError ends the     *)
(* savepoint and get_or_create looks again.                                *)
Insert(p) ==
  /\ step[p] = "insert" /\ OpenTwins(p) = {}
  /\ \/ /\ Visible(p) = {}
        /\ Goto(p, "outbox")
        /\ notification' = [notification EXCEPT ![p] = "open"]
        /\ answer' = [answer EXCEPT ![p] = p]
     \/ /\ Visible(p) # {}
        /\ Goto(p, "reread")
        /\ UNCHANGED <<notification, answer>>
  /\ UNCHANGED <<outbox, scheduled, rejected, crashes>>

RereadWaits(p) ==           \* looks again until there is something to find
  /\ step[p] = "reread"
  /\ \E q \in Visible(p) :
       Goto(p, "done") /\ answer' = [answer EXCEPT ![p] = q]
  /\ UNCHANGED <<notification, outbox, scheduled, rejected, crashes>>

(* The get after an IntegrityError: of get_or_create, or of the except     *)
(* branch. When nothing is found DoesNotExist reaches the caller.          *)
Reread(p) ==
  /\ step[p] = "reread"
  /\ \/ \E q \in Visible(p) :
          Goto(p, "done") /\ answer' = [answer EXCEPT ![p] = q]
     \/ /\ Visible(p) = {}
        /\ Goto(p, "error") /\ answer' = [answer EXCEPT ![p] = NoAnswer]
  /\ UNCHANGED <<notification, outbox, scheduled, rejected, crashes>>

CreateOutboxAfter(p) ==     \* the notification is not in the transaction
  /\ step[p] = "outbox" /\ p \in Requests
  /\ notification' = [notification EXCEPT ![p] = "committed"]
  /\ outbox' = [outbox EXCEPT ![p] = "open"]
  /\ Goto(p, "commit")
  /\ UNCHANGED <<answer, scheduled, rejected, crashes>>
CreateOutbox(p) ==
  /\ step[p] = "outbox" /\ p \in Requests
  /\ outbox' = [outbox EXCEPT ![p] = "open"]
  /\ Goto(p, "commit")
  /\ UNCHANGED <<notification, answer, scheduled, rejected, crashes>>

Commit(p) ==
  /\ step[p] = "commit"
  /\ notification' = [notification EXCEPT ![p] = "committed"]
  /\ outbox' = [outbox EXCEPT ![p] = "committed"]
  /\ Goto(p, "schedule")
  /\ UNCHANGED <<answer, scheduled, rejected, crashes>>

(* Foreign keys are checked at commit: if the user was deleted meanwhile   *)
(* nothing is written and IntegrityError reaches the except branch, which  *)
(* only with a key looks for a notification to return.                     *)
RejectCommit(p) ==
  /\ step[p] = "commit" /\ rejected < MaxRejected
  /\ rejected' = rejected + 1
  /\ notification' = [notification EXCEPT ![p] = "none"]
  /\ outbox' = [outbox EXCEPT ![p] = "none"]
  /\ answer' = [answer EXCEPT ![p] = NoAnswer]
  /\ Goto(p, IF Key[p] = NoKey THEN "error" ELSE "reread")
  /\ UNCHANGED <<scheduled, crashes>>

(* schedule_outbox_dispatch, by on_commit: an error is swallowed.          *)
Schedule(p) ==
  /\ step[p] = "schedule"
  /\ scheduled' \in {scheduled, [scheduled EXCEPT ![p] = @ + 1]}
  /\ Goto(p, "done")
  /\ UNCHANGED <<notification, outbox, answer, rejected, crashes>>

(* clone_failed_notifications: two statements, each its own transaction,   *)
(* and the dispatch is scheduled in line.                                  *)
CloneNotification(p) ==
  /\ step[p] = "start" /\ p \in Clones
  /\ notification' = [notification EXCEPT ![p] = "committed"]
  /\ answer' = [answer EXCEPT ![p] = p]
  /\ Goto(p, "outbox")
  /\ UNCHANGED <<outbox, scheduled, rejected, crashes>>

CloneOutbox(p) ==
  /\ step[p] = "outbox" /\ p \in Clones
  /\ outbox' = [outbox EXCEPT ![p] = "committed"]
  /\ Goto(p, "schedule")
  /\ UNCHANGED <<notification, answer, scheduled, rejected, crashes>>

(* The process is killed: what it had not committed is rolled back.        *)
RolledBack(rows, p) == [rows EXCEPT ![p] = IF @ = "open" THEN "none" ELSE @]
Crash(p) ==
  /\ step[p] \notin Over \cup {"start"}
  /\ crashes < MaxCrashes
  /\ crashes' = crashes + 1
  /\ notification' = RolledBack(notification, p)
  /\ outbox' = RolledBack(outbox, p)
  /\ Goto(p, "dead")
  /\ answer' = [answer EXCEPT ![p] = NoAnswer]
  /\ UNCHANGED <<scheduled, rejected>>

Proceed(p) ==
  \/ Get(p) \/ Insert(p) \/ Reread(p) \/ CreateOutbox(p)
  \/ Commit(p) \/ Schedule(p) \/ CloneOutbox(p)

Next ==
  \E p \in All : Start(p) \/ CloneNotification(p) \/ Proceed(p)
                 \/ RejectCommit(p) \/ Crash(p)

Fairness == \A p \in All : WF_vars(Proceed(p))

Spec == Init /\ [][Next]_vars /\ Fairness

-----------------------------------------------------------------------------
(* README.md:574, "clients can safely retry POST /api/notifications/       *)
(* without creating duplicate notifications or duplicate delivery jobs":   *)
(* however retries overlap, fail and die, those that are answered get the  *)
(* same notification, a committed one, and it is scheduled at most once.   *)
RetriesAgree ==
  \A p, q \in Requests : SameKey(p, q) =>
    /\ step[p] = "done" /\ step[q] = "done" =>
         answer[p] = answer[q] /\ notification[answer[p]] = "committed"
    /\ scheduled[p] > 0 /\ scheduled[q] > 0 => p = q /\ scheduled[p] = 1

(* What enqueue_notification commits has both rows or none, whichever      *)
(* commits fail and whichever processes die.                               *)
NoOrphan ==
  \A p \in Requests : notification[p] = "committed" <=> outbox[p] = "committed"

(* README.md:645, "Tasks are enqueued only after the database transaction  *)
(* commits": no dispatch message names a row that may still be rolled back.*)
ScheduledAfterCommit ==
  \A p \in All : scheduled[p] > 0 => outbox[p] = "committed"

(* A caller is refused only for its own failed commit: a competitor that   *)
(* holds the key, commits it, is rolled back or dies never makes one.      *)
OnlyOwnErrors ==
  Cardinality({p \in All : step[p] = "error"}) <= rejected

(* To its callers enqueue_notification is one step that creates a          *)
(* notification together with its outbox row, or answers with the one of   *)
(* the same key: whatever is rolled back, raced for or read again, no      *)
(* caller sees half of it, and no job runs ahead of it.                    *)
Contract == INSTANCE IdempotentCreate WITH
  created <- {p \in Requests : notification[p] = "committed"},
  jobs    <- {p \in Requests : outbox[p] = "committed"},
  given   <- [p \in Requests |-> IF step[p] = "done" THEN answer[p] ELSE NoAnswer],
  sent    <- [p \in Requests |-> scheduled[p]]

CreatesOnce == Contract!Spec

(* Waiting for the unique index is no deadlock: a request that has begun   *)
(* is answered, refused or dead in the end.                                *)
EventuallyOver ==
  \A p \in All : step[p] # "start" ~> step[p] \in Over

-----------------------------------------------------------------------------
(* docs/TECHNICAL_DOCUMENTATION.md:761: "New notifications must create     *)
(* NotificationOutbox rows in the same DB transaction." The clones of the  *)
(* admin action do not: a crash between its two commits leaves a queued    *)
(* notification that nothing will ever dispatch.                           *)
NoOrphanClone ==
  \A p \in All : step[p] \in Over /\ notification[p] = "committed"
                   => outbox[p] = "committed"
=============================================================================
