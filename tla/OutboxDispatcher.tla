-------------------------- MODULE OutboxDispatcher --------------------------
(***************************************************************************)
(* dispatch_notification_outbox_task of notifications/tasks.py, run by     *)
(* Celery workers for the message an enqueue schedules and for the         *)
(* periodic recovery of Celery beat, and called in line by the admin       *)
(* action dispatch_selected and by manage.py dispatch_outbox.              *)
(*                                                                         *)
(* Outbox rows are numbered in the order of their created_at, which is not *)
(* the order in which their transactions commit.                           *)
(***************************************************************************)
EXTENDS Integers, FiniteSets

CONSTANTS
  NumRows,                  \* outbox rows are 1 .. NumRows
  Dispatchers,              \* executions of the task that can overlap
  Limit,                    \* CELERY_OUTBOX_DISPATCH_BATCH_SIZE
  MaxScheduled,             \* bound: dispatch messages for each row
  MaxFaults                 \* bound: publish errors and dispatchers lost

ASSUME DispatcherAssumption ==
  /\ IsFiniteSet(Dispatchers)
  /\ NumRows \in Nat /\ Limit \in Nat \ {0}
  /\ MaxScheduled \in [1 .. NumRows -> Nat] /\ MaxFaults \in Nat

Rows   == 1 .. NumRows
Status == {"none", "pending", "published", "failed"}
Step   == {"idle", "select", "publish", "published", "failed"}

VARIABLES
  outbox,     \* NotificationOutbox.status; "none": not committed yet
  attempts,   \* NotificationOutbox.attempts
  scheduled,  \* dispatch messages in the broker for a row
  injected,   \* dispatch messages ever sent for a row
  messages,   \* delivery messages the broker took for a row
  step,       \* where each dispatcher stands
  batch,      \* outbox_ids it still has to handle, in the order of created_at
  ambiguous,  \* publish calls for a row that raised though the message went
  unrecorded, \* publish calls for a row whose dispatcher died before its commit
  faults

row  == <<outbox, attempts>>
past == <<ambiguous, unrecorded, faults>>
vars == <<row, scheduled, injected, messages, step, batch, past>>

Counter == [Rows -> Nat]
None    == [r \in Rows |-> 0]
Inc(counter, r) == [counter EXCEPT ![r] = @ + 1]

TypeOK ==
  /\ outbox \in [Rows -> Status] /\ attempts \in Counter
  /\ scheduled \in Counter /\ injected \in Counter /\ messages \in Counter
  /\ step \in [Dispatchers -> Step]
  /\ batch \in [Dispatchers -> SUBSET Rows]
  /\ \A d \in Dispatchers : step[d] # "idle" => batch[d] # {}
  /\ ambiguous \in Counter /\ unrecorded \in Counter /\ faults \in Nat

Init ==
  /\ outbox = [r \in Rows |-> "none"]
  /\ attempts = None /\ scheduled = None /\ injected = None /\ messages = None
  /\ step = [d \in Dispatchers |-> "idle"]
  /\ batch = [d \in Dispatchers |-> {}]
  /\ ambiguous = None /\ unrecorded = None /\ faults = 0

-----------------------------------------------------------------------------
(* Operators whose name ends in a slip are wrong variants of the one that  *)
(* follows them and no part of Spec: mistakes the properties would catch.  *)

Unpublished == {r \in Rows : outbox[r] \in {"pending", "failed"}}

(* SELECT ... ORDER BY created_at LIMIT: the oldest rows first.            *)
FirstOf(n, ids) == {r \in ids : Cardinality({q \in ids : q < r}) < n}
OldestEver(n) == FirstOf(n, {r \in Rows : outbox[r] # "none"})
Oldest(n)     == FirstOf(n, Unpublished)

(* candidate_id of the loop.                                               *)
Current(d)  == CHOOSE r \in batch[d] : \A q \in batch[d] : r <= q
Holds(d, r) == step[d] \in {"publish", "published", "failed"} /\ Current(d) = r
Locked(r)   == \E d \in Dispatchers : Holds(d, r)

NextIdForever(d) ==         \* the task does not return after the last id
  /\ batch' = [batch EXCEPT ![d] = @ \ {Current(d)}]
  /\ step' = [step EXCEPT ![d] = "select"]

(* The end of one turn of the loop: the row lock is released with the      *)
(* transaction, and the task returns after the last id.                    *)
NextId(d) ==
  /\ batch' = [batch EXCEPT ![d] = @ \ {Current(d)}]
  /\ step' = [step EXCEPT ![d] = IF batch[d] = {Current(d)} THEN "idle" ELSE "select"]

(* The transaction that creates the notification and the row commits.      *)
Commit(r) ==
  /\ outbox[r] = "none"
  /\ outbox' = [outbox EXCEPT ![r] = "pending"]
  /\ UNCHANGED <<attempts, scheduled, injected, messages, step, batch, past>>

(* schedule_outbox_dispatch, or a dispatch_selected of the admin. It need  *)
(* never happen: the process may die after the commit, and the error of an *)
(* unreachable broker is swallowed.                                        *)
Schedule(r) ==
  /\ outbox[r] # "none" /\ injected[r] < MaxScheduled[r]
  /\ scheduled' = Inc(scheduled, r)
  /\ injected' = Inc(injected, r)
  /\ UNCHANGED <<row, messages, step, batch, past>>

(* The task starts with an outbox_id ...                                   *)
StartOne(d, r) ==
  /\ step[d] = "idle" /\ scheduled[r] > 0
  /\ scheduled' = [scheduled EXCEPT ![r] = @ - 1]
  /\ step' = [step EXCEPT ![d] = "select"]
  /\ batch' = [batch EXCEPT ![d] = {r}]
  /\ UNCHANGED <<row, injected, messages, past>>

(* ... or without one: its message comes from beat, whatever was published *)
(* before. With nothing to publish the task returns at once.               *)
StartRecovery(d) ==
  /\ step[d] = "idle" /\ Oldest(Limit) # {}
  /\ step' = [step EXCEPT ![d] = "select"]
  /\ batch' = [batch EXCEPT ![d] = Oldest(Limit)]
  /\ UNCHANGED <<row, scheduled, injected, messages, past>>

(* SELECT ... FOR UPDATE SKIP LOCKED: the row as it is now, not as it was  *)
(* when the ids were listed.                                               *)
LockRowAnyway(d) ==         \* without skip_locked, and no lock taken
  /\ step[d] = "select"
  /\ outbox[Current(d)] # "published"
  /\ step' = [step EXCEPT ![d] = "publish"]
  /\ UNCHANGED <<row, scheduled, injected, messages, batch, past>>
LockRowListed(d) ==         \* the status is not read again under the lock
  /\ step[d] = "select" /\ ~Locked(Current(d))
  /\ step' = [step EXCEPT ![d] = "publish"]
  /\ UNCHANGED <<row, scheduled, injected, messages, batch, past>>
LockRow(d) ==
  /\ step[d] = "select"
  /\ ~Locked(Current(d)) /\ outbox[Current(d)] # "published"
  /\ step' = [step EXCEPT ![d] = "publish"]
  /\ UNCHANGED <<row, scheduled, injected, messages, batch, past>>

(* No row comes back: it is published, another dispatcher holds it, or its *)
(* notification, which select_related locks too, is being updated.         *)
SkipRow(d) ==
  /\ step[d] = "select"
  /\ NextId(d)
  /\ UNCHANGED <<row, scheduled, injected, messages, past>>

(* send_notification_task.delay: the broker takes the message; it does     *)
(* not; or it does and the call still raises.                              *)
Publish(d) ==
  /\ step[d] = "publish"
  /\ messages' = Inc(messages, Current(d))
  /\ step' = [step EXCEPT ![d] = "published"]
  /\ UNCHANGED <<row, scheduled, injected, batch, past>>

PublishRaises(d) ==
  /\ step[d] = "publish"
  /\ faults < MaxFaults
  /\ faults' = faults + 1
  /\ \/ UNCHANGED <<messages, ambiguous>>
     \/ /\ messages' = Inc(messages, Current(d))
        /\ ambiguous' = Inc(ambiguous, Current(d))
  /\ step' = [step EXCEPT ![d] = "failed"]
  /\ UNCHANGED <<row, scheduled, injected, batch, unrecorded>>

(* The update and the commit that makes it visible.                        *)
RecordPublished(d) ==
  /\ step[d] = "published"
  /\ outbox' = [outbox EXCEPT ![Current(d)] = "published"]
  /\ attempts' = Inc(attempts, Current(d))
  /\ NextId(d)
  /\ UNCHANGED <<scheduled, injected, messages, past>>

RecordFailedUncounted(d) == \* attempts is left as it is
  /\ step[d] = "failed"
  /\ outbox' = [outbox EXCEPT ![Current(d)] = "failed"]
  /\ NextId(d)
  /\ UNCHANGED <<attempts, scheduled, injected, messages, past>>
RecordFailedAsDone(d) ==    \* the except branch falls through to the update
  /\ step[d] = "failed"
  /\ outbox' = [outbox EXCEPT ![Current(d)] = "published"]
  /\ attempts' = Inc(attempts, Current(d))
  /\ NextId(d)
  /\ UNCHANGED <<scheduled, injected, messages, past>>
RecordFailed(d) ==
  /\ step[d] = "failed"
  /\ outbox' = [outbox EXCEPT ![Current(d)] = "failed"]
  /\ attempts' = Inc(attempts, Current(d))
  /\ NextId(d)
  /\ UNCHANGED <<scheduled, injected, messages, past>>

(* The process dies or a statement fails: the transaction is rolled back,  *)
(* the lock is gone, and so are the ids that were still to be handled.     *)
Crash(d) ==
  /\ step[d] # "idle"
  /\ faults < MaxFaults
  /\ faults' = faults + 1
  /\ step' = [step EXCEPT ![d] = "idle"]
  /\ batch' = [batch EXCEPT ![d] = {}]
  /\ unrecorded' = IF step[d] \in {"published", "failed"}
                   THEN Inc(unrecorded, Current(d)) ELSE unrecorded
  /\ UNCHANGED <<row, scheduled, injected, messages, ambiguous>>

Proceed(d) == LockRow(d) \/ SkipRow(d) \/ Publish(d) \/ RecordPublished(d)
              \/ RecordFailed(d)

Next ==
  \/ \E r \in Rows : Commit(r) \/ Schedule(r)
  \/ \E d \in Dispatchers, r \in Rows : StartOne(d, r)
  \/ \E d \in Dispatchers :
       StartRecovery(d) \/ Proceed(d) \/ PublishRaises(d) \/ Crash(d)

(* A live dispatcher goes on; beat fires again and again; and the locks    *)
(* others hold on a row or its notification are short, so that a row that  *)
(* is asked for again and again is got in the end.                         *)
Fairness ==
  /\ \A d \in Dispatchers : WF_vars(Proceed(d)) /\ WF_vars(StartRecovery(d))
  /\ \A r \in Rows : SF_vars(\E d \in Dispatchers : LockRow(d) /\ Current(d) = r)

Spec == Init /\ [][Next]_vars /\ Fairness

-----------------------------------------------------------------------------
(* README.md:649, "The dispatcher locks each outbox row before publishing, *)
(* so overlapping immediate and periodic dispatchers do not publish the    *)
(* same row concurrently": at most one of them is inside a row.            *)
OneHolder ==
  \A r \in Rows, d, e \in Dispatchers : Holds(d, r) /\ Holds(e, r) => d = e

(* A row gets a second delivery message only for a publish call that       *)
(* raised although the broker had the message, or a dispatcher that died   *)
(* between publishing and committing; a stale list of ids, a recovery pass *)
(* that overlaps the immediate one or a repeated dispatch message never    *)
(* make one.                                                               *)
DuplicatesAreFaults ==
  \A r \in Rows : messages[r] <= 1 + ambiguous[r] + unrecorded[r]

Recording(r) == {d \in Dispatchers : /\ Holds(d, r)
                                     /\ step[d] \in {"published", "failed"}}

(* attempts, which operators read, misses no message but those of a        *)
(* dispatcher that died, or one it is about to record.                     *)
AttemptsCounted ==
  \A r \in Rows :
    messages[r] <= attempts[r] + unrecorded[r]
                   + Cardinality(Recording(r))

LeavesPublished ==
  \A r \in Rows : outbox[r] = "published" => /\ outbox'[r] = "published"
                                             /\ attempts'[r] = attempts[r]
                                             /\ messages'[r] = messages[r]

(* A row that says published is out of every dispatcher's reach: nobody    *)
(* holds it, and nobody changes it any more.                               *)
PublishedIsFinal ==
  [][LeavesPublished]_vars

(* README.md:572, "the outbox row remains recoverable via the periodic     *)
(* Celery beat dispatcher": every committed row is published in the end,   *)
(* also when nobody schedules it and when the batch is smaller than the    *)
(* backlog.                                                                *)
EventuallyPublished ==
  \A r \in Rows : outbox[r] # "none" ~> outbox[r] = "published"

(* The dispatchers keep the promise of the outbox.                         *)
Promise == INSTANCE OutboxPromise WITH
  due     <- Unpublished,
  settled <- {r \in Rows : outbox[r] = "published"}

KeepsPromise == Promise!Spec
=============================================================================
