------------------------------ MODULE Delivery ------------------------------
(***************************************************************************)
(* The delivery worker: send_notification_task of notifications/tasks.py,  *)
(* executed by Celery workers.                                             *)
(*                                                                         *)
(* A step is one database statement (Django runs the task in autocommit),  *)
(* one call of a provider, or one message handed to or taken from the      *)
(* broker; between two steps of an execution any other execution may run.  *)
(* Celery acknowledges a message before it runs the task (acks_late is not *)
(* set), so an execution that dies leaves no message behind.               *)
(***************************************************************************)
EXTENDS Integers, Sequences, FiniteSets

CONSTANTS
  Notifications,            \* rows of the Notification table
  Workers,                  \* slots of the Celery workers
  Channels,                 \* names a channel_priority may hold
  Priorities,               \* [Notifications -> SUBSET Seq(Channels)], see Load
  Outcomes,                 \* [Channels -> SUBSET Outcome], see CallProvider
  MAX_RETRIES_PER_CHANNEL,
  MaxCopies,                \* bound: delivery messages injected per notification
  MaxFaults,                \* bound: executions lost
  NoNotification

Status   == {"queued", "processing", "sent", "failed"}
Terminal == {"sent", "failed"}

(* What a provider call can come to. "late": the provider took the message *)
(* and the call still raised, a response that timed out or a failed SMTP   *)
(* QUIT; the caller cannot tell it from "transient". "permanent" is a      *)
(* ProviderError with retryable=False. A success that is booked for an     *)
(* answer that is none (see Providers) is "accepted" too: the bounds on    *)
(* accepted then count a message more than the user received.              *)
Outcome   == {"accepted", "late", "transient", "permanent"}
Retryable == {"late", "transient"}
Reaching  == {"accepted", "late"}

ASSUME DeliveryAssumption ==
  /\ IsFiniteSet(Workers)
  /\ Priorities \in [Notifications -> SUBSET Seq(Channels)]
  /\ Outcomes \in [Channels -> SUBSET Outcome]
  /\ MAX_RETRIES_PER_CHANNEL \in Nat \ {0}
  /\ MaxCopies \in Nat
  /\ MaxFaults \in Nat
  /\ NoNotification \notin Notifications

VARIABLES
  status,     \* Notification.status
  failed,     \* number of DeliveryAttempt rows with success=False, per channel
  succeeded,  \* number of DeliveryAttempt rows with success=True, per channel
  refused,    \* those of failed whose error was not retryable
  accepted,   \* messages the provider really took (not known to the code)
  queue,      \* delivery messages in the broker, those waiting for their ETA too
  copies,     \* delivery messages ever injected from outside the task
  task,       \* what each worker slot executes
  faults      \* executions lost so far

rows == <<status, failed, succeeded, refused>>
vars == <<rows, accepted, queue, copies, task, faults>>

Step == {"idle", "mark", "scan", "count", "send", "record", "retry"}
Begin(n, chs, s) == [step |-> s, notif |-> n, channels |-> chs,
                     pos |-> 1, tried |-> 0, outcome |-> "none"]
Idle == Begin(NoNotification, <<>>, "idle")

Execution == [step: Step, notif: Notifications \cup {NoNotification},
              channels: Seq(Channels), pos: Nat \ {0}, tried: Nat,
              outcome: Outcome \cup {"none"}]

Counter == [Notifications -> [Channels -> Nat]]

TypeOK ==
  /\ status \in [Notifications -> Status]
  /\ failed \in Counter /\ succeeded \in Counter
  /\ refused \in Counter /\ accepted \in Counter
  /\ queue \in [Notifications -> Nat]
  /\ copies \in [Notifications -> Nat]
  /\ faults \in Nat
  /\ task \in [Workers -> Execution]

Init ==
  /\ status = [n \in Notifications |-> "queued"]
  /\ failed = [n \in Notifications |-> [c \in Channels |-> 0]]
  /\ succeeded = failed /\ refused = failed /\ accepted = failed
  /\ queue = [n \in Notifications |-> 0]
  /\ copies = queue
  /\ task = [w \in Workers |-> Idle]
  /\ faults = 0

-----------------------------------------------------------------------------
(* Operators whose name ends in a slip (OffByOne, Early, ...) are wrong     *)
(* variants of the one that follows them and no part of Spec: each is a     *)
(* mistake that one of the properties below is there to catch.              *)

Channel(w)    == task[w].channels[task[w].pos]
AtEndEarly(w) == task[w].pos >= Len(task[w].channels)
AtEnd(w)      == task[w].pos > Len(task[w].channels)
Goto(t, s)     == [t EXCEPT !.step = s]
NextChannel(t) == [Begin(t.notif, t.channels, "scan") EXCEPT !.pos = t.pos + 1]
Tally(counter, n, c) == [counter EXCEPT ![n][c] = @ + 1]

LimitReachedOffByOne(n, c) == failed[n][c] > MAX_RETRIES_PER_CHANNEL
LimitReached(n, c) == failed[n][c] >= MAX_RETRIES_PER_CHANNEL
WillRetryOffByOne(tried, outcome) ==
  outcome \in Retryable /\ tried + 2 < MAX_RETRIES_PER_CHANNEL
WillRetry(tried, outcome) ==
  outcome \in Retryable /\ tried + 1 < MAX_RETRIES_PER_CHANNEL

(* The outbox dispatcher publishes a delivery message, or the broker hands *)
(* out a second time one whose visibility timeout ran out.                 *)
Publish(n) ==
  /\ copies[n] < MaxCopies
  /\ queue' = [queue EXCEPT ![n] = @ + 1]
  /\ copies' = [copies EXCEPT ![n] = @ + 1]
  /\ UNCHANGED <<rows, accepted, task, faults>>

(* The first query of the task and the two early returns. The channels are *)
(* those of the user at this moment: an operator may have edited           *)
(* channel_priority since the last execution.                              *)
Load(w, n) ==
  /\ task[w] = Idle
  /\ queue[n] > 0
  /\ queue' = [queue EXCEPT ![n] = @ - 1]
  /\ \/ status[n] \in Terminal /\ UNCHANGED task
     \/ /\ status[n] \notin Terminal
        /\ \E chs \in Priorities[n] :
             task' = [task EXCEPT ![w] =
               Begin(n, chs, IF status[n] = "queued" THEN "mark" ELSE "scan")]
  /\ UNCHANGED <<rows, accepted, copies, faults>>

(* notif.save(update_fields=["status"]): an unconditional UPDATE.          *)
MarkProcessing(w) ==
  /\ task[w].step = "mark"
  /\ status' = [status EXCEPT ![task[w].notif] = "processing"]
  /\ task' = [task EXCEPT ![w] = Goto(@, "scan")]
  /\ UNCHANGED <<failed, succeeded, refused, accepted, queue, copies, faults>>

(* The head of the loop: skip a channel with a successful attempt.         *)
ScanChannel(w) ==
  /\ task[w].step = "scan" /\ ~AtEnd(w)
  /\ task' = [task EXCEPT ![w] =
       IF succeeded[task[w].notif][Channel(w)] > 0 THEN NextChannel(@)
                                                   ELSE Goto(@, "count")]
  /\ UNCHANGED <<rows, accepted, queue, copies, faults>>

(* failed_attempts is read once and used after the provider call.          *)
CountAttempts(w) ==
  /\ task[w].step = "count"
  /\ task' = [task EXCEPT ![w] =
       IF LimitReached(task[w].notif, Channel(w))
       THEN NextChannel(@)
       ELSE Goto([@ EXCEPT !.tried = failed[task[w].notif][Channel(w)]], "send")]
  /\ UNCHANGED <<rows, accepted, queue, copies, faults>>

CallProvider(w) ==
  /\ task[w].step = "send"
  /\ \E o \in Outcomes[Channel(w)] :
       /\ task' = [task EXCEPT ![w] = Goto([@ EXCEPT !.outcome = o], "record")]
       /\ accepted' = IF o \in Reaching THEN Tally(accepted, task[w].notif, Channel(w))
                                        ELSE accepted
  /\ UNCHANGED <<rows, queue, copies, faults>>

RecordSuccessGoesOn(w) == \* the loop is not left after a success
  /\ task[w].step = "record" /\ task[w].outcome = "accepted"
  /\ succeeded' = Tally(succeeded, task[w].notif, Channel(w))
  /\ status' = [status EXCEPT ![task[w].notif] = "sent"]
  /\ task' = [task EXCEPT ![w] = NextChannel(@)]
  /\ UNCHANGED <<failed, refused, accepted, queue, copies, faults>>

(* One transaction: the attempt row and the status.                        *)
RecordSuccess(w) ==
  /\ task[w].step = "record" /\ task[w].outcome = "accepted"
  /\ succeeded' = Tally(succeeded, task[w].notif, Channel(w))
  /\ status' = [status EXCEPT ![task[w].notif] = "sent"]
  /\ task' = [task EXCEPT ![w] = Idle]
  /\ UNCHANGED <<failed, refused, accepted, queue, copies, faults>>

RecordFailureLast(w) ==   \* audited only when no retry follows
  /\ task[w].step = "record" /\ task[w].outcome # "accepted"
  /\ LET retry == WillRetry(task[w].tried, task[w].outcome) IN
     /\ failed' = IF retry THEN failed ELSE Tally(failed, task[w].notif, Channel(w))
     /\ task' = [task EXCEPT ![w] =
          IF retry THEN Goto(@, "retry") ELSE NextChannel(@)]
  /\ UNCHANGED <<status, succeeded, refused, accepted, queue, copies, faults>>

RecordFailure(w) ==
  /\ task[w].step = "record" /\ task[w].outcome # "accepted"
  /\ failed' = Tally(failed, task[w].notif, Channel(w))
  /\ refused' = IF task[w].outcome = "permanent"
                THEN Tally(refused, task[w].notif, Channel(w)) ELSE refused
  /\ task' = [task EXCEPT ![w] =
       IF WillRetry(task[w].tried, task[w].outcome)
       THEN Goto(@, "retry") ELSE NextChannel(@)]
  /\ UNCHANGED <<status, succeeded, accepted, queue, copies, faults>>

ScheduleRetryUnsent(w) == \* the task is left without a message for the retry
  /\ task[w].step = "retry"
  /\ task' = [task EXCEPT ![w] = Idle]
  /\ UNCHANGED <<rows, accepted, queue, copies, faults>>

ScheduleRetryQueued(w) == \* the notification waits for its retry as QUEUED
  /\ task[w].step = "retry"
  /\ queue' = [queue EXCEPT ![task[w].notif] = @ + 1]
  /\ status' = [status EXCEPT ![task[w].notif] = "queued"]
  /\ task' = [task EXCEPT ![w] = Idle]
  /\ UNCHANGED <<failed, succeeded, refused, accepted, copies, faults>>

(* self.retry: a new message with a countdown ends this execution.         *)
ScheduleRetry(w) ==
  /\ task[w].step = "retry"
  /\ queue' = [queue EXCEPT ![task[w].notif] = @ + 1]
  /\ task' = [task EXCEPT ![w] = Idle]
  /\ UNCHANGED <<rows, accepted, copies, faults>>

(* The loop ran out of channels.                                           *)
MarkFailed(w) ==
  /\ task[w].step = "scan" /\ AtEnd(w)
  /\ status' = [status EXCEPT ![task[w].notif] = "failed"]
  /\ task' = [task EXCEPT ![w] = Idle]
  /\ UNCHANGED <<failed, succeeded, refused, accepted, queue, copies, faults>>

(* The worker is killed, a database error leaves the task body, or the     *)
(* broker refuses the retry message (Celery then rejects the task without  *)
(* requeueing it): the execution ends where it stands, and its message was *)
(* acknowledged when it started.                                           *)
LoseTask(w) ==
  /\ task[w] # Idle
  /\ faults < MaxFaults
  /\ faults' = faults + 1
  /\ task' = [task EXCEPT ![w] = Idle]
  /\ UNCHANGED <<rows, accepted, queue, copies>>

Execute(w) ==
  \/ MarkProcessing(w) \/ ScanChannel(w) \/ CountAttempts(w) \/ CallProvider(w)
  \/ RecordSuccess(w) \/ RecordFailure(w) \/ ScheduleRetry(w) \/ MarkFailed(w)

Next ==
  \/ \E n \in Notifications : Publish(n)
  \/ \E w \in Workers, n \in Notifications : Load(w, n)
  \/ \E w \in Workers : Execute(w) \/ LoseTask(w)

(* A live worker runs its task to the end, and the workers drain the queue *)
(* (retry messages: once their countdown is over).                         *)
Fairness ==
  /\ \A w \in Workers : WF_vars(Execute(w))
  /\ \A n \in Notifications : WF_vars(\E w \in Workers : Load(w, n))

Spec == Init /\ [][Next]_vars /\ Fairness

-----------------------------------------------------------------------------
Running(n)      == {w \in Workers : task[w].notif = n}
PastGate(n, c)  == {w \in Running(n) : task[w].step \in {"send", "record"}
                                         /\ Channel(w) = c}
Recording(n, c) == {w \in PastGate(n, c) : task[w].step = "record"}

Delivered(n)    == \E c \in Channels : succeeded[n][c] > 0
Exhausted(n, c) == \/ succeeded[n][c] > 0
                   \/ failed[n][c] >= MAX_RETRIES_PER_CHANNEL
                   \/ refused[n][c] > 0
HasCause(n) ==
  /\ status[n] = "sent" => Delivered(n)
  /\ status[n] = "failed" =>
       \E chs \in Priorities[n] : \A i \in 1 .. Len(chs) : Exhausted(n, chs[i])
Quiet(n)        == queue[n] = 0 /\ Running(n) = {}

(* The retry limit of a channel, although the count it is compared with is *)
(* read before the provider call and used after it: only a further copy of *)
(* the delivery message can push the failed attempts past the limit, and   *)
(* each copy by one at most.                                               *)
AttemptBound ==
  \A n \in Notifications, c \in Channels :
    failed[n][c] <= MAX_RETRIES_PER_CHANNEL - 1 + copies[n]

(* Fallback: when a provider is called, every channel the user ranks above *)
(* it has delivered, was refused, or has used up its attempts, in this     *)
(* execution or in any other, however the executions interleave.           *)
FallbackOrder ==
  \A w \in Workers : task[w].step \in {"send", "record", "retry"} =>
    \A i \in 1 .. task[w].pos - 1 : Exhausted(task[w].notif, task[w].channels[i])

(* A terminal status has its cause in the audit trail: SENT a successful   *)
(* attempt, FAILED a priority list with nothing left to try.               *)
StatusHasCause == \A n \in Notifications : HasCause(n)

(* With a single delivery message (the outbox row published once, nothing  *)
(* redelivered) the retries, the fallbacks and the loss of executions      *)
(* leave at most one successful attempt, and its SENT is never overwritten.*)
SingleCopyIsExact ==
  \A n \in Notifications : copies[n] <= 1 =>
    /\ Delivered(n) => status[n] = "sent"
    /\ \A c, d \in Channels :
         succeeded[n][c] > 0 /\ succeeded[n][d] > 0 => c = d /\ succeeded[n][c] = 1

(* What reached a provider is in the audit trail, as a success or as a     *)
(* failure: at any time at most one message per execution that is about to *)
(* write its row, or that was lost, is missing.                            *)
AcceptedIsAudited ==
  \A n \in Notifications, c \in Channels :
    accepted[n][c] <= succeeded[n][c] + failed[n][c]
                      + Cardinality(Recording(n, c)) + faults

(* What a user can receive: a channel carries a notification at most       *)
(* MAX_RETRIES_PER_CHANNEL times, and once more for each further copy of   *)
(* the delivery message. Successes the audit trail never heard of count,   *)
(* those that looked like a timeout and those of an execution that was     *)
(* lost before it wrote its row.                                           *)
AcceptedBound ==
  \A n \in Notifications, c \in Channels :
    accepted[n][c] <= MAX_RETRIES_PER_CHANNEL - 1 + copies[n]

(* No published notification is dropped: while no execution was lost, one  *)
(* that has no outcome yet waits in the broker or is being executed, also  *)
(* between a failed attempt and its retry, and when a second execution     *)
(* takes back a status the first one had settled.                          *)
NothingForgotten ==
  faults = 0 => \A n \in Notifications : copies[n] > 0 =>
    status[n] \in Terminal \/ queue[n] > 0 \/ Running(n) # {}

(* A published notification reaches SENT or FAILED and stays there, unless *)
(* an execution is lost: the retries and the fallbacks come to an end.     *)
Settles ==
  \A n \in Notifications :
    copies[n] > 0 ~> (faults > 0 \/ [](status[n] \in Terminal))

(* What a client that polls the status sees is the life cycle of an         *)
(* abstract notification: retries, fallbacks, skipped channels and lost     *)
(* executions never show as a step back, as long as the dispatcher sends    *)
(* one message.                                                             *)
Lifecycle == INSTANCE NotificationLifecycle WITH
  unique <- {n \in Notifications : copies[n] <= 1}

FollowsLifecycle == Lifecycle!Spec

-----------------------------------------------------------------------------
(* What the README promises and the code does not always keep.             *)

(* README.md:657: "The notification status reflects the final delivery     *)
(* outcome." Two executions of one notification can break it: the second   *)
(* skips the channel the first delivered on and goes on with the others.   *)
StatusReflectsOutcome ==
  \A n \in Notifications : Quiet(n) /\ Delivered(n) => status[n] = "sent"

(* README.md:585: "non-retryable failures are audited once and the worker  *)
(* moves to the next fallback channel". A retry of the fallback channel    *)
(* starts again from the first one, whose refusal nothing remembers.       *)
RefusedOnce ==
  \A n \in Notifications, c \in Channels : refused[n][c] <= 1

(* README.md:655: "Every provider attempt is stored in DeliveryAttempt."   *)
(* The row is written after the call, by an execution that may be lost.    *)
EveryAttemptStored ==
  \A n \in Notifications, c \in Channels :
    Quiet(n) => accepted[n][c] <= succeeded[n][c] + failed[n][c]
=============================================================================
