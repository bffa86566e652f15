------------------------ MODULE NotificationService ------------------------
(***************************************************************************)
(* The dispatchers and the delivery workers together, on the rows they     *)
(* share, with the two others that look at those rows: the change form of  *)
(* the admin, which saves a whole notification, and the scrape of the      *)
(* metrics. Every notification has one outbox row, of the same number.     *)
(*                                                                         *)
(* select_for_update with select_related("notification") locks the row of  *)
(* the notification as well, so every write to it, and every insert of an  *)
(* attempt that refers to it, waits for the end of the dispatcher's        *)
(* transaction; reads do not.                                              *)
(***************************************************************************)
EXTENDS Integers, Sequences, FiniteSets

CONSTANTS
  NumRows, Dispatchers, Limit, MaxScheduled, MaxDispatchFaults,
  Workers, Channels, Priorities, Outcomes, MAX_RETRIES_PER_CHANNEL, MaxTaskFaults,
  NoNotification,
  MaxSaves                  \* bound: forms saved per notification

ASSUME ServiceAssumption ==
  /\ IsFiniteSet(Dispatchers) /\ IsFiniteSet(Workers)
  /\ NumRows \in Nat /\ Limit \in Nat \ {0} /\ MAX_RETRIES_PER_CHANNEL \in Nat \ {0}
  /\ MaxScheduled \in [1 .. NumRows -> Nat]
  /\ MaxDispatchFaults \in Nat /\ MaxTaskFaults \in Nat
  /\ MaxSaves \in Nat /\ NoNotification \notin 1 .. NumRows
  /\ Priorities \in [1 .. NumRows -> SUBSET Seq(Channels)]
  /\ Outcomes \in [Channels -> SUBSET {"accepted", "late", "transient", "permanent"}]

VARIABLES
  outbox, attempts, scheduled, injected, messages, dispatch, batch,
  ambiguous, unrecorded, dispatchFaults,
  status, failed, succeeded, refused, accepted, queue, task, taskFaults,
  form,                     \* the status an open change form shows, or "closed"
  saves,                    \* forms saved, and
  edited,                   \* whether one had another status: for the properties
  asked, counted, oldest, backlog

Rows == 1 .. NumRows

Disp == INSTANCE OutboxDispatcher WITH
  step <- dispatch, faults <- dispatchFaults, MaxFaults <- MaxDispatchFaults

Work == INSTANCE Delivery WITH
  Notifications <- Rows, copies <- messages, faults <- taskFaults,
  MaxFaults <- MaxTaskFaults, MaxCopies <- 0

Gauge == INSTANCE Metrics

dispatching == <<attempts, scheduled, injected, dispatch, batch, ambiguous,
                 unrecorded, dispatchFaults>>
working     == <<status, failed, succeeded, refused, accepted, task, taskFaults>>
forms       == <<form, saves, edited>>
scraping    == <<asked, counted, oldest, backlog>>
vars        == <<dispatching, outbox, messages, working, queue, forms, scraping>>

TypeOK ==
  /\ Disp!TypeOK /\ Work!TypeOK /\ Gauge!TypeOK
  /\ form \in [Rows -> Work!Status \cup {"closed"}]
  /\ saves \in [Rows -> Nat] /\ edited \in [Rows -> BOOLEAN]

Init ==
  /\ Disp!Init /\ Work!Init /\ Gauge!Init
  /\ form = [n \in Rows |-> "closed"]
  /\ saves = [n \in Rows |-> 0] /\ edited = [n \in Rows |-> FALSE]

-----------------------------------------------------------------------------
(* Operators whose name ends in a slip are wrong variants of the one that  *)
(* follows them and no part of Spec: mistakes the properties would catch.  *)

(* A delivery message the dispatcher hands to the broker is in the queue   *)
(* the workers read.                                                       *)
SendElsewhere(d) ==         \* to a queue no worker reads
  /\ Disp!Publish(d) \/ Disp!PublishRaises(d)
  /\ UNCHANGED <<working, queue, forms, scraping>>
Send(d) ==
  /\ Disp!Publish(d) \/ Disp!PublishRaises(d)
  /\ queue' = [n \in Rows |-> queue[n] + messages'[n] - messages[n]]
  /\ UNCHANGED <<working, forms, scraping>>

Dispatch(d) ==
  /\ \/ Disp!LockRow(d) \/ Disp!SkipRow(d) \/ Disp!RecordPublished(d)
     \/ Disp!RecordFailed(d) \/ Disp!Crash(d) \/ Disp!StartRecovery(d)
     \/ \E r \in Rows : Disp!StartOne(d, r)
  /\ UNCHANGED <<working, queue, forms, scraping>>

Enqueue(r) ==
  /\ Disp!Commit(r) \/ Disp!Schedule(r)
  /\ UNCHANGED <<working, queue, forms, scraping>>

Blocked(n) == Disp!Locked(n)

(* A step of a worker that writes the row, or a row that refers to it,     *)
(* waits for the lock.                                                     *)
Writes(w) == \/ task[w].step \in {"mark", "record"}
             \/ task[w].step = "scan" /\ Work!AtEnd(w)

ExecuteUnblocked(w) ==      \* only the outbox row is locked
  /\ Work!Execute(w)
  /\ UNCHANGED <<dispatching, outbox, forms, scraping>>
Execute(w) ==
  /\ Writes(w) => ~Blocked(task[w].notif)
  /\ Work!Execute(w)
  /\ UNCHANGED <<dispatching, outbox, forms, scraping>>

Take(w, n) ==
  /\ Work!Load(w, n)
  /\ UNCHANGED <<dispatching, outbox, forms, scraping>>

LoseTask(w) ==
  /\ Work!LoseTask(w)
  /\ UNCHANGED <<dispatching, outbox, forms, scraping>>

(* An operator opens a notification in the admin ...                       *)
OpenForm(n) ==
  /\ outbox[n] # "none" /\ form[n] = "closed" /\ saves[n] < MaxSaves
  /\ form' = [form EXCEPT ![n] = status[n]]
  /\ UNCHANGED <<dispatching, outbox, messages, working, queue, saves, edited,
                 scraping>>

(* ... and saves it. The status is a field of the form: the operator picks *)
(* one, or it goes back as it came.                                        *)
SaveForm(n) ==
  /\ form[n] # "closed" /\ ~Blocked(n)
  /\ \E s \in Work!Status :
       /\ status' = [status EXCEPT ![n] = s]
       /\ edited' = [edited EXCEPT ![n] = @ \/ s # form[n]]
  /\ form' = [form EXCEPT ![n] = "closed"]
  /\ saves' = [saves EXCEPT ![n] = @ + 1]
  /\ UNCHANGED <<dispatching, outbox, messages, failed, succeeded, refused,
                 accepted, queue, task, taskFaults, scraping>>

Scrape ==
  /\ Gauge!Scrape
  /\ UNCHANGED <<dispatching, messages, working, queue, forms>>

Next ==
  \/ \E n \in Rows : Enqueue(n) \/ OpenForm(n) \/ SaveForm(n)
  \/ \E d \in Dispatchers : Send(d) \/ Dispatch(d)
  \/ \E w \in Workers : Execute(w) \/ LoseTask(w)
  \/ \E w \in Workers, n \in Rows : Take(w, n)
  \/ Scrape

(* The fairness of the two components. A dispatcher that holds a row never *)
(* waits for a worker, so no write of a worker is held up for ever.        *)
Fairness ==
  /\ \A d \in Dispatchers :
       /\ WF_vars((Send(d) \/ Dispatch(d)) /\ Disp!Proceed(d))
       /\ WF_vars(Dispatch(d) /\ Disp!StartRecovery(d))
  /\ \A r \in Rows :
       SF_vars(\E d \in Dispatchers : Dispatch(d) /\ Disp!LockRow(d) /\ Disp!Current(d) = r)
  /\ \A w \in Workers : SF_vars(Execute(w))
  /\ \A n \in Rows : WF_vars(\E w \in Workers : Take(w, n))

Spec == Init /\ [][Next]_vars /\ Fairness

-----------------------------------------------------------------------------
(* The worker is never ahead of the outbox: a notification leaves QUEUED   *)
(* only when its row is published for good, unless a publish raised though *)
(* the message went, or its dispatcher died, or an operator said it has.   *)
(* Without the lock on the notification a fast worker would mark it before *)
(* the commit.                                                             *)
OutboxFirst ==
  \A n \in Rows : status[n] # "queued" /\ ~edited[n] =>
    outbox[n] = "published" \/ ambiguous[n] + unrecorded[n] > 0

(* One successful attempt at most, over all channels, for a notification   *)
(* whose dispatchers neither died nor met an ambiguous error: overlapping  *)
(* and repeated dispatches, lost executions, stale forms and whatever      *)
(* status an operator picks make no more.                                  *)
DeliveredOnce ==
  \A n \in Rows : ambiguous[n] + unrecorded[n] = 0 =>
    \A c, e \in Channels : succeeded[n][c] > 0 /\ succeeded[n][e] > 0 =>
      c = e /\ succeeded[n][c] = 1

UndoneFor(n) ==
  status[n] \in Work!Terminal /\ ~edited[n] /\ status'[n] # status[n] =>
    saves'[n] > saves[n] \/ ambiguous[n] + unrecorded[n] > 0

(* A notification that is done is changed again only by a form, or by a    *)
(* second message, which takes a fault of a dispatcher; that it is done is *)
(* what the system found, not what an operator made of it.                 *)
UndoneForCause == [][\A n \in Rows : UndoneFor(n)]_vars

(* A form brings back the status it was opened with, over what a worker    *)
(* has written since, and the workers then go by it. Still a status no     *)
(* operator picked has its cause in the audit trail: SENT a successful     *)
(* attempt, FAILED nothing left to try.                                    *)
CauseSurvives == \A n \in Rows : ~edited[n] => Work!HasCause(n)

(* What a user can receive: a channel carries a notification at most       *)
(* MAX_RETRIES_PER_CHANNEL times, and once more for each publish that      *)
(* raised though the message went and for each dispatcher that died before *)
(* its commit. Timeouts of the provider, lost executions, repeated         *)
(* dispatches, stale forms and edited statuses add nothing.                *)
InboxBound ==
  \A n \in Rows, c \in Channels :
    accepted[n][c] <= MAX_RETRIES_PER_CHANNEL + ambiguous[n] + unrecorded[n]

(* No committed notification is lost between the parts: beat still lists   *)
(* its row, or it has an outcome, or a delivery message of it waits, or an *)
(* execution works on it, unless an execution was lost or a form was saved *)
(* over it.                                                                *)
NothingForgotten ==
  \A n \in Rows : outbox[n] # "none" =>
    \/ n \in Disp!Unpublished
    \/ status[n] \in Work!Terminal \/ queue[n] > 0 \/ Work!Running(n) # {}
    \/ taskFaults > 0 \/ saves[n] > 0

(* From the commit of the request to the end of the delivery: a committed  *)
(* notification becomes SENT or FAILED and stays it, unless an execution   *)
(* is lost or a form is saved over it.                                     *)
EndToEnd ==
  \A n \in Rows :
    outbox[n] # "none" ~> (taskFaults > 0 \/ saves[n] > 0 \/ [](status[n] \in Work!Terminal))

(* The scrape misses no row of the backlog, see Metrics.                   *)
BacklogIsSeen == Gauge!BacklogIsSeen
=============================================================================
