# Verification of the notification service

TLA+ models, TLC runs and TLAPS proofs for the notification service of this
repository: a Django application that accepts notifications over REST and
GraphQL, writes them together with an outbox row, publishes them to Celery, and
delivers each over the first of the user's channels (email, SMS, Telegram) that
works.

## The system

| Part | Code | State it keeps | Operations |
| --- | --- | --- | --- |
| Producer | `notifications/services/producer.py` (called by `serializers.py`, `schema.py`, `seed_demo`) | `Notification` and `NotificationOutbox` rows, unique `idempotency_key` | `enqueue_notification`: get or create, outbox row, commit, `on_commit` schedule |
| Outbox dispatcher | `dispatch_notification_outbox_task` in `notifications/tasks.py` | outbox `status`, `attempts`; row locks | list or take ids, lock, publish, record |
| Delivery worker | `send_notification_task` in `notifications/tasks.py` | `Notification.status`, `DeliveryAttempt` rows, Celery messages | load, mark, scan channels, count, call, record, retry, fail |
| Providers | `notifications/services/providers/`, `factory.py` | the SMTP or HTTP exchange of a call | `send`: success, retryable or final error |
| Admin | `notifications/admin.py` | open change forms | clone failed notifications, dispatch rows, edit forms |
| Telegram webhook | `notifications/telegram.py` | `User` rows | refuse or ignore an update; `/start` creates a user and replies |
| Metrics | `notifications/metrics.py` | counters per process, gauges | count rows, age of the oldest |
| API access | `authentication.py`, `views.py`, `serializers.py`, `schema.py` | throttle history and cached users in the cache | API key, rate limit, validate, enqueue, answer |

How they interact: the producer, the dispatcher and the workers share the
database; the producer schedules the dispatcher through the broker after its
commit; Celery beat starts it again every minute; the dispatcher sends one
delivery message per row; a worker that must retry sends itself another one.
The admin saves whole rows over what workers write; `/metrics` counts the outbox
rows in several queries; the API reads users through cacheops.
Nothing else synchronises them: the delivery task holds no lock and runs in
autocommit, so any two executions interleave between two statements. One lock
reaches further than it looks: `select_for_update` with `select_related` locks the
notification together with its outbox row, so a worker's write waits for the commit
of the dispatcher that sent it.

What is hard:

* **Overlap.** Two executions of one notification read the attempt rows and the
  status at different times. Two dispatchers list the same ids. Two requests
  with one key are between their first query and their insert.
* **Failure between two systems.** Publishing and committing, calling a provider
  and writing the attempt row, writing that row and sending the retry message
  are pairs of steps no transaction covers.
* **Unknown outcomes.** A provider call that timed out, a `delay()` that raised:
  the other side may have done the work.
* **Lost executions.** `acks_late` is not set, so a message is acknowledged when
  its task starts; a worker that dies takes the task with it.
* **Redelivery.** The Redis broker hands a message out again once its visibility
  timeout is over, and a dispatcher that dies before its commit sends it again.

## Modules

| Module | Models | Main state |
| --- | --- | --- |
| `Delivery` | the delivery worker | `status`, `failed`, `succeeded`, `refused` (the rows, counted by channel), `queue` (messages), `task` (what each worker executes) |
| `OutboxPromise` | what the outbox promises, abstractly | `due`, `settled`, `messages` |
| `OutboxDispatcher` | the dispatcher, refining `OutboxPromise` | `outbox`, `attempts`, `step`, `batch`, `scheduled`, `messages` |
| `IdempotentCreate` | what `enqueue_notification` promises its callers, abstractly | `created`, `jobs`, `given`, `sent` |
| `Producer` | `enqueue_notification`, refining `IdempotentCreate`, and the clone action | `notification`, `outbox`, `step`, `answer`, `scheduled` |
| `NotificationLifecycle` | what a client may see of a status, abstractly; refined by `Delivery` | `status`, `unique` |
| `Providers` | all calls of a channel for one notification: SMTP dialogue, HTTP answers, retries | `step`, `verdict`, `onWire`, `took`, `calls` |
| `ApiAccess` | a request from its API key to `enqueue_notification` | `step`, `answer`, `history`, `user`, `owner`, `entry` |
| `Metrics` | a scrape of the outbox gauges, query by query | `outbox`, `asked`, `counted`, `oldest` |
| `NotificationService` | dispatchers, workers, change forms and the scrape together | the variables of `OutboxDispatcher`, `Delivery` and `Metrics`, with `form`, `saves` and `edited` |
| `TelegramWebhook` | the webhook, above all its `/start` command | `users` (rows by chat), `pending` (updates), `step`, `update` |
| `..._proofs` | theorems about the module they are named after | |
| `MC...` | instances for TLC | |

Operators named after the one that follows them plus a slip (`LimitReachedOffByOne`,
`LockRowListed`, `RecordFailureLast`) are wrong variants of a step. They are part
of no specification; each is a mistake that one of the properties must catch, and
`PROJECT.json` says which under `mutants`.

### Delivery

One action per statement of `send_notification_task` that touches shared state.
`Load` is the first query with its two early returns, `MarkProcessing` the
unconditional status update, `ScanChannel` the query for a successful attempt,
`CountAttempts` the query for failed ones (its result, `tried`, is kept and used
after the provider call, as in the code), `CallProvider` the call,
`RecordSuccess` the transaction of row and status, `RecordFailure` the failed row
and the decision to retry or fall back, `ScheduleRetry` `self.retry`,
`MarkFailed` the end of the loop. `Publish` puts a delivery message in the queue;
it stands for the dispatcher and for the broker's redelivery. `LoseTask` ends an
execution anywhere.

A provider call has four outcomes: `accepted`; `late`, where the provider has the
message and the call raised all the same; `transient`; `permanent`. The code
cannot tell `late` from `transient`; `accepted` (the variable) records what really
reached a provider, so that the audit trail can be compared with it.

`Priorities[n]` is the set of lists `User.channels()` may return for the user of
`n`; each execution reads one, so an operator may edit it between two retries.
An unknown channel needs no case of its own: `get_provider` raises `ValueError`,
which the task treats as retryable, so it is a channel with only `transient`.

Properties:

* `AttemptBound`: a channel is tried at most `MAX_RETRIES_PER_CHANNEL` times, plus
  once for every delivery message beyond the first.
* `FallbackOrder`: a provider is called only when all channels ranked above it
  have delivered, were refused for good, or have used up their attempts.
* `StatusHasCause`: SENT has a successful row; FAILED has a list with nothing left.
* `SingleCopyIsExact`: with one delivery message there is at most one successful
  row, and SENT is final, whatever is retried or lost.
* `AcceptedIsAudited`: what reached a provider and has no row is bounded by the
  executions about to write it and those that were lost.
* `AcceptedBound`: what a user can receive. A channel carries a notification at most
  `MAX_RETRIES_PER_CHANNEL` times, plus once for every further delivery message, counted
  at the provider: successes that looked like a timeout, or whose execution was lost
  before it wrote its row, are in the bound.
* `NothingForgotten`: while no execution was lost, a published notification without an
  outcome has a message in the broker or an execution. It is the safety part of `Settles`.
* `Settles`: every published notification gets to SENT or FAILED and stays there,
  unless an execution is lost.
* `FollowsLifecycle`: `Delivery` implements `NotificationLifecycle`, where `unique` is
  the notifications with at most one message. A client that polls sees queued,
  processing and one outcome, never a step back; after a duplicate anything but
  queued.

### OutboxDispatcher

Rows are numbered by `created_at`, which is not the order in which their
transactions commit. `batch[d]`, the ids a dispatcher has still to handle, is a
set: its order is that of the numbers. `StartOne` and `StartRecovery` are the two ways the task gets
its ids; `LockRow` is `SELECT ... FOR UPDATE SKIP LOCKED` with the status condition
evaluated under the lock; `SkipRow` the `continue` when no row comes back, which
may always happen because `select_related` makes the query lock the notification
too; `Publish` and `PublishRaises` the call of `delay()`; `RecordPublished` and
`RecordFailed` the updates with their commit; `Crash` a process or session lost,
with its transaction rolled back.

Properties: `OneHolder`, `DuplicatesAreFaults` (a second delivery message needs an
ambiguous `delay()` or a dispatcher lost before its commit), `AttemptsCounted`,
`PublishedIsFinal` (an action property), `EventuallyPublished`, and `KeepsPromise`:
the dispatcher implements `OutboxPromise` with `due` the committed rows that are
not published and `settled` those that are.

### Producer

A request stands for the notification it would create. PostgreSQL is external: a
row is visible once its transaction commits, and an insert waits for an open
transaction that holds the same key. `Get`, `Insert` and `Reread` are the queries
of `get_or_create` and of the `except IntegrityError` branch; `RejectCommit` is a
commit that fails on the deferred foreign key to a deleted user; `Schedule` is
`on_commit`, whose errors are swallowed. `CloneNotification` and `CloneOutbox` are
the two autocommitted statements of the admin action.

Properties: `RetriesAgree`, `OnlyOwnErrors`, `EventuallyOver`, and `CreatesOnce`: the
producer implements `IdempotentCreate`, where a call is one step that creates a
notification with its job, or answers with the one of the same key. `created` and `jobs`
are the committed rows of requests, `given` the answers of calls that are over, `sent` the
dispatch messages. `NoOrphan` (both rows or none) and `ScheduledAfterCommit` follow from
it; they are stated and proved on their own, and no run checks them again. The clones
of the admin are not part of the promise.

### TelegramWebhook

A handler is a web worker that handles one update. `FirstStep` is what the checks of the
view make of it: an unfit update (wrong secret, content type, size or JSON) is refused,
one without a chat or with another command is answered at once (`Ignore`), a `/start`
goes to `_handle_start`. `Lookup` and `Insert` are the
query and the insert of `get_or_create`, autocommitted one after the other, with
nothing in the database that makes `telegram_chat_id` unique; `Reply` is `_reply`
with the 200 of the view; `Refuse` the 403, 415, 413 or 400 of an unfit update and the 500
after `MultipleObjectsReturned`; `Fail` a
reply that raises, a worker lost anywhere, or an answer that does not get back.
Telegram is external: an update stays `pending` until it is answered with 200, and
`Deliver` may hand it to another worker while one still handles it. cacheops caches
queries for users, but not those made in order to write, as in `get_or_create`. Users an
operator adds with the same chat, or deletes, are left out.

Properties: `DuplicatesNeedRace`, `DuplicatesBound` (never more users of a chat
than web workers), `AnsweredHasUser` (Telegram stops sending a `/start` only when its chat
has a user, whatever failed, was lost or was sent again before), `Answered` (every fit
update is).

### Providers

One channel, one recipient, the calls the task makes. For email the steps are those
of `smtplib` under `with smtplib.SMTP(...)`: connect, login, MAIL, RCPT, DATA, the
message, QUIT. `Agree` and `Disagree` are the server's answers, `Silence` a lost
connection or a timeout, `Quit` the end of the `with` block, which raises when the
server answers QUIT with an error, over whatever was raised or returned before. For
SMS and Telegram, which classify alike, `Post` sends, `Answer` is a status code,
`Redirect` a 3xx that `requests` follows with a GET, `Silence` a `RequestException`.
`response.ok` is true for every code outside 400..599, so a 304, a 3xx without a location
or a 600 is a success, and so is what the GET after a redirect is told; none of these says
that the message was taken, and `trouble` marks them as `astray`. The server is external: `Take` is the moment it takes
the message, before the answer or after the client has stopped waiting. `trouble`,
`delivered`, `adrift` and `doubts` are history for the properties.

Properties: `FallbackIsFirst` (a final failure has not delivered and never will, unless it
came from where a redirect led), `SentWasTaken` (a success without a message only for such
an answer, and never over SMTP), `DeliveriesBound` (a delivery more only for a call repeated in
doubt), `FinalIsEarned` (a channel is given up for an empty address or a refusal and
for nothing else), `CallsEnd`. In `Delivery` a call is its outcome: `sent` is
`accepted` there, `final` is `permanent`, and `retry` is `late` or `transient` as the
server took the message or not. A success that is `astray` counts as accepted there: the
bounds on what a user receives are upper bounds, and hold all the more. A refusal from
where a redirect led is `permanent` there though the message may have been taken; of a
provider that does both, the bounds of `Delivery` do not count that message.

Servers that send a byte now and then keep `requests` and `smtplib` waiting, whose
timeouts are per read; that is not modelled. A 4xx reply to RCPT (greylisting) is final,
because `SMTPRecipientsRefused` does not look at the code; the model says so in `OfReply`.

### ApiAccess

`Authenticate` is the API key, which REST asks for; `Mutate` begins a GraphQL mutation,
which is asked for none and gets the user without validating it. Django REST
framework's throttle is external: `ReadHistory` and `WriteHistory` are the read and the
write of the one history all clients share. `Hit`, `Miss` and `Store` are a query
through cacheops, whose fill is two steps; `Forget` the invalidation after a commit;
`Expire` the end of an entry. A create makes two queries, `exists` and `get`, each with
an entry of its own; a mutation makes the second only. `Enqueue` is `enqueue_notification`
as one step, which `Producer` shows it is to its callers: a key that is taken is answered
with its notification, whoever that is for and without a look at the user; otherwise a
field that is too long for its column (the serializer has no `max_length`) or a user that
is not there is an internal error. `owner` says whose notification has a key; those of the
user go when it is deleted, those of others stay.

Properties: `RateBound` (a lost history lets at most another rate pass),
`ThrottledForCause`, `AnswerIsDue` (a created notification, a reused one, 400 and 500 are
each due to what the client could meet; which of them a stale result in the cache can
falsify, and which it cannot, is in the property).

### NotificationService

`Disp`, `Work` and `Gauge` are instances of `OutboxDispatcher`, `Delivery` and
`Metrics` on the same rows: the messages a dispatcher publishes are those the workers
load (`Send` adds them to `queue`), and `Work!Publish` is not used, so that every message
has a dispatcher. Every write of a worker, `Writes`, waits while a dispatcher holds the
row. `OpenForm` reads a status, `SaveForm` writes it back with the rest of the row, or the
status the operator picked instead, since it is a field of the form (`admin.py:131`); then
`edited` is set. One form of a notification is open at a time.
The dispatcher is not held up by workers: its query skips locked rows, which
`Disp!SkipRow` allows at any time.

Properties:

* `OutboxFirst`: no status leaves QUEUED before the outbox row is published for good,
  unless by a fault of a dispatcher or because an operator picked another status. Without
  the lock on the notification it fails.
* `DeliveredOnce`: at most one successful attempt over all channels, without a fault
  of a dispatcher, also with stale forms, edited statuses and lost executions.
* `UndoneForCause`: a final status that no operator picked changes only by a form or after
  such a fault. One that was picked while a worker was busy is written over by it.
* `CauseSurvives`: a status no operator picked has its cause in the audit trail, although
  stale forms bring old ones back and workers go by them.
* `InboxBound`: a channel carries a notification at most `MAX_RETRIES_PER_CHANNEL` times,
  and once more for each fault of a dispatcher. The bounds of the two components, one in
  messages, the other on messages, come together.
* `NothingForgotten`: a committed notification is in the list of the recovery pass, or has
  an outcome, a message or an execution, unless an execution was lost or a form saved.
* `EndToEnd`: a committed notification gets to SENT or FAILED and stays there, unless
  an execution is lost or a form is saved.
* `BacklogIsSeen`: a row that waits during the whole scrape is counted, and the age
  gauge is about none younger. It rests on the order of the queries, pending before
  failed: a row moves that way only.

## Runs

| Run | Shows | Bounds |
| --- | --- | --- |
| `delivery` | the properties of `Delivery`, and that it refines `NotificationLifecycle` | 1 notification, 2 channels in either order, all outcomes, retry limit 2, 2 messages, 2 workers, 1 lost execution |
| `dispatcher` | all properties of `OutboxDispatcher` | 3 rows, 2 dispatchers, batch of 2, 1 dispatch message for one of the rows, 1 fault |
| `producer` | all properties of `Producer` | 3 requests with one key, 1 without, 1 clone, 1 rejected commit, 1 crash |
| `telegram` | all properties of `TelegramWebhook` | a `/start` of each of 2 chats, a message without a command, an unfit update, 3 web workers, 1 fault |
| `providers` | all properties of `Providers` | every channel and recipient, 3 calls, 15 status codes of every class with the edges of the comparisons, redirects |
| `api` | all properties of `ApiAccess` | 2 creates, 1 retrieve, 1 GraphQL mutation with a subject too long, 1 request without API key, 1 idempotency key, free or taken, 2 web workers, 1 request per 2 ticks, 3 points of time, 1 user created or deleted |
| `service` | the properties of `NotificationService` | 1 notification, 1 channel whose provider accepts or raises after it took the message, 1 dispatcher, 2 workers, retry limit 1, 1 dispatcher fault, 1 lost execution, 1 form saved with any status, any number of scrapes |
| `delivery_status`, `delivery_refused`, `delivery_stored`, `producer_clone`, `telegram_reuse` | a sentence of the documentation that the code does not keep | as small as the case allows, retry limit 3 |

Why the bounds are enough to be interesting: notifications share nothing in the
delivery task, so one is enough; two workers and two messages give every overlap
of a pair; a limit of two retries makes the gate, the retry and the fallback
happen on both channels. The backlog is longer than the batch, so starvation would
show, and the batch has two rows, so that one of them can fail, or the dispatcher die,
before the other. Two retries of a client that overlap a third see an open, a committed and a
rolled back competitor. Three web workers let an update race with two redeliveries of its own, which is what
another update of the chat would do, while others take workers from it. Two web workers are enough for a
history to be overwritten and a cache fill to be overtaken; the rate is the smallest one,
so that it is reached. `service` has the smallest parts that still meet: overlapping
dispatchers are in `dispatcher`, retries and fallbacks in `delivery`; here it is one
fault of a dispatcher that sends a second message to a second worker. To the code its
provider's `late` answer is one that could not be reached, so every call but a final
refusal is there, and the bound of `InboxBound` is attained. Scrapes go on for ever, each from the start.
The theorems below have no such bounds.

`TypeOK` is checked by the run `dispatcher`; in every module it is part of
the invariant the proofs rest on, and a theorem.

Deadlock is not checked by TLC: all models stop when the work is done. That
nothing is stuck before is what the liveness properties say, and for the waiting of
requests on the unique index the theorem `NobodyDeadlocked`.

### What the documentation says and the code does not do

* `delivery_status`: README.md:657, "The notification status reflects the final
  delivery outcome." With two delivery messages, one execution delivers by email;
  the other finds that success, skips the channel, fails on SMS and writes FAILED
  over SENT (`tasks.py:136`, `tasks.py:214`).
* `delivery_refused`: README.md:585, "non-retryable failures are audited once". A
  user without an email address and an SMS gateway that is down once: the retry of
  SMS starts at email again (`tasks.py:139`). No overlap and no fault is needed.
* `delivery_stored`: README.md:655, "Every provider attempt is stored in
  `DeliveryAttempt`." A worker lost between the call and the row.
* `producer_clone`: docs/TECHNICAL_DOCUMENTATION.md:761, "New notifications must
  create `NotificationOutbox` rows in the same DB transaction." The clone action
  commits them one after the other (`admin.py:177`).
* `telegram_reuse`: README.md:626, "The webhook creates or reuses a `User` with
  `telegram_chat_id`." Two overlapping messages create two, and every later one
  raises (`telegram.py:37`).

## Fairness

* `Delivery`: `WF(Execute(w))`, a live worker finishes what it runs (losing it is
  `LoseTask`, which is bounded, and `Settles` says so); `WF` of loading each
  notification, because workers drain the queue and a countdown ends.
* `OutboxDispatcher`: `WF(Proceed(d))` as above; `WF(StartRecovery(d))`, because beat
  sends the task every `CELERY_OUTBOX_DISPATCH_INTERVAL_SECONDS`; `SF` of locking
  each row, because other holders of the row or of its notification (another
  dispatcher, a status update) keep it for one short transaction, so a row that is
  asked for every minute is got in the end. Nothing is assumed of the immediate
  dispatch: `Schedule` and `StartOne` have no fairness.
* `Producer`: `WF(Proceed(p))`, a process that is not killed goes on. No fairness of
  commits being accepted or of processes starting.

* `TelegramWebhook`: `WF(Handle(h))` as above; `SF` of delivering each update,
  because Telegram sends it until it is answered and so meets a free worker in the
  end, however often all of them are busy.

* `Providers`: `WF` of what the client does by itself, its timeouts among it. No
  server is fair: none need ever answer.
* `ApiAccess`: none; its properties are safety.
* `NotificationService`: that of the dispatcher; `WF` of loading a message; and `SF` of
  each execution, because the lock that holds up its writes is a dispatcher's, which
  waits for nobody and ends its transaction after one publish. Beat's messages expire
  after one interval (`settings/base.py:154`), so the fairness of recovery also says that
  a worker is free now and then.

Faults are bounded by `MaxFaults`, `MaxCrashes`, `MaxRejected`, because under
endless faults nothing can be promised; `MaxCopies` and `MaxScheduled` bound
messages (`MaxScheduled` by row), `MaxSaves` forms and `MaxTime` the clock, to keep the state space finite.

## Proofs

Every safety property of the passing runs is a theorem, the three refinements among them
(of `OutboxPromise` the safety part), for every value of the
constants. The assumptions are the `ASSUME`s of the component modules:
`DeliveryAssumption`, `DispatcherAssumption`, `ProducerAssumption`,
`WebhookAssumption`, `ProvidersAssumption`, `ApiAssumption` and `ServiceAssumption` (types, nonempty limits, finitely many workers, dispatchers,
requests or web workers, which the counting arguments need). Fairness is used by
none.

`Delivery_proofs`

| Theorem | Property | Argument |
| --- | --- | --- |
| `TypeCorrect` | `TypeOK` | with `TaskOK`, what the program counter says of an execution: a step past the scan is never at the end of its list |
| `FallbackCorrect` | `FallbackOrder` | `LeftBehind`: every channel an execution has passed is exhausted, and stays so because rows are only added; the count it took, `tried`, may be old but never too high |
| `CauseCorrect` | `StatusHasCause` | the same invariant, at the end of the list |
| `AttemptBoundCorrect` | `AttemptBound` | counting: `MessageBound`, messages waiting and executed are at most those published; `GateBound`, an execution past the gate of a channel holds one of the attempts still allowed |
| `SingleCopyCorrect` | `SingleCopyIsExact` | `UsedUp`: a delivery consumes its message, so with one message nothing is left to run afterwards |
| `AuditCorrect` | `AcceptedIsAudited` | inductive with the type |
| `AcceptedBoundCorrect` | `AcceptedBound` | `FreeBound`: a message the provider took has cost a failed row or an execution that is no longer `Free` to send, so with the messages waiting and the free executions there are no more of them than messages and failed rows together; `SendBound`: with those that passed the gate of a channel, no more than the limit and the further messages allow. `AttemptBound` does not give it: an execution that was lost after its call leaves no failed row |
| `ForgottenCorrect` | `NothingForgotten` | inductive; `KeptStep` states it for one notification, so that the composition can use it |
| `LifecycleFollowed` | `FollowsLifecycle` | `InStage`: what the status of a notification can be, by the step of an execution; `Alone`: with one message there is only one; then every step is one of `NotificationLifecycle` or none |

`OutboxDispatcher_proofs`

| Theorem | Property | Argument |
| --- | --- | --- |
| `TypeCorrect` | `TypeOK` | with `Known`: ids in a batch or a dispatch message name committed rows |
| `OneHolderCorrect` | `OneHolder` | `Locking`, with `HeldIsDue`: a held row is unpublished, so what was read under the lock still holds when it is written |
| `FinalCorrect` | `PublishedIsFinal` | `OnlyHolderTouches`: a step changes a row only if it commits it or holds it |
| `DuplicatesCorrect` | `DuplicatesAreFaults` | `Excused`: every message has a fault of its own but one, that of the published row or of the dispatcher about to record it; the property alone is not inductive, since it would allow a due row a message too many |
| `AttemptsCorrect` | `AttemptsCounted` | inductive with the type: each message moves from the dispatchers recording it to `attempts` or to the lost ones |
| `PromiseKept` | | `Spec => Promise!Safety`, the refinement without its liveness: under the mapping of `KeepsPromise` every step is one of the promise or none |

`Producer_proofs`

| Theorem | Property | Argument |
| --- | --- | --- |
| `TypeCorrect` | `TypeOK` | with `RowsOf`: what the step of a process says of its two rows |
| `NoOrphanCorrect` | `NoOrphan` | from `RowsOf` |
| `RetriesCorrect` | `RetriesAgree` | `Unique`, at most one row that is open or committed with a key, and `Answers`, an answer names a committed row with the key |
| `ScheduledCorrect` | `ScheduledAfterCommit` | from `Answers` |
| `ErrorsCorrect` | `OnlyOwnErrors` | `RefusedBound`: who is refused, or about to find nothing, is counted by the commits that failed |
| `ContractKept` | `CreatesOnce` | under `RowsOf`, `Unique` and `Answers` every step is one of `IdempotentCreate` or none: the commit creates, the end of a call answers |
| `NobodyDeadlocked` | | a call waits only before it holds a key, so whoever is waited for does not wait; this is what can be said of deadlock without ENABLED |

`TelegramWebhook_proofs`

| Theorem | Property | Argument |
| --- | --- | --- |
| `TypeCorrect` | `TypeOK` | inductive |
| `RaceCorrect` | `DuplicatesNeedRace` | `LoneCreator`: without a race, who is about to create the user of a chat is alone and the chat has none |
| `BoundCorrect` | `DuplicatesBound` | `CreatorsBound`: users and handlers about to create one, together, are at most the web workers |
| `AnsweredCorrect` | `AnsweredHasUser` | `ReplyHasUser`: a handler about to reply has seen or made a user, and no user goes away; `IgnoresOthers`: what is answered without a look at the table is no `/start` |

`Providers_proofs`

| Theorem | Property | Argument |
| --- | --- | --- |
| `TypeCorrect` | `TypeOK` | inductive |
| `FallbackCorrect`, `SentCorrect`, `DeliveriesCorrect`, `EarnedCorrect` | `FallbackIsFirst`, `SentWasTaken`, `DeliveriesBound`, `FinalIsEarned` | one invariant of the call that is running: what each step says of the wire, the message and the verdict, and `trouble` of what is in doubt, redirects and codes that say nothing among it |

`ApiAccess_proofs`

| Theorem | Property | Argument |
| --- | --- | --- |
| `TypeCorrect` | `TypeOK` | inductive |
| `RateCorrect` | `RateBound` | the recent requests that were admitted and are missing from the history are at most a rate for each history that was overwritten |
| `ThrottleCorrect` | `ThrottledForCause` | a history, and what was read of it, hold only admitted authentic requests with earlier stamps |
| `AnswerCorrect` | `AnswerIsDue` | without a late fill, an entry and a result in hand are what the table holds, or a change has still to be forgotten; `Owners`: a key of the user's shows that the user is there, and somebody else's stays his |

`NotificationService_proofs` takes the invariants of the components from their proof
modules, instantiated: `DispatchStep` shows that a step of the service is one of the
dispatchers or leaves them alone, and a worker's step is one of its own. `WorkStep` is its
counterpart for the workers: any other step is `Aside`, which leaves the executions and the
audit trail alone, adds to the queue what it adds to the messages, and changes a status
only by a form.

| Theorem | Property | Argument |
| --- | --- | --- |
| `TypeCorrect` | | the type invariants of the components, kept by each other's steps |
| `DuplicatesCorrect` | | `Excused` of the dispatcher survives the composition |
| `OutboxFirstCorrect` | `OutboxFirst` | `Begun`: a message in the queue or in hand was sent by somebody, a free row with a message is published or paid for by a fault, and so is a status, or one an open form shows, that has left QUEUED and that no operator picked |
| `DeliveredOnceCorrect` | `DeliveredOnce` | `OverIsSpent`: a notification that is final, or in an open form as final, by no operator's choice, or delivered, and has had one message, has none left; with the dispatchers' bound on messages |
| `UndoneCorrect` | `UndoneForCause` | the same invariant |
| `InboxCorrect` | `InboxBound` | `FreeBound` and `SendBound` of the workers are kept by `Aside`, since messages and queue grow together; `Excused` of the dispatchers bounds the messages |
| `ForgottenCorrect` | `NothingForgotten` | `Handed`: a published row has its message; `Kept`: a message leaves an outcome, a message or an execution |
| `WorkersKeepTheirWord` | | `AttemptBound`, `FallbackOrder` and `AcceptedIsAudited` of `Delivery`, from the invariants they have there |
| `CauseSurvivesForms` | `CauseSurvives` | `HasCause` of `Delivery`, for the statuses that open forms remember as well (`Caused`): it stays true because attempts are never taken back |
| `DispatchersKeepTheirWord` | | `OneHolder`, `AttemptsCounted`, `PublishedIsFinal` and the safety of `OutboxPromise`, through `DispatchStep` |
| `BacklogCorrect` | `BacklogIsSeen` | `Gauged`: what a row not yet counted can be, by the number of queries made, and `RowsMove`, rows only move on |

Left to TLC: liveness and fairness (`Settles`, `EventuallyPublished`, `EventuallyOver`,
`Answered`, `CallsEnd`, `EndToEnd`, and the liveness of `OutboxPromise` in `KeepsPromise`), which are outside
what the provers can do. Two properties of `Delivery` do not carry over to the composition
and are not claimed there: `SingleCopyIsExact` and `FollowsLifecycle`, because a form saved
late writes an old status back, or one an operator picked; `UndoneForCause`, `CauseSurvives`
and `DeliveredOnce` say what is left of them.

## Not modelled

* Log records, the text of errors, the payload of the providers' answers.
* The counters of `metrics.py`. Each process increments its own, and the workers that
  deliver are not the web processes that are scraped; no step of the code brings the two
  together, so there is nothing to check but that.
* Health checks. `ensure_connection` does nothing on a connection that is open
  (`conn_max_age=60`), so `/health/ready` may answer 200 for a database that is gone
  (`health.py:75`); the state of the connection is Django's.
* Adding and deleting rows in the admin: a notification added there has no outbox row,
  as the one of an interrupted clone, which `producer_clone` shows; deletion cascades.
* In the composition: the producer's requests (a commit is one step there), the webhook,
  and the broker's redelivery, which `delivery` has.
* Body checks of the serializers (other than the user and the missing `max_length`), lists and badges of the admin, URL
  wiring, logging, middleware and settings other than those named above keep no state
  that another step depends on.
* In `_send_via_channel`, the `unknown_channel` error, which `get_provider` forestalls.

## How it was built

In the order of what matters most: the delivery worker and the dispatcher, the
producer and the webhook, each with its proofs; then the abstract lifecycle, the
providers behind the outcomes of a call, the API in front of the producer, the gauges,
and at last the composition, which takes its theorems from those of its parts.
