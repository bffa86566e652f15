--------------------- MODULE NotificationService_proofs ---------------------
(* Theorems about NotificationService, for any rows, dispatchers, workers  *)
(* and providers. What the components were proved to do on their own is    *)
(* taken from their proofs: a step of the service is a step of the         *)
(* dispatchers or leaves them alone, and a worker's step is one of its own.*)
EXTENDS NotificationService, FiniteSetTheorems, TLAPS

DP == INSTANCE OutboxDispatcher_proofs WITH
  step <- dispatch, faults <- dispatchFaults, MaxFaults <- MaxDispatchFaults

WP == INSTANCE Delivery_proofs WITH
  Notifications <- Rows, copies <- messages, faults <- taskFaults,
  MaxFaults <- MaxTaskFaults, MaxCopies <- 0

LEMMA DispAssumed == DP!DispatcherAssumption
BY ServiceAssumption DEF DP!DispatcherAssumption, DP!IsFiniteSet, IsFiniteSet

LEMMA WorkAssumed == WP!DeliveryAssumption
BY ServiceAssumption DEF WP!DeliveryAssumption, WP!IsFiniteSet, IsFiniteSet, WP!Outcome, Rows

-----------------------------------------------------------------------------
(* The steps of the service as steps of its parts.                         *)

LEMMA IsDispatch ==
  /\ \A r \in Rows : Disp!Commit(r) => DP!Commit(r)
  /\ \A r \in Rows : Disp!Schedule(r) => DP!Schedule(r)
  /\ \A d \in Dispatchers, r \in Rows : Disp!StartOne(d, r) => DP!StartOne(d, r)
  /\ \A d \in Dispatchers : Disp!StartRecovery(d) => DP!StartRecovery(d)
  /\ \A d \in Dispatchers : Disp!LockRow(d) => DP!LockRow(d)
  /\ \A d \in Dispatchers : Disp!SkipRow(d) => DP!SkipRow(d)
  /\ \A d \in Dispatchers : Disp!Publish(d) => DP!Publish(d)
  /\ \A d \in Dispatchers : Disp!PublishRaises(d) => DP!PublishRaises(d)
  /\ \A d \in Dispatchers : Disp!RecordPublished(d) => DP!RecordPublished(d)
  /\ \A d \in Dispatchers : Disp!RecordFailed(d) => DP!RecordFailed(d)
  /\ \A d \in Dispatchers : Disp!Crash(d) => DP!Crash(d)
<1> USE DEF Disp!row, DP!row, Disp!past, DP!past, Disp!Inc, DP!Inc, Disp!Current, DP!Current,
            Disp!NextId, DP!NextId, Disp!Locked, DP!Locked, Disp!Holds, DP!Holds,
            Disp!Oldest, DP!Oldest, Disp!FirstOf, DP!FirstOf, Disp!Rows, DP!Rows,
            Disp!Unpublished, DP!Unpublished
<1>1. \A r \in Rows : Disp!Commit(r) => DP!Commit(r)
  BY DEF Disp!Commit, DP!Commit
<1>2. \A r \in Rows : Disp!Schedule(r) => DP!Schedule(r)
  BY DEF Disp!Schedule, DP!Schedule
<1>3. \A d \in Dispatchers, r \in Rows : Disp!StartOne(d, r) => DP!StartOne(d, r)
  BY DEF Disp!StartOne, DP!StartOne
<1>4. \A d \in Dispatchers : Disp!StartRecovery(d) => DP!StartRecovery(d)
  BY DEF Disp!StartRecovery, DP!StartRecovery, Disp!Cardinality, DP!Cardinality
<1>5. \A d \in Dispatchers : Disp!LockRow(d) => DP!LockRow(d)
  BY DEF Disp!LockRow, DP!LockRow
<1>6. \A d \in Dispatchers : Disp!SkipRow(d) => DP!SkipRow(d)
  BY DEF Disp!SkipRow, DP!SkipRow
<1>7. \A d \in Dispatchers : Disp!Publish(d) => DP!Publish(d)
  BY DEF Disp!Publish, DP!Publish
<1>8. \A d \in Dispatchers : Disp!PublishRaises(d) => DP!PublishRaises(d)
  BY DEF Disp!PublishRaises, DP!PublishRaises
<1>9. \A d \in Dispatchers : Disp!RecordPublished(d) => DP!RecordPublished(d)
  BY DEF Disp!RecordPublished, DP!RecordPublished
<1>10. \A d \in Dispatchers : Disp!RecordFailed(d) => DP!RecordFailed(d)
  BY DEF Disp!RecordFailed, DP!RecordFailed
<1>11. \A d \in Dispatchers : Disp!Crash(d) => DP!Crash(d)
  BY DEF Disp!Crash, DP!Crash
<1> QED
  BY <1>1, <1>2, <1>3, <1>4, <1>5, <1>6, <1>7, <1>8, <1>9, <1>10, <1>11

LEMMA IsWork ==
  /\ \A w \in Workers : Work!Execute(w) => WP!Execute(w)
  /\ \A w \in Workers : Work!LoseTask(w) => WP!LoseTask(w)
  /\ \A w \in Workers, n \in Rows : Work!Load(w, n) => WP!Load(w, n)
<1> USE DEF Work!rows, WP!rows, Work!Goto, WP!Goto, Work!NextChannel, WP!NextChannel,
            Work!Begin, WP!Begin, Work!Idle, WP!Idle, Work!Channel, WP!Channel,
            Work!AtEnd, WP!AtEnd, Work!Tally, WP!Tally
<1>1. \A w \in Workers : Work!MarkProcessing(w) => WP!MarkProcessing(w)
  BY DEF Work!MarkProcessing, WP!MarkProcessing
<1>2. \A w \in Workers : Work!ScanChannel(w) => WP!ScanChannel(w)
  BY DEF Work!ScanChannel, WP!ScanChannel
<1>3. \A w \in Workers : Work!CountAttempts(w) => WP!CountAttempts(w)
  BY DEF Work!CountAttempts, WP!CountAttempts, Work!LimitReached, WP!LimitReached
<1>4. \A w \in Workers : Work!CallProvider(w) => WP!CallProvider(w)
  BY DEF Work!CallProvider, WP!CallProvider, Work!Reaching, WP!Reaching
<1>5. \A w \in Workers : Work!RecordSuccess(w) => WP!RecordSuccess(w)
  BY DEF Work!RecordSuccess, WP!RecordSuccess
<1>6. \A w \in Workers : Work!RecordFailure(w) => WP!RecordFailure(w)
  BY DEF Work!RecordFailure, WP!RecordFailure, Work!WillRetry, WP!WillRetry,
         Work!Retryable, WP!Retryable
<1>7. \A w \in Workers : Work!ScheduleRetry(w) => WP!ScheduleRetry(w)
  BY DEF Work!ScheduleRetry, WP!ScheduleRetry
<1>8. \A w \in Workers : Work!MarkFailed(w) => WP!MarkFailed(w)
  BY DEF Work!MarkFailed, WP!MarkFailed
<1>9. \A w \in Workers : Work!LoseTask(w) => WP!LoseTask(w)
  BY DEF Work!LoseTask, WP!LoseTask
<1>10. \A w \in Workers, n \in Rows : Work!Load(w, n) => WP!Load(w, n)
  BY DEF Work!Load, WP!Load, Work!Terminal, WP!Terminal
<1>11. \A w \in Workers : Work!Execute(w) => WP!Execute(w)
  BY <1>1, <1>2, <1>3, <1>4, <1>5, <1>6, <1>7, <1>8 DEF Work!Execute, WP!Execute
<1> QED
  BY <1>9, <1>10, <1>11

(* A step of the service is one of the dispatchers, or leaves their state  *)
(* and the rows alone.                                                     *)
LEMMA DispatchStep ==
  ASSUME [Next]_vars PROVE [DP!Next]_(DP!vars)
<1>1. Rows = DP!Rows
  BY DEF Rows, DP!Rows
<1>2. ASSUME UNCHANGED <<dispatching, outbox, messages>> PROVE UNCHANGED DP!vars
  BY <1>2 DEF dispatching, DP!vars, DP!row, DP!past
<1>3. ASSUME NEW r \in Rows, Enqueue(r) PROVE DP!Next
  BY <1>1, <1>3, IsDispatch DEF Enqueue, DP!Next
<1>4. ASSUME NEW d \in Dispatchers, Send(d) PROVE DP!Next
  BY <1>4, IsDispatch DEF Send, DP!Next, DP!Proceed
<1>5. ASSUME NEW d \in Dispatchers, Dispatch(d) PROVE DP!Next
  BY <1>1, <1>5, IsDispatch DEF Dispatch, DP!Next, DP!Proceed
<1>6. ASSUME NEW w \in Workers, Execute(w) \/ LoseTask(w) PROVE UNCHANGED DP!vars
  <2>1. UNCHANGED <<dispatching, outbox>>
    BY <1>6 DEF Execute, LoseTask
  <2>2. UNCHANGED messages
    BY <1>6 DEF Execute, LoseTask, Work!Execute, Work!LoseTask, Work!MarkProcessing,
       Work!ScanChannel, Work!CountAttempts, Work!CallProvider, Work!RecordSuccess,
       Work!RecordFailure, Work!ScheduleRetry, Work!MarkFailed
  <2> QED
    BY <1>2, <2>1, <2>2
<1>7. ASSUME NEW w \in Workers, NEW n \in Rows, Take(w, n) PROVE UNCHANGED DP!vars
  BY <1>2, <1>7 DEF Take, Work!Load
<1>8. ASSUME NEW n \in Rows, OpenForm(n) \/ SaveForm(n) PROVE UNCHANGED DP!vars
  BY <1>2, <1>8 DEF OpenForm, SaveForm
<1>9. CASE Scrape
  BY <1>2, <1>9 DEF Scrape, Gauge!Scrape, Gauge!CountRows, Gauge!FindOldest, Gauge!Render
<1>10. CASE UNCHANGED vars
  BY <1>2, <1>10 DEF vars
<1> QED
  BY <1>3, <1>4, <1>5, <1>6, <1>7, <1>8, <1>9, <1>10 DEF Next

(* What is known of the dispatchers.                                       *)
Dispatching == DP!Typed /\ DP!Locking /\ DP!Excused

LEMMA DispatchingInit == Init => Dispatching
<1>1. Init => DP!Init
  BY DEF Init, Disp!Init, DP!Init, Disp!None, DP!None, Disp!Rows, DP!Rows
<1> QED
  BY <1>1, DispAssumed, DP!TypedInit, DP!LockingInit, DP!ExcusedInit DEF Dispatching

LEMMA DispatchingStep == Dispatching /\ [Next]_vars => Dispatching'
BY DispatchStep, DispAssumed, DP!TypedStep, DP!LockingStep, DP!ExcusedStep DEF Dispatching

(* Every message of a row beyond the first is accounted for by a fault of a*)
(* dispatcher, also where workers and forms look at the same rows.         *)
THEOREM DuplicatesCorrect == Spec => []DP!DuplicatesAreFaults
<1>1. Dispatching => DP!DuplicatesAreFaults
  <2> SUFFICES ASSUME Dispatching, NEW r \in DP!Rows
               PROVE  messages[r] <= 1 + ambiguous[r] + unrecorded[r]
    BY DEF DP!DuplicatesAreFaults
  <2>1. messages[r] \in Nat /\ ambiguous[r] \in Nat /\ unrecorded[r] \in Nat
    BY DEF Dispatching, DP!Typed, DP!TypeOK, DP!Counter
  <2> QED
    BY <2>1 DEF Dispatching, DP!Excused
<1> QED
  BY <1>1, DispatchingInit, DispatchingStep, PTL DEF Spec

-----------------------------------------------------------------------------
(* The workers.                                                            *)

Forms ==
  /\ form \in [Rows -> WP!Status \cup {"closed"}]
  /\ saves \in [Rows -> Nat] /\ edited \in [Rows -> BOOLEAN]

LEMMA WorkingInit == Init => WP!Typed /\ Forms
<1>1. Init => WP!Init
  BY DEF Init, Work!Init, WP!Init, Work!Idle, WP!Idle, Work!Begin, WP!Begin
<1> QED
  BY <1>1, WorkAssumed, WP!TypedInit DEF Init, Forms

LEMMA WorkingStep == WP!Typed /\ Forms /\ Dispatching /\ [Next]_vars => WP!Typed' /\ Forms'
<1> SUFFICES ASSUME WP!Typed, Forms, Dispatching, [Next]_vars PROVE WP!Typed' /\ Forms'
  OBVIOUS
<1>t. messages' \in [Rows -> Nat]
  BY DispatchingStep DEF Dispatching, DP!Typed, DP!TypeOK, DP!Counter, Rows, DP!Rows
<1>0. ASSUME WP!Next, UNCHANGED forms PROVE WP!Typed' /\ Forms'
  BY <1>0, WorkAssumed, WP!TypedStep DEF forms, Forms
<1>1. ASSUME NEW n \in Rows, Enqueue(n) PROVE WP!Typed' /\ Forms'
  <2>1. UNCHANGED <<working, queue, forms>> /\ messages' = messages
    BY <1>1 DEF Enqueue, Disp!Commit, Disp!Schedule, forms
  <2> QED
    BY <2>1 DEF working, forms, Forms, WP!Typed, WP!TypeOK, WP!TaskOK, WP!AtEnd
<1>2. ASSUME NEW d \in Dispatchers, Send(d) PROVE WP!Typed' /\ Forms'
  <2>1. UNCHANGED <<working, forms>>
        /\ queue' = [n \in Rows |-> queue[n] + messages'[n] - messages[n]]
    BY <1>2 DEF Send, forms
  <2>2. ASSUME NEW n \in Rows PROVE queue'[n] \in Nat
    <3>1. messages'[n] \in Nat /\ messages[n] \in Nat /\ messages'[n] >= messages[n]
      BY DispatchStep, DispAssumed, DP!MessagesGrow DEF Dispatching, Rows, DP!Rows
    <3>2. queue[n] \in Nat
      BY DEF WP!Typed, WP!TypeOK
    <3> QED
      BY <2>1, <3>1, <3>2
  <2>3. queue' \in [Rows -> Nat]
    BY <2>1, <2>2
  <2> QED
    BY <1>t, <2>1, <2>3 DEF working, forms, Forms, WP!Typed, WP!TypeOK, WP!TaskOK, WP!AtEnd
<1>3. ASSUME NEW d \in Dispatchers, Dispatch(d) PROVE WP!Typed' /\ Forms'
  <2>1. UNCHANGED <<working, queue, forms>>
    BY <1>3 DEF Dispatch, forms
  <2> QED
    BY <1>t, <2>1 DEF working, forms, Forms, WP!Typed, WP!TypeOK, WP!TaskOK, WP!AtEnd
<1>4. ASSUME NEW w \in Workers, Execute(w) \/ LoseTask(w) PROVE WP!Typed' /\ Forms'
  BY <1>0, <1>4, IsWork DEF Execute, LoseTask, forms, WP!Next
<1>5. ASSUME NEW w \in Workers, NEW n \in Rows, Take(w, n) PROVE WP!Typed' /\ Forms'
  BY <1>0, <1>5, IsWork DEF Take, forms, WP!Next
<1>6. ASSUME NEW n \in Rows, OpenForm(n) PROVE WP!Typed' /\ Forms'
  <2>1. status[n] \in WP!Status
    BY DEF WP!Typed, WP!TypeOK
  <2> QED
    BY <1>6, <2>1 DEF OpenForm, working, Forms, WP!Typed, WP!TypeOK, WP!TaskOK, WP!AtEnd
<1>7. ASSUME NEW n \in Rows, SaveForm(n) PROVE WP!Typed' /\ Forms'
  <2>1. PICK s \in WP!Status : /\ status' = [status EXCEPT ![n] = s]
                               /\ edited' = [edited EXCEPT ![n] = @ \/ s # form[n]]
    BY <1>7 DEF SaveForm, Work!Status, WP!Status
  <2>2. status' \in [Rows -> WP!Status]
    BY <2>1 DEF WP!Typed, WP!TypeOK
  <2>3. edited' \in [Rows -> BOOLEAN]
    BY <2>1 DEF Forms
  <2> QED
    BY <1>7, <2>2, <2>3 DEF SaveForm, Forms, WP!Typed, WP!TypeOK, WP!TaskOK, WP!AtEnd
<1>8. CASE Scrape
  BY <1>8 DEF Scrape, working, forms, Forms, WP!Typed, WP!TypeOK, WP!TaskOK, WP!AtEnd
<1>9. CASE UNCHANGED vars
  BY <1>9 DEF vars, working, forms, Forms, WP!Typed, WP!TypeOK, WP!TaskOK, WP!AtEnd
<1> QED
  BY <1>1, <1>2, <1>3, <1>4, <1>5, <1>6, <1>7, <1>8, <1>9 DEF Next

Working == WP!Typed /\ Forms /\ Dispatching

(* The service is well typed: what the components know of their own state  *)
(* survives the steps of the others.                                       *)
LEMMA WorkingInvariant == Spec => []Working
<1>1. Init => Working
  BY WorkingInit, DispatchingInit DEF Working
<1>2. Working /\ [Next]_vars => Working'
  BY WorkingStep, DispatchingStep DEF Working
<1> QED
  BY <1>1, <1>2, PTL DEF Spec

-----------------------------------------------------------------------------
(* OutboxFirst.                                                            *)

Paid(n)    == outbox[n] = "published" \/ ambiguous[n] + unrecorded[n] > 0
Touched(n) == ~edited[n] /\ (status[n] # "queued" \/ form[n] \notin {"queued", "closed"})

(* Nobody handles a notification without a message, and a status or a form *)
(* that shows more than QUEUED is paid for, or an operator picked it.      *)
Begun ==
  \A n \in Rows :
    /\ queue[n] > 0 \/ (\E w \in Workers : task[w].notif = n) => messages[n] > 0
    /\ Touched(n) => Paid(n)

LEMMA BegunInit == Init => Begun
<1> SUFFICES ASSUME Init, NEW n \in Rows
             PROVE  queue[n] = 0 /\ (\A w \in Workers : task[w].notif # n) /\ ~Touched(n)
  BY DEF Begun
<1> QED
  BY ServiceAssumption DEF Init, Work!Init, Work!Idle, Work!Begin, Touched, Rows

(* Whoever can write a notification that has a message finds it paid for.  *)
LEMMA PaidWhenFree ==
  ASSUME Working, NEW n \in Rows, ~Blocked(n), messages[n] > 0
  PROVE  Paid(n)
<1>1. n \in DP!Rows /\ messages[n] \in Nat /\ ambiguous[n] \in Nat /\ unrecorded[n] \in Nat
  BY DEF Rows, DP!Rows, Working, Dispatching, DP!Typed, DP!TypeOK, DP!Counter
<1>2. \A d \in Dispatchers : ~DP!Holds(d, n)
  BY DEF Blocked, Disp!Locked, Disp!Holds, DP!Holds, Disp!Current, DP!Current
<1>3. CASE outbox[n] # "published"
  <2>1. ~DP!Sent(n)
    BY <1>2, <1>3 DEF DP!Sent
  <2>2. messages[n] <= ambiguous[n] + unrecorded[n]
    BY <1>1, <2>1 DEF Working, Dispatching, DP!Excused
  <2> QED
    BY <1>1, <2>2 DEF Paid
<1> QED
  BY <1>3 DEF Paid

(* A published row stays published, and no tried row is pending again.     *)
LEMMA RowsMove ==
  ASSUME Working, [Next]_vars, NEW r \in Rows
  PROVE  /\ outbox[r] # "none" => outbox'[r] # "none"
         /\ outbox[r] = "published" => outbox'[r] = "published"
         /\ outbox[r] \in {"failed", "published"} => outbox'[r] \in {"failed", "published"}
<1>1. r \in DP!Rows /\ outbox \in [DP!Rows -> DP!Status]
  BY DEF Rows, DP!Rows, Working, Dispatching, DP!Typed, DP!TypeOK
<1>2. outbox[r] = "published" => outbox'[r] = "published"
  BY <1>1, DispatchStep, DispAssumed, DP!OnlyHolderTouches
  DEF Working, Dispatching, DP!Locking, DP!HeldIsDue, DP!Touches
<1>3. \/ outbox' = outbox
      \/ \E q \in DP!Rows : outbox[q] = "none" /\ outbox' = [outbox EXCEPT ![q] = "pending"]
      \/ \E d \in Dispatchers, s \in {"failed", "published"} :
           outbox' = [outbox EXCEPT ![DP!Current(d)] = s]
  BY DispatchStep DEF DP!Next, DP!Proceed, DP!Commit, DP!Schedule, DP!StartOne,
     DP!StartRecovery, DP!LockRow, DP!SkipRow, DP!Publish, DP!PublishRaises,
     DP!RecordPublished, DP!RecordFailed, DP!Crash, DP!row, DP!vars
<1>4. /\ outbox[r] # "none" => outbox'[r] # "none"
      /\ outbox[r] \in {"failed", "published"} => outbox'[r] \in {"failed", "published"}
  BY <1>1, <1>3
<1> QED
  BY <1>2, <1>4

(* What is paid for stays so, and no message is taken back.                *)
LEMMA PaidStays ==
  ASSUME Working, [Next]_vars, NEW n \in Rows
  PROVE  /\ Paid(n) => Paid(n)'
         /\ messages[n] > 0 => messages'[n] > 0
<1>1. /\ n \in DP!Rows /\ ambiguous[n] \in Nat /\ unrecorded[n] \in Nat
      /\ ambiguous \in [DP!Rows -> Nat] /\ unrecorded \in [DP!Rows -> Nat]
      /\ outbox \in [DP!Rows -> DP!Status]
  BY DEF Rows, DP!Rows, Working, Dispatching, DP!Typed, DP!TypeOK, DP!Counter
<1>2. messages[n] > 0 => messages'[n] > 0
  BY <1>1, DispatchStep, DispAssumed, DP!MessagesGrow DEF Working, Dispatching
<1>3. ambiguous'[n] >= ambiguous[n] /\ unrecorded'[n] >= unrecorded[n]
  <2>1. /\ ambiguous' = ambiguous \/ \E d \in Dispatchers : ambiguous' = DP!Inc(ambiguous, DP!Current(d))
        /\ unrecorded' = unrecorded \/ \E d \in Dispatchers : unrecorded' = DP!Inc(unrecorded, DP!Current(d))
    BY DispatchStep DEF DP!Next, DP!Proceed, DP!Commit, DP!Schedule, DP!StartOne,
       DP!StartRecovery, DP!LockRow, DP!SkipRow, DP!Publish, DP!PublishRaises,
       DP!RecordPublished, DP!RecordFailed, DP!Crash, DP!past, DP!vars
  <2> QED
    BY <1>1, <2>1 DEF DP!Inc
<1>4. outbox[n] = "published" => outbox'[n] = "published"
  BY RowsMove
<1>5. ambiguous'[n] \in Nat /\ unrecorded'[n] \in Nat
  BY <1>1, DispatchingStep DEF Working, Dispatching, DP!Typed, DP!TypeOK, DP!Counter
<1> QED
  BY <1>1, <1>2, <1>3, <1>4, <1>5 DEF Paid

LEMMA BegunStep == Working /\ Begun /\ [Next]_vars => Begun'
<1> SUFFICES ASSUME Working, Begun, [Next]_vars, NEW n \in Rows
             PROVE  /\ queue'[n] > 0 \/ (\E w \in Workers : task'[w].notif = n) => messages'[n] > 0
                    /\ Touched(n)' => Paid(n)'
  BY DEF Begun
<1> DEFINE Goal == /\ queue'[n] > 0 \/ (\E w \in Workers : task'[w].notif = n) => messages'[n] > 0
                   /\ Touched(n)' => Paid(n)'
<1>t. /\ task \in [Workers -> WP!Execution] /\ status \in [Rows -> WP!Status]
      /\ queue \in [Rows -> Nat] /\ messages \in [Rows -> Nat] /\ Forms
      /\ messages' \in [Rows -> Nat]
  <2>1. Working'
    BY WorkingStep, DispatchingStep DEF Working
  <2> QED
    BY <2>1 DEF Working, WP!Typed, WP!TypeOK
<1>p. /\ Paid(n) => Paid(n)'
      /\ messages[n] > 0 => messages'[n] > 0
  BY PaidStays
<1>0. ASSUME UNCHANGED <<status, form, edited, queue, task>> PROVE Goal
  BY <1>0, <1>p DEF Begun, Touched
<1>1. ASSUME NEW r \in Rows, Enqueue(r) PROVE Goal
  BY <1>0, <1>1 DEF Enqueue, working, forms
<1>2. ASSUME NEW d \in Dispatchers, Send(d) PROVE Goal
  <2>1. UNCHANGED <<status, form, edited, task>> /\ queue'[n] = queue[n] + messages'[n] - messages[n]
    BY <1>2 DEF Send, working, forms
  <2>2. queue[n] \in Nat /\ messages[n] \in Nat /\ messages'[n] \in Nat
    BY <1>t
  <2>3. queue'[n] > 0 => messages'[n] > 0
    BY <1>p, <2>1, <2>2 DEF Begun
  <2> QED
    BY <1>p, <2>1, <2>3 DEF Begun, Touched
<1>3. ASSUME NEW d \in Dispatchers, Dispatch(d) PROVE Goal
  BY <1>0, <1>3 DEF Dispatch, working, forms
<1>4. ASSUME NEW w \in Workers, Execute(w) \/ LoseTask(w) PROVE Goal
  <2>1. /\ WP!Execute(w) \/ WP!LoseTask(w)
        /\ UNCHANGED <<form, edited>>
    BY <1>4, IsWork DEF Execute, LoseTask, forms
  <2>2. /\ \A v \in Workers \ {w} : task'[v] = task[v]
        /\ task[w].notif \in Rows
        /\ task'[w].notif \in {task[w].notif, NoNotification}
    <3>1. /\ \A v \in Workers \ {w} : task'[v] = task[v]
          /\ task[w].notif \in Rows
          /\ task'[w] = WP!Idle \/ task'[w].notif = task[w].notif
      BY <2>1, WorkAssumed, WP!StatusStep DEF Working
    <3> QED
      BY <3>1, WorkAssumed, WP!IdleFields
  <2>3. CASE n # task[w].notif
    <3>1. status'[n] = status[n] /\ queue'[n] = queue[n]
      BY <2>1, <2>3, WorkAssumed, WP!OtherNotification DEF Working
    <3>2. n # NoNotification
      BY ServiceAssumption DEF Rows
    <3>3. (\E v \in Workers : task'[v].notif = n) => \E v \in Workers : task[v].notif = n
      BY <2>2, <2>3, <3>2
    <3> QED
      BY <1>p, <2>1, <3>1, <3>3 DEF Begun, Touched
  <2>4. CASE n = task[w].notif
    <3>1. messages[n] > 0
      BY <2>4 DEF Begun
    <3>2. CASE status' = status
      BY <1>p, <2>1, <3>1, <3>2 DEF Begun, Touched
    <3>3. CASE status' # status
      <4>1. Work!MarkProcessing(w) \/ Work!RecordSuccess(w) \/ Work!MarkFailed(w)
        BY <1>4, <3>3 DEF Execute, LoseTask, Work!Execute, Work!LoseTask, Work!ScanChannel,
           Work!CountAttempts, Work!CallProvider, Work!RecordFailure, Work!ScheduleRetry,
           Work!rows
      <4>2. Writes(w)
        BY <4>1 DEF Writes, Work!MarkProcessing, Work!RecordSuccess, Work!MarkFailed
      <4>3. ~Blocked(n)
        <5>1. ~LoseTask(w)
          BY <3>3 DEF LoseTask, Work!LoseTask, Work!rows
        <5> QED
          BY <1>4, <2>4, <4>2, <5>1 DEF Execute
      <4> QED
        BY <1>p, <3>1, <4>3, PaidWhenFree
    <3> QED
      BY <3>2, <3>3
  <2> QED
    BY <2>3, <2>4
<1>5. ASSUME NEW w \in Workers, NEW m \in Rows, Take(w, m) PROVE Goal
  <2>1. /\ UNCHANGED <<status, form, edited, messages>> /\ queue[m] > 0
        /\ queue' = [queue EXCEPT ![m] = @ - 1]
        /\ \A v \in Workers : task'[v].notif \in {task[v].notif, m}
    <3>1. UNCHANGED <<status, form, edited, messages>> /\ queue[m] > 0
          /\ queue' = [queue EXCEPT ![m] = @ - 1]
      BY <1>5 DEF Take, Work!Load, Work!rows, forms
    <3>2. UNCHANGED task \/ \E u : u.notif = m /\ task' = [task EXCEPT ![w] = u]
      BY <1>5 DEF Take, Work!Load, Work!Begin
    <3> QED
      BY <1>t, <3>1, <3>2
  <2>2. queue'[n] > 0 => queue[n] > 0
    BY <1>t, <2>1
  <2>3. n = m => messages[n] > 0
    BY <2>1 DEF Begun
  <2> QED
    BY <1>p, <2>1, <2>2, <2>3 DEF Begun, Touched
<1>6. ASSUME NEW m \in Rows, OpenForm(m) PROVE Goal
  <2>1. UNCHANGED <<status, edited, queue, task>> /\ form' = [form EXCEPT ![m] = status[m]]
    BY <1>6 DEF OpenForm, working
  <2>2. Touched(n)' => Touched(n)
    BY <1>t, <2>1 DEF Touched, Forms
  <2> QED
    BY <1>p, <2>1, <2>2 DEF Begun
<1>7. ASSUME NEW m \in Rows, SaveForm(m) PROVE Goal
  <2>1. UNCHANGED <<queue, task>> /\ form' = [form EXCEPT ![m] = "closed"] /\ form[m] # "closed"
    BY <1>7 DEF SaveForm
  <2>2. PICK s : /\ status' = [status EXCEPT ![m] = s]
                 /\ edited' = [edited EXCEPT ![m] = @ \/ s # form[m]]
    BY <1>7 DEF SaveForm
  <2>3. Touched(n)' => Touched(n)
    BY <1>t, <2>1, <2>2 DEF Touched, Forms
  <2> QED
    BY <1>p, <2>1, <2>3 DEF Begun
<1>8. CASE Scrape
  BY <1>0, <1>8 DEF Scrape, working, forms
<1>9. CASE UNCHANGED vars
  BY <1>0, <1>9 DEF vars, working, forms
<1> QED
  BY <1>1, <1>2, <1>3, <1>4, <1>5, <1>6, <1>7, <1>8, <1>9 DEF Next

(* The worker is never ahead of the outbox, for any number of overlapping  *)
(* dispatchers and executions and whatever forms are saved in between,     *)
(* unless an operator picked the status himself.                           *)
THEOREM OutboxFirstCorrect == Spec => []OutboxFirst
<1>1. Begun => OutboxFirst
  BY DEF Begun, OutboxFirst, Touched, Paid
<1> QED
  BY <1>1, WorkingInvariant, BegunInit, BegunStep, PTL DEF Spec
-----------------------------------------------------------------------------
(* One message, one delivery, in the presence of forms. A notification     *)
(* that is over, or that a form remembers as over, has used up its message:*)
(* nothing is left that could deliver it again or change its status. Only  *)
(* a status an operator picked says nothing.                               *)
Bound == WP!MessageBound

LEMMA BoundInit == Init => Bound
<1>1. Init => WP!Init
  BY DEF Init, Work!Init, WP!Init, Work!Idle, WP!Idle, Work!Begin, WP!Begin
<1> QED
  BY <1>1, WorkAssumed, WP!MessageInit DEF Bound

LEMMA BoundStep == Working /\ Bound /\ [Next]_vars => Bound'
<1> SUFFICES ASSUME Working, Bound, [Next]_vars PROVE Bound'
  OBVIOUS
<1>0. ASSUME WP!Next \/ UNCHANGED WP!vars PROVE Bound'
  BY <1>0, WorkAssumed, WP!MessageStep DEF Working, Bound
<1>1. ASSUME UNCHANGED <<queue, messages, task>> PROVE Bound'
  BY <1>1 DEF Bound, WP!MessageBound, WP!Running
<1>2. ASSUME NEW d \in Dispatchers, Send(d) PROVE Bound'
  <2> SUFFICES ASSUME NEW n \in Rows
               PROVE  (queue[n] + WP!Cardinality(WP!Running(n)) <= messages[n])'
    BY DEF Bound, WP!MessageBound
  <2>1. task' = task /\ queue'[n] = queue[n] + messages'[n] - messages[n]
    BY <1>2 DEF Send, working
  <2>2. WP!Running(n)' = WP!Running(n)
    BY <2>1 DEF WP!Running
  <2>3. /\ queue[n] \in Nat /\ messages[n] \in Nat /\ messages'[n] \in Nat
        /\ WP!Cardinality(WP!Running(n)) \in Nat
    <3>1. Working'
      BY WorkingStep, DispatchingStep DEF Working
    <3>2. WP!Running(n) \in SUBSET Workers
      BY DEF WP!Running
    <3>3. WP!Cardinality(WP!Running(n)) \in Nat
      BY <3>2, WorkAssumed, WP!CardinalityMonotone
    <3> QED
      BY <3>1, <3>3 DEF Working, WP!Typed, WP!TypeOK
  <2>4. queue[n] + WP!Cardinality(WP!Running(n)) <= messages[n]
    BY DEF Bound, WP!MessageBound
  <2> QED
    BY <2>1, <2>2, <2>3, <2>4
<1>3. ASSUME NEW r \in Rows, Enqueue(r) \/ OpenForm(r) \/ SaveForm(r) PROVE Bound'
  BY <1>1, <1>3 DEF Enqueue, OpenForm, SaveForm, Disp!Commit, Disp!Schedule, working
<1>4. ASSUME NEW d \in Dispatchers, Dispatch(d) PROVE Bound'
  BY <1>1, <1>4 DEF Dispatch, working, Disp!LockRow, Disp!SkipRow, Disp!RecordPublished,
     Disp!RecordFailed, Disp!Crash, Disp!StartRecovery, Disp!StartOne
<1>5. ASSUME NEW w \in Workers, Execute(w) \/ LoseTask(w) PROVE Bound'
  BY <1>0, <1>5, IsWork DEF Execute, LoseTask, WP!Next
<1>6. ASSUME NEW w \in Workers, NEW n \in Rows, Take(w, n) PROVE Bound'
  BY <1>0, <1>6, IsWork DEF Take, WP!Next
<1>7. CASE Scrape
  BY <1>1, <1>7 DEF Scrape, working
<1>8. CASE UNCHANGED vars
  BY <1>1, <1>8 DEF vars, working
<1> QED
  BY <1>2, <1>3, <1>4, <1>5, <1>6, <1>7, <1>8 DEF Next

Over(n) == \/ ~edited[n] /\ (status[n] \in {"sent", "failed"} \/ form[n] \in {"sent", "failed"})
           \/ \E c \in Channels : succeeded[n][c] > 0

Spent(n) ==
  /\ messages[n] = 1 /\ queue[n] = 0 /\ WP!Running(n) = {}
  /\ \A c, e \in Channels :
       succeeded[n][c] > 0 /\ succeeded[n][e] > 0 => c = e /\ succeeded[n][c] = 1

OverIsSpent == \A n \in Rows : messages[n] <= 1 /\ Over(n) => Spent(n)

LEMMA OverInit == Init => OverIsSpent
<1> SUFFICES ASSUME Init, NEW n \in Rows PROVE ~Over(n)
  BY DEF OverIsSpent
<1>1. status[n] = "queued" /\ form[n] = "closed" /\ \A c \in Channels : succeeded[n][c] = 0
  BY DEF Init, Work!Init
<1> QED
  BY <1>1 DEF Over

(* The end of the one execution a notification has.                        *)
LEMMA LastExecution ==
  ASSUME Working, Bound, NEW w \in Workers, Work!RecordSuccess(w) \/ Work!MarkFailed(w),
         NEW n \in Rows, n = task[w].notif, messages[n] <= 1, ~Over(n)
  PROVE  Spent(n)'
<1>t. /\ queue[n] \in Nat /\ messages[n] \in Nat /\ succeeded \in WP!Counter
      /\ queue[n] + WP!Cardinality(WP!Running(n)) <= messages[n]
  BY DEF Working, WP!Typed, WP!TypeOK, Bound, WP!MessageBound
<1>1. task' = [task EXCEPT ![w] = WP!Idle] /\ UNCHANGED <<queue, messages>>
  BY DEF Work!RecordSuccess, Work!MarkFailed, Work!Idle, WP!Idle, Work!Begin, WP!Begin
<1>2. /\ WP!Running(n)' = WP!Running(n) \ {w} /\ w \in WP!Running(n)
      /\ WP!Running(n) \in SUBSET Workers
  BY <1>1, WorkAssumed, WP!RunningIdle DEF Working, WP!Running
<1>3. /\ IsFiniteSet(WP!Running(n)) /\ Cardinality(WP!Running(n)) \in Nat
      /\ IsFiniteSet(WP!Running(n)') /\ Cardinality(WP!Running(n)') \in Nat
      /\ Cardinality(WP!Running(n)') = Cardinality(WP!Running(n)) - 1
  BY <1>2, ServiceAssumption, FS_Subset, FS_CardinalityType, FS_RemoveElement
<1>4. WP!Cardinality(WP!Running(n)) = Cardinality(WP!Running(n))
  BY DEF WP!Cardinality, Cardinality, WP!IsFiniteSet, IsFiniteSet
<1>5. messages[n] = 1 /\ queue[n] = 0 /\ Cardinality(WP!Running(n)') = 0
  BY <1>t, <1>3, <1>4
<1>6. WP!Running(n)' = {}
  BY <1>3, <1>5, FS_EmptySet
<1>7. \A c \in Channels : succeeded[n][c] = 0
  BY <1>t DEF Over, WP!Counter
<1>8. \/ succeeded' = succeeded
      \/ succeeded' = WP!Tally(succeeded, n, WP!Channel(w))
  BY DEF Work!RecordSuccess, Work!MarkFailed, Work!Tally, WP!Tally, Work!Channel,
     WP!Channel, Work!rows
<1>9. \A c \in Channels : succeeded'[n][c] > 0 => c = WP!Channel(w) /\ succeeded'[n][c] = 1
  BY <1>t, <1>7, <1>8 DEF WP!Tally, WP!Counter
<1> QED
  BY <1>1, <1>5, <1>6, <1>9 DEF Spent

LEMMA OverStep == Working /\ Bound /\ OverIsSpent /\ [Next]_vars => OverIsSpent'
<1> SUFFICES ASSUME Working, Bound, OverIsSpent, [Next]_vars, NEW n \in Rows,
                    messages'[n] <= 1, Over(n)'
             PROVE  Spent(n)'
  BY DEF OverIsSpent
<1>t. /\ task \in [Workers -> WP!Execution] /\ status \in [Rows -> WP!Status]
      /\ queue \in [Rows -> Nat] /\ messages \in [Rows -> Nat] /\ Forms
      /\ messages' \in [Rows -> Nat]
  <2>1. Working'
    BY WorkingStep, DispatchingStep DEF Working
  <2> QED
    BY <2>1 DEF Working, WP!Typed, WP!TypeOK
<1>0. ASSUME Over(n), UNCHANGED <<messages[n], queue[n], succeeded[n], WP!Running(n)>>
      PROVE  Spent(n)'
  BY <1>0 DEF OverIsSpent, Spent
<1>1. ASSUME UNCHANGED <<status, form, edited, messages, queue, succeeded, task>>
      PROVE  Spent(n)'
  BY <1>0, <1>1 DEF Over, WP!Running
<1>2. ASSUME NEW d \in Dispatchers, Send(d) PROVE Spent(n)'
  <2>1. /\ UNCHANGED <<status, form, edited, succeeded, task>>
        /\ queue'[n] = queue[n] + messages'[n] - messages[n]
    BY <1>2 DEF Send, working, forms
  <2>2. Over(n) /\ WP!Running(n)' = WP!Running(n)
    BY <2>1 DEF Over, WP!Running
  <2>3. messages'[n] >= messages[n] /\ n \in DP!Rows
    BY DispatchStep, DispAssumed, DP!MessagesGrow DEF Working, Dispatching, Rows, DP!Rows
  <2>4. queue[n] \in Nat /\ messages[n] \in Nat /\ messages'[n] \in Nat
    BY <1>t
  <2>5. messages[n] = 1
    BY <2>2, <2>3, <2>4 DEF OverIsSpent, Spent
  <2> QED
    BY <1>0, <2>1, <2>2, <2>3, <2>4, <2>5
<1>3. ASSUME NEW r \in Rows, Enqueue(r) PROVE Spent(n)'
  BY <1>1, <1>3 DEF Enqueue, Disp!Commit, Disp!Schedule, working, forms
<1>4. ASSUME NEW d \in Dispatchers, Dispatch(d) PROVE Spent(n)'
  BY <1>1, <1>4 DEF Dispatch, working, forms, Disp!LockRow, Disp!SkipRow,
     Disp!RecordPublished, Disp!RecordFailed, Disp!Crash, Disp!StartRecovery, Disp!StartOne
<1>5. ASSUME NEW w \in Workers, Execute(w) \/ LoseTask(w) PROVE Spent(n)'
  <2>1. /\ WP!Execute(w) \/ WP!LoseTask(w)
        /\ UNCHANGED <<form, edited>>
    BY <1>5, IsWork DEF Execute, LoseTask, forms
  <2>2. CASE n # task[w].notif
    <3>1. /\ status'[n] = status[n] /\ succeeded'[n] = succeeded[n] /\ queue'[n] = queue[n]
          /\ messages' = messages /\ WP!Running(n)' = WP!Running(n)
      BY <2>1, <2>2, WorkAssumed, WP!OtherNotification DEF Working
    <3> QED
      BY <1>0, <2>1, <3>1 DEF Over
  <2>3. CASE n = task[w].notif
    <3>1. messages' = messages /\ w \in WP!Running(n)
      BY <1>5, <2>3 DEF WP!Running, Execute, LoseTask, Work!Execute, Work!LoseTask,
         Work!MarkProcessing, Work!ScanChannel, Work!CountAttempts, Work!CallProvider,
         Work!RecordSuccess, Work!RecordFailure, Work!ScheduleRetry, Work!MarkFailed
    <3>2. ~Over(n)
      BY <3>1 DEF OverIsSpent, Spent
    <3>3. Work!RecordSuccess(w) \/ Work!MarkFailed(w)
      <4>1. ASSUME Work!MarkProcessing(w) PROVE FALSE
        BY <1>t, <2>1, <2>3, <3>2, <4>1 DEF Over, Work!MarkProcessing
      <4>2. ASSUME UNCHANGED <<status, succeeded>> PROVE FALSE
        BY <2>1, <3>2, <4>2 DEF Over
      <4> QED
        BY <1>5, <4>1, <4>2 DEF Execute, LoseTask, Work!Execute, Work!LoseTask,
           Work!ScanChannel, Work!CountAttempts, Work!CallProvider, Work!RecordFailure,
           Work!ScheduleRetry, Work!rows
    <3> QED
      BY <2>3, <3>1, <3>2, <3>3, LastExecution
  <2> QED
    BY <2>2, <2>3
<1>6. ASSUME NEW w \in Workers, NEW m \in Rows, Take(w, m) PROVE Spent(n)'
  <2>1. /\ UNCHANGED <<status, form, edited, messages, succeeded>> /\ queue[m] > 0
        /\ queue' = [queue EXCEPT ![m] = @ - 1] /\ task[w] = WP!Idle
        /\ UNCHANGED task \/ \E u : u.notif = m /\ task' = [task EXCEPT ![w] = u]
    <3>1. /\ UNCHANGED <<status, form, edited, messages, succeeded>> /\ queue[m] > 0
          /\ queue' = [queue EXCEPT ![m] = @ - 1] /\ task[w] = WP!Idle
      BY <1>6 DEF Take, Work!Load, Work!rows, forms, Work!Idle, WP!Idle, Work!Begin, WP!Begin
    <3>2. UNCHANGED task \/ \E u : u.notif = m /\ task' = [task EXCEPT ![w] = u]
      BY <1>6 DEF Take, Work!Load, Work!Begin
    <3> QED
      BY <3>1, <3>2
  <2>2. Over(n)
    BY <2>1 DEF Over
  <2>3. m # n
    BY <2>1, <2>2 DEF OverIsSpent, Spent
  <2>4. task[w].notif # n
    BY <2>1, WorkAssumed, WP!IdleFields, ServiceAssumption DEF Rows
  <2>5. WP!Running(n)' = WP!Running(n)
    BY <1>t, <2>1, <2>3, <2>4 DEF WP!Running
  <2> QED
    BY <1>0, <1>t, <2>1, <2>2, <2>3, <2>5
<1>7. ASSUME NEW m \in Rows, OpenForm(m) \/ SaveForm(m) PROVE Spent(n)'
  <2>1. /\ UNCHANGED <<messages, queue, succeeded, task>>
        /\ \/ UNCHANGED <<status, edited>> /\ form' = [form EXCEPT ![m] = status[m]]
           \/ /\ form' = [form EXCEPT ![m] = "closed"]
              /\ \E s : /\ status' = [status EXCEPT ![m] = s]
                        /\ edited' = [edited EXCEPT ![m] = @ \/ s # form[m]]
    BY <1>7 DEF OpenForm, SaveForm, working
  <2>2. Over(n)
    BY <1>t, <2>1 DEF Over, Forms
  <2> QED
    BY <1>0, <2>1, <2>2 DEF WP!Running
<1>8. CASE Scrape
  BY <1>1, <1>8 DEF Scrape, working, forms
<1>9. CASE UNCHANGED vars
  BY <1>1, <1>9 DEF vars, working, forms
<1> QED
  BY <1>2, <1>3, <1>4, <1>5, <1>6, <1>7, <1>8, <1>9 DEF Next

Once == Working /\ Bound /\ OverIsSpent

LEMMA OnceInvariant == Spec => []Once
BY WorkingInvariant, BoundInit, BoundStep, OverInit, OverStep, PTL DEF Spec, Once

LEMMA SingleMessage ==
  ASSUME Working, NEW n \in Rows, ambiguous[n] + unrecorded[n] = 0
  PROVE  messages[n] <= 1
<1>1. n \in DP!Rows /\ messages[n] \in Nat /\ ambiguous[n] \in Nat /\ unrecorded[n] \in Nat
  BY DEF Rows, DP!Rows, Working, Dispatching, DP!Typed, DP!TypeOK, DP!Counter
<1>2. messages[n] <= 1 + ambiguous[n] + unrecorded[n]
  BY <1>1 DEF Working, Dispatching, DP!Excused
<1> QED
  BY <1>1, <1>2

(* Without a fault of a dispatcher a notification is delivered at most     *)
(* once, for any rows, dispatchers, workers and channels, whatever is      *)
(* retried or lost and whatever forms are saved, with whatever status.     *)
THEOREM DeliveredOnceCorrect == Spec => []DeliveredOnce
<1>1. Once => DeliveredOnce
  BY SingleMessage DEF Once, OverIsSpent, Spent, Over, DeliveredOnce
<1> QED
  BY <1>1, OnceInvariant, PTL

(* A notification that is done, and not by the hand of an operator, is     *)
(* undone only by a form or by a fault of a dispatcher.                    *)
THEOREM UndoneCorrect == Spec => UndoneForCause
<1>1. Once /\ [Next]_vars => [\A n \in Rows : UndoneFor(n)]_vars
  <2> SUFFICES ASSUME Once, [Next]_vars, NEW n \in Rows,
                      status[n] \in {"sent", "failed"}, ~edited[n],
                      status'[n] # status[n],
                      ~(ambiguous[n] + unrecorded[n] > 0)
               PROVE  saves'[n] > saves[n]
    BY DEF UndoneFor, Work!Terminal
  <2>1. ambiguous[n] + unrecorded[n] = 0
    BY DEF Once, Working, Dispatching, DP!Typed, DP!TypeOK, DP!Counter, Rows, DP!Rows
  <2>2. WP!Running(n) = {}
    BY <2>1, SingleMessage DEF Once, OverIsSpent, Over, Spent
  <2>3. ASSUME NEW w \in Workers, Execute(w) \/ LoseTask(w) PROVE FALSE
    <3>1. WP!Execute(w) \/ WP!LoseTask(w)
      BY <2>3, IsWork DEF Execute, LoseTask
    <3>2. n # task[w].notif
      BY <2>2 DEF WP!Running
    <3> QED
      BY <3>1, <3>2, WorkAssumed, WP!OtherNotification DEF Once, Working
  <2>4. PICK m \in Rows : SaveForm(m)
    BY <2>3 DEF Next, Enqueue, OpenForm, Send, Dispatch, Take, Scrape, vars, working,
       Work!Load, Work!rows
  <2>5. n = m
    BY <2>4 DEF SaveForm, Once, Working, WP!Typed, WP!TypeOK
  <2> QED
    BY <2>4, <2>5 DEF SaveForm, Once, Working, Forms
<1> QED
  BY <1>1, OnceInvariant, PTL DEF Spec, UndoneForCause

-----------------------------------------------------------------------------
(* What a user receives, and what nobody forgets. A step of the service is *)
(* a step of a worker on its own, or it leaves the executions alone, puts  *)
(* the messages it counts in the queue, and changes a status only by a     *)
(* form, to what the form was opened with or to what an operator picks.    *)
Aside ==
  /\ UNCHANGED <<failed, succeeded, refused, accepted, task, taskFaults>>
  /\ \A n \in Rows : /\ queue'[n] = queue[n] + (messages'[n] - messages[n])
                     /\ messages'[n] >= messages[n]
                     /\ saves'[n] >= saves[n]
                     /\ \/ status'[n] = status[n]
                        \/ (status'[n] = form[n] \/ edited'[n]) /\ saves'[n] > 0
                     /\ edited[n] => edited'[n]
                     /\ form'[n] \in {form[n], status[n], "closed"}

LEMMA WorkStep ==
  ASSUME Working, [Next]_vars
  PROVE  (WP!Next /\ UNCHANGED <<messages, forms>>) \/ Aside
<1>t. /\ queue \in [Rows -> Nat] /\ messages \in [Rows -> Nat] /\ saves \in [Rows -> Nat]
      /\ status \in [Rows -> WP!Status] /\ form \in [Rows -> WP!Status \cup {"closed"}]
      /\ edited \in [Rows -> BOOLEAN]
  BY DEF Working, WP!Typed, WP!TypeOK, Forms
<1>1. ASSUME UNCHANGED <<working, queue, messages, forms>> PROVE Aside
  <2>1. \A n \in Rows : queue[n] = queue[n] + (messages[n] - messages[n])
                        /\ messages[n] >= messages[n] /\ saves[n] >= saves[n]
    BY <1>t
  <2> QED
    BY <1>1, <2>1 DEF Aside, working, forms
<1>2. ASSUME NEW d \in Dispatchers, Send(d) PROVE Aside
  <2>1. /\ UNCHANGED <<working, form, saves, edited>>
        /\ queue' = [n \in Rows |-> queue[n] + messages'[n] - messages[n]]
    BY <1>2 DEF Send, forms
  <2>2. \A n \in Rows : messages'[n] \in Nat /\ messages'[n] >= messages[n]
    BY DispatchStep, DispAssumed, DP!MessagesGrow DEF Working, Dispatching, Rows, DP!Rows
  <2>3. \A n \in Rows : queue'[n] = queue[n] + (messages'[n] - messages[n])
    BY <1>t, <2>1, <2>2
  <2>4. \A n \in Rows : saves'[n] >= saves[n]
    BY <1>t, <2>1
  <2> QED
    BY <2>1, <2>2, <2>3, <2>4 DEF Aside, working
<1>3. ASSUME NEW n \in Rows, Enqueue(n) PROVE Aside
  BY <1>1, <1>3 DEF Enqueue, Disp!Commit, Disp!Schedule
<1>4. ASSUME NEW d \in Dispatchers, Dispatch(d) PROVE Aside
  BY <1>1, <1>4 DEF Dispatch, Disp!LockRow, Disp!SkipRow, Disp!RecordPublished,
     Disp!RecordFailed, Disp!Crash, Disp!StartRecovery, Disp!StartOne
<1>5. ASSUME NEW n \in Rows, OpenForm(n) PROVE Aside
  <2>1. /\ UNCHANGED <<working, queue, messages, saves, edited>>
        /\ form' = [form EXCEPT ![n] = status[n]]
    BY <1>5 DEF OpenForm
  <2>2. \A m \in Rows : /\ queue[m] = queue[m] + (messages[m] - messages[m])
                        /\ messages[m] >= messages[m] /\ saves[m] >= saves[m]
                        /\ form'[m] \in {form[m], status[m]}
    BY <1>t, <2>1
  <2> QED
    BY <2>1, <2>2 DEF Aside, working
<1>6. ASSUME NEW n \in Rows, SaveForm(n) PROVE Aside
  <2>1. /\ UNCHANGED <<failed, succeeded, refused, accepted, task, taskFaults, queue, messages>>
        /\ \A m \in Rows : m # n => /\ status'[m] = status[m] /\ saves'[m] = saves[m]
                                    /\ form'[m] = form[m] /\ edited'[m] = edited[m]
        /\ saves'[n] = saves[n] + 1 /\ form'[n] = "closed"
        /\ edited[n] => edited'[n]
        /\ status'[n] = form[n] \/ edited'[n]
    BY <1>6, <1>t DEF SaveForm
  <2>2. \A m \in Rows : /\ queue[m] = queue[m] + (messages[m] - messages[m])
                        /\ messages[m] >= messages[m] /\ saves'[m] >= saves[m]
    BY <1>t, <2>1
  <2>3. \A m \in Rows : /\ \/ status'[m] = status[m]
                           \/ (status'[m] = form[m] \/ edited'[m]) /\ saves'[m] > 0
                        /\ edited[m] => edited'[m]
                        /\ form'[m] \in {form[m], status[m], "closed"}
    BY <1>t, <2>1
  <2> QED
    BY <2>1, <2>2, <2>3 DEF Aside
<1>7. ASSUME NEW w \in Workers, Execute(w) \/ LoseTask(w)
      PROVE  WP!Next /\ UNCHANGED <<messages, forms>>
  <2>1. WP!Next
    BY <1>7, IsWork DEF Execute, LoseTask, WP!Next
  <2>2. UNCHANGED <<messages, forms>>
    BY <1>7 DEF Execute, LoseTask, Work!Execute, Work!LoseTask, Work!MarkProcessing,
       Work!ScanChannel, Work!CountAttempts, Work!CallProvider, Work!RecordSuccess,
       Work!RecordFailure, Work!ScheduleRetry, Work!MarkFailed
  <2> QED
    BY <2>1, <2>2
<1>8. ASSUME NEW w \in Workers, NEW n \in Rows, Take(w, n)
      PROVE  WP!Next /\ UNCHANGED <<messages, forms>>
  BY <1>8, IsWork DEF Take, WP!Next, Work!Load
<1>9. CASE Scrape
  BY <1>1, <1>9 DEF Scrape
<1>10. CASE UNCHANGED vars
  BY <1>1, <1>10 DEF vars
<1> QED
  BY <1>2, <1>3, <1>4, <1>5, <1>6, <1>7, <1>8, <1>9, <1>10 DEF Next

Delivering == WP!FreeBound /\ WP!SendBound

LEMMA DeliveringInit == Init => Delivering
<1>1. Init => WP!Init
  BY DEF Init, Work!Init, WP!Init, Work!Idle, WP!Idle, Work!Begin, WP!Begin
<1> QED
  BY <1>1, WorkAssumed, WP!FreeInit DEF Delivering

LEMMA DeliveringStep == Working /\ Delivering /\ [Next]_vars => Delivering'
<1> SUFFICES ASSUME Working, Delivering, [Next]_vars PROVE Delivering'
  OBVIOUS
<1>1. CASE WP!Next
  BY <1>1, WorkAssumed, WP!FreeStep, WP!SendStep DEF Working, Delivering
<1>2. CASE Aside
  <2> SUFFICES ASSUME NEW n \in Rows, NEW c \in Channels
               PROVE  /\ (accepted[n][c] + queue[n] + WP!Cardinality(WP!Free(n, c))
                            <= messages[n] + failed[n][c])'
                      /\ (accepted[n][c] + WP!Cardinality(WP!Sending(n, c))
                            <= MAX_RETRIES_PER_CHANNEL - 1 + messages[n])'
    BY DEF Delivering, WP!FreeBound, WP!SendBound
  <2>1. /\ WP!Free(n, c)' = WP!Free(n, c) /\ WP!Sending(n, c)' = WP!Sending(n, c)
        /\ accepted'[n][c] = accepted[n][c] /\ failed'[n][c] = failed[n][c]
    BY <1>2 DEF Aside, WP!Free, WP!Sending, WP!Recording, WP!PastGate, WP!Running, WP!Channel
  <2>2. /\ WP!Cardinality(WP!Free(n, c)) \in Nat /\ WP!Cardinality(WP!Sending(n, c)) \in Nat
    <3>1. WP!Free(n, c) \in SUBSET Workers /\ WP!Sending(n, c) \in SUBSET Workers
      BY DEF WP!Free, WP!Sending, WP!PastGate, WP!Running
    <3> QED
      BY <3>1, WorkAssumed, WP!CardinalityMonotone
  <2>3. /\ accepted[n][c] \in Nat /\ failed[n][c] \in Nat /\ queue[n] \in Nat
        /\ messages[n] \in Nat /\ MAX_RETRIES_PER_CHANNEL \in Nat
    BY ServiceAssumption DEF Working, WP!Typed, WP!TypeOK, WP!Counter
  <2>4. messages'[n] \in Nat
    <3>1. Working'
      BY WorkingStep, DispatchingStep DEF Working
    <3> QED
      BY <3>1 DEF Working, WP!Typed, WP!TypeOK
  <2>5. /\ queue'[n] = queue[n] + (messages'[n] - messages[n]) /\ messages'[n] >= messages[n]
    BY <1>2 DEF Aside
  <2>6. /\ accepted[n][c] + queue[n] + WP!Cardinality(WP!Free(n, c)) <= messages[n] + failed[n][c]
        /\ accepted[n][c] + WP!Cardinality(WP!Sending(n, c))
             <= MAX_RETRIES_PER_CHANNEL - 1 + messages[n]
    BY DEF Delivering, WP!FreeBound, WP!SendBound
  <2>7. /\ accepted[n][c] + queue'[n] + WP!Cardinality(WP!Free(n, c)) <= messages'[n] + failed[n][c]
        /\ accepted[n][c] + WP!Cardinality(WP!Sending(n, c))
             <= MAX_RETRIES_PER_CHANNEL - 1 + messages'[n]
    BY <2>2, <2>3, <2>4, <2>5, <2>6
  <2> QED
    BY <2>1, <2>7
<1> QED
  BY <1>1, <1>2, WorkStep

(* A user receives a notification at most MAX_RETRIES_PER_CHANNEL times on *)
(* a channel, and once more for each fault of a dispatcher: the bound of   *)
(* the workers in the number of messages, and that of the dispatchers on   *)
(* the messages, hold of the two together.                                 *)
THEOREM InboxCorrect == Spec => []InboxBound
<1>1. Working /\ Delivering => InboxBound
  <2> SUFFICES ASSUME Working, Delivering, NEW n \in Rows, NEW c \in Channels
               PROVE  accepted[n][c] <= MAX_RETRIES_PER_CHANNEL + ambiguous[n] + unrecorded[n]
    BY DEF InboxBound
  <2>1. accepted[n][c] <= MAX_RETRIES_PER_CHANNEL - 1 + messages[n]
    BY WorkAssumed, WP!ReceivedBound DEF Working, Delivering, WP!AcceptedBound
  <2>2. /\ n \in DP!Rows /\ messages[n] \in Nat /\ ambiguous[n] \in Nat /\ unrecorded[n] \in Nat
    BY DEF Rows, DP!Rows, Working, Dispatching, DP!Typed, DP!TypeOK, DP!Counter
  <2>3. messages[n] <= 1 + ambiguous[n] + unrecorded[n]
    BY <2>2 DEF Working, Dispatching, DP!Excused
  <2>4. accepted[n][c] \in Nat /\ MAX_RETRIES_PER_CHANNEL \in Nat
    BY ServiceAssumption DEF Working, WP!Typed, WP!TypeOK, WP!Counter
  <2> QED
    BY <2>1, <2>2, <2>3, <2>4
<1> QED
  BY <1>1, WorkingInvariant, DeliveringInit, DeliveringStep, PTL DEF Spec

(* A published row has its message, and a message leaves an outcome,       *)
(* another message or an execution behind, as long as no execution is lost *)
(* and no form is saved over it.                                           *)
Remembered ==
  /\ DP!HasMessage /\ DP!Handed
  /\ \A n \in Rows : taskFaults = 0 /\ saves[n] = 0 => WP!Kept(n)

LEMMA RememberedInit == Init => Remembered
<1>1. Init => DP!HasMessage /\ DP!Handed
  BY DEF Init, Disp!Init, Disp!None, Disp!Rows, DP!HasMessage, DP!Handed, DP!Rows
<1>2. Init => \A n \in Rows : messages[n] = 0
  BY DEF Init, Work!Init
<1> QED
  BY <1>1, <1>2 DEF Remembered, WP!Kept

LEMMA RememberedStep == Working /\ Remembered /\ [Next]_vars => Remembered'
<1> SUFFICES ASSUME Working, Remembered, [Next]_vars PROVE Remembered'
  OBVIOUS
<1>1. DP!HasMessage' /\ DP!Handed'
  BY DispatchStep, DispAssumed, DP!HasMessageStep, DP!HandedStep
  DEF Working, Dispatching, Remembered
<1>2. ASSUME NEW n \in Rows, taskFaults' = 0, saves'[n] = 0 PROVE WP!Kept(n)'
  <2>t. /\ taskFaults \in Nat /\ saves[n] \in Nat /\ queue[n] \in Nat /\ messages[n] \in Nat
    BY DEF Working, WP!Typed, WP!TypeOK, Forms
  <2>1. CASE WP!Next /\ UNCHANGED <<messages, forms>>
    <3>1. taskFaults' \in {taskFaults, taskFaults + 1}
      BY <2>1 DEF WP!Next, WP!Publish, WP!Load, WP!Execute, WP!MarkProcessing,
         WP!ScanChannel, WP!CountAttempts, WP!CallProvider, WP!RecordSuccess,
         WP!RecordFailure, WP!ScheduleRetry, WP!MarkFailed, WP!LoseTask
    <3>2. taskFaults = 0 /\ saves[n] = 0
      BY <1>2, <2>t, <2>1, <3>1 DEF forms
    <3>3. WP!Kept(n)
      BY <3>2 DEF Remembered
    <3> QED
      BY <1>2, <2>1, <3>3, WorkAssumed, WP!KeptStep DEF Working
  <2>2. CASE Aside
    <3>1. /\ taskFaults = 0 /\ status'[n] = status[n] /\ messages'[n] >= messages[n]
          /\ queue'[n] = queue[n] + (messages'[n] - messages[n])
          /\ saves'[n] >= saves[n] /\ WP!Running(n)' = WP!Running(n)
      BY <1>2, <2>2 DEF Aside, WP!Running
    <3>2. WP!Kept(n)
      BY <1>2, <2>t, <3>1 DEF Remembered
    <3>3. messages'[n] \in Nat
      <4>1. Working'
        BY WorkingStep, DispatchingStep DEF Working
      <4> QED
        BY <4>1 DEF Working, WP!Typed, WP!TypeOK
    <3>4. CASE messages[n] = 0
      <4>1. messages'[n] > 0 => queue'[n] > 0
        BY <2>t, <3>1, <3>3, <3>4
      <4> QED
        BY <4>1 DEF WP!Kept
    <3>5. CASE messages[n] > 0
      <4>1. queue[n] > 0 => queue'[n] > 0
        BY <2>t, <3>1, <3>3
      <4> QED
        BY <3>1, <3>2, <3>5, <4>1 DEF WP!Kept
    <3> QED
      BY <2>t, <3>4, <3>5
  <2> QED
    BY <2>1, <2>2, WorkStep
<1> QED
  BY <1>1, <1>2 DEF Remembered

(* No committed notification is lost between the parts, for any rows,      *)
(* dispatchers and workers: the safety part of EndToEnd.                   *)
THEOREM ForgottenCorrect == Spec => []NothingForgotten
<1>1. Working /\ Remembered => NothingForgotten
  <2> SUFFICES ASSUME Working, Remembered, NEW n \in Rows, outbox[n] # "none"
               PROVE  \/ n \in Disp!Unpublished
                      \/ status[n] \in Work!Terminal \/ queue[n] > 0 \/ Work!Running(n) # {}
                      \/ taskFaults > 0 \/ saves[n] > 0
    BY DEF NothingForgotten
  <2>1. CASE outbox[n] # "published"
    BY <2>1 DEF Rows, DP!Rows, Disp!Unpublished, Disp!Rows, Working, Dispatching, DP!Typed,
       DP!TypeOK, DP!Status
  <2>2. CASE taskFaults # 0 \/ saves[n] # 0
    <3>1. taskFaults \in Nat /\ saves[n] \in Nat
      BY DEF Working, WP!Typed, WP!TypeOK, Forms
    <3> QED
      BY <2>2, <3>1
  <2>3. CASE outbox[n] = "published" /\ taskFaults = 0 /\ saves[n] = 0
    <3>1. messages[n] > 0 /\ WP!Kept(n)
      BY <2>3 DEF Remembered, DP!Handed, Rows, DP!Rows
    <3> QED
      BY <3>1 DEF WP!Kept, WP!Terminal, Work!Terminal, WP!Running, Work!Running
  <2> QED
    BY <2>1, <2>2, <2>3
<1> QED
  BY <1>1, WorkingInvariant, RememberedInit, RememberedStep, PTL DEF Spec

-----------------------------------------------------------------------------
(* What the workers were proved to do on their own, they do here, where    *)
(* messages come from the dispatchers and forms write the status.          *)
Justified(n, s) ==
  /\ s = "sent" => WP!Delivered(n)
  /\ s = "failed" =>
       \E chs \in Priorities[n] : \A i \in 1 .. Len(chs) : WP!Exhausted(n, chs[i])

Caused ==
  \A n \in Rows : ~edited[n] => \A s : s \in {status[n], form[n]} => Justified(n, s)

Alongside == WP!LeftBehind /\ WP!GateBound /\ WP!AcceptedIsAudited /\ Caused

LEMMA AlongsideInit == Init => Alongside
<1>1. Init => WP!Init
  BY DEF Init, Work!Init, WP!Init, Work!Idle, WP!Idle, Work!Begin, WP!Begin
<1>2. Init => Caused
  BY DEF Init, Work!Init, Caused, Justified
<1> QED
  BY <1>1, <1>2, WorkAssumed, WP!BehindInit, WP!MessageInit, WP!AuditedInit DEF Alongside

LEMMA JustifiedStable ==
  ASSUME WP!AuditGrows, NEW n \in Rows, NEW s, Justified(n, s)
  PROVE  Justified(n, s)'
<1>1. ASSUME s = "sent" PROVE WP!Delivered(n)'
  BY <1>1 DEF Justified, WP!Delivered, WP!AuditGrows
<1>2. ASSUME NEW chs \in Priorities[n], \A i \in 1 .. Len(chs) : WP!Exhausted(n, chs[i])
      PROVE  \A i \in 1 .. Len(chs) : WP!Exhausted(n, chs[i])'
  <2>1. chs \in Seq(Channels)
    BY ServiceAssumption DEF Rows
  <2>2. \A i \in 1 .. Len(chs) : chs[i] \in Channels
    BY <2>1
  <2> QED
    BY <1>2, <2>2, WorkAssumed, WP!ExhaustedStable
<1> QED
  BY <1>1, <1>2 DEF Justified

LEMMA CausedStep ==
  ASSUME Working, WP!LeftBehind, Caused, [Next]_vars, WP!AuditGrows PROVE Caused'
<1> SUFFICES ASSUME NEW n \in Rows, ~edited'[n], NEW s, s \in {status'[n], form'[n]}
             PROVE  Justified(n, s)'
  BY DEF Caused
<1>0. ~edited[n]
  <2>1. UNCHANGED forms \/ (edited[n] => edited'[n])
    BY WorkStep DEF Aside
  <2> QED
    BY <2>1 DEF forms
<1>1. CASE s \in {status[n], form[n]}
  BY <1>0, <1>1, JustifiedStable DEF Caused
<1>2. CASE s \notin {status[n], form[n]}
  <2>1. CASE WP!Next /\ UNCHANGED forms
    <3>1. WP!HasCause(n)
      BY <1>0 DEF Caused, Justified, WP!HasCause
    <3>2. WP!HasCause(n)'
      BY <2>1, <3>1, WorkAssumed, WP!HasCauseStep DEF Working
    <3> QED
      BY <1>2, <2>1, <3>2 DEF forms, WP!HasCause, Justified
  <2>2. CASE Aside
    BY <1>2, <2>2 DEF Aside, Justified
  <2> QED
    BY <2>1, <2>2, WorkStep
<1> QED
  BY <1>1, <1>2

LEMMA AlongsideStep == Working /\ Bound /\ Alongside /\ [Next]_vars => Alongside'
<1> SUFFICES ASSUME Working, Bound, Alongside, [Next]_vars PROVE Alongside'
  OBVIOUS
<1>1. CASE WP!Next
  <2>1. WP!LeftBehind' /\ WP!GateBound' /\ WP!AcceptedIsAudited' /\ WP!AuditGrows
    BY <1>1, WorkAssumed, WP!BehindStep, WP!GateStep, WP!AuditedStep, WP!AuditStep
    DEF Working, Bound, Alongside
  <2> QED
    BY <2>1, CausedStep DEF Alongside
<1>2. CASE Aside
  <2>1. WP!LeftBehind' /\ WP!AcceptedIsAudited'
    BY <1>2 DEF Aside, Alongside, WP!LeftBehind, WP!Behind, WP!Exhausted, WP!Channel,
       WP!AcceptedIsAudited, WP!Recording, WP!PastGate, WP!Running
  <2>2. WP!GateBound'
    <3> SUFFICES ASSUME NEW n \in Rows, NEW c \in Channels
                 PROVE  (failed[n][c] + WP!Cardinality(WP!PastGate(n, c))
                           <= MAX_RETRIES_PER_CHANNEL - 1 + messages[n])'
      BY DEF WP!GateBound
    <3>1. failed'[n][c] = failed[n][c] /\ WP!PastGate(n, c)' = WP!PastGate(n, c)
          /\ messages'[n] >= messages[n]
      BY <1>2 DEF Aside, WP!PastGate, WP!Running, WP!Channel
    <3>2. WP!PastGate(n, c) \in SUBSET Workers
      BY DEF WP!PastGate, WP!Running
    <3>3. WP!Cardinality(WP!PastGate(n, c)) \in Nat
      BY <3>2, WorkAssumed, WP!CardinalityMonotone
    <3>4. /\ failed[n][c] \in Nat /\ MAX_RETRIES_PER_CHANNEL \in Nat /\ messages[n] \in Nat
      BY ServiceAssumption DEF Working, WP!Typed, WP!TypeOK, WP!Counter
    <3>5. messages'[n] \in Nat
      <4>1. Working'
        BY WorkingStep, DispatchingStep DEF Working
      <4> QED
        BY <4>1 DEF Working, WP!Typed, WP!TypeOK
    <3>6. failed[n][c] + WP!Cardinality(WP!PastGate(n, c))
            <= MAX_RETRIES_PER_CHANNEL - 1 + messages[n]
      BY DEF Alongside, WP!GateBound
    <3>7. failed[n][c] + WP!Cardinality(WP!PastGate(n, c))
            <= MAX_RETRIES_PER_CHANNEL - 1 + messages'[n]
      BY <3>1, <3>3, <3>4, <3>5, <3>6
    <3> QED
      BY <3>1, <3>7
  <2>3. WP!AuditGrows
    BY <1>2 DEF Aside, WP!AuditGrows, Working, WP!Typed, WP!TypeOK, WP!Counter
  <2> QED
    BY <2>1, <2>2, <2>3, CausedStep DEF Alongside
<1> QED
  BY <1>1, <1>2, WorkStep

LEMMA AlongsideInvariant == Spec => [](Working /\ Alongside)
<1>1. Init => Working
  BY WorkingInit, DispatchingInit DEF Working
<1>2. Working /\ [Next]_vars => Working'
  BY WorkingStep, DispatchingStep DEF Working
<1> QED
  BY <1>1, <1>2, BoundInit, BoundStep, AlongsideInit, AlongsideStep, PTL DEF Spec

(* The retry limit, the fallback order and the audit trail of the workers  *)
(* hold of the service: no provider is called out of turn, no channel gets *)
(* more attempts than its limit and the further messages allow, and no     *)
(* message a provider took goes unaudited but for an execution lost or     *)
(* about to write its row, whatever dispatchers and forms do.              *)
THEOREM WorkersKeepTheirWord ==
  Spec => [](WP!AttemptBound /\ WP!FallbackOrder /\ WP!AcceptedIsAudited)
<1>1. Working /\ Alongside => WP!AttemptBound
  <2> SUFFICES ASSUME Working, Alongside, NEW n \in Rows, NEW c \in Channels
               PROVE  failed[n][c] <= MAX_RETRIES_PER_CHANNEL - 1 + messages[n]
    BY DEF WP!AttemptBound
  <2>1. WP!PastGate(n, c) \in SUBSET Workers
    BY DEF WP!PastGate, WP!Running
  <2>2. WP!Cardinality(WP!PastGate(n, c)) \in Nat
    BY <2>1, WorkAssumed, WP!CardinalityMonotone
  <2>3. failed[n][c] \in Nat /\ messages[n] \in Nat /\ MAX_RETRIES_PER_CHANNEL \in Nat
    BY ServiceAssumption DEF Working, WP!Typed, WP!TypeOK, WP!Counter
  <2> QED
    BY <2>2, <2>3 DEF Alongside, WP!GateBound
<1>2. Alongside => WP!FallbackOrder /\ WP!AcceptedIsAudited
  BY DEF Alongside, WP!LeftBehind, WP!Behind, WP!FallbackOrder
<1> QED
  BY <1>1, <1>2, AlongsideInvariant, PTL

(* A form can bring back an old status, over what a worker has written     *)
(* since; unless an operator picks the status himself, SENT still has a    *)
(* successful attempt behind it and FAILED a priority list with nothing    *)
(* left to try.                                                            *)
THEOREM CauseSurvivesForms == Spec => []CauseSurvives
<1>1. Alongside => CauseSurvives
  BY DEF Alongside, Caused, Justified, CauseSurvives, Work!HasCause, Work!Delivered,
     WP!Delivered, Work!Exhausted, WP!Exhausted
<1> QED
  BY <1>1, AlongsideInvariant, PTL

(* The dispatchers keep theirs among the workers, the forms and the        *)
(* scrapes: one holder per row, an attempt counted for every message, a    *)
(* published row left alone, and the safety part of the promise of the     *)
(* outbox.                                                                 *)
THEOREM DispatchersKeepTheirWord ==
  Spec => /\ [](DP!OneHolder /\ DP!AttemptsCounted)
          /\ DP!PublishedIsFinal /\ DP!Promise!Safety
<1>1. Init => DP!Init
  BY DEF Init, Disp!Init, DP!Init, Disp!None, DP!None, Disp!Rows, DP!Rows
<1>2. Init => DP!Typed /\ DP!Locking /\ DP!AttemptsCounted /\ DP!HasMessage /\ DP!Promise!Init
  BY <1>1, DispAssumed, DP!TypedInit, DP!LockingInit, DP!CountedInit, DP!HasMessageInit,
     DP!PromiseInit
<1>3. DP!Typed /\ DP!Locking /\ DP!AttemptsCounted /\ DP!HasMessage /\ [Next]_vars
        => /\ DP!Typed' /\ DP!Locking' /\ DP!AttemptsCounted' /\ DP!HasMessage'
           /\ [DP!Promise!Next]_(DP!Promise!vars) /\ [DP!Next]_(DP!vars)
  BY DispatchStep, DispAssumed, DP!TypedStep, DP!LockingStep, DP!CountedStep,
     DP!HasMessageStep, DP!PromiseStep
<1>4. DP!Locking => DP!OneHolder
  BY DEF DP!Locking
<1>5. DP!Typed /\ DP!Locking /\ [DP!Next]_(DP!vars) => [DP!LeavesPublished]_(DP!vars)
  <2> SUFFICES ASSUME DP!Typed, DP!Locking, [DP!Next]_(DP!vars),
                      NEW r \in DP!Rows, outbox[r] = "published"
               PROVE  ~DP!Touches(r)
    BY DEF DP!LeavesPublished, DP!Touches
  <2> QED
    BY DispAssumed, DP!OnlyHolderTouches DEF DP!Locking, DP!HeldIsDue
<1> QED
  BY <1>2, <1>3, <1>4, <1>5, PTL DEF Spec, DP!PublishedIsFinal, DP!Promise!Safety

-----------------------------------------------------------------------------
(* The scrape. What a backlog row can be, by the number of queries made: a *)
(* row no query has counted yet was seen in another status than the one it *)
(* asked for, and rows only move on.                                       *)
Uncounted(r) == r \notin counted["pending"] \cup counted["failed"]

Gauged ==
  /\ Gauge!TypeOK
  /\ asked = 0 => backlog = {}
  /\ \A r \in backlog : outbox[r] # "none"
  /\ asked \in {1, 2} =>
       \A r \in backlog \ counted["pending"] : outbox[r] \in {"failed", "published"}
  /\ asked \in {3, 4} =>
       \A r \in backlog : Uncounted(r) => outbox[r] = "published"
  /\ asked = 4 =>
       \A r \in backlog : outbox[r] = "published" \/ oldest \in 1 .. r

LEMMA GaugedInit == Init => Gauged
BY DEF Init, Gauge!Init, Gauge!Unasked, Gauged, Gauge!TypeOK

LEMMA GaugedStep == Working /\ Gauged /\ [Next]_vars => Gauged'
<1> SUFFICES ASSUME Working, Gauged, [Next]_vars PROVE Gauged'
  OBVIOUS
<1>t. /\ asked \in 0 .. 4 /\ backlog \in SUBSET Rows /\ oldest \in Rows \cup {0}
      /\ counted \in [{"pending", "failed"} -> SUBSET Rows]
  BY DEF Gauged, Gauge!TypeOK
<1>o. outbox \in [Rows -> {"none", "pending", "published", "failed"}]
  BY DEF Rows, DP!Rows, Working, Dispatching, DP!Typed, DP!TypeOK, DP!Status
<1>0. ASSUME UNCHANGED scraping PROVE Gauged'
  BY <1>0, <1>t, RowsMove DEF scraping, Gauged, Gauge!TypeOK, Uncounted
<1>1. ASSUME Gauge!CountRows PROVE Gauged'
  <2>1. /\ asked < 3 /\ asked' = asked + 1 /\ UNCHANGED <<outbox, oldest>>
        /\ counted' = [s \in {"pending", "failed"} |->
                         IF s = Gauge!Values[asked + 1] THEN {r \in Rows : outbox[r] = s}
                                                        ELSE counted[s]]
        /\ backlog' = IF asked = 0 THEN Gauge!Waiting ELSE backlog
    BY <1>1, <1>t DEF Gauge!CountRows
  <2>2. CASE asked = 0
    <3>1. Gauge!Values[asked + 1] = "pending"
      BY <2>2 DEF Gauge!Values
    <3>2. /\ asked' = 1 /\ backlog' = Gauge!Waiting
          /\ counted'["pending"] = {r \in Rows : outbox[r] = "pending"}
          /\ counted' \in [{"pending", "failed"} -> SUBSET Rows]
      BY <1>t, <2>1, <2>2, <3>1
    <3> QED
      BY <1>t, <2>1, <3>2 DEF Gauged, Gauge!TypeOK, Gauge!Waiting
  <2>3. CASE asked = 1
    <3>1. Gauge!Values[asked + 1] = "published"
      BY <2>3 DEF Gauge!Values
    <3>2. /\ asked' = 2 /\ backlog' = backlog
          /\ counted'["pending"] = counted["pending"]
          /\ counted' \in [{"pending", "failed"} -> SUBSET Rows]
      BY <1>t, <2>1, <2>3, <3>1
    <3> QED
      BY <1>t, <2>1, <2>3, <3>2 DEF Gauged, Gauge!TypeOK
  <2>4. CASE asked = 2
    <3>1. Gauge!Values[asked + 1] = "failed"
      BY <2>4 DEF Gauge!Values
    <3>2. /\ asked' = 3 /\ backlog' = backlog
          /\ counted'["pending"] = counted["pending"]
          /\ counted'["failed"] = {r \in Rows : outbox[r] = "failed"}
          /\ counted' \in [{"pending", "failed"} -> SUBSET Rows]
      BY <1>t, <2>1, <2>4, <3>1
    <3> QED
      BY <1>t, <2>1, <2>4, <3>2 DEF Gauged, Gauge!TypeOK, Uncounted
  <2> QED
    BY <1>t, <2>1, <2>2, <2>3, <2>4
<1>2. ASSUME Gauge!FindOldest PROVE Gauged'
  <2>1. /\ asked = 3 /\ asked' = 4 /\ UNCHANGED <<outbox, counted, backlog>>
        /\ oldest' = IF Gauge!Waiting = {} THEN 0
                     ELSE CHOOSE r \in Gauge!Waiting : \A q \in Gauge!Waiting : r <= q
    BY <1>2 DEF Gauge!FindOldest
  <2>2. Gauge!Waiting \in SUBSET Rows /\ Rows \in SUBSET Nat /\ 0 \notin Rows
    BY DEF Gauge!Waiting, Rows
  <2>3. ASSUME Gauge!Waiting # {}
        PROVE  oldest' \in Gauge!Waiting /\ \A q \in Gauge!Waiting : oldest' <= q
    <3>1. \E r \in Gauge!Waiting : \A q \in Gauge!Waiting : r <= q
      BY <2>2, <2>3, DispAssumed, DP!SmallestOfSet
    <3> QED
      BY <2>1, <2>3, <3>1
  <2>4. oldest' \in Rows \cup {0}
    BY <2>1, <2>2, <2>3
  <2>5. \A r \in backlog : outbox[r] = "published" \/ oldest' \in 1 .. r
    <3> SUFFICES ASSUME NEW r \in backlog, outbox[r] # "published" PROVE oldest' \in 1 .. r
      OBVIOUS
    <3>1. r \in Gauge!Waiting
      BY <1>t, <1>o DEF Gauge!Waiting, Gauged
    <3>2. oldest' \in Rows /\ r \in Rows /\ oldest' <= r
      BY <2>2, <2>3, <3>1
    <3> QED
      BY <3>2, ServiceAssumption DEF Rows
  <2> QED
    BY <1>t, <2>1, <2>4, <2>5 DEF Gauged, Gauge!TypeOK, Uncounted
<1>r. ASSUME Gauge!Render PROVE Gauged'
  BY <1>r DEF Gauge!Render, Gauge!Unasked, Gauged, Gauge!TypeOK
<1>3. CASE Scrape
  BY <1>1, <1>2, <1>r, <1>3 DEF Scrape, Gauge!Scrape
<1>4. ASSUME NEW r \in Rows, Enqueue(r) \/ OpenForm(r) \/ SaveForm(r) PROVE Gauged'
  BY <1>0, <1>4 DEF Enqueue, OpenForm, SaveForm
<1>5. ASSUME NEW d \in Dispatchers, Send(d) \/ Dispatch(d) PROVE Gauged'
  BY <1>0, <1>5 DEF Send, Dispatch
<1>6. ASSUME NEW w \in Workers, Execute(w) \/ LoseTask(w) PROVE Gauged'
  BY <1>0, <1>6 DEF Execute, LoseTask
<1>7. ASSUME NEW w \in Workers, NEW n \in Rows, Take(w, n) PROVE Gauged'
  BY <1>0, <1>7 DEF Take
<1>8. CASE UNCHANGED vars
  BY <1>0, <1>8 DEF vars
<1> QED
  BY <1>3, <1>4, <1>5, <1>6, <1>7, <1>8 DEF Next

(* The scrape misses no row of the backlog, for any number of rows and     *)
(* however the dispatchers move them between its queries.                  *)
THEOREM BacklogCorrect == Spec => []BacklogIsSeen
<1>1. Gauged => BacklogIsSeen
  <2> SUFFICES ASSUME Gauged, asked = 4, NEW r \in backlog \cap Gauge!Waiting
               PROVE  /\ r \in counted["pending"] \cup counted["failed"]
                      /\ oldest \in 1 .. r
    BY DEF BacklogIsSeen, Gauge!BacklogIsSeen
  <2>1. outbox[r] # "published"
    BY DEF Gauge!Waiting
  <2> QED
    BY <2>1 DEF Gauged, Uncounted
<1> QED
  BY <1>1, WorkingInvariant, GaugedInit, GaugedStep, PTL DEF Spec

(* The service is well typed: what each component knows of its own state   *)
(* survives the steps of the others.                                       *)
THEOREM TypeCorrect == Spec => []TypeOK
<1>1. Working /\ Gauged => TypeOK
  <2> SUFFICES ASSUME Working, Gauged PROVE TypeOK
    OBVIOUS
  <2>1. Disp!TypeOK
    BY DEF Working, Dispatching, DP!Typed, Disp!TypeOK, DP!TypeOK, Disp!Counter, DP!Counter,
       Disp!Status, DP!Status, Disp!Step, DP!Step, Disp!Rows, DP!Rows
  <2>2. Work!TypeOK
    BY DEF Working, WP!Typed, Work!TypeOK, WP!TypeOK, Work!Status, WP!Status,
       Work!Counter, WP!Counter, Work!Execution, WP!Execution, Work!Outcome, WP!Outcome,
       Work!Step, WP!Step
  <2> QED
    BY <2>1, <2>2 DEF Working, Gauged, Forms, TypeOK, Work!Status, WP!Status
<1> QED
  BY <1>1, WorkingInvariant, GaugedInit, GaugedStep, PTL DEF Spec
=============================================================================
