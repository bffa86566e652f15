-------------------------- MODULE Delivery_proofs --------------------------
(* Theorems about Delivery, for any notifications, workers, channels and   *)
(* retry limit.                                                            *)
EXTENDS Delivery, FiniteSetTheorems, TLAPS

(* What the program counter of an execution says of the rest of it.        *)
TaskOK ==
  \A w \in Workers :
    /\ task[w].step = "idle" => task[w] = Idle
    /\ task[w].step # "idle" => /\ task[w].notif \in Notifications
                                /\ task[w].channels \in Priorities[task[w].notif]
    /\ task[w].step \in {"count", "send", "record", "retry"} => ~AtEnd(w)
    /\ task[w].step = "record" => task[w].outcome \in Outcome

Typed == TypeOK /\ TaskOK

LEMMA TallyType ==
  ASSUME NEW counter \in Counter, NEW n \in Notifications, NEW c \in Channels
  PROVE  /\ Tally(counter, n, c) \in Counter
         /\ Tally(counter, n, c)[n][c] = counter[n][c] + 1
         /\ \A m \in Notifications, d \in Channels :
              Tally(counter, n, c)[m][d] >= counter[m][d]
BY DEF Tally, Counter

LEMMA ChannelType ==
  ASSUME Typed, NEW w \in Workers, task[w].step \in {"count", "send", "record", "retry"}
  PROVE  task[w].notif \in Notifications /\ Channel(w) \in Channels
<1>1. /\ task[w].channels \in Seq(Channels) /\ task[w].pos \in Nat \ {0}
      /\ task[w].notif \in Notifications
  BY DEF Typed, TypeOK, TaskOK, Execution
<1>2. task[w].pos <= Len(task[w].channels)
  BY <1>1, SMT DEF Typed, TaskOK, AtEnd
<1>. QED
  BY <1>1, <1>2, SMT DEF Channel

LEMMA TypedInit == Init => Typed
<1>. SUFFICES ASSUME Init PROVE Typed
  OBVIOUS
<1>1. Idle \in Execution
  BY DEF Idle, Begin, Step, Execution
<1>2. TypeOK
  BY <1>1 DEF Init, TypeOK, Status, Counter, Execution
<1>3. TaskOK
  BY <1>1 DEF Init, TaskOK, Idle, Begin
<1>. QED
  BY <1>2, <1>3 DEF Typed

(* A step that changes nothing but the executions of one worker keeps the   *)
(* type of all of them if it keeps that one's.                              *)
LEMMA TaskStep ==
  ASSUME Typed, NEW w \in Workers, NEW t \in Execution,
         task' = [task EXCEPT ![w] = t],
         t.step = "idle" => t = Idle,
         t.step # "idle" => t.notif \in Notifications /\ t.channels \in Priorities[t.notif],
         t.step \in {"count", "send", "record", "retry"} => ~(t.pos > Len(t.channels)),
         t.step = "record" => t.outcome \in Outcome
  PROVE  task' \in [Workers -> Execution] /\ TaskOK'
BY DEF Typed, TypeOK, TaskOK, AtEnd, Execution

(* The fields of an execution after each way a step moves it.              *)
LEMMA BeginFields ==
  ASSUME NEW n \in Notifications \cup {NoNotification}, NEW chs \in Seq(Channels),
         NEW s \in Step
  PROVE  LET u == Begin(n, chs, s) IN
         /\ u \in Execution /\ u.step = s
         /\ u.notif = n /\ u.channels = chs /\ u.pos = 1
BY DEF Execution, Begin

LEMMA GotoFields ==
  ASSUME NEW t \in Execution, NEW s \in Step
  PROVE  LET u == Goto(t, s) IN
         /\ u \in Execution /\ u.step = s
         /\ u.notif = t.notif /\ u.channels = t.channels /\ u.pos = t.pos
         /\ u.tried = t.tried /\ u.outcome = t.outcome
BY DEF Execution, Goto

LEMMA NextChannelFields ==
  ASSUME NEW t \in Execution
  PROVE  LET u == NextChannel(t) IN
         /\ u \in Execution /\ u.step = "scan"
         /\ u.notif = t.notif /\ u.channels = t.channels /\ u.pos = t.pos + 1
BY DEF Execution, NextChannel, Begin, Step

LEMMA CalledFields ==
  ASSUME NEW t \in Execution, NEW o \in Outcome
  PROVE  LET u == Goto([t EXCEPT !.outcome = o], "record") IN
         /\ u \in Execution /\ u.step = "record" /\ u.outcome = o
         /\ u.notif = t.notif /\ u.channels = t.channels /\ u.pos = t.pos
         /\ u.tried = t.tried
<1>. DEFINE v == [t EXCEPT !.outcome = o]
<1>1. /\ v \in Execution /\ v.outcome = o /\ v.tried = t.tried
      /\ v.notif = t.notif /\ v.channels = t.channels /\ v.pos = t.pos
  BY DEF Execution
<1>. HIDE DEF v
<1>2. "record" \in Step
  BY DEF Step
<1>. QED
  BY <1>1, <1>2, GotoFields DEF v

LEMMA CountedFields ==
  ASSUME NEW t \in Execution, NEW k \in Nat
  PROVE  LET u == Goto([t EXCEPT !.tried = k], "send") IN
         /\ u \in Execution /\ u.step = "send" /\ u.tried = k
         /\ u.notif = t.notif /\ u.channels = t.channels /\ u.pos = t.pos
<1>. DEFINE v == [t EXCEPT !.tried = k]
<1>1. /\ v \in Execution /\ v.tried = k
      /\ v.notif = t.notif /\ v.channels = t.channels /\ v.pos = t.pos
  BY DEF Execution
<1>. HIDE DEF v
<1>2. "send" \in Step
  BY DEF Step
<1>. QED
  BY <1>1, <1>2, GotoFields DEF v

LEMMA IdleFields ==
  Idle \in Execution /\ Idle.step = "idle" /\ Idle.notif = NoNotification /\ Idle.pos = 1
BY DEF Idle, Begin, Execution, Step

-----------------------------------------------------------------------------
(* What the actions of a worker do to its execution, in terms of fields.    *)

Moves(w, u) ==
  /\ u \in Execution
  /\ task' = [task EXCEPT ![w] = u]
  /\ u.notif = task[w].notif /\ u.channels = task[w].channels

LEMMA MarkProcessingMoves ==
  ASSUME Typed, NEW w \in Workers, MarkProcessing(w)
  PROVE  \E u : Moves(w, u) /\ u.step = "scan" /\ u.pos = task[w].pos
<1>1. task[w] \in Execution /\ "scan" \in Step
  BY DEF Typed, TypeOK, Step
<1>. QED
  <2>. DEFINE u == Goto(task[w], "scan")
  <2>1. /\ u \in Execution /\ u.step = "scan" /\ u.pos = task[w].pos
        /\ u.notif = task[w].notif /\ u.channels = task[w].channels
    BY <1>1, GotoFields
  <2>2. task' = [task EXCEPT ![w] = u]
    BY DEF MarkProcessing
  <2>. QED
    BY <2>1, <2>2 DEF Moves

LEMMA ScanChannelMoves ==
  ASSUME Typed, NEW w \in Workers, ScanChannel(w)
  PROVE  /\ ~AtEnd(w)
         /\ \E u : /\ Moves(w, u)
                   /\ \/ /\ u.step = "scan" /\ u.pos = task[w].pos + 1
                         /\ succeeded[task[w].notif][Channel(w)] > 0
                      \/ u.step = "count" /\ u.pos = task[w].pos
<1>1. task[w] \in Execution /\ "count" \in Step
  BY DEF Typed, TypeOK, Step
<1>2. CASE succeeded[task[w].notif][Channel(w)] > 0
  BY <1>1, <1>2, NextChannelFields DEF ScanChannel, Moves
<1>3. CASE ~(succeeded[task[w].notif][Channel(w)] > 0)
  <2>. DEFINE u == Goto(task[w], "count")
  <2>1. /\ u \in Execution /\ u.step = "count" /\ u.pos = task[w].pos
        /\ u.notif = task[w].notif /\ u.channels = task[w].channels
    BY <1>1, GotoFields
  <2>2. task' = [task EXCEPT ![w] = u]
    BY <1>3 DEF ScanChannel
  <2>. QED
    BY <2>1, <2>2 DEF Moves, ScanChannel
<1>. QED
  BY <1>2, <1>3 DEF ScanChannel

LEMMA CountAttemptsMoves ==
  ASSUME Typed, NEW w \in Workers, CountAttempts(w)
  PROVE  \E u : /\ Moves(w, u)
                /\ \/ /\ u.step = "scan" /\ u.pos = task[w].pos + 1
                      /\ failed[task[w].notif][Channel(w)] >= MAX_RETRIES_PER_CHANNEL
                   \/ /\ u.step = "send" /\ u.pos = task[w].pos
                      /\ u.tried = failed[task[w].notif][Channel(w)]
                      /\ u.tried < MAX_RETRIES_PER_CHANNEL
<1>. DEFINE n == task[w].notif  c == Channel(w)
<1>1. /\ task[w] \in Execution /\ task[w].step = "count"
      /\ MAX_RETRIES_PER_CHANNEL \in Nat
  BY DeliveryAssumption DEF Typed, TypeOK, CountAttempts
<1>2. failed[n][c] \in Nat
  BY <1>1, ChannelType DEF Typed, TypeOK, Counter
<1>3. CASE LimitReached(n, c)
  BY <1>1, <1>3, NextChannelFields DEF CountAttempts, Moves, LimitReached
<1>4. CASE ~LimitReached(n, c)
  <2>1. failed[n][c] < MAX_RETRIES_PER_CHANNEL
    BY <1>1, <1>2, <1>4 DEF LimitReached
  <2>. QED
    <3>. DEFINE u == Goto([task[w] EXCEPT !.tried = failed[n][c]], "send")
    <3>1. /\ u \in Execution /\ u.step = "send" /\ u.pos = task[w].pos
          /\ u.notif = task[w].notif /\ u.channels = task[w].channels
          /\ u.tried = failed[n][c]
      BY <1>1, <1>2, CountedFields
    <3>2. task' = [task EXCEPT ![w] = u]
      BY <1>4 DEF CountAttempts
    <3>. QED
      BY <2>1, <3>1, <3>2 DEF Moves
<1>. QED
  BY <1>3, <1>4

LEMMA CallProviderMoves ==
  ASSUME Typed, NEW w \in Workers, CallProvider(w)
  PROVE  \E o \in Outcome, u \in Execution :
           /\ Moves(w, u) /\ u.step = "record" /\ u.outcome = o
           /\ u.pos = task[w].pos /\ u.tried = task[w].tried
           /\ accepted' = IF o \in Reaching THEN Tally(accepted, task[w].notif, Channel(w))
                                            ELSE accepted
<1>1. task[w] \in Execution /\ task[w].step = "send"
  BY DEF Typed, TypeOK, CallProvider
<1>2. Channel(w) \in Channels
  BY <1>1, ChannelType
<1>3. PICK o \in Outcome :
        /\ task' = [task EXCEPT ![w] = Goto([@ EXCEPT !.outcome = o], "record")]
        /\ accepted' = IF o \in Reaching THEN Tally(accepted, task[w].notif, Channel(w))
                                         ELSE accepted
  BY <1>2, DeliveryAssumption DEF CallProvider
<1>. QED
  <2>. DEFINE u == Goto([task[w] EXCEPT !.outcome = o], "record")
  <2>1. /\ u \in Execution /\ u.step = "record" /\ u.outcome = o /\ u.pos = task[w].pos
        /\ u.notif = task[w].notif /\ u.channels = task[w].channels
        /\ u.tried = task[w].tried
    BY <1>1, CalledFields
  <2>2. task' = [task EXCEPT ![w] = u]
    BY <1>3
  <2>. QED
    BY <1>3, <2>1, <2>2 DEF Moves

LEMMA RecordFailureMoves ==
  ASSUME Typed, NEW w \in Workers, RecordFailure(w)
  PROVE  \E u : /\ Moves(w, u)
                /\ \/ u.step = "retry" /\ u.pos = task[w].pos
                   \/ /\ u.step = "scan" /\ u.pos = task[w].pos + 1
                      /\ \/ task[w].tried + 1 >= MAX_RETRIES_PER_CHANNEL
                         \/ task[w].outcome = "permanent"
<1>1. /\ task[w] \in Execution /\ "retry" \in Step
      /\ MAX_RETRIES_PER_CHANNEL \in Nat /\ task[w].tried \in Nat
  BY DeliveryAssumption DEF Typed, TypeOK, Step, Execution
<1>2. CASE WillRetry(task[w].tried, task[w].outcome)
  <2>. DEFINE u == Goto(task[w], "retry")
  <2>1. /\ u \in Execution /\ u.step = "retry" /\ u.pos = task[w].pos
        /\ u.notif = task[w].notif /\ u.channels = task[w].channels
    BY <1>1, GotoFields
  <2>2. task' = [task EXCEPT ![w] = u]
    BY <1>2 DEF RecordFailure
  <2>. QED
    BY <2>1, <2>2 DEF Moves
<1>3. CASE ~WillRetry(task[w].tried, task[w].outcome)
  <2>1. task[w].outcome \in Outcome \ {"accepted"}
    BY DEF RecordFailure, Typed, TaskOK
  <2>2. \/ task[w].tried + 1 >= MAX_RETRIES_PER_CHANNEL
        \/ task[w].outcome = "permanent"
    BY <1>1, <1>3, <2>1 DEF WillRetry, Retryable, Outcome
  <2>. QED
    BY <1>1, <1>3, <2>2, NextChannelFields DEF RecordFailure, Moves
<1>. QED
  BY <1>2, <1>3

(* A step that moves one worker keeps the type of all the executions.       *)
LEMMA MovesTyped ==
  ASSUME Typed, NEW w \in Workers, task[w].step # "idle", NEW u, Moves(w, u),
         u.step \notin {"idle"},
         u.step \in {"count", "send", "record", "retry"} =>
           u.pos <= Len(u.channels),
         u.step = "record" => u.outcome \in Outcome
  PROVE  task' \in [Workers -> Execution] /\ TaskOK'
<1>1. u \in Execution /\ u.pos \in Nat /\ Len(u.channels) \in Nat
  BY DEF Moves, Execution
<1>2. u.notif \in Notifications /\ u.channels \in Priorities[u.notif]
  BY DEF Moves, Typed, TaskOK
<1>. QED
  <2>1. task' = [task EXCEPT ![w] = u] /\ ~(u.step = "idle")
    BY DEF Moves
  <2>2. u.step \in {"count", "send", "record", "retry"} => ~(u.pos > Len(u.channels))
    BY <1>1
  <2>. QED
    BY <1>1, <1>2, <2>1, <2>2, TaskStep

LEMMA IdleTyped ==
  ASSUME Typed, NEW w \in Workers, task' = [task EXCEPT ![w] = Idle]
  PROVE  task' \in [Workers -> Execution] /\ TaskOK'
BY IdleFields, TaskStep

-----------------------------------------------------------------------------
LEMMA TypedStep == Typed /\ [Next]_vars => Typed'
<1>. SUFFICES ASSUME Typed, [Next]_vars PROVE Typed'
  OBVIOUS
<1>t. TypeOK /\ TaskOK
  BY DEF Typed
<1>s. {"queued", "processing", "sent", "failed"} = Status
  BY DEF Status
<1>1. ASSUME NEW n \in Notifications, Publish(n) PROVE Typed'
  BY <1>1, <1>t DEF Publish, rows, Typed, TypeOK, TaskOK, AtEnd
<1>2. ASSUME NEW w \in Workers, NEW n \in Notifications, Load(w, n) PROVE Typed'
  <2>1. task' \in [Workers -> Execution] /\ TaskOK'
    <3>1. CASE UNCHANGED task
      BY <3>1, <1>t DEF TypeOK, TaskOK, AtEnd
    <3>2. ASSUME NEW chs \in Priorities[n], NEW s \in {"mark", "scan"},
                 task' = [task EXCEPT ![w] = Begin(n, chs, s)]
          PROVE  task' \in [Workers -> Execution] /\ TaskOK'
      <4>1. chs \in Seq(Channels) /\ s \in Step
        BY DeliveryAssumption DEF Step
      <4>. QED
        <5>. DEFINE u == Begin(n, chs, s)
        <5>1. u \in Execution /\ u.step = s /\ u.notif = n /\ u.channels = chs
          BY <4>1, BeginFields
        <5>. HIDE DEF u
        <5>2. task' = [task EXCEPT ![w] = u]
          BY <3>2 DEF u
        <5>. QED
          BY <5>1, <5>2, TaskStep
    <3>. QED
      BY <1>2, <3>1, <3>2 DEF Load
  <2>2. queue' \in [Notifications -> Nat]
    BY <1>2, <1>t DEF Load, TypeOK
  <2>3. TypeOK'
    BY <1>2, <1>t, <2>1, <2>2 DEF Load, TypeOK, rows
  <2>. QED BY <2>1, <2>3 DEF Typed
<1>3. ASSUME NEW w \in Workers, MarkProcessing(w) PROVE Typed'
  <2>1. task' \in [Workers -> Execution] /\ TaskOK'
    BY <1>3, MarkProcessingMoves, MovesTyped DEF MarkProcessing
  <2>2. TypeOK'
    BY <1>3, <2>1, <1>t, <1>s DEF MarkProcessing, TypeOK
  <2>. QED BY <2>1, <2>2 DEF Typed
<1>4. ASSUME NEW w \in Workers, ScanChannel(w) PROVE Typed'
  <2>1. PICK u : Moves(w, u) /\ \/ u.step = "scan"
                                \/ u.step = "count" /\ u.pos = task[w].pos
    BY <1>4, ScanChannelMoves
  <2>2. u.pos = task[w].pos => u.pos <= Len(u.channels)
    <3>1. task[w].pos \in Nat /\ Len(task[w].channels) \in Nat
      BY <1>t DEF TypeOK, Execution
    <3>. QED
      BY <1>4, <2>1, <3>1 DEF ScanChannel, AtEnd, Moves
  <2>3. task' \in [Workers -> Execution] /\ TaskOK'
    BY <1>4, <2>1, <2>2, MovesTyped DEF ScanChannel
  <2>4. TypeOK'
    BY <1>4, <2>3, <1>t DEF ScanChannel, TypeOK, rows
  <2>. QED BY <2>3, <2>4 DEF Typed
<1>5. ASSUME NEW w \in Workers, CountAttempts(w) PROVE Typed'
  <2>1. PICK u : Moves(w, u) /\ \/ u.step = "scan"
                                \/ u.step = "send" /\ u.pos = task[w].pos
    BY <1>5, CountAttemptsMoves
  <2>2. u.pos = task[w].pos => u.pos <= Len(u.channels)
    <3>1. task[w].pos \in Nat /\ Len(task[w].channels) \in Nat
      BY <1>t DEF TypeOK, Execution
    <3>. QED
      BY <1>5, <2>1, <3>1, <1>t DEF CountAttempts, TaskOK, AtEnd, Moves
  <2>3. task' \in [Workers -> Execution] /\ TaskOK'
    BY <1>5, <2>1, <2>2, MovesTyped DEF CountAttempts
  <2>4. TypeOK'
    BY <1>5, <2>3, <1>t DEF CountAttempts, TypeOK, rows
  <2>. QED BY <2>3, <2>4 DEF Typed
<1>6. ASSUME NEW w \in Workers, CallProvider(w) PROVE Typed'
  <2>1. PICK o \in Outcome, u \in Execution :
          /\ Moves(w, u) /\ u.step = "record" /\ u.outcome = o /\ u.pos = task[w].pos
          /\ accepted' = IF o \in Reaching THEN Tally(accepted, task[w].notif, Channel(w))
                                           ELSE accepted
    BY <1>6, CallProviderMoves
  <2>2. u.pos <= Len(u.channels)
    <3>1. task[w].pos \in Nat /\ Len(task[w].channels) \in Nat
      BY <1>t DEF TypeOK, Execution
    <3>. QED
      BY <1>6, <2>1, <3>1, <1>t DEF CallProvider, TaskOK, AtEnd, Moves
  <2>3. task' \in [Workers -> Execution] /\ TaskOK'
    BY <1>6, <2>1, <2>2, MovesTyped DEF CallProvider
  <2>4. accepted' \in Counter
    BY <1>6, <2>1, <1>t, ChannelType, TallyType DEF CallProvider, TypeOK
  <2>5. TypeOK'
    BY <1>6, <2>3, <2>4, <1>t DEF CallProvider, TypeOK, rows
  <2>. QED BY <2>3, <2>5 DEF Typed
<1>7. ASSUME NEW w \in Workers, RecordSuccess(w) PROVE Typed'
  <2>1. task' \in [Workers -> Execution] /\ TaskOK'
    BY <1>7, IdleTyped DEF RecordSuccess
  <2>2. succeeded' \in Counter
    BY <1>7, <1>t, ChannelType, TallyType DEF RecordSuccess, TypeOK
  <2>3. TypeOK'
    BY <1>7, <2>1, <2>2, <1>t, <1>s DEF RecordSuccess, TypeOK
  <2>. QED BY <2>1, <2>3 DEF Typed
<1>8. ASSUME NEW w \in Workers, RecordFailure(w) PROVE Typed'
  <2>1. PICK u : Moves(w, u) /\ \/ u.step = "scan"
                                \/ u.step = "retry" /\ u.pos = task[w].pos
    BY <1>8, RecordFailureMoves
  <2>2. u.pos = task[w].pos => u.pos <= Len(u.channels)
    <3>1. task[w].pos \in Nat /\ Len(task[w].channels) \in Nat
      BY <1>t DEF TypeOK, Execution
    <3>. QED
      BY <1>8, <2>1, <3>1, <1>t DEF RecordFailure, TaskOK, AtEnd, Moves
  <2>3. task' \in [Workers -> Execution] /\ TaskOK'
    BY <1>8, <2>1, <2>2, MovesTyped DEF RecordFailure
  <2>4. failed' \in Counter /\ refused' \in Counter
    BY <1>8, <1>t, ChannelType, TallyType DEF RecordFailure, TypeOK
  <2>5. TypeOK'
    BY <1>8, <2>3, <2>4, <1>t DEF RecordFailure, TypeOK
  <2>. QED BY <2>3, <2>5 DEF Typed
<1>9. ASSUME NEW w \in Workers, ScheduleRetry(w) PROVE Typed'
  <2>1. task' \in [Workers -> Execution] /\ TaskOK'
    BY <1>9, IdleTyped DEF ScheduleRetry
  <2>2. queue' \in [Notifications -> Nat]
    BY <1>9, <1>t, ChannelType DEF ScheduleRetry, TypeOK
  <2>3. TypeOK'
    BY <1>9, <2>1, <2>2, <1>t DEF ScheduleRetry, TypeOK, rows
  <2>. QED BY <2>1, <2>3 DEF Typed
<1>10. ASSUME NEW w \in Workers, MarkFailed(w) PROVE Typed'
  <2>1. task' \in [Workers -> Execution] /\ TaskOK'
    BY <1>10, IdleTyped DEF MarkFailed
  <2>2. TypeOK'
    BY <1>10, <2>1, <1>t, <1>s DEF MarkFailed, TypeOK
  <2>. QED BY <2>1, <2>2 DEF Typed
<1>11. ASSUME NEW w \in Workers, LoseTask(w) PROVE Typed'
  <2>1. task' \in [Workers -> Execution] /\ TaskOK'
    BY <1>11, IdleTyped DEF LoseTask
  <2>2. TypeOK'
    BY <1>11, <2>1, <1>t DEF LoseTask, TypeOK, rows
  <2>. QED BY <2>1, <2>2 DEF Typed
<1>12. CASE UNCHANGED vars
  BY <1>12, <1>t DEF vars, rows, Typed, TypeOK, TaskOK, AtEnd
<1>. QED
  BY <1>1, <1>2, <1>3, <1>4, <1>5, <1>6, <1>7, <1>8, <1>9, <1>10, <1>11, <1>12
  DEF Next, Execute

(* Every reachable state is well-typed: notification status, the attempt    *)
(* counts, the queue and the executions stay in their sets.                 *)
THEOREM TypeCorrect == Spec => []TypeOK
<1>1. Typed => TypeOK
  BY DEF Typed
<1>. QED
  BY <1>1, TypedInit, TypedStep, PTL DEF Spec

-----------------------------------------------------------------------------
(* Fallback. The channels an execution has left behind are exhausted, and   *)
(* the count it holds is not above the one in the table.                    *)
Behind(w) ==
  /\ task[w].pos <= Len(task[w].channels) + 1
  /\ \A i \in 1 .. task[w].pos - 1 : Exhausted(task[w].notif, task[w].channels[i])
  /\ task[w].step \in {"send", "record"} =>
       task[w].tried <= failed[task[w].notif][Channel(w)]

LeftBehind == \A w \in Workers : Behind(w)

AuditGrows ==
  \A n \in Notifications, c \in Channels :
    /\ failed'[n][c] \in Nat /\ failed[n][c] \in Nat /\ failed'[n][c] >= failed[n][c]
    /\ succeeded'[n][c] \in Nat /\ succeeded[n][c] \in Nat
    /\ succeeded'[n][c] >= succeeded[n][c]
    /\ refused'[n][c] \in Nat /\ refused[n][c] \in Nat /\ refused'[n][c] >= refused[n][c]

LEMMA AuditStep == Typed /\ [Next]_vars => AuditGrows
<1>. SUFFICES ASSUME Typed, [Next]_vars PROVE AuditGrows
  OBVIOUS
<1>1. failed \in Counter /\ succeeded \in Counter /\ refused \in Counter
  BY DEF Typed, TypeOK
<1>2. ASSUME failed' = failed, succeeded' = succeeded, refused' = refused
      PROVE  AuditGrows
  BY <1>1, <1>2 DEF AuditGrows, Counter
<1>3. ASSUME NEW w \in Workers, RecordSuccess(w) PROVE AuditGrows
  <2>1. task[w].notif \in Notifications /\ Channel(w) \in Channels
    BY <1>3, ChannelType DEF RecordSuccess
  <2>2. /\ succeeded' \in Counter /\ failed' = failed /\ refused' = refused
        /\ \A n \in Notifications, c \in Channels : succeeded'[n][c] >= succeeded[n][c]
    BY <1>1, <1>3, <2>1, TallyType DEF RecordSuccess
  <2>. QED
    BY <1>1, <2>2 DEF AuditGrows, Counter
<1>4. ASSUME NEW w \in Workers, RecordFailure(w) PROVE AuditGrows
  <2>1. task[w].notif \in Notifications /\ Channel(w) \in Channels
    BY <1>4, ChannelType DEF RecordFailure
  <2>2. /\ failed' \in Counter /\ succeeded' = succeeded
        /\ \A n \in Notifications, c \in Channels : failed'[n][c] >= failed[n][c]
    BY <1>1, <1>4, <2>1, TallyType DEF RecordFailure
  <2>3. /\ refused' \in Counter
        /\ \A n \in Notifications, c \in Channels : refused'[n][c] >= refused[n][c]
    <3>1. CASE task[w].outcome = "permanent"
      BY <1>1, <1>4, <2>1, <3>1, TallyType DEF RecordFailure
    <3>2. CASE task[w].outcome # "permanent"
      BY <1>1, <1>4, <3>2 DEF RecordFailure, Counter
    <3>. QED
      BY <3>1, <3>2
  <2>. QED
    BY <1>1, <2>2, <2>3 DEF AuditGrows, Counter
<1>. QED
  BY <1>2, <1>3, <1>4
  DEF Next, Execute, vars, rows, Publish, Load, MarkProcessing, ScanChannel,
      CountAttempts, CallProvider, ScheduleRetry, MarkFailed, LoseTask

LEMMA ExhaustedStable ==
  ASSUME AuditGrows, NEW n \in Notifications, NEW c \in Channels, Exhausted(n, c)
  PROVE  Exhausted(n, c)'
BY DeliveryAssumption DEF AuditGrows, Exhausted

(* The channels an execution has left behind stay exhausted.                *)
LEMMA BehindStable ==
  ASSUME Typed, LeftBehind, AuditGrows, NEW v \in Workers,
         NEW n, n = task[v].notif, NEW chs, chs = task[v].channels,
         NEW i \in 1 .. task[v].pos - 1
  PROVE  Exhausted(n, chs[i])'
<1>1. /\ task[v] \in Execution
      /\ task[v].pos <= Len(chs) + 1
      /\ Exhausted(n, chs[i])
  BY DEF Typed, TypeOK, LeftBehind, Behind
<1>2. n \in Notifications
  <2>1. task[v] # Idle
    BY <1>1, IdleFields
  <2>. QED
    BY <2>1 DEF Typed, TaskOK
<1>3. chs[i] \in Channels
  BY <1>1 DEF Execution
<1>. QED
  BY <1>1, <1>2, <1>3, ExhaustedStable

LEMMA BehindOther ==
  ASSUME Typed, LeftBehind, AuditGrows, NEW v \in Workers, task'[v] = task[v]
  PROVE  Behind(v)'
<1>1. /\ task[v] \in Execution /\ Behind(v)
  BY DEF Typed, TypeOK, LeftBehind
<1>2. PICK m, ls : m = task[v].notif /\ ls = task[v].channels
  OBVIOUS
<1>3. \A i \in 1 .. task[v].pos - 1 : Exhausted(m, ls[i])'
  BY <1>2, BehindStable
<1>4. ASSUME task[v].step \in {"send", "record"}
      PROVE  task[v].tried <= failed'[task[v].notif][Channel(v)]
  <2>1. task[v].notif \in Notifications /\ Channel(v) \in Channels
    BY <1>4, ChannelType
  <2>. QED
    BY <1>1, <1>4, <2>1 DEF Behind, AuditGrows, Execution
<1>. QED
  BY <1>1, <1>2, <1>3, <1>4 DEF Behind, Channel

(* Of the worker that moves: it stays on its channel, or it leaves one that *)
(* is exhausted by now.                                                     *)
LEMMA BehindMoves ==
  ASSUME Typed, LeftBehind, AuditGrows, NEW w \in Workers, NEW u, Moves(w, u),
         NEW n, n = task[w].notif, NEW c, c = Channel(w),
         \/ u.pos = task[w].pos
         \/ u.pos = task[w].pos + 1 /\ ~AtEnd(w) /\ Exhausted(n, c)',
         u.step \in {"send", "record"} =>
           u.pos = task[w].pos /\ u.tried <= failed'[n][c]
  PROVE  LeftBehind'
<1>1. /\ task[w] \in Execution /\ u \in Execution /\ Behind(w) /\ task'[w] = u
      /\ \A v \in Workers \ {w} : task'[v] = task[v]
      /\ u.notif = n /\ u.channels = task[w].channels
  BY DEF Typed, TypeOK, LeftBehind, Moves
<1>2. PICK ls : ls = task[w].channels
  OBVIOUS
<1>3. u.pos <= Len(u.channels) + 1
  BY <1>1 DEF Behind, AtEnd, Execution
<1>4. \A i \in 1 .. u.pos - 1 : Exhausted(n, ls[i])'
  <2>. SUFFICES ASSUME NEW i \in 1 .. u.pos - 1 PROVE Exhausted(n, ls[i])'
    OBVIOUS
  <2>1. CASE i \in 1 .. task[w].pos - 1
    BY <1>2, <2>1, BehindStable
  <2>2. CASE i \notin 1 .. task[w].pos - 1
    <3>1. i = task[w].pos /\ Exhausted(n, c)'
      BY <1>1, <2>2 DEF Execution
    <3>. QED
      BY <1>2, <3>1 DEF Channel
  <2>. QED
    BY <2>1, <2>2
<1>5. Behind(w)'
  BY <1>1, <1>2, <1>3, <1>4 DEF Behind, Channel
<1>. QED
  BY <1>1, <1>5, BehindOther DEF LeftBehind

LEMMA BehindIdle ==
  ASSUME Typed, LeftBehind, AuditGrows, NEW w \in Workers,
         task' = [task EXCEPT ![w] = Idle]
  PROVE  LeftBehind'
<1>1. /\ task'[w] = Idle /\ \A v \in Workers \ {w} : task'[v] = task[v]
  BY DEF Typed, TypeOK
<1>2. Behind(w)'
  BY <1>1, IdleFields DEF Behind, Execution
<1>. QED
  BY <1>1, <1>2, BehindOther DEF LeftBehind

LEMMA BehindStep == Typed /\ LeftBehind /\ [Next]_vars => LeftBehind'
<1>. SUFFICES ASSUME Typed, LeftBehind, [Next]_vars PROVE LeftBehind'
  OBVIOUS
<1>a. AuditGrows
  BY AuditStep
<1>1. ASSUME task' = task PROVE LeftBehind'
  BY <1>1, <1>a, BehindOther DEF LeftBehind
<1>2. ASSUME NEW w \in Workers, NEW n \in Notifications, Load(w, n) PROVE LeftBehind'
  <2>1. ASSUME NEW chs \in Priorities[n], NEW s \in {"mark", "scan"},
               task' = [task EXCEPT ![w] = Begin(n, chs, s)]
        PROVE  LeftBehind'
    <3>1. /\ task'[w] = Begin(n, chs, s) /\ \A v \in Workers \ {w} : task'[v] = task[v]
          /\ chs \in Seq(Channels) /\ s \in Step
      BY <2>1, DeliveryAssumption DEF Typed, TypeOK, Step
    <3>2. /\ task'[w] \in Execution /\ task'[w].step = s /\ task'[w].pos = 1
      BY <3>1, BeginFields
    <3>3. Behind(w)'
      BY <3>2 DEF Behind, Execution
    <3>. QED
      BY <1>a, <3>1, <3>3, BehindOther DEF LeftBehind
  <2>. QED
    BY <1>1, <1>2, <2>1 DEF Load
<1>3. ASSUME NEW w \in Workers, MarkProcessing(w) PROVE LeftBehind'
  BY <1>3, <1>a, MarkProcessingMoves, BehindMoves
<1>4. ASSUME NEW w \in Workers, ScanChannel(w) PROVE LeftBehind'
  <2>1. PICK n, c : n = task[w].notif /\ c = Channel(w)
    OBVIOUS
  <2>2. PICK u : /\ Moves(w, u)
                 /\ \/ /\ u.step = "scan" /\ u.pos = task[w].pos + 1
                       /\ succeeded[n][c] > 0
                    \/ u.step = "count" /\ u.pos = task[w].pos
    BY <1>4, <2>1, ScanChannelMoves
  <2>3. succeeded[n][c] > 0 => Exhausted(n, c)'
    BY <1>4 DEF ScanChannel, rows, Exhausted
  <2>. QED
    BY <1>4, <1>a, <2>1, <2>2, <2>3, ScanChannelMoves, BehindMoves
<1>5. ASSUME NEW w \in Workers, CountAttempts(w) PROVE LeftBehind'
  <2>1. PICK n, c : n = task[w].notif /\ c = Channel(w)
    OBVIOUS
  <2>2. PICK u : /\ Moves(w, u)
                 /\ \/ /\ u.step = "scan" /\ u.pos = task[w].pos + 1
                       /\ failed[n][c] >= MAX_RETRIES_PER_CHANNEL
                    \/ /\ u.step = "send" /\ u.pos = task[w].pos
                       /\ u.tried = failed[n][c]
    BY <1>5, <2>1, CountAttemptsMoves
  <2>3. /\ failed' = failed /\ ~AtEnd(w)
        /\ n \in Notifications /\ c \in Channels
    BY <1>5, <2>1, ChannelType DEF CountAttempts, rows, Typed, TaskOK
  <2>4. failed[n][c] >= MAX_RETRIES_PER_CHANNEL => Exhausted(n, c)'
    BY <2>3 DEF Exhausted
  <2>5. u.step = "send" => u.tried <= failed'[n][c]
    BY <1>a, <2>2, <2>3 DEF AuditGrows
  <2>. QED
    BY <1>a, <2>1, <2>2, <2>3, <2>4, <2>5, BehindMoves
<1>6. ASSUME NEW w \in Workers, CallProvider(w) PROVE LeftBehind'
  <2>1. PICK n, c : n = task[w].notif /\ c = Channel(w)
    OBVIOUS
  <2>2. PICK u : Moves(w, u) /\ u.pos = task[w].pos /\ u.tried = task[w].tried
    BY <1>6, CallProviderMoves
  <2>3. task[w].tried <= failed'[n][c]
    BY <1>6, <2>1 DEF CallProvider, rows, LeftBehind, Behind
  <2>. QED
    BY <1>a, <2>1, <2>2, <2>3, BehindMoves
<1>7. ASSUME NEW w \in Workers, RecordFailure(w) PROVE LeftBehind'
  <2>1. PICK n, c : n = task[w].notif /\ c = Channel(w)
    OBVIOUS
  <2>2. PICK u : /\ Moves(w, u)
                 /\ \/ u.step = "retry" /\ u.pos = task[w].pos
                    \/ /\ u.step = "scan" /\ u.pos = task[w].pos + 1
                       /\ \/ task[w].tried + 1 >= MAX_RETRIES_PER_CHANNEL
                          \/ task[w].outcome = "permanent"
    BY <1>7, RecordFailureMoves
  <2>3. /\ ~AtEnd(w) /\ n \in Notifications /\ c \in Channels
        /\ task[w].tried <= failed[n][c] /\ task[w].tried \in Nat
    BY <1>7, <2>1, ChannelType
    DEF RecordFailure, Typed, TypeOK, Execution, TaskOK, LeftBehind, Behind
  <2>4. /\ failed'[n][c] = failed[n][c] + 1
        /\ task[w].outcome = "permanent" => refused'[n][c] = refused[n][c] + 1
    BY <1>7, <2>1, <2>3, TallyType DEF RecordFailure, Typed, TypeOK
  <2>5. u.step = "scan" => Exhausted(n, c)'
    BY <1>a, <2>2, <2>3, <2>4, DeliveryAssumption DEF AuditGrows, Exhausted
  <2>. QED
    BY <1>a, <2>1, <2>2, <2>3, <2>5, BehindMoves
<1>8. ASSUME NEW w \in Workers, task' = [task EXCEPT ![w] = Idle] PROVE LeftBehind'
  BY <1>8, <1>a, BehindIdle
<1>. QED
  BY <1>1, <1>2, <1>3, <1>4, <1>5, <1>6, <1>7, <1>8
  DEF Next, Execute, vars, Publish, RecordSuccess, ScheduleRetry, MarkFailed, LoseTask

LEMMA BehindInit == Init => LeftBehind
<1>. SUFFICES ASSUME Init, NEW w \in Workers PROVE Behind(w)
  BY DEF LeftBehind
<1>1. task[w] = Idle
  BY DEF Init
<1>. QED
  BY <1>1, IdleFields DEF Behind, Execution

(* Fallback order, for any number of workers and any interleaving: no       *)
(* provider is called while a channel ranked above it is still to be tried. *)
THEOREM FallbackCorrect == Spec => []FallbackOrder
<1>1. LeftBehind => FallbackOrder
  BY DEF LeftBehind, Behind, FallbackOrder
<1>. QED
  BY <1>1, TypedInit, TypedStep, BehindInit, BehindStep, PTL DEF Spec

-----------------------------------------------------------------------------
(* The cause of a terminal status. It is already inductive, given what an   *)
(* execution has left behind.                                               *)
LEMMA CauseInit == Init => StatusHasCause
BY DEF Init, StatusHasCause, HasCause

(* The attempts that justify a status stay where they are.                  *)
LEMMA CauseStable ==
  ASSUME Typed, AuditGrows, NEW n \in Notifications, HasCause(n)
  PROVE  /\ status[n] = "sent" => Delivered(n)'
         /\ status[n] = "failed" =>
              \E chs \in Priorities[n] : \A i \in 1 .. Len(chs) : Exhausted(n, chs[i])'
<1>1. ASSUME status[n] = "sent" PROVE Delivered(n)'
  BY <1>1 DEF HasCause, Delivered, AuditGrows
<1>2. ASSUME status[n] = "failed",
             NEW chs \in Priorities[n], \A i \in 1 .. Len(chs) : Exhausted(n, chs[i])
      PROVE  \A i \in 1 .. Len(chs) : Exhausted(n, chs[i])'
  <2>1. chs \in Seq(Channels)
    BY DeliveryAssumption
  <2>2. \A i \in 1 .. Len(chs) : chs[i] \in Channels
    BY <2>1
  <2>. QED
    BY <1>2, <2>2, ExhaustedStable
<1>. QED
  BY <1>1, <1>2 DEF HasCause

LEMMA HasCauseStep ==
  ASSUME Typed, LeftBehind, [Next]_vars, NEW n \in Notifications, HasCause(n)
  PROVE  HasCause(n)'
<1>. SUFFICES /\ status'[n] = "sent" => Delivered(n)'
              /\ status'[n] = "failed" =>
                   \E chs \in Priorities[n] :
                     \A i \in 1 .. Len(chs) : Exhausted(n, chs[i])'
  BY DEF HasCause
<1>a. AuditGrows
  BY AuditStep
<1>t. status \in [Notifications -> Status]
  BY DEF Typed, TypeOK
<1>1. CASE status'[n] = status[n]
  BY <1>1, <1>a, CauseStable
<1>2. ASSUME NEW w \in Workers, MarkProcessing(w) PROVE status'[n] \in {status[n], "processing"}
  BY <1>2, <1>t DEF MarkProcessing
<1>3. ASSUME NEW w \in Workers, RecordSuccess(w), status'[n] # status[n]
      PROVE  status'[n] = "sent" /\ Delivered(n)'
  <2>1. n = task[w].notif /\ status'[n] = "sent"
    BY <1>3, <1>t DEF RecordSuccess
  <2>2. Channel(w) \in Channels /\ succeeded \in Counter
    BY <1>3, ChannelType DEF RecordSuccess, Typed, TypeOK
  <2>3. PICK c \in Channels : c = Channel(w)
    BY <2>2
  <2>4. succeeded'[n][c] = succeeded[n][c] + 1
    BY <1>3, <2>1, <2>2, <2>3, TallyType DEF RecordSuccess
  <2>. QED
    BY <1>a, <2>1, <2>3, <2>4 DEF Delivered, AuditGrows
<1>4. ASSUME NEW w \in Workers, MarkFailed(w), status'[n] # status[n]
      PROVE  /\ status'[n] = "failed"
             /\ \E chs \in Priorities[n] : \A i \in 1 .. Len(chs) : Exhausted(n, chs[i])'
  <2>1. n = task[w].notif /\ status'[n] = "failed"
    BY <1>4, <1>t DEF MarkFailed
  <2>2. PICK chs : chs = task[w].channels
    OBVIOUS
  <2>3. chs \in Priorities[n] /\ chs \in Seq(Channels)
    BY <1>4, <2>1, <2>2, DeliveryAssumption DEF MarkFailed, Typed, TaskOK
  <2>4. \A i \in 1 .. Len(chs) : i \in 1 .. task[w].pos - 1
    BY <1>4, <2>2, <2>3 DEF MarkFailed, AtEnd, Typed, TypeOK, Execution
  <2>5. \A i \in 1 .. Len(chs) : Exhausted(n, chs[i])'
    BY <1>a, <2>1, <2>2, <2>4, BehindStable
  <2>. QED
    BY <2>1, <2>3, <2>5
<1>. QED
  <2>. SUFFICES ASSUME status'[n] # status[n] PROVE
            /\ status'[n] = "sent" => Delivered(n)'
            /\ status'[n] = "failed" =>
                 \E chs \in Priorities[n] :
                   \A i \in 1 .. Len(chs) : Exhausted(n, chs[i])'
    BY <1>1
  <2>1. PICK w \in Workers : MarkProcessing(w) \/ RecordSuccess(w) \/ MarkFailed(w)
    BY DEF Next, Execute, vars, rows, Publish, Load, ScanChannel, CountAttempts,
           CallProvider, RecordFailure, ScheduleRetry, LoseTask
  <2>. QED
    BY <1>2, <1>3, <1>4, <2>1

LEMMA CauseStep ==
  Typed /\ LeftBehind /\ StatusHasCause /\ [Next]_vars => StatusHasCause'
BY HasCauseStep DEF StatusHasCause

(* SENT has a delivered message behind it and FAILED an exhausted priority  *)
(* list, for any number of overlapping executions: a status is never wrong  *)
(* about its own attempts, though it may be overwritten.                    *)
THEOREM CauseCorrect == Spec => []StatusHasCause
BY TypedInit, TypedStep, BehindInit, BehindStep, CauseInit, CauseStep, PTL DEF Spec

-----------------------------------------------------------------------------
(* Counting. Every message of a notification is in the queue or executed,   *)
(* and an execution past the gate of a channel holds a place under it.      *)
MessageBound ==
  \A n \in Notifications : queue[n] + Cardinality(Running(n)) <= copies[n]

GateBound ==
  \A n \in Notifications, c \in Channels :
    failed[n][c] + Cardinality(PastGate(n, c)) <= MAX_RETRIES_PER_CHANNEL - 1 + copies[n]

LEMMA CardinalityMonotone ==
  ASSUME NEW S \in SUBSET Workers, NEW T \in SUBSET S
  PROVE  /\ IsFiniteSet(S) /\ IsFiniteSet(T)
         /\ Cardinality(S) \in Nat /\ Cardinality(T) \in Nat
         /\ Cardinality(T) <= Cardinality(S)
BY DeliveryAssumption, FS_Subset, FS_CardinalityType

LEMMA RunningMoves ==
  ASSUME Typed, NEW w \in Workers, NEW u, Moves(w, u), NEW n \in Notifications
  PROVE  Running(n)' = Running(n)
BY DEF Typed, TypeOK, Moves, Running

LEMMA RunningIdle ==
  ASSUME Typed, NEW w \in Workers, task' = [task EXCEPT ![w] = Idle],
         NEW n \in Notifications
  PROVE  Running(n)' = Running(n) \ {w}
BY IdleFields, DeliveryAssumption DEF Typed, TypeOK, Running

LEMMA MessageInit == Init => MessageBound /\ GateBound
<1>. SUFFICES ASSUME Init PROVE MessageBound /\ GateBound
  OBVIOUS
<1>1. \A n \in Notifications, c \in Channels : Running(n) = {} /\ PastGate(n, c) = {}
  BY IdleFields, DeliveryAssumption DEF Init, Running, PastGate
<1>2. \A n \in Notifications, c \in Channels :
        Cardinality(Running(n)) = 0 /\ Cardinality(PastGate(n, c)) = 0
  BY <1>1, FS_EmptySet
<1>3. MessageBound
  <2>1. \A n \in Notifications : Running(n) = {}
    BY IdleFields, DeliveryAssumption DEF Init, Running
  <2>2. \A n \in Notifications : Cardinality(Running(n)) = 0
    BY <2>1, FS_EmptySet
  <2>3. \A n \in Notifications : queue[n] = 0 /\ copies[n] = 0
    BY DEF Init
  <2>. QED
    BY <2>2, <2>3 DEF MessageBound
<1>4. GateBound
  BY <1>2, DeliveryAssumption DEF Init, GateBound
<1>. QED
  BY <1>3, <1>4

LEMMA MessageStep == Typed /\ MessageBound /\ [Next]_vars => MessageBound'
<1>. SUFFICES ASSUME Typed, MessageBound, [Next]_vars, NEW n \in Notifications
              PROVE  (queue[n] + Cardinality(Running(n)) <= copies[n])'
  BY DEF MessageBound
<1>t. /\ queue \in [Notifications -> Nat] /\ copies \in [Notifications -> Nat]
      /\ task \in [Workers -> Execution] /\ TaskOK
      /\ queue[n] + Cardinality(Running(n)) <= copies[n]
  BY DEF Typed, TypeOK, MessageBound
<1>c. /\ Running(n) \in SUBSET Workers /\ IsFiniteSet(Running(n))
      /\ Cardinality(Running(n)) \in Nat
  BY CardinalityMonotone DEF Running
<1>1. ASSUME UNCHANGED <<queue, copies>>, Running(n)' = Running(n)
      PROVE  (queue[n] + Cardinality(Running(n)) <= copies[n])'
  BY <1>1, <1>t
<1>2. ASSUME NEW m \in Notifications, Publish(m)
      PROVE  (queue[n] + Cardinality(Running(n)) <= copies[n])'
  <2>1. Running(n)' = Running(n)
    BY <1>2 DEF Publish, Running
  <2>. QED
    BY <1>2, <1>t, <1>c, <2>1 DEF Publish
<1>3. ASSUME NEW w \in Workers, NEW m \in Notifications, Load(w, m)
      PROVE  (queue[n] + Cardinality(Running(n)) <= copies[n])'
  <2>1. /\ task[w] = Idle /\ w \notin Running(n) /\ copies' = copies
        /\ queue'[n] = IF n = m THEN queue[n] - 1 ELSE queue[n]
    BY <1>3, <1>t, IdleFields, DeliveryAssumption DEF Load, Running
  <2>2. CASE UNCHANGED task
    <3>1. Running(n)' = Running(n)
      BY <2>2 DEF Running
    <3>. QED
      BY <1>t, <1>c, <2>1, <3>1
  <2>3. ASSUME NEW chs \in Priorities[m], NEW s \in {"mark", "scan"},
               task' = [task EXCEPT ![w] = Begin(m, chs, s)]
        PROVE  (queue[n] + Cardinality(Running(n)) <= copies[n])'
    <3>1. task'[w].notif = m /\ \A v \in Workers \ {w} : task'[v] = task[v]
      BY <2>3, <1>t DEF Begin
    <3>2. Running(n)' = IF n = m THEN Running(n) \cup {w} ELSE Running(n)
      BY <3>1, <2>1 DEF Running
    <3>3. Cardinality(Running(n) \cup {w}) = Cardinality(Running(n)) + 1
      BY <2>1, <1>c, FS_AddElement
    <3>. QED
      BY <1>t, <1>c, <2>1, <3>2, <3>3
  <2>. QED
    BY <1>3, <2>2, <2>3 DEF Load
<1>4. ASSUME NEW w \in Workers, NEW u, Moves(w, u), UNCHANGED <<queue, copies>>
      PROVE  (queue[n] + Cardinality(Running(n)) <= copies[n])'
  BY <1>1, <1>4, RunningMoves
<1>5. ASSUME NEW w \in Workers, task' = [task EXCEPT ![w] = Idle],
             UNCHANGED <<queue, copies>>
      PROVE  (queue[n] + Cardinality(Running(n)) <= copies[n])'
  <2>1. Running(n)' \in SUBSET Running(n)
    BY <1>5, RunningIdle
  <2>2. Cardinality(Running(n)') <= Cardinality(Running(n)) /\ Cardinality(Running(n)') \in Nat
    BY <1>c, <2>1, CardinalityMonotone
  <2>. QED
    BY <1>5, <1>t, <1>c, <2>2
<1>6. ASSUME NEW w \in Workers, ScheduleRetry(w)
      PROVE  (queue[n] + Cardinality(Running(n)) <= copies[n])'
  <2>1. /\ Running(n)' = Running(n) \ {w}
        /\ w \in Running(n) <=> n = task[w].notif
    BY <1>6, RunningIdle DEF ScheduleRetry, Running
  <2>2. Cardinality(Running(n) \ {w}) = IF n = task[w].notif
          THEN Cardinality(Running(n)) - 1 ELSE Cardinality(Running(n))
    BY <1>c, <2>1, FS_RemoveElement
  <2>. QED
    BY <1>6, <1>t, <1>c, <2>1, <2>2 DEF ScheduleRetry
<1>7. ASSUME UNCHANGED vars PROVE (queue[n] + Cardinality(Running(n)) <= copies[n])'
  BY <1>1, <1>7 DEF vars, Running
<1>8. ASSUME NEW w \in Workers,
             \/ MarkProcessing(w) \/ ScanChannel(w) \/ CountAttempts(w)
             \/ CallProvider(w) \/ RecordFailure(w)
      PROVE  (queue[n] + Cardinality(Running(n)) <= copies[n])'
  <2>1. UNCHANGED <<queue, copies>>
    BY <1>8 DEF MarkProcessing, ScanChannel, CountAttempts, CallProvider, RecordFailure
  <2>2. \E u : Moves(w, u)
    BY <1>8, MarkProcessingMoves, ScanChannelMoves, CountAttemptsMoves,
       CallProviderMoves, RecordFailureMoves
  <2>. QED
    BY <1>4, <2>1, <2>2
<1>. QED
  BY <1>2, <1>3, <1>5, <1>6, <1>7, <1>8
  DEF Next, Execute, RecordSuccess, MarkFailed, LoseTask

(* A step lets nobody past the gate of a channel if whoever is past it       *)
(* afterwards was there before.                                            *)
LEMMA PastGateShrinks ==
  ASSUME NEW n \in Notifications, NEW c \in Channels,
         \A v \in Workers : task'[v].step \in {"send", "record"} =>
           /\ task[v].step \in {"send", "record"}
           /\ task'[v].notif = task[v].notif
           /\ task'[v].channels = task[v].channels
           /\ task'[v].pos = task[v].pos
  PROVE  PastGate(n, c)' \in SUBSET PastGate(n, c)
BY DEF PastGate, Running, Channel

LEMMA PastGateMoves ==
  ASSUME Typed, NEW w \in Workers, NEW u, Moves(w, u),
         u.step \in {"send", "record"} =>
           task[w].step \in {"send", "record"} /\ u.pos = task[w].pos,
         NEW n \in Notifications, NEW c \in Channels
  PROVE  PastGate(n, c)' \in SUBSET PastGate(n, c)
BY PastGateShrinks DEF Moves, Typed, TypeOK

LEMMA PastGateLeft ==
  ASSUME Typed, NEW w \in Workers, NEW u,
         task' = [task EXCEPT ![w] = u], u.step \notin {"send", "record"},
         NEW n \in Notifications, NEW c \in Channels
  PROVE  /\ PastGate(n, c)' \in SUBSET PastGate(n, c)
         /\ w \notin PastGate(n, c)'
<1>1. task'[w] = u /\ \A v \in Workers \ {w} : task'[v] = task[v]
  BY DEF Typed, TypeOK
<1>2. w \notin PastGate(n, c)'
  BY <1>1 DEF PastGate, Running
<1>. QED
  BY <1>1, <1>2, PastGateShrinks

LEMMA GateStep == Typed /\ MessageBound /\ GateBound /\ [Next]_vars => GateBound'
<1>. SUFFICES ASSUME Typed, MessageBound, GateBound, [Next]_vars,
                     NEW n \in Notifications, NEW c \in Channels
              PROVE  (failed[n][c] + Cardinality(PastGate(n, c))
                        <= MAX_RETRIES_PER_CHANNEL - 1 + copies[n])'
  BY DEF GateBound
<1>. DEFINE G == failed[n][c] + Cardinality(PastGate(n, c))
                   <= MAX_RETRIES_PER_CHANNEL - 1 + copies[n]
<1>t. /\ failed \in Counter /\ failed[n][c] \in Nat
      /\ queue[n] \in Nat /\ copies[n] \in Nat
      /\ task \in [Workers -> Execution] /\ TaskOK
      /\ MAX_RETRIES_PER_CHANNEL \in Nat \ {0}
      /\ queue[n] + Cardinality(Running(n)) <= copies[n]
      /\ G
  BY DeliveryAssumption DEF Typed, TypeOK, Counter, MessageBound, GateBound
<1>c. /\ PastGate(n, c) \in SUBSET Running(n) /\ Running(n) \in SUBSET Workers
      /\ IsFiniteSet(PastGate(n, c))
      /\ Cardinality(PastGate(n, c)) \in Nat /\ Cardinality(Running(n)) \in Nat
  <2>1. PastGate(n, c) \in SUBSET Running(n) /\ Running(n) \in SUBSET Workers
    BY DEF PastGate, Running
  <2>. QED
    BY <2>1, CardinalityMonotone
<1>1. ASSUME failed'[n][c] = failed[n][c], copies'[n] \in Nat, copies'[n] >= copies[n],
             PastGate(n, c)' \in SUBSET PastGate(n, c)
      PROVE  G'
  <2>1. /\ Cardinality(PastGate(n, c)') <= Cardinality(PastGate(n, c))
        /\ Cardinality(PastGate(n, c)') \in Nat
    BY <1>1, <1>c, CardinalityMonotone
  <2>. QED
    BY <1>1, <1>t, <1>c, <2>1
<1>2. ASSUME NEW m \in Notifications, Publish(m) PROVE G'
  <2>1. PastGate(n, c)' \in SUBSET PastGate(n, c)
    BY <1>2, PastGateShrinks DEF Publish
  <2>2. failed' = failed /\ copies'[n] \in Nat /\ copies'[n] >= copies[n]
    BY <1>2, <1>t DEF Publish, rows, Typed, TypeOK
  <2>. QED
    BY <1>1, <2>1, <2>2
<1>3. ASSUME NEW w \in Workers, NEW m \in Notifications, Load(w, m) PROVE G'
  <2>1. failed' = failed /\ copies' = copies
    BY <1>3 DEF Load, rows
  <2>2. ASSUME NEW chs \in Priorities[m], NEW s \in {"mark", "scan"},
               task' = [task EXCEPT ![w] = Begin(m, chs, s)]
        PROVE  PastGate(n, c)' \in SUBSET PastGate(n, c)
    <3>1. Begin(m, chs, s).step = s
      BY DEF Begin
    <3>. QED
      BY <2>2, <3>1, PastGateLeft
  <2>3. PastGate(n, c)' \in SUBSET PastGate(n, c)
    BY <1>3, <2>2, PastGateShrinks DEF Load
  <2>. QED
    BY <1>1, <1>t, <2>1, <2>3
<1>4. ASSUME NEW w \in Workers, NEW u, Moves(w, u), UNCHANGED <<failed, copies>>,
             u.step \in {"send", "record"} =>
               task[w].step \in {"send", "record"} /\ u.pos = task[w].pos
      PROVE  G'
  BY <1>1, <1>4, <1>t, PastGateMoves
<1>5. ASSUME NEW w \in Workers, CountAttempts(w) PROVE G'
  <2>0. UNCHANGED <<failed, queue, copies>> /\ task[w].step = "count"
    BY <1>5 DEF CountAttempts, rows
  <2>1. PICK u : /\ Moves(w, u)
                 /\ \/ u.step = "scan"
                    \/ /\ u.pos = task[w].pos
                       /\ failed[task[w].notif][Channel(w)] < MAX_RETRIES_PER_CHANNEL
    BY <1>5, CountAttemptsMoves
  <2>2. CASE u.step = "scan"
    BY <1>4, <2>0, <2>1, <2>2
  <2>3. CASE /\ u.pos = task[w].pos
             /\ failed[task[w].notif][Channel(w)] < MAX_RETRIES_PER_CHANNEL
    <3>1. CASE n = task[w].notif /\ c = Channel(w)
      <4>1. PastGate(n, c)' \in SUBSET Running(n)
        BY <2>1, RunningMoves DEF PastGate
      <4>2. /\ Cardinality(PastGate(n, c)') <= Cardinality(Running(n))
            /\ Cardinality(PastGate(n, c)') \in Nat
        BY <1>c, <4>1, CardinalityMonotone
      <4>3. failed[n][c] <= MAX_RETRIES_PER_CHANNEL - 1
        BY <1>t, <2>3, <3>1
      <4>. QED
        BY <1>t, <1>c, <2>0, <4>2, <4>3
    <3>2. CASE ~(n = task[w].notif /\ c = Channel(w))
      <4>1. /\ task'[w].notif = task[w].notif /\ Channel(w)' = Channel(w)
            /\ \A v \in Workers \ {w} : task'[v] = task[v]
        BY <1>t, <2>1, <2>3 DEF Moves, Channel
      <4>2. PastGate(n, c)' \in SUBSET PastGate(n, c)
        BY <3>2, <4>1 DEF PastGate, Running, Channel
      <4>. QED
        BY <1>1, <1>t, <2>0, <4>2
    <3>. QED
      BY <3>1, <3>2
  <2>. QED
    BY <2>1, <2>2, <2>3
<1>6. ASSUME NEW w \in Workers, CallProvider(w) PROVE G'
  <2>1. UNCHANGED <<failed, copies>> /\ task[w].step = "send"
    BY <1>6 DEF CallProvider, rows
  <2>2. PICK u : Moves(w, u) /\ u.pos = task[w].pos
    BY <1>6, CallProviderMoves
  <2>. QED
    BY <1>4, <2>1, <2>2
<1>7. ASSUME NEW w \in Workers, RecordFailure(w) PROVE G'
  <2>0. /\ copies' = copies /\ task[w].step = "record"
        /\ failed' = Tally(failed, task[w].notif, Channel(w))
    BY <1>7 DEF RecordFailure
  <2>1. PICK u : Moves(w, u) /\ u.step \in {"retry", "scan"}
    BY <1>7, RecordFailureMoves
  <2>2. PastGate(n, c)' \in SUBSET PastGate(n, c) /\ w \notin PastGate(n, c)'
    BY <2>1, PastGateLeft DEF Moves
  <2>3. CASE n = task[w].notif /\ c = Channel(w)
    <3>1. failed'[n][c] = failed[n][c] + 1
      BY <1>t, <2>0, <2>3, TallyType
    <3>2. w \in PastGate(n, c)
      BY <2>0, <2>3 DEF PastGate, Running
    <3>3. /\ PastGate(n, c)' \in SUBSET (PastGate(n, c) \ {w})
          /\ PastGate(n, c) \ {w} \in SUBSET Workers
      BY <2>2, <1>c
    <3>4. /\ Cardinality(PastGate(n, c)') <= Cardinality(PastGate(n, c) \ {w})
          /\ Cardinality(PastGate(n, c)') \in Nat
      BY <3>3, CardinalityMonotone
    <3>5. Cardinality(PastGate(n, c) \ {w}) = Cardinality(PastGate(n, c)) - 1
      BY <1>c, <3>2, FS_RemoveElement
    <3>. QED
      BY <1>t, <1>c, <2>0, <3>1, <3>4, <3>5
  <2>4. CASE ~(n = task[w].notif /\ c = Channel(w))
    <3>1. failed'[n][c] = failed[n][c]
      BY <1>t, <2>0, <2>4 DEF Tally, Counter
    <3>. QED
      BY <1>1, <1>t, <2>0, <2>2, <3>1
  <2>. QED
    BY <2>3, <2>4
<1>8. ASSUME NEW w \in Workers, task' = [task EXCEPT ![w] = Idle],
             UNCHANGED <<failed, copies>>
      PROVE  G'
  <2>1. PastGate(n, c)' \in SUBSET PastGate(n, c)
    BY <1>8, IdleFields, PastGateLeft
  <2>2. failed'[n][c] = failed[n][c] /\ copies'[n] = copies[n]
    BY <1>8
  <2>. QED
    BY <1>1, <1>t, <2>1, <2>2
<1>9. ASSUME UNCHANGED vars PROVE G'
  BY <1>1, <1>9, <1>t, PastGateShrinks DEF vars, rows
<1>10. ASSUME NEW w \in Workers, MarkProcessing(w) \/ ScanChannel(w) PROVE G'
  <2>1. UNCHANGED <<failed, copies>>
    BY <1>10 DEF MarkProcessing, ScanChannel, rows
  <2>2. PICK u : Moves(w, u) /\ u.step \in {"scan", "count"}
    BY <1>10, MarkProcessingMoves, ScanChannelMoves
  <2>. QED
    BY <1>4, <2>1, <2>2
<1>11. ASSUME NEW w \in Workers,
              RecordSuccess(w) \/ ScheduleRetry(w) \/ MarkFailed(w) \/ LoseTask(w)
       PROVE  G'
  BY <1>8, <1>11 DEF RecordSuccess, ScheduleRetry, MarkFailed, LoseTask, rows
<1>. QED
  BY <1>2, <1>3, <1>5, <1>6, <1>7, <1>9, <1>10, <1>11 DEF Next, Execute

(* The retry limit, for any number of workers and any interleaving: each    *)
(* further copy of the delivery message costs at most one attempt more per  *)
(* channel, and the copies alone decide it, not the number of workers.      *)
THEOREM AttemptBoundCorrect == Spec => []AttemptBound
<1>1. Typed /\ GateBound => AttemptBound
  <2>. SUFFICES ASSUME Typed, GateBound, NEW n \in Notifications, NEW c \in Channels
                PROVE  failed[n][c] <= MAX_RETRIES_PER_CHANNEL - 1 + copies[n]
    BY DEF AttemptBound
  <2>1. Cardinality(PastGate(n, c)) \in Nat
    BY CardinalityMonotone DEF PastGate, Running
  <2>2. failed[n][c] \in Nat /\ copies[n] \in Nat /\ MAX_RETRIES_PER_CHANNEL \in Nat
    BY DeliveryAssumption DEF Typed, TypeOK, Counter
  <2>. QED
    BY <2>1, <2>2 DEF GateBound
<1>. QED
  BY <1>1, TypedInit, TypedStep, MessageInit, MessageStep, GateStep, PTL DEF Spec

-----------------------------------------------------------------------------
(* A delivery uses up its message: with one message, nothing of the         *)
(* notification is left to run once it is delivered.                        *)
UsedUp ==
  \A n \in Notifications : copies[n] <= 1 /\ Delivered(n) =>
    /\ copies[n] = 1 /\ queue[n] = 0 /\ Running(n) = {}
    /\ status[n] = "sent"
    /\ \A c, d \in Channels :
         succeeded[n][c] > 0 /\ succeeded[n][d] > 0 => c = d /\ succeeded[n][c] = 1

LEMMA UsedUpInit == Init => UsedUp
<1>. SUFFICES ASSUME Init, NEW n \in Notifications PROVE ~Delivered(n)
  BY DEF UsedUp
<1>1. \A c \in Channels : succeeded[n][c] = 0
  BY DEF Init
<1>. QED
  BY <1>1 DEF Delivered

(* Only the worker that acts changes what belongs to its notification.      *)
LEMMA OtherNotification ==
  ASSUME Typed, NEW w \in Workers, Execute(w) \/ LoseTask(w),
         NEW n \in Notifications, n # task[w].notif
  PROVE  /\ status'[n] = status[n] /\ succeeded'[n] = succeeded[n]
         /\ queue'[n] = queue[n] /\ copies' = copies
         /\ Running(n)' = Running(n)
<1>t. /\ status \in [Notifications -> Status] /\ succeeded \in Counter
      /\ queue \in [Notifications -> Nat] /\ task \in [Workers -> Execution]
  BY DEF Typed, TypeOK
<1>1. succeeded' = succeeded \/ succeeded' = Tally(succeeded, task[w].notif, Channel(w))
  BY DEF Execute, MarkProcessing, ScanChannel, CountAttempts, CallProvider, RecordSuccess,
         RecordFailure, ScheduleRetry, MarkFailed, LoseTask, rows
<1>2. succeeded'[n] = succeeded[n]
  BY <1>t, <1>1 DEF Tally, Counter
<1>3. /\ queue'[n] = queue[n] /\ copies' = copies
  BY <1>t DEF Execute, MarkProcessing, ScanChannel, CountAttempts, CallProvider,
     RecordSuccess, RecordFailure, ScheduleRetry, MarkFailed, LoseTask
<1>4. status'[n] = status[n]
  BY <1>t DEF Execute, MarkProcessing, ScanChannel, CountAttempts, CallProvider,
     RecordSuccess, RecordFailure, ScheduleRetry, MarkFailed, LoseTask, rows
<1>5. Running(n)' = Running(n)
  <2>1. CASE \E u : Moves(w, u)
    BY <2>1, RunningMoves
  <2>2. CASE task' = [task EXCEPT ![w] = Idle]
    BY <2>2, RunningIdle DEF Running
  <2>. QED
    BY <2>1, <2>2, MarkProcessingMoves, ScanChannelMoves, CountAttemptsMoves,
       CallProviderMoves, RecordFailureMoves
    DEF Execute, RecordSuccess, ScheduleRetry, MarkFailed, LoseTask
<1>. QED
  BY <1>2, <1>3, <1>4, <1>5

LEMMA UsedUpStep == Typed /\ MessageBound /\ UsedUp /\ [Next]_vars => UsedUp'
<1>. SUFFICES ASSUME Typed, MessageBound, UsedUp, [Next]_vars, NEW n \in Notifications,
                     copies'[n] <= 1, Delivered(n)'
              PROVE  /\ copies'[n] = 1 /\ queue'[n] = 0 /\ Running(n)' = {}
                     /\ status'[n] = "sent"
                     /\ \A c, d \in Channels :
                          succeeded'[n][c] > 0 /\ succeeded'[n][d] > 0
                            => c = d /\ succeeded'[n][c] = 1
  BY DEF UsedUp
<1>t. /\ status \in [Notifications -> Status] /\ succeeded \in Counter
      /\ queue \in [Notifications -> Nat] /\ copies \in [Notifications -> Nat]
      /\ task \in [Workers -> Execution]
      /\ queue[n] + Cardinality(Running(n)) <= copies[n]
  BY DEF Typed, TypeOK, MessageBound
<1>c. /\ Running(n) \in SUBSET Workers /\ IsFiniteSet(Running(n))
      /\ Cardinality(Running(n)) \in Nat
  BY CardinalityMonotone DEF Running
<1>u. copies[n] <= 1 /\ Delivered(n) =>
        /\ copies[n] = 1 /\ queue[n] = 0 /\ Running(n) = {} /\ status[n] = "sent"
        /\ \A c, d \in Channels :
             succeeded[n][c] > 0 /\ succeeded[n][d] > 0 => c = d /\ succeeded[n][c] = 1
  BY DEF UsedUp
<1>1. ASSUME status'[n] = status[n], succeeded'[n] = succeeded[n], queue'[n] = queue[n],
             copies'[n] = copies[n], Running(n)' = Running(n)
      PROVE  /\ copies'[n] = 1 /\ queue'[n] = 0 /\ Running(n)' = {}
             /\ status'[n] = "sent"
             /\ \A c, d \in Channels :
                  succeeded'[n][c] > 0 /\ succeeded'[n][d] > 0
                    => c = d /\ succeeded'[n][c] = 1
  BY <1>1, <1>u DEF Delivered
<1>2. ASSUME NEW m \in Notifications, Publish(m)
      PROVE  status'[n] = status[n] /\ succeeded'[n] = succeeded[n] /\ queue'[n] = queue[n]
             /\ copies'[n] = copies[n] /\ Running(n)' = Running(n)
  <2>1. UNCHANGED <<status, succeeded>> /\ Running(n)' = Running(n)
    BY <1>2 DEF Publish, rows, Running
  <2>2. m # n
    BY <1>2, <1>t, <1>u, <2>1 DEF Publish, Delivered
  <2>. QED
    BY <1>2, <1>t, <2>1, <2>2 DEF Publish
<1>3. ASSUME NEW w \in Workers, NEW m \in Notifications, Load(w, m)
      PROVE  status'[n] = status[n] /\ succeeded'[n] = succeeded[n] /\ queue'[n] = queue[n]
             /\ copies'[n] = copies[n] /\ Running(n)' = Running(n)
  <2>1. UNCHANGED <<status, succeeded, copies>> /\ task[w] = Idle /\ queue[m] > 0
    BY <1>3 DEF Load, rows
  <2>2. m # n
    BY <1>t, <1>u, <2>1 DEF Delivered
  <2>3. ASSUME NEW chs \in Priorities[m], NEW s \in {"mark", "scan"},
               task' = [task EXCEPT ![w] = Begin(m, chs, s)]
        PROVE  Running(n)' = Running(n)
    <3>1. task'[w].notif = m /\ \A v \in Workers \ {w} : task'[v] = task[v]
      BY <2>3, <1>t DEF Begin
    <3>2. task[w].notif # n
      BY <2>1, IdleFields, DeliveryAssumption
    <3>. QED
      BY <2>2, <3>1, <3>2 DEF Running
  <2>4. Running(n)' = Running(n)
    BY <1>3, <2>3 DEF Load, Running
  <2>. QED
    BY <1>3, <1>t, <2>1, <2>2, <2>4 DEF Load
<1>4. ASSUME NEW w \in Workers, Execute(w) \/ LoseTask(w), task[w].notif = n
      PROVE  RecordSuccess(w) /\ ~Delivered(n)
  <2>1. w \in Running(n) /\ copies' = copies
    BY <1>4 DEF Running, Execute, MarkProcessing, ScanChannel, CountAttempts, CallProvider,
       RecordSuccess, RecordFailure, ScheduleRetry, MarkFailed, LoseTask
  <2>2. ~Delivered(n)
    BY <1>u, <2>1
  <2>3. ~UNCHANGED succeeded
    BY <2>2 DEF Delivered
  <2>. QED
    BY <1>4, <2>2, <2>3 DEF Execute, MarkProcessing, ScanChannel, CountAttempts,
       CallProvider, RecordFailure, ScheduleRetry, MarkFailed, LoseTask, rows
<1>5. ASSUME NEW w \in Workers, RecordSuccess(w), task[w].notif = n, ~Delivered(n)
      PROVE  /\ copies'[n] = 1 /\ queue'[n] = 0 /\ Running(n)' = {}
             /\ status'[n] = "sent"
             /\ \A c, d \in Channels :
                  succeeded'[n][c] > 0 /\ succeeded'[n][d] > 0
                    => c = d /\ succeeded'[n][c] = 1
  <2>1. w \in Running(n) /\ Running(n)' = Running(n) \ {w}
    BY <1>5, RunningIdle DEF Running, RecordSuccess
  <2>2. Cardinality(Running(n) \ {w}) = Cardinality(Running(n)) - 1
    BY <1>c, <2>1, FS_RemoveElement
  <2>3. IsFiniteSet(Running(n) \ {w}) /\ Cardinality(Running(n) \ {w}) \in Nat
    BY <1>c, CardinalityMonotone
  <2>4. queue'[n] = queue[n] /\ copies'[n] = copies[n]
    BY <1>5 DEF RecordSuccess
  <2>5. queue[n] = 0 /\ copies[n] = 1 /\ Cardinality(Running(n) \ {w}) = 0
    BY <1>t, <1>c, <2>2, <2>3, <2>4
  <2>6. Running(n)' = {}
    BY <2>1, <2>3, <2>5, FS_EmptySet
  <2>7. status'[n] = "sent"
    BY <1>5, <1>t DEF RecordSuccess
  <2>8. \A c \in Channels : succeeded'[n][c] = IF c = Channel(w) THEN 1 ELSE 0
    <3>1. \A c \in Channels : succeeded[n][c] = 0
      BY <1>5, <1>t DEF Delivered, Counter
    <3>2. succeeded' = Tally(succeeded, n, Channel(w))
      BY <1>5 DEF RecordSuccess
    <3>. QED
      BY <1>t, <3>1, <3>2 DEF Tally, Counter
  <2>. QED
    BY <2>4, <2>5, <2>6, <2>7, <2>8
<1>6. ASSUME UNCHANGED vars
      PROVE  status'[n] = status[n] /\ succeeded'[n] = succeeded[n] /\ queue'[n] = queue[n]
             /\ copies'[n] = copies[n] /\ Running(n)' = Running(n)
  BY <1>6 DEF vars, rows, Running
<1>7. ASSUME NEW w \in Workers, Execute(w) \/ LoseTask(w), task[w].notif # n
      PROVE  status'[n] = status[n] /\ succeeded'[n] = succeeded[n] /\ queue'[n] = queue[n]
             /\ copies'[n] = copies[n] /\ Running(n)' = Running(n)
  BY <1>7, OtherNotification
<1>. QED
  <2>1. CASE \E w \in Workers : (Execute(w) \/ LoseTask(w)) /\ task[w].notif = n
    BY <2>1, <1>4, <1>5
  <2>2. CASE ~\E w \in Workers : (Execute(w) \/ LoseTask(w)) /\ task[w].notif = n
    <3>1. status'[n] = status[n] /\ succeeded'[n] = succeeded[n] /\ queue'[n] = queue[n]
             /\ copies'[n] = copies[n] /\ Running(n)' = Running(n)
      BY <2>2, <1>2, <1>3, <1>6, <1>7 DEF Next
    <3>. QED
      BY <3>1, <1>1
  <2>. QED
    BY <2>1, <2>2

(* One delivery message, one delivery: whatever is retried, refused or lost *)
(* on the way, and however many workers there are.                          *)
THEOREM SingleCopyCorrect == Spec => []SingleCopyIsExact
<1>1. Typed /\ UsedUp => SingleCopyIsExact
  <2>. SUFFICES ASSUME Typed, UsedUp, NEW n \in Notifications, copies[n] <= 1
                PROVE  /\ Delivered(n) => status[n] = "sent"
                       /\ \A c, d \in Channels :
                            succeeded[n][c] > 0 /\ succeeded[n][d] > 0
                              => c = d /\ succeeded[n][c] = 1
    BY DEF SingleCopyIsExact
  <2>. QED
    BY DEF UsedUp, Delivered
<1>. QED
  BY <1>1, TypedInit, TypedStep, MessageInit, MessageStep, UsedUpInit, UsedUpStep, PTL
  DEF Spec

-----------------------------------------------------------------------------
(* The audit trail. AcceptedIsAudited is inductive: a message the provider  *)
(* took is owed a row by the execution in its "record" step, and that       *)
(* execution writes the row or is lost.                                     *)
LEMMA AuditedInit == Init => AcceptedIsAudited
<1>. SUFFICES ASSUME Init, NEW n \in Notifications, NEW c \in Channels
              PROVE  accepted[n][c] <= succeeded[n][c] + failed[n][c]
                                       + Cardinality(Recording(n, c)) + faults
  BY DEF AcceptedIsAudited
<1>1. accepted[n][c] = 0 /\ succeeded[n][c] = 0 /\ failed[n][c] = 0 /\ faults = 0
  BY DEF Init
<1>2. Cardinality(Recording(n, c)) \in Nat
  BY CardinalityMonotone DEF Recording, PastGate, Running
<1>. QED
  BY <1>1, <1>2

(* A step of one worker takes nobody else off those about to write a row.   *)
LEMMA RecordingKept ==
  ASSUME NEW w \in Workers, \A v \in Workers \ {w} : task'[v] = task[v],
         NEW n \in Notifications, NEW c \in Channels
  PROVE  /\ Recording(n, c) \ {w} \in SUBSET Recording(n, c)'
         /\ Cardinality(Recording(n, c)') \in Nat /\ Cardinality(Recording(n, c)) \in Nat
         /\ w \notin Recording(n, c) =>
              Cardinality(Recording(n, c)') >= Cardinality(Recording(n, c))
         /\ Cardinality(Recording(n, c)') >= Cardinality(Recording(n, c)) - 1
<1>1. /\ Recording(n, c) \ {w} \in SUBSET Recording(n, c)'
      /\ Recording(n, c) \in SUBSET Workers /\ Recording(n, c)' \in SUBSET Workers
  BY DEF Recording, PastGate, Running, Channel
<1>2. /\ Cardinality(Recording(n, c)') \in Nat /\ Cardinality(Recording(n, c)) \in Nat
      /\ IsFiniteSet(Recording(n, c))
      /\ Cardinality(Recording(n, c) \ {w}) <= Cardinality(Recording(n, c)')
  BY <1>1, CardinalityMonotone
<1>3. Cardinality(Recording(n, c) \ {w}) =
        IF w \in Recording(n, c) THEN Cardinality(Recording(n, c)) - 1
                                 ELSE Cardinality(Recording(n, c))
  BY <1>2, FS_RemoveElement
<1>. QED
  BY <1>1, <1>2, <1>3

LEMMA AuditedStep == Typed /\ AcceptedIsAudited /\ [Next]_vars => AcceptedIsAudited'
<1>. SUFFICES ASSUME Typed, AcceptedIsAudited, [Next]_vars,
                     NEW n \in Notifications, NEW c \in Channels
              PROVE  (accepted[n][c] <= succeeded[n][c] + failed[n][c]
                                        + Cardinality(Recording(n, c)) + faults)'
  BY DEF AcceptedIsAudited
<1>. DEFINE A == accepted[n][c] <= succeeded[n][c] + failed[n][c]
                                   + Cardinality(Recording(n, c)) + faults
            R == Cardinality(Recording(n, c))
<1>t. /\ accepted \in Counter /\ succeeded \in Counter /\ failed \in Counter
      /\ accepted[n][c] \in Nat /\ succeeded[n][c] \in Nat /\ failed[n][c] \in Nat
      /\ faults \in Nat /\ task \in [Workers -> Execution]
      /\ A
  BY DEF Typed, TypeOK, Counter, AcceptedIsAudited
<1>c. R \in Nat /\ R' \in Nat
  BY CardinalityMonotone DEF Recording, PastGate, Running
<1>1. ASSUME UNCHANGED <<accepted, succeeded, failed, faults>>, R' >= R PROVE A'
  BY <1>1, <1>t, <1>c
<1>2. ASSUME UNCHANGED <<accepted, succeeded, failed, faults, task>> PROVE A'
  <2>1. Recording(n, c)' = Recording(n, c)
    BY <1>2 DEF Recording, PastGate, Running, Channel
  <2>. QED
    BY <1>1, <1>2, <1>c, <2>1
<1>3. ASSUME NEW w \in Workers, UNCHANGED <<accepted, succeeded, failed, faults>>,
             \A v \in Workers \ {w} : task'[v] = task[v], task[w].step # "record"
      PROVE  A'
  <2>1. w \notin Recording(n, c)
    BY <1>3 DEF Recording
  <2>. QED
    BY <1>1, <1>3, <2>1, RecordingKept
<1>4. ASSUME NEW w \in Workers, NEW m \in Notifications, Load(w, m) PROVE A'
  <2>1. /\ UNCHANGED <<accepted, succeeded, failed, faults>>
        /\ \A v \in Workers \ {w} : task'[v] = task[v]
        /\ task[w].step # "record"
    BY <1>4, <1>t, IdleFields DEF Load, rows
  <2>. QED
    BY <1>3, <2>1
<1>5. ASSUME NEW w \in Workers,
             \/ MarkProcessing(w) \/ ScanChannel(w) \/ CountAttempts(w)
             \/ ScheduleRetry(w) \/ MarkFailed(w)
      PROVE  A'
  <2>1. /\ UNCHANGED <<accepted, succeeded, failed, faults>>
        /\ \A v \in Workers \ {w} : task'[v] = task[v]
        /\ task[w].step # "record"
    BY <1>5, <1>t
    DEF MarkProcessing, ScanChannel, CountAttempts, ScheduleRetry, MarkFailed, rows
  <2>. QED
    BY <1>3, <2>1
<1>6. ASSUME NEW w \in Workers, CallProvider(w) PROVE A'
  <2>1. PICK u : /\ Moves(w, u) /\ u.step = "record" /\ u.pos = task[w].pos
                 /\ accepted' \in {accepted, Tally(accepted, task[w].notif, Channel(w))}
    BY <1>6, CallProviderMoves
  <2>2. /\ UNCHANGED <<succeeded, failed, faults>> /\ task[w].step = "send"
        /\ task'[w] = u /\ \A v \in Workers \ {w} : task'[v] = task[v]
    BY <1>6, <1>t, <2>1 DEF CallProvider, rows, Moves
  <2>3. w \notin Recording(n, c) /\ R' >= R
    BY <2>2, RecordingKept DEF Recording
  <2>4. CASE n = task[w].notif /\ c = Channel(w)
    <3>1. accepted'[n][c] <= accepted[n][c] + 1 /\ accepted'[n][c] \in Nat
      BY <1>t, <2>1, <2>4, TallyType
    <3>2. Recording(n, c) \cup {w} \in SUBSET Recording(n, c)'
      BY <2>1, <2>2, <2>3, <2>4, RecordingKept
      DEF Moves, Recording, PastGate, Running, Channel
    <3>3. /\ Recording(n, c)' \in SUBSET Workers /\ IsFiniteSet(Recording(n, c))
      BY CardinalityMonotone DEF Recording, PastGate, Running
    <3>4. Cardinality(Recording(n, c) \cup {w}) = R + 1
      BY <2>3, <3>3, FS_AddElement
    <3>5. R' >= R + 1
      BY <1>c, <3>2, <3>3, <3>4, CardinalityMonotone
    <3>. QED
      BY <1>t, <1>c, <2>2, <3>1, <3>5
  <2>5. CASE ~(n = task[w].notif /\ c = Channel(w))
    <3>1. accepted'[n][c] = accepted[n][c]
      BY <1>t, <2>1, <2>5 DEF Tally, Counter
    <3>. QED
      BY <1>t, <1>c, <2>2, <2>3, <3>1
  <2>. QED
    BY <2>4, <2>5
<1>7. ASSUME NEW w \in Workers, RecordSuccess(w) \/ RecordFailure(w) PROVE A'
  <2>1. /\ UNCHANGED <<accepted, faults>> /\ task[w].step = "record"
        /\ \A v \in Workers \ {w} : task'[v] = task[v]
        /\ \/ /\ succeeded' = Tally(succeeded, task[w].notif, Channel(w))
              /\ failed' = failed
           \/ /\ failed' = Tally(failed, task[w].notif, Channel(w))
              /\ succeeded' = succeeded
    BY <1>7, <1>t DEF RecordSuccess, RecordFailure
  <2>2. CASE n = task[w].notif /\ c = Channel(w)
    <3>1. /\ succeeded'[n][c] + failed'[n][c] = succeeded[n][c] + failed[n][c] + 1
          /\ succeeded'[n][c] \in Nat /\ failed'[n][c] \in Nat
      <4>1. /\ Tally(succeeded, n, c)[n][c] = succeeded[n][c] + 1
            /\ Tally(failed, n, c)[n][c] = failed[n][c] + 1
        BY <1>t, TallyType
      <4>. QED
        BY <1>t, <2>1, <2>2, <4>1
    <3>2. R' >= R - 1
      BY <2>1, RecordingKept
    <3>. QED
      BY <1>t, <1>c, <2>1, <3>1, <3>2
  <2>3. CASE ~(n = task[w].notif /\ c = Channel(w))
    <3>1. succeeded'[n][c] = succeeded[n][c] /\ failed'[n][c] = failed[n][c]
      BY <1>t, <2>1, <2>3 DEF Tally, Counter
    <3>2. w \notin Recording(n, c)
      BY <2>3 DEF Recording, PastGate, Running
    <3>3. R' >= R
      BY <2>1, <3>2, RecordingKept
    <3>. QED
      BY <1>t, <1>c, <2>1, <3>1, <3>3
  <2>. QED
    BY <2>2, <2>3
<1>8. ASSUME NEW w \in Workers, LoseTask(w) PROVE A'
  <2>1. /\ UNCHANGED <<accepted, succeeded, failed>> /\ faults' = faults + 1
        /\ \A v \in Workers \ {w} : task'[v] = task[v]
    BY <1>8, <1>t DEF LoseTask, rows
  <2>2. R' >= R - 1
    BY <2>1, RecordingKept
  <2>. QED
    BY <1>t, <1>c, <2>1, <2>2
<1>9. ASSUME NEW m \in Notifications, Publish(m) PROVE A'
  BY <1>2, <1>9 DEF Publish, rows
<1>10. CASE UNCHANGED vars
  BY <1>2, <1>10 DEF vars, rows
<1>. QED
  BY <1>4, <1>5, <1>6, <1>7, <1>8, <1>9, <1>10 DEF Next, Execute

(* No message a provider took goes without a row, except one for each       *)
(* execution about to write it and for each execution lost.                 *)
THEOREM AuditCorrect == Spec => []AcceptedIsAudited
BY TypedInit, TypedStep, AuditedInit, AuditedStep, PTL DEF Spec

-----------------------------------------------------------------------------
(* What a user receives. A message the provider took has cost the           *)
(* notification something that a further message must have of its own: a    *)
(* failed attempt, or an execution that is about to write its row or is     *)
(* gone. The others are Free to send; those that have passed the gate are   *)
(* Sending.                                                                 *)
Free(n, c)    == Running(n) \ Recording(n, c)
Sending(n, c) == PastGate(n, c) \ Recording(n, c)

FreeBound ==
  \A n \in Notifications, c \in Channels :
    accepted[n][c] + queue[n] + Cardinality(Free(n, c)) <= copies[n] + failed[n][c]

SendBound ==
  \A n \in Notifications, c \in Channels :
    accepted[n][c] + Cardinality(Sending(n, c)) <= MAX_RETRIES_PER_CHANNEL - 1 + copies[n]

LEMMA FreeInit == Init => FreeBound /\ SendBound
<1>. SUFFICES ASSUME Init, NEW n \in Notifications, NEW c \in Channels
              PROVE  /\ accepted[n][c] + queue[n] + Cardinality(Free(n, c))
                          <= copies[n] + failed[n][c]
                     /\ accepted[n][c] + Cardinality(Sending(n, c))
                          <= MAX_RETRIES_PER_CHANNEL - 1 + copies[n]
  BY DEF FreeBound, SendBound
<1>1. Free(n, c) = {} /\ Sending(n, c) = {}
  BY IdleFields, DeliveryAssumption DEF Init, Free, Sending, Running, PastGate
<1>2. Cardinality(Free(n, c)) = 0 /\ Cardinality(Sending(n, c)) = 0
  BY <1>1, FS_EmptySet
<1>3. accepted[n][c] = 0 /\ failed[n][c] = 0 /\ queue[n] = 0 /\ copies[n] = 0
  BY DEF Init
<1>. QED
  BY <1>2, <1>3, DeliveryAssumption

(* What one worker can do to the size of a set of workers.                  *)
LEMMA OneMoves ==
  ASSUME NEW S \in SUBSET Workers, NEW T \in SUBSET Workers, NEW w \in Workers,
         T \in SUBSET (S \cup {w})
  PROVE  /\ Cardinality(S) \in Nat /\ Cardinality(T) \in Nat
         /\ Cardinality(T) <= Cardinality(S) + 1
         /\ w \in S \/ w \notin T => Cardinality(T) <= Cardinality(S)
         /\ w \in S /\ w \notin T => Cardinality(T) <= Cardinality(S) - 1
<1>1. /\ IsFiniteSet(S) /\ Cardinality(S) \in Nat /\ Cardinality(T) \in Nat
  BY CardinalityMonotone
<1>2. CASE w \in S
  <2>1. T \in SUBSET S /\ Cardinality(T) <= Cardinality(S)
    BY <1>2, CardinalityMonotone
  <2>2. Cardinality(S \ {w}) = Cardinality(S) - 1
    BY <1>1, <1>2, FS_RemoveElement
  <2>3. ASSUME w \notin T PROVE Cardinality(T) <= Cardinality(S \ {w})
    <3>1. T \in SUBSET (S \ {w}) /\ S \ {w} \in SUBSET Workers
      BY <2>3
    <3>. QED
      BY <3>1, CardinalityMonotone
  <2>. QED
    BY <1>1, <1>2, <2>1, <2>2, <2>3
<1>3. CASE w \notin S
  <2>1. Cardinality(S \cup {w}) = Cardinality(S) + 1
    BY <1>1, <1>3, FS_AddElement
  <2>2. Cardinality(T) <= Cardinality(S \cup {w})
    <3>1. T \in SUBSET (S \cup {w}) /\ S \cup {w} \in SUBSET Workers
      OBVIOUS
    <3>. QED
      BY <3>1, CardinalityMonotone
  <2>3. w \notin T => T \in SUBSET S
    OBVIOUS
  <2>. QED
    BY <1>1, <1>3, <2>1, <2>2, <2>3, CardinalityMonotone
<1>. QED
  BY <1>2, <1>3

(* A step of one worker frees nobody else, and lets nobody else send.       *)
LEMMA FreeOthers ==
  ASSUME NEW w \in Workers, \A v \in Workers \ {w} : task'[v] = task[v],
         NEW n \in Notifications, NEW c \in Channels
  PROVE  /\ Free(n, c) \in SUBSET Workers /\ Free(n, c)' \in SUBSET Workers
         /\ Sending(n, c) \in SUBSET Workers /\ Sending(n, c)' \in SUBSET Workers
         /\ Free(n, c)' \in SUBSET (Free(n, c) \cup {w})
         /\ Sending(n, c)' \in SUBSET (Sending(n, c) \cup {w})
         /\ Sending(n, c)' \in SUBSET Free(n, c)'
BY DEF Free, Sending, Recording, PastGate, Running, Channel

LEMMA FreeStep == Typed /\ FreeBound /\ [Next]_vars => FreeBound'
<1>. SUFFICES ASSUME Typed, FreeBound, [Next]_vars,
                     NEW n \in Notifications, NEW c \in Channels
              PROVE  (accepted[n][c] + queue[n] + Cardinality(Free(n, c))
                        <= copies[n] + failed[n][c])'
  BY DEF FreeBound
<1>. DEFINE B == accepted[n][c] + queue[n] + Cardinality(Free(n, c))
                   <= copies[n] + failed[n][c]
            F == Cardinality(Free(n, c))
<1>t. /\ accepted \in Counter /\ failed \in Counter
      /\ accepted[n][c] \in Nat /\ failed[n][c] \in Nat
      /\ queue \in [Notifications -> Nat] /\ copies \in [Notifications -> Nat]
      /\ queue[n] \in Nat /\ copies[n] \in Nat
      /\ task \in [Workers -> Execution]
      /\ B
  BY DEF Typed, TypeOK, Counter, FreeBound
<1>c. ASSUME NEW w \in Workers, \A v \in Workers \ {w} : task'[v] = task[v]
      PROVE  /\ F \in Nat /\ F' \in Nat /\ F' <= F + 1
             /\ w \in Free(n, c) \/ w \notin Free(n, c)' => F' <= F
             /\ w \in Free(n, c) /\ w \notin Free(n, c)' => F' <= F - 1
  <2>1. /\ Free(n, c) \in SUBSET Workers /\ Free(n, c)' \in SUBSET Workers
        /\ Free(n, c)' \in SUBSET (Free(n, c) \cup {w})
    BY <1>c, FreeOthers
  <2>. QED
    BY <2>1, OneMoves
<1>1. ASSUME UNCHANGED <<accepted, queue, copies, failed>>,
             NEW w \in Workers, \A v \in Workers \ {w} : task'[v] = task[v],
             w \in Free(n, c) \/ w \notin Free(n, c)'
      PROVE  B'
  <2>1. F \in Nat /\ F' \in Nat /\ F' <= F
    BY <1>1, <1>c
  <2>. QED
    BY <1>1, <1>t, <2>1
<1>2. ASSUME UNCHANGED <<accepted, failed, task>>,
             queue'[n] \in Nat, copies'[n] \in Nat,
             queue'[n] - queue[n] <= copies'[n] - copies[n]
      PROVE  B'
  <2>1. Free(n, c)' = Free(n, c)
    BY <1>2 DEF Free, Recording, PastGate, Running, Channel
  <2>2. F \in Nat
    BY CardinalityMonotone DEF Free, Running
  <2>. QED
    BY <1>2, <1>t, <2>1, <2>2
<1>3. ASSUME NEW m \in Notifications, Publish(m) PROVE B'
  <2>1. UNCHANGED <<accepted, failed, task>>
    BY <1>3 DEF Publish, rows
  <2>2. /\ queue'[n] \in Nat /\ copies'[n] \in Nat
        /\ queue'[n] - queue[n] <= copies'[n] - copies[n]
    BY <1>3, <1>t DEF Publish
  <2>. QED
    BY <1>2, <2>1, <2>2
<1>4. ASSUME NEW w \in Workers, NEW m \in Notifications, Load(w, m) PROVE B'
  <2>1. /\ UNCHANGED <<accepted, failed, copies>> /\ task[w] = Idle
        /\ \A v \in Workers \ {w} : task'[v] = task[v]
        /\ queue'[n] = IF n = m THEN queue[n] - 1 ELSE queue[n]
        /\ task'[w] = Idle \/ task'[w].notif = m
    BY <1>4, <1>t DEF Load, rows, Begin
  <2>2. n # m => w \notin Free(n, c)'
    BY <2>1, IdleFields, DeliveryAssumption DEF Free, Running
  <2>3. F \in Nat /\ F' \in Nat /\ F' <= F + 1 /\ (n # m => F' <= F)
    BY <1>c, <2>1, <2>2
  <2>. QED
    BY <1>t, <2>1, <2>3
<1>5. ASSUME NEW w \in Workers, MarkProcessing(w) \/ ScanChannel(w) \/ CountAttempts(w)
      PROVE  B'
  <2>1. /\ UNCHANGED <<accepted, queue, copies, failed>> /\ task[w].step # "record"
        /\ \E u : Moves(w, u)
    BY <1>5, MarkProcessingMoves, ScanChannelMoves, CountAttemptsMoves
    DEF MarkProcessing, ScanChannel, CountAttempts, rows
  <2>2. /\ \A v \in Workers \ {w} : task'[v] = task[v]
        /\ task'[w].notif = task[w].notif
    BY <1>t, <2>1 DEF Moves
  <2>3. w \in Free(n, c)' => w \in Free(n, c)
    BY <2>1, <2>2 DEF Free, Running, Recording
  <2>. QED
    BY <1>1, <2>1, <2>2, <2>3
<1>6. ASSUME NEW w \in Workers, CallProvider(w) PROVE B'
  <2>1. PICK u : /\ Moves(w, u) /\ u.step = "record" /\ u.pos = task[w].pos
                 /\ accepted' \in {accepted, Tally(accepted, task[w].notif, Channel(w))}
    BY <1>6, CallProviderMoves
  <2>2. /\ UNCHANGED <<queue, copies, failed>> /\ task[w].step = "send"
        /\ task'[w] = u /\ \A v \in Workers \ {w} : task'[v] = task[v]
    BY <1>6, <1>t, <2>1 DEF CallProvider, rows, Moves
  <2>3. CASE n = task[w].notif /\ c = Channel(w)
    <3>1. accepted'[n][c] <= accepted[n][c] + 1 /\ accepted'[n][c] \in Nat
      BY <1>t, <2>1, <2>3, TallyType
    <3>2. w \in Free(n, c) /\ w \notin Free(n, c)'
      BY <2>1, <2>2, <2>3 DEF Moves, Free, Recording, PastGate, Running, Channel
    <3>3. F \in Nat /\ F' \in Nat /\ F' <= F - 1
      BY <1>c, <2>2, <3>2
    <3>. QED
      BY <1>t, <2>2, <3>1, <3>3
  <2>4. CASE ~(n = task[w].notif /\ c = Channel(w))
    <3>1. accepted'[n][c] = accepted[n][c]
      BY <1>t, <2>1, <2>4 DEF Tally, Counter
    <3>2. w \in Free(n, c)' => w \in Free(n, c)
      BY <2>1, <2>2 DEF Moves, Free, Recording, Running
    <3>3. F \in Nat /\ F' \in Nat /\ F' <= F
      BY <1>c, <2>2, <3>2
    <3>. QED
      BY <1>t, <2>2, <3>1, <3>3
  <2>. QED
    BY <2>3, <2>4
<1>7. ASSUME NEW w \in Workers, RecordFailure(w) PROVE B'
  <2>1. PICK u : Moves(w, u)
    BY <1>7, RecordFailureMoves
  <2>2. /\ UNCHANGED <<accepted, queue, copies>>
        /\ failed' = Tally(failed, task[w].notif, Channel(w))
        /\ task'[w] = u /\ \A v \in Workers \ {w} : task'[v] = task[v]
    BY <1>7, <1>t, <2>1 DEF RecordFailure, Moves
  <2>3. CASE n = task[w].notif /\ c = Channel(w)
    <3>1. failed'[n][c] = failed[n][c] + 1
      BY <1>t, <2>2, <2>3, TallyType
    <3>2. F \in Nat /\ F' \in Nat /\ F' <= F + 1
      BY <1>c, <2>2
    <3>. QED
      BY <1>t, <2>2, <3>1, <3>2
  <2>4. CASE ~(n = task[w].notif /\ c = Channel(w))
    <3>1. failed'[n][c] = failed[n][c]
      BY <1>t, <2>2, <2>4 DEF Tally, Counter
    <3>2. w \in Free(n, c)' => w \in Free(n, c)
      BY <2>1, <2>2, <2>4 DEF Moves, Free, Recording, PastGate, Running
    <3>3. F \in Nat /\ F' \in Nat /\ F' <= F
      BY <1>c, <2>2, <3>2
    <3>. QED
      BY <1>t, <2>2, <3>1, <3>3
  <2>. QED
    BY <2>3, <2>4
<1>8. ASSUME NEW w \in Workers, task' = [task EXCEPT ![w] = Idle]
      PROVE  w \notin Free(n, c)' /\ \A v \in Workers \ {w} : task'[v] = task[v]
  BY <1>8, <1>t, IdleFields, DeliveryAssumption DEF Free, Running
<1>9. ASSUME NEW w \in Workers, ScheduleRetry(w) PROVE B'
  <2>1. /\ UNCHANGED <<accepted, copies, failed>> /\ task[w].step = "retry"
        /\ queue'[n] = IF n = task[w].notif THEN queue[n] + 1 ELSE queue[n]
        /\ task' = [task EXCEPT ![w] = Idle]
    BY <1>9, <1>t DEF ScheduleRetry, rows
  <2>2. n = task[w].notif => w \in Free(n, c)
    BY <2>1 DEF Free, Running, Recording
  <2>3. F \in Nat /\ F' \in Nat /\ F' <= F /\ (n = task[w].notif => F' <= F - 1)
    BY <1>c, <1>8, <2>1, <2>2
  <2>. QED
    BY <1>t, <2>1, <2>3
<1>10. ASSUME NEW w \in Workers, RecordSuccess(w) \/ MarkFailed(w) \/ LoseTask(w)
       PROVE  B'
  <2>1. UNCHANGED <<accepted, queue, copies, failed>> /\ task' = [task EXCEPT ![w] = Idle]
    BY <1>10 DEF RecordSuccess, MarkFailed, LoseTask, rows
  <2>. QED
    BY <1>1, <1>8, <2>1
<1>11. CASE UNCHANGED vars
  BY <1>2, <1>11, <1>t DEF vars, rows
<1>. QED
  BY <1>3, <1>4, <1>5, <1>6, <1>7, <1>9, <1>10, <1>11 DEF Next, Execute

LEMMA SendStep == Typed /\ FreeBound /\ SendBound /\ [Next]_vars => SendBound'
<1>. SUFFICES ASSUME Typed, FreeBound, SendBound, [Next]_vars,
                     NEW n \in Notifications, NEW c \in Channels
              PROVE  (accepted[n][c] + Cardinality(Sending(n, c))
                        <= MAX_RETRIES_PER_CHANNEL - 1 + copies[n])'
  BY DEF SendBound
<1>. DEFINE B == accepted[n][c] + Cardinality(Sending(n, c))
                   <= MAX_RETRIES_PER_CHANNEL - 1 + copies[n]
            G == Cardinality(Sending(n, c))
<1>t. /\ accepted \in Counter /\ accepted[n][c] \in Nat
      /\ failed \in Counter /\ failed[n][c] \in Nat
      /\ copies \in [Notifications -> Nat] /\ copies[n] \in Nat /\ queue[n] \in Nat
      /\ task \in [Workers -> Execution]
      /\ MAX_RETRIES_PER_CHANNEL \in Nat
      /\ accepted[n][c] + queue[n] + Cardinality(Free(n, c)) <= copies[n] + failed[n][c]
      /\ B
  BY DeliveryAssumption DEF Typed, TypeOK, Counter, FreeBound, SendBound
<1>c. ASSUME NEW w \in Workers, \A v \in Workers \ {w} : task'[v] = task[v]
      PROVE  /\ G \in Nat /\ G' \in Nat
             /\ w \in Sending(n, c) \/ w \notin Sending(n, c)' => G' <= G
             /\ w \in Sending(n, c) /\ w \notin Sending(n, c)' => G' <= G - 1
  <2>1. /\ Sending(n, c) \in SUBSET Workers /\ Sending(n, c)' \in SUBSET Workers
        /\ Sending(n, c)' \in SUBSET (Sending(n, c) \cup {w})
    BY <1>c, FreeOthers
  <2>. QED
    BY <2>1, OneMoves
<1>1. ASSUME UNCHANGED <<accepted, copies>>,
             NEW w \in Workers, \A v \in Workers \ {w} : task'[v] = task[v],
             w \in Sending(n, c) \/ w \notin Sending(n, c)'
      PROVE  B'
  <2>1. G \in Nat /\ G' \in Nat /\ G' <= G
    BY <1>1, <1>c
  <2>. QED
    BY <1>1, <1>t, <2>1
<1>2. ASSUME UNCHANGED <<accepted, task>>, copies'[n] \in Nat, copies'[n] >= copies[n]
      PROVE  B'
  <2>1. Sending(n, c)' = Sending(n, c)
    BY <1>2 DEF Sending, Recording, PastGate, Running, Channel
  <2>2. G \in Nat
    BY CardinalityMonotone DEF Sending, PastGate, Running
  <2>. QED
    BY <1>2, <1>t, <2>1, <2>2
<1>3. ASSUME NEW m \in Notifications, Publish(m) PROVE B'
  BY <1>2, <1>3, <1>t DEF Publish, rows
<1>4. ASSUME NEW w \in Workers, task'[w].step # "send",
             \A v \in Workers \ {w} : task'[v] = task[v], UNCHANGED <<accepted, copies>>
      PROVE  B'
  <2>1. w \notin Sending(n, c)'
    BY <1>4 DEF Sending, Recording, PastGate
  <2>. QED
    BY <1>1, <1>4, <2>1
<1>5. ASSUME NEW w \in Workers, NEW m \in Notifications, Load(w, m) PROVE B'
  <2>1. /\ UNCHANGED <<accepted, copies>>
        /\ \A v \in Workers \ {w} : task'[v] = task[v]
        /\ task'[w].step \in {"idle", "mark", "scan"}
    BY <1>5, <1>t, IdleFields DEF Load, rows, Begin
  <2>. QED
    BY <1>4, <2>1
<1>6. ASSUME NEW w \in Workers, NEW u, Moves(w, u), u.step # "send",
             UNCHANGED <<accepted, copies>>
      PROVE  B'
  <2>1. task'[w] = u /\ \A v \in Workers \ {w} : task'[v] = task[v]
    BY <1>6, <1>t DEF Moves
  <2>. QED
    BY <1>4, <1>6, <2>1
<1>7. ASSUME NEW w \in Workers, MarkProcessing(w) \/ ScanChannel(w) \/ RecordFailure(w)
      PROVE  B'
  <2>1. UNCHANGED <<accepted, copies>>
    BY <1>7 DEF MarkProcessing, ScanChannel, RecordFailure
  <2>2. PICK u : Moves(w, u) /\ u.step \in {"scan", "count", "retry"}
    BY <1>7, MarkProcessingMoves, ScanChannelMoves, RecordFailureMoves
  <2>. QED
    BY <1>6, <2>1, <2>2
(* The gate: its execution is Free, the count it has read leaves room.      *)
<1>8. ASSUME NEW w \in Workers, CountAttempts(w) PROVE B'
  <2>1. UNCHANGED <<accepted, copies, failed>> /\ task[w].step = "count"
    BY <1>8 DEF CountAttempts, rows
  <2>2. PICK u : /\ Moves(w, u)
                 /\ \/ u.step = "scan"
                    \/ /\ u.pos = task[w].pos
                       /\ failed[task[w].notif][Channel(w)] < MAX_RETRIES_PER_CHANNEL
    BY <1>8, CountAttemptsMoves
  <2>3. task'[w] = u /\ \A v \in Workers \ {w} : task'[v] = task[v]
    BY <1>t, <2>2 DEF Moves
  <2>4. CASE u.step = "scan"
    BY <1>6, <2>1, <2>2, <2>4
  <2>5. CASE /\ n = task[w].notif /\ c = Channel(w)
             /\ failed[task[w].notif][Channel(w)] < MAX_RETRIES_PER_CHANNEL
    <3>1. failed[n][c] <= MAX_RETRIES_PER_CHANNEL - 1
      BY <1>t, <2>5
    <3>2. w \in Free(n, c)
      BY <2>1, <2>5 DEF Free, Running, Recording
    <3>3. Sending(n, c)' \in SUBSET Free(n, c) /\ Free(n, c) \in SUBSET Workers
      BY <2>3, <3>2, FreeOthers
    <3>4. G' \in Nat /\ Cardinality(Free(n, c)) \in Nat /\ G' <= Cardinality(Free(n, c))
      BY <3>3, CardinalityMonotone
    <3>. QED
      BY <1>t, <2>1, <3>1, <3>4
  <2>6. CASE u.pos = task[w].pos /\ ~(n = task[w].notif /\ c = Channel(w))
    <3>1. w \notin Sending(n, c)'
      BY <2>2, <2>3, <2>6 DEF Moves, Sending, PastGate, Running, Channel
    <3>. QED
      BY <1>1, <2>1, <2>3, <3>1
  <2>. QED
    BY <2>2, <2>4, <2>5, <2>6
<1>9. ASSUME NEW w \in Workers, CallProvider(w) PROVE B'
  <2>1. PICK u : /\ Moves(w, u) /\ u.step = "record"
                 /\ accepted' \in {accepted, Tally(accepted, task[w].notif, Channel(w))}
    BY <1>9, CallProviderMoves
  <2>2. /\ copies' = copies /\ task[w].step = "send"
        /\ task'[w] = u /\ \A v \in Workers \ {w} : task'[v] = task[v]
    BY <1>9, <1>t, <2>1 DEF CallProvider, Moves
  <2>3. w \notin Sending(n, c)'
    BY <2>1, <2>2 DEF Sending, Recording, PastGate
  <2>4. CASE n = task[w].notif /\ c = Channel(w)
    <3>1. accepted'[n][c] <= accepted[n][c] + 1 /\ accepted'[n][c] \in Nat
      BY <1>t, <2>1, <2>4, TallyType
    <3>2. w \in Sending(n, c)
      BY <2>2, <2>4 DEF Sending, Recording, PastGate, Running
    <3>3. G \in Nat /\ G' \in Nat /\ G' <= G - 1
      BY <1>c, <2>2, <2>3, <3>2
    <3>. QED
      BY <1>t, <2>2, <3>1, <3>3
  <2>5. CASE ~(n = task[w].notif /\ c = Channel(w))
    <3>1. accepted'[n][c] = accepted[n][c]
      BY <1>t, <2>1, <2>5 DEF Tally, Counter
    <3>2. G \in Nat /\ G' \in Nat /\ G' <= G
      BY <1>c, <2>2, <2>3
    <3>. QED
      BY <1>t, <2>2, <3>1, <3>2
  <2>. QED
    BY <2>4, <2>5
<1>10. ASSUME NEW w \in Workers,
              RecordSuccess(w) \/ ScheduleRetry(w) \/ MarkFailed(w) \/ LoseTask(w)
       PROVE  B'
  <2>1. UNCHANGED <<accepted, copies>> /\ task' = [task EXCEPT ![w] = Idle]
    BY <1>10 DEF RecordSuccess, ScheduleRetry, MarkFailed, LoseTask
  <2>2. task'[w] = Idle /\ \A v \in Workers \ {w} : task'[v] = task[v]
    BY <1>t, <2>1
  <2>. QED
    BY <1>4, <2>1, <2>2, IdleFields
<1>11. CASE UNCHANGED vars
  BY <1>2, <1>11, <1>t DEF vars
<1>. QED
  BY <1>3, <1>5, <1>7, <1>8, <1>9, <1>10, <1>11 DEF Next, Execute

LEMMA ReceivedBound == Typed /\ SendBound => AcceptedBound
<1>. SUFFICES ASSUME Typed, SendBound, NEW n \in Notifications, NEW c \in Channels
              PROVE  accepted[n][c] <= MAX_RETRIES_PER_CHANNEL - 1 + copies[n]
  BY DEF AcceptedBound
<1>1. Cardinality(Sending(n, c)) \in Nat
  BY CardinalityMonotone DEF Sending, PastGate, Running
<1>2. accepted[n][c] \in Nat /\ copies[n] \in Nat /\ MAX_RETRIES_PER_CHANNEL \in Nat
  BY DeliveryAssumption DEF Typed, TypeOK, Counter
<1>. QED
  BY <1>1, <1>2 DEF SendBound

(* What a user can receive on a channel, for any number of workers, late    *)
(* answers and lost executions: neither the timeouts nor the losses add to  *)
(* it, a further copy of the delivery message adds one.                     *)
THEOREM AcceptedBoundCorrect == Spec => []AcceptedBound
BY ReceivedBound, TypedInit, TypedStep, FreeInit, FreeStep, SendStep, PTL DEF Spec

-----------------------------------------------------------------------------
(* Nothing is dropped. The invariant is inductive: an execution that ends   *)
(* leaves an outcome, a message for the retry, or counts as lost.           *)
Kept(n) == copies[n] > 0 => status[n] \in Terminal \/ queue[n] > 0 \/ Running(n) # {}

LEMMA ForgottenInit == Init => NothingForgotten
BY DEF Init, NothingForgotten

LEMMA KeptStep ==
  ASSUME Typed, [Next]_vars, NEW n \in Notifications, Kept(n), faults' = 0
  PROVE  Kept(n)'
<1>t. /\ status \in [Notifications -> Status]
      /\ queue \in [Notifications -> Nat] /\ copies \in [Notifications -> Nat]
      /\ queue[n] \in Nat /\ faults \in Nat
      /\ task \in [Workers -> Execution] /\ TaskOK
  BY DEF Typed, TypeOK
<1>. USE DEF Kept
<1>1. ASSUME NEW m \in Notifications, Publish(m) PROVE Kept(n)'
  <2>1. UNCHANGED <<status, faults, task>> /\ Running(n)' = Running(n)
    BY <1>1 DEF Publish, rows, Running
  <2>2. CASE m = n
    BY <1>1, <1>t, <2>2 DEF Publish
  <2>3. CASE m # n
    BY <1>1, <1>t, <2>1, <2>3 DEF Publish
  <2>. QED
    BY <2>2, <2>3
<1>2. ASSUME NEW w \in Workers, NEW m \in Notifications, Load(w, m) PROVE Kept(n)'
  <2>1. /\ UNCHANGED <<status, copies, faults>> /\ task[w] = Idle
        /\ queue'[n] = IF n = m THEN queue[n] - 1 ELSE queue[n]
        /\ status[m] \in Terminal \/ task'[w].notif = m
        /\ \A v \in Workers \ {w} : task'[v] = task[v]
    BY <1>2, <1>t DEF Load, rows, Begin
  <2>2. CASE n = m
    BY <2>1, <2>2 DEF Running
  <2>3. CASE n # m
    <3>1. w \notin Running(n)
      BY <2>1, IdleFields, DeliveryAssumption DEF Running
    <3>2. Running(n) \in SUBSET Running(n)'
      BY <2>1, <3>1 DEF Running
    <3>. QED
      BY <2>1, <2>3, <3>2
  <2>. QED
    BY <2>2, <2>3
<1>3. ASSUME NEW w \in Workers, Execute(w) \/ LoseTask(w), task[w].notif # n
      PROVE  Kept(n)'
  <2>1. faults' = faults
    BY <1>3, <1>t DEF Execute, MarkProcessing, ScanChannel, CountAttempts, CallProvider,
       RecordSuccess, RecordFailure, ScheduleRetry, MarkFailed, LoseTask
  <2>2. /\ status'[n] = status[n] /\ queue'[n] = queue[n] /\ copies' = copies
        /\ Running(n)' = Running(n)
    BY <1>3, OtherNotification
  <2>. QED
    BY <2>1, <2>2
<1>4. ASSUME NEW w \in Workers, NEW u, Moves(w, u), task[w].notif = n PROVE Kept(n)'
  <2>1. w \in Running(n)'
    BY <1>4, RunningMoves DEF Running
  <2>. QED
    BY <2>1
<1>5. ASSUME NEW w \in Workers, Execute(w) \/ LoseTask(w), task[w].notif = n PROVE Kept(n)'
  <2>1. CASE RecordSuccess(w) \/ MarkFailed(w)
    BY <1>5, <1>t, <2>1 DEF RecordSuccess, MarkFailed, Terminal
  <2>2. CASE ScheduleRetry(w)
    BY <1>5, <1>t, <2>2 DEF ScheduleRetry
  <2>3. CASE LoseTask(w)
    BY <1>t, <2>3 DEF LoseTask
  <2>. QED
    BY <1>4, <1>5, <2>1, <2>2, <2>3, MarkProcessingMoves, ScanChannelMoves,
       CountAttemptsMoves, CallProviderMoves, RecordFailureMoves DEF Execute
<1>6. CASE UNCHANGED vars
  BY <1>6 DEF vars, rows, Running
<1>. QED
  BY <1>1, <1>2, <1>3, <1>5, <1>6 DEF Next

LEMMA ForgottenStep == Typed /\ NothingForgotten /\ [Next]_vars => NothingForgotten'
<1>1. [Next]_vars => faults' \in {faults, faults + 1}
  BY DEF Next, vars, Publish, Load, Execute, MarkProcessing, ScanChannel, CountAttempts,
     CallProvider, RecordSuccess, RecordFailure, ScheduleRetry, MarkFailed, LoseTask
<1>2. Typed /\ [Next]_vars /\ faults' = 0 => faults = 0
  <2>1. Typed => faults \in Nat
    BY DEF Typed, TypeOK
  <2>. QED
    BY <1>1, <2>1
<1>. QED
  BY <1>2, KeptStep DEF NothingForgotten, Kept

(* No published notification is dropped, whatever the workers do to each    *)
(* other: as long as no execution is lost, one without an outcome has a     *)
(* message or an execution. It is the safety part of Settles.               *)
THEOREM ForgottenCorrect == Spec => []NothingForgotten
BY TypedInit, TypedStep, ForgottenInit, ForgottenStep, PTL DEF Spec

-----------------------------------------------------------------------------
(* The life cycle. With one message an execution knows the status: queued   *)
(* until it has marked it, processing until it ends.                        *)
InStage ==
  \A w \in Workers : task[w].notif \in Notifications /\ copies[task[w].notif] <= 1 =>
    status[task[w].notif] = IF task[w].step = "mark" THEN "queued" ELSE "processing"

(* With one message there is one execution.                                 *)
LEMMA Alone ==
  ASSUME Typed, MessageBound, NEW v \in Workers, NEW w \in Workers,
         task[v].notif = task[w].notif, task[w].notif \in Notifications,
         copies[task[w].notif] <= 1
  PROVE  v = w
<1>. DEFINE n == task[w].notif
<1>1. {v, w} \in SUBSET Running(n) /\ Running(n) \in SUBSET Workers
  BY DEF Running
<1>2. /\ Cardinality({v, w}) <= Cardinality(Running(n))
      /\ Cardinality(Running(n)) \in Nat /\ Cardinality({v, w}) \in Nat
  BY <1>1, CardinalityMonotone
<1>3. queue[n] + Cardinality(Running(n)) <= copies[n] /\ queue[n] \in Nat /\ copies[n] \in Nat
  BY DEF MessageBound, Typed, TypeOK
<1>4. Cardinality({v, w}) <= 1
  BY <1>2, <1>3
<1>5. ASSUME v # w PROVE Cardinality({v, w}) = 2
  <2>1. IsFiniteSet({w}) /\ Cardinality({w}) = 1
    BY FS_Singleton
  <2>2. Cardinality({w} \cup {v}) = 2
    <3>1. v \notin {w} /\ 1 + 1 = 2
      BY <1>5
    <3>2. Cardinality({w} \cup {v}) = Cardinality({w}) + 1
      BY <2>1, <3>1, FS_AddElement
    <3>. QED
      BY <2>1, <3>2
  <2>3. {w} \cup {v} = {v, w}
    OBVIOUS
  <2>. QED
    BY <2>2, <2>3
<1>. QED
  BY <1>4, <1>5

(* What an execution does to the status of its notification.                *)
LEMMA StatusStep ==
  ASSUME Typed, NEW w \in Workers, Execute(w) \/ LoseTask(w)
  PROVE  /\ \A v \in Workers \ {w} : task'[v] = task[v]
         /\ task[w].notif \in Notifications /\ UNCHANGED copies
         /\ \/ task'[w] = Idle
            \/ /\ task'[w].notif = task[w].notif /\ task'[w].step # "mark"
               /\ status'[task[w].notif] =
                    IF task[w].step = "mark" THEN "processing" ELSE status[task[w].notif]
         /\ status' = status \/ \E s \in {"processing", "sent", "failed"} :
              /\ status' = [status EXCEPT ![task[w].notif] = s]
              /\ (s = "processing") <=> (task[w].step = "mark")
<1>n. task[w].notif \in Notifications /\ UNCHANGED copies
  BY DEF Typed, TypeOK, TaskOK, Execute, MarkProcessing, ScanChannel, CountAttempts,
     CallProvider, RecordSuccess, RecordFailure, ScheduleRetry, MarkFailed, LoseTask,
     Idle, Begin
<1>t. /\ task \in [Workers -> Execution] /\ status \in [Notifications -> Status]
  BY DEF Typed, TypeOK
<1> DEFINE Effect ==
      /\ \A v \in Workers \ {w} : task'[v] = task[v]
      /\ \/ task'[w] = Idle
         \/ /\ task'[w].notif = task[w].notif /\ task'[w].step # "mark"
            /\ status'[task[w].notif] =
                 IF task[w].step = "mark" THEN "processing" ELSE status[task[w].notif]
      /\ status' = status \/ \E s \in {"processing", "sent", "failed"} :
           /\ status' = [status EXCEPT ![task[w].notif] = s]
           /\ (s = "processing") <=> (task[w].step = "mark")
<1>m. ASSUME NEW u, Moves(w, u), u.step # "mark", task[w].step # "mark", UNCHANGED status
      PROVE  Effect
  BY <1>m, <1>t DEF Moves
<1>i. ASSUME task' = [task EXCEPT ![w] = Idle] PROVE
        task'[w] = Idle /\ \A v \in Workers \ {w} : task'[v] = task[v]
  BY <1>i, <1>t
<1>1. ASSUME MarkProcessing(w) PROVE Effect
  <2>1. PICK u : Moves(w, u) /\ u.step = "scan"
    BY <1>1, MarkProcessingMoves
  <2>2. /\ task[w].step = "mark"
        /\ status' = [status EXCEPT ![task[w].notif] = "processing"]
    BY <1>1 DEF MarkProcessing
  <2>. QED
    BY <1>n, <1>t, <2>1, <2>2 DEF Moves
<1>2. ASSUME ScanChannel(w) PROVE Effect
  BY <1>2, <1>m, ScanChannelMoves DEF ScanChannel, rows
<1>3. ASSUME CountAttempts(w) PROVE Effect
  BY <1>3, <1>m, CountAttemptsMoves DEF CountAttempts, rows
<1>4. ASSUME CallProvider(w) PROVE Effect
  BY <1>4, <1>m, CallProviderMoves DEF CallProvider, rows
<1>5. ASSUME RecordSuccess(w) PROVE Effect
  BY <1>5, <1>i DEF RecordSuccess
<1>6. ASSUME RecordFailure(w) PROVE Effect
  BY <1>6, <1>m, RecordFailureMoves DEF RecordFailure
<1>7. ASSUME ScheduleRetry(w) PROVE Effect
  BY <1>7, <1>i DEF ScheduleRetry, rows
<1>8. ASSUME MarkFailed(w) PROVE Effect
  BY <1>8, <1>i DEF MarkFailed
<1>9. ASSUME LoseTask(w) PROVE Effect
  BY <1>9, <1>i DEF LoseTask, rows
<1>e. Effect
  BY <1>1, <1>2, <1>3, <1>4, <1>5, <1>6, <1>7, <1>8, <1>9 DEF Execute
<1>. QED
  BY <1>n, <1>e

LEMMA InStageInit == Init => InStage
BY DeliveryAssumption, IdleFields DEF Init, InStage

LEMMA InStageStep == Typed /\ MessageBound /\ InStage /\ [Next]_vars => InStage'
<1>. SUFFICES ASSUME Typed, MessageBound, InStage, [Next]_vars,
                     NEW v \in Workers, task'[v].notif \in Notifications,
                     copies'[task'[v].notif] <= 1
              PROVE  status'[task'[v].notif] =
                       IF task'[v].step = "mark" THEN "queued" ELSE "processing"
  BY DEF InStage
<1>t. /\ task \in [Workers -> Execution] /\ status \in [Notifications -> Status]
      /\ copies \in [Notifications -> Nat]
  BY DEF Typed, TypeOK
<1>s. ASSUME task'[v] = task[v], status'[task[v].notif] = status[task[v].notif],
             copies'[task[v].notif] >= copies[task[v].notif]
      PROVE  status'[task'[v].notif] =
               IF task'[v].step = "mark" THEN "queued" ELSE "processing"
  <2>1. copies[task[v].notif] <= 1
    BY <1>s, <1>t, TypedStep DEF Typed, TypeOK
  <2>. QED
    BY <1>s, <2>1 DEF InStage
<1>1. ASSUME NEW m \in Notifications, Publish(m)
      PROVE  status'[task'[v].notif] =
               IF task'[v].step = "mark" THEN "queued" ELSE "processing"
  BY <1>1, <1>s, <1>t DEF Publish, rows
<1>2. ASSUME NEW w \in Workers, NEW m \in Notifications, Load(w, m)
      PROVE  status'[task'[v].notif] =
               IF task'[v].step = "mark" THEN "queued" ELSE "processing"
  <2>1. UNCHANGED <<status, copies>>
    BY <1>2 DEF Load, rows
  <2>2. CASE task'[v] = task[v]
    BY <1>s, <1>t, <2>1, <2>2
  <2>3. CASE task'[v] # task[v]
    <3>1. PICK chs \in Priorities[m] :
            task'[v] = Begin(m, chs, IF status[m] = "queued" THEN "mark" ELSE "scan")
            /\ status[m] \notin Terminal
      BY <1>2, <1>t, <2>3 DEF Load
    <3>2. /\ task'[v].notif = m
          /\ task'[v].step = IF status[m] = "queued" THEN "mark" ELSE "scan"
      BY <3>1 DEF Begin
    <3>. QED
      BY <1>t, <2>1, <3>1, <3>2 DEF Status, Terminal
  <2>. QED
    BY <2>2, <2>3
<1>3. ASSUME NEW w \in Workers, Execute(w) \/ LoseTask(w)
      PROVE  status'[task'[v].notif] =
               IF task'[v].step = "mark" THEN "queued" ELSE "processing"
  <2>1. CASE v = w
    <3>1. task'[w] # Idle
      BY <2>1, IdleFields, DeliveryAssumption
    <3>2. /\ task'[w].notif = task[w].notif /\ task'[w].step # "mark"
          /\ status'[task[w].notif] =
               IF task[w].step = "mark" THEN "processing" ELSE status[task[w].notif]
          /\ UNCHANGED copies
      BY <1>3, <3>1, StatusStep
    <3>. QED
      BY <2>1, <3>2 DEF InStage
  <2>2. CASE v # w
    <3>1. task'[v] = task[v] /\ task[w].notif \in Notifications /\ UNCHANGED copies
      BY <1>3, <2>2, StatusStep
    <3>2. task[v].notif # task[w].notif
      BY <2>2, <3>1, Alone
    <3>3. status'[task[v].notif] = status[task[v].notif]
      BY <1>3, <3>1, <3>2, OtherNotification
    <3>. QED
      BY <1>s, <1>t, <3>1, <3>3
  <2>. QED
    BY <2>1, <2>2
<1>4. CASE UNCHANGED vars
  BY <1>4, <1>s, <1>t DEF vars, rows
<1>. QED
  BY <1>1, <1>2, <1>3, <1>4 DEF Next

Once == {n \in Notifications : copies[n] <= 1}

LEMMA LifecycleInit == Init => Lifecycle!Init
BY DEF Init, Lifecycle!Init

LEMMA LifecycleStep ==
  Typed /\ MessageBound /\ InStage /\ [Next]_vars => [Lifecycle!Next]_(Lifecycle!vars)
<1>. SUFFICES ASSUME Typed, MessageBound, InStage, [Next]_vars
              PROVE  Lifecycle!Next \/ UNCHANGED <<status, Once>>
  BY DEF Lifecycle!vars, Once
<1>t. /\ task \in [Workers -> Execution] /\ status \in [Notifications -> Status]
      /\ copies \in [Notifications -> Nat]
  BY DEF Typed, TypeOK
<1>1. ASSUME NEW m \in Notifications, Publish(m)
      PROVE  Lifecycle!Duplicate(m) \/ UNCHANGED <<status, Once>>
  <2>1. status' = status /\ copies' = [copies EXCEPT ![m] = @ + 1]
    BY <1>1 DEF Publish, rows
  <2>2. CASE copies[m] = 1
    <3>1. Once' = Once \ {m}
      BY <1>t, <2>1, <2>2 DEF Once
    <3>. QED
      BY <2>1, <3>1 DEF Once, Lifecycle!Duplicate
  <2>3. CASE copies[m] # 1
    BY <1>t, <2>1, <2>3 DEF Once
  <2>. QED
    BY <2>2, <2>3
<1>2. ASSUME NEW w \in Workers, NEW m \in Notifications, Load(w, m)
      PROVE  UNCHANGED <<status, Once>>
  BY <1>2 DEF Load, rows, Once
<1>3. ASSUME NEW w \in Workers, Execute(w) \/ LoseTask(w)
      PROVE  Lifecycle!Next \/ UNCHANGED <<status, Once>>
  <2>. DEFINE n == task[w].notif
  <2>1. n \in Notifications /\ UNCHANGED Once
    BY <1>3, StatusStep DEF Once
  <2>2. CASE status' = status
    BY <2>1, <2>2
  <2>3. CASE status' # status
    <3>1. PICK s \in {"processing", "sent", "failed"} :
            /\ status' = [status EXCEPT ![n] = s]
            /\ (s = "processing") <=> (task[w].step = "mark")
      BY <1>3, <2>3, StatusStep
    <3>2. CASE copies[n] <= 1
      <4>1. status[n] = IF task[w].step = "mark" THEN "queued" ELSE "processing"
        BY <2>1, <3>2 DEF InStage
      <4>2. CASE s = "processing"
        BY <2>1, <3>1, <4>1, <4>2 DEF Lifecycle!Next, Lifecycle!Begin, Lifecycle!Become, Once
      <4>3. CASE s # "processing"
        BY <2>1, <3>1, <4>1, <4>3 DEF Lifecycle!Next, Lifecycle!Finish, Lifecycle!Become, Once
      <4>. QED
        BY <4>2, <4>3
    <3>3. CASE ~(copies[n] <= 1)
      BY <2>1, <3>1, <3>3 DEF Lifecycle!Next, Lifecycle!Muddle, Lifecycle!Become, Once
    <3>. QED
      BY <3>2, <3>3
  <2>. QED
    BY <2>2, <2>3
<1>4. CASE UNCHANGED vars
  BY <1>4 DEF vars, rows, Once
<1>. QED
  BY <1>1, <1>2, <1>3, <1>4 DEF Next, Lifecycle!Next

(* The delivery worker implements the life cycle: with one message no step  *)
(* of any execution takes the status back or past its outcome.              *)
THEOREM LifecycleFollowed == Spec => FollowsLifecycle
BY TypedInit, TypedStep, MessageInit, MessageStep, InStageInit, InStageStep,
   LifecycleInit, LifecycleStep, PTL DEF Spec, FollowsLifecycle, Lifecycle!Spec
=============================================================================
