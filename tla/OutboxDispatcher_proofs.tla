---------------------- MODULE OutboxDispatcher_proofs ----------------------
(* Theorems about OutboxDispatcher, for any number of rows and dispatchers, *)
(* any batch size and any number of faults.                                *)
EXTENDS OutboxDispatcher, FiniteSetTheorems, WellFoundedInduction, TLAPS

(* The type, and where the ids a dispatcher handles come from: only         *)
(* committed rows are listed or scheduled.                                 *)
Known ==
  /\ \A d \in Dispatchers : \A r \in batch[d] : outbox[r] # "none"
  /\ \A r \in Rows : scheduled[r] > 0 => outbox[r] # "none"

Typed == TypeOK /\ Known

LEMMA SmallestOfSet ==
  ASSUME NEW S \in SUBSET Nat, S # {}
  PROVE  \E r \in S : \A q \in S : r <= q
<1>1. PICK r \in S : \A q \in S : ~(<<q, r>> \in OpToRel(<, Nat))
  BY NatLessThanWellFounded, WFMin
<1>2. ASSUME NEW q \in S PROVE r <= q
  <2>1. q \in Nat /\ r \in Nat
    OBVIOUS
  <2>2. ~(q < r)
    BY <1>1, <2>1 DEF OpToRel
  <2>. QED
    BY <2>1, <2>2
<1>. QED
  BY <1>2

LEMMA CurrentInBatch ==
  ASSUME TypeOK, NEW d \in Dispatchers, step[d] # "idle"
  PROVE  Current(d) \in batch[d] /\ Current(d) \in Rows
<1>1. batch[d] \in SUBSET Rows /\ batch[d] # {} /\ Rows \in SUBSET Nat
  BY DispatcherAssumption DEF TypeOK, Rows
<1>2. \E r \in batch[d] : \A q \in batch[d] : r <= q
  BY <1>1, SmallestOfSet
<1>. QED
  BY <1>1, <1>2 DEF Current

LEMMA IncType ==
  ASSUME NEW counter \in Counter, NEW r \in Rows
  PROVE  /\ Inc(counter, r) \in Counter
         /\ Inc(counter, r)[r] = counter[r] + 1
         /\ \A q \in Rows : q # r => Inc(counter, r)[q] = counter[q]
BY DEF Inc, Counter

LEMMA OldestDue == Oldest(Limit) \in SUBSET {r \in Rows : outbox[r] # "none"}
BY DEF Oldest, FirstOf, Unpublished

LEMMA TypedInit == Init => Typed
BY DEF Init, Typed, TypeOK, Known, Status, Step, Counter, None

(* How a dispatcher leaves a row: on to a next one, or to rest.             *)
LEMMA NextIdType ==
  ASSUME Typed, NEW d \in Dispatchers, step[d] # "idle", NextId(d)
  PROVE  /\ step' \in [Dispatchers -> Step] /\ batch' \in [Dispatchers -> SUBSET Rows]
         /\ \A e \in Dispatchers : step'[e] # "idle" => batch'[e] # {}
         /\ \A e \in Dispatchers : batch'[e] \in SUBSET batch[e]
         /\ \A e \in Dispatchers \ {d} : step'[e] = step[e] /\ batch'[e] = batch[e]
         /\ step'[d] \in {"idle", "select"}
BY CurrentInBatch DEF Typed, TypeOK, NextId, Step

LEMMA TypedStep == Typed /\ [Next]_vars => Typed'
<1>. SUFFICES ASSUME Typed, [Next]_vars PROVE Typed'
  OBVIOUS
<1>t. TypeOK /\ Known
  BY DEF Typed
<1>0. /\ {"none", "pending", "published", "failed"} = Status
      /\ {"idle", "select", "publish", "published", "failed"} = Step
  BY DEF Status, Step
<1>1. ASSUME NEW r \in Rows, Commit(r) PROVE Typed'
  BY <1>1, <1>t, <1>0 DEF Commit, past, Typed, TypeOK, Known
<1>2. ASSUME NEW r \in Rows, Schedule(r) PROVE Typed'
  <2>1. scheduled' \in Counter /\ injected' \in Counter
    BY <1>2, <1>t, IncType DEF Schedule, TypeOK
  <2>2. Known'
    BY <1>2, <1>t, IncType DEF Schedule, TypeOK, Known, row
  <2>. QED
    BY <1>2, <1>t, <2>1, <2>2 DEF Schedule, row, past, Typed, TypeOK
<1>3. ASSUME NEW d \in Dispatchers, NEW r \in Rows, StartOne(d, r) PROVE Typed'
  <2>1. /\ scheduled' \in Counter /\ \A q \in Rows : scheduled'[q] > 0 => scheduled[q] > 0
        /\ outbox[r] # "none"
    BY <1>3, <1>t DEF StartOne, TypeOK, Counter, Known
  <2>2. Known'
    BY <1>3, <1>t, <2>1 DEF StartOne, row, TypeOK, Known
  <2>. QED
    BY <1>3, <1>t, <1>0, <2>1, <2>2 DEF StartOne, row, past, Typed, TypeOK
<1>4. ASSUME NEW d \in Dispatchers, StartRecovery(d) PROVE Typed'
  <2>1. Known'
    BY <1>4, <1>t, OldestDue DEF StartRecovery, row, TypeOK, Known
  <2>. QED
    BY <1>4, <1>t, <1>0, <2>1, OldestDue DEF StartRecovery, row, past, Typed, TypeOK
<1>5. ASSUME NEW d \in Dispatchers, LockRow(d) PROVE Typed'
  BY <1>5, <1>t, <1>0 DEF LockRow, row, past, Typed, TypeOK, Known
<1>6. ASSUME NEW d \in Dispatchers, SkipRow(d) PROVE Typed'
  BY <1>6, <1>t, NextIdType DEF SkipRow, row, past, Typed, TypeOK, Known
<1>7. ASSUME NEW d \in Dispatchers, Publish(d) PROVE Typed'
  <2>1. messages' \in Counter
    BY <1>7, <1>t, CurrentInBatch, IncType DEF Publish, TypeOK
  <2>. QED
    BY <1>7, <1>t, <1>0, <2>1 DEF Publish, row, past, Typed, TypeOK, Known
<1>8. ASSUME NEW d \in Dispatchers, PublishRaises(d) PROVE Typed'
  <2>1. messages' \in Counter /\ ambiguous' \in Counter
    BY <1>8, <1>t, CurrentInBatch, IncType DEF PublishRaises, TypeOK
  <2>. QED
    BY <1>8, <1>t, <1>0, <2>1 DEF PublishRaises, row, Typed, TypeOK, Known
<1>9. ASSUME NEW d \in Dispatchers, NEW s \in {"published", "failed"}, step[d] # "idle",
             outbox' = [outbox EXCEPT ![Current(d)] = s],
             attempts' = Inc(attempts, Current(d)), NextId(d),
             UNCHANGED <<scheduled, injected, messages, past>>
      PROVE  Typed'
  <2>1. attempts' \in Counter
    BY <1>9, <1>t, CurrentInBatch, IncType DEF TypeOK
  <2>2. /\ outbox' \in [Rows -> Status]
        /\ \A r \in Rows : outbox[r] # "none" => outbox'[r] # "none"
    BY <1>9, <1>t, <1>0 DEF TypeOK
  <2>3. Known'
    BY <1>9, <1>t, <2>2, NextIdType DEF Known, TypeOK, Typed
  <2>. QED
    BY <1>9, <1>t, <2>1, <2>2, <2>3, NextIdType DEF past, Typed, TypeOK
<1>10. ASSUME NEW d \in Dispatchers, Crash(d) PROVE Typed'
  <2>1. unrecorded' \in Counter
    BY <1>10, <1>t, CurrentInBatch, IncType DEF Crash, TypeOK
  <2>. QED
    BY <1>10, <1>t, <1>0, <2>1 DEF Crash, row, Typed, TypeOK, Known
<1>11. CASE UNCHANGED vars
  BY <1>11, <1>t DEF vars, row, past, Typed, TypeOK, Known
<1>12. ASSUME NEW d \in Dispatchers, RecordPublished(d) \/ RecordFailed(d) PROVE Typed'
  BY <1>9, <1>12 DEF RecordPublished, RecordFailed
<1>. QED
  BY <1>1, <1>2, <1>3, <1>4, <1>5, <1>6, <1>7, <1>8, <1>10, <1>11, <1>12 DEF Next, Proceed

(* Every reachable state of the dispatcher is well typed.                   *)
THEOREM TypeCorrect == Spec => []TypeOK
<1>1. Typed => TypeOK
  BY DEF Typed
<1>. QED
  BY <1>1, TypedInit, TypedStep, PTL DEF Spec

-----------------------------------------------------------------------------
(* Locking. A row is held by one dispatcher at most, and while it is held   *)
(* nobody else settles it: what LockRow read under the lock stays true.     *)
HeldIsDue ==
  \A d \in Dispatchers, r \in Rows : Holds(d, r) => outbox[r] \in {"pending", "failed"}

Locking == OneHolder /\ HeldIsDue

Others(d) == \A e \in Dispatchers \ {d} : step'[e] = step[e] /\ batch'[e] = batch[e]

LEMMA OthersHold ==
  ASSUME NEW d \in Dispatchers, Others(d), NEW e \in Dispatchers \ {d}, NEW r
  PROVE  Holds(e, r)' <=> Holds(e, r)
BY DEF Others, Holds, Current

(* A dispatcher that gets no further than "select" holds nothing.           *)
LEMMA HoldsNothing ==
  ASSUME NEW d \in Dispatchers, NEW r,
         step'[d] \notin {"publish", "published", "failed"}
  PROVE  ~Holds(d, r)'
BY DEF Holds

LEMMA HeldAfterLoop ==
  ASSUME Locking, NEW d \in Dispatchers, Others(d),
         step'[d] \in {"idle", "select"},
         \A r \in Rows : outbox'[r] = outbox[r] \/ Holds(d, r)
  PROVE  Locking'
<1>1. \A e \in Dispatchers, r \in Rows :
        Holds(e, r)' => e # d /\ Holds(e, r) /\ outbox'[r] = outbox[r]
  BY OthersHold, HoldsNothing DEF Locking, OneHolder
<1>. QED
  BY <1>1 DEF Locking, OneHolder, HeldIsDue

(* Within a row: the dispatcher goes on with the row it holds.              *)
LEMMA HeldWithin ==
  ASSUME Typed, Locking, NEW d \in Dispatchers, NEW s \in Step,
         step[d] \in {"publish", "published", "failed"},
         step' = [step EXCEPT ![d] = s], UNCHANGED <<batch, outbox>>
  PROVE  Locking'
<1>1. \A e \in Dispatchers, r \in Rows : Holds(e, r)' => Holds(e, r)
  BY DEF Typed, TypeOK, Holds, Current
<1>. QED
  BY <1>1 DEF Locking, OneHolder, HeldIsDue

LEMMA LockingInit == Init => Locking
BY DEF Init, Locking, OneHolder, HeldIsDue, Holds

LEMMA LockingStep == Typed /\ Locking /\ [Next]_vars => Locking'
<1>. SUFFICES ASSUME Typed, Locking, [Next]_vars PROVE Locking'
  OBVIOUS
<1>t. TypeOK
  BY DEF Typed
<1>1. ASSUME UNCHANGED <<step, batch>>,
             \A r \in Rows : outbox'[r] \in {outbox[r], "pending"}
      PROVE  Locking'
  <2>1. \A d \in Dispatchers, r \in Rows : Holds(d, r)' <=> Holds(d, r)
    BY <1>1 DEF Holds, Current
  <2>. QED
    BY <1>1, <2>1 DEF Locking, OneHolder, HeldIsDue
<1>2. ASSUME NEW r \in Rows, Commit(r) PROVE Locking'
  BY <1>1, <1>2, <1>t DEF Commit, TypeOK
<1>3. ASSUME NEW r \in Rows, Schedule(r) PROVE Locking'
  BY <1>1, <1>3 DEF Schedule, row
<1>4. ASSUME NEW d \in Dispatchers, NEW r \in Rows, StartOne(d, r) PROVE Locking'
  BY <1>4, <1>t, HeldAfterLoop DEF StartOne, row, Others, TypeOK
<1>5. ASSUME NEW d \in Dispatchers, StartRecovery(d) PROVE Locking'
  BY <1>5, <1>t, HeldAfterLoop DEF StartRecovery, row, Others, TypeOK
<1>6. ASSUME NEW d \in Dispatchers, LockRow(d) PROVE Locking'
  <2>1. /\ Others(d) /\ UNCHANGED <<batch, outbox>> /\ ~Locked(Current(d))
        /\ Current(d) \in Rows /\ outbox[Current(d)] \in {"pending", "failed"}
    BY <1>6, <1>t, CurrentInBatch DEF LockRow, row, Others, TypeOK, Status, Typed, Known
  <2>2. \A e \in Dispatchers, r \in Rows :
          Holds(e, r)' => IF e = d THEN r = Current(d) ELSE Holds(e, r)
    <3>1. Current(d)' = Current(d)
      BY <2>1 DEF Current
    <3>2. \A r \in Rows : Holds(d, r)' => r = Current(d)
      BY <3>1 DEF Holds
    <3>. QED
      BY <2>1, <3>2, OthersHold
  <2>. QED
    BY <2>1, <2>2 DEF Locked, Locking, OneHolder, HeldIsDue
<1>7. ASSUME NEW d \in Dispatchers, SkipRow(d) PROVE Locking'
  BY <1>7, NextIdType, HeldAfterLoop DEF SkipRow, row, Others
<1>8. ASSUME NEW d \in Dispatchers, Publish(d) PROVE Locking'
  <2>1. "published" \in Step
    BY DEF Step
  <2>. QED
    BY <1>8, <2>1, HeldWithin DEF Publish, row
<1>9. ASSUME NEW d \in Dispatchers, PublishRaises(d) PROVE Locking'
  <2>1. "failed" \in Step
    BY DEF Step
  <2>. QED
    BY <1>9, <2>1, HeldWithin DEF PublishRaises, row
<1>10. ASSUME NEW d \in Dispatchers, RecordPublished(d) \/ RecordFailed(d) PROVE Locking'
  <2>1. \A r \in Rows : outbox'[r] = outbox[r] \/ Holds(d, r)
    BY <1>10, <1>t DEF RecordPublished, RecordFailed, TypeOK, Holds
  <2>. QED
    BY <1>10, <2>1, NextIdType, HeldAfterLoop DEF RecordPublished, RecordFailed, Others
<1>11. ASSUME NEW d \in Dispatchers, Crash(d) PROVE Locking'
  BY <1>11, <1>t, HeldAfterLoop DEF Crash, row, Others, TypeOK
<1>12. CASE UNCHANGED vars
  BY <1>1, <1>12 DEF vars, row
<1>. QED
  BY <1>2, <1>3, <1>4, <1>5, <1>6, <1>7, <1>8, <1>9, <1>10, <1>11, <1>12 DEF Next, Proceed

(* Mutual exclusion on a row, for any number of dispatchers.                *)
THEOREM OneHolderCorrect == Spec => []OneHolder
<1>1. Locking => OneHolder
  BY DEF Locking
<1>. QED
  BY <1>1, TypedInit, TypedStep, LockingInit, LockingStep, PTL DEF Spec

-----------------------------------------------------------------------------
(* What a step may do to a row: only the dispatcher that holds it publishes *)
(* it, counts it or gives it another status.                               *)
Touches(r) == \/ outbox'[r] # outbox[r] \/ attempts'[r] # attempts[r]
              \/ messages'[r] # messages[r]

LEMMA OnlyHolderTouches ==
  ASSUME Typed, [Next]_vars, NEW r \in Rows, Touches(r)
  PROVE  outbox[r] = "none" \/ \E d \in Dispatchers : Holds(d, r)
<1>t. TypeOK
  BY DEF Typed
<1>1. ASSUME NEW q \in Rows, Commit(q) PROVE outbox[r] = "none"
  BY <1>1, <1>t DEF Commit, Touches, TypeOK
<1>2. ASSUME NEW d \in Dispatchers, Publish(d) \/ PublishRaises(d) PROVE Holds(d, r)
  <2>1. /\ UNCHANGED <<outbox, attempts>> /\ step[d] = "publish"
        /\ messages' \in {messages, Inc(messages, Current(d))}
    BY <1>2 DEF Publish, PublishRaises, row
  <2>2. Current(d) \in Rows
    BY <1>t, <2>1, CurrentInBatch
  <2>3. r = Current(d)
    BY <1>t, <2>1, <2>2, IncType DEF Touches, TypeOK
  <2>. QED
    BY <2>1, <2>3 DEF Holds
<1>3. ASSUME NEW d \in Dispatchers, RecordPublished(d) \/ RecordFailed(d) PROVE Holds(d, r)
  <2>1. /\ messages' = messages /\ step[d] \in {"published", "failed"}
        /\ attempts' = Inc(attempts, Current(d))
        /\ \E s \in Status : outbox' = [outbox EXCEPT ![Current(d)] = s]
    BY <1>3 DEF RecordPublished, RecordFailed, Status
  <2>2. Current(d) \in Rows
    BY <1>t, <2>1, CurrentInBatch
  <2>3. r = Current(d)
    <3>. SUFFICES ASSUME r # Current(d) PROVE FALSE
      OBVIOUS
    <3>1. attempts'[r] = attempts[r]
      BY <1>t, <2>1, <2>2, IncType DEF TypeOK
    <3>2. outbox'[r] = outbox[r]
      BY <1>t, <2>1, <2>2 DEF TypeOK
    <3>. QED
      BY <2>1, <3>1, <3>2 DEF Touches
  <2>. QED
    BY <2>1, <2>3 DEF Holds
<1>. QED
  BY <1>1, <1>2, <1>3 DEF Next, Proceed, vars, row, past, Touches, Schedule, StartOne,
     StartRecovery, LockRow, SkipRow, Crash

(* A published row is nobody's business any more: the status a dispatcher   *)
(* read under the lock cannot become published before it lets go.           *)
THEOREM FinalCorrect == Spec => PublishedIsFinal
<1>1. Typed /\ Locking /\ [Next]_vars => LeavesPublished
  <2>. SUFFICES ASSUME Typed, Locking, [Next]_vars,
                       NEW r \in Rows, outbox[r] = "published"
                PROVE  ~Touches(r)
    BY DEF LeavesPublished, Touches
  <2>. QED
    BY OnlyHolderTouches DEF Locking, HeldIsDue
<1>. QED
  BY <1>1, TypedInit, TypedStep, LockingInit, LockingStep, PTL DEF Spec, PublishedIsFinal

-----------------------------------------------------------------------------
(* Duplicates. Each message of a row is excused by a fault, but for one:    *)
(* the one of the published row, or of the dispatcher about to record it.   *)
Sent(r) == \/ outbox[r] = "published"
           \/ \E d \in Dispatchers : Holds(d, r) /\ step[d] = "published"

Excused ==
  \A r \in Rows : /\ Sent(r) => messages[r] <= 1 + ambiguous[r] + unrecorded[r]
                  /\ ~Sent(r) => messages[r] <= ambiguous[r] + unrecorded[r]

LEMMA ExcusedInit == Init => Excused
BY DEF Init, Excused, None

LEMMA ExcusedStep == Typed /\ Locking /\ Excused /\ [Next]_vars => Excused'
<1>. SUFFICES ASSUME Typed, Locking, Excused, [Next]_vars, NEW r \in Rows
              PROVE  /\ Sent(r)' => messages'[r] <= 1 + ambiguous'[r] + unrecorded'[r]
                     /\ ~Sent(r)' => messages'[r] <= ambiguous'[r] + unrecorded'[r]
  BY DEF Excused
<1>. DEFINE E == /\ Sent(r)' => messages'[r] <= 1 + ambiguous'[r] + unrecorded'[r]
                 /\ ~Sent(r)' => messages'[r] <= ambiguous'[r] + unrecorded'[r]
<1>t. /\ TypeOK /\ messages[r] \in Nat /\ ambiguous[r] \in Nat /\ unrecorded[r] \in Nat
      /\ messages \in Counter /\ ambiguous \in Counter /\ unrecorded \in Counter
      /\ Sent(r) => messages[r] <= 1 + ambiguous[r] + unrecorded[r]
      /\ ~Sent(r) => messages[r] <= ambiguous[r] + unrecorded[r]
  BY DEF Typed, TypeOK, Counter, Excused
<1>1. ASSUME messages'[r] = messages[r], ambiguous'[r] = ambiguous[r],
             unrecorded'[r] = unrecorded[r], Sent(r) => Sent(r)'
      PROVE  E
  BY <1>1, <1>t
(* A step that does not reach the row through a dispatcher.                 *)
<1>2. ASSUME NEW d \in Dispatchers, Others(d), ~Holds(d, r), outbox'[r] = outbox[r]
      PROVE  Sent(r) => Sent(r)'
  <2>1. ASSUME NEW e \in Dispatchers, Holds(e, r), step[e] = "published"
        PROVE  Holds(e, r)' /\ step'[e] = "published"
    BY <1>2, <2>1, OthersHold DEF Others
  <2>. QED
    BY <1>2, <2>1 DEF Sent
<1>3. ASSUME NEW d \in Dispatchers, Holds(d, r)
      PROVE  Sent(r) <=> step[d] = "published"
  BY <1>3 DEF Sent, Locking, OneHolder, HeldIsDue
<1>4. ASSUME UNCHANGED <<step, batch, messages, past>>,
             outbox'[r] = outbox[r] \/ outbox[r] = "none"
      PROVE  E
  <2>1. Sent(r) => Sent(r)'
    BY <1>4 DEF Sent, Holds, Current
  <2>. QED
    BY <1>1, <1>4, <2>1 DEF past
<1>5. ASSUME NEW d \in Dispatchers, Others(d), UNCHANGED <<outbox, messages, past>>,
             step[d] \in {"idle", "select"}
      PROVE  E
  <2>1. ~Holds(d, r)
    BY <1>5 DEF Holds
  <2>. QED
    BY <1>1, <1>2, <1>5, <2>1 DEF past
<1>6. ASSUME NEW q \in Rows, Commit(q) \/ Schedule(q) PROVE E
  BY <1>4, <1>6, <1>t DEF Commit, Schedule, row, TypeOK
<1>7. ASSUME NEW d \in Dispatchers, NEW q \in Rows, StartOne(d, q) PROVE E
  BY <1>5, <1>7, <1>t DEF StartOne, row, Others, TypeOK
<1>8. ASSUME NEW d \in Dispatchers, StartRecovery(d) \/ LockRow(d) PROVE E
  BY <1>5, <1>8, <1>t DEF StartRecovery, LockRow, row, Others, TypeOK
<1>9. ASSUME NEW d \in Dispatchers, SkipRow(d) PROVE E
  BY <1>5, <1>9, NextIdType DEF SkipRow, row, Others
<1>10. ASSUME NEW d \in Dispatchers, Publish(d) PROVE E
  <2>0. /\ step[d] = "publish" /\ step'[d] = "published" /\ Others(d) /\ batch' = batch
        /\ UNCHANGED <<outbox, ambiguous, unrecorded>>
        /\ messages' = Inc(messages, Current(d)) /\ Current(d) \in Rows
    BY <1>10, <1>t, CurrentInBatch DEF Publish, row, past, Others, TypeOK
  <2>1. CASE Holds(d, r)
    <3>1. messages'[r] = messages[r] + 1 /\ ~Sent(r)
      BY <1>3, <1>t, <2>0, <2>1, IncType DEF Holds
    <3>2. Sent(r)'
      BY <2>0, <2>1 DEF Sent, Holds, Current
    <3>. QED
      BY <1>t, <2>0, <3>1, <3>2
  <2>2. CASE ~Holds(d, r)
    <3>1. messages'[r] = messages[r]
      BY <1>t, <2>0, <2>2, IncType DEF Holds
    <3>. QED
      BY <1>1, <1>2, <2>0, <2>2, <3>1
  <2>. QED
    BY <2>1, <2>2
<1>11. ASSUME NEW d \in Dispatchers, PublishRaises(d) PROVE E
  <2>0. /\ step[d] = "publish" /\ step'[d] = "failed" /\ Others(d)
        /\ UNCHANGED <<outbox, unrecorded>> /\ Current(d) \in Rows
        /\ \/ messages' = messages /\ ambiguous' = ambiguous
           \/ /\ messages' = Inc(messages, Current(d))
              /\ ambiguous' = Inc(ambiguous, Current(d))
    BY <1>11, <1>t, CurrentInBatch DEF PublishRaises, row, Others, TypeOK
  <2>1. CASE Holds(d, r)
    <3>1. ~Sent(r)
      BY <1>3, <2>0, <2>1
    <3>2. CASE messages' = messages /\ ambiguous' = ambiguous
      BY <1>t, <2>0, <3>1, <3>2
    <3>3. CASE /\ messages' = Inc(messages, Current(d))
               /\ ambiguous' = Inc(ambiguous, Current(d))
      <4>1. messages'[r] = messages[r] + 1 /\ ambiguous'[r] = ambiguous[r] + 1
        BY <1>t, <2>1, <3>3, IncType DEF Holds
      <4>. QED
        BY <1>t, <2>0, <3>1, <4>1
    <3>. QED
      BY <2>0, <3>2, <3>3
  <2>2. CASE ~Holds(d, r)
    <3>1. messages'[r] = messages[r] /\ ambiguous'[r] = ambiguous[r]
      BY <1>t, <2>0, <2>2, IncType DEF Holds
    <3>. QED
      BY <1>1, <1>2, <2>0, <2>2, <3>1
  <2>. QED
    BY <2>1, <2>2
<1>12. ASSUME NEW d \in Dispatchers, RecordPublished(d) \/ RecordFailed(d) PROVE E
  <2>0. /\ UNCHANGED <<messages, ambiguous, unrecorded>> /\ Others(d) /\ Current(d) \in Rows
        /\ step[d] \in {"published", "failed"}
        /\ outbox' = [outbox EXCEPT ![Current(d)] = step[d]]
    BY <1>12, <1>t, CurrentInBatch, NextIdType
    DEF RecordPublished, RecordFailed, past, Others
  <2>1. CASE Holds(d, r)
    <3>1. Sent(r) => Sent(r)'
      BY <1>3, <1>t, <2>0, <2>1 DEF Sent, Holds, TypeOK
    <3>. QED
      BY <1>1, <2>0, <3>1
  <2>2. CASE ~Holds(d, r)
    <3>1. outbox'[r] = outbox[r]
      BY <1>t, <2>0, <2>2 DEF Holds, TypeOK
    <3>. QED
      BY <1>1, <1>2, <2>0, <2>2, <3>1
  <2>. QED
    BY <2>1, <2>2
<1>13. ASSUME NEW d \in Dispatchers, Crash(d) PROVE E
  <2>0. /\ UNCHANGED <<outbox, messages, ambiguous>> /\ Others(d) /\ Current(d) \in Rows
        /\ unrecorded' = IF step[d] \in {"published", "failed"}
                         THEN Inc(unrecorded, Current(d)) ELSE unrecorded
    BY <1>13, <1>t, CurrentInBatch DEF Crash, row, Others, TypeOK
  <2>1. CASE Holds(d, r) /\ step[d] \in {"published", "failed"}
    <3>1. unrecorded'[r] = unrecorded[r] + 1
      BY <1>t, <2>0, <2>1, IncType DEF Holds
    <3>. QED
      BY <1>t, <2>0, <3>1
  <2>2. CASE Holds(d, r) /\ step[d] \notin {"published", "failed"}
    <3>1. ~Sent(r) /\ unrecorded' = unrecorded
      BY <1>3, <2>0, <2>2
    <3>. QED
      BY <1>1, <2>0, <3>1
  <2>3. CASE ~Holds(d, r)
    <3>1. unrecorded'[r] = unrecorded[r]
      BY <1>t, <2>0, <2>3, IncType DEF Holds
    <3>. QED
      BY <1>1, <1>2, <2>0, <2>3, <3>1
  <2>. QED
    BY <2>1, <2>2, <2>3
<1>14. CASE UNCHANGED vars
  BY <1>4, <1>14 DEF vars, row
<1>. QED
  BY <1>6, <1>7, <1>8, <1>9, <1>10, <1>11, <1>12, <1>13, <1>14 DEF Next, Proceed

(* A notification gets a second delivery message only for an ambiguous      *)
(* publish call or for a dispatcher lost before its commit.                 *)
THEOREM DuplicatesCorrect == Spec => []DuplicatesAreFaults
<1>1. Typed /\ Excused => DuplicatesAreFaults
  <2>. SUFFICES ASSUME Typed, Excused, NEW r \in Rows
                PROVE  messages[r] <= 1 + ambiguous[r] + unrecorded[r]
    BY DEF DuplicatesAreFaults
  <2>1. messages[r] \in Nat /\ ambiguous[r] \in Nat /\ unrecorded[r] \in Nat
    BY DEF Typed, TypeOK, Counter
  <2>. QED
    BY <2>1 DEF Excused
<1>. QED
  BY <1>1, TypedInit, TypedStep, LockingInit, LockingStep, ExcusedInit, ExcusedStep, PTL
  DEF Spec

-----------------------------------------------------------------------------
(* The count operators read. AttemptsCounted is inductive: a message is     *)
(* owed an attempt by the dispatcher about to record it.                    *)
LEMMA CountedInit == Init => AttemptsCounted
<1>. SUFFICES ASSUME Init, NEW r \in Rows
              PROVE  messages[r] <= attempts[r] + unrecorded[r] + Cardinality(Recording(r))
  BY DEF AttemptsCounted
<1>1. Cardinality(Recording(r)) \in Nat
  BY DispatcherAssumption, FS_Subset, FS_CardinalityType DEF Recording
<1>2. messages[r] = 0 /\ attempts[r] = 0 /\ unrecorded[r] = 0
  BY DEF Init, None
<1>. QED
  BY <1>1, <1>2

(* A step of one dispatcher takes no other off those about to record.       *)
LEMMA RecordingKept ==
  ASSUME NEW d \in Dispatchers, Others(d), NEW r \in Rows
  PROVE  /\ Cardinality(Recording(r)') \in Nat /\ Cardinality(Recording(r)) \in Nat
         /\ Cardinality(Recording(r)') >= Cardinality(Recording(r)) - 1
         /\ d \notin Recording(r) =>
              Cardinality(Recording(r)') >= Cardinality(Recording(r))
         /\ d \notin Recording(r) /\ d \in Recording(r)' =>
              Cardinality(Recording(r)') >= Cardinality(Recording(r)) + 1
<1>1. /\ Recording(r) \in SUBSET Dispatchers /\ Recording(r)' \in SUBSET Dispatchers
      /\ IsFiniteSet(Recording(r)) /\ IsFiniteSet(Recording(r)')
  BY DispatcherAssumption, FS_Subset DEF Recording
<1>2. Recording(r) \ {d} \in SUBSET Recording(r)'
  BY OthersHold DEF Recording, Others
<1>3. /\ Cardinality(Recording(r)') \in Nat /\ Cardinality(Recording(r)) \in Nat
      /\ Cardinality(Recording(r) \ {d}) <= Cardinality(Recording(r)')
  BY <1>1, <1>2, FS_Subset, FS_CardinalityType
<1>4. Cardinality(Recording(r) \ {d}) =
        IF d \in Recording(r) THEN Cardinality(Recording(r)) - 1
                              ELSE Cardinality(Recording(r))
  BY <1>1, FS_RemoveElement
<1>5. ASSUME d \notin Recording(r), d \in Recording(r)'
      PROVE  Cardinality(Recording(r)') >= Cardinality(Recording(r)) + 1
  <2>1. Recording(r) \cup {d} \in SUBSET Recording(r)'
    BY <1>2, <1>5
  <2>2. Cardinality(Recording(r) \cup {d}) = Cardinality(Recording(r)) + 1
    BY <1>1, <1>5, FS_AddElement
  <2>3. Cardinality(Recording(r) \cup {d}) <= Cardinality(Recording(r)')
    BY <1>1, <2>1, FS_Subset
  <2>. QED
    BY <1>3, <2>2, <2>3
<1>. QED
  BY <1>3, <1>4, <1>5

LEMMA CountedStep == Typed /\ AttemptsCounted /\ [Next]_vars => AttemptsCounted'
<1>. SUFFICES ASSUME Typed, AttemptsCounted, [Next]_vars, NEW r \in Rows
              PROVE  messages'[r] <= attempts'[r] + unrecorded'[r]
                                     + Cardinality(Recording(r)')
  BY DEF AttemptsCounted
<1>. DEFINE R == Cardinality(Recording(r))
            E == messages'[r] <= attempts'[r] + unrecorded'[r] + R'
<1>t. /\ TypeOK /\ messages[r] \in Nat /\ attempts[r] \in Nat /\ unrecorded[r] \in Nat
      /\ messages \in Counter /\ attempts \in Counter /\ unrecorded \in Counter
      /\ messages[r] <= attempts[r] + unrecorded[r] + R
      /\ R \in Nat
  BY DispatcherAssumption, FS_Subset, FS_CardinalityType
  DEF Typed, TypeOK, Counter, AttemptsCounted, Recording
<1>1. ASSUME messages'[r] = messages[r], attempts'[r] = attempts[r],
             unrecorded'[r] = unrecorded[r], R' \in Nat, R' >= R
      PROVE  E
  BY <1>1, <1>t
<1>2. ASSUME UNCHANGED <<step, batch, messages, attempts, unrecorded>> PROVE E
  <2>1. Recording(r)' = Recording(r)
    BY <1>2 DEF Recording, Holds, Current
  <2>. QED
    BY <1>1, <1>2, <1>t, <2>1
<1>3. ASSUME NEW d \in Dispatchers, Others(d), UNCHANGED <<messages, attempts, unrecorded>>,
             step[d] \notin {"published", "failed"}
      PROVE  E
  <2>1. d \notin Recording(r)
    BY <1>3 DEF Recording
  <2>2. R' \in Nat /\ R' >= R
    BY <1>3, <2>1, RecordingKept
  <2>. QED
    BY <1>1, <1>3, <2>2
<1>4. ASSUME NEW q \in Rows, Commit(q) \/ Schedule(q) PROVE E
  BY <1>2, <1>4 DEF Commit, Schedule, row, past
<1>5. ASSUME NEW d \in Dispatchers, NEW q \in Rows, StartOne(d, q) PROVE E
  BY <1>3, <1>5, <1>t DEF StartOne, row, past, Others, TypeOK
<1>6. ASSUME NEW d \in Dispatchers, StartRecovery(d) \/ LockRow(d) PROVE E
  BY <1>3, <1>6, <1>t DEF StartRecovery, LockRow, row, past, Others, TypeOK
<1>7. ASSUME NEW d \in Dispatchers, SkipRow(d) PROVE E
  BY <1>3, <1>7, NextIdType DEF SkipRow, row, past, Others
<1>8. ASSUME NEW d \in Dispatchers, Publish(d) \/ PublishRaises(d) PROVE E
  <2>0. /\ step[d] = "publish" /\ step'[d] \in {"published", "failed"}
        /\ Others(d) /\ batch' = batch /\ Current(d) \in Rows
        /\ UNCHANGED <<attempts, unrecorded>>
        /\ messages' \in {messages, Inc(messages, Current(d))}
    BY <1>8, <1>t, CurrentInBatch DEF Publish, PublishRaises, row, past, Others, TypeOK
  <2>1. d \notin Recording(r) /\ R' \in Nat /\ R' >= R
    BY <2>0, RecordingKept DEF Recording
  <2>2. CASE Current(d) = r
    <3>1. d \in Recording(r)'
      BY <2>0, <2>2 DEF Recording, Holds, Current
    <3>2. R' >= R + 1
      BY <2>0, <2>1, <3>1, RecordingKept
    <3>3. messages'[r] \in {messages[r], messages[r] + 1}
      BY <1>t, <2>0, <2>2, IncType
    <3>. QED
      BY <1>t, <2>0, <2>1, <3>2, <3>3
  <2>3. CASE Current(d) # r
    <3>1. messages'[r] = messages[r]
      BY <1>t, <2>0, <2>3, IncType
    <3>. QED
      BY <1>1, <2>0, <2>1, <3>1
  <2>. QED
    BY <2>2, <2>3
<1>9. ASSUME NEW d \in Dispatchers, RecordPublished(d) \/ RecordFailed(d) \/ Crash(d),
             step[d] \in {"published", "failed"}
      PROVE  E
  <2>0. /\ messages' = messages /\ Others(d) /\ Current(d) \in Rows
        /\ \/ attempts' = Inc(attempts, Current(d)) /\ unrecorded' = unrecorded
           \/ unrecorded' = Inc(unrecorded, Current(d)) /\ attempts' = attempts
    BY <1>9, <1>t, CurrentInBatch, NextIdType
    DEF RecordPublished, RecordFailed, Crash, row, past, Others, TypeOK
  <2>1. R' \in Nat /\ R' >= R - 1 /\ (d \notin Recording(r) => R' >= R)
    BY <2>0, RecordingKept
  <2>2. CASE Current(d) = r
    <3>1. \/ attempts'[r] = attempts[r] + 1 /\ unrecorded'[r] = unrecorded[r]
          \/ attempts'[r] = attempts[r] /\ unrecorded'[r] = unrecorded[r] + 1
      BY <1>t, <2>0, <2>2, IncType
    <3>. QED
      BY <1>t, <2>0, <2>1, <3>1
  <2>3. CASE Current(d) # r
    <3>1. attempts'[r] = attempts[r] /\ unrecorded'[r] = unrecorded[r]
      BY <1>t, <2>0, <2>3, IncType
    <3>2. d \notin Recording(r)
      BY <2>3 DEF Recording, Holds
    <3>. QED
      BY <1>1, <2>0, <2>1, <3>1, <3>2
  <2>. QED
    BY <2>2, <2>3
<1>10. ASSUME NEW d \in Dispatchers, Crash(d), step[d] \notin {"published", "failed"}
       PROVE  E
  BY <1>3, <1>10, <1>t DEF Crash, row, Others, TypeOK
<1>11. CASE UNCHANGED vars
  BY <1>2, <1>11 DEF vars, row, past
<1>. QED
  BY <1>4, <1>5, <1>6, <1>7, <1>8, <1>9, <1>10, <1>11
  DEF Next, Proceed, RecordPublished, RecordFailed

(* attempts misses no message but those a lost dispatcher had published and *)
(* those about to be recorded.                                             *)
THEOREM AttemptsCorrect == Spec => []AttemptsCounted
BY TypedInit, TypedStep, CountedInit, CountedStep, PTL DEF Spec

-----------------------------------------------------------------------------
(* The safety half of the promise: every step of the dispatchers is a step  *)
(* of OutboxPromise or none.                                               *)
HasMessage ==
  \A d \in Dispatchers, r \in Rows :
    Holds(d, r) /\ step[d] = "published" => messages[r] > 0

LEMMA HasMessageInit == Init => HasMessage
BY DEF Init, HasMessage

LEMMA MessagesGrow ==
  ASSUME Typed, [Next]_vars, NEW r \in Rows
  PROVE  messages'[r] \in Nat /\ messages'[r] >= messages[r] /\ messages[r] \in Nat
<1>1. messages \in Counter /\ TypeOK /\ messages[r] \in Nat
  BY DEF Typed, TypeOK, Counter
<1>2. ASSUME NEW d \in Dispatchers, Publish(d) \/ PublishRaises(d)
      PROVE  messages'[r] \in {messages[r], messages[r] + 1}
  <2>1. Current(d) \in Rows /\ messages' \in {messages, Inc(messages, Current(d))}
    BY <1>1, <1>2, CurrentInBatch DEF Publish, PublishRaises
  <2>. QED
    BY <1>1, <2>1, IncType
<1>3. messages' = messages \/ messages'[r] \in {messages[r], messages[r] + 1}
  BY <1>2 DEF Next, Proceed, vars, Commit, Schedule, StartOne, StartRecovery, LockRow,
     SkipRow, RecordPublished, RecordFailed, Crash
<1>. QED
  BY <1>1, <1>3

LEMMA HasMessageStep == Typed /\ HasMessage /\ [Next]_vars => HasMessage'
<1>. SUFFICES ASSUME Typed, HasMessage, [Next]_vars, NEW d \in Dispatchers, NEW r \in Rows,
                     Holds(d, r)', step'[d] = "published"
              PROVE  messages'[r] > 0
  BY DEF HasMessage
<1>t. TypeOK
  BY DEF Typed
<1>1. CASE Publish(d)
  <2>1. r = Current(d) /\ messages' = Inc(messages, r)
    BY <1>1 DEF Publish, Holds, Current
  <2>. QED
    BY <1>t, <2>1, IncType DEF TypeOK, Counter
<1>2. CASE ~Publish(d)
  <2>1. step[d] = "published" /\ batch'[d] = batch[d]
    <3>1. ASSUME NEW e \in Dispatchers,
                 RecordPublished(e) \/ RecordFailed(e) \/ SkipRow(e)
          PROVE  step[d] = "published" /\ batch'[d] = batch[d]
      <4>1. step'[e] \in {"idle", "select"} /\ Others(e)
        BY <3>1, NextIdType DEF RecordPublished, RecordFailed, SkipRow, Others
      <4>. QED
        BY <4>1 DEF Others
    <3>2. ASSUME NEW e \in Dispatchers, Publish(e), e # d
          PROVE  step[d] = "published" /\ batch'[d] = batch[d]
      BY <1>t, <3>2 DEF Publish, TypeOK
    <3>3. ASSUME NEW e \in Dispatchers,
                 \/ LockRow(e) \/ StartRecovery(e) \/ PublishRaises(e) \/ Crash(e)
                 \/ \E q \in Rows : StartOne(e, q)
          PROVE  step[d] = "published" /\ batch'[d] = batch[d]
      BY <1>t, <3>3 DEF LockRow, StartRecovery, PublishRaises, Crash, StartOne, TypeOK
    <3>. QED
      BY <1>2, <3>1, <3>2, <3>3 DEF Next, Proceed, vars, Commit, Schedule
  <2>2. Holds(d, r)
    BY <2>1 DEF Holds, Current
  <2>. QED
    BY <2>1, <2>2, MessagesGrow DEF HasMessage
<1>. QED
  BY <1>1, <1>2

(* A row that says published has its message.                               *)
Handed == \A r \in Rows : outbox[r] = "published" => messages[r] > 0

LEMMA HandedInit == Init => Handed
BY DEF Init, Handed

LEMMA HandedStep == Typed /\ HasMessage /\ Handed /\ [Next]_vars => Handed'
<1>. SUFFICES ASSUME Typed, HasMessage, Handed, [Next]_vars,
                     NEW r \in Rows, outbox'[r] = "published"
              PROVE  messages'[r] > 0
  BY DEF Handed
<1>t. TypeOK
  BY DEF Typed
<1>1. CASE outbox[r] = "published"
  BY <1>1, MessagesGrow DEF Handed
<1>2. CASE outbox[r] # "published"
  <2>1. PICK d \in Dispatchers : RecordPublished(d) /\ r = Current(d)
    BY <1>t, <1>2 DEF TypeOK, Next, Proceed, vars, row, Commit, Schedule, StartOne,
       StartRecovery, LockRow, SkipRow, Publish, PublishRaises, RecordPublished,
       RecordFailed, Crash
  <2>2. Holds(d, r) /\ step[d] = "published"
    BY <2>1 DEF RecordPublished, Holds
  <2>. QED
    BY <2>2, MessagesGrow DEF HasMessage
<1>. QED
  BY <1>1, <1>2

LEMMA PromiseInit == Init => Promise!Init
BY DEF Init, Promise!Init, Unpublished, None

LEMMA PromiseStep ==
  Typed /\ Locking /\ HasMessage /\ [Next]_vars => [Promise!Next]_(Promise!vars)
<1>. SUFFICES ASSUME Typed, Locking, HasMessage, [Next]_vars
              PROVE  Promise!Next \/ UNCHANGED <<Unpublished, {r \in Rows : outbox[r] = "published"},
                                                 messages>>
  BY DEF Promise!vars
<1>. DEFINE Settled == {r \in Rows : outbox[r] = "published"}
<1>t. TypeOK /\ outbox \in [Rows -> Status]
  BY DEF Typed, TypeOK
<1>1. ASSUME UNCHANGED outbox
      PROVE  UNCHANGED <<Unpublished, Settled>>
  BY <1>1 DEF Unpublished
<1>2. ASSUME NEW r \in Rows, Commit(r) PROVE Promise!Enqueue(r)
  <2>1. Unpublished' = Unpublished \cup {r} /\ Settled' = Settled /\ r \notin Unpublished \cup Settled
    BY <1>2, <1>t DEF Commit, Unpublished
  <2>. QED
    BY <1>2, <2>1 DEF Commit, Promise!Enqueue
<1>3. ASSUME NEW d \in Dispatchers, step[d] = "publish", UNCHANGED outbox,
             messages' = Inc(messages, Current(d))
      PROVE  Current(d) \in Rows /\ Promise!Send(Current(d))
  <2>1. Current(d) \in Rows /\ Holds(d, Current(d))
    BY <1>t, <1>3, CurrentInBatch DEF Holds
  <2>2. Current(d) \in Unpublished
    BY <2>1 DEF Locking, HeldIsDue, Unpublished
  <2>. QED
    BY <1>1, <1>3, <2>1, <2>2 DEF Promise!Send, Inc
<1>4. ASSUME NEW d \in Dispatchers, RecordPublished(d)
      PROVE  \E r \in Rows : Promise!Settle(r)
  <2>1. Current(d) \in Rows /\ Holds(d, Current(d)) /\ step[d] = "published"
    BY <1>t, <1>4, CurrentInBatch DEF RecordPublished, Holds
  <2>2. Current(d) \in Unpublished /\ messages[Current(d)] > 0
    BY <2>1 DEF Locking, HeldIsDue, HasMessage, Unpublished
  <2>3. /\ Unpublished' = Unpublished \ {Current(d)}
        /\ Settled' = Settled \cup {Current(d)}
        /\ messages' = messages
    BY <1>t, <1>4, <2>1 DEF RecordPublished, Unpublished
  <2>4. PICK r \in Rows : r = Current(d)
    BY <2>1
  <2>5. Promise!Settle(r)
    BY <2>2, <2>3, <2>4 DEF Promise!Settle
  <2>. QED
    BY <2>5
<1>5. ASSUME NEW d \in Dispatchers, RecordFailed(d)
      PROVE  UNCHANGED <<Unpublished, Settled, messages>>
  <2>1. Current(d) \in Rows /\ Holds(d, Current(d))
    BY <1>t, <1>5, CurrentInBatch DEF RecordFailed, Holds
  <2>2. Current(d) \in Unpublished /\ Current(d) \notin Settled
    BY <2>1 DEF Locking, HeldIsDue, Unpublished
  <2>. QED
    BY <1>t, <1>5, <2>1, <2>2 DEF RecordFailed, Unpublished
<1>6. ASSUME NEW d \in Dispatchers, Publish(d) \/ PublishRaises(d)
      PROVE  \/ \E r \in Rows : Promise!Send(r)
             \/ UNCHANGED <<Unpublished, Settled, messages>>
  BY <1>1, <1>3, <1>6 DEF Publish, PublishRaises, row
<1>7. ASSUME UNCHANGED <<outbox, messages>>
      PROVE  UNCHANGED <<Unpublished, Settled, messages>>
  BY <1>1, <1>7
<1>8. \/ UNCHANGED <<outbox, messages>>
      \/ \E r \in Rows : Commit(r)
      \/ \E d \in Dispatchers :
           RecordPublished(d) \/ RecordFailed(d) \/ Publish(d) \/ PublishRaises(d)
  BY DEF Next, Proceed, vars, row, Schedule, StartOne, StartRecovery, LockRow, SkipRow, Crash
<1>9. Promise!Next \/ UNCHANGED <<Unpublished, Settled, messages>>
  <2>1. ASSUME NEW r \in Rows, Commit(r) PROVE Promise!Next
    BY <1>2, <2>1 DEF Promise!Next
  <2>2. ASSUME NEW d \in Dispatchers, RecordPublished(d) PROVE Promise!Next
    BY <1>4, <2>2 DEF Promise!Next
  <2>3. ASSUME NEW d \in Dispatchers, Publish(d) \/ PublishRaises(d)
        PROVE  Promise!Next \/ UNCHANGED <<Unpublished, Settled, messages>>
    BY <1>6, <2>3 DEF Promise!Next
  <2>. QED
    BY <1>5, <1>7, <1>8, <2>1, <2>2, <2>3
<1>. QED
  BY <1>9

(* The dispatchers keep the safety part of the promise of the outbox: no    *)
(* message before a row is committed, none after it is settled, and none    *)
(* settled without one.                                                     *)
THEOREM PromiseKept == Spec => Promise!Safety
BY TypedInit, TypedStep, LockingInit, LockingStep, HasMessageInit, HasMessageStep,
   PromiseInit, PromiseStep, PTL DEF Spec, Promise!Safety
=============================================================================
