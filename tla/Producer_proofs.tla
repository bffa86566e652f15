-------------------------- MODULE Producer_proofs --------------------------
(* Theorems about Producer, for any number of requests, clones and keys.   *)
EXTENDS Producer, FiniteSetTheorems, TLAPS

(* What the step of a process says of its two rows.                         *)
RowsOf(p) ==
  /\ step[p] \in {"get", "insert", "reread", "commit"} => p \in Requests
  /\ step[p] \in {"start", "get", "insert", "reread", "error"} =>
       notification[p] = "none" /\ outbox[p] = "none"
  /\ step[p] = "outbox" =>
       /\ notification[p] = IF p \in Requests THEN "open" ELSE "committed"
       /\ outbox[p] = "none"
  /\ step[p] = "commit" => notification[p] = "open" /\ outbox[p] = "open"
  /\ step[p] = "schedule" => notification[p] = "committed" /\ outbox[p] = "committed"
  /\ step[p] \in {"done", "dead"} =>
       /\ notification[p] # "open" /\ outbox[p] # "open"
       /\ p \in Requests => (notification[p] = "committed" <=> outbox[p] = "committed")

(* ... of its answer, and of the dispatch it scheduled.                     *)
AnswerOf(p) ==
  /\ step[p] \in {"outbox", "commit", "schedule"} => answer[p] = p
  /\ step[p] = "done" => /\ answer[p] \in All /\ notification[answer[p]] = "committed"
                         /\ answer[p] = p \/ SameKey(p, answer[p])
  /\ scheduled[p] > 0 => step[p] = "done" /\ outbox[p] = "committed"
  /\ scheduled[p] <= 1

(* What the unique index enforces.                                          *)
Unique ==
  \A p, q \in All : SameKey(p, q) /\ notification[p] # "none" /\ notification[q] # "none"
                      => p = q

Typed == TypeOK /\ \A p \in All : RowsOf(p)

(* A step of p leaves the rows and the locals of all others alone.          *)
Others(p) ==
  \A q \in All \ {p} :
    /\ notification'[q] = notification[q] /\ outbox'[q] = outbox[q]
    /\ step'[q] = step[q] /\ answer'[q] = answer[q] /\ scheduled'[q] = scheduled[q]

Acts(p) == Start(p) \/ CloneNotification(p) \/ Proceed(p) \/ RejectCommit(p) \/ Crash(p)

LEMMA TypedInit == Init => Typed
BY DEF Init, Typed, TypeOK, RowsOf, Row, Step

LEMMA ActsTyped ==
  ASSUME Typed, NEW p \in All, Acts(p)
  PROVE  TypeOK' /\ RowsOf(p)' /\ Others(p)
<1>t. /\ TypeOK /\ RowsOf(p)
      /\ {"none", "open", "committed"} = Row
      /\ {"start", "get", "insert", "outbox", "commit", "reread", "schedule",
          "done", "error", "dead"} = Step
  BY DEF Typed, Row, Step
<1>a. p \in Clones => p \notin Requests
  BY ProducerAssumption DEF All
<1>1. CASE Start(p)
  BY <1>1, <1>t DEF Start, Goto, TypeOK, RowsOf, Others
<1>2. CASE Get(p)
  BY <1>2, <1>t DEF Get, Goto, TypeOK, RowsOf, Others, Visible
<1>3. CASE Insert(p)
  BY <1>3, <1>t DEF Insert, Goto, TypeOK, RowsOf, Others
<1>4. CASE Reread(p)
  BY <1>4, <1>t DEF Reread, Goto, TypeOK, RowsOf, Others, Visible
<1>5. CASE CreateOutbox(p)
  BY <1>5, <1>t DEF CreateOutbox, Goto, TypeOK, RowsOf, Others
<1>6. CASE Commit(p)
  BY <1>6, <1>t DEF Commit, Goto, TypeOK, RowsOf, Others
<1>7. CASE RejectCommit(p)
  BY <1>7, <1>t DEF RejectCommit, Goto, TypeOK, RowsOf, Others
<1>8. CASE Schedule(p)
  BY <1>8, <1>t DEF Schedule, Goto, TypeOK, RowsOf, Others
<1>9. CASE CloneNotification(p)
  BY <1>9, <1>a, <1>t DEF CloneNotification, Goto, TypeOK, RowsOf, Others
<1>10. CASE CloneOutbox(p)
  BY <1>10, <1>a, <1>t DEF CloneOutbox, Goto, TypeOK, RowsOf, Others
<1>11. CASE Crash(p)
  BY <1>11, <1>a, <1>t DEF Crash, RolledBack, Goto, TypeOK, RowsOf, Others, Over
<1>. QED
  BY <1>1, <1>2, <1>3, <1>4, <1>5, <1>6, <1>7, <1>8, <1>9, <1>10, <1>11 DEF Acts, Proceed

LEMMA TypedStep == Typed /\ [Next]_vars => Typed'
<1>. SUFFICES ASSUME Typed, [Next]_vars PROVE Typed'
  OBVIOUS
<1>1. ASSUME NEW p \in All, Acts(p) PROVE Typed'
  <2>1. TypeOK' /\ RowsOf(p)' /\ Others(p)
    BY <1>1, ActsTyped
  <2>2. \A q \in All \ {p} : RowsOf(q)'
    BY <2>1 DEF Typed, RowsOf, Others
  <2>. QED
    BY <2>1, <2>2 DEF Typed
<1>2. CASE UNCHANGED vars
  BY <1>2 DEF vars, Typed, TypeOK, RowsOf
<1>. QED
  BY <1>1, <1>2 DEF Next, Acts

(* Every reachable state of the producer is well typed, for any requests,   *)
(* clones and keys.                                                         *)
THEOREM TypeCorrect == Spec => []TypeOK
<1>1. Typed => TypeOK
  BY DEF Typed
<1>. QED
  BY <1>1, TypedInit, TypedStep, PTL DEF Spec

(* enqueue_notification leaves both rows or none, whatever fails and        *)
(* whoever dies.                                                            *)
THEOREM NoOrphanCorrect == Spec => []NoOrphan
<1>1. Typed => NoOrphan
  <2>. SUFFICES ASSUME Typed, NEW p \in Requests
                PROVE  notification[p] = "committed" <=> outbox[p] = "committed"
    BY DEF NoOrphan
  <2>1. p \in All /\ step[p] \in Step /\ RowsOf(p)
    BY DEF All, Typed, TypeOK
  <2>. QED
    BY <2>1 DEF RowsOf, Step
<1>. QED
  BY <1>1, TypedInit, TypedStep, PTL DEF Spec

-----------------------------------------------------------------------------
(* A committed notification stays, and one that is not there appears only   *)
(* by Insert, which looked for others, or for a clone, which has no key.    *)
LEMMA CommittedStays ==
  ASSUME Typed, NEW p \in All, Acts(p), NEW q \in All, notification[q] = "committed"
  PROVE  notification'[q] = "committed"
<1>1. CASE q # p
  BY <1>1, ActsTyped DEF Others
<1>2. CASE q = p
  <2>1. step[p] \in {"outbox", "schedule", "done", "dead"}
    BY <1>2 DEF Typed, TypeOK, RowsOf, Step
  <2>2. notification \in [All -> Row]
    BY DEF Typed, TypeOK
  <2>. QED
    BY <1>2, <2>1, <2>2 DEF Acts, Proceed, Start, CloneNotification, Get, Insert, Reread,
       CreateOutbox, Commit, Schedule, CloneOutbox, RejectCommit, Crash, RolledBack
<1>. QED
  BY <1>1, <1>2

LEMMA UniqueInit == Init => Unique
BY DEF Init, Unique

LEMMA UniqueStep == Typed /\ Unique /\ [Next]_vars => Unique'
<1>. SUFFICES ASSUME Typed, Unique, [Next]_vars PROVE Unique'
  OBVIOUS
<1>t. notification \in [All -> Row]
  BY DEF Typed, TypeOK
<1>1. ASSUME \A q \in All : notification'[q] # "none" => notification[q] # "none"
      PROVE  Unique'
  BY <1>1 DEF Unique, SameKey
<1>2. ASSUME NEW p \in All, Insert(p) PROVE Unique'
  <2>1. CASE Visible(p) = {}
    <3>1. \A q \in All \ {p} : SameKey(p, q) \/ SameKey(q, p) =>
            notification[q] = "none" /\ notification'[q] = "none"
      BY <1>2, <1>t, <2>1 DEF Insert, OpenTwins, Visible, SameKey, Row
    <3>2. \A q \in All \ {p} : notification'[q] = notification[q]
      BY <1>2, <1>t, <2>1 DEF Insert
    <3>. QED
      BY <3>1, <3>2 DEF Unique, SameKey
  <2>2. CASE Visible(p) # {}
    BY <1>1, <1>2, <2>2 DEF Insert
  <2>. QED
    BY <2>1, <2>2
<1>3. ASSUME NEW p \in All, CloneNotification(p) PROVE Unique'
  <2>1. Key[p] = NoKey /\ \A q \in All \ {p} : notification'[q] = notification[q]
    BY <1>3, <1>t, ProducerAssumption DEF CloneNotification
  <2>. QED
    BY <2>1 DEF Unique, SameKey
<1>4. ASSUME NEW p \in All, Commit(p) PROVE Unique'
  <2>1. notification[p] = "open" /\ notification' = [notification EXCEPT ![p] = "committed"]
    BY <1>4 DEF Commit, Typed, RowsOf
  <2>. QED
    BY <1>1, <1>t, <2>1
<1>5. ASSUME NEW p \in All, RejectCommit(p) PROVE Unique'
  BY <1>1, <1>5, <1>t DEF RejectCommit
<1>6. ASSUME NEW p \in All, Crash(p) PROVE Unique'
  BY <1>1, <1>6, <1>t DEF Crash, RolledBack
<1>7. CASE UNCHANGED notification
  BY <1>1, <1>7
<1>. QED
  BY <1>2, <1>3, <1>4, <1>5, <1>6, <1>7 DEF Next, Proceed, vars, Start, Get, Reread,
     CreateOutbox, Schedule, CloneOutbox

-----------------------------------------------------------------------------
Answers == \A p \in All : AnswerOf(p)

LEMMA AnswersInit == Init => Answers
BY DEF Init, Answers, AnswerOf

LEMMA AnswersStep == Typed /\ Answers /\ [Next]_vars => Answers'
<1>. SUFFICES ASSUME Typed, Answers, [Next]_vars PROVE Answers'
  OBVIOUS
<1>1. ASSUME NEW p \in All, Acts(p) PROVE Answers'
  <2>t. /\ TypeOK /\ RowsOf(p) /\ AnswerOf(p) /\ scheduled[p] \in Nat
        /\ TypeOK' /\ RowsOf(p)' /\ Others(p)
        /\ \A q \in All : notification[q] = "committed" => notification'[q] = "committed"
    BY <1>1, ActsTyped, CommittedStays DEF Typed, TypeOK, Answers
  <2>1. ASSUME NEW q \in All \ {p} PROVE AnswerOf(q)'
    <3>1. AnswerOf(q)
      BY DEF Answers
    <3>2. /\ step'[q] = step[q] /\ outbox'[q] = outbox[q] /\ answer'[q] = answer[q]
          /\ scheduled'[q] = scheduled[q]
      BY <2>t DEF Others
    <3>. QED
      BY <2>t, <3>1, <3>2 DEF AnswerOf, SameKey
  <2>2. CASE UNCHANGED scheduled /\ step'[p] \in {"get", "insert", "reread", "error", "dead"}
    <3>1. step[p] # "done"
      BY <1>1, <2>2 DEF Acts, Proceed, Start, CloneNotification, Get, Insert, Reread,
         CreateOutbox, Commit, Schedule, CloneOutbox, RejectCommit, Crash, Over
    <3>. QED
      BY <2>t, <2>1, <2>2, <3>1 DEF AnswerOf, Answers
  <2>3. CASE Get(p) \/ Reread(p)
    <3>1. CASE step'[p] = "done"
      <4>1. PICK q \in Visible(p) : answer' = [answer EXCEPT ![p] = q]
        BY <2>3, <2>t, <3>1 DEF Get, Reread, Goto, TypeOK
      <4>2. answer'[p] = q /\ q \in All /\ notification'[q] = "committed" /\ SameKey(p, q)
        BY <2>3, <2>t, <4>1 DEF Get, Reread, Visible, TypeOK
      <4>3. scheduled'[p] = 0
        BY <2>3, <2>t DEF Get, Reread, AnswerOf
      <4>4. AnswerOf(p)'
        BY <3>1, <4>2, <4>3 DEF AnswerOf, SameKey
      <4>. QED
        BY <2>1, <4>4 DEF Answers
    <3>2. CASE step'[p] # "done"
      BY <2>2, <2>3, <2>t, <3>2 DEF Get, Reread, Goto, TypeOK
    <3>. QED
      BY <3>1, <3>2
  <2>4. CASE Insert(p) \/ CloneNotification(p)
    <3>1. CASE step'[p] = "outbox"
      <4>1. answer'[p] = p
        BY <2>4, <2>t, <3>1 DEF Insert, CloneNotification, Goto, TypeOK
      <4>2. scheduled'[p] = 0
        BY <2>4, <2>t DEF Insert, CloneNotification, AnswerOf
      <4>. QED
        BY <2>1, <3>1, <4>1, <4>2 DEF AnswerOf, Answers
    <3>2. CASE step'[p] # "outbox"
      BY <2>2, <2>4, <2>t, <3>2 DEF Insert, CloneNotification, Goto, TypeOK
    <3>. QED
      BY <3>1, <3>2
  <2>5. CASE CreateOutbox(p) \/ CloneOutbox(p) \/ Commit(p)
    <3>1. answer'[p] = p /\ step'[p] \in {"commit", "schedule"} /\ scheduled'[p] = 0
      BY <2>5, <2>t DEF CreateOutbox, CloneOutbox, Commit, Goto, AnswerOf, TypeOK
    <3>. QED
      BY <2>1, <3>1 DEF AnswerOf, Answers
  <2>6. CASE Schedule(p)
    <3>1. /\ answer'[p] = p /\ step'[p] = "done" /\ outbox'[p] = "committed"
          /\ notification'[p] = "committed" /\ scheduled[p] = 0
      BY <2>6, <2>t DEF Schedule, Goto, RowsOf, AnswerOf, TypeOK
    <3>2. scheduled'[p] \in {0, 1}
      BY <2>6, <2>t, <3>1 DEF Schedule, TypeOK
    <3>3. AnswerOf(p)'
      BY <3>1, <3>2 DEF AnswerOf
    <3>. QED
      BY <2>1, <3>3 DEF Answers
  <2>7. CASE Start(p) \/ RejectCommit(p) \/ Crash(p)
    BY <2>2, <2>7, <2>t DEF Start, RejectCommit, Crash, Goto, TypeOK
  <2>. QED
    BY <1>1, <2>3, <2>4, <2>5, <2>6, <2>7 DEF Acts, Proceed
<1>2. CASE UNCHANGED vars
  BY <1>2 DEF vars, Answers, AnswerOf, SameKey
<1>. QED
  BY <1>1, <1>2 DEF Next, Acts

(* Idempotency, for any number of retries that overlap, fail and die: those *)
(* that are answered agree, and at most one of them schedules a dispatch.   *)
THEOREM RetriesCorrect == Spec => []RetriesAgree
<1>1. Typed /\ Unique /\ Answers => RetriesAgree
  <2>. SUFFICES ASSUME Typed, Unique, Answers,
                       NEW p \in Requests, NEW q \in Requests, SameKey(p, q)
                PROVE  /\ step[p] = "done" /\ step[q] = "done" =>
                            answer[p] = answer[q] /\ notification[answer[p]] = "committed"
                       /\ scheduled[p] > 0 /\ scheduled[q] > 0 => p = q /\ scheduled[p] = 1
    BY DEF RetriesAgree
  <2>t. /\ p \in All /\ q \in All /\ AnswerOf(p) /\ AnswerOf(q) /\ RowsOf(p) /\ RowsOf(q)
        /\ scheduled[p] \in Nat
    BY DEF All, Typed, TypeOK, Answers
  <2>1. ASSUME step[p] = "done", step[q] = "done"
        PROVE  answer[p] = answer[q] /\ notification[answer[p]] = "committed"
    <3>1. /\ answer[p] \in All /\ notification[answer[p]] = "committed"
          /\ answer[q] \in All /\ notification[answer[q]] = "committed"
          /\ SameKey(answer[p], answer[q])
      BY <2>1, <2>t DEF AnswerOf, SameKey
    <3>. QED
      BY <3>1 DEF Unique
  <2>2. ASSUME scheduled[p] > 0, scheduled[q] > 0 PROVE p = q /\ scheduled[p] = 1
    <3>1. notification[p] = "committed" /\ notification[q] = "committed"
      BY <2>2, <2>t DEF AnswerOf, RowsOf
    <3>. QED
      BY <2>2, <2>t, <3>1 DEF Unique, AnswerOf
  <2>. QED
    BY <2>1, <2>2
<1>. QED
  BY <1>1, TypedInit, TypedStep, UniqueInit, UniqueStep, AnswersInit, AnswersStep, PTL
  DEF Spec

(* No dispatch message names a row that can still be rolled back.           *)
THEOREM ScheduledCorrect == Spec => []ScheduledAfterCommit
<1>1. Answers => ScheduledAfterCommit
  BY DEF Answers, AnswerOf, ScheduledAfterCommit
<1>. QED
  BY <1>1, TypedInit, TypedStep, AnswersInit, AnswersStep, PTL DEF Spec

-----------------------------------------------------------------------------
(* Who has been refused, or will find nothing when it looks again: one for  *)
(* each commit that failed, and no one else ever joins them.                *)
Refused == {p \in All : step[p] = "error" \/ (step[p] = "reread" /\ Visible(p) = {})}

RefusedBound == Cardinality(Refused) <= rejected

LEMMA RefusedFinite ==
  ASSUME NEW S \in SUBSET All, NEW T \in SUBSET S
  PROVE  /\ IsFiniteSet(S) /\ Cardinality(S) \in Nat /\ Cardinality(T) \in Nat
         /\ Cardinality(T) <= Cardinality(S)
<1>1. IsFiniteSet(All)
  BY ProducerAssumption, FS_Union DEF All
<1>. QED
  BY <1>1, FS_Subset, FS_CardinalityType

LEMMA RefusedInit == Init => RefusedBound
<1>. SUFFICES ASSUME Init PROVE RefusedBound
  OBVIOUS
<1>1. Refused = {} /\ rejected = 0
  BY DEF Init, Refused
<1>. QED
  BY <1>1, FS_EmptySet DEF RefusedBound

LEMMA RefusedStep == Typed /\ RefusedBound /\ [Next]_vars => RefusedBound'
<1>. SUFFICES ASSUME Typed, RefusedBound, [Next]_vars PROVE RefusedBound'
  OBVIOUS
<1>t. Cardinality(Refused) \in Nat /\ rejected \in Nat /\ IsFiniteSet(Refused)
  BY RefusedFinite DEF Refused, Typed, TypeOK
<1>1. ASSUME Refused' \in SUBSET Refused, rejected' = rejected PROVE RefusedBound'
  <2>1. Cardinality(Refused') <= Cardinality(Refused) /\ Cardinality(Refused') \in Nat
    BY <1>1, RefusedFinite DEF Refused
  <2>. QED
    BY <1>1, <1>t, <2>1 DEF RefusedBound
<1>2. ASSUME NEW p \in All, Acts(p) PROVE Refused' \in SUBSET (Refused \cup {p})
  <2>1. \A q \in All : Visible(q) \in SUBSET Visible(q)'
    BY <1>2, CommittedStays DEF Visible, SameKey
  <2>2. \A q \in All \ {p} : step'[q] = step[q]
    BY <1>2, ActsTyped DEF Others
  <2>. QED
    BY <2>1, <2>2 DEF Refused
<1>3. ASSUME NEW p \in All, Acts(p), ~RejectCommit(p) PROVE RefusedBound'
  <2>1. step \in [All -> Step] /\ rejected' = rejected
    BY <1>3 DEF Typed, TypeOK, Acts, Proceed, Start, CloneNotification, Get, Insert, Reread,
       CreateOutbox, Commit, Schedule, CloneOutbox, Crash
  <2>2. Visible(p) \in SUBSET Visible(p)'
    BY <1>3, CommittedStays DEF Visible, SameKey
  <2>3. p \in Refused' => p \in Refused
    <3>1. CASE Insert(p)
      <4>1. step'[p] = "outbox" \/ (step'[p] = "reread" /\ Visible(p) # {})
        BY <2>1, <3>1 DEF Insert, Goto
      <4>. QED
        BY <2>2, <4>1 DEF Refused
    <3>2. CASE Reread(p)
      <4>1. step'[p] = "done" \/ (step[p] = "reread" /\ Visible(p) = {})
        BY <2>1, <3>2 DEF Reread, Goto
      <4>. QED
        BY <4>1 DEF Refused
    <3>3. CASE ~Insert(p) /\ ~Reread(p)
      <4>1. step'[p] \notin {"error", "reread"}
        BY <1>3, <2>1, <3>3 DEF Acts, Proceed, Start, CloneNotification, Get, CreateOutbox,
           Commit, Schedule, CloneOutbox, Crash, Goto
      <4>. QED
        BY <4>1 DEF Refused
    <3>. QED
      BY <3>1, <3>2, <3>3
  <2>. QED
    BY <1>1, <1>2, <1>3, <2>1, <2>3
<1>4. ASSUME NEW p \in All, RejectCommit(p) PROVE RefusedBound'
  <2>1. rejected' = rejected + 1 /\ p \notin Refused
    BY <1>4 DEF RejectCommit, Refused
  <2>2. Refused' \in SUBSET (Refused \cup {p}) /\ Refused \cup {p} \in SUBSET All
    BY <1>2, <1>4 DEF Acts, Refused
  <2>3. Cardinality(Refused \cup {p}) = Cardinality(Refused) + 1
    BY <1>t, <2>1, FS_AddElement
  <2>4. /\ Cardinality(Refused') <= Cardinality(Refused \cup {p})
        /\ Cardinality(Refused') \in Nat
    BY <2>2, RefusedFinite
  <2>. QED
    BY <1>t, <2>1, <2>3, <2>4 DEF RefusedBound
<1>5. CASE UNCHANGED vars
  <2>1. Refused' = Refused /\ rejected' = rejected
    BY <1>5 DEF vars, Refused, Visible, SameKey
  <2>. QED
    BY <1>1, <2>1
<1>. QED
  BY <1>3, <1>4, <1>5 DEF Next, Acts

(* A competitor for the key never makes a caller fail, whatever becomes of  *)
(* it: there are no more refusals than failed commits.                      *)
THEOREM ErrorsCorrect == Spec => []OnlyOwnErrors
<1>1. Typed /\ RefusedBound => OnlyOwnErrors
  <2>. SUFFICES ASSUME Typed, RefusedBound PROVE OnlyOwnErrors
    OBVIOUS
  <2>1. /\ {p \in All : step[p] = "error"} \in SUBSET Refused
        /\ Refused \in SUBSET All /\ rejected \in Nat
    BY DEF Refused, Typed, TypeOK
  <2>2. /\ Cardinality({p \in All : step[p] = "error"}) <= Cardinality(Refused)
        /\ Cardinality({p \in All : step[p] = "error"}) \in Nat
        /\ Cardinality(Refused) \in Nat
    BY <2>1, RefusedFinite
  <2>. QED
    BY <2>1, <2>2 DEF RefusedBound, OnlyOwnErrors
<1>. QED
  BY <1>1, TypedInit, TypedStep, RefusedInit, RefusedStep, PTL DEF Spec
-----------------------------------------------------------------------------
(* The contract. A commit creates both rows at once, a caller is given an   *)
(* answer when its call is over, and every other step is a stutter.         *)
LEMMA ContractInit == Init => Contract!Init
BY ProducerAssumption DEF Init, Contract!Init, All

LEMMA ContractStep ==
  Typed /\ Unique /\ Answers /\ [Next]_vars => [Contract!Next]_(Contract!vars)
<1>. DEFINE created == {p \in Requests : notification[p] = "committed"}
            jobs    == {p \in Requests : outbox[p] = "committed"}
            given   == [p \in Requests |-> IF step[p] = "done" THEN answer[p] ELSE NoAnswer]
            sent    == [p \in Requests |-> scheduled[p]]
<1>. SUFFICES ASSUME Typed, Unique, Answers, [Next]_vars
              PROVE  Contract!Next \/ UNCHANGED <<created, jobs, given, sent>>
  BY DEF Contract!vars
<1>t. /\ TypeOK /\ TypeOK' /\ Requests \in SUBSET All /\ NoAnswer \notin All
      /\ \A p \in All : RowsOf(p) /\ AnswerOf(p) /\ RowsOf(p)' /\ AnswerOf(p)'
  BY TypedStep, AnswersStep, ProducerAssumption DEF Typed, Answers, All
<1>1. ASSUME NEW p \in Requests, Commit(p) PROVE Contract!Create(p)
  <2>1. /\ \A q \in Requests : q # p =>
             notification'[q] = notification[q] /\ outbox'[q] = outbox[q]
        /\ notification'[p] = "committed" /\ outbox'[p] = "committed"
        /\ notification[p] = "open" /\ outbox[p] = "open"
    BY <1>1, <1>t DEF Commit, TypeOK, RowsOf
  <2>2. created' = created \cup {p} /\ jobs' = jobs \cup {p}
    BY <2>1
  <2>3. UNCHANGED <<given, sent>>
    <3>1. \A q \in Requests : step'[q] = "done" <=> step[q] = "done"
      BY <1>1, <1>t DEF Commit, Goto, TypeOK
    <3>. QED
      BY <1>1, <3>1 DEF Commit
  <2>4. \A q \in created : ~Contract!Same(p, q)
    BY <1>t, <2>1 DEF Unique, Contract!Same, SameKey
  <2>. QED
    BY <2>2, <2>3, <2>4 DEF Contract!Create
<1>2. ASSUME NEW p \in Requests, NEW q \in All, Acts(p), UNCHANGED <<notification, outbox>>,
             step[p] # "done", step'[p] = "done", answer'[p] = q,
             q = p \/ SameKey(p, q), notification[q] = "committed",
             scheduled' = scheduled
               \/ (p = q /\ scheduled' = [scheduled EXCEPT ![p] = @ + 1])
      PROVE  Contract!Next
  <2>1. q \in Requests
    BY <1>2, ProducerAssumption DEF SameKey, All
  <2>2. given[p] = NoAnswer /\ q \in created /\ Contract!Same(p, q)
    BY <1>2, <2>1 DEF Contract!Same, SameKey
  <2>3. given' = [given EXCEPT ![p] = q]
    <3>1. \A r \in Requests \ {p} : step'[r] = step[r] /\ answer'[r] = answer[r]
      BY <1>t, <1>2, ActsTyped DEF Others
    <3>. QED
      BY <1>2, <3>1
  <2>4. sent' = sent \/ (p = q /\ sent' = [sent EXCEPT ![p] = @ + 1])
    BY <1>2, <1>t DEF TypeOK
  <2>5. UNCHANGED <<created, jobs>>
    BY <1>2
  <2>6. Contract!Answer(p, q)
    BY <2>2, <2>3, <2>4, <2>5 DEF Contract!Answer
  <2>. QED
    BY <2>1, <2>6 DEF Contract!Next
<1>3. ASSUME NEW p \in All, Acts(p), p \in Clones PROVE UNCHANGED <<created, jobs, given, sent>>
  <2>1. \A r \in Requests : /\ notification'[r] = notification[r] /\ outbox'[r] = outbox[r]
                            /\ step'[r] = step[r] /\ answer'[r] = answer[r]
                            /\ scheduled'[r] = scheduled[r]
    BY <1>t, <1>3, ActsTyped, ProducerAssumption DEF Others
  <2>. QED
    BY <2>1
<1>4. ASSUME NEW p \in Requests, Acts(p), step[p] # "done", step'[p] # "done",
             UNCHANGED scheduled,
             notification'[p] = "committed" <=> notification[p] = "committed",
             outbox'[p] = "committed" <=> outbox[p] = "committed"
      PROVE  UNCHANGED <<created, jobs, given, sent>>
  <2>1. \A r \in Requests \ {p} :
          /\ notification'[r] = notification[r] /\ outbox'[r] = outbox[r]
          /\ step'[r] = step[r] /\ answer'[r] = answer[r]
    BY <1>t, <1>4, ActsTyped DEF Others
  <2>. QED
    BY <1>4, <2>1
<1>5. ASSUME NEW p \in Requests, Acts(p), ~Commit(p)
      PROVE  Contract!Next \/ UNCHANGED <<created, jobs, given, sent>>
  <2>1. p \in All /\ p \notin Clones /\ RowsOf(p) /\ AnswerOf(p)
    BY <1>t, ProducerAssumption
  <2>2. CASE Get(p) \/ Reread(p)
    <3>1. CASE step'[p] = "done"
      <4>1. PICK q \in Visible(p) : answer' = [answer EXCEPT ![p] = q]
        BY <1>t, <2>2, <3>1 DEF Get, Reread, Goto, TypeOK
      <4>2. /\ q \in All /\ answer'[p] = q /\ SameKey(p, q) /\ notification[q] = "committed"
            /\ step[p] # "done" /\ UNCHANGED <<notification, outbox, scheduled>>
        BY <1>t, <2>1, <2>2, <4>1 DEF Get, Reread, Visible, TypeOK
      <4>. QED
        BY <1>2, <1>5, <3>1, <4>2
    <3>2. CASE step'[p] # "done"
      BY <1>4, <1>5, <2>2, <3>2 DEF Get, Reread
    <3>. QED
      BY <3>1, <3>2
  <2>3. CASE Schedule(p)
    <3>1. /\ step'[p] = "done" /\ step[p] = "schedule" /\ answer'[p] = p
          /\ notification[p] = "committed" /\ UNCHANGED <<notification, outbox>>
          /\ scheduled' = scheduled \/ scheduled' = [scheduled EXCEPT ![p] = @ + 1]
      BY <1>t, <2>1, <2>3 DEF Schedule, Goto, TypeOK, RowsOf, AnswerOf
    <3>. QED
      BY <1>2, <1>5, <2>1, <3>1
  <2>4. CASE Start(p) \/ Insert(p) \/ CreateOutbox(p) \/ RejectCommit(p) \/ Crash(p)
    <3>1. step[p] # "done" /\ step'[p] # "done" /\ UNCHANGED scheduled
      BY <1>t, <2>1, <2>4 DEF Start, Insert, CreateOutbox, RejectCommit, Crash, Goto, Over, TypeOK
    <3>2. /\ notification'[p] = "committed" <=> notification[p] = "committed"
          /\ outbox'[p] = "committed" <=> outbox[p] = "committed"
      BY <1>t, <2>1, <2>4 DEF Start, Insert, CreateOutbox, RejectCommit, Crash, RolledBack,
         TypeOK, RowsOf
    <3>. QED
      BY <1>4, <1>5, <3>1, <3>2
  <2>. QED
    BY <1>5, <2>1, <2>2, <2>3, <2>4 DEF Acts, Proceed, CloneNotification, CloneOutbox
<1>6. CASE UNCHANGED vars
  BY <1>6 DEF vars
<1>7. ASSUME NEW p \in Requests, Commit(p) PROVE Contract!Next
  BY <1>1, <1>7 DEF Contract!Next
<1>. QED
  BY <1>3, <1>5, <1>6, <1>7 DEF Next, Acts, All

(* enqueue_notification implements its contract: for any number of retries  *)
(* that overlap, fail, race for the key or die, every step of it creates a  *)
(* notification with its outbox row, answers a caller, or changes nothing   *)
(* a caller can see.                                                        *)
THEOREM ContractKept == Spec => CreatesOnce
BY TypedInit, TypedStep, UniqueInit, UniqueStep, AnswersInit, AnswersStep, ContractInit,
   ContractStep, PTL DEF Spec, CreatesOnce, Contract!Spec

-----------------------------------------------------------------------------
(* Waiting. Whoever holds a key that others wait for can go on itself.      *)
Begun(p)   == step[p] \notin Over \cup {"start"}
Waiting(p) == step[p] = "insert" /\ OpenTwins(p) # {}

(* The unique index cannot deadlock, for any number of requests: while some *)
(* call has begun and is not over, one of those does not wait. A call waits *)
(* before it holds anything and never after.                                *)
THEOREM NobodyDeadlocked ==
  Spec => []((\E p \in All : Begun(p)) => \E q \in All : Begun(q) /\ ~Waiting(q))
<1>1. Typed => ((\E p \in All : Begun(p)) => \E q \in All : Begun(q) /\ ~Waiting(q))
  <2>. SUFFICES ASSUME Typed, NEW p \in All, Waiting(p)
                PROVE  \E q \in All : Begun(q) /\ ~Waiting(q)
    OBVIOUS
  <2>1. PICK q \in All : notification[q] = "open"
    BY DEF Waiting, OpenTwins
  <2>2. step[q] \in {"outbox", "commit"}
    BY <2>1 DEF Typed, TypeOK, RowsOf, Step
  <2>. QED
    BY <2>2 DEF Begun, Waiting, Over
<1>. QED
  BY <1>1, TypedInit, TypedStep, PTL DEF Spec
=============================================================================
