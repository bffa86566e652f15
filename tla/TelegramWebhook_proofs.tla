----------------------- MODULE TelegramWebhook_proofs -----------------------
(* Theorems about TelegramWebhook, for any updates, chats and web workers. *)
EXTENDS TelegramWebhook, FiniteSetTheorems, TLAPS

(* Only one handler at a time is about to create the user of a chat, and   *)
(* only while it has none, unless a race was noted.                        *)
LoneCreator ==
  \A c \in Chats \ overlapped :
    /\ users[c] <= 1
    /\ \A h \in Creating(c) : users[c] = 0 /\ Creating(c) = {h}

(* Each user a handler is about to create counts already.                  *)
CreatorsBound ==
  \A c \in Chats : users[c] + Cardinality(Creating(c)) <= Cardinality(Handlers)

LEMMA DecideType ==
  ASSUME NEW n \in Nat
  PROVE  /\ Decide(n) \in {"insert", "reply", "ambiguous"}
         /\ Decide(n) = "insert" => n = 0
BY DEF Decide

LEMMA FirstStepType ==
  ASSUME NEW u \in Updates
  PROVE  /\ FirstStep(u) \in {"lookup", "ignore", "refuse"}
         /\ FirstStep(u) = "ignore" => Content[u] # "start"
BY WebhookAssumption DEF FirstStep

LEMMA TypedInit == Init => TypeOK
BY DEF Init, TypeOK, Steps

LEMMA ChatType ==
  ASSUME TypeOK, NEW h \in Handlers, step[h] # "idle"
  PROVE  update[h] \in Updates /\ ChatOf(h) \in Chats
BY WebhookAssumption DEF TypeOK, ChatOf

LEMMA TypedStep == TypeOK /\ [Next]_vars => TypeOK'
<1>. SUFFICES ASSUME TypeOK, [Next]_vars PROVE TypeOK'
  OBVIOUS
<1>. USE WebhookAssumption DEF TypeOK, Steps
<1>1. ASSUME NEW h \in Handlers, NEW u \in Updates, Deliver(h, u) PROVE TypeOK'
  BY <1>1, FirstStepType DEF Deliver, Goto
<1>2. ASSUME NEW h \in Handlers, Lookup(h) PROVE TypeOK'
  <2>1. ChatOf(h) \in Chats /\ users[ChatOf(h)] \in Nat
    BY <1>2, ChatType DEF Lookup
  <2>2. Decide(users[ChatOf(h)]) \in {"insert", "reply", "ambiguous"}
    BY <2>1, DecideType
  <2>. QED
    BY <1>2, <2>1, <2>2 DEF Lookup, Goto
<1>3. ASSUME NEW h \in Handlers, Insert(h) PROVE TypeOK'
  <2>1. ChatOf(h) \in Chats
    BY <1>3, ChatType DEF Insert
  <2>. QED
    BY <1>3, <2>1 DEF Insert, Goto
<1>4. ASSUME NEW h \in Handlers, Reply(h) PROVE TypeOK'
  BY <1>4 DEF Reply, Rest, Goto
<1>5. ASSUME NEW h \in Handlers, Refuse(h) PROVE TypeOK'
  BY <1>5 DEF Refuse, Rest, Goto
<1>6. ASSUME NEW h \in Handlers, Fail(h) PROVE TypeOK'
  BY <1>6 DEF Fail, Rest, Goto
<1>7. ASSUME NEW h \in Handlers, Ignore(h) PROVE TypeOK'
  BY <1>7 DEF Ignore, Rest, Goto
<1>8. CASE UNCHANGED vars
  BY <1>8 DEF vars
<1>. QED
  BY <1>1, <1>2, <1>3, <1>4, <1>5, <1>6, <1>7, <1>8 DEF Next, Handle

(* Every reachable state of the webhook is well typed: above all, a busy   *)
(* handler knows the update it handles.                                    *)
THEOREM TypeCorrect == Spec => []TypeOK
BY TypedInit, TypedStep, PTL DEF Spec

-----------------------------------------------------------------------------
(* What a step does to the handlers about to create a user.                *)
LEMMA CreatingDeliver ==
  ASSUME TypeOK, NEW h \in Handlers, NEW u \in Updates, Deliver(h, u), NEW c \in Chats
  PROVE  Creating(c)' = Creating(c)
BY FirstStepType DEF TypeOK, Deliver, Goto, Creating, ChatOf

LEMMA CreatingLookup ==
  ASSUME TypeOK, NEW h \in Handlers, Lookup(h), NEW c \in Chats
  PROVE  Creating(c)' = IF c = ChatOf(h) /\ Decide(users[c]) = "insert"
                        THEN Creating(c) \cup {h} ELSE Creating(c)
BY DEF TypeOK, Lookup, Goto, Creating, ChatOf

LEMMA CreatingInsert ==
  ASSUME TypeOK, NEW h \in Handlers, Insert(h), NEW c \in Chats
  PROVE  Creating(c)' = Creating(c) \ {h} /\ (c = ChatOf(h) <=> h \in Creating(c))
BY DEF TypeOK, Insert, Goto, Creating, ChatOf

LEMMA CreatingRest ==
  ASSUME TypeOK, NEW h \in Handlers, Rest(h), NEW c \in Chats
  PROVE  Creating(c)' = Creating(c) \ {h}
BY DEF TypeOK, Rest, Goto, Creating, ChatOf

LEMMA LoneInit == Init => LoneCreator
BY DEF Init, LoneCreator, Creating

LEMMA LoneStep == TypeOK /\ LoneCreator /\ [Next]_vars => LoneCreator'
<1>. SUFFICES ASSUME TypeOK, LoneCreator, [Next]_vars PROVE LoneCreator'
  OBVIOUS
<1>. USE DEF LoneCreator
<1>1. ASSUME NEW h \in Handlers, NEW u \in Updates, Deliver(h, u) PROVE LoneCreator'
  BY <1>1, CreatingDeliver DEF Deliver
<1>2. ASSUME NEW h \in Handlers, Lookup(h) PROVE LoneCreator'
  <2>1. ChatOf(h) \in Chats /\ users[ChatOf(h)] \in Nat
    BY <1>2, ChatType DEF Lookup, TypeOK
  <2>2. users' = users /\ overlapped \subseteq overlapped'
    BY <1>2 DEF Lookup
  <2>3. ASSUME NEW c \in Chats \ overlapped', c = ChatOf(h), Decide(users[c]) = "insert"
        PROVE  /\ users'[c] <= 1
               /\ \A g \in Creating(c)' : users'[c] = 0 /\ Creating(c)' = {g}
    <3>1. users[c] = 0
      BY <2>1, <2>3, DecideType
    <3>2. Creating(c) = {}
      BY <1>2, <2>3 DEF Lookup
    <3>3. Creating(c)' = Creating(c) \cup {h}
      BY <1>2, <2>3, CreatingLookup
    <3>. QED
      BY <2>2, <3>1, <3>2, <3>3
  <2>4. ASSUME NEW c \in Chats \ overlapped', ~(c = ChatOf(h) /\ Decide(users[c]) = "insert")
        PROVE  /\ users'[c] <= 1
               /\ \A g \in Creating(c)' : users'[c] = 0 /\ Creating(c)' = {g}
    <3>1. Creating(c)' = Creating(c)
      BY <1>2, <2>4, CreatingLookup
    <3>. QED
      BY <2>2, <3>1
  <2>. QED
    BY <2>3, <2>4
<1>3. ASSUME NEW h \in Handlers, Insert(h) PROVE LoneCreator'
  <2>. SUFFICES ASSUME NEW c \in Chats \ overlapped
                PROVE  /\ users'[c] <= 1
                       /\ \A g \in Creating(c)' : users'[c] = 0 /\ Creating(c)' = {g}
    BY <1>3 DEF Insert
  <2>1. Creating(c)' = Creating(c) \ {h} /\ (c = ChatOf(h) <=> h \in Creating(c))
    BY <1>3, CreatingInsert
  <2>2. CASE h \in Creating(c)
    <3>1. users[c] = 0 /\ Creating(c) = {h}
      BY <2>2
    <3>2. users'[c] = 1
      BY <1>3, <2>1, <2>2, <3>1 DEF Insert, TypeOK
    <3>. QED
      BY <2>1, <3>1, <3>2
  <2>3. CASE h \notin Creating(c)
    <3>1. users'[c] = users[c] /\ Creating(c)' = Creating(c)
      BY <1>3, <2>1, <2>3 DEF Insert, TypeOK
    <3>. QED
      BY <3>1
  <2>. QED
    BY <2>2, <2>3
<1>4. ASSUME NEW h \in Handlers, Rest(h), UNCHANGED <<users, overlapped>>
      PROVE  LoneCreator'
  BY <1>4, CreatingRest
<1>5. CASE UNCHANGED vars
  BY <1>5 DEF vars, Creating, ChatOf
<1>. QED
  BY <1>1, <1>2, <1>3, <1>4, <1>5 DEF Next, Handle, Reply, Ignore, Refuse, Fail

(* A chat has two users only after two handlers found none for it at the   *)
(* same time: the only way get_or_create can create a second one.          *)
THEOREM RaceCorrect == Spec => []DuplicatesNeedRace
<1>1. Init => LoneCreator
  BY LoneInit
<1>2. TypeOK /\ LoneCreator /\ [Next]_vars => LoneCreator'
  BY LoneStep
<1>3. TypeOK /\ LoneCreator => DuplicatesNeedRace
  BY DEF TypeOK, LoneCreator, DuplicatesNeedRace
<1>. QED
  BY <1>1, <1>2, <1>3, TypeCorrect, PTL DEF Spec

-----------------------------------------------------------------------------
LEMMA CreatingFinite ==
  ASSUME NEW c
  PROVE  /\ IsFiniteSet(Creating(c)) /\ Cardinality(Creating(c)) \in Nat
         /\ Cardinality(Creating(c)) <= Cardinality(Handlers)
         /\ Cardinality(Handlers) \in Nat
BY WebhookAssumption, FS_Subset, FS_CardinalityType DEF Creating

LEMMA BoundInit == Init => CreatorsBound
<1>. SUFFICES ASSUME Init, NEW c \in Chats
              PROVE  users[c] + Cardinality(Creating(c)) <= Cardinality(Handlers)
  BY DEF CreatorsBound
<1>1. Creating(c) = {}
  BY DEF Init, Creating
<1>2. Cardinality(Creating(c)) = 0
  BY <1>1, FS_EmptySet
<1>3. Cardinality(Handlers) \in Nat /\ Cardinality(Handlers) # 0
  BY WebhookAssumption, FS_CardinalityType, FS_EmptySet
<1>4. users[c] \in {0, 1}
  BY DEF Init
<1>. QED
  BY <1>2, <1>3, <1>4

LEMMA BoundStep == TypeOK /\ CreatorsBound /\ [Next]_vars => CreatorsBound'
<1>. SUFFICES ASSUME TypeOK, CreatorsBound, [Next]_vars, NEW c \in Chats
              PROVE  users'[c] + Cardinality(Creating(c)') <= Cardinality(Handlers)
  BY DEF CreatorsBound
<1>0. /\ IsFiniteSet(Creating(c)) /\ Cardinality(Creating(c)) \in Nat
      /\ Cardinality(Creating(c)') \in Nat
      /\ Cardinality(Creating(c)') <= Cardinality(Handlers)
      /\ Cardinality(Handlers) \in Nat
      /\ users[c] \in Nat
      /\ users[c] + Cardinality(Creating(c)) <= Cardinality(Handlers)
  <2>1. Creating(c)' \subseteq Handlers
    BY DEF Creating
  <2>. QED
    BY <2>1, WebhookAssumption, FS_Subset, FS_CardinalityType, CreatingFinite
       DEF TypeOK, CreatorsBound
<1>. DEFINE Goal == users'[c] + Cardinality(Creating(c)') <= Cardinality(Handlers)
<1>1. ASSUME NEW h \in Handlers, NEW u \in Updates, Deliver(h, u) PROVE Goal
  <2>1. Creating(c)' = Creating(c) /\ users' = users
    BY <1>1, CreatingDeliver DEF Deliver
  <2>. QED
    BY <1>0, <2>1
<1>2. ASSUME NEW h \in Handlers, Lookup(h) PROVE Goal
  <2>1. users' = users
    BY <1>2 DEF Lookup
  <2>2. CASE c = ChatOf(h) /\ Decide(users[c]) = "insert"
    <3>1. users[c] = 0
      BY <1>0, <2>2, DecideType
    <3>. QED
      BY <1>0, <2>1, <3>1
  <2>3. CASE ~(c = ChatOf(h) /\ Decide(users[c]) = "insert")
    <3>1. Creating(c)' = Creating(c)
      BY <1>2, <2>3, CreatingLookup
    <3>. QED
      BY <1>0, <2>1, <3>1
  <2>. QED
    BY <2>2, <2>3
<1>3. ASSUME NEW h \in Handlers, Insert(h) PROVE Goal
  <2>1. Creating(c)' = Creating(c) \ {h} /\ (c = ChatOf(h) <=> h \in Creating(c))
    BY <1>3, CreatingInsert
  <2>2. CASE h \in Creating(c)
    <3>1. Cardinality(Creating(c)') = Cardinality(Creating(c)) - 1
      BY <1>0, <2>1, <2>2, FS_RemoveElement
    <3>2. users'[c] = users[c] + 1
      BY <1>3, <2>1, <2>2 DEF Insert, TypeOK
    <3>. QED
      BY <1>0, <3>1, <3>2
  <2>3. CASE h \notin Creating(c)
    <3>1. users'[c] = users[c] /\ Creating(c)' = Creating(c)
      BY <1>3, <2>1, <2>3 DEF Insert, TypeOK
    <3>. QED
      BY <1>0, <3>1
  <2>. QED
    BY <2>2, <2>3
<1>4. ASSUME NEW h \in Handlers, Rest(h), users' = users PROVE Goal
  <2>1. Creating(c)' \subseteq Creating(c)
    BY <1>4, CreatingRest
  <2>2. Cardinality(Creating(c)') <= Cardinality(Creating(c))
    BY <1>0, <2>1, FS_Subset
  <2>. QED
    BY <1>0, <1>4, <2>2
<1>5. CASE UNCHANGED vars
  <2>1. Creating(c)' = Creating(c) /\ users' = users
    BY <1>5 DEF vars, Creating, ChatOf
  <2>. QED
    BY <1>0, <2>1
<1>. QED
  BY <1>1, <1>2, <1>3, <1>4, <1>5 DEF Next, Handle, Reply, Ignore, Refuse, Fail

(* However often updates are sent, a chat has at most as many users as     *)
(* there are web workers.                                                  *)
THEOREM BoundCorrect == Spec => []DuplicatesBound
<1>1. TypeOK /\ CreatorsBound => DuplicatesBound
  <2>. SUFFICES ASSUME TypeOK, CreatorsBound, NEW c \in Chats
                PROVE  users[c] <= Cardinality(Handlers)
    BY DEF DuplicatesBound
  <2>. QED
    BY CreatingFinite DEF TypeOK, CreatorsBound
<1>. QED
  BY <1>1, BoundInit, BoundStep, TypeCorrect, PTL DEF Spec

-----------------------------------------------------------------------------
(* A handler that replies has found a user of the chat or created one, and *)
(* no user is ever removed.                                                *)
ReplyHasUser == \A h \in Handlers : step[h] = "reply" => users[ChatOf(h)] > 0

(* What is answered without a look at the table is no /start.              *)
IgnoresOthers ==
  \A h \in Handlers : step[h] = "ignore" => Content[update[h]] # "start"

UserKnown == ReplyHasUser /\ IgnoresOthers /\ AnsweredHasUser

LEMMA UserInit == Init => UserKnown
BY DEF Init, UserKnown, ReplyHasUser, IgnoresOthers, AnsweredHasUser

LEMMA UsersGrow ==
  ASSUME TypeOK, [Next]_vars, NEW c \in Chats, users[c] > 0
  PROVE  users'[c] > 0
<1>1. ASSUME NEW h \in Handlers, Insert(h) PROVE users'[c] >= users[c]
  <2>1. ChatOf(h) \in Chats
    BY <1>1, ChatType DEF Insert
  <2>. QED
    BY <1>1, <2>1 DEF Insert, TypeOK
<1>2. users'[c] \in Nat /\ users[c] \in Nat
  BY TypedStep DEF TypeOK
<1>. QED
  BY <1>1, <1>2
     DEF Next, Handle, vars, Deliver, Lookup, Reply, Ignore, Refuse, Fail

LEMMA UserStep == TypeOK /\ UserKnown /\ [Next]_vars => UserKnown'
<1>. SUFFICES ASSUME TypeOK, UserKnown, [Next]_vars PROVE UserKnown'
  OBVIOUS
<1>t. /\ step \in [Handlers -> Steps]
      /\ update \in [Handlers -> Updates \cup {NoUpdate}]
  BY DEF TypeOK
<1>1. ASSUME NEW g \in Handlers, step'[g] = "reply", step[g] = "reply",
             update'[g] = update[g]
      PROVE  users'[ChatOf(g)'] > 0
  <2>1. ChatOf(g) \in Chats /\ users[ChatOf(g)] > 0
    BY <1>1, ChatType DEF UserKnown, ReplyHasUser
  <2>2. users'[ChatOf(g)] > 0
    BY <2>1, UsersGrow
  <2>. QED
    BY <1>1, <2>2 DEF ChatOf
<1>2. ASSUME NEW u \in Updates \ pending, Content[u] = "start"
      PROVE  users'[Chat[u]] > 0
  BY <1>2, UsersGrow, WebhookAssumption DEF UserKnown, AnsweredHasUser
<1>3. ASSUME NEW h \in Handlers, NEW s, step' = [step EXCEPT ![h] = s], s # "reply",
             s = "ignore" => Content[update'[h]] # "start",
             \A g \in Handlers \ {h} : update'[g] = update[g],
             pending' = pending
      PROVE  UserKnown'
  <2>1. ASSUME NEW g \in Handlers, step'[g] = "reply" PROVE users'[ChatOf(g)'] > 0
    <3>1. g # h /\ step[g] = "reply"
      BY <1>3, <1>t, <2>1
    <3>. QED
      BY <1>1, <1>3, <2>1, <3>1
  <2>2. ASSUME NEW g \in Handlers, step'[g] = "ignore"
        PROVE  Content[update'[g]] # "start"
    BY <1>3, <1>t, <2>2 DEF UserKnown, IgnoresOthers
  <2>. QED
    BY <1>2, <1>3, <2>1, <2>2
       DEF UserKnown, ReplyHasUser, IgnoresOthers, AnsweredHasUser
<1>4. ASSUME NEW h \in Handlers, NEW u \in Updates, Deliver(h, u) PROVE UserKnown'
  <2>1. /\ step' = [step EXCEPT ![h] = FirstStep(u)] /\ pending' = pending
        /\ update' = [update EXCEPT ![h] = u]
    BY <1>4 DEF Deliver, Goto
  <2>2. update'[h] = u /\ \A g \in Handlers \ {h} : update'[g] = update[g]
    BY <1>t, <2>1
  <2>. QED
    BY <1>3, <2>1, <2>2, FirstStepType
<1>5. ASSUME NEW h \in Handlers, step[h] # "idle", step' = [step EXCEPT ![h] = "reply"],
             UNCHANGED <<update, pending>>, users'[ChatOf(h)] > 0
      PROVE  UserKnown'
  <2>1. ASSUME NEW g \in Handlers, step'[g] = "reply" PROVE users'[ChatOf(g)'] > 0
    <3>1. CASE g = h
      BY <1>5, <3>1 DEF ChatOf
    <3>2. CASE g # h
      BY <1>1, <1>5, <1>t, <2>1, <3>2
    <3>. QED
      BY <3>1, <3>2
  <2>2. ASSUME NEW g \in Handlers, step'[g] = "ignore"
        PROVE  Content[update'[g]] # "start"
    BY <1>5, <1>t, <2>2 DEF UserKnown, IgnoresOthers
  <2>. QED
    BY <1>2, <1>5, <2>1, <2>2
       DEF UserKnown, ReplyHasUser, IgnoresOthers, AnsweredHasUser
<1>6. ASSUME NEW h \in Handlers, Lookup(h) PROVE UserKnown'
  <2>1. ChatOf(h) \in Chats /\ users[ChatOf(h)] \in Nat /\ users' = users
    BY <1>6, ChatType DEF Lookup, TypeOK
  <2>2. Decide(users[ChatOf(h)]) # "ignore"
    BY <2>1, DecideType
  <2>3. CASE Decide(users[ChatOf(h)]) = "reply"
    <3>1. users[ChatOf(h)] > 0
      BY <2>1, <2>3 DEF Decide
    <3>. QED
      BY <1>5, <1>6, <2>1, <2>3, <3>1 DEF Lookup, Goto
  <2>4. CASE Decide(users[ChatOf(h)]) # "reply"
    BY <1>3, <1>6, <2>4, <2>2 DEF Lookup, Goto
  <2>. QED
    BY <2>3, <2>4
<1>7. ASSUME NEW h \in Handlers, Insert(h) PROVE UserKnown'
  <2>1. ChatOf(h) \in Chats
    BY <1>7, ChatType DEF Insert
  <2>2. users'[ChatOf(h)] > 0
    BY <1>7, <2>1 DEF Insert, TypeOK
  <2>. QED
    BY <1>5, <1>7, <2>2 DEF Insert, Goto
<1>8. ASSUME NEW h \in Handlers, Rest(h), users' = users, step[h] # "idle",
             pending' = pending \ {update[h]},
             Content[update[h]] = "start" => users[Chat[update[h]]] > 0
      PROVE  UserKnown'
  <2>1. /\ step' = [step EXCEPT ![h] = "idle"]
        /\ update' = [update EXCEPT ![h] = NoUpdate]
    BY <1>8 DEF Rest, Goto
  <2>2. ASSUME NEW g \in Handlers, step'[g] = "reply" PROVE users'[ChatOf(g)'] > 0
    BY <1>1, <1>t, <2>1, <2>2
  <2>3. ASSUME NEW g \in Handlers, step'[g] = "ignore"
        PROVE  Content[update'[g]] # "start"
    BY <1>t, <2>1, <2>3 DEF UserKnown, IgnoresOthers
  <2>4. ASSUME NEW u \in Updates \ pending', Content[u] = "start"
        PROVE  users'[Chat[u]] > 0
    <3>1. CASE u = update[h]
      BY <1>8, <2>4, <3>1
    <3>2. CASE u # update[h]
      BY <1>2, <1>8, <2>4, <3>2
    <3>. QED
      BY <3>1, <3>2
  <2>. QED
    BY <2>2, <2>3, <2>4 DEF UserKnown, ReplyHasUser, IgnoresOthers, AnsweredHasUser
<1>9. ASSUME NEW h \in Handlers, Reply(h) PROVE UserKnown'
  BY <1>8, <1>9 DEF Reply, UserKnown, ReplyHasUser, ChatOf
<1>10. ASSUME NEW h \in Handlers, Ignore(h) PROVE UserKnown'
  BY <1>8, <1>10 DEF Ignore, UserKnown, IgnoresOthers
<1>11. ASSUME NEW h \in Handlers, Rest(h), pending' = pending PROVE UserKnown'
  BY <1>3, <1>11, <1>t DEF Rest, Goto
<1>12. CASE UNCHANGED vars
  BY <1>12 DEF vars, UserKnown, ReplyHasUser, IgnoresOthers, AnsweredHasUser, ChatOf
<1>. QED
  BY <1>4, <1>6, <1>7, <1>9, <1>10, <1>11, <1>12 DEF Next, Handle, Refuse, Fail

(* A /start is answered with 200 only if the user of its chat is in the    *)
(* table, for any number of web workers and lost ones: one that was        *)
(* answered is not lost, whichever of its overlapping handlings did it.    *)
THEOREM AnsweredCorrect == Spec => []AnsweredHasUser
<1>1. UserKnown => AnsweredHasUser
  BY DEF UserKnown
<1>. QED
  BY <1>1, UserInit, UserStep, TypeCorrect, PTL DEF Spec
=============================================================================
