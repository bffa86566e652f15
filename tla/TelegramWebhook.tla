--------------------------- MODULE TelegramWebhook ---------------------------
(***************************************************************************)
(* telegram_webhook of notifications/telegram.py. Its /start command is    *)
(* get_or_create of the user of a chat, then a reply; it refuses a request *)
(* it does not trust or cannot read and answers any other message at once. *)
(* Web workers handle updates at the same time; Telegram sends an update   *)
(* again until it is answered with 200, and also while an earlier delivery *)
(* of it is still being handled. There is no unique constraint on          *)
(* telegram_chat_id, and get_or_create reads the table: cacheops answers   *)
(* no query made in order to write.                                        *)
(***************************************************************************)
EXTENDS Naturals, FiniteSets

CONSTANTS
  Updates,
  Chats,
  Chat,                     \* [Updates -> Chats]
  Content,                  \* [Updates -> {"start", "other", "unfit"}]
  Handlers,                 \* web workers
  NoUpdate,
  MaxFaults                 \* bound: replies that fail, web workers lost

ASSUME WebhookAssumption ==
  /\ Chat \in [Updates -> Chats]
  /\ Content \in [Updates -> {"start", "other", "unfit"}]
  /\ IsFiniteSet(Handlers) /\ Handlers # {}
  /\ NoUpdate \notin Updates
  /\ MaxFaults \in Nat

VARIABLES
  users,      \* rows of the User table with the chat
  pending,    \* updates Telegram goes on sending
  step,       \* where each handler stands
  update,     \* the update it handles
  overlapped, \* chats two handlers were about to create a user for
  faults

vars == <<users, pending, step, update, overlapped, faults>>

Steps ==
  {"idle", "lookup", "insert", "reply", "ambiguous", "ignore", "refuse"}

TypeOK ==
  /\ users \in [Chats -> Nat]
  /\ pending \in SUBSET Updates
  /\ step \in [Handlers -> Steps]
  /\ update \in [Handlers -> Updates \cup {NoUpdate}]
  /\ \A h \in Handlers : step[h] # "idle" => update[h] # NoUpdate
  /\ overlapped \in SUBSET Chats /\ faults \in Nat

Init ==
  /\ users \in [Chats -> {0, 1}]
  /\ pending = Updates
  /\ step = [h \in Handlers |-> "idle"]
  /\ update = [h \in Handlers |-> NoUpdate]
  /\ overlapped = {} /\ faults = 0

-----------------------------------------------------------------------------
(* Variants of the operator that follows them, no part of Spec: mistakes   *)
(* the properties would catch.                                             *)

ChatOf(h)  == Chat[update[h]]
Goto(h, s) == step' = [step EXCEPT ![h] = s]

(* Handlers that found no user for the chat and are about to create one.   *)
Creating(c) == {h \in Handlers : step[h] = "insert" /\ ChatOf(h) = c}

(* get_or_create: one user is returned, none created; several raise        *)
(* MultipleObjectsReturned.                                                *)
DecideCreate(n) == IF n < 2 THEN "insert" ELSE "ambiguous"           \* create only
DecideReuse(n) == IF n < 2 THEN "reply" ELSE "ambiguous"             \* get only
DecideFresh(n) == IF n = 0 THEN "insert" ELSE "ambiguous"      \* none may be there
Decide(n) == IF n = 0 THEN "insert" ELSE IF n = 1 THEN "reply" ELSE "ambiguous"

(* Of an unfit update the secret, the content type, the size or the JSON   *)
(* is wrong; one with another content has no chat or another command.      *)
FirstStep(u) ==
  CASE Content[u] = "start" -> "lookup"
    [] Content[u] = "other" -> "ignore"
    [] Content[u] = "unfit" -> "refuse"

Deliver(h, u) ==
  /\ step[h] = "idle" /\ u \in pending
  /\ update' = [update EXCEPT ![h] = u]
  /\ Goto(h, FirstStep(u))
  /\ UNCHANGED <<users, pending, overlapped, faults>>

Lookup(h) ==
  /\ step[h] = "lookup"
  /\ Goto(h, Decide(users[ChatOf(h)]))
  /\ overlapped' = overlapped \cup
       {c \in {ChatOf(h)} : Decide(users[c]) = "insert" /\ Creating(c) # {}}
  /\ UNCHANGED <<users, pending, update, faults>>

Insert(h) ==
  /\ step[h] = "insert"
  /\ users' = [users EXCEPT ![ChatOf(h)] = @ + 1]
  /\ Goto(h, "reply")
  /\ UNCHANGED <<pending, update, overlapped, faults>>

Rest(h) == Goto(h, "idle") /\ update' = [update EXCEPT ![h] = NoUpdate]

(* The reply is sent, or skipped without a bot token, and the update is    *)
(* answered with 200.                                                      *)
Reply(h) ==
  /\ step[h] = "reply"
  /\ pending' = pending \ {update[h]}
  /\ Rest(h)
  /\ UNCHANGED <<users, overlapped, faults>>

(* Nothing to do for the message: answered with 200 all the same.          *)
Ignore(h) ==
  /\ step[h] = "ignore"
  /\ pending' = pending \ {update[h]}
  /\ Rest(h)
  /\ UNCHANGED <<users, overlapped, faults>>

(* 403, 415, 413 or 400 of an unfit update; MultipleObjectsReturned leaves *)
(* the view: 500. Telegram sends the update again.                         *)
Refuse(h) ==
  /\ step[h] \in {"ambiguous", "refuse"}
  /\ Rest(h)
  /\ UNCHANGED <<users, pending, overlapped, faults>>

(* ProviderError of the reply leaves the view (500), the worker dies, or   *)
(* its answer does not get back to Telegram.                               *)
Fail(h) ==
  /\ step[h] # "idle" /\ faults < MaxFaults
  /\ faults' = faults + 1
  /\ Rest(h)
  /\ UNCHANGED <<users, pending, overlapped>>

Handle(h) == Lookup(h) \/ Insert(h) \/ Reply(h) \/ Ignore(h) \/ Refuse(h)

Next ==
  \/ \E h \in Handlers, u \in Updates : Deliver(h, u)
  \/ \E h \in Handlers : Handle(h) \/ Fail(h)

(* A live handler goes on, and Telegram sends an unanswered update again   *)
(* and again, so that it finds a free handler in the end.                  *)
Fairness ==
  /\ \A h \in Handlers : WF_vars(Handle(h))
  /\ \A u \in Updates : SF_vars(\E h \in Handlers : Deliver(h, u))

Spec == Init /\ [][Next]_vars /\ Fairness

-----------------------------------------------------------------------------
(* A chat gets a second user only if two handlers found none at the same   *)
(* time: however often an update is sent, failed replies and lost workers  *)
(* included, one handling after the other creates the user once.           *)
DuplicatesNeedRace == \A c \in Chats : users[c] > 1 => c \in overlapped

(* The damage is bounded: never more users of a chat than web workers,     *)
(* for any number of updates.                                              *)
DuplicatesBound == \A c \in Chats : users[c] <= Cardinality(Handlers)

(* Telegram stops sending a /start only when its chat has a user, created  *)
(* for this update or for an earlier one: no overlap of its handlings, no  *)
(* failed reply and no lost worker answers 200 for a user that is not in   *)
(* the table (an operator who deletes users aside, which no step models).  *)
AnsweredHasUser ==
  \A u \in Updates \ pending : Content[u] = "start" => users[Chat[u]] > 0

(* Every fit update is answered in the end, a /start also when its first   *)
(* handling died after the user was created or its reply failed, unless    *)
(* the chat has two users: then Telegram sends it in vain, as it sends an  *)
(* unfit update, which takes web workers from the others again and again.  *)
Answered ==
  \A u \in {v \in Updates : Content[v] # "unfit"} :
    u \in pending ~> (u \notin pending \/ users[Chat[u]] > 1)

-----------------------------------------------------------------------------
(* README.md:626: "The webhook creates or reuses a `User` with             *)
(* `telegram_chat_id`." With two of them in the table it does neither.     *)
CreatesOrReuses == \A h \in Handlers : step[h] # "ambiguous"
=============================================================================
