----------------------------- MODULE ApiAccess -----------------------------
(***************************************************************************)
(* The way of a request to enqueue_notification: authentication.py,        *)
(* views.py, serializers.py and schema.py, run by gunicorn workers, with   *)
(* users read through cacheops.                                            *)
(*                                                                         *)
(* Django REST framework, cacheops and the cache are external. The         *)
(* throttle reads the request history of its key and writes it back, in    *)
(* two calls of the cache; all clients are one principal, so there is one  *)
(* history. cacheops stores the result of a query after the table was      *)
(* read, and forgets it after a transaction that changed the table has     *)
(* committed. All requests are about one user; their idempotency keys may  *)
(* also be those of another.                                               *)
(***************************************************************************)
EXTENDS Integers, FiniteSets

CONSTANTS
  Requests,
  Kind,                     \* [Requests -> {"create", "retrieve", "graphql"}]
  Authentic,                \* requests that carry the API key
  Keys, NoKey,
  Key,                      \* [Requests -> Keys \cup {NoKey}]: idempotency_key
  Overlong,                 \* requests with a field too long for its column
  Workers,                  \* requests handled at the same time
  Rate, Duration,           \* NOTIFICATION_THROTTLE_RATE: requests per period
  MaxTime                   \* bound: clock

ASSUME ApiAssumption ==
  /\ IsFiniteSet(Requests) /\ Authentic \subseteq Requests
  /\ Kind \in [Requests -> {"create", "retrieve", "graphql"}]
  /\ NoKey \notin Keys /\ Key \in [Requests -> Keys \cup {NoKey}]
  /\ Overlong \subseteq Requests
  /\ Workers \in Nat /\ Rate \in Nat \ {0} /\ Duration \in Nat \ {0}
  /\ MaxTime \in Nat

Query  == {"exists", "get"}
Step   == {"new", "history", "record", "find", "enqueue", "over"} \cup Query
Answer == {"none", "found", "created", "reused", "invalid", "unauthorized", "throttled",
           "error"}
User   == {"unborn", "there", "gone"}
Owner  == {"nobody", "user", "other"}
Entry  == {"none", "there", "missing"}

VARIABLES
  step, answer,             \* of each request
  clock,
  stamp,                    \* self.now of the throttle, for each request
  history,                  \* the history in the cache, as the requests in it
  seen,                     \* the history a request read, without what is old
  user,                     \* the row of the user
  owner,                    \* whose notification has a key
  stale,                    \* a committed change has still to be forgotten
  entry,                    \* what cacheops holds for each query
  reading,                  \* what a request read in the table, to be stored
  overwrites,               \* histories written over one the writer had not read
  staleFills,               \* results stored after the change was forgotten
  met                       \* what a request could find of the user

throttle == <<clock, stamp, history, seen, overwrites>>
users    == <<user, owner, stale>>
caching  == <<entry, reading, staleFills>>
vars     == <<step, answer, throttle, users, caching, met>>

TypeOK ==
  /\ step \in [Requests -> Step] /\ answer \in [Requests -> Answer]
  /\ clock \in Nat /\ stamp \in [Requests -> Nat]
  /\ history \in SUBSET Requests /\ seen \in [Requests -> SUBSET Requests]
  /\ user \in User /\ owner \in [Keys -> Owner] /\ stale \in BOOLEAN
  /\ entry \in [Query -> Entry] /\ reading \in [Requests -> Entry]
  /\ overwrites \in Nat /\ staleFills \in Nat
  /\ met \in [Requests -> SUBSET Entry]

Init ==
  /\ step = [r \in Requests |-> "new"] /\ answer = [r \in Requests |-> "none"]
  /\ clock = 0 /\ stamp = [r \in Requests |-> 0]
  /\ history = {} /\ seen = [r \in Requests |-> {}]
  /\ user \in {"unborn", "there"} /\ stale = FALSE
  /\ owner \in [Keys -> IF user = "there" THEN Owner ELSE Owner \ {"user"}]
  /\ entry = [q \in Query |-> "none"] /\ reading = [r \in Requests |-> "none"]
  /\ overwrites = 0 /\ staleFills = 0
  /\ met = [r \in Requests |-> {}]

-----------------------------------------------------------------------------
(* Operators whose name ends in a slip are wrong variants of the one that  *)
(* follows them and no part of Spec: mistakes the properties would catch.  *)

Busy     == {r \in Requests : step[r] \notin {"new", "over"}}
Table    == IF user = "there" THEN "there" ELSE "missing"
Recent(rs, t) == {r \in rs : stamp[r] > t - Duration}

Goto(r, s) == step' = [step EXCEPT ![r] = s] /\ UNCHANGED answer
End(r, a)  == /\ step' = [step EXCEPT ![r] = "over"]
              /\ answer' = [answer EXCEPT ![r] = a]

(* A web worker is free. APIKeyAuthentication and IsAuthenticated come     *)
(* before any throttle.                                                    *)
Authenticate(r) ==
  /\ step[r] = "new" /\ Kind[r] # "graphql" /\ Cardinality(Busy) < Workers
  /\ \/ r \in Authentic /\ Goto(r, "history")
     \/ r \notin Authentic /\ End(r, "unauthorized")
  /\ UNCHANGED <<throttle, users, caching, met>>

Begin(r) == met' = [met EXCEPT ![r] = IF stale THEN {"there", "missing"} ELSE {Table}]

(* The GraphQL view authenticates nobody, has no throttle and gets the     *)
(* user without having validated it.                                       *)
Mutate(r) ==
  /\ step[r] = "new" /\ Kind[r] = "graphql" /\ Cardinality(Busy) < Workers
  /\ Goto(r, "get")
  /\ Begin(r)
  /\ UNCHANGED <<throttle, users, caching>>

(* ScopedRateThrottle.allow_request up to throttle_failure ...             *)
ReadHistoryOneMore(r) ==    \* the limit is compared with >
  /\ step[r] = "history"
  /\ stamp' = [stamp EXCEPT ![r] = clock]
  /\ IF Cardinality(Recent(history, clock)) > Rate
     THEN End(r, "throttled") /\ UNCHANGED seen
     ELSE Goto(r, "record") /\ seen' = [seen EXCEPT ![r] = Recent(history, clock)]
  /\ UNCHANGED <<clock, history, overwrites, users, caching, met>>
ReadHistoryCounted(r) ==    \* a refused request is entered in the history
  /\ step[r] = "history"
  /\ stamp' = [stamp EXCEPT ![r] = clock]
  /\ IF Cardinality(Recent(history, clock)) >= Rate
     THEN End(r, "throttled") /\ history' = history \cup {r} /\ UNCHANGED seen
     ELSE /\ Goto(r, "record") /\ UNCHANGED history
          /\ seen' = [seen EXCEPT ![r] = Recent(history, clock)]
  /\ UNCHANGED <<clock, overwrites, users, caching, met>>
ReadHistory(r) ==
  /\ step[r] = "history"
  /\ stamp' = [stamp EXCEPT ![r] = clock]
  /\ IF Cardinality(Recent(history, clock)) >= Rate
     THEN End(r, "throttled") /\ UNCHANGED seen
     ELSE Goto(r, "record") /\ seen' = [seen EXCEPT ![r] = Recent(history, clock)]
  /\ UNCHANGED <<clock, history, overwrites, users, caching, met>>

(* ... and throttle_success: what was read, and this request.              *)
WriteHistory(r) ==
  /\ step[r] = "record"
  /\ history' = seen[r] \cup {r}
  /\ overwrites' = IF Recent(history, stamp[r]) \subseteq seen[r]
                   THEN overwrites ELSE overwrites + 1
  /\ seen' = [seen EXCEPT ![r] = {}]
  /\ Goto(r, IF Kind[r] = "create" THEN "exists" ELSE "find")
  /\ Begin(r)
  /\ UNCHANGED <<clock, stamp, users, caching>>

(* retrieve: 200 or 404, as the row is there or not.                       *)
Find(r) ==
  /\ step[r] = "find"
  /\ End(r, "found")
  /\ UNCHANGED <<throttle, users, caching, met>>

(* validate_user_id, then User.objects.get, which raises DoesNotExist.     *)
Conclude(r, result) ==
  \/ result = "there" /\ Goto(r, IF step[r] = "exists" THEN "get" ELSE "enqueue")
  \/ result = "missing" /\ End(r, IF step[r] = "exists" THEN "invalid" ELSE "error")

Hit(r) ==
  /\ step[r] \in Query /\ reading[r] = "none" /\ entry[step[r]] # "none"
  /\ Conclude(r, entry[step[r]])
  /\ UNCHANGED <<throttle, users, caching, met>>

Miss(r) ==
  /\ step[r] \in Query /\ reading[r] = "none" /\ entry[step[r]] = "none"
  /\ reading' = [reading EXCEPT ![r] = Table]
  /\ UNCHANGED <<step, answer, throttle, users, entry, staleFills, met>>

Store(r) ==
  /\ step[r] \in Query /\ reading[r] # "none"
  /\ entry' = [entry EXCEPT ![step[r]] = reading[r]]
  /\ staleFills' = IF reading[r] = Table \/ stale THEN staleFills ELSE staleFills + 1
  /\ reading' = [reading EXCEPT ![r] = "none"]
  /\ Conclude(r, reading[r])
  /\ UNCHANGED <<throttle, users, met>>

Taken(r) == Key[r] # NoKey /\ owner[Key[r]] # "nobody"

(* enqueue_notification, at once as Producer shows: a notification with    *)
(* the key is the answer, whoever it is for and whatever the request says. *)
(* Otherwise the insert refuses a value too long for its column, and the   *)
(* commit checks the foreign key to the user.                              *)
Insert(r) ==
  /\ End(r, "created")
  /\ owner' = [k \in Keys |-> IF k = Key[r] THEN "user" ELSE owner[k]]
EnqueueUnchecked(r) ==      \* no foreign key
  /\ step[r] = "enqueue"
  /\ \/ Taken(r) /\ End(r, "reused") /\ UNCHANGED owner
     \/ ~Taken(r) /\ r \notin Overlong /\ Insert(r)
     \/ ~Taken(r) /\ r \in Overlong /\ End(r, "error") /\ UNCHANGED owner
  /\ UNCHANGED <<throttle, user, stale, caching, met>>
Enqueue(r) ==
  /\ step[r] = "enqueue"
  /\ \/ Taken(r) /\ End(r, "reused") /\ UNCHANGED owner
     \/ ~Taken(r) /\ r \notin Overlong /\ user = "there" /\ Insert(r)
     \/ /\ ~Taken(r) /\ (r \in Overlong \/ user # "there")
        /\ End(r, "error") /\ UNCHANGED owner
  /\ UNCHANGED <<throttle, user, stale, caching, met>>

(* The user is created, or deleted with its notifications, by the webhook, *)
(* the demo or the admin.                                                  *)
ChangeUser ==
  /\ ~stale /\ user # "gone"
  /\ user' = IF user = "unborn" THEN "there" ELSE "gone"
  /\ owner' = [k \in Keys |-> IF owner[k] = "user" THEN "nobody" ELSE owner[k]]
  /\ stale' = TRUE
  /\ met' = [r \in Requests |-> IF step[r] \in Query \cup {"enqueue"}
                                 THEN {"there", "missing"} ELSE met[r]]
  /\ UNCHANGED <<step, answer, throttle, caching>>

Forget ==
  /\ stale /\ stale' = FALSE
  /\ entry' = [q \in Query |-> "none"]
  /\ UNCHANGED <<step, answer, throttle, user, owner, reading, staleFills, met>>

(* An entry reaches its timeout.                                           *)
Expire(q) ==
  /\ entry[q] # "none"
  /\ entry' = [entry EXCEPT ![q] = "none"]
  /\ UNCHANGED <<step, answer, throttle, users, reading, staleFills, met>>

Tick ==
  /\ clock < MaxTime
  /\ clock' = clock + 1
  /\ UNCHANGED <<step, answer, stamp, history, seen, overwrites, users, caching, met>>

Next ==
  \/ \E r \in Requests :
       \/ Authenticate(r) \/ Mutate(r) \/ ReadHistory(r) \/ WriteHistory(r)
       \/ Find(r) \/ Hit(r) \/ Miss(r) \/ Store(r) \/ Enqueue(r)
  \/ ChangeUser \/ Forget \/ (\E q \in Query : Expire(q)) \/ Tick

Spec == Init /\ [][Next]_vars

-----------------------------------------------------------------------------
Admitted == {r \in Requests : /\ Kind[r] # "graphql"
                              /\ \/ step[r] \in Query \cup {"find", "enqueue"}
                                 \/ answer[r] \in {"found", "created", "reused", "invalid", "error"}}

(* In no period more requests pass the throttle than its rate, but for the *)
(* histories that are lost when two workers overlap: each of those lets at *)
(* most another Rate pass.                                                 *)
RateBound == Cardinality(Recent(Admitted, clock)) <= Rate * (1 + overwrites)

(* A request is throttled only because as many as the rate, all of them    *)
(* with the API key, were let in during the period before it: requests     *)
(* that are refused use up nothing, and no lost history makes a refusal.   *)
ThrottledForCause ==
  \A r \in Requests : answer[r] = "throttled" =>
    Cardinality({q \in Recent(Admitted \cap Authentic, stamp[r]) : stamp[q] <= stamp[r]})
      >= Rate

(* A client is answered by what it could meet. Whatever cacheops holds, a  *)
(* 201 says that the user was in the table, unless the key is that of a    *)
(* notification for another. Unless cacheops has stored a result after the *)
(* change that outdated it, every 201 says so; invalid, that the user was  *)
(* not; and an internal error of a request that fits its columns, that it  *)
(* came or went while the request was handled, GraphQL's that it was not   *)
(* there.                                                                  *)
AnswerIsDue ==
  \A r \in Requests :
    /\ \/ answer[r] = "created"
       \/ answer[r] = "reused" /\ (staleFills = 0 \/ owner[Key[r]] # "other")
       => "there" \in met[r]
    /\ staleFills = 0 =>
         /\ answer[r] = "invalid" => "missing" \in met[r]
         /\ answer[r] = "error" /\ r \notin Overlong =>
              /\ "missing" \in met[r]
              /\ Kind[r] = "create" => "there" \in met[r]
=============================================================================
