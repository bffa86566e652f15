-------------------------- MODULE ApiAccess_proofs --------------------------
(* Proofs of the safety properties of ApiAccess, for any requests, workers,*)
(* rate and period.                                                        *)
EXTENDS ApiAccess, FiniteSetTheorems, TLAPS

Both == {"there", "missing"}

(* What the place of a request says of it.                                 *)
Placed ==
  \A r \in Requests :
    /\ answer[r] = "reused" => Key[r] \in Keys
    /\ step[r] = "exists" => Kind[r] = "create"
    /\ step[r] \in {"get", "enqueue"} => Kind[r] # "retrieve"
    /\ step[r] # "over" => answer[r] = "none"
    /\ step[r] \in {"history", "record", "find"} => Kind[r] # "graphql"
    /\ step[r] \notin {"new", "over"} /\ Kind[r] # "graphql" => r \in Authentic
    /\ r \in Admitted => r \in Authentic

(* The histories: who is in them, and when those were let in.              *)
Histories ==
  /\ history \subseteq Admitted
  /\ \A r \in Requests : seen[r] \subseteq Admitted /\ stamp[r] <= clock

(* How full they are, and what the lost ones would add.                    *)
Lost == Recent(Admitted, clock) \ history
Sizes ==
  /\ Cardinality(history) <= Rate
  /\ \A r \in Requests : step[r] = "record" => Cardinality(seen[r]) < Rate
  /\ Cardinality(Lost) <= Rate * overwrites

(* Unless a result was stored too late, cacheops answers what the table    *)
(* says, or a change is about to be forgotten.                             *)
Cached == staleFills = 0 => \A q \in Query : entry[q] \in {"none", Table} \/ stale

(* A query has found the user.                                             *)
Past(r) == step[r] = "enqueue" \/ (step[r] = "get" /\ Kind[r] = "create")

(* A request that looks for the user has met what the table says, what it  *)
(* read and, past the first query, the user.                               *)
Met ==
  \A r \in Requests :
    /\ met[r] \subseteq Both
    /\ step[r] \notin Query => reading[r] = "none"
    /\ step[r] \in Query \cup {"enqueue"} => Table \in met[r] /\ (stale => met[r] = Both)
    /\ step[r] \in Query /\ reading[r] # "none" => reading[r] \in met[r]
    /\ staleFills = 0 /\ Past(r) => "there" \in met[r]

(* A key whose notification is for the user shows that it is in the table. *)
Owners == \A k \in Keys : owner[k] = "user" => user = "there"

Inv == /\ TypeOK /\ Placed /\ Histories /\ Sizes /\ Cached /\ Met /\ Owners
       /\ ThrottledForCause /\ AnswerIsDue

-----------------------------------------------------------------------------
LEMMA Finite == \A S \in SUBSET Requests : IsFiniteSet(S) /\ Cardinality(S) \in Nat
<1> TAKE S \in SUBSET Requests
<1>1. IsFiniteSet(S)
  BY ApiAssumption, FS_Subset
<1> QED
  BY <1>1, FS_CardinalityType

LEMMA Smaller ==
  ASSUME NEW S, NEW T \in SUBSET Requests, S \subseteq T
  PROVE  Cardinality(S) <= Cardinality(T)
<1>1. IsFiniteSet(T)
  BY Finite
<1> QED
  BY <1>1, FS_Subset

LEMMA OneMore ==
  ASSUME NEW S \in SUBSET Requests, NEW r \in Requests
  PROVE  Cardinality(S \cup {r}) <= Cardinality(S) + 1
<1>1. IsFiniteSet(S) /\ Cardinality(S) \in Nat
  BY Finite
<1> QED
  BY <1>1, FS_AddElement

LEMMA Together ==
  ASSUME NEW S \in SUBSET Requests, NEW T \in SUBSET Requests
  PROVE  Cardinality(S \cup T) <= Cardinality(S) + Cardinality(T)
<1>1. /\ IsFiniteSet(S) /\ IsFiniteSet(T) /\ Cardinality(S) \in Nat
      /\ Cardinality(T) \in Nat /\ Cardinality(S \cap T) \in Nat
  BY Finite
<1>2. Cardinality(S \cup T) = Cardinality(S) + Cardinality(T) - Cardinality(S \cap T)
  BY <1>1, FS_Union
<1> QED
  BY <1>1, <1>2

LEMMA TypedInit == Init => TypeOK
<1> SUFFICES ASSUME Init PROVE TypeOK
  OBVIOUS
<1>1. step \in [Requests -> Step] /\ answer \in [Requests -> Answer]
  BY DEF Init, Step, Answer
<1>2. /\ clock \in Nat /\ stamp \in [Requests -> Nat]
      /\ overwrites \in Nat /\ staleFills \in Nat
  BY DEF Init
<1>3. history \in SUBSET Requests /\ seen \in [Requests -> SUBSET Requests]
  BY DEF Init
<1>4. user \in User /\ owner \in [Keys -> Owner] /\ stale \in BOOLEAN
  BY DEF Init, User, Owner
<1>5. entry \in [Query -> Entry] /\ reading \in [Requests -> Entry]
  BY DEF Init, Entry
<1>6. met \in [Requests -> SUBSET Entry]
  BY DEF Init
<1> QED
  BY <1>1, <1>2, <1>3, <1>4, <1>5, <1>6 DEF TypeOK

LEMMA TypedStep == TypeOK /\ [Next]_vars => TypeOK'
<1> SUFFICES ASSUME TypeOK, [Next]_vars PROVE TypeOK'
  OBVIOUS
<1> USE DEF TypeOK, Step, Query
<1>1. ASSUME NEW r \in Requests, Authenticate(r) PROVE TypeOK'
  BY <1>1 DEF Authenticate, Goto, End, Answer, throttle, users, caching
<1>2. ASSUME NEW r \in Requests, ReadHistory(r) PROVE TypeOK'
  <2>1. Recent(history, clock) \in SUBSET Requests
    BY DEF Recent
  <2>2. CASE Cardinality(Recent(history, clock)) >= Rate
    BY <1>2, <2>2 DEF ReadHistory, End, Answer, users, caching
  <2>3. CASE ~(Cardinality(Recent(history, clock)) >= Rate)
    BY <1>2, <2>1, <2>3 DEF ReadHistory, Goto, users, caching
  <2> QED
    BY <2>2, <2>3
<1>3. ASSUME NEW r \in Requests, WriteHistory(r) PROVE TypeOK'
  <2>1. history' \in SUBSET Requests /\ seen' \in [Requests -> SUBSET Requests]
    BY <1>3 DEF WriteHistory
  <2>2. overwrites' \in Nat
    BY <1>3 DEF WriteHistory
  <2>3. met' \in [Requests -> SUBSET Entry]
    BY <1>3 DEF WriteHistory, Begin, Table, Entry
  <2>4. step' \in [Requests -> Step] /\ UNCHANGED answer
    BY <1>3 DEF WriteHistory, Goto
  <2> QED
    BY <1>3, <2>1, <2>2, <2>3, <2>4 DEF WriteHistory, users, caching
<1>4. ASSUME NEW r \in Requests, Find(r) PROVE TypeOK'
  BY <1>4 DEF Find, End, Answer, throttle, users, caching
<1>5. ASSUME NEW r \in Requests, Hit(r) PROVE TypeOK'
  BY <1>5 DEF Hit, Conclude, Goto, End, Answer, throttle, users, caching
<1>6. ASSUME NEW r \in Requests, Miss(r) PROVE TypeOK'
  BY <1>6 DEF Miss, Table, Entry, throttle, users
<1>7. ASSUME NEW r \in Requests, Store(r) PROVE TypeOK'
  <2>1. entry' \in [Query -> Entry] /\ reading' \in [Requests -> Entry]
    BY <1>7 DEF Store, Entry
  <2>2. staleFills' \in Nat
    BY <1>7 DEF Store
  <2>3. step' \in [Requests -> Step] /\ answer' \in [Requests -> Answer]
    BY <1>7 DEF Store, Conclude, Goto, End, Answer
  <2> QED
    BY <1>7, <2>1, <2>2, <2>3 DEF Store, throttle, users
<1>8. ASSUME NEW r \in Requests, Enqueue(r) PROVE TypeOK'
  <2>1. owner' \in [Keys -> Owner]
    BY <1>8 DEF Enqueue, Insert, Owner
  <2>2. step' \in [Requests -> Step] /\ answer' \in [Requests -> Answer]
    BY <1>8 DEF Enqueue, Insert, End, Answer
  <2> QED
    BY <1>8, <2>1, <2>2 DEF Enqueue, throttle, caching
<1>9. CASE ChangeUser
  <2>1. user' \in User /\ owner' \in [Keys -> Owner]
    BY <1>9 DEF ChangeUser, User, Owner
  <2> QED
    BY <1>9, <2>1 DEF ChangeUser, Entry, throttle, caching
<1>10. ASSUME NEW r \in Requests, Mutate(r) PROVE TypeOK'
  <2>1. met' \in [Requests -> SUBSET Entry]
    BY <1>10 DEF Mutate, Begin, Table, Entry
  <2> QED
    BY <1>10, <2>1 DEF Mutate, Goto, throttle, users, caching
<1>11. CASE Forget
  BY <1>11 DEF Forget, Entry, throttle
<1>12. ASSUME NEW q \in Query, Expire(q) PROVE TypeOK'
  BY <1>12 DEF Expire, Entry, throttle, users
<1>13. CASE Tick
  BY <1>13 DEF Tick, users, caching
<1>14. CASE UNCHANGED vars
  BY <1>14 DEF vars, throttle, users, caching
<1> QED
  BY <1>1, <1>2, <1>3, <1>4, <1>5, <1>6, <1>7, <1>8, <1>9, <1>11, <1>12, <1>13, <1>14,
     <1>10
  DEF Next

(* Every reachable state of the API is well typed.                         *)
THEOREM TypeCorrect == Spec => []TypeOK
<1>1. Init => TypeOK BY TypedInit
<1>2. TypeOK /\ [Next]_vars => TypeOK' BY TypedStep
<1> QED BY <1>1, <1>2, PTL DEF Spec

-----------------------------------------------------------------------------
(* What the steps do to the requests let in.                               *)

LEMMA PlacedInit == Init => Placed
BY DEF Init, Placed, Admitted, Query

(* Only WriteHistory lets a request in, and nobody is put out again; the   *)
(* stamps of those let in, and of those throttled, stay.                   *)
LEMMA AdmittedStep ==
  ASSUME TypeOK, Placed, [Next]_vars
  PROVE  /\ Placed'
         /\ Admitted \subseteq Admitted'
         /\ \A q \in Admitted : stamp'[q] = stamp[q]
         /\ \A q \in Requests : answer[q] # "none" => stamp'[q] = stamp[q]
         /\ (\A r \in Requests : ~WriteHistory(r)) => Admitted' = Admitted
         /\ \A r \in Requests : WriteHistory(r) => Admitted' = Admitted \cup {r}
<1> DEFINE Goal == /\ Placed'
                   /\ \A q \in Admitted : stamp'[q] = stamp[q]
                   /\ \A q \in Requests : answer[q] # "none" => stamp'[q] = stamp[q]
                   /\ (\A r \in Requests : ~WriteHistory(r)) => Admitted' = Admitted
                   /\ \A r \in Requests : WriteHistory(r) => Admitted' = Admitted \cup {r}
<1> USE DEF TypeOK, Placed, Admitted, Query
<1>1. ASSUME NEW r \in Requests, Authenticate(r) PROVE Goal
  BY <1>1 DEF Authenticate, Goto, End, throttle, WriteHistory
<1>2. ASSUME NEW r \in Requests, ReadHistory(r) PROVE Goal
  <2>1. CASE Cardinality(Recent(history, clock)) >= Rate
    BY <1>2, <2>1 DEF ReadHistory, End, WriteHistory, Goto
  <2>2. CASE ~(Cardinality(Recent(history, clock)) >= Rate)
    BY <1>2, <2>2 DEF ReadHistory, Goto, WriteHistory
  <2> QED
    BY <2>1, <2>2
<1>3. ASSUME NEW r \in Requests, WriteHistory(r) PROVE Goal
  <2>1. /\ step[r] = "record" /\ answer' = answer /\ stamp' = stamp
        /\ step' = [step EXCEPT ![r] = IF Kind[r] = "create" THEN "exists" ELSE "find"]
    BY <1>3 DEF WriteHistory, Goto
  <2>2. Admitted' = Admitted \cup {r}
    BY <2>1
  <2>3. \A q \in Requests : WriteHistory(q) => q = r
    <3> SUFFICES ASSUME NEW q \in Requests, WriteHistory(q), q # r PROVE FALSE
      OBVIOUS
    <3>1. step[q] = "record" /\ step'[q] # "record"
      BY DEF WriteHistory, Goto
    <3> QED
      BY <2>1, <3>1
  <2>4. Placed'
    BY <2>1
  <2> QED
    BY <1>3, <2>1, <2>2, <2>3, <2>4
<1>4. ASSUME NEW r \in Requests, Find(r) PROVE Goal
  BY <1>4 DEF Find, End, throttle, WriteHistory, Goto
<1>5. ASSUME NEW r \in Requests, Hit(r) PROVE Goal
  BY <1>5 DEF Hit, Conclude, Goto, End, throttle, WriteHistory
<1>6. ASSUME NEW r \in Requests, Miss(r) PROVE Goal
  BY <1>6 DEF Miss, throttle, WriteHistory, Goto
<1>7. ASSUME NEW r \in Requests, Store(r) PROVE Goal
  BY <1>7 DEF Store, Conclude, Goto, End, throttle, WriteHistory
<1>8. ASSUME NEW r \in Requests, Enqueue(r) PROVE Goal
  <2>1. /\ step[r] = "enqueue" /\ step' = [step EXCEPT ![r] = "over"]
        /\ UNCHANGED throttle
        /\ \E a \in {"created", "reused", "error"} :
             answer' = [answer EXCEPT ![r] = a] /\ (a = "reused" => Taken(r))
    BY <1>8 DEF Enqueue, Insert, End
  <2>2. Taken(r) => Key[r] \in Keys
    BY ApiAssumption DEF Taken
  <2> QED
    BY <2>1, <2>2 DEF throttle, WriteHistory, Goto
<1>9. CASE ChangeUser
  BY <1>9 DEF ChangeUser, throttle, WriteHistory, Goto
<1>10. CASE Forget
  BY <1>10 DEF Forget, throttle, WriteHistory, Goto
<1>11. ASSUME NEW q \in Query, Expire(q) PROVE Goal
  BY <1>11 DEF Expire, throttle, WriteHistory, Goto
<1>12. CASE Tick
  BY <1>12 DEF Tick, WriteHistory, Goto
<1>13. CASE UNCHANGED vars
  BY <1>13 DEF vars, throttle, WriteHistory, Goto
<1>14. ASSUME NEW r \in Requests, Mutate(r) PROVE Goal
  BY <1>14 DEF Mutate, Goto, throttle, WriteHistory
<1>15. Goal
  BY <1>1, <1>2, <1>3, <1>4, <1>5, <1>6, <1>7, <1>8, <1>9, <1>10, <1>11, <1>12, <1>13,
     <1>14
  DEF Next
<1>16. Admitted \subseteq Admitted'
  <2>1. CASE \E r \in Requests : WriteHistory(r)
    BY <1>15, <2>1
  <2>2. CASE ~ \E r \in Requests : WriteHistory(r)
    BY <1>15, <2>2
  <2> QED
    BY <2>1, <2>2
<1> QED
  BY <1>15, <1>16

-----------------------------------------------------------------------------
(* The throttle.                                                           *)

(* The steps that leave the state of the throttle alone.                   *)
Elsewhere == /\ UNCHANGED throttle
             /\ \A r \in Requests : /\ step'[r] = "record" => step[r] = "record"
                                    /\ answer'[r] = "throttled" => answer[r] = "throttled"

LEMMA ThrottleSteps ==
  ASSUME TypeOK, [Next]_vars
  PROVE  \/ Elsewhere \/ Tick
         \/ \E r \in Requests : ReadHistory(r) \/ WriteHistory(r)
<1> USE DEF TypeOK, Elsewhere, Query
<1>1. ASSUME NEW r \in Requests, Authenticate(r) PROVE Elsewhere
  BY <1>1 DEF Authenticate, Goto, End
<1>2. ASSUME NEW r \in Requests, Find(r) PROVE Elsewhere
  BY <1>2 DEF Find, End
<1>3. ASSUME NEW r \in Requests, Hit(r) PROVE Elsewhere
  BY <1>3 DEF Hit, Conclude, Goto, End
<1>4. ASSUME NEW r \in Requests, Miss(r) PROVE Elsewhere
  BY <1>4 DEF Miss
<1>5. ASSUME NEW r \in Requests, Store(r) PROVE Elsewhere
  BY <1>5 DEF Store, Conclude, Goto, End
<1>6. ASSUME NEW r \in Requests, Enqueue(r) PROVE Elsewhere
  BY <1>6 DEF Enqueue, Insert, End
<1>7. CASE ChangeUser
  BY <1>7 DEF ChangeUser
<1>8. CASE Forget
  BY <1>8 DEF Forget
<1>9. ASSUME NEW q \in Query, Expire(q) PROVE Elsewhere
  BY <1>9 DEF Expire
<1>10. CASE UNCHANGED vars
  BY <1>10 DEF vars
<1>11. ASSUME NEW r \in Requests, Mutate(r) PROVE Elsewhere
  BY <1>11 DEF Mutate, Goto
<1> QED
  BY <1>1, <1>2, <1>3, <1>4, <1>5, <1>6, <1>7, <1>8, <1>9, <1>10, <1>11 DEF Next

LEMMA HistoriesInit == Init => Histories
BY DEF Init, Histories

LEMMA HistoriesStep == Inv /\ [Next]_vars => Histories'
<1> SUFFICES ASSUME Inv, [Next]_vars PROVE Histories'
  OBVIOUS
<1> USE DEF Inv, TypeOK, Histories
<1>1. Admitted \subseteq Admitted'
  BY AdmittedStep
<1>2. CASE Elsewhere
  BY <1>1, <1>2 DEF Elsewhere, throttle
<1>3. CASE Tick
  BY <1>1, <1>3 DEF Tick
<1>4. ASSUME NEW r \in Requests, ReadHistory(r) PROVE Histories'
  <2>1. clock' = clock /\ history' = history /\ stamp' = [stamp EXCEPT ![r] = clock]
    BY <1>4 DEF ReadHistory
  <2>2. \A q \in Requests : seen'[q] \subseteq Admitted
    BY <1>4 DEF ReadHistory, Recent
  <2> QED
    BY <1>1, <2>1, <2>2
<1>5. ASSUME NEW r \in Requests, WriteHistory(r) PROVE Histories'
  <2>1. clock' = clock /\ stamp' = stamp /\ history' = seen[r] \cup {r}
        /\ seen' = [seen EXCEPT ![r] = {}]
    BY <1>5 DEF WriteHistory
  <2>2. r \in Admitted'
    BY <1>5, AdmittedStep
  <2> QED
    BY <1>1, <2>1, <2>2
<1> QED
  BY <1>2, <1>3, <1>4, <1>5, ThrottleSteps

LEMMA SizesInit == Init => Sizes
<1> SUFFICES ASSUME Init PROVE Sizes
  OBVIOUS
<1>1. Lost = {}
  BY DEF Init, Lost, Recent, Admitted, Query
<1> QED
  BY <1>1, FS_EmptySet, ApiAssumption DEF Init, Sizes

(* Sizes, given what a step does to the histories.                         *)
LEMMA LostStep ==
  ASSUME Inv, [Next]_vars, Admitted' = Admitted, UNCHANGED history, clock' >= clock
  PROVE  Lost' \subseteq Lost
<1> USE DEF Inv, TypeOK
<1>1. /\ \A q \in Admitted : stamp'[q] = stamp[q]
      /\ Admitted \subseteq Requests
  BY AdmittedStep DEF Admitted
<1>2. clock' \in Int /\ clock \in Int /\ Duration \in Int
  BY TypedStep, ApiAssumption
<1>3. \A q \in Admitted : stamp[q] \in Int
  BY <1>1
<1>4. Recent(Admitted, clock)' \subseteq Recent(Admitted, clock)
  BY <1>1, <1>2, <1>3 DEF Recent
<1> QED
  BY <1>4 DEF Lost

LEMMA SizesStep == Inv /\ [Next]_vars => Sizes'
<1> SUFFICES ASSUME Inv, [Next]_vars PROVE Sizes'
  OBVIOUS
<1> USE DEF Inv, TypeOK
<1>1. Rate \in Nat \ {0} /\ Duration \in Nat
  BY ApiAssumption
<1>2. Lost \in SUBSET Requests /\ Lost' \in SUBSET Requests
  BY DEF Lost, Recent, Admitted
<1>3. ASSUME Admitted' = Admitted, UNCHANGED <<history, overwrites>>, clock' >= clock
      PROVE  Cardinality(Lost') <= Rate * overwrites'
  <2>1. Lost' \subseteq Lost
    BY <1>3, LostStep
  <2>2. Cardinality(Lost') <= Cardinality(Lost)
    BY <1>2, <2>1, Smaller
  <2>3. Cardinality(Lost') \in Nat /\ Cardinality(Lost) \in Nat /\ Rate * overwrites \in Nat
    BY <1>1, <1>2, Finite
  <2> QED
    BY <1>3, <2>2, <2>3 DEF Sizes
<1>4. ASSUME \A r \in Requests : ~WriteHistory(r) PROVE Admitted' = Admitted
  BY <1>4, AdmittedStep
<1>5. CASE Elsewhere
  <2>1. ASSUME NEW r \in Requests, WriteHistory(r) PROVE Sizes'
    <3>1. history' = seen[r] \cup {r} /\ history' = history /\ seen[r] = {}
      BY <1>5, <2>1 DEF WriteHistory, Elsewhere, throttle
    <3>2. r \in Admitted
      BY <3>1 DEF Histories
    <3>3. Admitted' = Admitted
      BY <2>1, <3>2, AdmittedStep
    <3> QED
      BY <1>3, <1>5, <3>3 DEF Sizes, Elsewhere, throttle
  <2>2. ASSUME \A r \in Requests : ~WriteHistory(r) PROVE Sizes'
    BY <1>3, <1>4, <1>5, <2>2 DEF Sizes, Elsewhere, throttle
  <2> QED
    BY <2>1, <2>2
<1>6. CASE Tick
  <2>1. \A r \in Requests : ~WriteHistory(r)
    BY <1>6 DEF Tick, WriteHistory
  <2> QED
    BY <1>3, <1>4, <1>6, <2>1 DEF Sizes, Tick
<1>7. ASSUME NEW r \in Requests, ReadHistory(r) PROVE Sizes'
  <2>1. \A q \in Requests : ~WriteHistory(q)
    BY <1>7 DEF ReadHistory, WriteHistory, Goto, End
  <2>2. Cardinality(Lost') <= Rate * overwrites'
    BY <1>3, <1>4, <1>7, <2>1 DEF ReadHistory
  <2>3. Cardinality(history') <= Rate
    BY <1>7 DEF ReadHistory, Sizes
  <2>4. CASE Cardinality(Recent(history, clock)) >= Rate
    BY <1>7, <2>2, <2>3, <2>4 DEF ReadHistory, Sizes, End
  <2>5. CASE ~(Cardinality(Recent(history, clock)) >= Rate)
    <3>1. Recent(history, clock) \in SUBSET Requests
      BY DEF Recent
    <3>2. Cardinality(Recent(history, clock)) \in Nat
      BY <3>1, Finite
    <3>3. Cardinality(Recent(history, clock)) < Rate
      BY <1>1, <2>5, <3>2
    <3>4. /\ step' = [step EXCEPT ![r] = "record"]
          /\ seen' = [seen EXCEPT ![r] = Recent(history, clock)]
      BY <1>7, <2>5 DEF ReadHistory, Goto
    <3> QED
      BY <2>2, <2>3, <3>3, <3>4 DEF Sizes
  <2> QED
    BY <2>4, <2>5
<1>8. ASSUME NEW r \in Requests, WriteHistory(r) PROVE Sizes'
  <2>1. /\ step[r] = "record" /\ clock' = clock /\ stamp' = stamp
        /\ history' = seen[r] \cup {r} /\ seen' = [seen EXCEPT ![r] = {}]
        /\ step' = [step EXCEPT ![r] = IF Kind[r] = "create" THEN "exists" ELSE "find"]
        /\ Admitted' = Admitted \cup {r}
    BY <1>8, AdmittedStep DEF WriteHistory, Goto
  <2>2. seen[r] \in SUBSET Requests /\ Cardinality(seen[r]) \in Nat
    BY Finite
  <2>3. history' \in SUBSET Requests /\ Cardinality(history') \in Nat
    BY <2>1, <2>2, Finite
  <2>4. Cardinality(history') <= Cardinality(seen[r]) + 1
    BY <2>1, <2>2, OneMore
  <2>5. Cardinality(seen[r]) < Rate
    BY <2>1 DEF Sizes
  <2>6. Cardinality(history') <= Rate
    BY <1>1, <2>2, <2>3, <2>4, <2>5
  <2>7. \A q \in Requests : step'[q] = "record" => Cardinality(seen'[q]) < Rate
    BY <2>1 DEF Sizes
  <2>8. Cardinality(Lost') <= Rate * overwrites'
    <3>1. /\ Cardinality(Lost) \in Nat /\ Cardinality(Lost') \in Nat
          /\ history \in SUBSET Requests /\ Cardinality(history) \in Nat
          /\ Rate * overwrites \in Nat /\ Rate * (overwrites + 1) = Rate * overwrites + Rate
      BY <1>1, <1>2, Finite
    <3>2. CASE Recent(history, stamp[r]) \subseteq seen[r]
      <4>1. stamp[r] <= clock
        BY DEF Histories
      <4>2. Lost' \subseteq Lost
        BY <1>1, <2>1, <3>2, <4>1 DEF Lost, Recent, Admitted
      <4>3. overwrites' = overwrites
        BY <1>8, <3>2 DEF WriteHistory
      <4>4. Cardinality(Lost') <= Cardinality(Lost)
        BY <1>2, <4>2, Smaller
      <4> QED
        BY <3>1, <4>3, <4>4 DEF Sizes
    <3>3. CASE ~(Recent(history, stamp[r]) \subseteq seen[r])
      <4>1. Lost' \subseteq Lost \cup history
        BY <2>1 DEF Lost, Recent, Admitted
      <4>2. overwrites' = overwrites + 1
        BY <1>8, <3>3 DEF WriteHistory
      <4>3. /\ Lost \cup history \in SUBSET Requests
            /\ Cardinality(Lost \cup history) \in Nat
        BY <1>2, Finite
      <4>4. Cardinality(Lost') <= Cardinality(Lost \cup history)
        BY <4>1, <4>3, Smaller
      <4>5. Cardinality(Lost \cup history) <= Cardinality(Lost) + Cardinality(history)
        BY <1>2, <3>1, Together
      <4>6. Cardinality(history) <= Rate /\ Cardinality(Lost) <= Rate * overwrites
        BY DEF Sizes
      <4>7. Cardinality(Lost') <= Rate * (overwrites + 1)
        BY <1>1, <3>1, <4>3, <4>4, <4>5, <4>6
      <4> QED
        BY <4>2, <4>7
    <3> QED
      BY <3>2, <3>3
  <2> QED
    BY <2>6, <2>7, <2>8 DEF Sizes
<1> QED
  BY <1>5, <1>6, <1>7, <1>8, ThrottleSteps

(* Sizes is RateBound with the histories that were lost named.             *)
LEMMA SizesBound == Inv => RateBound
<1> SUFFICES ASSUME Inv PROVE RateBound
  OBVIOUS
<1> USE DEF Inv, TypeOK
<1> DEFINE In == Recent(Admitted, clock)
<1>1. /\ In \in SUBSET Requests /\ Lost \in SUBSET Requests
      /\ In \subseteq Lost \cup history /\ Lost \cup history \in SUBSET Requests
  BY DEF Lost, Recent, Admitted
<1>2. /\ Cardinality(In) \in Nat /\ Cardinality(Lost) \in Nat
      /\ Cardinality(history) \in Nat /\ Cardinality(Lost \cup history) \in Nat
  BY <1>1, Finite
<1>3. Cardinality(In) <= Cardinality(Lost \cup history)
  BY <1>1, Smaller
<1>4. Cardinality(Lost \cup history) <= Cardinality(Lost) + Cardinality(history)
  BY <1>1, Together
<1>5. Rate * overwrites \in Nat /\ Rate * (1 + overwrites) = Rate + Rate * overwrites
  BY ApiAssumption
<1>6. Cardinality(history) <= Rate /\ Cardinality(Lost) <= Rate * overwrites /\ Rate \in Nat
  BY ApiAssumption DEF Sizes
<1>7. Cardinality(In) <= Rate * (1 + overwrites)
  BY <1>2, <1>3, <1>4, <1>5, <1>6
<1> QED
  BY <1>7 DEF RateBound

(* Those whose admission a refusal of r can be put down to.                *)
Causes(r) == {q \in Recent(Admitted \cap Authentic, stamp[r]) : stamp[q] <= stamp[r]}

LEMMA CauseStep == Inv /\ [Next]_vars => ThrottledForCause'
<1> SUFFICES ASSUME Inv, [Next]_vars, NEW r \in Requests, answer'[r] = "throttled"
             PROVE  Cardinality(Causes(r)') >= Rate
  BY DEF ThrottledForCause, Causes
<1> USE DEF Inv, TypeOK
<1>1. /\ Admitted \subseteq Admitted' /\ Admitted' \subseteq Requests
      /\ \A q \in Admitted : stamp'[q] = stamp[q]
      /\ \A q \in Admitted : q \in Authentic
      /\ answer[r] # "none" => stamp'[r] = stamp[r]
  BY AdmittedStep DEF Placed, Admitted
<1>2. Causes(r)' \in SUBSET Requests /\ Cardinality(Causes(r)') \in Nat
  BY <1>1, Finite DEF Causes, Recent
<1>3. ASSUME NEW S \in SUBSET Requests, S \subseteq Causes(r)', Cardinality(S) >= Rate
      PROVE  Cardinality(Causes(r)') >= Rate
  <2>1. Cardinality(S) <= Cardinality(Causes(r)') /\ Cardinality(S) \in Nat /\ Rate \in Nat
    BY <1>2, <1>3, Smaller, Finite, ApiAssumption
  <2> QED
    BY <1>2, <1>3, <2>1
<1>4. CASE answer[r] = "throttled"
  <2>1. Causes(r) \in SUBSET Requests /\ Cardinality(Causes(r)) >= Rate
    BY <1>4 DEF Causes, Recent, Admitted, ThrottledForCause
  <2>2. Causes(r) \subseteq Causes(r)'
    BY <1>1, <1>4 DEF Causes, Recent
  <2> QED
    BY <1>3, <2>1, <2>2
<1>5. CASE answer[r] # "throttled"
  <2>1. PICK q \in Requests : ReadHistory(q) \/ WriteHistory(q)
    BY <1>5, ThrottleSteps DEF Elsewhere, Tick
  <2>2. ReadHistory(q)
    BY <1>5, <2>1 DEF WriteHistory, Goto
  <2>3. /\ q = r /\ Cardinality(Recent(history, clock)) >= Rate
        /\ stamp' = [stamp EXCEPT ![r] = clock]
    BY <1>5, <2>2 DEF ReadHistory, Goto, End
  <2>4. Recent(history, clock) \subseteq Causes(r)'
    <3> SUFFICES ASSUME NEW x \in history, stamp[x] > clock - Duration
                 PROVE  x \in Causes(r)'
      BY DEF Recent
    <3>1. x \in Admitted /\ x \in Authentic /\ stamp[x] <= clock
      BY <1>1 DEF Histories
    <3>2. x \in Admitted' /\ stamp'[x] = stamp[x] /\ stamp'[r] = clock
      BY <1>1, <2>3, <3>1
    <3> QED
      BY <3>1, <3>2 DEF Causes, Recent
  <2> QED
    BY <1>3, <2>3, <2>4 DEF Recent
<1> QED
  BY <1>4, <1>5

-----------------------------------------------------------------------------
(* The answers.                                                            *)

LEMMA CachedStep == Inv /\ [Next]_vars => Cached'
<1> SUFFICES ASSUME Inv, [Next]_vars, staleFills' = 0
             PROVE  \A q \in Query : entry'[q] \in {"none", Table'} \/ stale'
  BY DEF Cached
<1> USE DEF Inv, TypeOK, Cached
<1>1. ASSUME UNCHANGED <<user, stale, caching>>
      PROVE  \A q \in Query : entry'[q] \in {"none", Table'} \/ stale'
  BY <1>1 DEF caching, Table
<1>2. ASSUME NEW r \in Requests, Store(r)
      PROVE  \A q \in Query : entry'[q] \in {"none", Table'} \/ stale'
  <2>1. staleFills = 0 /\ (reading[r] = Table \/ stale)
    BY <1>2 DEF Store
  <2> QED
    BY <1>2, <2>1 DEF Store, users, Table
<1>3. ASSUME NEW r \in Requests, Miss(r)
      PROVE  \A q \in Query : entry'[q] \in {"none", Table'} \/ stale'
  BY <1>3 DEF Miss, users, Table
<1>4. CASE ChangeUser
  BY <1>4 DEF ChangeUser
<1>5. CASE Forget
  BY <1>5 DEF Forget
<1>6. ASSUME NEW q \in Query, Expire(q)
      PROVE  \A p \in Query : entry'[p] \in {"none", Table'} \/ stale'
  BY <1>6 DEF Expire, users, Table
<1>7. ASSUME NEW r \in Requests, \/ Authenticate(r) \/ Mutate(r) \/ ReadHistory(r)
                                 \/ WriteHistory(r) \/ Find(r) \/ Hit(r) \/ Enqueue(r)
      PROVE  UNCHANGED <<user, stale, caching>>
  BY <1>7 DEF Authenticate, Mutate, ReadHistory, WriteHistory, Find, Hit, Enqueue, users
<1>8. CASE Tick \/ UNCHANGED vars
  BY <1>1, <1>8 DEF Tick, vars, users
<1> QED
  BY <1>1, <1>2, <1>3, <1>4, <1>5, <1>6, <1>7, <1>8 DEF Next

(* Met and AnswerIsDue, of one request.                                    *)
MetBy(r) ==
  /\ met[r] \subseteq Both
  /\ step[r] \notin Query => reading[r] = "none"
  /\ step[r] \in Query \cup {"enqueue"} => Table \in met[r] /\ (stale => met[r] = Both)
  /\ step[r] \in Query /\ reading[r] # "none" => reading[r] \in met[r]
  /\ staleFills = 0 /\ Past(r) => "there" \in met[r]
DueTo(r) ==
  /\ \/ answer[r] = "created"
     \/ answer[r] = "reused" /\ (staleFills = 0 \/ owner[Key[r]] # "other")
     => "there" \in met[r]
  /\ staleFills = 0 =>
       /\ answer[r] = "invalid" => "missing" \in met[r]
       /\ answer[r] = "error" /\ r \notin Overlong =>
            /\ "missing" \in met[r]
            /\ Kind[r] = "create" => "there" \in met[r]

(* The notification for another user keeps its key.                        *)
LEMMA OwnersStep ==
  ASSUME TypeOK, Owners, [Next]_vars
  PROVE  Owners' /\ \A k \in Keys : owner[k] = "other" => owner'[k] = "other"
<1> DEFINE Goal == Owners' /\ \A k \in Keys : owner[k] = "other" => owner'[k] = "other"
<1>1. ASSUME UNCHANGED <<user, owner>> PROVE Goal
  BY <1>1 DEF Owners
<1>2. ASSUME NEW r \in Requests, Enqueue(r) PROVE Goal
  <2>1. CASE UNCHANGED owner
    BY <1>1, <1>2, <2>1 DEF Enqueue
  <2>2. CASE ~Taken(r) /\ user = "there" /\ Insert(r)
    <3>1. \A k \in Keys : owner'[k] = IF k = Key[r] THEN "user" ELSE owner[k]
      BY <2>2 DEF Insert
    <3>2. \A k \in Keys : k = Key[r] => owner[k] = "nobody"
      BY <2>2, ApiAssumption DEF Taken
    <3> QED
      BY <1>2, <2>2, <3>1, <3>2 DEF Enqueue, Owners
  <2> QED
    BY <1>2, <2>1, <2>2 DEF Enqueue
<1>3. CASE ChangeUser
  <2>1. \A k \in Keys : owner'[k] = IF owner[k] = "user" THEN "nobody" ELSE owner[k]
    BY <1>3 DEF ChangeUser
  <2> QED
    BY <2>1 DEF Owners
<1>4. CASE UNCHANGED users
  BY <1>1, <1>4 DEF users
<1> QED
  BY <1>1, <1>2, <1>3, <1>4
     DEF Next, Authenticate, Mutate, ReadHistory, WriteHistory, Find, Hit, Miss, Store,
         Forget, Expire, Tick, vars

(* A request is concluded by a result it has met.                          *)
LEMMA ConcludeStep ==
  ASSUME Inv, NEW r \in Requests, NEW res \in {"there", "missing"}, MetBy(r),
         step[r] \in Query, Conclude(r, res), UNCHANGED <<users, met>>,
         reading'[r] = "none", staleFills' = 0 => staleFills = 0 /\ res \in met[r]
  PROVE  MetBy(r)' /\ DueTo(r)'
<1> USE DEF Inv, TypeOK, MetBy, DueTo, Both, Query, users, Table, Past
<1>1. CASE res = "there"
  BY <1>1 DEF Conclude, Goto, Placed
<1>2. CASE res = "missing"
  BY <1>2 DEF Conclude, End, Placed
<1> QED
  BY <1>1, <1>2

LEMMA DueStep ==
  ASSUME Inv, [Next]_vars, NEW r \in Requests
  PROVE  MetBy(r)' /\ DueTo(r)'
<1> USE DEF Inv, TypeOK
<1> DEFINE Goal == MetBy(r)' /\ DueTo(r)'
<1>0. MetBy(r) /\ DueTo(r)
  BY DEF Met, MetBy, AnswerIsDue, DueTo, Both
<1>k. /\ answer[r] = "reused" => Key[r] \in Keys
      /\ \A k \in Keys : owner[k] = "other" => owner'[k] = "other"
  BY OwnersStep DEF Placed
<1>1. ASSUME UNCHANGED <<step[r], answer[r], met[r], reading[r], user, stale>>,
             staleFills' = 0 => staleFills = 0
      PROVE  Goal
  BY <1>0, <1>k, <1>1 DEF MetBy, DueTo, Table, Past
<1>2. ASSUME NEW q \in Requests, Authenticate(q) PROVE Goal
  <2>1. CASE q # r
    BY <1>1, <1>2, <2>1 DEF Authenticate, Goto, End, caching, users
  <2>2. CASE q = r
    BY <1>0, <1>2, <2>2
       DEF Authenticate, Goto, End, caching, MetBy, DueTo, Placed, Query, Past
  <2> QED
    BY <2>1, <2>2
<1>3. ASSUME NEW q \in Requests, ReadHistory(q) PROVE Goal
  <2>1. UNCHANGED <<users, caching, met>> /\ step[q] = "history"
        /\ (\/ End(q, "throttled") \/ Goto(q, "record"))
    BY <1>3 DEF ReadHistory
  <2>2. CASE q # r
    BY <1>1, <2>1, <2>2 DEF Goto, End, caching, users
  <2>3. CASE q = r
    BY <1>0, <2>1, <2>3 DEF Goto, End, caching, MetBy, DueTo, Placed, Query, Past
  <2> QED
    BY <2>2, <2>3
<1>4. ASSUME NEW q \in Requests, WriteHistory(q) \/ Mutate(q) PROVE Goal
  <2>1. /\ UNCHANGED <<users, caching>> /\ answer' = answer /\ step[q] \in {"new", "record"}
        /\ step' = [step EXCEPT ![q] = IF step[q] = "new" THEN "get"
                                       ELSE IF Kind[q] = "create" THEN "exists" ELSE "find"]
        /\ step[q] = "new" => Kind[q] = "graphql"
        /\ met' = [met EXCEPT ![q] = IF stale THEN {"there", "missing"} ELSE {Table}]
    BY <1>4 DEF WriteHistory, Mutate, Begin, Goto
  <2>2. CASE q # r
    BY <1>1, <2>1, <2>2 DEF caching, users
  <2>3. CASE q = r
    <3>1. step'[r] \in {"exists", "find", "get"} /\ ~Past(r)' /\ answer'[r] = "none"
      BY <2>1, <2>3 DEF Placed, Past
    <3>2. met'[r] = (IF stale THEN Both ELSE {Table}) /\ Table \in Both
      BY <2>1, <2>3 DEF Both, Table
    <3>3. UNCHANGED <<Table, stale, reading>> /\ reading[r] = "none"
      BY <1>0, <2>1, <2>3 DEF MetBy, Query, users, caching, Table
    <3> QED
      BY <3>1, <3>2, <3>3 DEF MetBy, DueTo
  <2> QED
    BY <2>2, <2>3
<1>5. ASSUME NEW q \in Requests, Find(q) \/ Enqueue(q) PROVE Goal
  <2>1. UNCHANGED <<user, stale, caching, met>>
    BY <1>5 DEF Find, Enqueue, users
  <2>2. CASE q # r
    BY <1>1, <1>5, <2>1, <2>2 DEF Find, Enqueue, Insert, End, caching
  <2>3. CASE q = r /\ Find(r)
    BY <1>0, <2>1, <2>3 DEF Find, End, caching, MetBy, DueTo, Query, Past
  <2>4. CASE q = r /\ Enqueue(r)
    <3>1. /\ step[r] = "enqueue" /\ step'[r] = "over"
          /\ \/ Taken(r) /\ answer'[r] = "reused" /\ owner' = owner
             \/ user = "there" /\ answer'[r] = "created"
             \/ (r \in Overlong \/ user # "there") /\ answer'[r] = "error"
      BY <2>4 DEF Enqueue, Insert, End
    <3>2. MetBy(r)'
      BY <1>0, <2>1, <3>1 DEF caching, MetBy, Table, Query, Past
    <3>3. /\ Table \in met'[r] /\ staleFills' = staleFills
          /\ staleFills = 0 => "there" \in met'[r]
      BY <1>0, <2>1, <3>1 DEF caching, MetBy, Query, Past
    <3>4. CASE Taken(r) /\ answer'[r] = "reused" /\ owner' = owner
      <4>1. owner[Key[r]] \in {"user", "other"} /\ Key[r] \in Keys
        BY <3>4, ApiAssumption DEF Taken, Owner
      <4>2. owner[Key[r]] = "user" => "there" \in met'[r]
        BY <3>3, <4>1 DEF Owners, Table
      <4> QED
        BY <3>2, <3>3, <3>4, <4>1, <4>2 DEF DueTo
    <3>5. CASE user = "there" /\ answer'[r] = "created"
      BY <3>2, <3>3, <3>5 DEF DueTo, Table
    <3>6. CASE (r \in Overlong \/ user # "there") /\ answer'[r] = "error"
      BY <3>2, <3>3, <3>6 DEF DueTo, Table
    <3> QED
      BY <3>1, <3>4, <3>5, <3>6
  <2> QED
    BY <1>5, <2>2, <2>3, <2>4
<1>6. ASSUME NEW q \in Requests, Hit(q) PROVE Goal
  <2>1. UNCHANGED <<users, caching, met>> /\ step[q] \in Query /\ reading[q] = "none"
        /\ entry[step[q]] \in {"there", "missing"} /\ Conclude(q, entry[step[q]])
    BY <1>6 DEF Hit, Entry
  <2>2. CASE q # r
    BY <1>1, <2>1, <2>2 DEF Conclude, Goto, End, caching, users
  <2>3. CASE q = r
    <3>1. staleFills = 0 => entry[step[r]] \in met[r]
      BY <1>0, <2>1, <2>3 DEF Cached, MetBy, Both
    <3> QED
      BY <1>0, <2>1, <2>3, <3>1, ConcludeStep DEF caching
  <2> QED
    BY <2>2, <2>3
<1>7. ASSUME NEW q \in Requests, Miss(q) PROVE Goal
  <2>1. /\ UNCHANGED <<step, answer, users, staleFills, met>> /\ step[q] \in Query
        /\ reading' = [reading EXCEPT ![q] = Table]
    BY <1>7 DEF Miss
  <2>2. CASE q # r
    BY <1>1, <2>1, <2>2 DEF users
  <2>3. CASE q = r
    BY <1>0, <2>1, <2>3 DEF MetBy, DueTo, users, Table, Past
  <2> QED
    BY <2>2, <2>3
<1>8. ASSUME NEW q \in Requests, Store(q) PROVE Goal
  <2>1. /\ UNCHANGED <<users, met>> /\ step[q] \in Query /\ reading[q] # "none"
        /\ Conclude(q, reading[q]) /\ reading' = [reading EXCEPT ![q] = "none"]
        /\ (staleFills' = 0 => staleFills = 0)
    BY <1>8 DEF Store
  <2>2. CASE q # r
    BY <1>1, <2>1, <2>2 DEF Conclude, Goto, End, users
  <2>3. CASE q = r
    <3>1. reading[r] \in met[r] /\ reading[r] \in {"there", "missing"}
      BY <1>0, <2>1, <2>3 DEF MetBy, Both
    <3> QED
      BY <1>0, <2>1, <2>3, <3>1, ConcludeStep
  <2> QED
    BY <2>2, <2>3
<1>9. CASE ChangeUser
  <2>1. /\ UNCHANGED <<step, answer, caching>> /\ stale' = TRUE
        /\ met'[r] = IF step[r] \in Query \cup {"enqueue"} THEN Both ELSE met[r]
    BY <1>9 DEF ChangeUser, Both
  <2>2. Table' \in Both
    BY DEF Table, Both
  <2>3. reading[r] \in Entry /\ (reading[r] # "none" => reading[r] \in Both)
    BY DEF Entry, Both
  <2>4. MetBy(r)'
    BY <1>0, <2>1, <2>2, <2>3 DEF MetBy, caching, Both, Query, Past
  <2>5. answer[r] # "none" => met'[r] = met[r]
    BY <2>1 DEF Placed, Query
  <2>6. DueTo(r)'
    BY <1>0, <1>k, <2>1, <2>5 DEF DueTo, caching
  <2> QED
    BY <2>4, <2>6
<1>10. CASE Forget
  BY <1>0, <1>10 DEF Forget, MetBy, DueTo, Table, Past
<1>11. ASSUME NEW q \in Query, Expire(q) PROVE Goal
  BY <1>1, <1>11 DEF Expire, users
<1>12. CASE Tick \/ UNCHANGED vars
  BY <1>1, <1>12 DEF Tick, vars, caching, users
<1> QED
  BY <1>2, <1>3, <1>4, <1>5, <1>6, <1>7, <1>8, <1>9, <1>10, <1>11, <1>12 DEF Next

-----------------------------------------------------------------------------
LEMMA InvInit == Init => Inv
<1> SUFFICES ASSUME Init PROVE Inv
  OBVIOUS
<1>1. Cached /\ Met
  BY DEF Init, Cached, Met, Query, Past
<1>2. ThrottledForCause /\ AnswerIsDue
  BY DEF Init, ThrottledForCause, AnswerIsDue
<1>3. Owners
  BY DEF Init, Owners, Owner
<1> QED
  BY <1>1, <1>2, <1>3, TypedInit, PlacedInit, HistoriesInit, SizesInit DEF Inv

LEMMA InvStep == Inv /\ [Next]_vars => Inv'
<1> SUFFICES ASSUME Inv, [Next]_vars PROVE Inv'
  OBVIOUS
<1>1. TypeOK' /\ Placed' /\ Owners'
  BY TypedStep, AdmittedStep, OwnersStep DEF Inv
<1>2. Met' /\ AnswerIsDue'
  BY DueStep DEF Met, MetBy, AnswerIsDue, DueTo, Both
<1> QED
  BY <1>1, <1>2, HistoriesStep, SizesStep, CachedStep, CauseStep DEF Inv

LEMMA Invariant == Spec => []Inv
BY InvInit, InvStep, PTL DEF Spec

(* The throttle lets in no more than its rate in any period, and at most   *)
(* the rate again for each history lost to overlapping workers, however    *)
(* many workers and requests there are.                                    *)
THEOREM RateCorrect == Spec => []RateBound
BY Invariant, SizesBound, PTL

(* Nobody is throttled but for requests that were let in.                  *)
THEOREM ThrottleCorrect == Spec => []ThrottledForCause
<1>1. Inv => ThrottledForCause BY DEF Inv
<1> QED BY <1>1, Invariant, PTL

(* Every answer to a request to create is one the request could meet, for  *)
(* any interleaving of the queries, the cache and the changes of the user. *)
THEOREM AnswerCorrect == Spec => []AnswerIsDue
<1>1. Inv => AnswerIsDue BY DEF Inv
<1> QED BY <1>1, Invariant, PTL
=============================================================================
