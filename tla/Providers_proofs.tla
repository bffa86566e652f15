-------------------------- MODULE Providers_proofs --------------------------
(* Proofs of the safety properties of Providers, for every set of status   *)
(* codes and every retry limit.                                            *)
EXTENDS Providers, TLAPS

Early   == {"start", "connect", "login", "mail", "rcpt", "data", "post"}
Waiting == {"body", "answer"}
Ended   == {"quit", "over"}

(* What the place where a call stands says of its message.                 *)
Placed ==
  /\ step \in Early => ~took /\ ~onWire
  /\ step = "body" => onWire
  /\ step \in Early \cup {"body"} => trouble = {}
  /\ step = "answer" => trouble = IF onWire THEN {} ELSE {"astray"}
  /\ step \in Early \cup Waiting => verdict = "none"
  /\ channel = "email" => step # "post" /\ step # "answer"
  /\ step \in Ended => verdict # "none"
  /\ step = "quit" => "quit" \notin trouble /\ (onWire => verdict = "retry")
  /\ channel = "unknown" => step \notin Dialogue \cup {"connect", "post", "answer", "quit"}
  /\ recipient = "empty" => step \notin Dialogue \cup {"connect", "post", "answer", "quit"}

(* What an ended call says of it.                                          *)
Judged ==
  step \in Ended =>
    /\ channel = "email" => "astray" \notin trouble
    /\ verdict = "sent" => (took \/ "astray" \in trouble) /\ trouble \subseteq {"astray"}
    /\ verdict = "final" => ~onWire /\ (took => "astray" \in trouble)
    /\ onWire /\ verdict = "retry" => trouble \cap {"silence", "outage"} # {}
    /\ verdict = "retry" /\ took => InDoubt
    /\ verdict = "final" <=> \/ channel # "unknown" /\ recipient = "empty"
                             \/ "refused" \in trouble /\ "quit" \notin trouble

Inv == TypeOK /\ Placed /\ Judged /\ DeliveriesBound

LEMMA Initially == Init => Inv
<1> SUFFICES ASSUME Init PROVE Inv
  OBVIOUS
<1>1. 1 \in 1 .. MAX_RETRIES_PER_CHANNEL
  BY ProvidersAssumption
<1>2. trouble \in SUBSET Trouble
  BY DEF Init
<1>3. TypeOK
  BY <1>1, <1>2 DEF Init, TypeOK, Step, Verdict
<1>4. Placed /\ Judged
  BY DEF Init, Placed, Judged, Early, Waiting, Ended, Dialogue
<1> QED
  BY <1>3, <1>4 DEF Inv, Init, DeliveriesBound

(* A status is judged as FinalIsEarned and SentWasTaken need it.           *)
LEMMA StatusJudged ==
  ASSUME NEW s \in Statuses
  PROVE  /\ s \in Int
         /\ OfStatus(s) \in {"sent", "retry", "final"}
         /\ OfStatus(s) = "sent" <=> s \notin 400 .. 599
         /\ OfStatus(s) = "final" <=> s \in 400 .. 499 /\ s # 429
         /\ TroubleOf(s) \in SUBSET Trouble
         /\ TroubleOf(s) = {"refused"} <=> OfStatus(s) = "final"
         /\ TroubleOf(s) = {"outage"} <=> s \in 500 .. 599
         /\ TroubleOf(s) = {} <=> s \in (200 .. 299) \cup {429}
         /\ TroubleOf(s) \in {{}, {"refused"}, {"outage"}, {"astray"}}
  BY ProvidersAssumption DEF OfStatus, TroubleOf, Trouble

LEMMA TypeStep == Inv /\ [Next]_vars => TypeOK'
<1> SUFFICES ASSUME Inv, [Next]_vars PROVE TypeOK'
  OBVIOUS
<1> USE DEF Inv, TypeOK, Step, Verdict, Dialogue
<1>1. CASE Prepare BY <1>1 DEF Prepare, Leave, call, past
<1>2. CASE Connect BY <1>2 DEF Connect, call, past
<1>3. CASE Agree BY <1>3 DEF Agree, call, past
<1>4. CASE Disagree
  <2>1. trouble' \in SUBSET Trouble BY <1>4 DEF Disagree, Trouble
  <2>2. connected' \in BOOLEAN /\ onWire' \in BOOLEAN /\ took' \in BOOLEAN
    BY <1>4 DEF Disagree
  <2>3. step' \in Step /\ verdict' \in Verdict BY <1>4 DEF Disagree, OfReply
  <2> QED BY <1>4, <2>1, <2>2, <2>3 DEF Disagree, call, past
<1>5. CASE Accepted BY <1>5 DEF Accepted, call, past
<1>6. CASE Quit
  <2>1. trouble' \in SUBSET Trouble BY <1>6 DEF Quit, Trouble
  <2> QED BY <1>6, <2>1 DEF Quit, call, past
<1>7. CASE Post BY <1>7 DEF Post, call, past
<1>8. ASSUME NEW s \in Statuses, Answer(s) PROVE TypeOK'
  <2>1. trouble' \in SUBSET Trouble BY <1>8, StatusJudged DEF Answer
  <2>2. onWire' \in BOOLEAN BY <1>8 DEF Answer
  <2> QED BY <1>8, <2>1, <2>2, StatusJudged DEF Answer, Leave, call, past
<1>9. CASE Silence
  <2>1. trouble' \in SUBSET Trouble BY <1>9 DEF Silence, Trouble
  <2> QED BY <1>9, <2>1 DEF Silence, call, past
<1>10. CASE Take
  <2>1. adrift' \in Nat /\ delivered' \in Nat BY <1>10 DEF Take
  <2>2. took' \in BOOLEAN BY <1>10 DEF Take
  <2> QED BY <1>10, <2>1, <2>2 DEF Take, call
<1>11. CASE CallAgain
  <2>1. calls' \in 1 .. MAX_RETRIES_PER_CHANNEL
    BY <1>11, ProvidersAssumption DEF CallAgain
  <2>2. adrift' \in Nat /\ doubts' \in Nat BY <1>11 DEF CallAgain
  <2>3. trouble' \in SUBSET Trouble BY <1>11 DEF CallAgain
  <2>4. onWire' \in BOOLEAN /\ took' \in BOOLEAN BY <1>11 DEF CallAgain
  <2> QED BY <1>11, <2>1, <2>2, <2>3, <2>4 DEF CallAgain
<1>12. CASE UNCHANGED vars BY <1>12 DEF vars, call, past
<1>13. CASE Redirect
  <2>1. trouble' \in SUBSET Trouble BY <1>13 DEF Redirect, Trouble
  <2> QED BY <1>13, <2>1 DEF Redirect, call, past
<1> QED
  BY <1>1, <1>2, <1>3, <1>4, <1>5, <1>6, <1>7, <1>8, <1>9, <1>10, <1>11, <1>12, <1>13
  DEF Next

LEMMA PlacedStep == Inv /\ [Next]_vars => Placed'
<1> SUFFICES ASSUME Inv, [Next]_vars PROVE Placed'
  OBVIOUS
<1> USE DEF Inv, TypeOK, Placed, Early, Waiting, Ended, Dialogue
<1>1. CASE Prepare BY <1>1 DEF Prepare, Leave, call, past
<1>2. CASE Connect BY <1>2 DEF Connect, call, past
<1>3. CASE Agree BY <1>3 DEF Agree, call, past
<1>4. CASE Disagree BY <1>4 DEF Disagree, OfReply, call, past
<1>5. CASE Accepted BY <1>5 DEF Accepted, call, past
<1>6. CASE Quit BY <1>6 DEF Quit, call, past
<1>7. CASE Post BY <1>7 DEF Post, call, past
<1>8. ASSUME NEW s \in Statuses, Answer(s) PROVE Placed'
  BY <1>8, StatusJudged DEF Answer, Leave, call, past
<1>9. CASE Silence BY <1>9 DEF Silence, call, past
<1>10. CASE Take BY <1>10 DEF Take, call
<1>11. CASE CallAgain BY <1>11 DEF CallAgain
<1>12. CASE UNCHANGED vars BY <1>12 DEF vars, call, past
<1>13. CASE Redirect BY <1>13 DEF Redirect, call, past
<1> QED
  BY <1>1, <1>2, <1>3, <1>4, <1>5, <1>6, <1>7, <1>8, <1>9, <1>10, <1>11, <1>12, <1>13
  DEF Next

(* Only what ends a call, undoes its success or takes a message matters.   *)
LEMMA JudgedStep == Inv /\ [Next]_vars => Judged'
<1> SUFFICES ASSUME Inv, [Next]_vars PROVE Judged'
  OBVIOUS
<1> USE DEF Inv, TypeOK, Placed, Judged, InDoubt, Early, Waiting, Ended, Dialogue
<1>1. CASE Prepare BY <1>1 DEF Prepare, Leave, call, past
<1>2. CASE Connect BY <1>2 DEF Connect, call, past
<1>3. CASE Agree BY <1>3 DEF Agree, call, past
<1>4. CASE Disagree BY <1>4 DEF Disagree, OfReply, call, past
<1>5. CASE Accepted BY <1>5 DEF Accepted, call, past
<1>6. CASE Quit
  <2>1. CASE UNCHANGED <<verdict, trouble>> BY <1>6, <2>1 DEF Quit, call, past
  <2>2. CASE verdict' = "retry" /\ trouble' = trouble \cup {"quit"}
    <3>1. onWire => trouble \cap {"silence", "outage"} # {} BY <1>6 DEF Quit
    <3> QED BY <1>6, <2>2, <3>1 DEF Quit, call, past
  <2> QED BY <1>6, <2>1, <2>2 DEF Quit
<1>7. CASE Post BY <1>7 DEF Post, call, past
<1>8. ASSUME NEW s \in Statuses, Answer(s) PROVE Judged'
  <2>1. /\ trouble = IF onWire THEN {} ELSE {"astray"}
        /\ recipient # "empty" /\ channel \notin {"unknown", "email"}
    BY <1>8 DEF Answer
  <2>2. CASE s \in 200 .. 299
    <3>1. OfStatus(s) = "sent" /\ TroubleOf(s) = {} /\ ~(s >= 500)
      BY <2>2, StatusJudged
    <3>2. verdict' = "sent" /\ ~onWire' /\ trouble' = trouble
      BY <1>8, <3>1 DEF Answer, Leave
    <3>3. took' \/ "astray" \in trouble'
      BY <1>8, <2>1, <2>2, <3>2 DEF Answer
    <3> QED BY <1>8, <2>1, <3>2, <3>3 DEF Answer, Leave, call
  <2>3. CASE s \in 400 .. 499 /\ s # 429
    <3>1. OfStatus(s) = "final" /\ TroubleOf(s) = {"refused"} /\ ~(s >= 500)
      BY <2>3, StatusJudged
    <3>2. verdict' = "final" /\ ~onWire' /\ trouble' = trouble \cup {"refused"}
      BY <1>8, <3>1 DEF Answer, Leave
    <3>3. took' => "astray" \in trouble'
      BY <1>8, <2>1, <2>3, <3>2 DEF Answer
    <3> QED BY <1>8, <2>1, <3>2, <3>3 DEF Answer, Leave, call
  <2>4. CASE s = 429
    <3>0. OfStatus(s) = "retry" /\ TroubleOf(s) = {} /\ ~(s >= 500)
      BY <2>4, StatusJudged
    <3>1. verdict' = "retry" /\ ~onWire' /\ trouble' = trouble
      BY <1>8, <3>0 DEF Answer, Leave
    <3>2. took' => "astray" \in trouble'
      BY <1>8, <2>1, <2>4, <3>1 DEF Answer
    <3> QED BY <1>8, <2>1, <3>1, <3>2 DEF Answer, Leave, call
  <2>5. CASE s \in 500 .. 599
    <3>0. OfStatus(s) = "retry" /\ TroubleOf(s) = {"outage"}
      BY <2>5, StatusJudged
    <3>1. verdict' = "retry" /\ trouble' = trouble \cup {"outage"}
      BY <1>8, <3>0 DEF Answer, Leave
    <3> QED BY <1>8, <2>1, <3>1 DEF Answer, Leave, call
  <2>6. CASE s \notin (200 .. 299) \cup (400 .. 599)
    <3>0. OfStatus(s) = "sent" /\ TroubleOf(s) = {"astray"}
      BY <2>6, StatusJudged
    <3>1. verdict' = "sent" /\ trouble' = {"astray"}
      BY <1>8, <2>1, <3>0 DEF Answer, Leave
    <3> QED BY <1>8, <2>1, <3>1 DEF Answer, Leave, call
  <2> QED BY <2>2, <2>3, <2>4, <2>5, <2>6, StatusJudged
<1>9. CASE Silence
  <2>1. /\ trouble \subseteq {"astray"} /\ (onWire => trouble = {})
        /\ channel = "email" => trouble = {}
        /\ recipient # "empty" /\ channel # "unknown"
    BY <1>9 DEF Silence
  <2>2. verdict' = "retry" /\ step' \in Ended /\ (onWire => "silence" \in trouble')
    BY <1>9 DEF Silence
  <2>3. "refused" \notin trouble' /\ "quit" \notin trouble'
    BY <1>9 DEF Silence
  <2>4. took' => InDoubt'
    <3>1. took /\ ~onWire => "astray" \in trouble
      BY <1>9 DEF Silence
    <3> QED BY <1>9, <2>2, <3>1 DEF Silence
  <2>5. onWire' => trouble' \cap {"silence", "outage"} # {}
    BY <1>9, <2>2 DEF Silence
  <2>6. channel' = "email" => "astray" \notin trouble'
    BY <1>9, <2>1 DEF Silence, call
  <2>7. UNCHANGED <<channel, recipient>>
    BY <1>9 DEF Silence, call
  <2> QED BY <2>1, <2>2, <2>3, <2>4, <2>5, <2>6, <2>7
<1>10. CASE Take BY <1>10 DEF Take, call
<1>11. CASE CallAgain BY <1>11 DEF CallAgain
<1>12. CASE UNCHANGED vars BY <1>12 DEF vars, call, past
<1>13. CASE Redirect BY <1>13 DEF Redirect, call, past
<1> QED
  BY <1>1, <1>2, <1>3, <1>4, <1>5, <1>6, <1>7, <1>8, <1>9, <1>10, <1>11, <1>12, <1>13
  DEF Next

(* Deliveries are counted by Take; CallAgain forgets took, or leaves a     *)
(* message adrift, only of a call in doubt.                                *)
LEMMA CountStep == Inv /\ [Next]_vars => DeliveriesBound'
<1> SUFFICES ASSUME Inv, [Next]_vars PROVE DeliveriesBound'
  OBVIOUS
<1> USE DEF Inv, TypeOK, DeliveriesBound
<1>1. CASE Take BY <1>1 DEF Take
<1>2. CASE CallAgain
  <2>1. took \/ onWire => InDoubt
    BY <1>2 DEF CallAgain, Judged, Ended, InDoubt
  <2> QED BY <1>2, <2>1 DEF CallAgain
<1>3. CASE UNCHANGED <<took, past>> BY <1>3 DEF past
<1> QED
  BY <1>1, <1>2, <1>3 DEF Next, vars, Prepare, Connect, Agree, Disagree, Accepted, Quit, Post,
     Redirect, Answer, Silence

THEOREM Invariance == Spec => []Inv
<1>1. Inv /\ [Next]_vars => Inv'
  BY TypeStep, PlacedStep, JudgedStep, CountStep DEF Inv
<1> QED
  BY Initially, <1>1, PTL DEF Spec

(* Every reachable state of the calls is well typed; in particular no      *)
(* channel is called more often than the limit.                            *)
THEOREM TypeCorrect == Spec => []TypeOK
<1>1. Inv => TypeOK BY DEF Inv
<1> QED BY Invariance, <1>1, PTL

(* A call that ended for good delivered nothing and never will.            *)
THEOREM FallbackCorrect == Spec => []FallbackIsFirst
<1>1. Inv => FallbackIsFirst BY DEF Inv, Judged, Ended, FallbackIsFirst
<1> QED BY Invariance, <1>1, PTL

(* A success is booked only for what the provider took.                    *)
THEOREM SentCorrect == Spec => []SentWasTaken
<1>1. Inv => SentWasTaken BY DEF Inv, Judged, Ended, SentWasTaken
<1> QED BY Invariance, <1>1, PTL

(* One delivery, and one more for each call repeated in doubt, for any     *)
(* number of calls.                                                        *)
THEOREM DeliveriesCorrect == Spec => []DeliveriesBound
<1>1. Inv => DeliveriesBound BY DEF Inv
<1> QED BY Invariance, <1>1, PTL

(* Exactly an empty address and a refusal by the server end a channel.     *)
THEOREM EarnedCorrect == Spec => []FinalIsEarned
<1>1. Inv => FinalIsEarned BY DEF Inv, Judged, Ended, FinalIsEarned
<1> QED BY Invariance, <1>1, PTL
=============================================================================
