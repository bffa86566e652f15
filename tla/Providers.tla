----------------------------- MODULE Providers -----------------------------
(***************************************************************************)
(* The calls of get_provider and send (services/factory.py and             *)
(* services/providers) send_notification_task makes for one notification   *)
(* on one channel: what the SMTP server or the HTTP API does, what the     *)
(* client makes of it, and whether the task calls again.                   *)
(*                                                                         *)
(* The servers, smtplib and requests are external. A server takes the      *)
(* message while the client waits for the answer, or after it has stopped  *)
(* waiting. The factory never asks for TLS.                                *)
(***************************************************************************)
EXTENDS Integers

CONSTANTS
  Statuses,                 \* status codes the HTTP APIs answer with
  MAX_RETRIES_PER_CHANNEL

ASSUME ProvidersAssumption ==
  /\ Statuses \subseteq 101 .. 999
  /\ MAX_RETRIES_PER_CHANNEL \in Nat \ {0}

Channels  == {"email", "sms", "telegram", "unknown"}
Recipient == {"empty", "malformed", "given"}
Verdict   == {"none", "sent", "retry", "final"}
Trouble   == {"refused", "silence", "quit", "outage", "astray"}
Dialogue  == {"login", "mail", "rcpt", "data", "body"}
Step      == {"start", "connect", "post", "answer", "quit", "over"} \cup Dialogue

VARIABLES
  channel, recipient,       \* what send is called for
  step,                     \* where the client stands
  connected,                \* the SMTP connection is open
  verdict,                  \* success, or the ProviderError being raised
  onWire,                   \* the message was handed over, the answer is open
  took,                     \* the server took the message
  calls,                    \* calls made, the one that is running too
  trouble,                  \* what went wrong in this call, and
  delivered,                \* messages ever taken, and
  adrift,                   \* earlier messages a server may still take, and
  doubts                    \* calls repeated in doubt: for the properties

call == <<channel, recipient, calls>>
past == <<delivered, adrift, doubts>>
vars == <<call, step, connected, verdict, onWire, took, trouble, past>>

TypeOK ==
  /\ channel \in Channels /\ recipient \in Recipient
  /\ step \in Step /\ verdict \in Verdict
  /\ connected \in BOOLEAN /\ onWire \in BOOLEAN /\ took \in BOOLEAN
  /\ trouble \in SUBSET Trouble
  /\ calls \in 1 .. MAX_RETRIES_PER_CHANNEL
  /\ delivered \in Nat /\ adrift \in Nat /\ doubts \in Nat

Init ==
  /\ channel \in Channels /\ recipient \in Recipient
  /\ step = "start" /\ verdict = "none"
  /\ connected = FALSE /\ onWire = FALSE /\ took = FALSE
  /\ trouble = {} /\ calls = 1
  /\ delivered = 0 /\ adrift = 0 /\ doubts = 0

-----------------------------------------------------------------------------
(* Operators whose name ends in a slip are wrong variants of the one that  *)
(* follows them and no part of Spec: mistakes the properties would catch.  *)

(* response.ok, and should_retry of the ProviderError raised otherwise.    *)
OfStatusNoOutage(s) ==      \* 5xx is not retried
  IF s \notin 400 .. 599 THEN "sent" ELSE IF s = 429 THEN "retry" ELSE "final"
OfStatusOnly200(s) ==       \* 201 Created is not a success
  IF s = 200 THEN "sent"
  ELSE IF s < 400 \/ s = 429 \/ s >= 500 THEN "retry" ELSE "final"
OfStatusAll4xx(s) ==        \* rate limiting is taken for a refusal
  IF s \notin 400 .. 599 THEN "sent" ELSE IF 500 <= s THEN "retry" ELSE "final"
OfStatus(s) ==
  IF s \notin 400 .. 599 THEN "sent"
  ELSE IF s = 429 \/ 500 <= s THEN "retry" ELSE "final"

TroubleOf(s) ==
  IF s \in 500 .. 599 THEN {"outage"}
  ELSE IF s \in 400 .. 499 THEN (IF s = 429 THEN {} ELSE {"refused"})
  ELSE IF s \in 200 .. 299 THEN {} ELSE {"astray"}

(* SMTPRecipientsRefused, whatever its code, against any other SMTPException. *)
OfReply(at) == IF at = "rcpt" THEN "final" ELSE "retry"

(* A call that failed although the message may have been taken.            *)
InDoubt == \/ trouble \cap {"silence", "outage"} # {}
           \/ trouble \cap {"quit", "astray"} # {} /\ took

Leave(v) == step' = "over" /\ verdict' = v

(* What needs no server: get_provider raises ValueError, which the task    *)
(* retries; an empty address is final; EmailMessage refuses a header with  *)
(* a line break (ValueError again).                                        *)
Prepare ==
  /\ step = "start"
  /\ \/ channel = "unknown" /\ Leave("retry")
     \/ channel # "unknown" /\ recipient = "empty" /\ Leave("final")
     \/ channel = "email" /\ recipient = "malformed" /\ Leave("retry")
     \/ channel = "email" /\ recipient = "given"
        /\ step' = "connect" /\ UNCHANGED verdict
     \/ channel \in {"sms", "telegram"} /\ recipient # "empty"
        /\ step' = "post" /\ UNCHANGED verdict
  /\ UNCHANGED <<call, connected, onWire, took, trouble, past>>

(* smtplib.SMTP(): login follows only when credentials are configured.     *)
Connect ==
  /\ step = "connect"
  /\ connected' = TRUE
  /\ step' \in {"login", "mail"}
  /\ UNCHANGED <<call, verdict, onWire, took, trouble, past>>

(* The server agrees to LOGIN, MAIL, RCPT or DATA, and the client goes on; *)
(* after DATA the message is handed over.                                  *)
Agree ==
  /\ step \in Dialogue \ {"body"}
  /\ step' = CASE step = "login" -> "mail" [] step = "mail" -> "rcpt"
               [] step = "rcpt"  -> "data" [] step = "data" -> "body"
  /\ onWire' = (step = "data")
  /\ UNCHANGED <<call, connected, verdict, took, trouble, past>>

(* It answers with another code (421 also closes the connection), and the  *)
(* exception leaves the with block, which says QUIT.                       *)
Disagree ==
  /\ step \in Dialogue /\ ~took
  /\ verdict' = OfReply(step)
  /\ trouble' = trouble \cup (IF step = "rcpt" THEN {"refused"} ELSE {})
  /\ connected' \in BOOLEAN
  /\ step' = "quit" /\ onWire' = FALSE
  /\ UNCHANGED <<call, took, past>>

Accepted ==
  /\ step = "body" /\ took
  /\ verdict' = "sent" /\ step' = "quit" /\ onWire' = FALSE
  /\ UNCHANGED <<call, connected, took, trouble, past>>

(* SMTP.__exit__: a reply to QUIT other than 221 raises, in place of what  *)
(* was being raised or returned; no reply is ignored.                      *)
Quit ==
  /\ step = "quit"
  /\ step' = "over" /\ connected' = FALSE
  /\ \/ UNCHANGED <<verdict, trouble>>
     \/ connected /\ verdict' = "retry" /\ trouble' = trouble \cup {"quit"}
  /\ UNCHANGED <<call, onWire, took, past>>

(* requests.post.                                                          *)
Post ==
  /\ step = "post"
  /\ step' = "answer" /\ onWire' = TRUE
  /\ UNCHANGED <<call, connected, verdict, took, trouble, past>>

(* A redirect that requests follows with a GET (303, and 301 and 302, too):*)
(* what is answered next says nothing of the message, which the server has *)
(* taken or dropped. A 307 or 308 repeats the POST, to a server as free as *)
(* the one before, and is no step of its own.                              *)
Redirect ==
  /\ step = "answer" /\ onWire
  /\ onWire' = FALSE /\ trouble' = trouble \cup {"astray"}
  /\ UNCHANGED <<call, step, connected, verdict, took, past>>

(* The API answers: 2xx when it took the message, 4xx when it will not,    *)
(* while behind a 5xx of a gateway it may have taken it, or take it yet.   *)
(* Any other code, a 3xx without a location among them, is a success to    *)
(* response.ok and says nothing.                                           *)
Answer(s) ==
  /\ step = "answer"
  /\ onWire => /\ s \in 200 .. 299 => took
               /\ s \in 400 .. 499 => ~took
  /\ Leave(OfStatus(s))
  /\ onWire' = (onWire /\ s >= 500)
  /\ trouble' = trouble \cup TroubleOf(s)
  /\ UNCHANGED <<call, connected, took, past>>

(* No answer: connection refused (or greeted with another code than 220),  *)
(* lost, or not a byte for 15 (10) seconds.                                *)
SilencePatient ==           \* requests.post without a timeout
  /\ step \in Dialogue \cup {"connect", "post"}
  /\ verdict' = "retry" /\ connected' = FALSE
  /\ step' = IF step \in Dialogue THEN "quit" ELSE "over"
  /\ trouble' = trouble \cup (IF onWire THEN {"silence"} ELSE {})
  /\ UNCHANGED <<call, onWire, took, past>>
SilenceIsSuccess ==         \* the SMTPException is suppressed around send_message
  /\ step \in Dialogue \cup {"connect", "post", "answer"}
  /\ verdict' = IF step \in Dialogue THEN "sent" ELSE "retry"
  /\ connected' = FALSE
  /\ step' = IF step \in Dialogue THEN "quit" ELSE "over"
  /\ trouble' = trouble \cup (IF onWire THEN {"silence"} ELSE {})
  /\ UNCHANGED <<call, onWire, took, past>>
Silence ==
  /\ step \in Dialogue \cup {"connect", "post", "answer"}
  /\ verdict' = "retry" /\ connected' = FALSE
  /\ step' = IF step \in Dialogue THEN "quit" ELSE "over"
  /\ trouble' = trouble \cup (IF onWire THEN {"silence"} ELSE {})
  /\ UNCHANGED <<call, onWire, took, past>>

(* The server takes the message, that of this call or an earlier one.      *)
Take ==
  /\ \/ onWire /\ ~took /\ took' = TRUE /\ UNCHANGED adrift
     \/ adrift > 0 /\ adrift' = adrift - 1 /\ UNCHANGED took
  /\ delivered' = delivered + 1
  /\ UNCHANGED <<call, step, connected, verdict, onWire, trouble, doubts>>

(* The task retries, and calls the channel again.                          *)
CallAgain ==
  /\ step = "over" /\ verdict = "retry" /\ calls < MAX_RETRIES_PER_CHANNEL
  /\ calls' = calls + 1
  /\ step' = "start" /\ verdict' = "none"
  /\ onWire' = FALSE /\ took' = FALSE /\ trouble' = {}
  /\ adrift' = IF onWire /\ ~took THEN adrift + 1 ELSE adrift
  /\ doubts' = IF InDoubt THEN doubts + 1 ELSE doubts
  /\ UNCHANGED <<channel, recipient, connected, delivered>>

Next ==
  \/ Prepare \/ Connect \/ Agree \/ Disagree \/ Accepted \/ Quit
  \/ Post \/ Redirect \/ (\E s \in Statuses : Answer(s)) \/ Silence \/ Take \/ CallAgain

(* The client's own steps, its timeouts among them; no server is fair.     *)
Fairness ==
  /\ WF_vars(Prepare) /\ WF_vars(Post) /\ WF_vars(Silence) /\ WF_vars(Quit)
  /\ WF_vars(CallAgain)

Spec == Init /\ [][Next]_vars /\ Fairness

-----------------------------------------------------------------------------
(* README.md:585, a non-retryable failure moves to the next channel: the   *)
(* call that failed has not delivered and never will, so the fallback is a *)
(* second delivery only if an earlier call was repeated in doubt, or the   *)
(* refusal came from where a redirect led.                                 *)
FallbackIsFirst ==
  step = "over" /\ verdict = "final" => ~onWire /\ (took => "astray" \in trouble)

(* A success is booked for what the provider took, and for nothing else    *)
(* but an answer that is none: a code that is neither success nor error,   *)
(* or what a GET was told after a redirect. A silence, a lost connection,  *)
(* an outage, a rate limit or a refusal never is one.                      *)
SentWasTaken ==
  step = "over" /\ verdict = "sent" =>
    /\ took \/ "astray" \in trouble
    /\ trouble \subseteq {"astray"}
    /\ channel = "email" => took

(* However the answers are lost, late or wrong, the calls of a channel     *)
(* deliver the message once, and once more for each call that was repeated *)
(* after an answer that did not come, an outage, a redirect that led       *)
(* nowhere, or a reply to QUIT that undid its success.                     *)
DeliveriesBound == delivered + adrift <= doubts + (IF took THEN 1 ELSE 0)

(* Final is for an empty address and for a refusal by the server, and only *)
(* a bad reply to QUIT makes a refusal retried; an outage, a rate limit or *)
(* no answer at all never is the end of a channel.                         *)
FinalIsEarned ==
  step = "over" =>
    (verdict = "final" <=> \/ channel # "unknown" /\ recipient = "empty"
                           \/ "refused" \in trouble /\ "quit" \notin trouble)

(* The calls of a channel come to an end although no server ever answers.  *)
CallsEnd == <>[](step = "over")
=============================================================================
