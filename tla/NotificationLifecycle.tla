----------------------- MODULE NotificationLifecycle -----------------------
(***************************************************************************)
(* What a client that polls a notification may see of its status, with no  *)
(* worker, queue or retry in sight: queued, processing, then one outcome   *)
(* for good, as long as the notification is sent to the workers once; and  *)
(* after a duplicate anything but queued again.                            *)
(***************************************************************************)
CONSTANT Notifications

VARIABLES status,           \* what the API shows
          unique            \* notifications that were sent at most once

vars == <<status, unique>>

Init ==
  /\ status = [n \in Notifications |-> "queued"]
  /\ unique = Notifications

Become(n, s) == status' = [status EXCEPT ![n] = s] /\ UNCHANGED unique

Begin(n)  == status[n] = "queued" /\ Become(n, "processing")
Finish(n) == status[n] = "processing" /\ \E s \in {"sent", "failed"} : Become(n, s)

Duplicate(n) ==
  /\ unique' = unique \ {n}
  /\ UNCHANGED status

Muddle(n) ==
  /\ n \notin unique
  /\ \E s \in {"processing", "sent", "failed"} : Become(n, s)

Next == \E n \in Notifications : Begin(n) \/ Finish(n) \/ Duplicate(n) \/ Muddle(n)

Spec == Init /\ [][Next]_vars
=============================================================================
