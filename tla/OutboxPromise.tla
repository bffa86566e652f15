--------------------------- MODULE OutboxPromise ---------------------------
(***************************************************************************)
(* What the transactional outbox promises the rest of the service, with no *)
(* dispatcher, no lock and no retry in sight: a notification whose row is  *)
(* due gets a delivery message at least once, none before it is due and    *)
(* none after it is settled.                                               *)
(***************************************************************************)
EXTENDS Naturals

CONSTANT Rows               \* the outbox rows

VARIABLES due,              \* rows whose notification is to be delivered
          settled,          \* rows nobody needs to look at again
          messages          \* delivery messages the broker got, per row

vars == <<due, settled, messages>>

TypeOK == due \in SUBSET Rows /\ settled \in SUBSET Rows /\ messages \in [Rows -> Nat]

Init == due = {} /\ settled = {} /\ messages = [r \in Rows |-> 0]

Enqueue(r) ==
  /\ r \notin due \cup settled
  /\ due' = due \cup {r}
  /\ UNCHANGED <<settled, messages>>

Send(r) ==
  /\ r \in due
  /\ messages' = [messages EXCEPT ![r] = @ + 1]
  /\ UNCHANGED <<due, settled>>

Settle(r) ==
  /\ r \in due
  /\ messages[r] > 0
  /\ due' = due \ {r}
  /\ settled' = settled \cup {r}
  /\ UNCHANGED messages

Next == \E r \in Rows : Enqueue(r) \/ Send(r) \/ Settle(r)

Safety == Init /\ [][Next]_vars

Spec == /\ Safety
        /\ \A r \in Rows : WF_vars(Send(r)) /\ WF_vars(Settle(r))
=============================================================================
