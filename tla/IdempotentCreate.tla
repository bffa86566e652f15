-------------------------- MODULE IdempotentCreate --------------------------
(***************************************************************************)
(* What enqueue_notification promises its callers, without transactions,   *)
(* unique indexes or retries of a query: a notification and its job come   *)
(* into being at once, one for all the requests that share a key, and      *)
(* whoever is answered is given it.                                        *)
(***************************************************************************)
EXTENDS Naturals

CONSTANTS Requests, Key, NoKey, NoAnswer

VARIABLES
  created,    \* the requests whose notification exists
  jobs,       \* those whose outbox row exists
  given,      \* what each request was answered with
  sent        \* dispatch messages sent for each

vars == <<created, jobs, given, sent>>

Same(p, q) == p = q \/ (Key[p] # NoKey /\ Key[p] = Key[q])

Init ==
  /\ created = {} /\ jobs = {}
  /\ given = [p \in Requests |-> NoAnswer]
  /\ sent = [p \in Requests |-> 0]

Create(p) ==
  /\ \A q \in created : ~Same(p, q)
  /\ created' = created \cup {p}
  /\ jobs' = jobs \cup {p}
  /\ UNCHANGED <<given, sent>>

(* The creator of a notification may have it dispatched at once as well.   *)
Answer(p, q) ==
  /\ given[p] = NoAnswer
  /\ q \in created /\ Same(p, q)
  /\ given' = [given EXCEPT ![p] = q]
  /\ sent' = sent \/ (p = q /\ sent' = [sent EXCEPT ![p] = @ + 1])
  /\ UNCHANGED <<created, jobs>>

Next == \E p \in Requests : Create(p) \/ \E q \in Requests : Answer(p, q)

Spec == Init /\ [][Next]_vars
=============================================================================
