------------------------------ MODULE Metrics ------------------------------
(***************************************************************************)
(* update_outbox_metrics of metrics.py, as a scrape of /metrics runs it:   *)
(* one query per status and one for the oldest waiting row, in autocommit, *)
(* while the dispatchers move the rows. The gauges live in the process     *)
(* that is scraped and nobody else is in it until they are rendered.       *)
(* Rows are numbered in the order of created_at.                           *)
(***************************************************************************)
EXTENDS Integers, Sequences

CONSTANT Rows

VARIABLES
  outbox,                   \* NotificationOutbox.status
  asked,                    \* how many queries the scrape has made
  counted,                  \* the waiting rows they counted, for the gauges
  oldest,                   \* the row the age gauge is about; 0: none
  backlog                   \* rows that waited when the scrape began

Waiting == {r \in Rows : outbox[r] \in {"pending", "failed"}}

(* NotificationOutboxStatus.values.                                        *)
ValuesFailedFirst == <<"failed", "published", "pending">>
Values == <<"pending", "published", "failed">>

TypeOK ==
  /\ asked \in 0 .. 4
  /\ counted \in [{"pending", "failed"} -> SUBSET Rows]
  /\ oldest \in Rows \cup {0}
  /\ backlog \in SUBSET Rows

Unasked == [s \in {"pending", "failed"} |-> {}]

Init == asked = 0 /\ counted = Unasked /\ oldest = 0 /\ backlog = {}

(* The scrape begins with its first query. How many rows are published     *)
(* nobody has to act on, and is not remembered.                            *)
CountRows ==
  /\ asked < 3
  /\ counted' = [s \in DOMAIN counted |-> IF s = Values[asked + 1]
                                          THEN {r \in Rows : outbox[r] = s}
                                          ELSE counted[s]]
  /\ backlog' = IF asked = 0 THEN Waiting ELSE backlog
  /\ asked' = asked + 1
  /\ UNCHANGED <<outbox, oldest>>

FindOldest ==
  /\ asked = 3
  /\ oldest' = IF Waiting = {} THEN 0
               ELSE CHOOSE r \in Waiting : \A q \in Waiting : r <= q
  /\ asked' = 4
  /\ UNCHANGED <<outbox, counted, backlog>>

(* The gauges are rendered, and the next scrape will set them all again.   *)
Render ==
  /\ asked = 4
  /\ asked' = 0 /\ counted' = Unasked /\ oldest' = 0 /\ backlog' = {}
  /\ UNCHANGED outbox

Scrape == CountRows \/ FindOldest \/ Render

(* A row that waited when the scrape began, and still waits, is in a gauge *)
(* of waiting rows, and the age gauge is about no younger one: no publish  *)
(* that fails between two queries hides a row from the operator.           *)
BacklogIsSeen ==
  asked = 4 => \A r \in backlog \cap Waiting :
    r \in counted["pending"] \cup counted["failed"] /\ oldest \in 1 .. r
=============================================================================
