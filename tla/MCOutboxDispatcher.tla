------------------------- MODULE MCOutboxDispatcher -------------------------
(* An instance of OutboxDispatcher for TLC: a backlog that is longer than  *)
(* the batch, and a batch of more than one row. Of two rows of a batch the *)
(* younger one is dispatched at once as well. The rows are numbers, so     *)
(* only the dispatchers are model values.                                  *)
EXTENDS OutboxDispatcher

MCScheduled == [r \in Rows |-> IF r = 2 THEN 1 ELSE 0]
=============================================================================
