------------------------- MODULE MCTelegramWebhook -------------------------
(* Instances of TelegramWebhook for TLC: one update has a chat of its own, *)
(* the others share one; every update is a /start but those named for what *)
(* they are.                                                               *)
EXTENDS TelegramWebhook

CONSTANTS c1, c2, apart, chatter, unfit

MCChat == [u \in Updates |-> IF u = apart THEN c2 ELSE c1]

MCContent ==
  [u \in Updates |->
     CASE u = chatter -> "other" [] u = unfit -> "unfit" [] OTHER -> "start"]
=============================================================================
