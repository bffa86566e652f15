----------------------------- MODULE MCProducer -----------------------------
(* Instances of Producer for TLC: three requests with one key between      *)
(* them, one without, and a clone.                                         *)
EXTENDS Producer

CONSTANTS k, anonymous

MCKey == [p \in All |-> IF p \in Clones \cup {anonymous} THEN NoKey ELSE k]
=============================================================================
