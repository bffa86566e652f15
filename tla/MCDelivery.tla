----------------------------- MODULE MCDelivery -----------------------------
(* Instances of Delivery for TLC: a user with an email address and a phone *)
(* whose channel_priority an operator may swap between two executions.     *)
EXTENDS Delivery

CONSTANTS email, sms

EitherOrder == {<<email, sms>>, <<sms, email>>}

MCPriorities  == [n \in Notifications |-> EitherOrder]
FixedPriority == [n \in Notifications |-> {<<email, sms>>}]
AnyOutcome    == [c \in Channels |-> Outcome]

(* A user without an email address (ProviderError "missing_email") and an  *)
(* SMS gateway that may be unreachable.                                    *)
RefusedThenAny == [c \in Channels |-> IF c = email THEN {"permanent"} ELSE Outcome]

=============================================================================
