----------------------- MODULE MCNotificationService -----------------------
(* An instance of NotificationService for TLC: one channel, whose provider *)
(* takes the message, and may raise though it did. To the task that is a   *)
(* provider it could not reach.                                            *)
EXTENDS NotificationService

CONSTANT email

MCScheduled  == [n \in Rows |-> 1]
MCPriorities == [n \in Rows |-> {<<email>>}]
MCOutcomes   == [c \in Channels |-> {"accepted", "late"}]
=============================================================================
