---------------------------- MODULE MCAgentAlarm ----------------------------
(* A small instance of AgentAlarm, with a time past the one before it for  *)
(* each that the alarm may be left at: a net due at once, an inbound retry *)
(* one tick off, an import hold of two; one stand-down retry, one failure  *)
(* before the net stays down.                                              *)
EXTENDS AgentAlarm

MCRetryTicks == [n \in 0..RetryLimit |-> n + 1]
=============================================================================
