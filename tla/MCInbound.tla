----------------------------- MODULE MCInbound -----------------------------
(* Small instances of Inbound: every retry waits one tick. *)
EXTENDS Inbound

MCRetryTicks == [n \in 0..PostAttempts - 1 |-> 1]
=============================================================================
