-------------------------------- MODULE Push --------------------------------
(***************************************************************************)
(* What a hook promises for a push it answered with 202: the agent reads   *)
(* it at most once, it is recorded as delivered only if it was read, and   *)
(* its key is not taken again before its record is forgotten. No queue, no *)
(* pass, no time: Inbound implements this.                                 *)
(***************************************************************************)
CONSTANT Keys

VARIABLE stage

PushInit == stage = [k \in Keys |-> "none"]

Open == {"accepted", "read"}
Ends == {"wake", "delivered", "failed", "unclear", "none"}

Becomes(k, from, to) ==
  /\ stage[k] = from
  /\ stage' = [stage EXCEPT ![k] = to]

Accept(k) == Becomes(k, "none", "accepted") \/ Becomes(k, "none", "wake")

Read(k) == Becomes(k, "accepted", "read")

Deliver(k) == Becomes(k, "read", "delivered")

(* Given up, or left to a mount that is gone; several may be, at once. A   *)
(* record already past its window holds nothing.                           *)
Close(S) ==
  /\ \A k \in S : stage[k] \in Open
  /\ \E to \in [S -> {"failed", "unclear", "none"}] :
       stage' = [k \in Keys |-> IF k \in S THEN to[k] ELSE stage[k]]

(* Records past the window are forgotten. *)
Forget(S) ==
  /\ \A k \in S : stage[k] \in Ends
  /\ stage' = [k \in Keys |-> IF k \in S THEN "none" ELSE stage[k]]

PushNext ==
  \/ \E k \in Keys : Accept(k) \/ Read(k) \/ Deliver(k)
  \/ \E S \in SUBSET Keys : Close(S) \/ Forget(S)

PushSpec == PushInit /\ [][PushNext]_stage
=============================================================================
