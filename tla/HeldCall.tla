------------------------------ MODULE HeldCall ------------------------------
(***************************************************************************)
(* What the approval gate promises of a call: one that needs a person's    *)
(* approval takes effect at most once, only between the approval and the   *)
(* end the agent is told of, and what the agent is told is true.           *)
(***************************************************************************)
EXTENDS Naturals

CONSTANT Ops

VARIABLES
  stage,  (* none; direct, let through by the policy; waiting; granted;    *)
          (* refused, by a person or by its deadline; and, of a granted    *)
          (* call, ran, notrun or unclear: what its end says of it         *)
  done    (* how often the call took effect                                *)

callVars == <<stage, done>>

CallInit ==
  /\ stage = [o \in Ops |-> "none"]
  /\ done = [o \in Ops |-> 0]

(* The policy holds the call for a person, or lets it through. *)
Ask(o) ==
  /\ stage[o] = "none"
  /\ \E s \in {"waiting", "direct"} : stage' = [stage EXCEPT ![o] = s]
  /\ UNCHANGED done

Grant(o) ==
  /\ stage[o] = "waiting"
  /\ stage' = [stage EXCEPT ![o] = "granted"]
  /\ UNCHANGED done

(* Denied, or expired with others due at the same time. *)
Refuse(S) ==
  /\ \A o \in S : stage[o] = "waiting"
  /\ stage' = [o \in Ops |-> IF o \in S THEN "refused" ELSE stage[o]]
  /\ UNCHANGED done

(* The one effect of a call. *)
Perform(o) ==
  /\ stage[o] \in {"granted", "direct"}
  /\ done[o] = 0
  /\ done' = [done EXCEPT ![o] = 1]
  /\ UNCHANGED stage

(* A granted call ends; nothing it says is contradicted later. *)
End(o, s) ==
  /\ stage[o] = "granted"
  /\ \/ s = "ran" /\ done[o] = 1
     \/ s = "notrun" /\ done[o] = 0
     \/ s = "unclear"
  /\ stage' = [stage EXCEPT ![o] = s]
  /\ UNCHANGED done

CallNext ==
  \/ \E S \in SUBSET Ops : Refuse(S)
  \/ \E o \in Ops : Ask(o) \/ Grant(o) \/ Perform(o)
  \/ \E o \in Ops, s \in {"ran", "notrun", "unclear"} : End(o, s)

CallSpec == CallInit /\ [][CallNext]_callVars
=============================================================================
