------------------------------ MODULE ModelCall ------------------------------
(***************************************************************************)
(* What a model job promises the rest of the runtime, with no queue, no    *)
(* takes and no clock: a recorded job gets at most one answer, which is    *)
(* never replaced and is billed to the tenant at most once, in the step    *)
(* that gives it; the job is consumed only with that answer in hand, and   *)
(* an ended job stays as it ended.                                         *)
(***************************************************************************)
EXTENDS Naturals

CONSTANTS Jobs, Takers, None

VARIABLES
  status,  (* "absent", "out", "cancelled" or "consumed"                   *)
  reply,   (* None, or the attempt whose answer is the job's               *)
  bill     (* how many times the tenant was charged for the job            *)

callVars == <<status, reply, bill>>

CallInit ==
  /\ status = [j \in Jobs |-> "absent"]
  /\ reply = [j \in Jobs |-> None]
  /\ bill = [j \in Jobs |-> 0]

Record(j) ==
  /\ status[j] = "absent"
  /\ status' = [status EXCEPT ![j] = "out"]
  /\ UNCHANGED <<reply, bill>>

(* A cancelled job is still answered, and still billed. *)
Answer(j, t, paid) ==
  /\ status[j] # "absent"
  /\ reply[j] = None
  /\ reply' = [reply EXCEPT ![j] = t]
  /\ bill' = IF paid THEN [bill EXCEPT ![j] = 1] ELSE bill
  /\ UNCHANGED status

CancelCall(j) ==
  /\ status[j] = "out"
  /\ status' = [status EXCEPT ![j] = "cancelled"]
  /\ UNCHANGED <<reply, bill>>

ConsumeCall(j) ==
  /\ status[j] = "out"
  /\ reply[j] # None
  /\ status' = [status EXCEPT ![j] = "consumed"]
  /\ UNCHANGED <<reply, bill>>

CallNext ==
  \E j \in Jobs :
    \/ Record(j)
    \/ \E t \in Takers, paid \in BOOLEAN : Answer(j, t, paid)
    \/ CancelCall(j)
    \/ ConsumeCall(j)

CallSpec == CallInit /\ [][CallNext]_callVars
=============================================================================
