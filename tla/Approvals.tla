------------------------------ MODULE Approvals ------------------------------
(***************************************************************************)
(* Calls held for a person: the gateway's policy gate and its holds, the   *)
(* decision, the deadline, the one run of an approved call and the notice  *)
(* the agent is told (src/runtime/gateway.ts, src/store/durable-object.ts, *)
(* src/store/approvals-schema.ts, cf/src/runtime.ts #approvalPass and      *)
(* #tellApprovals, cf/src/index.ts uiDecide and provisionDecide).          *)
(*                                                                         *)
(* Ops are operations of one agent that ask for the same thing (equal      *)
(* heldKey): calls that differ share nothing but the policy. Two runners   *)
(* can run an approved call: the object's pass and a console request. The  *)
(* alarm is what AgentAlarm guarantees of it: a wake that was asked for, a *)
(* net under a pass, and the first deadline armed as a pass ends.          *)
(***************************************************************************)
EXTENDS Naturals

CONSTANTS
  Ops,         (* operation ids                                            *)
  None,        (* null                                                     *)
  Policies,    (* the policies the mount's owner sets                      *)
  TtlTicks,    (* the hold's time to live, approvalTtlMs                   *)
  GraceTicks,  (* NOTICE_GRACE_MS                                          *)
  RunTicks     (* the longest a call runs in one object's pass             *)

(* NOTICE_GRACE_MS is "longer than any call runs in one object's pass". *)
ASSUME ApprovalsAssumption ==
  /\ None \notin Ops \cup Nat
  /\ Policies \subseteq {"allow", "approval", "deny"}
  /\ TtlTicks \in Nat \ {0}
  /\ GraceTicks \in Nat /\ RunTicks \in Nat /\ RunTicks < GraceTicks

VARIABLES
  policy,   (* the mount's policy for the tool, the owner's to change      *)
  oper,     (* operations.status                                           *)
  call,     (* the call's way through #invoke: its verdict, then its end   *)
  hold,     (* approvals; `ttl' is what is left of it, `age' how long ago  *)
            (* its run was claimed (run_at)                                *)
  exec,     (* who is running which operation, in memory                   *)
  effects,  (* how often the operation took effect outside                 *)
  jobs,     (* background_jobs: work whose end is awaited                  *)
  pass,     (* where the object's pass is                                  *)
  todo,     (* the rows the pass has read and not handled, and as what     *)
  telling,  (* the notice claimed by told_at and not yet posted            *)
  posted,   (* notices in the conversation                                 *)
  woken,    (* a wake is armed for now                                     *)
  armed     (* the deadline armed by the last pass                         *)

passVars == <<pass, todo, telling>>
alarmVars == <<woken, armed>>
vars == <<policy, oper, call, hold, exec, effects, jobs, passVars, posted, alarmVars>>

-----------------------------------------------------------------------------

Runners == {"turn", "pass", "console"}

HoldState == {"none", "pending", "approved", "denied", "expired", "executed", "failed"}

(* What the end of a hold tells the agent: that nothing was run (denied,   *)
(* expired, notrun), that it ran (ran, background), that it ran and failed *)
(* (failed: it may have landed), or that it is not known (unknown).        *)
Notice == {"none", "denied", "expired", "notrun", "ran", "background", "failed", "unknown"}

Hold == [state : HoldState, ttl : 0..TtlTicks, age : 0..GraceTicks \cup {None},
         notice : Notice, told : BOOLEAN]

Row(state, ttl) == [state |-> state, ttl |-> ttl, age |-> None, notice |-> "none", told |-> FALSE]
NoHold == Row("none", 0)
NewHold == Row("pending", TtlTicks)

Exec == [pc : {"none", "claim", "invoke", "act", "acted"},
         result : {"none", "succeeded", "failed", "running", "rejected", "cancelled", "threw"}]

Entry(pc, result) == [pc |-> pc, result |-> result]
NoExec == Entry("none", "none")

TypeOK ==
  /\ policy \in Policies
  /\ oper \in [Ops -> {"none", "pending", "running", "succeeded", "failed", "rejected", "cancelled"}]
  /\ call \in [Ops -> {"none", "deny", "allow", "approval", "held", "merged", "lost"}]
  /\ hold \in [Ops -> Hold]
  /\ exec \in [Ops -> [Runners -> Exec]]
  /\ effects \in [Ops -> Nat]
  /\ jobs \subseteq Ops
  /\ pass \in {"none", "settle", "tell", "turn"}
  /\ todo \subseteq Ops \X {"run", "end", "tell"}
  /\ telling \in Ops \cup {None}
  /\ posted \in [Ops -> Nat]
  /\ woken \in BOOLEAN
  /\ armed \in 0..TtlTicks \cup {None}

Init ==
  /\ policy \in Policies
  /\ oper = [o \in Ops |-> "none"]
  /\ call = [o \in Ops |-> "none"]
  /\ hold = [o \in Ops |-> NoHold]
  /\ exec = [o \in Ops |-> [r \in Runners |-> NoExec]]
  /\ effects = [o \in Ops |-> 0]
  /\ jobs = {}
  /\ pass = "none" /\ todo = {} /\ telling = None
  /\ posted = [o \in Ops |-> 0]
  /\ woken = FALSE /\ armed = None

Pending == {o \in Ops : hold[o].state = "pending"}
Due == {o \in Pending : hold[o].ttl = 0}

-----------------------------------------------------------------------------
(* The agent's call *)

(* The owner changes the mount's policy. *)
SetPolicy(p) ==
  /\ policy' = p
  /\ UNCHANGED <<oper, call, hold, exec, effects, jobs, passVars, posted, alarmVars>>

(* #invoke: the operation is recorded and the policy asked; `confirm' adds *)
(* a person and lifts no refusal. A refused call ends `rejected'.          *)
Invoke(o, confirm) ==
  LET verdict == IF confirm /\ policy = "allow" THEN "approval" ELSE policy IN
  /\ pass = "turn"
  /\ call[o] = "none"
  /\ call' = [call EXCEPT ![o] = verdict]
  /\ oper' = [oper EXCEPT ![o] = IF verdict = "deny" THEN "rejected" ELSE "pending"]
  /\ exec' = IF verdict = "allow" THEN [exec EXCEPT ![o]["turn"] = Entry("invoke", "none")] ELSE exec
  /\ UNCHANGED <<policy, hold, effects, jobs, passVars, posted, alarmVars>>

(* Fault: an identical call is not looked for. *)
holdApprovalUnmerged(o) ==
  /\ call[o] = "approval"
  /\ call' = [call EXCEPT ![o] = "held"]
  /\ hold' = [hold EXCEPT ![o] = NewHold]
  /\ UNCHANGED <<policy, oper, exec, effects, jobs, passVars, posted, alarmVars>>

(* holdApproval, one transaction: an identical call still pending and not  *)
(* due is that call, and this operation is ended as merged into it.        *)
holdApproval(o) ==
  /\ call[o] = "approval"
  /\ IF Pending \ Due # {}
       THEN /\ call' = [call EXCEPT ![o] = "merged"]
            /\ oper' = [oper EXCEPT ![o] = "cancelled"]
            /\ UNCHANGED hold
       ELSE /\ call' = [call EXCEPT ![o] = "held"]
            /\ hold' = [hold EXCEPT ![o] = NewHold]
            /\ UNCHANGED oper
  /\ UNCHANGED <<policy, exec, effects, jobs, passVars, posted, alarmVars>>

-----------------------------------------------------------------------------
(* Deciding *)

(* Fault: a decided hold may be decided again. *)
decisionProblemUnsettled(o, decision) ==
  IF hold[o].state = "none" THEN "not_found"
  ELSE IF decision = "expired" THEN IF hold[o].ttl = 0 THEN "none" ELSE "not_due"
  ELSE IF hold[o].ttl = 0 THEN "expired" ELSE "none"

(* Why a decision may not land on the row now. *)
decisionProblem(o, decision) ==
  IF hold[o].state = "none" THEN "not_found"
  ELSE IF hold[o].state # "pending" THEN "already_decided"
  ELSE IF decision = "expired" THEN IF hold[o].ttl = 0 THEN "none" ELSE "not_due"
  ELSE IF hold[o].ttl = 0 THEN "expired" ELSE "none"

(* Holds after those of S are expired: the operation ends `rejected'. *)
Expired(S) ==
  LET E == {o \in S : decisionProblem(o, "expired") = "none"} IN
  /\ hold' = [o \in Ops |-> IF o \in E
               THEN [hold[o] EXCEPT !.state = "expired", !.notice = "expired"] ELSE hold[o]]
  /\ oper' = [o \in Ops |-> IF o \in E THEN "rejected" ELSE oper[o]]

(* applyApproval up to the run: decided once; a denial ends the operation  *)
(* and writes its notice; a decision past the deadline expires the hold.   *)
Apply(o, decision) ==
  LET problem == decisionProblem(o, decision) IN
  \/ /\ problem = "none"
     /\ hold' = [hold EXCEPT ![o].state = decision,
                             ![o].notice = IF decision = "denied" THEN "denied" ELSE @]
     /\ oper' = IF decision = "denied" THEN [oper EXCEPT ![o] = "cancelled"] ELSE oper
  \/ problem = "expired" /\ Expired({o})
  \/ problem \notin {"none", "expired"} /\ UNCHANGED <<hold, oper>>

(* provisionDecide: recorded, and a wake asked for whatever came of it. *)
DecideByProvider(o, decision) ==
  /\ hold[o].state # "none"
  /\ Apply(o, decision)
  /\ woken' = TRUE
  /\ UNCHANGED <<policy, call, exec, effects, jobs, passVars, posted, armed>>

(* uiDecide with nothing to run: a denial, or a decision that did not      *)
(* land. The wake follows.                                                 *)
DecideByConsole(o, decision) ==
  /\ hold[o].state # "none"
  /\ decision = "denied" \/ decisionProblem(o, decision) # "none"
  /\ Apply(o, decision)
  /\ woken' = TRUE
  /\ UNCHANGED <<policy, call, exec, effects, jobs, passVars, posted, armed>>

(* uiDecide, approved: the run is this request's own to claim next. *)
ApproveByConsole(o) ==
  /\ hold[o].state # "none"
  /\ decisionProblem(o, "approved") = "none"
  /\ Apply(o, "approved")
  /\ exec' = [exec EXCEPT ![o]["console"] = Entry("claim", "none")]
  /\ UNCHANGED <<policy, call, effects, jobs, passVars, posted, alarmVars>>

(* provisionApprovals: what is due expires before the list is read. *)
ListApprovals ==
  /\ Due # {}
  /\ Expired(Due)
  /\ woken' = TRUE
  /\ UNCHANGED <<policy, call, exec, effects, jobs, passVars, posted, armed>>

(* Fault: a run already claimed is claimed again. *)
claimApprovalRunTwice(o) == hold[o].state = "approved"

(* claimApprovalRun: an approved hold whose run nobody has claimed. *)
claimApprovalRun(o) == hold[o].state = "approved" /\ hold[o].age = None

(* runApproved of a console request: the run claimed, or left to the pass  *)
(* that listed the hold in between and claimed it first.                   *)
ClaimByConsole(o) ==
  /\ exec[o]["console"].pc = "claim"
  /\ IF claimApprovalRun(o)
       THEN /\ hold' = [hold EXCEPT ![o].age = 0]
            /\ exec' = [exec EXCEPT ![o]["console"] = Entry("invoke", "none")]
            /\ UNCHANGED woken
       ELSE /\ exec' = [exec EXCEPT ![o]["console"] = NoExec]
            /\ woken' = TRUE
            /\ UNCHANGED hold
  /\ UNCHANGED <<policy, oper, call, effects, jobs, passVars, posted, armed>>

-----------------------------------------------------------------------------
(* Running a call: the agent's own, or an approved one *)

(* The end of #invoke, up to startOperation. An approval lifts the hold    *)
(* and never a refusal: the policy is read as it is now, and a mount gone, *)
(* switched off or moved on refuses as well. A tool only a model may read  *)
(* is not run for an approval. A credential that cannot be resolved        *)
(* throws. An operation starts from pending or rejected only.              *)
StartRun(o, r) ==
  /\ exec[o][r].pc = "invoke"
  /\ \/ /\ r # "turn"
        /\ oper' = [oper EXCEPT ![o] = "rejected"]
        /\ exec' = [exec EXCEPT ![o][r] = Entry("acted", "rejected")]
     \/ /\ r # "turn"
        /\ exec' = [exec EXCEPT ![o][r] = Entry("acted", "cancelled")]
        /\ UNCHANGED oper
     \/ /\ r # "turn" => policy # "deny"
        /\ exec' = [exec EXCEPT ![o][r] = Entry("acted", "threw")]
        /\ UNCHANGED oper
     \/ /\ r # "turn" => policy # "deny"
        /\ LET starts == oper[o] \in {"pending", "rejected"} IN
             /\ oper' = [oper EXCEPT ![o] = IF starts THEN "running" ELSE @]
             /\ exec' = [exec EXCEPT ![o][r] = IF starts
                          THEN Entry("act", "none")
                          ELSE Entry("acted", "failed")]
  /\ UNCHANGED <<policy, call, hold, effects, jobs, passVars, posted, alarmVars>>

(* The plugin acts: it succeeds, goes on in the background, fails with or  *)
(* without having landed, or asks a question and has done nothing. An      *)
(* approved call's question is answered once for it, within this step.     *)
Act(o, r) ==
  /\ exec[o][r].pc = "act"
  /\ \E result \in {"succeeded", "running", "failed", "cancelled"}, landed \in {0, 1} :
       /\ result \in {"succeeded", "running"} => landed = 1
       /\ result = "cancelled" => landed = 0
       /\ effects' = [effects EXCEPT ![o] = @ + landed]
       /\ exec' = [exec EXCEPT ![o][r] = Entry("acted", result)]
  /\ UNCHANGED <<policy, oper, call, hold, jobs, passVars, posted, alarmVars>>

(* Fault: a call that threw is written with the status of its answer. *)
DispatchThrown(o) ==
  LET result == exec[o]["turn"].result IN
  /\ exec[o]["turn"].pc = "acted"
  /\ oper' = [oper EXCEPT ![o] = result]
  /\ jobs' = IF result = "running" THEN jobs \cup {o} ELSE jobs
  /\ exec' = [exec EXCEPT ![o]["turn"] = NoExec]
  /\ UNCHANGED <<policy, call, hold, effects, passVars, posted, alarmVars>>

(* The agent's own call returns to dispatch, which awaits the end of what  *)
(* went to the background.                                                 *)
Dispatch(o) ==
  LET result == exec[o]["turn"].result IN
  /\ exec[o]["turn"].pc = "acted"
  /\ oper' = [oper EXCEPT ![o] = IF result = "threw" THEN @
                                 ELSE IF result = "cancelled" THEN "succeeded" ELSE result]
  /\ jobs' = IF result = "running" THEN jobs \cup {o} ELSE jobs
  /\ exec' = [exec EXCEPT ![o]["turn"] = NoExec]
  /\ UNCHANGED <<policy, call, hold, effects, passVars, posted, alarmVars>>

(* approvalOutcome and approvedNotice. *)
Outcome(result) ==
  CASE result = "succeeded" -> [state |-> "executed", notice |-> "ran"]
    [] result = "running"   -> [state |-> "executed", notice |-> "background"]
    [] result \in {"rejected", "cancelled"} -> [state |-> "failed", notice |-> "notrun"]
    [] OTHER -> [state |-> "failed", notice |-> "failed"]

(* finishApproval: only an approved hold is ended. *)
finishApproval(o, state, notice) ==
  IF hold[o].state = "approved"
    THEN [hold EXCEPT ![o].state = state, ![o].notice = notice] ELSE hold

(* The end of #runApproved and runApproved: the operation is completed     *)
(* (one that runs on is written `failed'; a throw skips this), the hold    *)
(* ended with its notice. The console wakes the object only now.           *)
FinishRun(o, r) ==
  LET result == exec[o][r].result
      out    == Outcome(result)
  IN
  /\ r # "turn"
  /\ exec[o][r].pc = "acted"
  /\ oper' = [oper EXCEPT ![o] = IF result = "threw" THEN @
                                 ELSE IF result = "running" THEN "failed" ELSE result]
  /\ hold' = finishApproval(o, out.state, out.notice)
  /\ exec' = [exec EXCEPT ![o][r] = NoExec]
  /\ woken' = (woken \/ r = "console")
  /\ UNCHANGED <<policy, call, effects, jobs, passVars, posted, armed>>

-----------------------------------------------------------------------------
(* The object's pass *)

Running(r) == \E o \in Ops : exec[o][r].pc # "none"

(* Anything else that wakes the object: a message, a reminder, a job. *)
Wake ==
  /\ woken' = TRUE
  /\ UNCHANGED <<policy, oper, call, hold, exec, effects, jobs, passVars, posted, armed>>

(* The alarm fires. #approvalPass: what is due expires, and settleApproved *)
(* lists the approved holds: one not claimed is to be run, one claimed     *)
(* NOTICE_GRACE_MS ago is to be ended, one claimed since is left alone.    *)
PassBegins ==
  /\ pass = "none"
  /\ woken \/ armed = 0
  /\ woken' = FALSE /\ armed' = None
  /\ Expired(Due)
  /\ pass' = "settle"
  /\ todo' = LET approved == {o \in Ops : hold[o].state = "approved"} IN
               {<<o, "run">> : o \in {p \in approved : hold[p].age = None}}
                 \cup {<<o, "end">> : o \in {p \in approved : hold[p].age = GraceTicks}}
  /\ UNCHANGED <<policy, call, exec, effects, jobs, telling, posted>>

(* settleApproved, a hold listed as not claimed: the pass claims its run,  *)
(* or finds it claimed by now and goes on.                                 *)
SettleRun(o) ==
  /\ <<o, "run">> \in todo
  /\ ~Running("pass")
  /\ todo' = todo \ {<<o, "run">>}
  /\ IF claimApprovalRun(o)
       THEN /\ hold' = [hold EXCEPT ![o].age = 0]
            /\ exec' = [exec EXCEPT ![o]["pass"] = Entry("invoke", "none")]
       ELSE UNCHANGED <<hold, exec>>
  /\ UNCHANGED <<policy, oper, call, effects, jobs, pass, telling, posted, alarmVars>>

(* settleApproved, a run whose end was never recorded: ended, not re-run. *)
SettleStale(o) ==
  /\ <<o, "end">> \in todo
  /\ ~Running("pass")
  /\ todo' = todo \ {<<o, "end">>}
  /\ hold' = finishApproval(o, "failed", "unknown")
  /\ UNCHANGED <<policy, oper, call, exec, effects, jobs, pass, telling, posted, alarmVars>>

FinalStates == {"denied", "expired", "executed", "failed"}

(* #tellApprovals begins: untoldApprovals lists what the agent has not     *)
(* been told of.                                                           *)
TellBegins ==
  /\ pass = "settle" /\ todo = {} /\ ~Running("pass")
  /\ pass' = "tell"
  /\ todo' = {<<o, "tell">> : o \in {p \in Ops : hold[p].state \in FinalStates /\ ~hold[p].told}}
  /\ UNCHANGED <<policy, oper, call, hold, exec, effects, jobs, telling, posted, alarmVars>>

(* Fault: the row is not marked before the notice is posted. *)
TellClaimUnmarked(o) ==
  /\ <<o, "tell">> \in todo /\ telling = None
  /\ todo' = todo \ {<<o, "tell">>}
  /\ telling' = o
  /\ UNCHANGED <<policy, oper, call, hold, exec, effects, jobs, pass, posted, alarmVars>>

(* The post's `unless': told_at is taken at the last moment before the     *)
(* engine writes the notice, unless another took it.                       *)
TellClaim(o) ==
  /\ <<o, "tell">> \in todo /\ telling = None
  /\ todo' = todo \ {<<o, "tell">>}
  /\ telling' = IF hold[o].told THEN None ELSE o
  /\ hold' = [hold EXCEPT ![o].told = TRUE]
  /\ UNCHANGED <<policy, oper, call, exec, effects, jobs, pass, posted, alarmVars>>

TellLands ==
  /\ telling # None
  /\ posted' = [posted EXCEPT ![telling] = @ + 1]
  /\ telling' = None
  /\ UNCHANGED <<policy, oper, call, hold, exec, effects, jobs, pass, todo, alarmVars>>

(* The post was refused or threw: told_at is cleared for the next pass. *)
TellFails ==
  /\ telling # None
  /\ hold' = [hold EXCEPT ![telling].told = FALSE]
  /\ telling' = None
  /\ UNCHANGED <<policy, oper, call, exec, effects, jobs, pass, todo, posted, alarmVars>>

(* #approvalPass is over: the pass goes on to the conversation's turn. *)
TurnBegins ==
  /\ pass = "tell" /\ todo = {} /\ telling = None
  /\ pass' = "turn"
  /\ UNCHANGED <<policy, oper, call, hold, exec, effects, jobs, todo, telling, posted, alarmVars>>

(* #approvalPass threw: its rows wait for the next pass, and this one goes *)
(* on to the turn.                                                         *)
PassThrows ==
  /\ pass \in {"settle", "tell"} /\ ~Running("pass") /\ telling = None
  /\ pass' = "turn"
  /\ todo' = {}
  /\ UNCHANGED <<policy, oper, call, hold, exec, effects, jobs, telling, posted, alarmVars>>

(* Fault: a deadline that has passed by now is not counted. *)
approvalDeadlineAhead ==
  IF Pending \ Due = {} THEN None
  ELSE CHOOSE t \in 0..TtlTicks : \E o \in Pending \ Due : hold[o].ttl = t

(* approvalDeadline: the soonest deadline of a pending hold. *)
approvalDeadline ==
  IF Pending = {} THEN None
  ELSE CHOOSE t \in 0..TtlTicks :
         /\ \E o \in Pending : hold[o].ttl = t
         /\ \A o \in Pending : hold[o].ttl >= t

(* The pass ends: a call in flight has it come back, and the deadline is   *)
(* armed.                                                                  *)
PassEnds ==
  /\ pass = "turn"
  /\ pass' = "none"
  /\ woken' = (woken \/ Running("turn") \/ \E o \in Ops : call[o] = "approval")
  /\ armed' = approvalDeadline
  /\ UNCHANGED <<policy, oper, call, hold, exec, effects, jobs, todo, telling, posted>>

(* The object stops: what it was doing is lost. A pass that was under way  *)
(* has the alarm that was armed under it (AgentAlarm, SafetyNet). A        *)
(* decision and its claim are writes with no I/O between: both are kept.   *)
Evict ==
  /\ \A o \in Ops : exec[o]["console"].pc # "claim"
  /\ exec' = [o \in Ops |-> [r \in Runners |-> NoExec]]
  /\ call' = [o \in Ops |-> IF call[o] = "approval" THEN "lost" ELSE call[o]]
  /\ pass' = "none" /\ todo' = {} /\ telling' = None
  /\ woken' = (woken \/ pass # "none")
  /\ UNCHANGED <<policy, oper, hold, effects, jobs, posted, armed>>

(* Time passes; no run outlives RunTicks in one object. *)
Tick ==
  /\ \A o \in Ops, r \in {"pass", "console"} :
       exec[o][r].pc # "none" => hold[o].age # None /\ hold[o].age < RunTicks
  /\ hold' = [o \in Ops |->
               [hold[o] EXCEPT !.ttl = IF hold[o].state = "pending" /\ @ > 0 THEN @ - 1 ELSE @,
                               !.age = IF @ # None /\ @ < GraceTicks THEN @ + 1 ELSE @]]
  /\ armed' = IF armed # None /\ armed > 0 THEN armed - 1 ELSE armed
  /\ UNCHANGED <<policy, oper, call, exec, effects, jobs, passVars, posted, woken>>

-----------------------------------------------------------------------------

Next ==
  \/ \E p \in Policies : SetPolicy(p)
  \/ \E o \in Ops, confirm \in BOOLEAN : Invoke(o, confirm)
  \/ \E o \in Ops, d \in {"approved", "denied"} : DecideByProvider(o, d) \/ DecideByConsole(o, d)
  \/ \E o \in Ops : \/ holdApproval(o) \/ ApproveByConsole(o) \/ ClaimByConsole(o) \/ Dispatch(o)
                    \/ SettleRun(o) \/ SettleStale(o) \/ TellClaim(o)
  \/ \E o \in Ops, r \in Runners : StartRun(o, r) \/ Act(o, r) \/ FinishRun(o, r)
  \/ ListApprovals \/ Wake \/ PassBegins \/ TellBegins \/ TellLands \/ TellFails
  \/ TurnBegins \/ PassThrows \/ PassEnds \/ Evict \/ Tick

Spec == Init /\ [][Next]_vars

(* Time passes, an armed alarm fires, and what an object runs goes on      *)
(* until the object stops. Nothing is assumed of people or of other wakes. *)
Fairness ==
  /\ WF_vars(Tick) /\ WF_vars(PassBegins) /\ WF_vars(PassEnds)
  /\ WF_vars(TellBegins \/ TurnBegins)
  /\ WF_vars(TellLands \/ TellFails)
  /\ \A o \in Ops :
       /\ WF_vars(SettleRun(o) \/ SettleStale(o) \/ TellClaim(o))
       /\ WF_vars(holdApproval(o) \/ Dispatch(o)) /\ WF_vars(ClaimByConsole(o))
       /\ \A r \in Runners : WF_vars(StartRun(o, r) \/ Act(o, r) \/ FinishRun(o, r))

FairSpec == Spec /\ Fairness

-----------------------------------------------------------------------------
(* Properties *)

(* Two cards that could both be approved for one intent would run it       *)
(* twice: of identical calls at most one is pending and can be decided.    *)
OneCard == \A o, p \in Pending \ Due : o = p

(* What the agent was told of a held call is true and stays true: of one   *)
(* denied, expired or not run nothing took effect and nobody runs it (a    *)
(* request may still be about to ask for the run); one that ran took       *)
(* effect once.                                                            *)
NoticeTrue ==
  \A o \in Ops :
    /\ hold[o].notice \in {"denied", "expired", "notrun"} =>
         effects[o] = 0 /\ \A r \in Runners : exec[o][r].pc \in {"none", "claim"}
    /\ hold[o].notice \in {"ran", "background"} => effects[o] = 1

(* The end of a hold is posted to the conversation at most once, however   *)
(* posts fail, passes repeat and objects stop.                             *)
ToldOnce == \A o \in Ops : posted[o] <= 1

(* The stage of HeldCall that a call is at. *)
Stage(o) ==
  IF call[o] = "allow" THEN "direct"
  ELSE CASE hold[o].state = "none" -> "none"
         [] hold[o].state = "pending" -> "waiting"
         [] hold[o].state = "approved" -> "granted"
         [] hold[o].state \in {"denied", "expired"} -> "refused"
         [] hold[o].state = "executed" -> "ran"
         [] hold[o].state = "failed" -> IF hold[o].notice = "notrun" THEN "notrun" ELSE "unclear"

stageBar == [o \in Ops |-> Stage(o)]

HC == INSTANCE HeldCall WITH stage <- stageBar, done <- effects

(* The gate implements HeldCall: a held call takes effect at most once,    *)
(* only after a person approved it and before its end is written, a        *)
(* refusal is for good, and what the end says is what happened.            *)
ImplementsHeldCall == HC!CallSpec

(* A held call does not wait for ever: without a decision the deadline     *)
(* ends it, across stand-downs and evictions, with no other wake.          *)
PendingEnds == \A o \in Ops : hold[o].state = "pending" ~> hold[o].state # "pending"

(* docs/raft-approvals.md, what happens when the object stops while an     *)
(* approved call runs: fifteen minutes after it was claimed the hold ends. *)
(* Asked of an object that stops, and whose pass throws, only so often.    *)
RunEnds ==
  <>[][~Evict /\ (PassThrows => TurnBegins)]_vars =>
    \A o \in Ops : (hold[o].state = "approved" /\ hold[o].age # None) ~> hold[o].state # "approved"

(* docs/raft-approvals.md, of a run that went to the background: "its      *)
(* result arrives in the job's own notice", so a job awaits its end.       *)
BackgroundTracked == \A o \in Ops : hold[o].notice = "background" => o \in jobs
=============================================================================
