-------------------------- MODULE ApprovalsProofs --------------------------
(***************************************************************************)
(* That an approved call runs at most once and that its notice is true,    *)
(* for any operations, deadlines and grace. The inductive invariant ties   *)
(* each operation's four records together: its way through the gate, its   *)
(* hold, who runs it, and how often it took effect.                        *)
(*                                                                         *)
(* From it also: that a decision is final, that a pending hold has its     *)
(* alarm, and, as long as no pass throws, that an approved call and an end *)
(* not told are awaited.                                                   *)
(***************************************************************************)
EXTENDS Approvals, WellFoundedInduction, TLAPS

(* The operation is being run: its plugin acts, is about to, or has. *)
Acting(o, r) == exec[o][r].pc \in {"invoke", "act", "acted"}

(* Only a held call has a hold and is run for an approval, only one let    *)
(* through is run in its turn.                                             *)
CallInv(o) ==
  /\ call[o] # "held" => hold[o] = NoHold
  /\ call[o] = "held" => hold[o].state # "none"
  /\ exec[o]["turn"].pc # "none" => call[o] = "allow"
  /\ exec[o]["pass"].pc # "none" => call[o] = "held"
  /\ exec[o]["console"].pc # "none" => call[o] = "held"

(* An approved call is run by one runner, after its claim and before the   *)
(* grace is over; what a runner has still to do has not been done.         *)
RunInv(o) ==
  /\ effects[o] <= 1
  /\ \A r \in Runners :
       /\ Acting(o, r) /\ r # "turn" =>
            hold[o].state = "approved" /\ hold[o].age # None /\ hold[o].age <= RunTicks
       /\ exec[o][r].pc \in {"invoke", "act"} => effects[o] = 0
       /\ exec[o][r].pc = "acted" =>
            /\ exec[o][r].result \in {"succeeded", "running"} => effects[o] = 1
            /\ exec[o][r].result \in {"rejected", "cancelled"} => effects[o] = 0
            /\ exec[o][r].result # "none"
  /\ ~(Acting(o, "pass") /\ Acting(o, "console"))

(* What a hold's state says of its claim, its notice and its effect. *)
HoldInv(o) ==
  /\ call[o] # "allow" /\ hold[o].age = None => effects[o] = 0
  /\ hold[o].state \in {"none", "pending", "approved"} => hold[o].notice = "none"
  /\ hold[o].state \in {"pending", "denied", "expired"} => hold[o].age = None
  /\ hold[o].state \in {"denied", "expired"} => hold[o].notice = hold[o].state
  /\ hold[o].state = "executed" => hold[o].notice \in {"ran", "background"} /\ effects[o] = 1
  /\ hold[o].state = "failed" => /\ hold[o].notice \in {"notrun", "failed", "unknown"}
                                 /\ hold[o].notice = "notrun" => effects[o] = 0

(* told_at is set before the notice is in the conversation. *)
ToldInv(o) ==
  /\ posted[o] <= 1
  /\ ~hold[o].told => posted[o] = 0 /\ telling # o
  /\ telling = o => posted[o] = 0

(* A run listed to be ended was claimed the whole grace ago. *)
TodoInv(o) == <<o, "end">> \in todo => hold[o].age = GraceTicks

OpInv(o) == CallInv(o) /\ RunInv(o) /\ HoldInv(o) /\ ToldInv(o) /\ TodoInv(o)

(* Only the end of a held call is told. *)
TellInv ==
  /\ \A o \in Ops : <<o, "tell">> \in todo => call[o] = "held"
  /\ telling # None => call[telling] = "held"

CoreInv == TypeOK /\ OneCard /\ \A o \in Ops : OpInv(o)

IndInv == CoreInv /\ TellInv

-----------------------------------------------------------------------------
(* Updates of the two tables *)

(* One runner's entry is replaced. *)
LEMMA ExecSet ==
  ASSUME exec \in [Ops -> [Runners -> Exec]], NEW o \in Ops, NEW r \in Runners, NEW x \in Exec
  PROVE  LET e == [exec EXCEPT ![o][r] = x] IN
         /\ e \in [Ops -> [Runners -> Exec]]
         /\ \A p \in Ops, q \in Runners : e[p][q] = IF p = o /\ q = r THEN x ELSE exec[p][q]
OBVIOUS

(* What the prover needs of the entries of the two tables. *)
LEMMA Fields ==
  ASSUME TypeOK, NEW o \in Ops
  PROVE  /\ hold[o].state \in HoldState /\ hold[o].ttl \in 0..TtlTicks
         /\ hold[o].age \in 0..GraceTicks \cup {None}
         /\ hold[o].notice \in Notice /\ hold[o].told \in BOOLEAN
         /\ \A r \in Runners : exec[o][r] \in Exec
         /\ NoHold \in Hold /\ NoExec \in Exec
BY ApprovalsAssumption DEF TypeOK, Hold, HoldState, Notice, Exec, NoHold, Row, NoExec, Entry

-----------------------------------------------------------------------------
(* The invariant of an operation a step does not touch *)

(* Nothing of the operation changed but, at most, what the pass is to do   *)
(* with others.                                                            *)
LEMMA Untouched ==
  ASSUME NEW o \in Ops, OpInv(o),
         call'[o] = call[o], hold'[o] = hold[o], exec'[o] = exec[o], effects'[o] = effects[o],
         posted'[o] = posted[o], telling' = o => telling = o,
         <<o, "end">> \in todo' => <<o, "end">> \in todo
  PROVE  OpInv(o)'
BY DEF OpInv, CallInv, RunInv, HoldInv, ToldInv, TodoInv, Acting

(* A step that changes neither calls, holds, runs nor notices. *)
LEMMA Quiet ==
  ASSUME CoreInv, TypeOK', UNCHANGED <<call, hold, exec, effects, posted, telling>>,
         \A o \in Ops : <<o, "end">> \in todo' => <<o, "end">> \in todo
  PROVE  CoreInv'
<1>1. \A o \in Ops : OpInv(o)'
  BY Untouched DEF CoreInv
<1>2. OneCard'
  BY DEF CoreInv, OneCard, Pending, Due
<1> QED
  BY <1>1, <1>2 DEF CoreInv

(* The owner's change of policy touches no call made. *)
LEMMA SetPolicyKeeps ==
  ASSUME CoreInv, NEW p \in Policies, SetPolicy(p)
  PROVE  CoreInv'
<1>1. TypeOK'
  BY DEF CoreInv, TypeOK, SetPolicy, passVars, alarmVars
<1> QED
  BY <1>1, Quiet DEF SetPolicy, passVars

(* A wake asked for touches no call. *)
LEMMA WakeKeeps ==
  ASSUME CoreInv, Wake
  PROVE  CoreInv'
<1>1. TypeOK'
  BY DEF CoreInv, TypeOK, Wake, passVars
<1> QED
  BY <1>1, Quiet DEF Wake, passVars

(* untoldApprovals only lists. *)
LEMMA TellBeginsKeeps ==
  ASSUME CoreInv, TellBegins
  PROVE  CoreInv'
<1>1. TypeOK'
  BY DEF CoreInv, TypeOK, TellBegins, alarmVars
<1>2. \A o \in Ops : <<o, "end">> \notin todo'
  BY DEF TellBegins
<1> QED
  BY <1>1, <1>2, Quiet DEF TellBegins

(* The end of #approvalPass, reached or thrown out of, only drops what was listed. *)
LEMMA TurnBeginsKeeps ==
  ASSUME CoreInv, TurnBegins \/ PassThrows
  PROVE  CoreInv'
<1>1. TypeOK'
  BY DEF CoreInv, TypeOK, TurnBegins, PassThrows, alarmVars
<1> QED
  BY <1>1, Quiet DEF TurnBegins, PassThrows

(* Of some natural numbers one is the least. *)
LEMMA LeastNat ==
  ASSUME NEW T, T \subseteq Nat, T # {}
  PROVE  \E t \in T : \A u \in T : u >= t
<1>1. PICK t \in T : \A u \in T : <<u, t>> \notin OpToRel(<, Nat)
  BY WFMin, NatLessThanWellFounded
<1>2. \A u \in T : ~(u < t)
  BY <1>1 DEF OpToRel
<1> QED
  BY <1>2

(* approvalDeadline is the deadline of some pending hold, or none. *)
LEMMA DeadlineTyped ==
  ASSUME TypeOK
  PROVE  approvalDeadline \in 0..TtlTicks \cup {None}
<1>1. CASE Pending = {}
  BY <1>1 DEF approvalDeadline
<1>2. CASE Pending # {}
  <2> DEFINE T == {hold[o].ttl : o \in Pending}
  <2>1. T \subseteq 0..TtlTicks /\ T # {}
    BY <1>2, Fields DEF Pending
  <2>2. \E t \in T : \A u \in T : u >= t
    <3>1. T \subseteq Nat
      BY <2>1, ApprovalsAssumption
    <3> HIDE DEF T
    <3> QED
      BY <2>1, <3>1, LeastNat
  <2>3. \E t \in 0..TtlTicks : (\E o \in Pending : hold[o].ttl = t) /\ (\A o \in Pending : hold[o].ttl >= t)
    BY <2>1, <2>2
  <2> QED
    BY <1>2, <2>3 DEF approvalDeadline
<1> QED
  BY <1>1, <1>2

(* Arming the next alarm touches no call. *)
LEMMA PassEndsKeeps ==
  ASSUME CoreInv, PassEnds
  PROVE  CoreInv'
<1>1. TypeOK'
  BY DeadlineTyped DEF CoreInv, TypeOK, PassEnds
<1> QED
  BY <1>1, Quiet DEF PassEnds

-----------------------------------------------------------------------------
(* One lemma for each operation: its step keeps the invariant *)

(* A step that changes no deadline and makes nothing pending adds no card. *)
LEMMA NoNewCard ==
  ASSUME OneCard,
         \A o \in Ops : hold'[o].state = "pending" =>
           hold[o].state = "pending" /\ (hold'[o].ttl # 0 => hold[o].ttl # 0)
  PROVE  OneCard'
BY DEF OneCard, Pending, Due

(* A fresh call has no hold, no runner and no effect. *)
LEMMA InvokeKeeps ==
  ASSUME CoreInv, NEW o \in Ops, NEW confirm \in BOOLEAN, Invoke(o, confirm)
  PROVE  CoreInv'
<1> DEFINE verdict == IF confirm /\ policy = "allow" THEN "approval" ELSE policy
<1>v. verdict \in {"allow", "approval", "deny"}
  BY ApprovalsAssumption DEF CoreInv, TypeOK
<1>a. /\ call[o] = "none"
      /\ call' = [call EXCEPT ![o] = verdict]
      /\ exec' = IF verdict = "allow" THEN [exec EXCEPT ![o]["turn"] = Entry("invoke", "none")] ELSE exec
      /\ oper' = [oper EXCEPT ![o] = IF verdict = "deny" THEN "rejected" ELSE "pending"]
      /\ UNCHANGED <<policy, hold, effects, jobs, pass, todo, telling, posted, woken, armed>>
  BY DEF Invoke, passVars, alarmVars
<1> HIDE DEF verdict
<1>e. Entry("invoke", "none") \in Exec /\ "turn" \in Runners /\ exec \in [Ops -> [Runners -> Exec]]
  BY DEF Entry, Exec, Runners, CoreInv, TypeOK
<1>x. /\ exec' \in [Ops -> [Runners -> Exec]]
      /\ \A p \in Ops, r \in Runners : p # o \/ r # "turn" => exec'[p][r] = exec[p][r]
      /\ exec'[o]["turn"] = IF verdict = "allow" THEN Entry("invoke", "none") ELSE exec[o]["turn"]
  <2>1. CASE verdict = "allow"
    BY <2>1, <1>a, <1>e, ExecSet
  <2>2. CASE verdict # "allow"
    BY <2>2, <1>a, <1>e
  <2> QED
    BY <2>1, <2>2
<1>1. TypeOK'
  BY <1>v, <1>a, <1>x DEF CoreInv, TypeOK
<1>2. OneCard'
  BY <1>a DEF CoreInv, OneCard, Pending, Due
<1>3. ASSUME NEW p \in Ops, p # o PROVE OpInv(p)'
  <2>1. exec'[p] = exec[p]
    BY <1>a, <1>3, <1>e
  <2> QED
    BY <1>a, <1>3, <2>1, Untouched DEF CoreInv, TypeOK
<1>4. OpInv(o)'
  <2>1. OpInv(o) /\ call'[o] = verdict /\ hold'[o] = NoHold /\ effects'[o] = 0
        /\ exec[o]["turn"].pc = "none"
        /\ exec[o]["pass"].pc = "none" /\ exec[o]["console"].pc = "none"
    BY <1>a DEF CoreInv, TypeOK, OpInv, CallInv, HoldInv, NoHold, Row
  <2>2. exec'[o]["pass"] = exec[o]["pass"] /\ exec'[o]["console"] = exec[o]["console"]
    BY <1>x DEF Runners
  <2>3. CallInv(o)'
    BY <1>v, <1>x, <2>1, <2>2 DEF CallInv, Entry
  <2>4. RunInv(o)'
    BY <1>v, <1>x, <2>1, <2>2 DEF RunInv, Acting, Entry, Runners
  <2>5. HoldInv(o)'
    BY <2>1 DEF HoldInv, NoHold, Row
  <2>6. ToldInv(o)' /\ TodoInv(o)'
    BY <1>a, <2>1 DEF OpInv, ToldInv, TodoInv
  <2> QED
    BY <2>3, <2>4, <2>5, <2>6 DEF OpInv
<1> QED
  BY <1>1, <1>2, <1>3, <1>4 DEF CoreInv

(* A hold is made only where no other of the kind is pending. *)
LEMMA HoldKeeps ==
  ASSUME CoreInv, NEW o \in Ops, holdApproval(o)
  PROVE  CoreInv'
<1> DEFINE h == NewHold
<1>h. /\ h \in Hold /\ h.state = "pending" /\ h.ttl = TtlTicks /\ h.age = None
      /\ h.notice = "none" /\ h.told = FALSE
  <2>1. h = [state |-> "pending", ttl |-> TtlTicks, age |-> None, notice |-> "none", told |-> FALSE]
    BY DEF NewHold, Row
  <2> HIDE DEF h
  <2>2. TtlTicks \in 0..TtlTicks
    BY ApprovalsAssumption
  <2>3. h \in Hold
    BY <2>1, <2>2 DEF Hold, HoldState, Notice
  <2> QED
    BY <2>1, <2>3
<1>a. /\ call[o] = "approval"
      /\ \/ /\ call' = [call EXCEPT ![o] = "merged"] /\ oper' = [oper EXCEPT ![o] = "cancelled"]
            /\ hold' = hold
         \/ /\ Pending \ Due = {}
            /\ call' = [call EXCEPT ![o] = "held"] /\ oper' = oper
            /\ hold' = [hold EXCEPT ![o] = h]
      /\ UNCHANGED <<policy, exec, effects, jobs, pass, todo, telling, posted, woken, armed>>
  BY DEF holdApproval, passVars, alarmVars
<1> HIDE DEF h
<1>1. TypeOK'
  BY <1>a, <1>h DEF CoreInv, TypeOK
<1>2. OneCard'
  BY <1>a DEF CoreInv, TypeOK, OneCard, Pending, Due
<1>3. ASSUME NEW p \in Ops, p # o PROVE OpInv(p)'
  BY <1>a, <1>3, Untouched DEF CoreInv, TypeOK
<1>4. OpInv(o)'
  <2>1. OpInv(o) /\ effects[o] = 0 /\ hold[o] = NoHold /\ posted[o] = 0 /\ telling # o
        /\ \A r \in Runners : exec[o][r].pc = "none"
    <3>1. OpInv(o) /\ hold[o] = NoHold
      BY <1>a DEF CoreInv, OpInv, CallInv
    <3>2. NoHold.told = FALSE /\ NoHold.age = None
      BY DEF NoHold, Row
    <3>3. posted[o] = 0 /\ telling # o
      BY <3>1, <3>2 DEF OpInv, ToldInv
    <3>4. effects[o] = 0
      BY <1>a, <3>1, <3>2 DEF OpInv, HoldInv
    <3> QED
      BY <1>a, <3>1, <3>3, <3>4 DEF OpInv, CallInv, Runners
  <2>2. \/ call'[o] = "merged" /\ hold'[o] = NoHold
        \/ call'[o] = "held" /\ hold'[o] = h
    BY <1>a, <2>1 DEF CoreInv, TypeOK
  <2>3. CallInv(o)'
    BY <1>a, <1>h, <2>1, <2>2 DEF CallInv, Runners
  <2>4. RunInv(o)'
    BY <1>a, <2>1 DEF RunInv, Acting, Runners
  <2>5. HoldInv(o)'
    BY <1>a, <1>h, <2>1, <2>2 DEF HoldInv, NoHold, Row
  <2>6. ToldInv(o)' 
    BY <1>a, <2>1 DEF ToldInv
  <2>7. TodoInv(o)'
    BY <1>a, <2>1, ApprovalsAssumption DEF OpInv, TodoInv, NoHold, Row
  <2> QED
    BY <2>3, <2>4, <2>5, <2>6, <2>7 DEF OpInv
<1> QED
  BY <1>1, <1>2, <1>3, <1>4 DEF CoreInv

(* A pending hold of the operation is decided, or its deadline ends it. *)
DecidedAs(o, s) ==
  /\ hold[o].state = "pending"
  /\ hold'[o].state = s
  /\ hold'[o].notice = IF s = "approved" THEN hold[o].notice ELSE s
  /\ hold'[o].ttl = hold[o].ttl /\ hold'[o].age = hold[o].age /\ hold'[o].told = hold[o].told

(* Of the hold of an operation nothing changes but by a decision. *)
MayDecide(o) == hold'[o] = hold[o] \/ \E s \in {"approved", "denied", "expired"} : DecidedAs(o, s)

(* expireApproval ends pending holds only, and as `expired'. *)
LEMMA ExpiredEffect ==
  ASSUME TypeOK, NEW S, S \subseteq Ops, Expired(S)
  PROVE  /\ hold' \in [Ops -> Hold]
         /\ oper' \in [Ops -> {"none", "pending", "running", "succeeded", "failed", "rejected", "cancelled"}]
         /\ \A o \in Ops : hold'[o] = hold[o] \/ DecidedAs(o, "expired")
<1>1. ASSUME NEW o \in Ops
      PROVE  /\ hold'[o] \in Hold
             /\ hold'[o] = hold[o] \/ DecidedAs(o, "expired")
  <2>1. hold[o] \in Hold
    BY DEF TypeOK
  <2> DEFINE h == [hold[o] EXCEPT !.state = "expired", !.notice = "expired"]
  <2>2. /\ h \in Hold /\ h.state = "expired" /\ h.notice = "expired"
        /\ h.ttl = hold[o].ttl /\ h.age = hold[o].age /\ h.told = hold[o].told
    BY <2>1 DEF Hold, HoldState, Notice
  <2>3. hold'[o] = hold[o] \/ (hold[o].state = "pending" /\ hold'[o] = h)
    BY DEF Expired, decisionProblem
  <2> HIDE DEF h
  <2> QED
    BY <2>1, <2>2, <2>3 DEF DecidedAs
<1>2. hold' \in [Ops -> Hold]
  <2>1. hold' = [o \in Ops |-> hold'[o]]
    BY DEF Expired
  <2> QED
    BY <1>1, <2>1
<1>3. oper' \in [Ops -> {"none", "pending", "running", "succeeded", "failed", "rejected", "cancelled"}]
  BY DEF Expired, TypeOK
<1> QED
  BY <1>1, <1>2, <1>3

(* applyApproval decides a pending hold, as asked or as expired. *)
LEMMA ApplyEffect ==
  ASSUME TypeOK, NEW o \in Ops, NEW d \in {"approved", "denied"}, Apply(o, d)
  PROVE  /\ hold' \in [Ops -> Hold]
         /\ oper' \in [Ops -> {"none", "pending", "running", "succeeded", "failed", "rejected", "cancelled"}]
         /\ \A p \in Ops : MayDecide(p)
<1>1. CASE decisionProblem(o, d) = "none"
  <2>1. hold[o].state = "pending" /\ hold \in [Ops -> Hold] /\ hold[o] \in Hold
    BY <1>1 DEF decisionProblem, TypeOK
  <2> DEFINE h == [hold[o] EXCEPT !.state = d, !.notice = IF d = "denied" THEN "denied" ELSE @]
  <2>2. /\ h \in Hold /\ h.state = d /\ h.notice = IF d = "approved" THEN hold[o].notice ELSE d
        /\ h.ttl = hold[o].ttl /\ h.age = hold[o].age /\ h.told = hold[o].told
    BY <2>1 DEF Hold, HoldState, Notice
  <2>3. hold' = [hold EXCEPT ![o] = h]
    BY <1>1, <2>1 DEF Apply
  <2> HIDE DEF h
  <2>4. \A p \in Ops : hold'[p] = IF p = o THEN h ELSE hold[p]
    BY <2>1, <2>3
  <2>5. DecidedAs(o, d)
    BY <2>1, <2>2, <2>4 DEF DecidedAs
  <2>6. \A p \in Ops : MayDecide(p)
    BY <2>4, <2>5 DEF MayDecide
  <2>7. hold' \in [Ops -> Hold]
    BY <2>1, <2>2, <2>3
  <2>8. oper' \in [Ops -> {"none", "pending", "running", "succeeded", "failed", "rejected", "cancelled"}]
    BY <1>1 DEF Apply, TypeOK
  <2> QED
    BY <2>6, <2>7, <2>8
<1>2. CASE decisionProblem(o, d) = "expired"
  <2>1. Expired({o})
    BY <1>2 DEF Apply
  <2> QED
    BY <2>1, ExpiredEffect DEF MayDecide
<1>3. CASE decisionProblem(o, d) \notin {"none", "expired"}
  BY <1>3 DEF Apply, TypeOK, MayDecide
<1> QED
  BY <1>1, <1>2, <1>3

(* A decision keeps what is known of the operation it decides: a pending   *)
(* call was not claimed and nobody runs it.                                *)
LEMMA DecisionKeepsOp ==
  ASSUME TypeOK, NEW o \in Ops, OpInv(o), MayDecide(o),
         call'[o] = call[o], exec'[o] = exec[o], effects'[o] = effects[o],
         posted'[o] = posted[o], telling' = telling,
         <<o, "end">> \in todo' => <<o, "end">> \in todo \/ hold[o].age = GraceTicks
  PROVE  OpInv(o)'
<1>1. CASE hold'[o] = hold[o]
  BY <1>1 DEF OpInv, CallInv, RunInv, HoldInv, ToldInv, TodoInv, Acting
<1>2. ASSUME NEW s \in {"approved", "denied", "expired"}, DecidedAs(o, s) PROVE OpInv(o)'
  <2>1. /\ call[o] = "held" /\ effects[o] = 0 /\ hold[o].age = None /\ hold[o].notice = "none"
        /\ \A r \in Runners : ~Acting(o, r)
    <3>1. call[o] = "held"
      BY <1>2 DEF OpInv, CallInv, DecidedAs, NoHold, Row
    <3> QED
      BY <1>2, <3>1 DEF OpInv, CallInv, RunInv, HoldInv, DecidedAs, Acting, Runners
  <2>2. CallInv(o)'
    BY <1>2, <2>1 DEF OpInv, CallInv, DecidedAs
  <2>3. RunInv(o)'
    BY <1>2, <2>1 DEF OpInv, RunInv, Acting
  <2>4. HoldInv(o)'
    BY <1>2, <2>1 DEF HoldInv, DecidedAs
  <2>5. ToldInv(o)'
    BY <1>2 DEF OpInv, ToldInv, DecidedAs
  <2>6. TodoInv(o)'
    BY <1>2, <2>1, ApprovalsAssumption DEF OpInv, TodoInv, DecidedAs
  <2> QED
    BY <2>2, <2>3, <2>4, <2>5, <2>6 DEF OpInv
<1> QED
  BY <1>1, <1>2 DEF MayDecide

(* Decisions make nothing pending. *)
LEMMA DecisionKeepsCard ==
  ASSUME OneCard, \A o \in Ops : MayDecide(o)
  PROVE  OneCard'
BY NoNewCard DEF MayDecide, DecidedAs

(* A person's decision, on the provider's card or in the console. *)
LEMMA DecideKeeps ==
  ASSUME CoreInv, NEW o \in Ops, NEW d \in {"approved", "denied"},
         DecideByProvider(o, d) \/ DecideByConsole(o, d)
  PROVE  CoreInv'
<1>a. /\ Apply(o, d) /\ woken' = TRUE
      /\ UNCHANGED <<policy, call, exec, effects, jobs, pass, todo, telling, posted, armed>>
  BY DEF DecideByProvider, DecideByConsole, passVars
<1>b. TypeOK
  BY DEF CoreInv
<1>c. \A p \in Ops : MayDecide(p)
  BY <1>a, <1>b, ApplyEffect
<1>1. TypeOK'
  BY <1>a, <1>b, ApplyEffect DEF TypeOK
<1>2. OneCard'
  BY <1>c, DecisionKeepsCard DEF CoreInv
<1>3. \A p \in Ops : OpInv(p)'
  BY <1>a, <1>b, <1>c, DecisionKeepsOp DEF CoreInv
<1> QED
  BY <1>1, <1>2, <1>3 DEF CoreInv

(* What is due expires before the provider's list is read. *)
LEMMA ListKeeps ==
  ASSUME CoreInv, ListApprovals
  PROVE  CoreInv'
<1>a. /\ Expired(Due) /\ woken' = TRUE
      /\ UNCHANGED <<policy, call, exec, effects, jobs, pass, todo, telling, posted, armed>>
  BY DEF ListApprovals, passVars
<1>b. TypeOK /\ Due \subseteq Ops
  BY DEF CoreInv, Due, Pending
<1>c. \A p \in Ops : MayDecide(p)
  BY <1>a, <1>b, ExpiredEffect DEF MayDecide
<1>1. TypeOK'
  BY <1>a, <1>b, ExpiredEffect DEF TypeOK
<1>2. OneCard'
  BY <1>c, DecisionKeepsCard DEF CoreInv
<1>3. \A p \in Ops : OpInv(p)'
  BY <1>a, <1>b, <1>c, DecisionKeepsOp DEF CoreInv
<1> QED
  BY <1>1, <1>2, <1>3 DEF CoreInv

(* A pass lists to be ended only runs claimed the whole grace ago. *)
LEMMA PassBeginsKeeps ==
  ASSUME CoreInv, PassBegins
  PROVE  CoreInv'
<1>a. /\ Expired(Due) /\ woken' = FALSE /\ armed' = None /\ pass' = "settle"
      /\ UNCHANGED <<policy, call, exec, effects, jobs, telling, posted>>
  BY DEF PassBegins
<1>b. TypeOK /\ Due \subseteq Ops
  BY DEF CoreInv, Due, Pending
<1>c. \A p \in Ops : MayDecide(p)
  BY <1>a, <1>b, ExpiredEffect DEF MayDecide
<1>d. /\ todo' \subseteq Ops \X {"run", "end", "tell"}
      /\ \A p \in Ops : <<p, "end">> \in todo' => hold[p].age = GraceTicks
  BY DEF PassBegins
<1>1. TypeOK'
  BY <1>a, <1>b, <1>d, ExpiredEffect DEF TypeOK
<1>2. OneCard'
  BY <1>c, DecisionKeepsCard DEF CoreInv
<1>3. \A p \in Ops : OpInv(p)'
  BY <1>a, <1>b, <1>c, <1>d, DecisionKeepsOp DEF CoreInv
<1> QED
  BY <1>1, <1>2, <1>3 DEF CoreInv

(* A step of one operation leaves the others as they were. *)
LEMMA OthersKeep ==
  ASSUME CoreInv, NEW o \in Ops, NEW p \in Ops, p # o,
         call'[p] = call[p], hold'[p] = hold[p], exec'[p] = exec[p], effects'[p] = effects[p],
         posted'[p] = posted[p], telling' \in {telling, None, o}, todo' \subseteq todo
  PROVE  OpInv(p)'
<1>1. telling' = p => telling = p
  BY ApprovalsAssumption
<1> QED
  BY <1>1, Untouched DEF CoreInv

(* One entry of exec is replaced; nothing else of exec changes. *)
LEMMA ExecEffect ==
  ASSUME TypeOK, NEW o \in Ops, NEW r \in Runners, NEW x \in Exec,
         exec' = [exec EXCEPT ![o][r] = x]
  PROVE  /\ exec' \in [Ops -> [Runners -> Exec]]
         /\ exec'[o][r] = x
         /\ \A q \in Runners : q # r => exec'[o][q] = exec[o][q]
         /\ \A p \in Ops : p # o => exec'[p] = exec[p]
<1>1. exec \in [Ops -> [Runners -> Exec]]
  BY DEF TypeOK
<1> QED
  BY <1>1, ExecSet

(* The console's approval; the run is claimed in its next step. *)
LEMMA ApproveKeeps ==
  ASSUME CoreInv, NEW o \in Ops, ApproveByConsole(o)
  PROVE  CoreInv'
<1> DEFINE x == Entry("claim", "none")
<1>a. /\ Apply(o, "approved") /\ decisionProblem(o, "approved") = "none"
      /\ exec' = [exec EXCEPT ![o]["console"] = x]
      /\ UNCHANGED <<policy, call, effects, jobs, pass, todo, telling, posted, woken, armed>>
  BY DEF ApproveByConsole, passVars, alarmVars
<1>b. TypeOK /\ OpInv(o)
  BY DEF CoreInv
<1>x. x \in Exec /\ x.pc = "claim" /\ "console" \in Runners
  BY DEF Entry, Exec, Runners
<1> HIDE DEF x
<1>c. \A p \in Ops : MayDecide(p)
  BY <1>a, <1>b, ApplyEffect
<1>e. /\ exec' \in [Ops -> [Runners -> Exec]] /\ exec'[o]["console"] = x
      /\ \A q \in Runners : q # "console" => exec'[o][q] = exec[o][q]
      /\ \A p \in Ops : p # o => exec'[p] = exec[p]
  BY <1>a, <1>b, <1>x, ExecEffect, ZenonT(60)
<1>1. TypeOK'
  BY <1>a, <1>b, <1>e, ApplyEffect DEF TypeOK
<1>2. OneCard'
  BY <1>c, DecisionKeepsCard DEF CoreInv
<1>3. ASSUME NEW p \in Ops, p # o PROVE OpInv(p)'
  BY <1>a, <1>b, <1>c, <1>e, <1>3, DecisionKeepsOp DEF CoreInv
<1>4. OpInv(o)'
  <2>1. hold[o].state = "pending"
    BY <1>a DEF decisionProblem
  <2>2. DecidedAs(o, "approved")
    <3>1. hold[o] \in Hold /\ hold \in [Ops -> Hold]
      BY <1>b DEF TypeOK
    <3>2. /\ hold'[o].state = "approved" /\ hold'[o].notice = hold[o].notice
          /\ hold'[o].ttl = hold[o].ttl /\ hold'[o].age = hold[o].age /\ hold'[o].told = hold[o].told
      BY <1>a, <3>1 DEF Apply, Hold
    <3> QED
      BY <2>1, <3>2 DEF DecidedAs
  <2>3. call[o] = "held"
    BY <1>b, <2>1 DEF OpInv, CallInv, NoHold, Row
  <2>4. /\ effects[o] = 0 /\ hold[o].age = None /\ hold[o].notice = "none"
        /\ \A r \in Runners : ~Acting(o, r)
    BY <1>b, <2>1, <2>3 DEF OpInv, CallInv, RunInv, HoldInv, Acting, Runners
  <2>5. CallInv(o)'
    BY <1>a, <1>b, <1>e, <2>2, <2>3 DEF OpInv, CallInv, DecidedAs, Runners
  <2>6. RunInv(o)'
    BY <1>a, <1>e, <1>x, <2>4 DEF RunInv, Acting, Runners
  <2>7. HoldInv(o)'
    BY <1>a, <2>2, <2>4 DEF HoldInv, DecidedAs
  <2>8. ToldInv(o)'
    BY <1>a, <1>b, <2>2 DEF OpInv, ToldInv, DecidedAs
  <2>9. TodoInv(o)'
    BY <1>a, <1>b, <2>2 DEF OpInv, TodoInv, DecidedAs
  <2> QED
    BY <2>5, <2>6, <2>7, <2>8, <2>9 DEF OpInv
<1> QED
  BY <1>1, <1>2, <1>3, <1>4 DEF CoreInv

(* A claimed run is its runner's alone: nobody ran the call before. *)
LEMMA ClaimKeepsOp ==
  ASSUME CoreInv, NEW o \in Ops, NEW r \in {"pass", "console"}, claimApprovalRun(o),
         hold' = [hold EXCEPT ![o].age = 0],
         exec' \in [Ops -> [Runners -> Exec]], exec'[o][r].pc = "invoke",
         \A q \in Runners : q # r => exec'[o][q] = exec[o][q],
         \A p \in Ops : p # o => exec'[p] = exec[p],
         UNCHANGED <<policy, oper, call, effects, jobs, pass, telling, posted, armed>>,
         todo' \subseteq todo, woken' \in BOOLEAN
  PROVE  CoreInv'
<1>b. TypeOK /\ OpInv(o)
  BY DEF CoreInv
<1>h. /\ hold' \in [Ops -> Hold]
      /\ \A p \in Ops : p # o => hold'[p] = hold[p]
      /\ hold'[o].age = 0 /\ hold'[o].state = hold[o].state /\ hold'[o].notice = hold[o].notice
      /\ hold'[o].ttl = hold[o].ttl /\ hold'[o].told = hold[o].told
  <2>1. hold \in [Ops -> Hold] /\ hold[o] \in Hold /\ 0 \in 0..GraceTicks \cup {None}
    BY <1>b, ApprovalsAssumption DEF TypeOK
  <2> DEFINE h == [hold[o] EXCEPT !.age = 0]
  <2>2. h \in Hold /\ h.age = 0 /\ h.state = hold[o].state /\ h.notice = hold[o].notice
        /\ h.ttl = hold[o].ttl /\ h.told = hold[o].told
    BY <2>1 DEF Hold
  <2>3. hold' = [hold EXCEPT ![o] = h]
    OBVIOUS
  <2> HIDE DEF h
  <2> QED
    BY <2>1, <2>2, <2>3
<1>c. hold[o].state = "approved" /\ hold[o].age = None
  BY DEF claimApprovalRun
<1>1. TypeOK'
  BY <1>b, <1>h DEF TypeOK
<1>2. OneCard'
  <2>1. \A p \in Ops : hold'[p].state = hold[p].state /\ hold'[p].ttl = hold[p].ttl
    BY <1>h
  <2> QED
    BY <2>1, NoNewCard DEF CoreInv
<1>3. ASSUME NEW p \in Ops, p # o PROVE OpInv(p)'
  BY <1>3, <1>h, OthersKeep
<1>4. OpInv(o)'
  <2>1. call[o] = "held"
    BY <1>b, <1>c DEF OpInv, CallInv, NoHold, Row
  <2>2. effects[o] = 0 /\ hold[o].notice = "none" /\ \A q \in Runners : ~Acting(o, q)
    BY <1>b, <1>c, <2>1 DEF OpInv, CallInv, HoldInv, RunInv, Acting, Runners
  <2>3. CallInv(o)'
    BY <1>b, <1>c, <1>h, <2>1 DEF OpInv, CallInv, Runners
  <2>4. RunInv(o)'
    <3>1. 0 # None /\ 0 <= RunTicks
      BY ApprovalsAssumption
    <3> QED
      BY <1>c, <1>h, <2>2, <3>1 DEF RunInv, Acting, Runners
  <2>5. HoldInv(o)'
    BY <1>c, <1>h, <2>2, ApprovalsAssumption DEF HoldInv
  <2>6. ToldInv(o)'
    BY <1>b, <1>h DEF OpInv, ToldInv
  <2>7. TodoInv(o)'
    BY <1>b, <1>c, ApprovalsAssumption DEF OpInv, TodoInv
  <2> QED
    BY <2>3, <2>4, <2>5, <2>6, <2>7 DEF OpInv
<1> QED
  BY <1>1, <1>2, <1>3, <1>4 DEF CoreInv

(* The console claims the run, or finds it claimed. *)
LEMMA ClaimByConsoleKeeps ==
  ASSUME CoreInv, NEW o \in Ops, ClaimByConsole(o)
  PROVE  CoreInv'
<1>b. TypeOK /\ OpInv(o) /\ "console" \in Runners
  BY DEF CoreInv, Runners
<1>x. /\ Entry("invoke", "none") \in Exec /\ Entry("invoke", "none").pc = "invoke"
      /\ NoExec \in Exec /\ NoExec.pc = "none"
  BY DEF Entry, Exec, NoExec
<1>1. CASE claimApprovalRun(o)
  <2>1. /\ hold' = [hold EXCEPT ![o].age = 0]
        /\ exec' = [exec EXCEPT ![o]["console"] = Entry("invoke", "none")]
        /\ UNCHANGED <<woken, policy, oper, call, effects, jobs, pass, todo, telling, posted, armed>>
    BY <1>1 DEF ClaimByConsole, passVars
  <2>2. /\ exec' \in [Ops -> [Runners -> Exec]] /\ exec'[o]["console"] = Entry("invoke", "none")
        /\ \A q \in Runners : q # "console" => exec'[o][q] = exec[o][q]
        /\ \A p \in Ops : p # o => exec'[p] = exec[p]
    BY <1>b, <1>x, <2>1, ExecEffect, ZenonT(60)
  <2>3. woken' \in BOOLEAN
    BY <1>b, <2>1 DEF TypeOK
  <2> QED
    BY <1>1, <1>x, <2>1, <2>2, <2>3, ClaimKeepsOp
<1>2. CASE ~claimApprovalRun(o)
  <2>1. /\ exec' = [exec EXCEPT ![o]["console"] = NoExec] /\ woken' = TRUE
        /\ exec[o]["console"].pc = "claim"
        /\ UNCHANGED <<hold, policy, oper, call, effects, jobs, pass, todo, telling, posted, armed>>
    BY <1>2 DEF ClaimByConsole, passVars
  <2>2. /\ exec' \in [Ops -> [Runners -> Exec]] /\ exec'[o]["console"] = NoExec
        /\ \A q \in Runners : q # "console" => exec'[o][q] = exec[o][q]
        /\ \A p \in Ops : p # o => exec'[p] = exec[p]
    BY <1>b, <1>x, <2>1, ExecEffect, ZenonT(60)
  <2>3. TypeOK'
    BY <1>b, <2>1, <2>2 DEF TypeOK
  <2>4. OneCard'
    BY <2>1, NoNewCard DEF CoreInv
  <2>5. ASSUME NEW p \in Ops, p # o PROVE OpInv(p)'
    BY <2>1, <2>2, <2>5, OthersKeep
  <2>6. OpInv(o)'
    <3>1. CallInv(o)'
      BY <1>b, <1>x, <2>1, <2>2 DEF OpInv, CallInv, Runners
    <3>2. RunInv(o)'
      BY <1>b, <1>x, <2>1, <2>2 DEF OpInv, RunInv, Acting, Runners
    <3>3. HoldInv(o)' /\ ToldInv(o)' /\ TodoInv(o)'
      BY <1>b, <2>1 DEF OpInv, HoldInv, ToldInv, TodoInv
    <3> QED
      BY <3>1, <3>2, <3>3 DEF OpInv
  <2> QED
    BY <2>3, <2>4, <2>5, <2>6 DEF CoreInv
<1> QED
  BY <1>1, <1>2

(* The pass claims a run it listed, or finds it claimed. *)
LEMMA SettleRunKeeps ==
  ASSUME CoreInv, NEW o \in Ops, SettleRun(o)
  PROVE  CoreInv'
<1>b. TypeOK /\ "pass" \in Runners
  BY DEF CoreInv, Runners
<1>t. /\ todo' \subseteq todo
      /\ UNCHANGED <<policy, oper, call, effects, jobs, pass, telling, posted, woken, armed>>
  BY DEF SettleRun, alarmVars
<1>1. CASE claimApprovalRun(o)
  <2>x. Entry("invoke", "none") \in Exec /\ Entry("invoke", "none").pc = "invoke"
    BY DEF Entry, Exec
  <2>1. /\ hold' = [hold EXCEPT ![o].age = 0]
        /\ exec' = [exec EXCEPT ![o]["pass"] = Entry("invoke", "none")]
    BY <1>1 DEF SettleRun
  <2>2. /\ exec' \in [Ops -> [Runners -> Exec]] /\ exec'[o]["pass"] = Entry("invoke", "none")
        /\ \A q \in Runners : q # "pass" => exec'[o][q] = exec[o][q]
        /\ \A p \in Ops : p # o => exec'[p] = exec[p]
    BY <1>b, <2>x, <2>1, ExecEffect, ZenonT(60)
  <2>3. woken' \in BOOLEAN
    BY <1>b, <1>t DEF TypeOK
  <2> QED
    BY <1>1, <1>t, <2>x, <2>1, <2>2, <2>3, ClaimKeepsOp
<1>2. CASE ~claimApprovalRun(o)
  <2>1. UNCHANGED <<hold, exec>>
    BY <1>2 DEF SettleRun
  <2>2. TypeOK'
    BY <1>b, <1>t, <2>1 DEF TypeOK
  <2> QED
    BY <1>t, <2>1, <2>2, Quiet
<1> QED
  BY <1>1, <1>2

(* A runner that has the run moves on with it, in step with the effect. *)
LEMMA RunMovesKeeps ==
  ASSUME CoreInv, TypeOK', NEW o \in Ops, NEW r \in Runners, Acting(o, r),
         exec'[o][r].pc \in {"act", "acted"},
         \A q \in Runners : q # r => exec'[o][q] = exec[o][q],
         \A p \in Ops : p # o => exec'[p] = exec[p],
         \A p \in Ops : p # o => effects'[p] = effects[p],
         effects[o] = 0, effects'[o] \in {0, 1},
         exec'[o][r].pc = "act" => effects'[o] = 0,
         exec'[o][r].result \in {"succeeded", "running"} => effects'[o] = 1,
         exec'[o][r].result \in {"rejected", "cancelled"} => effects'[o] = 0,
         exec'[o][r].pc = "acted" => exec'[o][r].result # "none",
         effects'[o] = 1 => exec[o][r].pc = "act",
         UNCHANGED <<call, hold, posted, telling, todo>>
  PROVE  CoreInv'
<1>b. OpInv(o)
  BY DEF CoreInv
<1>1. OneCard'
  BY NoNewCard DEF CoreInv
<1>2. ASSUME NEW p \in Ops, p # o PROVE OpInv(p)'
  BY <1>2, OthersKeep
<1>3. \A q \in Runners : q # r => exec'[o][q].pc \in {"none", "claim"}
  <2>1. \A q \in Runners : q # r => ~Acting(o, q)
    <3>1. CASE r = "turn"
      BY <1>b, <3>1 DEF OpInv, CallInv, Acting, Runners
    <3>2. CASE r # "turn"
      <4>1. call[o] = "held"
        BY <1>b, <3>2 DEF OpInv, CallInv, Acting, Runners
      <4> QED
        BY <1>b, <3>2, <4>1 DEF OpInv, CallInv, RunInv, Acting, Runners
    <3> QED
      BY <3>1, <3>2
  <2>2. \A q \in Runners : exec[o][q] \in Exec
    BY DEF CoreInv, TypeOK
  <2> QED
    BY <2>1, <2>2 DEF Acting, Exec
<1>4. CallInv(o)'
  BY <1>b DEF OpInv, CallInv, Acting, Runners
<1>5. RunInv(o)'
  BY <1>b, <1>3 DEF OpInv, RunInv, Acting, Runners
<1>6. HoldInv(o)'
  <2>1. CASE r = "turn"
    <3>1. call[o] = "allow" /\ hold[o] = NoHold /\ NoHold.state = "none"
      BY <1>b, <2>1 DEF OpInv, CallInv, Acting, NoHold, Row
    <3> QED
      BY <1>b, <3>1 DEF OpInv, HoldInv
  <2>2. CASE r # "turn"
    <3>1. hold[o].state = "approved" /\ hold[o].age # None
      BY <1>b, <2>2 DEF OpInv, RunInv
    <3> QED
      BY <1>b, <3>1 DEF OpInv, HoldInv
  <2> QED
    BY <2>1, <2>2
<1>7. ToldInv(o)' /\ TodoInv(o)'
  BY <1>b DEF OpInv, ToldInv, TodoInv
<1>8. OpInv(o)'
  BY <1>4, <1>5, <1>6, <1>7 DEF OpInv
<1> QED
  BY <1>1, <1>2, <1>8 DEF CoreInv

(* The run is refused, throws, or starts: nothing has been done yet. *)
LEMMA StartRunKeeps ==
  ASSUME CoreInv, NEW o \in Ops, NEW r \in Runners, StartRun(o, r)
  PROVE  CoreInv'
<1>b. TypeOK /\ OpInv(o)
  BY DEF CoreInv
<1>a. /\ exec[o][r].pc = "invoke"
      /\ UNCHANGED <<policy, call, hold, effects, jobs, pass, todo, telling, posted, woken, armed>>
  BY DEF StartRun, passVars, alarmVars
<1>x. /\ Entry("acted", "rejected") \in Exec /\ Entry("acted", "cancelled") \in Exec /\ Entry("acted", "threw") \in Exec
      /\ Entry("act", "none") \in Exec /\ Entry("acted", "failed") \in Exec
  BY DEF Entry, Exec
<1>y. PICK x \in {Entry("acted", "rejected"), Entry("acted", "cancelled"), Entry("acted", "threw"),
                  Entry("act", "none"), Entry("acted", "failed")} :
        /\ exec' = [exec EXCEPT ![o][r] = x]
        /\ oper' \in [Ops -> {"none", "pending", "running", "succeeded", "failed", "rejected", "cancelled"}]
  BY <1>b DEF StartRun, TypeOK
<1>z. /\ x \in Exec /\ x.pc \in {"act", "acted"} /\ (x.pc = "acted" => x.result # "none")
      /\ x.result \notin {"succeeded", "running"}
  BY <1>x DEF Entry
<1>e. /\ exec' \in [Ops -> [Runners -> Exec]] /\ exec'[o][r] = x
      /\ \A q \in Runners : q # r => exec'[o][q] = exec[o][q]
      /\ \A p \in Ops : p # o => exec'[p] = exec[p]
  BY <1>b, <1>y, <1>z, ExecEffect, ZenonT(60)
<1>1. TypeOK'
  BY <1>a, <1>b, <1>e, <1>y DEF TypeOK
<1>2. Acting(o, r) /\ effects[o] = 0
  BY <1>a, <1>b DEF Acting, OpInv, RunInv
<1> QED
  BY <1>a, <1>e, <1>z, <1>1, <1>2, RunMovesKeeps

(* The plugin acts once for the runner that has the run. *)
LEMMA ActKeeps ==
  ASSUME CoreInv, NEW o \in Ops, NEW r \in Runners, Act(o, r)
  PROVE  CoreInv'
<1>b. TypeOK /\ OpInv(o)
  BY DEF CoreInv
<1>a. /\ exec[o][r].pc = "act"
      /\ UNCHANGED <<policy, oper, call, hold, jobs, pass, todo, telling, posted, woken, armed>>
  BY DEF Act, passVars, alarmVars
<1>y. PICK result \in {"succeeded", "running", "failed", "cancelled"}, landed \in {0, 1} :
        /\ result \in {"succeeded", "running"} => landed = 1
        /\ result = "cancelled" => landed = 0
        /\ effects' = [effects EXCEPT ![o] = @ + landed]
        /\ exec' = [exec EXCEPT ![o][r] = Entry("acted", result)]
  BY DEF Act
<1>z. Entry("acted", result) \in Exec /\ Entry("acted", result).pc = "acted" /\ Entry("acted", result).result = result
  BY DEF Entry, Exec
<1>e. /\ exec' \in [Ops -> [Runners -> Exec]] /\ exec'[o][r] = Entry("acted", result)
      /\ \A q \in Runners : q # r => exec'[o][q] = exec[o][q]
      /\ \A p \in Ops : p # o => exec'[p] = exec[p]
  BY <1>b, <1>y, <1>z, ExecEffect, ZenonT(60)
<1>2. Acting(o, r) /\ effects[o] = 0
  BY <1>a, <1>b DEF Acting, OpInv, RunInv
<1>3. effects'[o] = landed /\ effects' \in [Ops -> Nat] /\ \A p \in Ops : p # o => effects'[p] = effects[p]
  BY <1>b, <1>y, <1>2 DEF TypeOK
<1>1. TypeOK'
  BY <1>a, <1>b, <1>e, <1>3 DEF TypeOK
<1>4. /\ exec'[o][r].pc = "acted" /\ exec'[o][r].result = result
  BY <1>e, <1>z
<1> QED
  BY <1>a, <1>e, <1>y, <1>1, <1>2, <1>3, <1>4, RunMovesKeeps

(* An answered call has no runner left. *)
LEMMA DispatchKeeps ==
  ASSUME CoreInv, NEW o \in Ops, Dispatch(o)
  PROVE  CoreInv'
<1>b. TypeOK /\ OpInv(o) /\ "turn" \in Runners /\ NoExec \in Exec /\ NoExec.pc = "none"
  BY DEF CoreInv, Runners, NoExec, Entry, Exec
<1>a. /\ exec[o]["turn"].pc = "acted" /\ exec' = [exec EXCEPT ![o]["turn"] = NoExec]
      /\ UNCHANGED <<policy, call, hold, effects, pass, todo, telling, posted, woken, armed>>
  BY DEF Dispatch, passVars, alarmVars
<1>e. /\ exec' \in [Ops -> [Runners -> Exec]] /\ exec'[o]["turn"] = NoExec
      /\ \A q \in Runners : q # "turn" => exec'[o][q] = exec[o][q]
      /\ \A p \in Ops : p # o => exec'[p] = exec[p]
  BY <1>a, <1>b, ExecEffect, ZenonT(60)
<1>r. exec[o]["turn"].result \in {"succeeded", "failed", "running", "rejected", "cancelled", "threw"}
  <2>1. exec[o]["turn"] \in Exec
    BY <1>b DEF TypeOK
  <2>2. exec[o]["turn"].result # "none"
    BY <1>a, <1>b DEF OpInv, RunInv
  <2> QED
    BY <2>1, <2>2 DEF Exec
<1>1. TypeOK'
  <2>1. oper' \in [Ops -> {"none", "pending", "running", "succeeded", "failed", "rejected", "cancelled"}]
    BY <1>b, <1>r DEF Dispatch, TypeOK
  <2>2. jobs' \subseteq Ops
    BY <1>b DEF Dispatch, TypeOK
  <2> QED
    BY <1>a, <1>b, <1>e, <2>1, <2>2 DEF TypeOK
<1>2. OneCard'
  BY <1>a, NoNewCard DEF CoreInv
<1>3. ASSUME NEW p \in Ops, p # o PROVE OpInv(p)'
  BY <1>a, <1>e, <1>3, OthersKeep
<1>4. OpInv(o)'
  <2>1. CallInv(o)'
    BY <1>a, <1>b, <1>e DEF OpInv, CallInv, Runners
  <2>2. RunInv(o)'
    BY <1>a, <1>b, <1>e DEF OpInv, RunInv, Acting, Runners
  <2>3. HoldInv(o)' /\ ToldInv(o)' /\ TodoInv(o)'
    BY <1>a, <1>b DEF OpInv, HoldInv, ToldInv, TodoInv
  <2> QED
    BY <2>1, <2>2, <2>3 DEF OpInv
<1> QED
  BY <1>1, <1>2, <1>3, <1>4 DEF CoreInv

(* What finishApproval leaves in the hold of the operation. *)
LEMMA FinishEffect ==
  ASSUME TypeOK, NEW o \in Ops, NEW s \in {"executed", "failed"}, NEW n \in Notice,
         hold' = finishApproval(o, s, n)
  PROVE  /\ hold' \in [Ops -> Hold]
         /\ \A p \in Ops : p # o => hold'[p] = hold[p]
         /\ hold[o].state # "approved" => hold'[o] = hold[o]
         /\ hold[o].state = "approved" =>
              /\ hold'[o].state = s /\ hold'[o].notice = n
              /\ hold'[o].ttl = hold[o].ttl /\ hold'[o].age = hold[o].age /\ hold'[o].told = hold[o].told
<1>1. hold \in [Ops -> Hold] /\ hold[o] \in Hold
  BY DEF TypeOK
<1>2. CASE hold[o].state = "approved"
  <2> DEFINE h == [hold[o] EXCEPT !.state = s, !.notice = n]
  <2>1. /\ h \in Hold /\ h.state = s /\ h.notice = n
        /\ h.ttl = hold[o].ttl /\ h.age = hold[o].age /\ h.told = hold[o].told
    BY <1>1 DEF Hold, HoldState
  <2>2. hold' = [hold EXCEPT ![o] = h]
    BY <1>1, <1>2 DEF finishApproval
  <2> HIDE DEF h
  <2> QED
    BY <1>1, <1>2, <2>1, <2>2
<1>3. CASE hold[o].state # "approved"
  BY <1>1, <1>3 DEF finishApproval
<1> QED
  BY <1>2, <1>3

(* An ended hold says of its effect what its notice says. *)
LEMMA EndKeepsOp ==
  ASSUME NEW o \in Ops, OpInv(o), NEW s \in {"executed", "failed"}, NEW n \in Notice,
         hold[o].state = "approved", hold[o].age # None,
         hold'[o].state = s, hold'[o].notice = n, hold'[o].age = hold[o].age, hold'[o].told = hold[o].told,
         s = "executed" => n \in {"ran", "background"} /\ effects[o] = 1,
         s = "failed" => n \in {"notrun", "failed", "unknown"} /\ (n = "notrun" => effects[o] = 0),
         \A q \in Runners : exec'[o][q].pc \in {"none", "claim"},
         \A q \in Runners : exec'[o][q].pc # "none" => exec[o][q].pc # "none",
         call'[o] = call[o], effects'[o] = effects[o],
         UNCHANGED <<posted, telling>>, todo' \subseteq todo
  PROVE  OpInv(o)'
<1>1. CallInv(o)'
  <2>1. call[o] = "held"
    BY DEF OpInv, CallInv, NoHold, Row
  <2> QED
    BY <2>1 DEF OpInv, CallInv, Runners
<1>2. RunInv(o)'
  BY DEF OpInv, RunInv, Acting, Runners
<1>3. HoldInv(o)'
  BY DEF HoldInv
<1>4. ToldInv(o)'
  BY DEF OpInv, ToldInv
<1>5. TodoInv(o)'
  BY DEF OpInv, TodoInv
<1> QED
  BY <1>1, <1>2, <1>3, <1>4, <1>5 DEF OpInv

(* Who runs an approved call runs it alone. *)
LEMMA RunsAlone ==
  ASSUME CoreInv, NEW o \in Ops, NEW r \in Runners, r # "turn", Acting(o, r)
  PROVE  \A q \in Runners : q # r => exec[o][q].pc \in {"none", "claim"}
<1>1. call[o] = "held" /\ OpInv(o)
  BY DEF CoreInv, OpInv, CallInv, Acting, Runners
<1>2. \A q \in Runners : q # r => ~Acting(o, q)
  BY <1>1 DEF OpInv, CallInv, RunInv, Acting, Runners
<1>3. \A q \in Runners : exec[o][q] \in Exec
  BY DEF CoreInv, TypeOK
<1> QED
  BY <1>2, <1>3 DEF Acting, Exec

(* The run's outcome is written with the notice that tells it. *)
LEMMA FinishRunKeeps ==
  ASSUME CoreInv, NEW o \in Ops, NEW r \in Runners, FinishRun(o, r)
  PROVE  CoreInv'
<1> DEFINE result == exec[o][r].result
           out == Outcome(result)
<1>b. TypeOK /\ OpInv(o) /\ NoExec \in Exec /\ NoExec.pc = "none"
  BY DEF CoreInv, NoExec, Entry, Exec
<1>a. /\ r # "turn" /\ exec[o][r].pc = "acted" /\ Acting(o, r)
      /\ exec' = [exec EXCEPT ![o][r] = NoExec]
      /\ hold' = finishApproval(o, out.state, out.notice)
      /\ UNCHANGED <<policy, call, effects, jobs, pass, todo, telling, posted, armed>>
  BY DEF FinishRun, passVars, Acting
<1>e. /\ exec' \in [Ops -> [Runners -> Exec]] /\ exec'[o][r] = NoExec
      /\ \A q \in Runners : q # r => exec'[o][q] = exec[o][q]
      /\ \A p \in Ops : p # o => exec'[p] = exec[p]
  BY <1>a, <1>b, ExecEffect, ZenonT(60)
<1>r. result \in {"succeeded", "failed", "running", "rejected", "cancelled", "threw"}
  <2>1. exec[o][r] \in Exec
    BY <1>b DEF TypeOK
  <2>2. result # "none"
    BY <1>a, <1>b DEF OpInv, RunInv
  <2> QED
    BY <2>1, <2>2 DEF Exec
<1>f. /\ result \in {"succeeded", "running"} => effects[o] = 1
      /\ result \in {"rejected", "cancelled"} => effects[o] = 0
      /\ hold[o].state = "approved" /\ hold[o].age # None
  BY <1>a, <1>b DEF OpInv, RunInv
<1>w. woken' \in BOOLEAN /\ oper' \in [Ops -> {"none", "pending", "running", "succeeded", "failed", "rejected", "cancelled"}]
  <2>1. woken' \in BOOLEAN
    BY DEF FinishRun
  <2>2. oper' \in [Ops -> {"none", "pending", "running", "succeeded", "failed", "rejected", "cancelled"}]
    BY <1>b, <1>r DEF FinishRun, TypeOK
  <2> QED
    BY <2>1, <2>2
<1>o. /\ out.state \in {"executed", "failed"} /\ out.notice \in Notice
      /\ out.state = "executed" => out.notice \in {"ran", "background"} /\ effects[o] = 1
      /\ out.state = "failed" => out.notice \in {"notrun", "failed", "unknown"} /\ (out.notice = "notrun" => effects[o] = 0)
  BY <1>r, <1>f DEF Outcome, Notice
<1> HIDE DEF result, out
<1>h. /\ hold' \in [Ops -> Hold]
      /\ \A p \in Ops : p # o => hold'[p] = hold[p]
      /\ hold'[o].state = out.state /\ hold'[o].notice = out.notice
      /\ hold'[o].age = hold[o].age /\ hold'[o].told = hold[o].told
  BY <1>a, <1>b, <1>f, <1>o, FinishEffect
<1>1. TypeOK'
  BY <1>a, <1>b, <1>e, <1>h, <1>w DEF TypeOK
<1>2. OneCard'
  <2>1. \A p \in Ops : hold'[p].state = "pending" => hold'[p] = hold[p]
    BY <1>h, <1>o
  <2> QED
    BY <2>1, NoNewCard DEF CoreInv
<1>3. ASSUME NEW p \in Ops, p # o PROVE OpInv(p)'
  BY <1>a, <1>e, <1>h, <1>3, OthersKeep
<1>4. OpInv(o)'
  <2>1. \A q \in Runners : exec'[o][q].pc \in {"none", "claim"} /\ (exec'[o][q].pc # "none" => exec[o][q].pc # "none")
    BY <1>a, <1>b, <1>e, RunsAlone
  <2> QED
    BY <1>a, <1>b, <1>f, <1>h, <1>o, <2>1, EndKeepsOp
<1> QED
  BY <1>1, <1>2, <1>3, <1>4 DEF CoreInv

(* A run is given up only when nobody can still be running it. *)
LEMMA SettleStaleKeeps ==
  ASSUME CoreInv, NEW o \in Ops, SettleStale(o)
  PROVE  CoreInv'
<1>b. TypeOK /\ OpInv(o)
  BY DEF CoreInv
<1>a. /\ <<o, "end">> \in todo /\ todo' \subseteq todo
      /\ hold' = finishApproval(o, "failed", "unknown") /\ "unknown" \in Notice
      /\ UNCHANGED <<policy, oper, call, exec, effects, jobs, pass, telling, posted, woken, armed>>
  BY DEF SettleStale, alarmVars, Notice
<1>g. hold[o].age = GraceTicks /\ hold[o].age # None
  BY <1>a, <1>b, ApprovalsAssumption DEF OpInv, TodoInv
<1>n. \A q \in Runners : q # "turn" => ~Acting(o, q)
  BY <1>b, <1>g, ApprovalsAssumption DEF OpInv, RunInv
<1>h. /\ hold' \in [Ops -> Hold]
      /\ \A p \in Ops : p # o => hold'[p] = hold[p]
      /\ hold[o].state # "approved" => hold'[o] = hold[o]
      /\ hold[o].state = "approved" =>
           /\ hold'[o].state = "failed" /\ hold'[o].notice = "unknown"
           /\ hold'[o].age = hold[o].age /\ hold'[o].told = hold[o].told
  BY <1>a, <1>b, FinishEffect
<1>1. TypeOK'
  BY <1>a, <1>b, <1>h DEF TypeOK
<1>2. OneCard'
  <2>1. \A p \in Ops : hold'[p].state = "pending" => hold'[p] = hold[p]
    BY <1>h
  <2> QED
    BY <2>1, NoNewCard DEF CoreInv
<1>3. ASSUME NEW p \in Ops, p # o PROVE OpInv(p)'
  BY <1>a, <1>h, <1>3, OthersKeep
<1>4. OpInv(o)'
  <2>1. CASE hold[o].state = "approved"
    <3>1. call[o] = "held"
      BY <1>b, <2>1 DEF OpInv, CallInv, NoHold, Row
    <3>2. \A q \in Runners : exec[o][q] \in Exec
      BY <1>b DEF TypeOK
    <3>3. \A q \in Runners : exec[o][q].pc \in {"none", "claim"}
      BY <1>b, <1>n, <3>1, <3>2 DEF OpInv, CallInv, Acting, Exec, Runners
    <3> QED
      BY <1>a, <1>b, <1>g, <1>h, <2>1, <3>3, EndKeepsOp
  <2>2. CASE hold[o].state # "approved"
    BY <1>a, <1>b, <1>h, <2>2, Untouched
  <2> QED
    BY <2>1, <2>2
<1> QED
  BY <1>1, <1>2, <1>3, <1>4 DEF CoreInv

(* A row's told_at changes and nothing else of it. *)
LEMMA MarkEffect ==
  ASSUME TypeOK, NEW o \in Ops, NEW b \in BOOLEAN, hold' = [hold EXCEPT ![o].told = b]
  PROVE  /\ hold' \in [Ops -> Hold]
         /\ \A p \in Ops : p # o => hold'[p] = hold[p]
         /\ hold'[o].told = b
         /\ hold'[o].state = hold[o].state /\ hold'[o].notice = hold[o].notice
         /\ hold'[o].ttl = hold[o].ttl /\ hold'[o].age = hold[o].age
<1>1. hold \in [Ops -> Hold] /\ hold[o] \in Hold
  BY DEF TypeOK
<1> DEFINE h == [hold[o] EXCEPT !.told = b]
<1>2. h \in Hold /\ h.told = b /\ h.state = hold[o].state /\ h.notice = hold[o].notice
      /\ h.ttl = hold[o].ttl /\ h.age = hold[o].age
  BY <1>1 DEF Hold
<1>3. hold' = [hold EXCEPT ![o] = h]
  OBVIOUS
<1> HIDE DEF h
<1> QED
  BY <1>1, <1>2, <1>3

(* Marking a row told, or untold again, touches no decision and no run. *)
LEMMA MarkKeeps ==
  ASSUME CoreInv, TypeOK', NEW o \in Ops, NEW b \in BOOLEAN, call[o] = "held",
         hold' = [hold EXCEPT ![o].told = b],
         UNCHANGED <<call, exec, effects, posted>>, telling' \in {telling, None, o}, todo' \subseteq todo,
         ToldInv(o)'
  PROVE  CoreInv'
<1>b. TypeOK /\ OpInv(o)
  BY DEF CoreInv
<1>h. /\ \A p \in Ops : p # o => hold'[p] = hold[p]
      /\ hold'[o].state = hold[o].state /\ hold'[o].notice = hold[o].notice
      /\ hold'[o].ttl = hold[o].ttl /\ hold'[o].age = hold[o].age
  BY <1>b, MarkEffect
<1>1. OneCard'
  <2>1. \A p \in Ops : hold'[p].state = hold[p].state /\ hold'[p].ttl = hold[p].ttl
    BY <1>h
  <2> QED
    BY <2>1, NoNewCard DEF CoreInv
<1>2. ASSUME NEW p \in Ops, p # o PROVE OpInv(p)'
  BY <1>h, <1>2, OthersKeep
<1>3. CallInv(o)'
  BY <1>b, <1>h DEF OpInv, CallInv
<1>4. RunInv(o)'
  BY <1>b, <1>h DEF OpInv, RunInv, Acting
<1>5. HoldInv(o)' /\ TodoInv(o)'
  BY <1>b, <1>h DEF OpInv, HoldInv, TodoInv
<1>6. OpInv(o)'
  BY <1>3, <1>4, <1>5 DEF OpInv
<1> QED
  BY <1>1, <1>2, <1>6 DEF CoreInv

(* told_at is taken before the notice is posted. *)
LEMMA TellClaimKeeps ==
  ASSUME CoreInv, TellInv, NEW o \in Ops, TellClaim(o)
  PROVE  CoreInv'
<1>b. TypeOK /\ OpInv(o) /\ call[o] = "held"
  BY DEF CoreInv, TellInv, TellClaim
<1>a. /\ telling = None /\ todo' \subseteq todo
      /\ telling' = IF hold[o].told THEN None ELSE o
      /\ hold' = [hold EXCEPT ![o].told = TRUE]
      /\ UNCHANGED <<policy, oper, call, exec, effects, jobs, pass, posted, woken, armed>>
  BY DEF TellClaim, alarmVars
<1>h. hold' \in [Ops -> Hold] /\ hold'[o].told = TRUE
  BY <1>a, <1>b, MarkEffect
<1>1. TypeOK'
  BY <1>a, <1>b, <1>h DEF TypeOK
<1>2. ToldInv(o)'
  <2>1. posted'[o] <= 1
    BY <1>a, <1>b DEF OpInv, ToldInv
  <2>2. telling' = o => posted'[o] = 0
    BY <1>a, <1>b, ApprovalsAssumption DEF OpInv, ToldInv
  <2> QED
    BY <1>h, <2>1, <2>2 DEF ToldInv
<1> QED
  BY <1>a, <1>b, <1>1, <1>2, MarkKeeps

(* The notice lands once: its row is marked. *)
LEMMA TellLandsKeeps ==
  ASSUME CoreInv, TellInv, TellLands
  PROVE  CoreInv'
<1>a. /\ telling \in Ops /\ posted' = [posted EXCEPT ![telling] = @ + 1] /\ telling' = None
      /\ UNCHANGED <<policy, oper, call, hold, exec, effects, jobs, pass, todo, woken, armed>>
  BY DEF TellLands, alarmVars, CoreInv, TypeOK
<1>b. TypeOK /\ OpInv(telling) /\ posted[telling] = 0
  BY <1>a DEF CoreInv, OpInv, ToldInv
<1>p. posted' \in [Ops -> Nat] /\ posted'[telling] = 1 /\ \A p \in Ops : p # telling => posted'[p] = posted[p]
  BY <1>a, <1>b DEF TypeOK
<1>1. TypeOK'
  BY <1>a, <1>b, <1>p DEF TypeOK
<1>2. OneCard'
  BY <1>a, NoNewCard DEF CoreInv
<1>3. ASSUME NEW p \in Ops, p # telling PROVE OpInv(p)'
  BY <1>a, <1>p, <1>3, OthersKeep
<1>4. ASSUME NEW o \in Ops, o = telling PROVE OpInv(o)'
  <2>1. OpInv(o) /\ hold[o].told
    BY <1>a, <1>4 DEF CoreInv, TypeOK, OpInv, ToldInv
  <2>2. telling' # o
    BY <1>a, ApprovalsAssumption
  <2>3. CallInv(o)' /\ HoldInv(o)' /\ TodoInv(o)'
    BY <1>a, <2>1 DEF OpInv, CallInv, HoldInv, TodoInv
  <2>4. RunInv(o)'
    BY <1>a, <2>1 DEF OpInv, RunInv, Acting
  <2>5. ToldInv(o)'
    BY <1>a, <1>p, <1>4, <2>1, <2>2 DEF ToldInv
  <2> QED
    BY <2>3, <2>4, <2>5 DEF OpInv
<1> QED
  BY <1>1, <1>2, <1>3, <1>4 DEF CoreInv

(* A post that did not land frees its row for another try. *)
LEMMA TellFailsKeeps ==
  ASSUME CoreInv, TellInv, TellFails
  PROVE  CoreInv'
<1>a. /\ telling \in Ops /\ hold' = [hold EXCEPT ![telling].told = FALSE] /\ telling' = None
      /\ UNCHANGED <<policy, oper, call, exec, effects, jobs, pass, todo, posted, woken, armed>>
  BY DEF TellFails, alarmVars, CoreInv, TypeOK
<1>1. ASSUME NEW o \in Ops, o = telling PROVE CoreInv'
  <2>b. TypeOK /\ OpInv(o) /\ call[o] = "held" /\ posted[o] = 0
    BY <1>a, <1>1, ApprovalsAssumption DEF CoreInv, TellInv, OpInv, ToldInv
  <2>h. hold' = [hold EXCEPT ![o].told = FALSE]
    BY <1>a, <1>1
  <2>1. hold' \in [Ops -> Hold] /\ hold'[o].told = FALSE
    BY <2>b, <2>h, MarkEffect
  <2>2. TypeOK'
    BY <1>a, <2>b, <2>1 DEF TypeOK
  <2>3. ToldInv(o)'
    BY <1>a, <2>b, ApprovalsAssumption DEF ToldInv
  <2> QED
    BY <1>a, <2>b, <2>h, <2>2, <2>3, MarkKeeps
<1> QED
  BY <1>a, <1>1

(* A stop forgets who was running what, and nothing that was written. *)
LEMMA EvictKeeps ==
  ASSUME CoreInv, Evict
  PROVE  CoreInv'
<1>a. /\ exec' = [o \in Ops |-> [r \in Runners |-> NoExec]]
      /\ call' = [o \in Ops |-> IF call[o] = "approval" THEN "lost" ELSE call[o]]
      /\ pass' = "none" /\ todo' = {} /\ telling' = None
      /\ woken' = (woken \/ pass # "none")
      /\ UNCHANGED <<policy, oper, hold, effects, jobs, posted, armed>>
  BY DEF Evict
<1>b. TypeOK /\ NoExec \in Exec /\ NoExec.pc = "none"
  BY DEF CoreInv, NoExec, Entry, Exec
<1>1. TypeOK'
  <2>1. exec' \in [Ops -> [Runners -> Exec]]
    BY <1>a, <1>b
  <2>2. call' \in [Ops -> {"none", "deny", "allow", "approval", "held", "merged", "lost"}]
    BY <1>a, <1>b DEF TypeOK
  <2>3. woken' \in BOOLEAN
    BY <1>a
  <2> QED
    BY <1>a, <1>b, <2>1, <2>2, <2>3 DEF TypeOK
<1>2. OneCard'
  BY <1>a, NoNewCard DEF CoreInv
<1>3. ASSUME NEW o \in Ops PROVE OpInv(o)'
  <2>b. OpInv(o)
    BY DEF CoreInv
  <2>1. \A r \in Runners : exec'[o][r].pc = "none"
    BY <1>a, <1>b
  <2>2. /\ call'[o] = "held" <=> call[o] = "held"
        /\ call'[o] = "allow" <=> call[o] = "allow"
    BY <1>a
  <2>3. CallInv(o)'
    BY <1>a, <2>b, <2>1, <2>2 DEF OpInv, CallInv, Runners
  <2>4. RunInv(o)'
    BY <1>a, <2>b, <2>1 DEF OpInv, RunInv, Acting, Runners
  <2>5. HoldInv(o)'
    BY <1>a, <2>b, <2>2 DEF OpInv, HoldInv
  <2>6. ToldInv(o)' /\ TodoInv(o)'
    BY <1>a, <2>b, ApprovalsAssumption DEF OpInv, ToldInv, TodoInv
  <2> QED
    BY <2>3, <2>4, <2>5, <2>6 DEF OpInv
<1> QED
  BY <1>1, <1>2, <1>3 DEF CoreInv

(* A tick takes from a pending hold's time and adds to a claim's age. *)
LEMMA TickEffect ==
  ASSUME TypeOK, Tick, NEW o \in Ops
  PROVE  /\ hold'[o] \in Hold
         /\ hold'[o].state = hold[o].state /\ hold'[o].notice = hold[o].notice
         /\ hold'[o].told = hold[o].told
         /\ hold'[o].ttl = IF hold[o].state = "pending" /\ hold[o].ttl > 0 THEN hold[o].ttl - 1 ELSE hold[o].ttl
         /\ hold'[o].age = IF hold[o].age # None /\ hold[o].age < GraceTicks THEN hold[o].age + 1 ELSE hold[o].age
<1> DEFINE t == IF hold[o].state = "pending" /\ hold[o].ttl > 0 THEN hold[o].ttl - 1 ELSE hold[o].ttl
           a == IF hold[o].age # None /\ hold[o].age < GraceTicks THEN hold[o].age + 1 ELSE hold[o].age
           h == [hold[o] EXCEPT !.ttl = t, !.age = a]
<1>1. hold[o] \in Hold
  BY DEF TypeOK
<1>2. t \in 0..TtlTicks /\ a \in 0..GraceTicks \cup {None}
  BY Fields, ApprovalsAssumption
<1>3. hold'[o] = h
  BY <1>1 DEF Tick
<1> HIDE DEF t, a
<1>4. /\ h \in Hold /\ h.state = hold[o].state /\ h.notice = hold[o].notice
      /\ h.told = hold[o].told /\ h.ttl = t /\ h.age = a
  BY <1>1, <1>2 DEF Hold
<1> HIDE DEF h
<1> QED
  BY <1>3, <1>4 DEF t, a

(* Time ends no hold by itself and outlives no run. *)
LEMMA TickKeeps ==
  ASSUME CoreInv, Tick
  PROVE  CoreInv'
<1>b. TypeOK
  BY DEF CoreInv
<1>a. UNCHANGED <<policy, oper, call, exec, effects, jobs, pass, todo, telling, posted, woken>>
  BY DEF Tick, passVars
<1>h. ASSUME NEW o \in Ops
      PROVE  /\ hold'[o] \in Hold
             /\ hold'[o].state = hold[o].state /\ hold'[o].notice = hold[o].notice
             /\ hold'[o].told = hold[o].told
             /\ hold'[o].ttl = IF hold[o].state = "pending" /\ hold[o].ttl > 0 THEN hold[o].ttl - 1 ELSE hold[o].ttl
             /\ hold'[o].age = IF hold[o].age # None /\ hold[o].age < GraceTicks THEN hold[o].age + 1 ELSE hold[o].age
  BY <1>b, TickEffect
<1>1. TypeOK'
  <2>1. hold' \in [Ops -> Hold]
    <3>1. hold' = [o \in Ops |-> hold'[o]]
      BY DEF Tick
    <3> QED
      BY <1>h, <3>1
  <2>2. armed' \in 0..TtlTicks \cup {None}
    <3>1. armed \in 0..TtlTicks \cup {None} /\ TtlTicks \in Nat
      BY <1>b, ApprovalsAssumption DEF TypeOK
    <3>2. armed' = IF armed # None /\ armed > 0 THEN armed - 1 ELSE armed
      BY DEF Tick
    <3> QED
      BY <3>1, <3>2
  <2> QED
    BY <1>a, <1>b, <2>1, <2>2 DEF TypeOK
<1>2. OneCard'
  <2>1. \A o \in Ops : hold'[o].state = "pending" => hold[o].state = "pending" /\ (hold'[o].ttl # 0 => hold[o].ttl # 0)
    BY <1>b, <1>h, Fields
  <2> QED
    BY <2>1, NoNewCard DEF CoreInv
<1>3. ASSUME NEW o \in Ops PROVE OpInv(o)'
  <2>b. OpInv(o)
    BY DEF CoreInv
  <2>n. hold'[o].age = None <=> hold[o].age = None
    BY <1>b, <1>h, Fields, ApprovalsAssumption
  <2>1. CallInv(o)'
    <3>1. CASE call[o] = "held"
      BY <1>a, <1>h, <2>b, <3>1 DEF OpInv, CallInv
    <3>2. CASE call[o] # "held"
      <4>1. hold[o] = NoHold
        BY <2>b, <3>2 DEF OpInv, CallInv
      <4>2. /\ NoHold.state = "none" /\ NoHold.ttl = 0 /\ NoHold.age = None
            /\ NoHold.notice = "none" /\ NoHold.told = FALSE
        BY DEF NoHold, Row
      <4>3. hold'[o] = NoHold
        BY <1>h, <4>1, <4>2 DEF Hold, NoHold, Row
      <4> QED
        BY <1>a, <2>b, <3>2, <4>3 DEF OpInv, CallInv
    <3> QED
      BY <3>1, <3>2
  <2>2. RunInv(o)'
    <3>1. \A r \in Runners : Acting(o, r) /\ r # "turn" => hold[o].age # None /\ hold[o].age < RunTicks
      BY DEF Tick, Acting, Runners
    <3>2. \A r \in Runners : Acting(o, r) /\ r # "turn" => hold'[o].age # None /\ hold'[o].age <= RunTicks
      BY <1>b, <1>h, <2>n, <3>1, Fields, ApprovalsAssumption
    <3> QED
      BY <1>a, <1>h, <2>b, <3>2 DEF OpInv, RunInv, Acting
  <2>3. HoldInv(o)'
    BY <1>a, <1>h, <2>b, <2>n DEF OpInv, HoldInv
  <2>4. ToldInv(o)'
    BY <1>a, <1>h, <2>b DEF OpInv, ToldInv
  <2>5. TodoInv(o)'
    BY <1>a, <1>h, <2>b, ApprovalsAssumption DEF OpInv, TodoInv
  <2> QED
    BY <2>1, <2>2, <2>3, <2>4, <2>5 DEF OpInv
<1> QED
  BY <1>1, <1>2, <1>3 DEF CoreInv

-----------------------------------------------------------------------------
(* The invariant *)

(* Before the first call nothing is held, run or told. *)
LEMMA InitEstablishes == Init => IndInv
<1> SUFFICES ASSUME Init PROVE IndInv
  OBVIOUS
<1>e. NoExec \in Exec /\ NoExec.pc = "none" /\ \A o \in Ops, r \in Runners : exec[o][r] = NoExec
  BY DEF Init, NoExec, Entry, Exec
<1>h. /\ NoHold \in Hold /\ \A o \in Ops : hold[o] = NoHold
      /\ NoHold.state = "none" /\ NoHold.notice = "none" /\ NoHold.age = None
  BY ApprovalsAssumption DEF Init, NoHold, Row, Hold, HoldState, Notice
<1>1. TypeOK
  <2>1. hold \in [Ops -> Hold] /\ exec \in [Ops -> [Runners -> Exec]]
    BY <1>e, <1>h DEF Init
  <2> QED
    BY <2>1 DEF Init, TypeOK
<1>2. OneCard
  BY <1>h DEF OneCard, Pending, Due
<1>3. ASSUME NEW o \in Ops PROVE OpInv(o)
  <2>1. CallInv(o)
    BY <1>e, <1>h DEF Init, CallInv, Runners
  <2>2. RunInv(o)
    BY <1>e DEF Init, RunInv, Acting, Runners
  <2>3. HoldInv(o)
    BY <1>h DEF Init, HoldInv
  <2>4. ToldInv(o) /\ TodoInv(o)
    BY ApprovalsAssumption DEF Init, ToldInv, TodoInv
  <2> QED
    BY <2>1, <2>2, <2>3, <2>4 DEF OpInv
<1>4. TellInv
  BY DEF Init, TellInv
<1> QED
  BY <1>1, <1>2, <1>3, <1>4 DEF IndInv, CoreInv

(* The notices under way are those of held calls, and held is for good. *)
LEMMA TellKeeps ==
  ASSUME IndInv, TypeOK', [Next]_vars
  PROVE  TellInv'
<1>b. TypeOK /\ TellInv
  BY DEF IndInv, CoreInv
<1>1. \A o \in Ops : call[o] = "held" => call'[o] = "held"
  <2>1. ASSUME NEW p \in Ops, NEW confirm \in BOOLEAN, Invoke(p, confirm)
        PROVE  \A o \in Ops : call[o] = "held" => call'[o] = "held"
    BY <1>b, <2>1 DEF Invoke, TypeOK
  <2>2. ASSUME NEW p \in Ops, holdApproval(p)
        PROVE  \A o \in Ops : call[o] = "held" => call'[o] = "held"
    BY <1>b, <2>2 DEF holdApproval, TypeOK
  <2>3. ASSUME Evict
        PROVE  \A o \in Ops : call[o] = "held" => call'[o] = "held"
    BY <1>b, <2>3, SMTT(30) DEF Evict, TypeOK
  <2>4. ASSUME \A p \in Ops : ~holdApproval(p),
               \A p \in Ops, confirm \in BOOLEAN : ~Invoke(p, confirm), ~Evict
        PROVE  call' = call
    BY <2>4, ZenonT(60) DEF Next, vars, passVars, alarmVars, SetPolicy, DecideByProvider,
       DecideByConsole, ApproveByConsole, ClaimByConsole, Dispatch, SettleRun, SettleStale, TellClaim,
       StartRun, Act, FinishRun, ListApprovals, Wake, PassBegins, TellBegins, TellLands, TellFails,
       TurnBegins, PassThrows, PassEnds, Tick
  <2> QED
    BY <2>1, <2>2, <2>3, <2>4
<1>2. \A o \in Ops : <<o, "tell">> \in todo' => call[o] = "held"
  <2>1. CASE TellBegins
    <3>1. \A o \in Ops : <<o, "tell">> \in todo' => hold[o].state \in FinalStates
      BY <2>1 DEF TellBegins
    <3>2. \A o \in Ops : call[o] # "held" => hold[o] = NoHold
      BY DEF IndInv, CoreInv, OpInv, CallInv
    <3> QED
      BY <3>1, <3>2 DEF FinalStates, NoHold, Row
  <2>2. CASE PassBegins
    <3>1. \A o \in Ops : <<o, "tell">> \notin todo'
      BY <2>2 DEF PassBegins
    <3> QED
      BY <3>1
  <2>3. CASE ~TellBegins /\ ~PassBegins
    <3>1. todo' \subseteq todo
      BY <2>3, ZenonT(60) DEF Next, vars, passVars, alarmVars, SetPolicy, Invoke, holdApproval, DecideByProvider,
         DecideByConsole, ApproveByConsole, ClaimByConsole, Dispatch, SettleRun, SettleStale, TellClaim,
         StartRun, Act, FinishRun, ListApprovals, Wake, TellLands, TellFails,
         TurnBegins, PassThrows, PassEnds, Evict, Tick
    <3> QED
      BY <1>b, <3>1 DEF TellInv
  <2> QED
    BY <2>1, <2>2, <2>3
<1>3. telling' # None => call[telling'] = "held"
  <2>1. ASSUME NEW o \in Ops, TellClaim(o) PROVE telling' # None => call[telling'] = "held"
    BY <1>b, <2>1 DEF TellClaim, TellInv
  <2>2. ASSUME \A o \in Ops : ~TellClaim(o) PROVE telling' \in {telling, None}
    BY <2>2 DEF Next, vars, passVars, alarmVars, SetPolicy, Invoke, holdApproval, DecideByProvider,
       DecideByConsole, ApproveByConsole, ClaimByConsole, Dispatch, SettleRun, SettleStale,
       StartRun, Act, FinishRun, ListApprovals, Wake, PassBegins, TellBegins, TellLands, TellFails,
       TurnBegins, PassThrows, PassEnds, Evict, Tick
  <2> QED
    BY <1>b, <2>1, <2>2 DEF TellInv
<1> QED
  BY <1>1, <1>2, <1>3 DEF TellInv, TypeOK

(* Every step keeps the invariant. *)
LEMMA NextKeeps ==
  ASSUME IndInv, [Next]_vars
  PROVE  IndInv'
<1>b. CoreInv /\ TellInv
  BY DEF IndInv
<1>1. ASSUME NEW p \in Policies, SetPolicy(p) PROVE CoreInv'
  BY <1>b, <1>1, SetPolicyKeeps
<1>2. ASSUME NEW o \in Ops, NEW confirm \in BOOLEAN, Invoke(o, confirm) PROVE CoreInv'
  BY <1>b, <1>2, InvokeKeeps
<1>3. ASSUME NEW o \in Ops, NEW d \in {"approved", "denied"}, DecideByProvider(o, d) \/ DecideByConsole(o, d)
      PROVE  CoreInv'
  BY <1>b, <1>3, DecideKeeps
<1>4. ASSUME NEW o \in Ops, \/ holdApproval(o) \/ ApproveByConsole(o) \/ ClaimByConsole(o) \/ Dispatch(o)
                            \/ SettleRun(o) \/ SettleStale(o) \/ TellClaim(o)
      PROVE  CoreInv'
  BY <1>b, <1>4, HoldKeeps, ApproveKeeps, ClaimByConsoleKeeps, DispatchKeeps, SettleRunKeeps,
     SettleStaleKeeps, TellClaimKeeps
<1>5. ASSUME NEW o \in Ops, NEW r \in Runners, StartRun(o, r) \/ Act(o, r) \/ FinishRun(o, r)
      PROVE  CoreInv'
  BY <1>b, <1>5, StartRunKeeps, ActKeeps, FinishRunKeeps
<1>6. ASSUME \/ ListApprovals \/ Wake \/ PassBegins \/ TellBegins \/ TellLands \/ TellFails
             \/ TurnBegins \/ PassThrows \/ PassEnds \/ Evict \/ Tick
      PROVE  CoreInv'
  BY <1>b, <1>6, ListKeeps, WakeKeeps, PassBeginsKeeps, TellBeginsKeeps, TellLandsKeeps, TellFailsKeeps,
     TurnBeginsKeeps, PassEndsKeeps, EvictKeeps, TickKeeps
<1>7. ASSUME UNCHANGED vars PROVE CoreInv'
  <2>1. /\ UNCHANGED <<call, hold, exec, effects, posted, telling, todo>>
        /\ UNCHANGED <<policy, oper, jobs, pass, woken, armed>>
    BY <1>7 DEF vars, passVars, alarmVars
  <2>2. TypeOK'
    BY <1>b, <2>1 DEF CoreInv, TypeOK
  <2> QED
    BY <1>b, <2>1, <2>2, Quiet
<1>8. CoreInv'
  BY <1>1, <1>2, <1>3, <1>4, <1>5, <1>6, <1>7 DEF Next
<1>9. TellInv'
  BY <1>8, TellKeeps DEF CoreInv
<1> QED
  BY <1>8, <1>9 DEF IndInv

(* The inductive invariant, for every set of operations and all times. *)
THEOREM Invariance == Spec => []IndInv
<1>1. Init => IndInv
  BY InitEstablishes
<1>2. IndInv /\ [Next]_vars => IndInv'
  BY NextKeeps
<1> QED
  BY <1>1, <1>2, PTL DEF Spec

(* Every reachable state of the gate is well typed. *)
THEOREM Typing == Spec => []TypeOK
<1>1. IndInv => TypeOK
  BY DEF IndInv, CoreInv
<1> QED
  BY <1>1, Invariance, PTL

(* Of identical calls at most one waits for a decision at any time. *)
THEOREM Merging == Spec => []OneCard
<1>1. IndInv => OneCard
  BY DEF IndInv, CoreInv
<1> QED
  BY <1>1, Invariance, PTL

(* What the agent is told of a held call is true, however decisions, runs, *)
(* deadlines and stops interleave.                                         *)
THEOREM Truth == Spec => []NoticeTrue
<1>1. IndInv => NoticeTrue
  <2> SUFFICES ASSUME IndInv, NEW o \in Ops
               PROVE  /\ hold[o].notice \in {"denied", "expired", "notrun"} =>
                           effects[o] = 0 /\ \A r \in Runners : exec[o][r].pc \in {"none", "claim"}
                      /\ hold[o].notice \in {"ran", "background"} => effects[o] = 1
    BY DEF NoticeTrue
  <2>b. TypeOK /\ OpInv(o)
    BY DEF IndInv, CoreInv
  <2>s. hold[o].state \in HoldState
    BY <2>b, Fields
  <2>1. ASSUME hold[o].notice \in {"denied", "expired", "notrun"}
        PROVE  effects[o] = 0 /\ \A r \in Runners : exec[o][r].pc \in {"none", "claim"}
    <3>1. hold[o].state \in {"denied", "expired", "failed"}
      BY <2>b, <2>s, <2>1 DEF OpInv, HoldInv, HoldState
    <3>2. call[o] = "held"
      BY <2>b, <3>1 DEF OpInv, CallInv, NoHold, Row
    <3>3. effects[o] = 0
      BY <2>b, <2>1, <3>1, <3>2 DEF OpInv, HoldInv
    <3>4. \A r \in Runners : ~Acting(o, r) /\ exec[o][r] \in Exec
      BY <2>b, <3>1, <3>2 DEF OpInv, CallInv, RunInv, TypeOK, Acting, Runners
    <3> QED
      BY <3>3, <3>4 DEF Acting, Exec
  <2>2. ASSUME hold[o].notice \in {"ran", "background"} PROVE effects[o] = 1
    BY <2>b, <2>s, <2>2 DEF OpInv, HoldInv, HoldState
  <2> QED
    BY <2>1, <2>2
<1> QED
  BY <1>1, Invariance, PTL

(* No notice is in the conversation twice. *)
THEOREM Telling == Spec => []ToldOnce
<1>1. IndInv => ToldOnce
  BY DEF IndInv, CoreInv, OpInv, ToldInv, ToldOnce
<1> QED
  BY <1>1, Invariance, PTL

-----------------------------------------------------------------------------
(* The gate implements HeldCall *)

(* The stage of a call is what its verdict, its hold's state and notice make it. *)
LEMMA SameStage ==
  ASSUME TypeOK, NEW o \in Ops, call'[o] = "allow" <=> call[o] = "allow",
         hold'[o].state = hold[o].state, hold'[o].notice = hold[o].notice
  PROVE  Stage(o)' = Stage(o)
BY Fields DEF Stage, HoldState

(* A step that moves no call to another stage and takes no effect. *)
LEMMA Stutter ==
  ASSUME \A o \in Ops : Stage(o)' = Stage(o), effects' = effects
  PROVE  UNCHANGED HC!callVars
BY DEF HC!callVars, stageBar

(* A step that moves one call only. *)
LEMMA OneMoves ==
  ASSUME NEW o \in Ops, NEW s, Stage(o)' = s, \A p \in Ops : p # o => Stage(p)' = Stage(p)
  PROVE  stageBar' = [stageBar EXCEPT ![o] = s] /\ stageBar[o] = Stage(o)
BY DEF stageBar

(* A call refused or refused with others. *)
LEMMA RefuseStep ==
  ASSUME TypeOK, \A o \in Ops : hold'[o] = hold[o] \/ DecidedAs(o, "expired") \/ DecidedAs(o, "denied"),
         \A o \in Ops : call[o] # "held" => hold[o] = NoHold, UNCHANGED <<call, effects>>
  PROVE  [HC!CallNext]_HC!callVars
<1> DEFINE S == {o \in Ops : DecidedAs(o, "expired") \/ DecidedAs(o, "denied")}
<1>1. ASSUME NEW o \in S PROVE Stage(o) = "waiting" /\ Stage(o)' = "refused"
  <2>1. hold[o].state = "pending" /\ hold'[o].state \in {"expired", "denied"}
    BY DEF DecidedAs
  <2>2. call[o] # "allow" /\ call'[o] # "allow"
    BY <2>1 DEF NoHold, Row
  <2> QED
    BY <2>1, <2>2 DEF Stage
<1>2. ASSUME NEW o \in Ops, o \notin S PROVE Stage(o)' = Stage(o)
  BY <1>2, SameStage
<1> HIDE DEF S
<1>3. stageBar' = [o \in Ops |-> IF o \in S THEN "refused" ELSE stageBar[o]]
  BY <1>1, <1>2 DEF stageBar
<1>4. \A o \in S : stageBar[o] = "waiting"
  BY <1>1 DEF stageBar, S
<1>5. S \in SUBSET Ops
  BY DEF S
<1>6. HC!Refuse(S)
  BY <1>3, <1>4 DEF HC!Refuse
<1> QED
  BY <1>5, <1>6 DEF HC!CallNext

(* A person approved a pending call. *)
LEMMA GrantStep ==
  ASSUME TypeOK, NEW o \in Ops, DecidedAs(o, "approved"), \A p \in Ops : p # o => hold'[p] = hold[p],
         call[o] # "held" => hold[o] = NoHold, UNCHANGED <<call, effects>>
  PROVE  [HC!CallNext]_HC!callVars
<1>1. Stage(o) = "waiting" /\ Stage(o)' = "granted"
  <2>1. hold[o].state = "pending" /\ hold'[o].state = "approved"
    BY DEF DecidedAs
  <2>2. call[o] # "allow" /\ call'[o] # "allow"
    BY <2>1 DEF NoHold, Row
  <2> QED
    BY <2>1, <2>2 DEF Stage
<1>2. \A p \in Ops : p # o => Stage(p)' = Stage(p)
  BY SameStage
<1>3. HC!Grant(o)
  BY <1>1, <1>2, OneMoves DEF HC!Grant
<1> QED
  BY <1>3 DEF HC!CallNext

(* The verdict on a call lets it through, or leaves it where it is. *)
LEMMA InvokeStep ==
  ASSUME CoreInv, NEW o \in Ops, NEW confirm \in BOOLEAN, Invoke(o, confirm)
  PROVE  [HC!CallNext]_HC!callVars
<1>a. call[o] = "none" /\ UNCHANGED <<hold, effects>> /\ \A p \in Ops : p # o => call'[p] = call[p]
  BY DEF Invoke, CoreInv, TypeOK
<1>b. hold[o] = NoHold /\ NoHold.state = "none"
  BY <1>a DEF CoreInv, OpInv, CallInv, NoHold, Row
<1>1. \A p \in Ops : p # o => Stage(p)' = Stage(p)
  BY <1>a, SameStage DEF CoreInv
<1>2. Stage(o) = "none" /\ Stage(o)' \in {"none", "direct"}
  BY <1>a, <1>b DEF Stage
<1>3. CASE Stage(o)' = "none"
  BY <1>a, <1>1, <1>2, <1>3, Stutter
<1>4. CASE Stage(o)' = "direct"
  <2>1. stageBar' = [stageBar EXCEPT ![o] = "direct"] /\ stageBar[o] = "none"
    BY <1>1, <1>2, <1>4, OneMoves
  <2>2. HC!Ask(o)
    BY <1>a, <2>1 DEF HC!Ask
  <2> QED
    BY <2>2 DEF HC!CallNext
<1> QED
  BY <1>2, <1>3, <1>4

(* A call is held, or merged into the one that is. *)
LEMMA HoldStep ==
  ASSUME CoreInv, NEW o \in Ops, holdApproval(o)
  PROVE  [HC!CallNext]_HC!callVars
<1>a. /\ call[o] = "approval" /\ call'[o] # "allow" /\ effects' = effects
      /\ \A p \in Ops : p # o => call'[p] = call[p] /\ hold'[p] = hold[p]
      /\ hold'[o] \in {hold[o], NewHold}
  BY DEF holdApproval, CoreInv, TypeOK
<1>b. hold[o] = NoHold /\ NoHold.state = "none" /\ NewHold.state = "pending"
  BY <1>a DEF CoreInv, OpInv, CallInv, NoHold, NewHold, Row
<1>1. \A p \in Ops : p # o => Stage(p)' = Stage(p)
  BY <1>a, SameStage DEF CoreInv
<1>2. Stage(o) = "none" /\ Stage(o)' \in {"none", "waiting"}
  BY <1>a, <1>b DEF Stage
<1>3. CASE Stage(o)' = "none"
  BY <1>a, <1>1, <1>2, <1>3, Stutter
<1>4. CASE Stage(o)' = "waiting"
  <2>1. stageBar' = [stageBar EXCEPT ![o] = "waiting"] /\ stageBar[o] = "none"
    BY <1>1, <1>2, <1>4, OneMoves
  <2>2. HC!Ask(o)
    BY <1>a, <2>1 DEF HC!Ask
  <2> QED
    BY <2>2 DEF HC!CallNext
<1> QED
  BY <1>2, <1>3, <1>4

(* A decision grants, refuses, or finds the call decided. *)
LEMMA DecideStep ==
  ASSUME CoreInv, NEW o \in Ops, NEW d \in {"approved", "denied"}, Apply(o, d), UNCHANGED <<call, effects>>
  PROVE  [HC!CallNext]_HC!callVars
<1>b. TypeOK /\ \A p \in Ops : call[p] # "held" => hold[p] = NoHold
  BY DEF CoreInv, OpInv, CallInv
<1>m. \A p \in Ops : MayDecide(p)
  BY <1>b, ApplyEffect
<1>o. decisionProblem(o, d) # "expired" => \A p \in Ops : p # o => hold'[p] = hold[p]
  BY <1>b DEF Apply, TypeOK
<1>1. CASE decisionProblem(o, d) = "expired"
  <2>1. Expired({o})
    BY <1>1 DEF Apply
  <2> QED
    BY <1>b, <2>1, ExpiredEffect, RefuseStep
<1>2. CASE decisionProblem(o, d) # "expired" /\ DecidedAs(o, "approved")
  BY <1>b, <1>o, <1>2, GrantStep
<1>3. CASE decisionProblem(o, d) # "expired" /\ ~DecidedAs(o, "approved")
  BY <1>b, <1>m, <1>o, <1>3, RefuseStep DEF MayDecide
<1> QED
  BY <1>1, <1>2, <1>3

(* The plugin acts for a call that is granted or let through, and had not. *)
LEMMA ActStep ==
  ASSUME CoreInv, NEW o \in Ops, NEW r \in Runners, Act(o, r)
  PROVE  [HC!CallNext]_HC!callVars
<1>b. TypeOK /\ OpInv(o)
  BY DEF CoreInv
<1>a. exec[o][r].pc = "act" /\ UNCHANGED <<call, hold>>
  BY DEF Act
<1>e. effects[o] = 0
  BY <1>a, <1>b DEF OpInv, RunInv
<1>n. effects' = effects \/ effects' = [effects EXCEPT ![o] = 1]
  <2>1. PICK landed \in {0, 1} : effects' = [effects EXCEPT ![o] = @ + landed]
    BY DEF Act
  <2>2. effects \in [Ops -> Nat]
    BY <1>b DEF TypeOK
  <2>3. CASE landed = 0
    BY <1>e, <2>1, <2>2, <2>3
  <2>4. CASE landed = 1
    BY <1>e, <2>1, <2>2, <2>4
  <2> QED
    BY <2>3, <2>4
<1>s. stageBar' = stageBar
  BY <1>a, <1>b, SameStage DEF stageBar
<1>1. Stage(o) \in {"granted", "direct"}
  <2>1. CASE r = "turn"
    BY <1>a, <1>b, <2>1 DEF OpInv, CallInv, Stage
  <2>2. CASE r # "turn"
    <3>1. hold[o].state = "approved"
      BY <1>a, <1>b, <2>2 DEF OpInv, RunInv, Acting
    <3> QED
      BY <3>1 DEF Stage
  <2> QED
    BY <2>1, <2>2
<1>2. stageBar[o] \in {"granted", "direct"}
  BY <1>1 DEF stageBar
<1>3. CASE effects' = effects
  BY <1>s, <1>3 DEF HC!callVars
<1>4. CASE effects' = [effects EXCEPT ![o] = 1]
  <2>1. HC!Perform(o)
    BY <1>e, <1>s, <1>2, <1>4 DEF HC!Perform
  <2> QED
    BY <2>1 DEF HC!CallNext
<1> QED
  BY <1>n, <1>3, <1>4

(* An approved call's hold is ended with a notice that is true. *)
LEMMA EndStep ==
  ASSUME CoreInv, NEW o \in Ops, NEW s \in {"executed", "failed"}, NEW n \in Notice,
         hold[o].state = "approved", hold' = finishApproval(o, s, n),
         s = "executed" => effects[o] = 1, n = "notrun" => effects[o] = 0,
         UNCHANGED <<call, effects>>
  PROVE  [HC!CallNext]_HC!callVars
<1>b. TypeOK /\ OpInv(o)
  BY DEF CoreInv
<1>h. /\ \A p \in Ops : p # o => hold'[p] = hold[p]
      /\ hold'[o].state = s /\ hold'[o].notice = n
  BY <1>b, FinishEffect
<1>c. call[o] # "allow" /\ call'[o] # "allow"
  BY <1>b DEF OpInv, CallInv, NoHold, Row
<1>1. Stage(o) = "granted"
  BY <1>c DEF Stage
<1>2. Stage(o)' = IF s = "executed" THEN "ran" ELSE IF n = "notrun" THEN "notrun" ELSE "unclear"
  BY <1>c, <1>h DEF Stage
<1>3. \A p \in Ops : p # o => Stage(p)' = Stage(p)
  BY <1>b, <1>h, SameStage
<1> DEFINE t == IF s = "executed" THEN "ran" ELSE IF n = "notrun" THEN "notrun" ELSE "unclear"
<1>4. /\ t \in {"ran", "notrun", "unclear"}
      /\ t = "ran" => effects[o] = 1
      /\ t = "notrun" => effects[o] = 0
  OBVIOUS
<1>5. Stage(o)' = t
  BY <1>2
<1> HIDE DEF t
<1>6. stageBar' = [stageBar EXCEPT ![o] = t] /\ stageBar[o] = "granted"
  BY <1>1, <1>3, <1>5, OneMoves
<1>7. HC!End(o, t)
  BY <1>4, <1>6 DEF HC!End
<1> QED
  BY <1>4, <1>7 DEF HC!CallNext

(* A run ends its hold with the outcome of its call. *)
LEMMA FinishRunStep ==
  ASSUME CoreInv, NEW o \in Ops, NEW r \in Runners, FinishRun(o, r)
  PROVE  [HC!CallNext]_HC!callVars
<1> DEFINE result == exec[o][r].result
           out == Outcome(result)
<1>b. TypeOK /\ OpInv(o)
  BY DEF CoreInv
<1>a. /\ r # "turn" /\ exec[o][r].pc = "acted" /\ Acting(o, r)
      /\ hold' = finishApproval(o, out.state, out.notice) /\ UNCHANGED <<call, effects>>
  BY DEF FinishRun, Acting
<1>f. /\ result \in {"succeeded", "running"} => effects[o] = 1
      /\ result \in {"rejected", "cancelled"} => effects[o] = 0
      /\ hold[o].state = "approved"
  BY <1>a, <1>b DEF OpInv, RunInv
<1>1. /\ out.state \in {"executed", "failed"} /\ out.notice \in Notice
      /\ out.state = "executed" => result \in {"succeeded", "running"}
      /\ out.notice = "notrun" => result \in {"rejected", "cancelled"}
  <2> HIDE DEF result
  <2> QED
    BY DEF Outcome, Notice
<1> HIDE DEF out, result
<1> QED
  BY <1>a, <1>f, <1>1, EndStep

(* A run that left no end: the hold says that it is not known. *)
LEMMA SettleStaleStep ==
  ASSUME CoreInv, NEW o \in Ops, SettleStale(o)
  PROVE  [HC!CallNext]_HC!callVars
<1>a. hold' = finishApproval(o, "failed", "unknown") /\ UNCHANGED <<call, effects>> /\ "unknown" \in Notice
  BY DEF SettleStale, Notice
<1>1. CASE hold[o].state = "approved"
  BY <1>a, <1>1, EndStep
<1>2. CASE hold[o].state # "approved"
  <2>1. hold' = hold
    BY <1>a, <1>2 DEF finishApproval
  <2> QED
    BY <1>a, <2>1, SameStage, Stutter DEF CoreInv
<1> QED
  BY <1>1, <1>2

(* A hold's claim, its mark of being told and its age are no stage of it. *)
LEMMA InnerStep ==
  ASSUME CoreInv,
         \A o \in Ops : /\ call'[o] = "allow" <=> call[o] = "allow"
                        /\ hold'[o].state = hold[o].state /\ hold'[o].notice = hold[o].notice,
         effects' = effects
  PROVE  UNCHANGED HC!callVars
<1>1. \A o \in Ops : Stage(o)' = Stage(o)
  BY SameStage DEF CoreInv
<1> QED
  BY <1>1, Stutter

(* A claim of the run, by a pass or by a request. *)
LEMMA ClaimStep ==
  ASSUME CoreInv, NEW o \in Ops, ClaimByConsole(o) \/ SettleRun(o)
  PROVE  UNCHANGED HC!callVars
<1>b. hold \in [Ops -> Hold] /\ hold[o] \in Hold
  BY DEF CoreInv, TypeOK
<1> DEFINE h == [hold[o] EXCEPT !.age = 0]
<1>1. h.state = hold[o].state /\ h.notice = hold[o].notice
  BY <1>b DEF Hold
<1>2. hold' \in {hold, [hold EXCEPT ![o] = h]} /\ UNCHANGED <<call, effects>>
  BY DEF ClaimByConsole, SettleRun
<1> HIDE DEF h
<1>3. \A p \in Ops : hold'[p].state = hold[p].state /\ hold'[p].notice = hold[p].notice
  BY <1>b, <1>1, <1>2
<1> QED
  BY <1>2, <1>3, InnerStep

(* Marking a notice as told, or as not told after all. *)
LEMMA MarkStep ==
  ASSUME CoreInv, (\E o \in Ops : TellClaim(o)) \/ TellFails
  PROVE  UNCHANGED HC!callVars
<1>b. TypeOK
  BY DEF CoreInv
<1>1. PICK o \in Ops, b \in BOOLEAN : hold' = [hold EXCEPT ![o].told = b]
  BY <1>b DEF TellClaim, TellFails, TypeOK
<1>2. UNCHANGED <<call, effects>>
  BY DEF TellClaim, TellFails
<1>3. \A p \in Ops : hold'[p].state = hold[p].state /\ hold'[p].notice = hold[p].notice
  BY <1>b, <1>1, MarkEffect
<1> QED
  BY <1>2, <1>3, InnerStep

(* Time moves no call to another stage. *)
LEMMA TickStep ==
  ASSUME CoreInv, Tick
  PROVE  UNCHANGED HC!callVars
<1>1. ASSUME NEW o \in Ops
      PROVE  hold'[o].state = hold[o].state /\ hold'[o].notice = hold[o].notice
  <2> DEFINE t == IF hold[o].state = "pending" /\ hold[o].ttl > 0 THEN hold[o].ttl - 1 ELSE hold[o].ttl
             a == IF hold[o].age # None /\ hold[o].age < GraceTicks THEN hold[o].age + 1 ELSE hold[o].age
             h == [hold[o] EXCEPT !.ttl = t, !.age = a]
  <2>1. hold[o] \in Hold
    BY DEF CoreInv, TypeOK
  <2>2. hold'[o] = h
    BY <2>1 DEF Tick
  <2> HIDE DEF t, a
  <2> QED
    BY <2>1, <2>2 DEF Hold
<1>2. UNCHANGED <<call, effects>>
  BY DEF Tick
<1> QED
  BY <1>1, <1>2, InnerStep

(* A stop drops what was in memory; no call moves. *)
LEMMA EvictStep ==
  ASSUME CoreInv, Evict
  PROVE  UNCHANGED HC!callVars
<1>1. /\ \A o \in Ops : call'[o] = "allow" <=> call[o] = "allow"
      /\ UNCHANGED <<hold, effects>>
  BY DEF Evict
<1> QED
  BY <1>1, InnerStep

(* Every step of the gate is a step of HeldCall, or none. *)
LEMMA CallStep ==
  ASSUME IndInv, [Next]_vars
  PROVE  [HC!CallNext]_HC!callVars
<1>b. CoreInv
  BY DEF IndInv
<1>1. ASSUME NEW p \in Policies, SetPolicy(p) PROVE [HC!CallNext]_HC!callVars
  <2>1. UNCHANGED <<call, hold, effects>>
    BY <1>1 DEF SetPolicy
  <2> QED
    BY <1>b, <2>1, InnerStep
<1>2. ASSUME NEW o \in Ops, NEW confirm \in BOOLEAN, Invoke(o, confirm) PROVE [HC!CallNext]_HC!callVars
  BY <1>b, <1>2, InvokeStep
<1>3. ASSUME NEW o \in Ops, NEW d \in {"approved", "denied"}, DecideByProvider(o, d) \/ DecideByConsole(o, d)
      PROVE  [HC!CallNext]_HC!callVars
  <2>1. Apply(o, d) /\ UNCHANGED <<call, effects>>
    BY <1>3 DEF DecideByProvider, DecideByConsole
  <2> QED
    BY <1>b, <2>1, DecideStep
<1>4. ASSUME NEW o \in Ops, ApproveByConsole(o) PROVE [HC!CallNext]_HC!callVars
  <2>1. Apply(o, "approved") /\ UNCHANGED <<call, effects>>
    BY <1>4 DEF ApproveByConsole
  <2> QED
    BY <1>b, <2>1, DecideStep
<1>5. ASSUME NEW o \in Ops, Dispatch(o) PROVE [HC!CallNext]_HC!callVars
  <2>1. UNCHANGED <<call, hold, effects>>
    BY <1>5 DEF Dispatch
  <2> QED
    BY <1>b, <2>1, InnerStep
<1>6. ASSUME NEW o \in Ops, \/ holdApproval(o) \/ ClaimByConsole(o) \/ SettleRun(o) \/ SettleStale(o) \/ TellClaim(o)
      PROVE  [HC!CallNext]_HC!callVars
  BY <1>b, <1>6, HoldStep, ClaimStep, SettleStaleStep, MarkStep
<1>7. ASSUME NEW o \in Ops, NEW r \in Runners, StartRun(o, r) PROVE [HC!CallNext]_HC!callVars
  <2>1. UNCHANGED <<call, hold, effects>>
    BY <1>7 DEF StartRun
  <2> QED
    BY <1>b, <2>1, InnerStep
<1>8. ASSUME NEW o \in Ops, NEW r \in Runners, Act(o, r) \/ FinishRun(o, r) PROVE [HC!CallNext]_HC!callVars
  BY <1>b, <1>8, ActStep, FinishRunStep
<1>9. ASSUME ListApprovals \/ PassBegins PROVE [HC!CallNext]_HC!callVars
  <2>1. Expired(Due) /\ UNCHANGED <<call, effects>> /\ Due \subseteq Ops
    BY <1>9 DEF ListApprovals, PassBegins, Due, Pending
  <2>2. TypeOK /\ \A p \in Ops : call[p] # "held" => hold[p] = NoHold
    BY <1>b DEF CoreInv, OpInv, CallInv
  <2> QED
    BY <2>1, <2>2, ExpiredEffect, RefuseStep
<1>10. ASSUME \/ Wake \/ TellBegins \/ TellLands \/ TurnBegins \/ PassThrows \/ PassEnds \/ UNCHANGED vars
       PROVE  [HC!CallNext]_HC!callVars
  <2>1. UNCHANGED <<call, hold, effects>>
    BY <1>10 DEF Wake, TellBegins, TellLands, TurnBegins, PassThrows, PassEnds, vars
  <2> QED
    BY <1>b, <2>1, InnerStep
<1>11. ASSUME TellFails \/ Evict \/ Tick PROVE [HC!CallNext]_HC!callVars
  BY <1>b, <1>11, MarkStep, EvictStep, TickStep
<1> QED
  BY <1>1, <1>2, <1>3, <1>4, <1>5, <1>6, <1>7, <1>8, <1>9, <1>10, <1>11 DEF Next

(* The gate implements HeldCall, for every set of operations and all       *)
(* times: one effect at most, after the approval and before the end, and   *)
(* an end that says what happened.                                         *)
THEOREM Refinement == Spec => ImplementsHeldCall
<1>1. Init => HC!CallInit
  BY DEF Init, NoHold, Row, HC!CallInit, stageBar, Stage
<1>2. QED
  BY <1>1, CallStep, Invariance, PTL DEF Spec, ImplementsHeldCall, HC!CallSpec

-----------------------------------------------------------------------------
(* How a hold moves, whoever moves it *)

(* The columns of a hold that no claim and no mark writes. *)
SameEnd(o) == hold'[o].state = hold[o].state /\ hold'[o].notice = hold[o].notice

(* The seven things that become of a hold in a step. *)
Opened(o)  == call[o] = "approval" /\ hold[o].state = "none" /\ hold'[o] = NewHold
Claimed(o) == /\ hold[o].state = "approved" /\ hold[o].age = None
              /\ SameEnd(o) /\ hold'[o].age = 0
              /\ hold'[o].ttl = hold[o].ttl /\ hold'[o].told = hold[o].told
Ended(o)   == /\ hold[o].state = "approved" /\ hold'[o].state \in {"executed", "failed"}
              /\ hold'[o].age = hold[o].age /\ hold'[o].told = hold[o].told
Marked(o)  == SameEnd(o) /\ hold'[o].age = hold[o].age /\ hold'[o].ttl = hold[o].ttl
Aged(o)    == /\ Tick /\ SameEnd(o) /\ hold'[o].told = hold[o].told
              /\ hold'[o].age = None <=> hold[o].age = None
              /\ hold[o].age # None => hold'[o].age >= hold[o].age
              /\ hold'[o].ttl = IF hold[o].state = "pending" /\ hold[o].ttl > 0
                                THEN hold[o].ttl - 1 ELSE hold[o].ttl

HoldMove(o) ==
  \/ hold'[o] = hold[o]
  \/ Opened(o)
  \/ \E s \in {"approved", "denied", "expired"} : DecidedAs(o, s)
  \/ Claimed(o) \/ Ended(o) \/ Marked(o) \/ Aged(o)

(* claimApprovalRun writes run_at and nothing else. *)
LEMMA ClaimEffect ==
  ASSUME TypeOK, NEW o \in Ops, claimApprovalRun(o), hold' = [hold EXCEPT ![o].age = 0]
  PROVE  Claimed(o) /\ \A p \in Ops : p # o => hold'[p] = hold[p]
<1>1. hold \in [Ops -> Hold] /\ hold[o] \in Hold
  BY DEF TypeOK
<1> DEFINE h == [hold[o] EXCEPT !.age = 0]
<1>2. h.state = hold[o].state /\ h.notice = hold[o].notice /\ h.age = 0
      /\ h.ttl = hold[o].ttl /\ h.told = hold[o].told
  BY <1>1 DEF Hold
<1>3. hold' = [hold EXCEPT ![o] = h]
  BY <1>1
<1> HIDE DEF h
<1> QED
  BY <1>1, <1>2, <1>3 DEF Claimed, SameEnd, claimApprovalRun

(* The outcomes are ends, with a notice each. *)
LEMMA OutcomeTyped ==
  ASSUME NEW result
  PROVE  Outcome(result).state \in {"executed", "failed"} /\ Outcome(result).notice \in Notice
BY DEF Outcome, Notice

(* Every step moves each hold in one of these ways, or not at all. *)
LEMMA HoldMoves ==
  ASSUME IndInv, [Next]_vars, NEW o \in Ops
  PROVE  HoldMove(o)
<1> USE DEF HoldMove
<1>b. CoreInv /\ TypeOK /\ hold \in [Ops -> Hold]
  BY DEF IndInv, CoreInv, TypeOK
<1>1. ASSUME NEW p \in Ops, NEW d \in {"approved", "denied"}, Apply(p, d) PROVE HoldMove(o)
  BY <1>b, <1>1, ApplyEffect DEF MayDecide
<1>2. ASSUME Expired(Due) PROVE HoldMove(o)
  <2>1. Due \subseteq Ops
    BY DEF Due, Pending
  <2> QED
    BY <1>b, <1>2, <2>1, ExpiredEffect
<1>3. ASSUME NEW p \in Ops, holdApproval(p) PROVE HoldMove(o)
  <2>1. call[p] = "approval" /\ hold[p].state = "none"
    BY <1>b, <1>3 DEF holdApproval, CoreInv, OpInv, CallInv, NoHold, Row
  <2>2. hold' \in {hold, [hold EXCEPT ![p] = NewHold]}
    BY <1>3 DEF holdApproval
  <2> QED
    BY <1>b, <2>1, <2>2 DEF Opened
<1>4. ASSUME NEW p \in Ops, ClaimByConsole(p) \/ SettleRun(p) PROVE HoldMove(o)
  <2>1. hold' = hold \/ (claimApprovalRun(p) /\ hold' = [hold EXCEPT ![p].age = 0])
    BY <1>4 DEF ClaimByConsole, SettleRun
  <2> QED
    BY <1>b, <2>1, ClaimEffect
<1>5. ASSUME NEW p \in Ops, NEW s \in {"executed", "failed"}, NEW n \in Notice,
             hold' = finishApproval(p, s, n)
      PROVE  HoldMove(o)
  BY <1>b, <1>5, FinishEffect DEF Ended
<1>6. ASSUME NEW p \in Ops, SettleStale(p) PROVE HoldMove(o)
  <2>1. hold' = finishApproval(p, "failed", "unknown") /\ "unknown" \in Notice
    BY <1>6 DEF SettleStale, Notice
  <2> QED
    BY <1>5, <2>1
<1>7. ASSUME NEW p \in Ops, NEW r \in Runners, FinishRun(p, r) PROVE HoldMove(o)
  <2> DEFINE out == Outcome(exec[p][r].result)
  <2>1. hold' = finishApproval(p, out.state, out.notice)
    BY <1>7 DEF FinishRun
  <2>2. out.state \in {"executed", "failed"} /\ out.notice \in Notice
    BY OutcomeTyped
  <2> HIDE DEF out
  <2> QED
    BY <1>5, <2>1, <2>2
<1>8. ASSUME (\E p \in Ops : TellClaim(p)) \/ TellFails PROVE HoldMove(o)
  <2>1. PICK p \in Ops, b \in BOOLEAN : hold' = [hold EXCEPT ![p].told = b]
    BY <1>b, <1>8 DEF TellClaim, TellFails, TypeOK
  <2> QED
    BY <1>b, <2>1, MarkEffect DEF Marked, SameEnd
<1>9. ASSUME Tick PROVE HoldMove(o)
  <2>1. hold[o].age \in 0..GraceTicks \cup {None} /\ None \notin Nat /\ GraceTicks \in Nat
    BY <1>b, Fields, ApprovalsAssumption
  <2>2. /\ SameEnd(o) /\ hold'[o].told = hold[o].told
        /\ hold'[o].ttl = IF hold[o].state = "pending" /\ hold[o].ttl > 0 THEN hold[o].ttl - 1 ELSE hold[o].ttl
        /\ hold'[o].age = IF hold[o].age # None /\ hold[o].age < GraceTicks THEN hold[o].age + 1 ELSE hold[o].age
    BY <1>b, <1>9, TickEffect DEF SameEnd
  <2>3. /\ hold'[o].age = None <=> hold[o].age = None
        /\ hold[o].age # None => hold'[o].age >= hold[o].age
    BY <2>1, <2>2
  <2> QED
    BY <1>9, <2>2, <2>3 DEF Aged
<1>10. ASSUME hold' = hold PROVE HoldMove(o)
  BY <1>10
<1> HIDE DEF HoldMove
<1> QED
  BY <1>1, <1>2, <1>3, <1>4, <1>6, <1>7, <1>8, <1>9, <1>10
  DEF Next, SetPolicy, Invoke, DecideByProvider, DecideByConsole, ApproveByConsole, Dispatch,
      StartRun, Act, ListApprovals, Wake, PassBegins, TellBegins, TellLands, TurnBegins,
      PassThrows, PassEnds, Evict, vars

(* What was decided stays decided and what was ended stays as it ended: an *)
(* approved hold is never refused or pending again, its claim is never     *)
(* taken back, and neither a late runner nor a pass that gave the run up   *)
(* rewrites the end the other wrote.                                       *)
DecisionFinal ==
  \A o \in Ops :
    /\ hold[o].state # "none" => hold'[o].state # "none"
    /\ hold[o].state = "approved" => hold'[o].state \in {"approved", "executed", "failed"}
    /\ hold[o].state \in FinalStates => SameEnd(o)
    /\ hold[o].age # None => hold'[o].age # None /\ hold'[o].age >= hold[o].age

(* applyApproval, claimApprovalRun and finishApproval each write over one  *)
(* earlier state only, so their races leave the first writer's decision.   *)
THEOREM Deciding == Spec => [][DecisionFinal]_vars
<1>1. ASSUME IndInv, [Next]_vars PROVE DecisionFinal
  <2>1. ASSUME NEW o \in Ops
        PROVE  /\ hold[o].state # "none" => hold'[o].state # "none"
               /\ hold[o].state = "approved" => hold'[o].state \in {"approved", "executed", "failed"}
               /\ hold[o].state \in FinalStates => SameEnd(o)
    BY <1>1, HoldMoves
    DEF HoldMove, Opened, DecidedAs, Claimed, Ended, Marked, Aged, SameEnd, FinalStates
  <2>2. ASSUME NEW o \in Ops, hold[o].age # None
        PROVE  hold'[o].age # None /\ hold'[o].age >= hold[o].age
    <3>1. hold[o].age \in Nat /\ hold[o].state # "none"
      BY <1>1, <2>2, Fields, ApprovalsAssumption DEF IndInv, CoreInv, OpInv, CallInv, NoHold, Row
    <3>2. hold[o].age >= hold[o].age
      BY <3>1
    <3> QED
      BY <1>1, <2>2, <3>1, <3>2, HoldMoves
      DEF HoldMove, Opened, DecidedAs, Claimed, Ended, Marked, Aged
  <2> QED
    BY <2>1, <2>2 DEF DecisionFinal
<1> QED
  BY <1>1, Invariance, PTL DEF Spec

-----------------------------------------------------------------------------
(* What brings the object back for a held call *)

(* The deadline armed is no later than that of any pending hold. *)
LEMMA DeadlineFirst ==
  ASSUME TypeOK, NEW o \in Pending
  PROVE  approvalDeadline # None /\ approvalDeadline <= hold[o].ttl
<1> DEFINE T == {hold[p].ttl : p \in Pending}
<1>1. T \subseteq 0..TtlTicks /\ T # {} /\ Pending # {}
  BY Fields DEF Pending
<1>2. \E t \in T : \A u \in T : u >= t
  <2>1. T \subseteq Nat
    BY <1>1, ApprovalsAssumption
  <2> HIDE DEF T
  <2> QED
    BY <1>1, <2>1, LeastNat
<1>3. \E t \in 0..TtlTicks : (\E p \in Pending : hold[p].ttl = t) /\ (\A p \in Pending : hold[p].ttl >= t)
  BY <1>1, <1>2
<1>4. /\ approvalDeadline \in 0..TtlTicks
      /\ \A p \in Pending : hold[p].ttl >= approvalDeadline
  BY <1>1, <1>3 DEF approvalDeadline
<1>5. hold[o].ttl \in 0..TtlTicks
  BY Fields DEF Pending
<1> QED
  BY <1>4, <1>5, ApprovalsAssumption

(* Outside a pass, a held call that waits for a person has a wake asked    *)
(* for, or an alarm armed at its deadline or before it; so has a call on   *)
(* its way to being held. It is what PendingEnds rests on: no stand-down,  *)
(* eviction or late hold leaves a pending call that nothing will expire.   *)
PendingHasAlarm ==
  pass = "none" =>
    /\ (\E o \in Ops : call[o] = "approval") => woken
    /\ \A o \in Pending : woken \/ (armed # None /\ armed <= hold[o].ttl)

(* Between two passes the alarm only gets nearer: nothing but a pass takes *)
(* a wake away or moves the deadline.                                      *)
LEMMA AlarmMoves ==
  ASSUME TypeOK, [Next]_vars, pass' = "none"
  PROVE  \/ PassEnds
         \/ Evict /\ pass # "none"
         \/ /\ pass = "none" /\ (woken => woken')
            /\ \A o \in Ops : call'[o] = "approval" => call[o] = "approval"
            /\ (armed' = armed /\ ~Tick) \/ Tick
<1> USE DEF passVars, alarmVars
<1>1. ASSUME NEW p \in Policies, SetPolicy(p) PROVE pass = "none" /\ (woken => woken') /\ call' = call /\ armed' = armed
  BY <1>1 DEF SetPolicy
<1>2. ASSUME NEW o \in Ops, NEW confirm \in BOOLEAN, Invoke(o, confirm) PROVE FALSE
  BY <1>2 DEF Invoke
<1>3. ASSUME NEW o \in Ops, NEW d \in {"approved", "denied"}, DecideByProvider(o, d) \/ DecideByConsole(o, d)
      PROVE  pass = "none" /\ woken' /\ call' = call /\ armed' = armed
  BY <1>3 DEF DecideByProvider, DecideByConsole
<1>4. ASSUME NEW o \in Ops, holdApproval(o)
      PROVE  /\ pass = "none" /\ woken' = woken /\ armed' = armed
             /\ \A p \in Ops : call'[p] = "approval" => call[p] = "approval"
  BY <1>4 DEF holdApproval, TypeOK
<1>5. ASSUME NEW o \in Ops, \/ ApproveByConsole(o) \/ ClaimByConsole(o) \/ Dispatch(o)
                            \/ SettleRun(o) \/ SettleStale(o) \/ TellClaim(o)
      PROVE  pass = "none" /\ (woken => woken') /\ call' = call /\ armed' = armed
  BY <1>5 DEF ApproveByConsole, ClaimByConsole, Dispatch, SettleRun, SettleStale, TellClaim
<1>6. ASSUME NEW o \in Ops, NEW r \in Runners, StartRun(o, r) \/ Act(o, r) \/ FinishRun(o, r)
      PROVE  pass = "none" /\ (woken => woken') /\ call' = call /\ armed' = armed
  <2>1. CASE StartRun(o, r) \/ Act(o, r)
    BY <2>1 DEF StartRun, Act
  <2>2. CASE FinishRun(o, r)
    <3>1. woken' = (woken \/ r = "console") /\ UNCHANGED <<pass, call, armed>>
      BY <2>2 DEF FinishRun
    <3> QED
      BY <3>1
  <2> QED
    BY <1>6, <2>1, <2>2
<1>7. ASSUME ListApprovals \/ Wake \/ TellLands \/ TellFails \/ UNCHANGED vars
      PROVE  pass = "none" /\ (woken => woken') /\ call' = call /\ armed' = armed
  BY <1>7 DEF ListApprovals, Wake, TellLands, TellFails, vars
<1>8. ASSUME PassBegins \/ TellBegins \/ TurnBegins \/ PassThrows PROVE FALSE
  BY <1>8 DEF PassBegins, TellBegins, TurnBegins, PassThrows
<1>9. ASSUME Evict, pass = "none"
      PROVE  /\ (woken => woken') /\ armed' = armed
             /\ \A p \in Ops : call'[p] = "approval" => call[p] = "approval"
  BY <1>9 DEF Evict, TypeOK
<1>10. ASSUME Tick PROVE pass = "none" /\ woken' = woken /\ call' = call
  BY <1>10 DEF Tick
<1> QED
  BY <1>1, <1>2, <1>3, <1>4, <1>5, <1>6, <1>7, <1>8, <1>9, <1>10 DEF Next

(* Every step keeps a pending hold under an alarm. *)
LEMMA AlarmKeeps ==
  ASSUME IndInv, PendingHasAlarm, [Next]_vars
  PROVE  PendingHasAlarm'
<1>b. TypeOK /\ armed \in 0..TtlTicks \cup {None} /\ TtlTicks \in Nat /\ None \notin Nat
  BY ApprovalsAssumption DEF IndInv, CoreInv, TypeOK
<1>s. SUFFICES ASSUME pass' = "none" PROVE PendingHasAlarm'
  BY DEF PendingHasAlarm
<1>1. CASE PassEnds
  <2>1. /\ woken' = (woken \/ Running("turn") \/ \E o \in Ops : call[o] = "approval")
        /\ armed' = approvalDeadline /\ UNCHANGED <<call, hold>>
    BY <1>1 DEF PassEnds
  <2>2. \A o \in Pending : armed' # None /\ armed' <= hold'[o].ttl
    BY <1>b, <2>1, DeadlineFirst
  <2> QED
    BY <2>1, <2>2 DEF PendingHasAlarm, Pending
<1>2. CASE Evict /\ pass # "none"
  BY <1>2 DEF Evict, PendingHasAlarm
<1>3. ASSUME /\ pass = "none" /\ (woken => woken')
             /\ \A o \in Ops : call'[o] = "approval" => call[o] = "approval"
             /\ (armed' = armed /\ ~Tick) \/ Tick
      PROVE  PendingHasAlarm'
  <2>1. CASE woken
    BY <1>3, <2>1 DEF PendingHasAlarm
  <2>2. CASE ~woken
    <3>1. /\ \A o \in Ops : call[o] # "approval" /\ call'[o] # "approval"
          /\ \A o \in Pending : armed # None /\ armed <= hold[o].ttl
      BY <1>3, <2>2 DEF PendingHasAlarm
    <3>2. ASSUME NEW o \in Ops, hold'[o].state = "pending"
          PROVE  armed' # None /\ armed' <= hold'[o].ttl
      <4>1. /\ hold[o].state = "pending"
            /\ (~Tick => hold'[o].ttl = hold[o].ttl)
            /\ (Tick => hold'[o].ttl = IF hold[o].ttl > 0 THEN hold[o].ttl - 1 ELSE hold[o].ttl)
        <5>1. hold[o].state = "pending" /\ \/ hold'[o].ttl = hold[o].ttl /\ ~Aged(o)
                                           \/ Aged(o)
          BY <3>1, <3>2, HoldMoves
          DEF HoldMove, Opened, DecidedAs, Claimed, Ended, Marked, SameEnd, Aged
        <5>2. CASE Tick
          <6>1. hold'[o].ttl = IF hold[o].state = "pending" /\ hold[o].ttl > 0 THEN hold[o].ttl - 1 ELSE hold[o].ttl
            BY <1>b, <5>2, TickEffect
          <6> QED
            BY <5>1, <5>2, <6>1
        <5>3. CASE ~Tick
          BY <5>1, <5>3 DEF Aged
        <5> QED
          BY <5>2, <5>3
      <4>2. armed \in Nat /\ hold[o].ttl \in Nat /\ armed <= hold[o].ttl
        BY <1>b, <3>1, <4>1, Fields DEF Pending
      <4>3. CASE Tick
        <5>1. armed' = IF armed # None /\ armed > 0 THEN armed - 1 ELSE armed
          BY <4>3 DEF Tick
        <5> QED
          BY <1>b, <4>1, <4>2, <4>3, <5>1
      <4>4. CASE ~Tick
        BY <1>3, <1>b, <4>1, <4>2, <4>4
      <4> QED
        BY <4>3, <4>4
    <3> QED
      BY <3>1, <3>2 DEF PendingHasAlarm, Pending
  <2> QED
    BY <2>1, <2>2
<1> QED
  BY <1>b, <1>s, <1>1, <1>2, <1>3, AlarmMoves

(* A pending call is never left without the alarm that will expire it. *)
THEOREM Arming == Spec => []PendingHasAlarm
<1>1. Init => PendingHasAlarm
  BY DEF Init, PendingHasAlarm, Pending, NoHold, Row
<1>2. IndInv /\ PendingHasAlarm /\ [Next]_vars => PendingHasAlarm'
  BY AlarmKeeps
<1> QED
  BY <1>1, <1>2, Invariance, PTL DEF Spec

-----------------------------------------------------------------------------
(* What is approved is run, and what has ended is told *)

(* The pass has rows to settle, and runs a call, while it settles, and     *)
(* rows to tell while it tells.                                            *)
PassInv ==
  /\ \A o \in Ops : exec[o]["pass"].pc # "none" => pass = "settle"
  /\ \A o \in Ops : <<o, "run">> \in todo \/ <<o, "end">> \in todo => pass = "settle"
  /\ \A o \in Ops : <<o, "tell">> \in todo => pass = "tell"

(* Only its claim by the pass starts a run of the pass, and a request's    *)
(* intent to claim ends with its claim.                                    *)
LEMMA RunnerMoves ==
  ASSUME TypeOK, [Next]_vars, ~Evict, NEW o \in Ops
  PROVE  /\ exec'[o]["pass"].pc # "none" => exec[o]["pass"].pc # "none" \/ SettleRun(o)
         /\ exec[o]["console"].pc = "claim" => exec'[o]["console"].pc = "claim" \/ ClaimByConsole(o)
<1> DEFINE Goal == /\ exec'[o]["pass"].pc # "none" => exec[o]["pass"].pc # "none" \/ SettleRun(o)
                   /\ exec[o]["console"].pc = "claim" => exec'[o]["console"].pc = "claim" \/ ClaimByConsole(o)
<1>b. exec \in [Ops -> [Runners -> Exec]] /\ NoExec.pc = "none"
      /\ \A c, x : Entry(c, x).pc = c
  BY DEF TypeOK, NoExec, Entry
<1>1. ASSUME NEW p \in Ops, NEW confirm \in BOOLEAN, Invoke(p, confirm) PROVE Goal
  <2>1. exec' \in {exec, [exec EXCEPT ![p]["turn"] = Entry("invoke", "none")]}
    BY <1>1 DEF Invoke
  <2> QED
    BY <1>b, <2>1 DEF Runners
<1>2. ASSUME NEW p \in Ops, ApproveByConsole(p) PROVE Goal
  <2>1. exec' = [exec EXCEPT ![p]["console"] = Entry("claim", "none")]
    BY <1>2 DEF ApproveByConsole
  <2> QED
    BY <1>b, <2>1 DEF Runners
<1>3. ASSUME NEW p \in Ops, ClaimByConsole(p) PROVE Goal
  <2>1. exec' \in {[exec EXCEPT ![p]["console"] = Entry("invoke", "none")], [exec EXCEPT ![p]["console"] = NoExec]}
    BY <1>3 DEF ClaimByConsole
  <2> QED
    BY <1>b, <1>3, <2>1 DEF Runners
<1>4. ASSUME NEW p \in Ops, Dispatch(p) PROVE Goal
  <2>1. exec' = [exec EXCEPT ![p]["turn"] = NoExec]
    BY <1>4 DEF Dispatch
  <2> QED
    BY <1>b, <2>1 DEF Runners
<1>5. ASSUME NEW p \in Ops, SettleRun(p) PROVE Goal
  <2>1. exec' \in {exec, [exec EXCEPT ![p]["pass"] = Entry("invoke", "none")]}
    BY <1>5 DEF SettleRun
  <2> QED
    BY <1>b, <1>5, <2>1 DEF Runners
<1>6. ASSUME NEW p \in Ops, NEW r \in Runners, StartRun(p, r) \/ Act(p, r) \/ FinishRun(p, r) PROVE Goal
  <2>1. exec[p][r].pc \in {"invoke", "act", "acted"}
    BY <1>6 DEF StartRun, Act, FinishRun
  <2>2. PICK x : exec' = [exec EXCEPT ![p][r] = x]
    BY <1>6 DEF StartRun, Act, FinishRun
  <2>3. \A q \in Ops, s \in Runners : exec'[q][s] = exec[q][s] \/ (q = p /\ s = r)
    BY <1>b, <2>2
  <2> QED
    BY <2>1, <2>3 DEF Runners
<1>7. ASSUME exec' = exec PROVE Goal
  BY <1>7, Zenon
<1> HIDE DEF Goal
<1> QED
  BY <1>1, <1>2, <1>3, <1>4, <1>5, <1>6, <1>7
  DEF Next, SetPolicy, DecideByProvider, DecideByConsole, holdApproval, SettleStale, TellClaim,
      ListApprovals, Wake, PassBegins, TellBegins, TellLands, TellFails, TurnBegins, PassThrows,
      PassEnds, Tick, vars, Goal

(* What becomes of the pass and of its list in a step. *)
LEMMA PassMoves ==
  ASSUME TypeOK, [Next]_vars
  PROVE  \/ UNCHANGED <<pass, todo>>
         \/ \E o \in Ops : /\ SettleRun(o) \/ SettleStale(o) \/ TellClaim(o)
                           /\ pass' = pass /\ todo' \subseteq todo
         \/ PassBegins \/ TellBegins \/ TurnBegins \/ PassThrows \/ PassEnds \/ Evict
<1>1. ASSUME NEW o \in Ops, SettleRun(o) \/ SettleStale(o) \/ TellClaim(o)
      PROVE  pass' = pass /\ todo' \subseteq todo
  BY <1>1 DEF SettleRun, SettleStale, TellClaim
<1>2. ASSUME NEW o \in Ops, holdApproval(o) \/ ApproveByConsole(o) \/ ClaimByConsole(o) \/ Dispatch(o)
      PROVE  UNCHANGED <<pass, todo>>
  BY <1>2 DEF holdApproval, ApproveByConsole, ClaimByConsole, Dispatch, passVars
<1>3. ASSUME NEW o \in Ops, NEW r \in Runners, StartRun(o, r) \/ Act(o, r) \/ FinishRun(o, r)
      PROVE  UNCHANGED <<pass, todo>>
  BY <1>3 DEF StartRun, Act, FinishRun, passVars
<1>4. ASSUME NEW o \in Ops, NEW d \in {"approved", "denied"}, DecideByProvider(o, d) \/ DecideByConsole(o, d)
      PROVE  UNCHANGED <<pass, todo>>
  BY <1>4 DEF DecideByProvider, DecideByConsole, passVars
<1>5. ASSUME \/ (\E p \in Policies : SetPolicy(p)) \/ ListApprovals \/ Wake \/ TellLands \/ TellFails \/ Tick
             \/ (\E o \in Ops, confirm \in BOOLEAN : Invoke(o, confirm)) \/ UNCHANGED vars
      PROVE  UNCHANGED <<pass, todo>>
  BY <1>5 DEF SetPolicy, ListApprovals, Wake, TellLands, TellFails, Tick, Invoke, vars, passVars
<1> QED
  BY <1>1, <1>2, <1>3, <1>4, <1>5 DEF Next

(* Every step keeps the pass and its list together. *)
LEMMA PassKeeps ==
  ASSUME IndInv, PassInv, [Next]_vars
  PROVE  PassInv'
<1>b. TypeOK
  BY DEF IndInv, CoreInv
<1>r. ASSUME ~Evict, NEW o \in Ops, exec'[o]["pass"].pc # "none" PROVE pass = "settle"
  BY <1>b, <1>r, RunnerMoves DEF PassInv, SettleRun
<1>1. CASE UNCHANGED <<pass, todo>> /\ ~Evict
  BY <1>r, <1>1 DEF PassInv
<1>2. ASSUME NEW o \in Ops, SettleRun(o) \/ SettleStale(o) \/ TellClaim(o),
             pass' = pass, todo' \subseteq todo, ~Evict
      PROVE  PassInv'
  BY <1>r, <1>2 DEF PassInv
<1>3. CASE PassBegins /\ ~Evict
  <2>1. pass = "none" /\ pass' = "settle" /\ \A o \in Ops : <<o, "tell">> \notin todo'
    BY <1>3 DEF PassBegins
  <2> QED
    BY <1>r, <1>3, <2>1 DEF PassInv
<1>4. CASE TellBegins /\ ~Evict
  <2>1. /\ ~Running("pass") /\ exec' = exec /\ pass' = "tell"
        /\ \A o \in Ops : <<o, "run">> \notin todo' /\ <<o, "end">> \notin todo'
    BY <1>4 DEF TellBegins
  <2> QED
    BY <2>1 DEF PassInv, Running
<1>5. CASE (TurnBegins \/ PassThrows) /\ ~Evict
  <2>1. pass' = "turn" /\ todo' = {} /\ exec' = exec /\ (pass = "tell" \/ ~Running("pass"))
    BY <1>5 DEF TurnBegins, PassThrows
  <2>2. \A o \in Ops : exec'[o]["pass"].pc = "none"
    BY <2>1 DEF PassInv, Running
  <2> QED
    BY <2>1, <2>2 DEF PassInv
<1>6. CASE PassEnds /\ ~Evict
  <2>1. pass = "turn" /\ pass' = "none" /\ UNCHANGED <<exec, todo>>
    BY <1>6 DEF PassEnds
  <2> QED
    BY <2>1 DEF PassInv
<1>7. CASE Evict
  <2>1. todo' = {} /\ \A o \in Ops : exec'[o]["pass"].pc = "none"
    BY <1>7 DEF Evict, NoExec, Entry, Runners
  <2> QED
    BY <2>1 DEF PassInv
<1> QED
  BY <1>b, <1>1, <1>2, <1>3, <1>4, <1>5, <1>6, <1>7, PassMoves

(* The pass has its list while it works on it. *)
LEMMA Passes == Spec => []PassInv
<1>1. Init => PassInv
  BY DEF Init, PassInv, NoExec, Entry, Runners
<1>2. IndInv /\ PassInv /\ [Next]_vars => PassInv'
  BY PassKeeps
<1> QED
  BY <1>1, <1>2, Invariance, PTL DEF Spec

(* A wake asked for is there until a pass begins. *)
LEMMA WokenStays ==
  ASSUME TypeOK, [Next]_vars, woken, ~PassBegins
  PROVE  woken'
<1> USE DEF alarmVars
<1>1. ASSUME NEW o \in Ops, NEW r \in Runners, StartRun(o, r) \/ Act(o, r) PROVE woken'
  BY <1>1 DEF StartRun, Act
<1>2. ASSUME NEW o \in Ops, NEW r \in Runners, FinishRun(o, r) PROVE woken'
  <2>1. woken' = (woken \/ r = "console")
    BY <1>2 DEF FinishRun
  <2> QED
    BY <2>1
<1>3. ASSUME NEW o \in Ops, \/ holdApproval(o) \/ ApproveByConsole(o) \/ ClaimByConsole(o) \/ Dispatch(o)
                            \/ SettleRun(o) \/ SettleStale(o) \/ TellClaim(o)
      PROVE  woken'
  BY <1>3 DEF holdApproval, ApproveByConsole, ClaimByConsole, Dispatch, SettleRun, SettleStale, TellClaim
<1>4. ASSUME \/ (\E p \in Policies : SetPolicy(p)) \/ (\E o \in Ops, confirm \in BOOLEAN : Invoke(o, confirm))
             \/ (\E o \in Ops, d \in {"approved", "denied"} : DecideByProvider(o, d) \/ DecideByConsole(o, d))
      PROVE  woken'
  BY <1>4 DEF SetPolicy, Invoke, DecideByProvider, DecideByConsole
<1>5. ASSUME \/ ListApprovals \/ Wake \/ TellBegins \/ TellLands \/ TellFails \/ TurnBegins \/ PassThrows
             \/ Tick \/ UNCHANGED vars
      PROVE  woken'
  BY <1>5 DEF ListApprovals, Wake, TellBegins, TellLands, TellFails, TurnBegins, PassThrows, Tick, vars
<1>6. ASSUME PassEnds PROVE woken'
  <2>1. woken' = (woken \/ Running("turn") \/ \E o \in Ops : call[o] = "approval")
    BY <1>6 DEF PassEnds
  <2> QED
    BY <2>1
<1>7. ASSUME Evict PROVE woken'
  <2>1. woken' = (woken \/ pass # "none")
    BY <1>7 DEF Evict
  <2> QED
    BY <2>1
<1> QED
  BY <1>1, <1>2, <1>3, <1>4, <1>5, <1>6, <1>7 DEF Next

(* Whoever decides or ends a hold leaves a wake, is the pass that settles, *)
(* or is a request that is about to claim the run.                         *)
LEMMA Causes ==
  ASSUME IndInv, PassInv, [Next]_vars, NEW o \in Ops, hold'[o].state # hold[o].state
  PROVE  \/ hold'[o].state = "pending"
         \/ woken'
         \/ pass' = "settle" /\ hold'[o].state # "approved"
         \/ hold'[o].state = "approved" /\ exec'[o]["console"].pc = "claim"
<1> DEFINE Goal == \/ hold'[o].state = "pending"
                   \/ woken'
                   \/ pass' = "settle" /\ hold'[o].state # "approved"
                   \/ hold'[o].state = "approved" /\ exec'[o]["console"].pc = "claim"
<1>b. TypeOK /\ hold \in [Ops -> Hold] /\ exec \in [Ops -> [Runners -> Exec]]
  BY DEF IndInv, CoreInv, TypeOK
<1>1. ASSUME \/ ListApprovals \/ Wake
             \/ \E p \in Ops, d \in {"approved", "denied"} : DecideByProvider(p, d) \/ DecideByConsole(p, d)
      PROVE  Goal
  BY <1>1 DEF ListApprovals, Wake, DecideByProvider, DecideByConsole
<1>2. ASSUME NEW p \in Ops, holdApproval(p) PROVE Goal
  <2>1. hold' \in {hold, [hold EXCEPT ![p] = NewHold]} /\ NewHold.state = "pending"
    BY <1>2 DEF holdApproval, NewHold, Row
  <2> QED
    BY <1>b, <2>1
<1>3. ASSUME NEW p \in Ops, ApproveByConsole(p) PROVE Goal
  <2>1. /\ hold' = [hold EXCEPT ![p].state = "approved",
                                ![p].notice = IF "approved" = "denied" THEN "denied" ELSE @]
        /\ exec' = [exec EXCEPT ![p]["console"] = Entry("claim", "none")]
    BY <1>3 DEF ApproveByConsole, Apply
  <2>2. o = p /\ hold'[p].state = "approved"
    <3>1. hold[p] \in Hold
      BY <1>b
    <3> QED
      BY <1>b, <2>1, <3>1 DEF Hold
  <2>3. exec'[p]["console"].pc = "claim"
    BY <1>b, <2>1 DEF Runners, Entry
  <2> QED
    BY <2>2, <2>3
<1>4. ASSUME NEW p \in Ops, ClaimByConsole(p) \/ SettleRun(p) PROVE FALSE
  <2>1. hold' = hold \/ (claimApprovalRun(p) /\ hold' = [hold EXCEPT ![p].age = 0])
    BY <1>4 DEF ClaimByConsole, SettleRun
  <2> QED
    BY <1>b, <2>1, ClaimEffect DEF Claimed, SameEnd
<1>5. ASSUME NEW p \in Ops, SettleStale(p) PROVE Goal
  <2>1. pass' = "settle" /\ hold' = finishApproval(p, "failed", "unknown") /\ "unknown" \in Notice
    BY <1>5 DEF SettleStale, PassInv, Notice
  <2> QED
    BY <1>b, <2>1, FinishEffect
<1>6. ASSUME NEW p \in Ops, NEW r \in Runners, FinishRun(p, r) PROVE Goal
  <2> DEFINE out == Outcome(exec[p][r].result)
  <2>1. /\ r # "turn" /\ exec[p][r].pc = "acted" /\ pass' = pass
        /\ hold' = finishApproval(p, out.state, out.notice)
        /\ woken' = (woken \/ r = "console")
    BY <1>6 DEF FinishRun, passVars
  <2>2. out.state \in {"executed", "failed"} /\ out.notice \in Notice
    BY OutcomeTyped
  <2> HIDE DEF out
  <2>3. hold'[o].state # "approved"
    BY <1>b, <2>1, <2>2, FinishEffect
  <2>4. CASE r = "console"
    BY <2>1, <2>4
  <2>5. CASE r = "pass"
    BY <2>1, <2>3, <2>5 DEF PassInv
  <2> QED
    BY <2>1, <2>4, <2>5 DEF Runners
<1>7. ASSUME PassBegins PROVE Goal
  <2>1. Expired(Due) /\ pass' = "settle" /\ Due \subseteq Ops
    BY <1>7 DEF PassBegins, Due, Pending
  <2> QED
    BY <1>b, <2>1, ExpiredEffect DEF DecidedAs
<1>8. ASSUME (\E p \in Ops : TellClaim(p)) \/ TellFails PROVE FALSE
  <2>1. PICK p \in Ops, b \in BOOLEAN : hold' = [hold EXCEPT ![p].told = b]
    BY <1>b, <1>8 DEF TellClaim, TellFails, TypeOK
  <2> QED
    BY <1>b, <2>1, MarkEffect
<1>9. ASSUME Tick PROVE FALSE
  BY <1>b, <1>9, TickEffect
<1>10. ASSUME hold' = hold PROVE FALSE
  BY <1>10
<1> HIDE DEF Goal
<1>11. Goal
  BY <1>1, <1>2, <1>3, <1>4, <1>5, <1>6, <1>7, <1>8, <1>9, <1>10
  DEF Next, SetPolicy, Invoke, Dispatch, StartRun, Act, TellBegins, TellLands, TurnBegins,
      PassThrows, PassEnds, Evict, vars
<1> QED
  BY <1>11 DEF Goal

(* An approved call that nobody has begun to run is about to be: a request *)
(* is claiming it, the pass has it listed, or a wake is asked for and the  *)
(* pass it brings will list it.                                            *)
ApprovedIsAwaited ==
  \A o \in Ops : hold[o].state = "approved" /\ hold[o].age = None =>
    woken \/ exec[o]["console"].pc = "claim" \/ <<o, "run">> \in todo

(* Every step but the throw of a pass that had rows left keeps it so. *)
LEMMA AwaitKeeps ==
  ASSUME IndInv, PassInv, ApprovedIsAwaited, [Next]_vars, PassThrows => TurnBegins
  PROVE  ApprovedIsAwaited'
<1>b. TypeOK
  BY DEF IndInv, CoreInv
<1>s. SUFFICES ASSUME NEW o \in Ops, hold'[o].state = "approved", hold'[o].age = None
               PROVE  woken' \/ exec'[o]["console"].pc = "claim" \/ <<o, "run">> \in todo'
  BY DEF ApprovedIsAwaited
<1>1. CASE hold[o].state # "approved"
  BY <1>s, <1>1, Causes
<1>2. CASE hold[o].state = "approved"
  <2>1. hold[o].age = None
    BY <1>s, <1>2, HoldMoves, ApprovalsAssumption
    DEF HoldMove, Opened, DecidedAs, Claimed, Ended, Marked, Aged, NewHold, Row
  <2>2. woken \/ exec[o]["console"].pc = "claim" \/ <<o, "run">> \in todo
    BY <1>2, <2>1 DEF ApprovedIsAwaited
  <2>3. ASSUME ClaimByConsole(o) \/ SettleRun(o) PROVE FALSE
    <3>1. claimApprovalRun(o)
      BY <1>2, <2>1 DEF claimApprovalRun
    <3>2. hold' = [hold EXCEPT ![o].age = 0]
      BY <2>3, <3>1 DEF ClaimByConsole, SettleRun
    <3>3. hold'[o].age = 0
      BY <1>b, <3>1, <3>2, ClaimEffect DEF Claimed
    <3> QED
      BY <1>s, <3>3, ApprovalsAssumption
  <2>4. CASE PassBegins
    BY <1>2, <2>1, <2>4 DEF PassBegins
  <2>5. CASE ~PassBegins /\ woken
    BY <1>b, <2>5, WokenStays
  <2>6. CASE Evict
    <3>1. exec[o]["console"].pc # "claim" /\ woken' = (woken \/ pass # "none")
      BY <2>6 DEF Evict
    <3> QED
      BY <2>2, <3>1 DEF PassInv
  <2>7. CASE ~Evict /\ exec[o]["console"].pc = "claim"
    BY <1>b, <2>3, <2>7, RunnerMoves
  <2>8. CASE ~Evict /\ ~PassBegins /\ <<o, "run">> \in todo
    <3>1. pass = "settle"
      BY <2>8 DEF PassInv
    <3>2. ASSUME NEW p \in Ops, SettleRun(p) \/ SettleStale(p) \/ TellClaim(p)
          PROVE  <<o, "run">> \in todo'
      BY <2>3, <2>8, <3>2 DEF SettleRun, SettleStale, TellClaim
    <3>3. ~TellBegins /\ ~TurnBegins /\ ~PassEnds
      BY <2>8, <3>1 DEF TellBegins, TurnBegins, PassEnds
    <3> QED
      BY <1>b, <2>8, <3>2, <3>3, PassMoves
  <2> QED
    BY <2>2, <2>4, <2>5, <2>6, <2>7, <2>8
<1> QED
  BY <1>1, <1>2

(* As long as no approval pass throws with rows left, an approved call is  *)
(* never stranded: not by a decision that lands between two passes, not by *)
(* a request and a pass that race for the run, not by an eviction.         *)
THEOREM Awaiting == Spec /\ [][PassThrows => TurnBegins]_vars => []ApprovedIsAwaited
<1>1. Init => ApprovedIsAwaited
  BY DEF Init, ApprovedIsAwaited, NoHold, Row
<1>2. IndInv /\ PassInv /\ ApprovedIsAwaited /\ [Next]_vars /\ [PassThrows => TurnBegins]_vars
        => ApprovedIsAwaited'
  <2>1. UNCHANGED vars => (PassThrows => TurnBegins)
    BY DEF vars, passVars, PassThrows
  <2> QED
    BY <2>1, AwaitKeeps
<1> QED
  BY <1>1, <1>2, Invariance, Passes, PTL DEF Spec

(* The end of a held call that the agent has not been told of will be: the *)
(* pass is still to list it or has it listed, or a wake is asked for.      *)
EndIsAwaited ==
  \A o \in Ops : hold[o].state \in FinalStates /\ ~hold[o].told =>
    woken \/ pass = "settle" \/ <<o, "tell">> \in todo

(* told_at is written by the post alone. *)
LEMMA ToldMoves ==
  ASSUME IndInv, [Next]_vars, NEW o \in Ops, hold[o].state # "none", hold'[o].state = hold[o].state,
         ~TellFails, ~\E p \in Ops : TellClaim(p)
  PROVE  hold'[o].told = hold[o].told
<1>b. TypeOK /\ hold \in [Ops -> Hold]
  BY DEF IndInv, CoreInv, TypeOK
<1>1. ASSUME NEW p \in Ops, NEW d \in {"approved", "denied"}, Apply(p, d) PROVE hold'[o].told = hold[o].told
  BY <1>b, <1>1, ApplyEffect DEF MayDecide, DecidedAs
<1>2. ASSUME Expired(Due) PROVE hold'[o].told = hold[o].told
  <2>1. Due \subseteq Ops
    BY DEF Due, Pending
  <2> QED
    BY <1>b, <1>2, <2>1, ExpiredEffect DEF DecidedAs
<1>3. ASSUME NEW p \in Ops, holdApproval(p) PROVE hold'[o].told = hold[o].told
  <2>1. hold[p].state = "none"
    BY <1>3 DEF holdApproval, IndInv, CoreInv, OpInv, CallInv, NoHold, Row
  <2>2. hold' \in {hold, [hold EXCEPT ![p] = NewHold]}
    BY <1>3 DEF holdApproval
  <2> QED
    BY <1>b, <2>1, <2>2
<1>4. ASSUME NEW p \in Ops, ClaimByConsole(p) \/ SettleRun(p) PROVE hold'[o].told = hold[o].told
  <2>1. hold' = hold \/ (claimApprovalRun(p) /\ hold' = [hold EXCEPT ![p].age = 0])
    BY <1>4 DEF ClaimByConsole, SettleRun
  <2> QED
    BY <1>b, <2>1, ClaimEffect DEF Claimed
<1>5. ASSUME NEW p \in Ops, SettleStale(p) PROVE hold'[o].told = hold[o].told
  <2>1. hold' = finishApproval(p, "failed", "unknown") /\ "unknown" \in Notice
    BY <1>5 DEF SettleStale, Notice
  <2> QED
    BY <1>b, <2>1, FinishEffect
<1>6. ASSUME NEW p \in Ops, NEW r \in Runners, FinishRun(p, r) PROVE hold'[o].told = hold[o].told
  <2> DEFINE out == Outcome(exec[p][r].result)
  <2>1. hold' = finishApproval(p, out.state, out.notice)
    BY <1>6 DEF FinishRun
  <2>2. out.state \in {"executed", "failed"} /\ out.notice \in Notice
    BY OutcomeTyped
  <2> HIDE DEF out
  <2> QED
    BY <1>b, <2>1, <2>2, FinishEffect
<1>7. ASSUME Tick PROVE hold'[o].told = hold[o].told
  BY <1>b, <1>7, TickEffect
<1>8. ASSUME hold' = hold PROVE hold'[o].told = hold[o].told
  BY <1>8
<1> QED
  BY <1>1, <1>2, <1>3, <1>4, <1>5, <1>6, <1>7, <1>8
  DEF Next, SetPolicy, Invoke, DecideByProvider, DecideByConsole, ApproveByConsole, Dispatch,
      StartRun, Act, ListApprovals, Wake, PassBegins, TellBegins, TellLands, TurnBegins,
      PassThrows, PassEnds, Evict, vars

(* Every step but a throw and a post that failed keeps it so. *)
LEMMA EndAwaitKeeps ==
  ASSUME IndInv, PassInv, EndIsAwaited, [Next]_vars, PassThrows => TurnBegins, ~TellFails
  PROVE  EndIsAwaited'
<1>b. TypeOK /\ hold \in [Ops -> Hold]
  BY DEF IndInv, CoreInv, TypeOK
<1>s. SUFFICES ASSUME NEW o \in Ops, hold'[o].state \in FinalStates, ~hold'[o].told
               PROVE  woken' \/ pass' = "settle" \/ <<o, "tell">> \in todo'
  BY DEF EndIsAwaited
<1>1. CASE hold'[o].state # hold[o].state
  BY <1>s, <1>1, Causes DEF FinalStates
<1>2. CASE hold'[o].state = hold[o].state
  <2>m. ASSUME NEW p \in Ops, TellClaim(p)
        PROVE  hold'[p].told /\ p # o /\ (<<o, "tell">> \in todo => <<o, "tell">> \in todo')
    <3>1. hold' = [hold EXCEPT ![p].told = TRUE] /\ todo' = todo \ {<<p, "tell">>}
      BY <2>m DEF TellClaim
    <3>2. hold'[p].told = TRUE
      BY <1>b, <3>1, MarkEffect
    <3> QED
      BY <1>s, <3>1, <3>2
  <2>1. ~hold[o].told
    <3>1. CASE \E p \in Ops : TellClaim(p)
      <4>1. PICK p \in Ops : TellClaim(p)
        BY <3>1
      <4>2. hold' = [hold EXCEPT ![p].told = TRUE] /\ p # o
        BY <2>m, <4>1 DEF TellClaim
      <4> QED
        BY <1>b, <1>s, <4>2, MarkEffect
    <3>2. CASE ~\E p \in Ops : TellClaim(p)
      <4>1. hold'[o].told = hold[o].told
        BY <1>2, <1>s, <3>2, ToldMoves DEF FinalStates
      <4> QED
        BY <1>s, <4>1
    <3> QED
      BY <3>1, <3>2
  <2>2. woken \/ pass = "settle" \/ <<o, "tell">> \in todo
    BY <1>2, <1>s, <2>1 DEF EndIsAwaited
  <2>3. CASE PassBegins
    BY <2>3 DEF PassBegins
  <2>4. CASE ~PassBegins /\ woken
    BY <1>b, <2>4, WokenStays
  <2>5. CASE Evict
    <3>1. woken' = (woken \/ pass # "none")
      BY <2>5 DEF Evict
    <3> QED
      BY <2>2, <3>1 DEF PassInv
  <2>6. CASE ~Evict /\ ~PassBegins /\ pass = "settle"
    <3>1. CASE TellBegins
      <4>1. todo' = {<<p, "tell">> : p \in {q \in Ops : hold[q].state \in FinalStates /\ ~hold[q].told}}
        BY <3>1 DEF TellBegins
      <4> QED
        BY <1>2, <1>s, <2>1, <4>1
    <3>2. ~TurnBegins /\ ~PassThrows /\ ~PassEnds
      BY <2>6 DEF TurnBegins, PassEnds
    <3> QED
      BY <1>b, <2>6, <3>1, <3>2, PassMoves
  <2>7. CASE ~Evict /\ ~PassBegins /\ <<o, "tell">> \in todo
    <3>1. pass = "tell"
      BY <2>7 DEF PassInv
    <3>2. ASSUME NEW p \in Ops, SettleRun(p) \/ SettleStale(p) \/ TellClaim(p)
          PROVE  <<o, "tell">> \in todo'
      BY <2>m, <2>7, <3>2 DEF SettleRun, SettleStale
    <3>3. ~TellBegins /\ ~TurnBegins /\ ~PassThrows /\ ~PassEnds
      BY <2>7, <3>1 DEF TellBegins, TurnBegins, PassEnds
    <3> QED
      BY <1>b, <2>7, <3>2, <3>3, PassMoves
  <2> QED
    BY <2>2, <2>3, <2>4, <2>5, <2>6, <2>7
<1> QED
  BY <1>1, <1>2

(* As long as no approval pass throws and no post fails, the agent's being *)
(* told of an end is always under way, whoever wrote the end and whenever  *)
(* the object stopped.                                                     *)
THEOREM Reporting == Spec /\ [][(PassThrows => TurnBegins) /\ ~TellFails]_vars => []EndIsAwaited
<1>1. Init => EndIsAwaited
  BY DEF Init, EndIsAwaited, NoHold, Row, FinalStates
<1>2. IndInv /\ PassInv /\ EndIsAwaited /\ [Next]_vars /\ [(PassThrows => TurnBegins) /\ ~TellFails]_vars
        => EndIsAwaited'
  <2>1. ASSUME UNCHANGED vars, EndIsAwaited PROVE EndIsAwaited'
    BY <2>1 DEF vars, passVars, alarmVars, EndIsAwaited
  <2> QED
    BY <2>1, EndAwaitKeeps
<1> QED
  BY <1>1, <1>2, Invariance, Passes, PTL DEF Spec

(* The two run apart: what dispatch awaits was let through by the policy,  *)
(* so of no held call is the end ever awaited.                             *)
NeverTracked == \A o \in Ops : hold[o].state # "none" => o \notin jobs

(* A call let through stays let through. *)
LEMMA CallStays ==
  ASSUME TypeOK, [Next]_vars, NEW o \in Ops, call[o] = "allow"
  PROVE  call'[o] = "allow"
<1>1. ASSUME NEW p \in Ops, NEW confirm \in BOOLEAN, Invoke(p, confirm) PROVE call'[o] = "allow"
  BY <1>1 DEF Invoke, TypeOK
<1>2. ASSUME NEW p \in Ops, holdApproval(p) PROVE call'[o] = "allow"
  BY <1>2 DEF holdApproval, TypeOK
<1>3. ASSUME Evict PROVE call'[o] = "allow"
  BY <1>3 DEF Evict
<1>4. ASSUME call' = call PROVE call'[o] = "allow"
  BY <1>4
<1>5. CASE \E p \in Ops, r \in Runners : StartRun(p, r) \/ Act(p, r) \/ FinishRun(p, r)
  BY <1>4, <1>5 DEF StartRun, Act, FinishRun
<1>6. CASE \E p \in Ops : \/ ApproveByConsole(p) \/ ClaimByConsole(p) \/ Dispatch(p) \/ SettleRun(p)
                          \/ SettleStale(p) \/ TellClaim(p)
  BY <1>4, <1>6 DEF ApproveByConsole, ClaimByConsole, Dispatch, SettleRun, SettleStale, TellClaim
<1> QED
  BY <1>1, <1>2, <1>3, <1>4, <1>5, <1>6
  DEF Next, SetPolicy, DecideByProvider, DecideByConsole, ListApprovals, Wake, PassBegins,
      TellBegins, TellLands, TellFails, TurnBegins, PassThrows, PassEnds, Tick, vars

(* Only calls let through are in background_jobs. *)
JobsInv == \A o \in jobs : call[o] = "allow"

(* Every step keeps it so: dispatch is where a job is entered. *)
LEMMA TrackKeeps ==
  ASSUME IndInv, JobsInv, [Next]_vars
  PROVE  JobsInv'
<1>b. TypeOK /\ \A o \in Ops : OpInv(o)
  BY DEF IndInv, CoreInv
<1>1. ASSUME NEW o \in Ops, Dispatch(o) PROVE JobsInv'
  <2>1. call[o] = "allow"
    BY <1>b, <1>1 DEF OpInv, CallInv, Dispatch
  <2>2. jobs' \subseteq jobs \cup {o} /\ call' = call
    BY <1>1 DEF Dispatch
  <2> QED
    BY <2>1, <2>2 DEF JobsInv
<1>2. ASSUME jobs' = jobs PROVE JobsInv'
  <2>1. \A p \in Ops : call[p] = "allow" => call'[p] = "allow"
    BY <1>b, CallStays, Zenon
  <2> QED
    BY <1>b, <1>2, <2>1 DEF TypeOK, JobsInv
<1>3. (\E o \in Ops : Dispatch(o)) \/ jobs' = jobs
  <2>1. ASSUME NEW o \in Ops, \/ holdApproval(o) \/ ApproveByConsole(o) \/ ClaimByConsole(o)
                              \/ SettleRun(o) \/ SettleStale(o) \/ TellClaim(o)
        PROVE  jobs' = jobs
    BY <2>1 DEF holdApproval, ApproveByConsole, ClaimByConsole, SettleRun, SettleStale, TellClaim
  <2>2. ASSUME NEW o \in Ops, NEW r \in Runners, StartRun(o, r) \/ Act(o, r) \/ FinishRun(o, r)
        PROVE  jobs' = jobs
    BY <2>2 DEF StartRun, Act, FinishRun
  <2> QED
    BY <2>1, <2>2
    DEF Next, SetPolicy, Invoke, DecideByProvider, DecideByConsole, ListApprovals, Wake, PassBegins,
        TellBegins, TellLands, TellFails, TurnBegins, PassThrows, PassEnds, Evict, Tick, vars
<1> QED
  BY <1>1, <1>2, <1>3

(* BackgroundTracked fails not by a race but always: whatever goes on in   *)
(* the background for an approved call, nothing awaits its end.            *)
THEOREM Untracked == Spec => []NeverTracked
<1>1. Init => JobsInv
  BY DEF Init, JobsInv
<1>2. IndInv /\ JobsInv => NeverTracked
  BY DEF JobsInv, NeverTracked, IndInv, CoreInv, OpInv, CallInv, NoHold, Row
<1> QED
  BY <1>1, <1>2, TrackKeeps, Invariance, PTL DEF Spec

=============================================================================
