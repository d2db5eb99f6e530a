----------------------------- MODULE AgentAlarm -----------------------------
(***************************************************************************)
(* When an agent's object wakes: its one alarm, the alarm pass that        *)
(* decides the next one, and everything that asks for a wake while the     *)
(* pass is between awaits (cf/src/index.ts alarm, #wake, #usageWake,       *)
(* #keepAlive, #deliverInbound; cf/src/alarm-next.ts;                      *)
(* cf/src/usage-flush.ts).                                                 *)
(*                                                                         *)
(* Times are the ticks left until them, so the model needs no clock: the   *)
(* alarm is due at 0, and Tick brings every time nearer. What the pass     *)
(* does to the agent is left to the other modules; here it is only what it *)
(* leaves to come back for: `work' (the step's own next time), `queued'    *)
(* (the first queued push), `hold' (the first pending hold's deadline),    *)
(* `publish' (the next publish attempt) and `rows' (unsent outbox rows).   *)
(***************************************************************************)
EXTENDS Naturals

CONSTANTS
  None,          (* null: no alarm, nothing asked, nothing due             *)
  WatchTicks,    (* the pass's safety net, 30 s                            *)
  InboundTicks,  (* the longest of INBOUND_RETRY_MS, 10 min                *)
  HoldTicks,     (* IMPORT_HOLD_MAX_MS, 24 h                               *)
  FlushTicks,    (* the wait after a flush that threw, a minute            *)
  WakeTicks,     (* USAGE_WAKE_DELAY_MS                                    *)
  DrainTicks,    (* USAGE_DRAIN_DELAY_MS                                   *)
  RetryTicks,    (* USAGE_RETRY_BASE_MS, doubled by each retry             *)
  RetryLimit,    (* USAGE_RETRY_LIMIT                                      *)
  MaxFailures,   (* the alarm failures after which no net is put up, 20    *)
  Waits          (* the waits and deadlines that the step, the holds and   *)
                 (* the publish come up with                               *)

ASSUME AlarmAssumption ==
  /\ None \notin Nat
  /\ WatchTicks \in Nat /\ InboundTicks \in Nat /\ FlushTicks \in Nat
  /\ HoldTicks \in Nat
  /\ WakeTicks \in Nat /\ DrainTicks \in Nat
  /\ RetryLimit \in Nat /\ MaxFailures \in Nat \ {0}
  /\ RetryTicks \in [0..RetryLimit -> Nat]
  /\ Waits \subseteq Nat

VARIABLES
  owned,     (* the object was claimed: the owner row                      *)
  alarm,     (* the storage's alarm                                        *)
  asked,     (* #wakeAsked: the earliest wake asked for in this pass,      *)
             (* until it decides: the next one begins by forgetting it     *)
  failures,  (* counters2 alarmFailures, capped at MaxFailures             *)
  pc,        (* where the alarm pass awaits, or "none"                     *)
  wait,      (* out.wakeInMs, with the minute a failed flush asks for      *)
  deadline,  (* rt.approvalDeadline, as the pass read it                   *)
  moved,     (* the pass advanced a drain's cursor                         *)
  retries,   (* usage_flush_retries                                        *)
  open,      (* a handler that wrote outbox rows has not ended yet         *)
  rows,      (* hasUnsent                                                  *)
  work, arrived, queued, hold, publish,
             (* what needs a pass, and when; `arrived': an input landed    *)
             (* that no step has looked at                                 *)
  importHold,(* ticks until the import hold lifts by itself; kept while    *)
             (* the wake of an import that lifted it is outstanding        *)
  lift,      (* that wake: "waking" is to come, "lost" with the object     *)
  cut,       (* the last pass was cut short before it decided              *)
  blind,     (* the last pass could not read its holds or its publishes    *)
  left       (* unsent rows were left for the next wake, knowingly         *)

passVars == <<wait, deadline, moved>>
usageVars == <<retries, open, rows, left>>
needVars == <<work, arrived, queued, hold, publish>>
importVars == <<importHold, lift>>
vars == <<owned, alarm, asked, failures, pc, passVars, usageVars, needVars, importVars,
          cut, blind>>

-----------------------------------------------------------------------------

Times == Nat \cup {None}

TypeOK ==
  /\ owned \in BOOLEAN
  /\ alarm \in Times /\ asked \in Times
  /\ failures \in 0..MaxFailures
  /\ pc \in {"none", "inbound", "step", "stepping", "flush", "publish", "standdown", "after"}
  /\ wait \in Times /\ deadline \in Times
  /\ moved \in BOOLEAN
  /\ retries \in 0..RetryLimit
  /\ open \in BOOLEAN /\ rows \in BOOLEAN /\ left \in BOOLEAN
  /\ work \in Times /\ queued \in Times /\ hold \in Times /\ publish \in Times
  /\ arrived \in BOOLEAN /\ cut \in BOOLEAN /\ blind \in BOOLEAN
  /\ importHold \in Times /\ lift \in {"no", "waking", "lost"}

(* An object nobody has claimed, whose alarm may have been left armed; or  *)
(* one whose agent has just been made, held until its workspace import.    *)
Init ==
  /\ importHold \in {None, HoldTicks} /\ lift = "no"
  /\ owned = (importHold # None)
  /\ alarm \in {None, 0}
  /\ asked = None
  /\ failures = 0
  /\ pc = "none"
  /\ wait = None /\ deadline = None /\ moved = FALSE
  /\ retries = 0 /\ open = FALSE /\ rows = FALSE /\ left = FALSE
  /\ work = None /\ arrived = FALSE
  /\ queued = None /\ hold = None /\ publish = None
  /\ cut = FALSE /\ blind = FALSE

-----------------------------------------------------------------------------
(* Deciding times *)

(* Fault: the pass's own plan replaces what was asked. *)
nextAlarmPlanned(wanted, planned) == IF planned = None THEN wanted ELSE planned

(* The earlier of two times, either of which may be none. *)
nextAlarm(wanted, planned) ==
  IF wanted = None THEN planned
  ELSE IF planned = None \/ wanted <= planned THEN wanted ELSE planned

Decided == pc \in {"none", "after"}

(* #wake: written down for the pass that has not decided yet, and armed,   *)
(* whatever was armed before.                                              *)
wake(at) ==
  /\ asked' = IF Decided THEN asked ELSE nextAlarm(asked, at)
  /\ alarm' = at

(* Fault: one retry too many. *)
standDownDelayOneMore(unsent, advanced) ==
  IF unsent /\ advanced THEN [n |-> 0, delay |-> DrainTicks]
  ELSE IF unsent /\ retries <= RetryLimit
    THEN [n |-> retries + 1, delay |-> RetryTicks[retries]]
  ELSE [n |-> 0, delay |-> None]

(* standDownDelay: how long until the pass comes back for rows it could    *)
(* not send, and the count of passes in a row that moved none.             *)
standDownDelay(unsent, advanced) ==
  IF unsent /\ advanced THEN [n |-> 0, delay |-> DrainTicks]
  ELSE IF unsent /\ retries < RetryLimit
    THEN [n |-> retries + 1, delay |-> RetryTicks[retries]]
  ELSE [n |-> 0, delay |-> None]

(* The hold's row has no lifted_at: the agent waits for its import.        *)
Held == importHold # None /\ lift = "no"

-----------------------------------------------------------------------------
(* Inputs and handlers, at any moment *)

(* A message, an answer, a decision: written and the wake asked for in one *)
(* handler. A decided hold no longer has a deadline.                       *)
InputLands(h) ==
  /\ owned' = TRUE
  /\ work' = 0 /\ arrived' = TRUE
  /\ h \in {hold, None} /\ hold' = h
  /\ wake(0)
  /\ UNCHANGED <<failures, pc, passVars, usageVars, queued, publish, importVars, cut, blind>>

(* hookReceive: the push is queued, behind the ones already waiting. *)
PushLands ==
  /\ owned' = TRUE
  /\ queued' = IF queued = None THEN 0 ELSE queued
  /\ wake(0)
  /\ UNCHANGED <<failures, pc, passVars, usageVars, work, arrived, hold, publish,
                 importVars, cut, blind>>

(* A handler records usage or trace rows. *)
HandlerWrites ==
  /\ owned' = TRUE
  /\ open' = TRUE /\ rows' = TRUE
  /\ UNCHANGED <<alarm, asked, failures, pc, passVars, retries, left, needVars,
                 importVars, cut, blind>>

(* Fault: a handler leaves it to whatever runs next. *)
HandlerEndsSilently ==
  /\ open
  /\ open' = FALSE
  /\ UNCHANGED <<owned, alarm, asked, failures, pc, passVars, retries, rows, left, needVars,
                 importVars, cut, blind>>

(* #busy's end, #usageWake: rows unsent and no alarm armed arms one. *)
HandlerEnds ==
  /\ open
  /\ open' = FALSE
  /\ IF rows /\ alarm = None THEN wake(WakeTicks) ELSE UNCHANGED <<asked, alarm>>
  /\ UNCHANGED <<owned, failures, pc, passVars, retries, rows, left, needVars,
                 importVars, cut, blind>>

(* #keepAlive: brings the alarm forward, never pushes it back. *)
KeepAlive(at) ==
  /\ alarm # None => alarm > at
  /\ wake(at)
  /\ UNCHANGED <<owned, failures, pc, passVars, usageVars, needVars, importVars, cut, blind>>

LiftOver == importHold' = None /\ lift' = "no"

(* The import lifts the hold as it commits: the pushes it kept are to be   *)
(* posted now.                                                             *)
LiftHold ==
  /\ Held
  /\ lift' = "waking"
  /\ queued' = IF queued = None THEN None ELSE 0
  /\ UNCHANGED <<owned, alarm, asked, failures, pc, passVars, usageVars, work, arrived, hold,
                 publish, importHold, cut, blind>>

(* Some awaits later its handler asks for the wake. *)
LiftWakes ==
  /\ lift = "waking"
  /\ LiftOver
  /\ wake(0)
  /\ UNCHANGED <<owned, failures, pc, passVars, usageVars, needVars, cut, blind>>

-----------------------------------------------------------------------------
(* The alarm pass *)

(* Fault: the alarm is armed at the end of the pass only. *)
AlarmFiresNoNet ==
  /\ pc = "none" /\ alarm = 0 /\ owned
  /\ alarm' = None
  /\ pc' = "inbound"
  /\ cut' = TRUE /\ left' = FALSE
  /\ IF lift = "lost" THEN LiftOver ELSE UNCHANGED importVars
  /\ UNCHANGED <<owned, asked, failures, passVars, retries, open, rows, needVars, blind>>

(* The alarm is consumed as it fires; the net goes up first, unless the    *)
(* object has failed too often. Storage calls close the input gate, so     *)
(* nothing lands before the owner is read. Until the pass decides, it is   *)
(* one that would have been cut short.                                     *)
AlarmFires ==
  /\ pc = "none" /\ alarm = 0 /\ owned
  /\ alarm' = IF failures < MaxFailures THEN WatchTicks ELSE None
  /\ pc' = "inbound"
  /\ cut' = TRUE /\ left' = FALSE
  /\ IF lift = "lost" THEN LiftOver ELSE UNCHANGED importVars
  /\ UNCHANGED <<owned, asked, failures, passVars, retries, open, rows, needVars, blind>>

(* Nobody has claimed the object: the net comes down, the pass is clean. *)
AlarmUnclaimed ==
  /\ pc = "none" /\ alarm = 0 /\ ~owned
  /\ alarm' = None
  /\ failures' = 0
  /\ UNCHANGED <<owned, asked, pc, passVars, usageVars, needVars, importVars, cut, blind>>

(* #deliverInbound ends, r being when it wants to come back: not at all    *)
(* with an empty queue; under an import hold at the hold's end, every push *)
(* kept; else every push due was posted, which is work for the step, or    *)
(* settled, or the first one waits for its retry. A hold past its time is  *)
(* lifted first. The wake for it is armed over whatever is armed.          *)
InboundEnds(r) ==
  /\ pc = "inbound"
  /\ \/ queued = None /\ r = None /\ UNCHANGED importHold
     \/ /\ queued # None /\ Held /\ importHold > 0
        /\ r = importHold /\ UNCHANGED importHold
     \/ /\ queued # None /\ (Held => importHold = 0)
        /\ r # None => r <= InboundTicks
        /\ importHold' = IF Held THEN None ELSE importHold
  /\ queued' = r
  /\ IF r = None THEN UNCHANGED <<asked, alarm>> ELSE wake(r)
  /\ pc' = "step"
  /\ UNCHANGED <<owned, failures, passVars, usageVars, work, arrived, hold, publish, lift,
                 cut, blind>>

(* The step looks at what there is to do. A pass cut short from here on    *)
(* leaves it to be taken up at once.                                       *)
StepReads ==
  /\ pc = "step"
  /\ arrived' = FALSE /\ work' = 0
  /\ pc' = "stepping"
  /\ UNCHANGED <<owned, alarm, asked, failures, passVars, usageVars, queued, hold, publish,
                 importVars, cut, blind>>

(* The step ends with when it wants to run again, having made or expired   *)
(* holds and written rows. What landed after it looked waits for the next. *)
StepEnds(w, h) ==
  /\ pc = "stepping"
  /\ wait' = w
  /\ work' = IF arrived THEN 0 ELSE w
  /\ hold' = h
  /\ rows' \in {rows, TRUE}
  /\ pc' = "flush"
  /\ UNCHANGED <<owned, alarm, asked, failures, deadline, moved, retries, open, left, arrived,
                 queued, publish, importVars, cut, blind>>

(* The drains: all was sent, or some, or none, or a drain threw and the    *)
(* pass is to come back in a minute if for nothing else.                   *)
Flush(some, all, threw) ==
  /\ pc = "flush"
  /\ all => rows /\ some /\ ~threw
  /\ some => rows
  /\ rows' = (rows /\ ~all)
  /\ moved' = some
  /\ wait' = IF wait = None /\ threw THEN FlushTicks ELSE wait
  /\ pc' = "publish"
  /\ UNCHANGED <<owned, alarm, asked, failures, deadline, retries, open, left, needVars,
                 importVars, cut, blind>>

(* What the pass had in hand is of no more use. *)
LetGo == asked' = None /\ wait' = None /\ deadline' = None /\ moved' = FALSE

(* The decision is armed: the time, with a hold's deadline if it is        *)
(* earlier, or the alarm is deleted.                                       *)
Arm(next, dl) ==
  /\ alarm' = nextAlarm(next, dl)
  /\ pc' = "after"
  /\ LetGo
  /\ cut' = FALSE

(* The publish returns its next attempt, or throws; the first deadline is  *)
(* read, or the read fails; and, nothing awaiting, the next alarm is       *)
(* decided, or the pass goes on to stand down.                             *)
Decide(p, published, read) ==
  /\ pc = "publish"
  /\ publish' = IF published THEN p ELSE publish
  /\ blind' = ~(published /\ read)
  /\ LET planned == nextAlarm(wait, IF published THEN p ELSE None)
         dl      == IF read THEN hold ELSE None
         next    == nextAlarm(asked, planned)
     IN IF next # None
          THEN Arm(next, dl)
          ELSE /\ deadline' = dl /\ pc' = "standdown"
               /\ UNCHANGED <<alarm, asked, wait, moved, cut>>
  /\ UNCHANGED <<owned, failures, usageVars, work, arrived, queued, hold,
                 importVars>>

(* The last flush returns, and from the look at the outboxes to the arming *)
(* nothing awaits.                                                         *)
StandDown(some, all) ==
  /\ pc = "standdown"
  /\ all => rows /\ some
  /\ some => rows
  /\ rows' = (rows /\ ~all)
  /\ LET d == standDownDelay(rows', moved \/ some) IN
       /\ retries' = d.n
       /\ Arm(nextAlarm(asked, d.delay), deadline)
       /\ left' = (rows' /\ alarm' = None /\ ~moved /\ ~some /\ retries = RetryLimit)
  /\ UNCHANGED <<owned, failures, open, needVars, importVars, blind>>

(* The forward's send is over: the pass ends clean. *)
PassEnds ==
  /\ pc = "after"
  /\ pc' = "none"
  /\ failures' = 0
  /\ UNCHANGED <<owned, alarm, asked, passVars, usageVars, needVars, importVars, cut, blind>>

(* The alarm a pass that did not end leaves: the one armed, or the         *)
(* platform's own retry of the alarm it was running.                       *)
AlarmKept == alarm' \in {alarm, 0}

(* The pass throws: the failure is counted and thrown on. *)
PassFails ==
  /\ pc # "none"
  /\ failures' = IF failures < MaxFailures THEN failures + 1 ELSE failures
  /\ pc' = "none" /\ LetGo
  /\ AlarmKept
  /\ left' = (left \/ failures' = MaxFailures)
  /\ UNCHANGED <<owned, retries, open, rows, needVars, importVars, cut, blind>>

(* The isolate dies: what was asked is forgotten, an open handler never    *)
(* ends, nor one that lifted the hold, a running pass is cut short.        *)
Evict ==
  /\ open' = FALSE
  /\ left' = (left \/ open \/ failures = MaxFailures)
  /\ pc' = "none" /\ LetGo
  /\ IF pc = "none" THEN UNCHANGED alarm ELSE AlarmKept
  /\ lift' = IF lift = "waking" THEN "lost" ELSE lift
  /\ UNCHANGED <<owned, failures, retries, rows, needVars, importHold, cut, blind>>

-----------------------------------------------------------------------------

Nearer(t) == IF t = None \/ t = 0 THEN t ELSE t - 1

(* `wait' is a duration until the pass has decided, and so is the `work'   *)
(* it stands for.                                                          *)
Tick ==
  /\ alarm' = Nearer(alarm) /\ asked' = Nearer(asked) /\ deadline' = Nearer(deadline)
  /\ queued' = Nearer(queued) /\ hold' = Nearer(hold) /\ importHold' = Nearer(importHold)
  /\ work' = IF pc \in {"none", "after"} THEN Nearer(work) ELSE work
  /\ publish' = IF pc \in {"none", "after", "standdown"} THEN Nearer(publish) ELSE publish
  /\ UNCHANGED <<owned, failures, pc, wait, moved, usageVars, arrived, lift, cut, blind>>

-----------------------------------------------------------------------------

Outside ==
  \/ \E h \in {hold, None} : InputLands(h)
  \/ PushLands
  \/ HandlerWrites
  \/ HandlerEnds
  \/ \E at \in Waits : KeepAlive(at)
  \/ LiftHold \/ LiftWakes

Pass ==
  \/ AlarmFires
  \/ AlarmUnclaimed
  \/ \E r \in Waits \cup {None, importHold} : InboundEnds(r)
  \/ StepReads
  \/ \E w, h \in Waits \cup {None} : StepEnds(w, h)
  \/ \E some, all, threw \in BOOLEAN : Flush(some, all, threw)
  \/ \E p \in Waits \cup {None}, published, read \in BOOLEAN : Decide(p, published, read)
  \/ \E some, all \in BOOLEAN : StandDown(some, all)
  \/ PassEnds

Next == Outside \/ Pass \/ PassFails \/ Evict \/ Tick

Spec == Init /\ [][Next]_vars

(* The platform fires a due alarm and time passes; a pass that keeps being *)
(* started gets as far as its step's first look, sooner or later.          *)
Fairness ==
  /\ WF_vars(Tick)
  /\ WF_vars(AlarmFires)
  /\ SF_vars(\E r \in Waits \cup {None, importHold} : InboundEnds(r))
  /\ SF_vars(StepReads)
  /\ WF_vars(Pass)

FairSpec == Spec /\ Fairness

-----------------------------------------------------------------------------
(* Properties *)

(* As near as the net, a push's retry, or the end of the import hold that  *)
(* keeps the pushes or was lifted without a wake for them yet.             *)
Near(t) == t <= WatchTicks \/ t <= InboundTicks \/ (importHold # None /\ t <= importHold)

(* t is answered by the alarm: no later than t; or, after a pass that was  *)
(* cut short, near, since a push's wake is armed over the net.             *)
Answered(t) == t # None => alarm # None /\ (alarm <= t \/ (cut /\ Near(alarm)))

(* The hold was lifted and its pushes have not been woken for. *)
Unwoken == lift # "no" /\ importHold # None /\ alarm # None /\ alarm <= importHold

(* "there is nothing in existence that could ever wake it": outside a pass *)
(* whatever needs one has an alarm in time for it: work the step left,     *)
(* input that landed while the pass ran, queued pushes, holds to expire.   *)
(* Late are only what a pass cut short left, which may wait for the net, a *)
(* push's retry or the import hold's end, and the pushes of a hold whose   *)
(* lift did not get to its wake: they wait for the hold's end at most.     *)
NothingStranded ==
  Decided /\ failures < MaxFailures =>
    /\ Answered(work)
    /\ Answered(queued) \/ Unwoken
    /\ ~blind => Answered(hold) /\ Answered(publish)

(* "the safety net goes up first and comes down only on a clean, idle      *)
(* pass": there is never a moment of a pass at which its death would leave *)
(* the object without an alarm. It may be moved: a push's retry, or the    *)
(* end of the import hold a push waits for, is armed in its place.         *)
SafetyNet == ~Decided /\ failures < MaxFailures => alarm # None /\ Near(alarm)

(* "a handler that leaves outbox rows unsent, on an object with no alarm   *)
(* armed, arms a short one"; the pass comes back for what it could not     *)
(* send, USAGE_RETRY_LIMIT times in a row. Rows are without an alarm only  *)
(* when that limit, an eviction under an open handler or an object that    *)
(* keeps failing left them so.                                             *)
RowsHaveAlarm ==
  Decided /\ rows /\ ~open /\ ~left => alarm # None

(* An input that landed is looked at by a step, whatever passes were cut   *)
(* short on the way, unless the object failed MaxFailures times.           *)
InputIsRead ==
  arrived ~> (~arrived \/ failures = MaxFailures)
=============================================================================
