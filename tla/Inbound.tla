------------------------------ MODULE Inbound ------------------------------
(***************************************************************************)
(* Inbound pushes: a service pushes an event at an agent's hook, the hook  *)
(* queues it and answers, and the agent's alarm pass hands the queue to    *)
(* the agent, oldest first and never twice (src/runtime/inbound.ts;        *)
(* cf/src/runtime.ts receiveHook, deliverPendingInbound; cf/src/index.ts   *)
(* hookReceive, #deliverInbound).                                          *)
(*                                                                         *)
(* One mount with one hook; a push is named by its dedupe key. A queued    *)
(* row and the final record that replaces it carry the same arrival time,  *)
(* so one `age' serves both. The queue's order is `ahead': the keys queued *)
(* before this one and not settled yet. Times are ticks left or elapsed,   *)
(* capped where the code no longer tells them apart.                       *)
(*                                                                         *)
(* Left out: agents with a profile, which queue nothing. A hook answers    *)
(* within a tick, so a push arrives when its row is written.               *)
(***************************************************************************)
EXTENDS Naturals, FiniteSets

CONSTANTS
  Keys,           (* the dedupe keys the service uses                      *)
  None,           (* null: no alarm, no hold                               *)
  PostAttempts,   (* INBOUND_POST_ATTEMPTS                                 *)
  RetryTicks,     (* INBOUND_RETRY_MS, by the attempts made before         *)
  MaxAge,         (* INBOUND_MAX_AGE_MS                                    *)
  DedupeTicks,    (* INBOUND_DEDUPE_MS                                     *)
  QueueMax,       (* INBOUND_QUEUE_MAX                                     *)
  PerMinute,      (* INBOUND_PER_MINUTE                                    *)
  MinuteTicks,    (* the minute the rate is counted over                   *)
  HoldTicks,      (* IMPORT_HOLD_MAX_MS                                    *)
  RemovingTicks,  (* INBOUND_REMOVING_RETRY_MS                             *)
  NetTicks        (* the alarm pass's own net, for a pass that dies        *)

ASSUME InboundAssumption ==
  /\ None \notin Nat
  /\ PostAttempts \in Nat \ {0}
  /\ RetryTicks \in [0..PostAttempts - 1 -> Nat]
  /\ MaxAge \in Nat \ {0} /\ DedupeTicks \in Nat /\ MaxAge <= DedupeTicks
  /\ QueueMax \in Nat /\ PerMinute \in Nat /\ MinuteTicks \in Nat
  /\ HoldTicks \in Nat /\ RemovingTicks \in Nat /\ NetTicks \in Nat

VARIABLES
  state,    (* inbound_pending.state, "none" where there is no row         *)
  ahead,    (* the rows with a lower seq                                   *)
  tries,    (* attempts, counted on by passes that die at the push         *)
  wait,     (* ticks until next_at                                         *)
  age,      (* since received_at, of the row or of its record              *)
  record,   (* the final record that holds the key, "none" without one     *)
  stamped,  (* the keys of requests past receiveHook's check of the mount, *)
            (* before the run that queues them                             *)
  mount,    (* "on", "removing" (markRemoving, in memory) or "gone"        *)
  hold,     (* ticks until the import hold lifts by itself, None unheld;   *)
            (* kept until a pass after an import lifted it                 *)
  unwoken,  (* an import lifted it, and no pass has looked since           *)
  lifted,   (* ticks since it was lifted, up to MaxAge; MaxAge if never    *)
  alarm,    (* ticks until the object's next alarm pass, None without one  *)
  pc,       (* where the pass is, "none" between passes                    *)
  said      (* how often the agent was given this push, while its key is   *)
            (* held                                                        *)

rows == <<state, ahead, tries, wait>>
vars == <<rows, age, record, stamped, mount, hold, unwoken, lifted, alarm, pc, said>>

-----------------------------------------------------------------------------

Pending == {k \in Keys : state[k] # "none"}

Records == {"none", "wake", "delivered", "failed", "unclear"}

TypeOK ==
  /\ state \in [Keys -> {"none", "queued", "posting"}]
  /\ ahead \in [Keys -> SUBSET Keys]
  /\ tries \in [Keys -> Nat]
  /\ wait \in [Keys -> Nat]
  /\ age \in [Keys -> 0..DedupeTicks]
  /\ record \in [Keys -> Records]
  /\ stamped \subseteq Keys
  /\ mount \in {"on", "removing", "gone"}
  /\ hold \in Nat \cup {None} /\ unwoken \in BOOLEAN
  /\ lifted \in 0..MaxAge
  /\ alarm \in Nat \cup {None}
  /\ pc \in {"none", "look", "claim", "post", "say", "said"}
  /\ said \in [Keys -> Nat]

(* An agent just made, held for its workspace import or not. *)
Init ==
  /\ state = [k \in Keys |-> "none"]
  /\ ahead = [k \in Keys |-> {}]
  /\ tries = [k \in Keys |-> 0]
  /\ wait = [k \in Keys |-> 0]
  /\ age = [k \in Keys |-> 0]
  /\ record = [k \in Keys |-> "none"]
  /\ stamped = {}
  /\ mount = "on"
  /\ hold \in {None, HoldTicks} /\ unwoken = FALSE
  /\ lifted = MaxAge
  /\ alarm = None
  /\ pc = "none"
  /\ said = [k \in Keys |-> 0]

-----------------------------------------------------------------------------
(* The hook *)

Earlier(a, b) == IF a = None THEN b ELSE IF b = None \/ a <= b THEN a ELSE b

(* Fault: a row waiting for its retry is passed over. *)
nextPendingInboundDue(k) == k \in Pending /\ (wait[k] = 0 \/ ahead[k] = {})

(* The oldest push not settled: arrival order is delivery order. *)
nextPendingInbound(k) == k \in Pending /\ ahead[k] = {}

(* Fault: a push given up does not hold its key. *)
seenBeforeDelivered(k) == k \in Pending \/ record[k] \in {"wake", "delivered"}

(* The key is queued, or its record is within the window. *)
seenBefore(k) == k \in Pending \/ record[k] # "none"

(* Accepted pushes of the last minute, queued, delivered or given up. *)
underRate == Cardinality({k \in Keys : seenBefore(k) /\ age[k] < MinuteTicks}) < PerMinute

queueFull == Cardinality(Pending) >= QueueMax

(* receiveHook up to its last await: the plugin took the event, and the    *)
(* mount it was checked for is still there, removed or not meanwhile.      *)
HookChecks(k) ==
  /\ mount # "gone"
  /\ k \notin stamped
  /\ stamped' = stamped \cup {k}
  /\ UNCHANGED <<rows, age, record, mount, hold, unwoken, lifted, alarm, pc, said>>

(* acceptInbound, and the wake before the answer leaves. *)
acceptInbound(k) ==
  /\ state' = [state EXCEPT ![k] = "queued"]
  /\ ahead' = [ahead EXCEPT ![k] = Pending]
  /\ tries' = [tries EXCEPT ![k] = 0]
  /\ wait' = [wait EXCEPT ![k] = 0]
  /\ age' = [age EXCEPT ![k] = 0]
  /\ record' = record

(* A push for the plugin's own code: recorded as delivered, nothing queued.*)
recordWake(k) ==
  /\ record' = [record EXCEPT ![k] = "wake"]
  /\ age' = [age EXCEPT ![k] = 0]
  /\ UNCHANGED rows

(* The synchronous run of receiveHook: every check, then the claim. Other  *)
(* requests with the key may still be on their way.                        *)
HookTakes(k) ==
  /\ k \in stamped
  /\ stamped' \in {stamped, stamped \ {k}}
  /\ ~seenBefore(k) /\ underRate /\ ~queueFull
  /\ acceptInbound(k) \/ recordWake(k)
  /\ alarm' = 0
  /\ UNCHANGED <<mount, hold, unwoken, lifted, pc, said>>

(* A duplicate, or a 429: nothing is queued. *)
HookRefuses(k) ==
  /\ k \in stamped
  /\ stamped' = stamped \ {k}
  /\ seenBefore(k) \/ ~underRate \/ queueFull
  /\ UNCHANGED <<rows, age, record, mount, hold, unwoken, lifted, alarm, pc, said>>

-----------------------------------------------------------------------------
(* The pass *)

(* settleInbound for every key of S: the rows go and the records, under    *)
(* their arrival times, hold the keys while the window lasts. A record of  *)
(* "ignored" holds none.                                                   *)
settleInbound(S, outcome) ==
  /\ state' = [k \in Keys |-> IF k \in S THEN "none" ELSE state[k]]
  /\ ahead' = [k \in Keys |-> IF k \in S THEN {} ELSE ahead[k] \ S]
  /\ tries' = [k \in Keys |-> IF k \in S THEN 0 ELSE tries[k]]
  /\ wait' = [k \in Keys |-> IF k \in S THEN 0 ELSE wait[k]]
  /\ record' = [k \in Keys |->
       IF k \notin S THEN record[k]
       ELSE IF outcome = "ignored" \/ age[k] >= DedupeTicks THEN "none" ELSE outcome]
  /\ said' = [k \in Keys |-> IF k \in S /\ age[k] >= DedupeTicks THEN 0 ELSE said[k]]

(* The pass ends, asking to come back at `at'; a wake asked for meanwhile  *)
(* stands.                                                                 *)
PassEnds(at) ==
  /\ pc' = "none"
  /\ alarm' = Earlier(alarm, at)

(* The hold's row has no lifted_at: the agent waits for its import.        *)
importHeld == hold # None /\ ~unwoken

(* The pass an import's lift asks for is there. *)
LiftServed ==
  /\ hold' = IF unwoken THEN None ELSE hold
  /\ unwoken' = FALSE

(* An alarm with nothing queued. *)
PassIdle ==
  /\ pc = "none" /\ alarm = 0
  /\ Pending = {}
  /\ alarm' = None
  /\ LiftServed
  /\ UNCHANGED <<rows, age, record, stamped, mount, lifted, pc, said>>

(* Held for its import: every push stays, and the pass comes back when the *)
(* hold would lift by itself.                                              *)
PassHeld ==
  /\ pc = "none" /\ alarm = 0
  /\ Pending # {}
  /\ importHeld /\ hold > 0
  /\ alarm' = hold
  /\ UNCHANGED <<rows, age, record, stamped, mount, hold, unwoken, lifted, pc, said>>

(* Fault: only the queue's retries end a push. *)
expiredPendingInboundNever(since) == {}

(* expiredPendingInbound, asked only when the hold, if there was one, was  *)
(* lifted long enough ago.                                                 *)
expiredPendingInbound(since) ==
  IF since < MaxAge THEN {} ELSE {k \in Pending : age[k] >= MaxAge}

(* A hold at its deadline is lifted here; what is too old is given up.     *)
PassBegins ==
  /\ pc = "none" /\ alarm = 0
  /\ Pending # {}
  /\ importHeld => hold = 0
  /\ hold' = None /\ unwoken' = FALSE
  /\ lifted' = IF importHeld THEN 0 ELSE lifted
  /\ settleInbound(expiredPendingInbound(lifted'), "failed")
  /\ pc' = "look"
  /\ alarm' = None
  /\ UNCHANGED <<age, stamped, mount>>

(* The queue is empty: nothing asks for another pass. *)
LookEmpty ==
  /\ pc = "look"
  /\ Pending = {}
  /\ PassEnds(None)
  /\ UNCHANGED <<rows, age, record, stamped, mount, hold, unwoken, lifted, said>>

(* The pass that was handing it over died: it may or may not have landed.  *)
LookPosting(k) ==
  /\ pc = "look"
  /\ nextPendingInbound(k) /\ state[k] = "posting"
  /\ settleInbound({k}, "unclear")
  /\ UNCHANGED <<age, stamped, mount, hold, unwoken, lifted, alarm, pc>>

(* Fault: a pass that meets a removal forgets to come back. *)
LookRemovingForgotten(k) ==
  /\ pc = "look"
  /\ nextPendingInbound(k) /\ state[k] = "queued"
  /\ mount = "removing"
  /\ PassEnds(None)
  /\ UNCHANGED <<rows, age, record, stamped, mount, hold, unwoken, lifted, said>>

(* Its mount is being removed: neither posted nor settled yet. *)
LookRemoving(k) ==
  /\ pc = "look"
  /\ nextPendingInbound(k) /\ state[k] = "queued"
  /\ mount = "removing"
  /\ PassEnds(RemovingTicks)
  /\ UNCHANGED <<rows, age, record, stamped, mount, hold, unwoken, lifted, said>>

(* Accepted by a mount that is gone. *)
LookGone(k) ==
  /\ pc = "look"
  /\ nextPendingInbound(k) /\ state[k] = "queued"
  /\ mount = "gone"
  /\ settleInbound({k}, "ignored")
  /\ UNCHANGED <<age, stamped, mount, hold, unwoken, lifted, alarm, pc>>

(* A conversation the overflow backstop gave up on is not posted to. *)
LookStuck(k) ==
  /\ pc = "look"
  /\ nextPendingInbound(k) /\ state[k] = "queued"
  /\ mount = "on"
  /\ settleInbound({k}, "failed")
  /\ UNCHANGED <<age, stamped, mount, hold, unwoken, lifted, alarm, pc>>

(* The head's retry is not due: the pass comes back for it, or for its     *)
(* expiry if that comes first (at once when that is past).                 *)
LookWaits(k) ==
  /\ pc = "look"
  /\ nextPendingInbound(k) /\ state[k] = "queued"
  /\ mount = "on"
  /\ wait[k] > 0
  /\ PassEnds(Earlier(wait[k], IF age[k] < MaxAge THEN MaxAge - age[k] ELSE 0))
  /\ UNCHANGED <<rows, age, record, stamped, mount, hold, unwoken, lifted, said>>

(* The head is due: the pass prepares for its post. *)
LookReady(k) ==
  /\ pc = "look"
  /\ nextPendingInbound(k) /\ state[k] = "queued"
  /\ mount = "on"
  /\ wait[k] = 0
  /\ pc' = "claim"
  /\ UNCHANGED <<rows, age, record, stamped, mount, hold, unwoken, lifted, alarm, said>>

(* Fault: the table of waits is read past its end, which gives no time.    *)
ClaimUnclipped(k) ==
  /\ pc = "claim"
  /\ nextPendingInbound(k)
  /\ tries' = [tries EXCEPT ![k] = @ + 1]
  /\ wait' = [wait EXCEPT ![k] = IF tries[k] < PostAttempts THEN RetryTicks[tries[k]] ELSE None]
  /\ pc' = "post"
  /\ UNCHANGED <<state, ahead, age, record, stamped, mount, hold, unwoken, lifted, alarm, said>>

(* claimPendingInbound: counted, and its next try set, before anything is  *)
(* tried. The table's last wait serves every attempt past it.              *)
Claim(k) ==
  /\ pc = "claim"
  /\ nextPendingInbound(k)
  /\ tries' = [tries EXCEPT ![k] = @ + 1]
  /\ wait' = [wait EXCEPT ![k] =
       RetryTicks[IF tries[k] < PostAttempts THEN tries[k] ELSE PostAttempts - 1]]
  /\ pc' = "post"
  /\ UNCHANGED <<state, ahead, age, record, stamped, mount, hold, unwoken, lifted, alarm, said>>

(* markPostingInbound, synchronously before the engine's write. *)
MarkPosting(k) ==
  /\ pc = "post"
  /\ nextPendingInbound(k)
  /\ state' = [state EXCEPT ![k] = "posting"]
  /\ pc' = "say"
  /\ UNCHANGED <<ahead, tries, wait, age, record, stamped, mount, hold, unwoken, lifted, alarm,
                 said>>

(* The engine's write. *)
Say(k) ==
  /\ pc = "say"
  /\ nextPendingInbound(k)
  /\ said' = [said EXCEPT ![k] = @ + 1]
  /\ pc' = "said"
  /\ UNCHANGED <<rows, age, record, stamped, mount, hold, unwoken, lifted, alarm>>

(* Fault: the mark is taken for the write. *)
DeliveredUnsaid(k) ==
  /\ pc \in {"say", "said"}
  /\ nextPendingInbound(k)
  /\ settleInbound({k}, "delivered")
  /\ pc' = "look"
  /\ UNCHANGED <<age, stamped, mount, hold, unwoken, lifted, alarm>>

(* The post returned: delivered, and the next head. *)
Delivered(k) ==
  /\ pc = "said"
  /\ nextPendingInbound(k)
  /\ settleInbound({k}, "delivered")
  /\ pc' = "look"
  /\ UNCHANGED <<age, stamped, mount, hold, unwoken, lifted, alarm>>

(* The post threw, before the mark or after it, and wrote nothing: its     *)
(* last failure settles it, and the pass goes on.                          *)
GivesUp(k) ==
  /\ pc \in {"post", "say"}
  /\ nextPendingInbound(k)
  /\ tries[k] >= PostAttempts
  /\ settleInbound({k}, "failed")
  /\ pc' = "look"
  /\ UNCHANGED <<age, stamped, mount, hold, unwoken, lifted, alarm>>

(* An earlier failure puts it back on its own row. *)
Requeues(k) ==
  /\ pc \in {"post", "say"}
  /\ nextPendingInbound(k)
  /\ tries[k] < PostAttempts
  /\ state' = [state EXCEPT ![k] = "queued"]
  /\ PassEnds(wait[k])
  /\ UNCHANGED <<ahead, tries, wait, age, record, stamped, mount, hold, unwoken, lifted, said>>

-----------------------------------------------------------------------------
(* What happens around the pass *)

(* removeMount past its refusals marks the mount in memory, ... *)
RemoveBegins ==
  /\ mount = "on"
  /\ mount' = "removing"
  /\ UNCHANGED <<rows, age, record, stamped, hold, unwoken, lifted, alarm, pc, said>>

(* ... and deletes it, or is called off. A mount added again under the     *)
(* alias is another installation: to these rows it is gone all the same.   *)
RemoveEnds(gone) ==
  /\ mount = "removing"
  /\ mount' = IF gone THEN "gone" ELSE "on"
  /\ UNCHANGED <<rows, age, record, stamped, hold, unwoken, lifted, alarm, pc, said>>

(* The import lifts the hold as it commits, ... *)
LiftHold ==
  /\ importHeld
  /\ unwoken' = TRUE /\ lifted' = 0
  /\ UNCHANGED <<rows, age, record, stamped, mount, hold, alarm, pc, said>>

(* ... and some awaits later wakes the object, unless it died in between:  *)
(* a retry of the import finds the hold lifted and asks for no wake.       *)
LiftWakes ==
  /\ unwoken
  /\ LiftServed
  /\ alarm' = 0
  /\ UNCHANGED <<rows, age, record, stamped, mount, lifted, pc, said>>

(* Anything else that wakes the object. *)
Wake ==
  /\ alarm' = 0
  /\ UNCHANGED <<rows, age, record, stamped, mount, hold, unwoken, lifted, pc, said>>

(* The object is evicted: the pass, the requests and the removal die. A    *)
(* pass cut short leaves its net, or a wake asked for meanwhile.           *)
Evicted ==
  /\ pc' = "none"
  /\ stamped' = {}
  /\ mount' = IF mount = "removing" THEN "on" ELSE mount
  /\ alarm' = IF pc = "none" THEN alarm ELSE Earlier(alarm, NetTicks)
  /\ UNCHANGED <<rows, age, record, hold, unwoken, lifted, said>>

(* A read of the store throws, and the alarm handler's catch puts up its   *)
(* net.                                                                    *)
PassThrows ==
  /\ pc = "look"
  /\ PassEnds(NetTicks)
  /\ UNCHANGED <<rows, age, record, stamped, mount, hold, unwoken, lifted, said>>

Sooner(t) == IF t = None \/ t = 0 THEN t ELSE t - 1

(* Time passes. A record past the window no longer holds its key. *)
Tick ==
  /\ wait' = [k \in Keys |-> Sooner(wait[k])]
  /\ age' = [k \in Keys |->
       IF seenBefore(k) /\ age[k] < DedupeTicks THEN age[k] + 1 ELSE age[k]]
  /\ record' = [k \in Keys |-> IF age'[k] >= DedupeTicks THEN "none" ELSE record[k]]
  /\ said' = [k \in Keys |->
       IF age'[k] >= DedupeTicks /\ k \notin Pending THEN 0 ELSE said[k]]
  /\ hold' = Sooner(hold)
  /\ lifted' = IF lifted < MaxAge THEN lifted + 1 ELSE lifted
  /\ alarm' = Sooner(alarm)
  /\ UNCHANGED <<state, ahead, tries, stamped, mount, unwoken, pc>>

-----------------------------------------------------------------------------

Hook == \E k \in Keys : HookChecks(k) \/ HookTakes(k) \/ HookRefuses(k)

Alarm == PassIdle \/ PassHeld \/ PassBegins

Post(k) == Claim(k) \/ MarkPosting(k) \/ Say(k) \/ Delivered(k) \/ GivesUp(k) \/ Requeues(k)

Look(k) ==
  \/ LookPosting(k) \/ LookRemoving(k) \/ LookGone(k)
  \/ LookStuck(k) \/ LookWaits(k) \/ LookReady(k)

Around ==
  \/ RemoveBegins \/ (\E gone \in BOOLEAN : RemoveEnds(gone))
  \/ LiftHold \/ LiftWakes \/ Wake \/ Evicted \/ PassThrows \/ Tick

Next ==
  \/ Hook
  \/ Alarm
  \/ LookEmpty
  \/ \E k \in Keys : Look(k) \/ Post(k)
  \/ Around

Spec == Init /\ [][Next]_vars

(* The platform fires a due alarm, a pass that is not cut short goes on,   *)
(* and time passes.                                                        *)
FairSpec ==
  /\ Spec
  /\ WF_vars(Tick)
  /\ WF_vars(Alarm)
  /\ WF_vars(LookEmpty \/ \E k \in Keys : Look(k) \/ Post(k))

-----------------------------------------------------------------------------
(* Properties *)

(* Never twice: while its key is held, the agent is given a push at most   *)
(* once, whatever dies between the mark, the write and the settling, and   *)
(* however the service redelivers it (deliverPendingInbound's promise).    *)
SaidOnce == \A k \in Keys : said[k] <= 1

(* A push is not left behind: between passes a queue that is not empty has *)
(* an alarm, whichever way the last pass ended: no later than its head's   *)
(* next try, the pass's own nets, or the end of an import hold, in place   *)
(* or lifted with the wake it asks for still to come or lost.              *)
HasAlarm ==
  (pc = "none" /\ Pending # {}) =>
    /\ alarm # None
    /\ \/ hold # None /\ alarm <= hold
       \/ alarm <= NetTicks \/ alarm <= RemovingTicks
       \/ \E k \in Keys : nextPendingInbound(k) /\ alarm <= wait[k]

(* Arrival order is delivery order: when the agent is given a push, no     *)
(* push still unsettled arrived before it, whatever was retried, given up  *)
(* or accepted meanwhile.                                                  *)
ReadInOrder ==
  [][\A k \in Keys : said'[k] > said[k] =>
       \A j \in Pending : age[j] <= age[k]]_vars

(* Every accepted push is settled, whatever fails: its retries end, its    *)
(* age ends it, and a hold is lifted by its own deadline.                  *)
PushSettles == \A k \in Keys : (k \in Pending) ~> (k \notin Pending)

(* The stage of Push that a key is at. *)
stageBar == [k \in Keys |->
  IF k \notin Pending THEN record[k]
  ELSE IF said[k] = 0 THEN "accepted" ELSE "read"]

P == INSTANCE Push WITH stage <- stageBar

(* The hook, the queue and the pass implement Push: a push is read at most *)
(* once and only after it was accepted, "delivered" is written only of one *)
(* that was read, and a settled key stays settled until it is forgotten.   *)
ImplementsPush == P!PushSpec
=============================================================================
