------------------------------ MODULE ModelJobs ------------------------------
(***************************************************************************)
(* The pd engine's model jobs: the rows of ap_model_jobs, the commit of    *)
(* pi-durable that records and ends them, their dispatch to the queue, and *)
(* the queue consumer that takes a job, calls the provider and delivers    *)
(* the answer (src/runtime/durable-agent.ts PdHost,                        *)
(* src/runtime/pd-outbox.ts, cf/src/model-queue.ts).                       *)
(*                                                                         *)
(* Times are kept as what is left of them: a row's `hold' is the ticks its *)
(* take still holds it (taken_at + TAKE_HOLD_MS - now, 0 once lapsed or    *)
(* released), its `resend' the ticks until the sweep may send it again     *)
(* (dispatched_at + REDELIVERY_MS - now). One action, Tick, passes time    *)
(* for all of them, so no bound on the clock is needed.                    *)
(***************************************************************************)
EXTENDS Naturals, FiniteSets

CONSTANTS
  Jobs,             (* job ids; a generation stages a fresh one            *)
  Takers,           (* names of attempts (newTaker)                        *)
  None,             (* SQL's NULL                                          *)
  HoldTicks,        (* TAKE_HOLD_MS                                        *)
  CallTicks,        (* MODEL_CALL_DEADLINE_MS, with the admission before   *)
  RedeliveryTicks,  (* REDELIVERY_MS                                       *)
  StagedTicks,      (* STAGED_MS                                           *)
  CommitTicks,      (* how long a staged job's commit can be in coming     *)
  MaxRetries,       (* the queue's max_retries, before the dead letters    *)
  SweepLimit        (* the sweep's LIMIT                                   *)

(* TAKE_HOLD_MS is MODEL_CALL_DEADLINE_MS and a minute; a generation's     *)
(* commit follows the provider's return at once, far inside STAGED_MS.     *)
ASSUME JobsAssumption ==
  /\ None \notin Jobs \cup Takers \cup Nat
  /\ HoldTicks \in Nat /\ CallTicks \in Nat /\ CallTicks < HoldTicks
  /\ RedeliveryTicks \in Nat \ {0}
  /\ StagedTicks \in Nat /\ CommitTicks \in Nat /\ CommitTicks <= StagedTicks
  /\ MaxRetries \in Nat
  /\ SweepLimit \in Nat \ {0}

VARIABLES
  gen,        (* each job's generation: unborn, staged (its commit is on   *)
              (* the way), lost (it died before its commit), poll (the     *)
              (* checkpoint naming the job is committed), aborting (the    *)
              (* same, marked for abort), ended                            *)
  staged,     (* PdHost.#staged: None, or the ticks since it was staged    *)
  row,        (* ap_model_jobs                                             *)
  sending,    (* the steps its dispatches in flight still have, by job     *)
  queue,      (* messages on the model queue and its dead letter queue     *)
  att,        (* the consumer's attempts, by taker; `left' is what is left *)
              (* of the hold, counted from the attempt's own take          *)
  deliveries, (* ap_deliveries, by taker, with what the properties ask     *)
  charged,    (* model.tokens rows in the usage outbox, by job             *)
  metered     (* usage rows of any kind written for an attempt             *)

vars == <<gen, staged, row, sending, queue, att, deliveries, charged, metered>>

harnessVars == <<gen, staged>>
consumerVars == <<queue, att>>
meterVars == <<deliveries, charged, metered>>

-----------------------------------------------------------------------------
(* Types *)

Row == [state   : {"absent", "out", "consumed", "cancelled"},
        answer  : Takers \cup {None},
        resend  : 0..RedeliveryTicks,
        hold    : 0..HoldTicks,
        takenBy : Takers \cup {None}]

Message == [job : Jobs, tries : 0..MaxRetries, dlq : BOOLEAN]

Attempt == [pc   : {"idle", "take", "call", "deliver", "release"},
            job  : Jobs \cup {None},
            tries: 0..MaxRetries,
            dlq  : BOOLEAN,
            left : 0..HoldTicks,
            paid : BOOLEAN]

Delivery == [job : Jobs, verdict : {"accepted", "refused", "unknown"},
             paid : BOOLEAN, late : BOOLEAN]

NoRow == [state |-> "absent", answer |-> None, resend |-> 0, hold |-> 0, takenBy |-> None]

Idle == [pc |-> "idle", job |-> None, tries |-> 0, dlq |-> FALSE, left |-> 0, paid |-> FALSE]

NoDelivery == [job |-> None, verdict |-> "none", paid |-> FALSE, late |-> FALSE]

TypeOK ==
  /\ gen \in [Jobs -> {"unborn", "staged", "lost", "poll", "aborting", "ended"}]
  /\ staged \in [Jobs -> 0..(StagedTicks + 1) \cup {None}]
  /\ row \in [Jobs -> Row]
  /\ sending \in [Jobs -> SUBSET {"send", "mark"}]
  /\ queue \subseteq Message
  /\ att \in [Takers -> Attempt]
  /\ deliveries \in [Takers -> Delivery \cup {NoDelivery}]
  /\ charged \in [Jobs -> Nat]
  /\ metered \in [Takers -> Nat]

Init ==
  /\ gen = [j \in Jobs |-> "unborn"]
  /\ staged = [j \in Jobs |-> None]
  /\ row = [j \in Jobs |-> NoRow]
  /\ sending = [j \in Jobs |-> {}]
  /\ queue = {}
  /\ att = [t \in Takers |-> Idle]
  /\ deliveries = [t \in Takers |-> NoDelivery]
  /\ charged = [j \in Jobs |-> 0]
  /\ metered = [t \in Takers |-> 0]

-----------------------------------------------------------------------------
(* The generation and pi-durable's commits *)

(* Fault: the port dispatches the job itself, before any commit. *)
StartJobDispatches(j) ==
  /\ gen[j] = "unborn"
  /\ gen' = [gen EXCEPT ![j] = "staged"]
  /\ staged' = [staged EXCEPT ![j] = 0]
  /\ sending' = [sending EXCEPT ![j] = {"send"}]
  /\ UNCHANGED <<row, consumerVars, meterVars>>

(* The port forgets what was staged longer than STAGED_MS ago and stages   *)
(* the new job; nothing is written and nothing is sent.                    *)
StartJob(j) ==
  /\ gen[j] = "unborn"
  /\ gen' = [gen EXCEPT ![j] = "staged"]
  /\ staged' = [i \in Jobs |-> IF i = j THEN 0
                               ELSE IF staged[i] # None /\ staged[i] > StagedTicks THEN None
                               ELSE staged[i]]
  /\ UNCHANGED <<row, sending, consumerVars, meterVars>>

(* Fault: the hook updates a row and inserts none. *)
RecordJobUpdates(j) ==
  IF staged[j] # None /\ row[j].state # "absent"
    THEN [row EXCEPT ![j] = [NoRow EXCEPT !.state = "out", !.resend = RedeliveryTicks]]
    ELSE row

(* The row the commit hook inserts for a staged handle, dispatched now;    *)
(* ON CONFLICT DO NOTHING.                                                 *)
RecordJob(j) ==
  IF staged[j] # None /\ row[j].state = "absent"
    THEN [row EXCEPT ![j] = [NoRow EXCEPT !.state = "out", !.resend = RedeliveryTicks]]
    ELSE row

(* The commit of the poll checkpoint lands: bookCommit inserts the row in  *)
(* the same transaction, and #afterCommit, finding the row, unstages the   *)
(* job and dispatches it.                                                  *)
CommitPoll(j) ==
  /\ gen[j] = "staged"
  /\ gen' = [gen EXCEPT ![j] = "poll"]
  /\ row' = RecordJob(j)
  /\ LET recorded == row'[j].state # "absent" IN
       /\ staged' = IF recorded THEN [staged EXCEPT ![j] = None] ELSE staged
       /\ sending' = IF recorded THEN [sending EXCEPT ![j] = @ \cup {"send"}] ELSE sending
  /\ UNCHANGED <<consumerVars, meterVars>>

(* The commit rolls back, or the generation is aborted or its harness      *)
(* closed before it: no checkpoint, no row, nothing dispatched. What was   *)
(* staged stays until it expires.                                          *)
LoseGeneration(j) ==
  /\ gen[j] = "staged"
  /\ gen' = [gen EXCEPT ![j] = "lost"]
  /\ UNCHANGED <<staged, row, sending, consumerVars, meterVars>>

(* cancelJob: a no-op for a job already consumed or cancelled. *)
Cancelled(j) ==
  IF row[j].state = "out" THEN [row EXCEPT ![j].state = "cancelled"] ELSE row

(* The turn is cancelled: the polling task is marked for abort, durably. *)
RequestAbort(j) ==
  /\ gen[j] = "poll"
  /\ gen' = [gen EXCEPT ![j] = "aborting"]
  /\ UNCHANGED <<staged, row, sending, consumerVars, meterVars>>

(* The abort handler drops the job through the port. *)
DropJob(j) ==
  /\ gen[j] = "aborting"
  /\ staged' = [staged EXCEPT ![j] = None]
  /\ row' = Cancelled(j)
  /\ UNCHANGED <<gen, sending, consumerVars, meterVars>>

(* The commit that ends a poll without its response: an abort, whether or  *)
(* not its handler dropped the job, a model no longer registered, or the   *)
(* scheduler's own endings. The hook cancels the job in that commit.       *)
EndUnread(j) ==
  /\ gen[j] \in {"poll", "aborting"}
  /\ gen' = [gen EXCEPT ![j] = "ended"]
  /\ row' = Cancelled(j)
  /\ UNCHANGED <<staged, sending, consumerVars, meterVars>>

(* The poll reads the answer, and the commit that records it (an entry     *)
(* naming the job, or a summary placed) marks the job consumed.            *)
Consume(j) ==
  /\ gen[j] = "poll"
  /\ row[j].answer # None
  /\ gen' = [gen EXCEPT ![j] = "ended"]
  /\ row' = IF row[j].state = "out" THEN [row EXCEPT ![j].state = "consumed"] ELSE row
  /\ UNCHANGED <<staged, sending, consumerVars, meterVars>>

(* The isolate dies: its memory goes, the rows and the checkpoints stay. *)
Evict ==
  /\ gen' = [j \in Jobs |-> IF gen[j] = "staged" THEN "lost" ELSE gen[j]]
  /\ staged' = [j \in Jobs |-> None]
  /\ sending' = [j \in Jobs |-> {}]
  /\ UNCHANGED <<row, consumerVars, meterVars>>

-----------------------------------------------------------------------------
(* Dispatch and the sweep *)

Fresh(j) == [job |-> j, tries |-> 0, dlq |-> FALSE]

(* The queue has the message. *)
DispatchSend(j) ==
  /\ "send" \in sending[j]
  /\ queue' = queue \cup {Fresh(j)}
  /\ sending' = [sending EXCEPT ![j] = (@ \ {"send"}) \cup {"mark"}]
  /\ UNCHANGED <<harnessVars, row, att, meterVars>>

(* The send threw; the message may be on the queue all the same. *)
DispatchFail(j) ==
  /\ "send" \in sending[j]
  /\ queue' \in {queue, queue \cup {Fresh(j)}}
  /\ sending' = [sending EXCEPT ![j] = @ \ {"send"}]
  /\ UNCHANGED <<harnessVars, row, att, meterVars>>

(* The send returned: dispatched_at is now, whatever became of the job. *)
DispatchMark(j) ==
  /\ "mark" \in sending[j]
  /\ row' = [row EXCEPT ![j].resend = RedeliveryTicks]
  /\ sending' = [sending EXCEPT ![j] = @ \ {"mark"}]
  /\ UNCHANGED <<harnessVars, consumerVars, meterVars>>

(* Fault: a job once taken is left to its taker for ever. *)
SweepDueUntaken(j) ==
  /\ row[j].state = "out"
  /\ row[j].answer = None
  /\ row[j].resend = 0
  /\ row[j].takenBy = None

(* Jobs nobody is carrying. *)
SweepDue(j) ==
  /\ row[j].state = "out"
  /\ row[j].answer = None
  /\ row[j].resend = 0
  /\ row[j].hold = 0

(* One sweep reads the jobs due, SweepLimit of them at most, and then      *)
(* sends them one by one: the list is not read again between two sends.    *)
(* Which of more than SweepLimit jobs come first (created_at) is left open.*)
Sweep ==
  LET due == {j \in Jobs : SweepDue(j)} IN
  \E S \in SUBSET due :
    /\ S # {}
    /\ S = due \/ Cardinality(S) = SweepLimit
    /\ Cardinality(S) <= SweepLimit
    /\ sending' = [j \in Jobs |-> IF j \in S THEN sending[j] \cup {"send"} ELSE sending[j]]
    /\ UNCHANGED <<harnessVars, row, consumerVars, meterVars>>

-----------------------------------------------------------------------------
(* The object's RPCs for the consumer *)

(* Fault: a take is no bar to another. *)
CanTakeHeld(j) ==
  /\ row[j].state = "out"
  /\ row[j].answer = None

(* takeJob's one UPDATE. *)
CanTake(j) ==
  /\ row[j].state = "out"
  /\ row[j].answer = None
  /\ row[j].hold = 0

Taken(t, j) == [row EXCEPT ![j].hold = HoldTicks, ![j].takenBy = t]

(* Fault: whoever releases, the take is cleared. *)
ReleasedWhoever(t, j) == [row EXCEPT ![j].hold = 0, ![j].takenBy = None]

(* releaseJob: only the taker's own take is cleared. *)
Released(t, j) ==
  IF row[j].takenBy = t THEN [row EXCEPT ![j].hold = 0, ![j].takenBy = None] ELSE row

(* Fault: the last answer wins. *)
VerdictLastWins(j) == IF row[j].state = "absent" THEN "unknown" ELSE "accepted"

(* deliver's verdict on an attempt's first delivery. *)
Verdict(j) ==
  IF row[j].state = "absent" THEN "unknown"
  ELSE IF row[j].answer = None THEN "accepted" ELSE "refused"

(* ap_deliveries after this delivery is inserted. The rows a day old go;   *)
(* they are of attempts long over, none of which can still be replayed.    *)
Recorded(t, d) ==
  {[[u \in Takers |-> IF u \in S THEN NoDelivery ELSE deliveries[u]] EXCEPT ![t] = d]
     : S \in SUBSET {u \in Takers : att[u].pc = "idle"}}

(* Fault: a replayed delivery is decided and metered again. *)
DeliverTxReplays(t, j) ==
  LET v == Verdict(j) IN
  /\ row' = IF v = "accepted" THEN [row EXCEPT ![j].answer = t] ELSE row
  /\ deliveries' \in Recorded(t, [job |-> j, verdict |-> v, paid |-> att[t].paid,
                                  late |-> att[t].left = 0])
  /\ charged' = IF v = "accepted" /\ att[t].paid THEN [charged EXCEPT ![j] = @ + 1] ELSE charged
  /\ metered' = IF att[t].paid THEN [metered EXCEPT ![t] = @ + 1] ELSE metered

(* The transaction of deliver: a replay of the same attempt returns the    *)
(* first verdict and meters nothing; else the first answer wins whatever   *)
(* the job's state, and every paid delivery is metered, the accepted one   *)
(* as the tenant's.                                                        *)
DeliverTx(t, j) ==
  IF deliveries[t].job = j
    THEN UNCHANGED <<row, meterVars>>
    ELSE LET v    == Verdict(j)
             paid == att[t].paid
             late == att[t].left = 0
         IN /\ row' = IF v = "accepted" THEN [row EXCEPT ![j].answer = t] ELSE row
            /\ deliveries' \in Recorded(t, [job |-> j, verdict |-> v, paid |-> paid, late |-> late])
            /\ charged' = IF v = "accepted" /\ paid THEN [charged EXCEPT ![j] = @ + 1] ELSE charged
            /\ metered' = IF paid THEN [metered EXCEPT ![t] = @ + 1] ELSE metered

-----------------------------------------------------------------------------
(* The queue and its consumer *)

(* withTake's catch: the take is to be given back. *)
Throw(t) == att' = [att EXCEPT ![t].pc = "release", ![t].left = 0]

Ack(t) == att' = [att EXCEPT ![t] = Idle]

(* Fault: a message is retried past its limit. *)
RequeuedUnbounded(t) ==
  LET m == [job |-> att[t].job, tries |-> att[t].tries, dlq |-> att[t].dlq] IN
  IF m.dlq THEN {queue, queue \cup {m}}
  ELSE {queue \cup {[m EXCEPT !.tries = @ + 1]}}

(* What the queue does with the message of a failed attempt: delivers it   *)
(* again, then moves it to the dead letter queue. A dead letter that fails *)
(* is delivered again, or discarded at its own limit.                      *)
Requeued(t) ==
  LET m == [job |-> att[t].job, tries |-> att[t].tries, dlq |-> att[t].dlq] IN
  IF m.dlq THEN {queue, queue \cup {m}}
  ELSE IF m.tries < MaxRetries THEN {queue \cup {[m EXCEPT !.tries = @ + 1]}}
  ELSE {queue \cup {[m EXCEPT !.dlq = TRUE]}}

Retry(t) == queue' \in Requeued(t) /\ Ack(t)

(* A message is delivered to a fresh attempt, named by nothing stored. The *)
(* queue is at least once: it may deliver the message again.               *)
Receive(t, m) ==
  /\ att[t].pc = "idle"
  /\ \A j \in Jobs : row[j].takenBy # t /\ row[j].answer # t
  /\ deliveries[t] = NoDelivery
  /\ att' = [att EXCEPT ![t] = [pc |-> "take", job |-> m.job, tries |-> m.tries,
                                dlq |-> m.dlq, left |-> 0, paid |-> FALSE]]
  /\ queue' \in {queue, queue \ {m}}
  /\ metered' = [metered EXCEPT ![t] = 0]
  /\ UNCHANGED <<harnessVars, row, sending, deliveries, charged>>

(* takeJob: an unknown, ended or held job is acked; a job won is called,   *)
(* or, on the dead letter queue, answered with the failure.                *)
TakeJob(t) ==
  LET j == att[t].job IN
  /\ att[t].pc = "take"
  /\ \/ /\ CanTake(j)
        /\ row' = Taken(t, j)
        /\ att' = IF att[t].dlq
                  THEN [att EXCEPT ![t].pc = "deliver", ![t].left = HoldTicks]
                  ELSE [att EXCEPT ![t].pc = "call", ![t].left = HoldTicks]
     \/ /\ ~CanTake(j)
        /\ Ack(t)
        /\ UNCHANGED row
  /\ UNCHANGED <<harnessVars, sending, queue, meterVars>>

(* takeJob's RPC fails, with or without its effect: the throw is outside   *)
(* withTake's try, so nothing is released, the message is retried and a    *)
(* take that was made lapses.                                              *)
TakeFails(t) ==
  LET j == att[t].job IN
  /\ att[t].pc = "take"
  /\ \/ UNCHANGED row
     \/ CanTake(j) /\ row' = Taken(t, j)
  /\ Retry(t)
  /\ UNCHANGED <<harnessVars, sending, meterVars>>

(* Admission refuses the call, which is the job's answer and costs         *)
(* nothing, or the provider answers: paid for.                             *)
CallReturns(t, paid) ==
  /\ att[t].pc = "call"
  /\ att' = [att EXCEPT ![t].pc = "deliver", ![t].paid = paid]
  /\ UNCHANGED <<harnessVars, row, sending, queue, meterVars>>

(* The provider fails, or the call is abandoned at its deadline. *)
CallFails(t) ==
  /\ att[t].pc = "call"
  /\ Throw(t)
  /\ UNCHANGED <<harnessVars, row, sending, queue, meterVars>>

(* deliverAnswer: the reply arrives and the message is acked; or it is     *)
(* lost, and the RPC is made again or throws.                              *)
Deliver(t) ==
  /\ att[t].pc = "deliver"
  /\ DeliverTx(t, att[t].job)
  /\ \/ Ack(t)
     \/ UNCHANGED att
     \/ Throw(t)
  /\ UNCHANGED <<harnessVars, sending, queue>>

DeliverFails(t) ==
  /\ att[t].pc = "deliver"
  /\ Throw(t)
  /\ UNCHANGED <<harnessVars, row, sending, queue, meterVars>>

(* The take is given back, or the release fails and the take lapses;       *)
(* either way the throw goes on to the queue's retry.                      *)
ReleaseJob(t) ==
  /\ att[t].pc = "release"
  /\ row' \in {row, Released(t, att[t].job)}
  /\ Retry(t)
  /\ UNCHANGED <<harnessVars, sending, meterVars>>

(* The consumer's invocation is killed: nothing is released, and the queue *)
(* delivers the unacked message again.                                     *)
Die(t) ==
  /\ att[t].pc # "idle"
  /\ Retry(t)
  /\ UNCHANGED <<harnessVars, row, sending, meterVars>>

(* A message is lost. *)
LoseMessage(m) ==
  /\ queue' = queue \ {m}
  /\ UNCHANGED <<harnessVars, row, sending, att, meterVars>>

-----------------------------------------------------------------------------
(* Time *)

Less(n) == IF n = 0 THEN 0 ELSE n - 1

(* A call is over by its deadline, and a staged job's commit has landed or *)
(* its generation died by CommitTicks.                                     *)
Tick ==
  /\ \A t \in Takers : att[t].pc = "call" => att[t].left > HoldTicks - CallTicks
  /\ \A j \in Jobs : gen[j] = "staged" => staged[j] # None /\ staged[j] < CommitTicks
  /\ row' = [j \in Jobs |-> [row[j] EXCEPT !.resend = Less(@), !.hold = Less(@)]]
  /\ att' = [t \in Takers |-> [att[t] EXCEPT !.left = Less(@)]]
  /\ staged' = [j \in Jobs |-> IF staged[j] = None \/ staged[j] > StagedTicks
                               THEN staged[j] ELSE staged[j] + 1]
  /\ UNCHANGED <<gen, sending, queue, meterVars>>

-----------------------------------------------------------------------------

HarnessStep(j) ==
  \/ StartJob(j) \/ CommitPoll(j) \/ LoseGeneration(j)
  \/ RequestAbort(j) \/ DropJob(j) \/ EndUnread(j) \/ Consume(j)

DispatchStep(j) == DispatchSend(j) \/ DispatchFail(j) \/ DispatchMark(j)

ConsumerStep(t) ==
  \/ TakeJob(t) \/ TakeFails(t)
  \/ \E paid \in BOOLEAN : CallReturns(t, paid)
  \/ CallFails(t) \/ Deliver(t) \/ DeliverFails(t)
  \/ ReleaseJob(t) \/ Die(t)

Next ==
  \/ \E j \in Jobs : HarnessStep(j)
  \/ \E j \in Jobs : DispatchStep(j)
  \/ Sweep
  \/ Evict
  \/ \E t \in Takers, m \in queue : Receive(t, m)
  \/ \E t \in Takers : ConsumerStep(t)
  \/ \E m \in queue : LoseMessage(m)
  \/ Tick

Spec == Init /\ [][Next]_vars

(* The alarm brings a parked object back for its sweep; a staged job's     *)
(* commit lands or its generation dies; what fails does not fail for ever: *)
(* a send, a message's delivery, a take that would win, a call or a        *)
(* delivery tried again and again succeeds once.                           *)
Fairness ==
  /\ WF_vars(Tick)
  /\ WF_vars(Sweep)
  /\ \A j \in Jobs :
       /\ WF_vars(CommitPoll(j) \/ LoseGeneration(j))
       /\ SF_vars(DispatchSend(j))
       /\ WF_vars(DispatchMark(j))
  /\ SF_vars(\E t \in Takers, m \in queue : ~m.dlq /\ Receive(t, m))
  /\ SF_vars(\E t \in Takers : att[t].pc = "take" /\ CanTake(att[t].job) /\ TakeJob(t))
  /\ SF_vars(\E t \in Takers, paid \in BOOLEAN : CallReturns(t, paid))
  /\ SF_vars(\E t \in Takers : Deliver(t))
  /\ \A t \in Takers : WF_vars(TakeJob(t)) /\ WF_vars(ReleaseJob(t))

FairSpec == Spec /\ Fairness

-----------------------------------------------------------------------------
(* Properties *)

(* takeJob: "Two messages for one job ... would otherwise both call the    *)
(* model": however messages are resent, duplicated, retried or given up    *)
(* on, no two attempts have a provider call open for one job.              *)
AtMostOneCall ==
  \A t, u \in Takers :
    att[t].pc = "call" /\ att[u].pc = "call" /\ att[t].job = att[u].job => t = u

(* In its hold an attempt is calling for the job, has an answer to deliver *)
(* or has delivered one, TAKE_HOLD_MS not being over since its take.       *)
InHold(t, j) ==
  \/ att[t].job = j /\ att[t].pc \in {"call", "deliver"} /\ att[t].left > 0
  \/ deliveries[t].job = j /\ ~deliveries[t].late

(* takeJob and releaseJob: one attempt at a time is in its hold of a job,  *)
(* be it a call, an answer on its way or a dead letter's failure. A job is *)
(* thus paid for again only once an earlier take has lapsed, or once an    *)
(* attempt whose answer could not be delivered has given its take back.    *)
OneTakerInHold ==
  \A t, u \in Takers, j \in Jobs : InHold(t, j) /\ InHold(u, j) => t = u

(* PdHost.#staged and bookCommit: a committed poll checkpoint always has   *)
(* its row (else it is "a poll nobody answers").                           *)
PollHasRow ==
  \A j \in Jobs : gen[j] \in {"poll", "aborting", "ended"} => row[j].state # "absent"

(* "A generation that dies before that commit leaves no row and sends      *)
(* nothing": whatever is on its way to the queue, on it, or in a           *)
(* consumer's hands is a recorded job, so no attempt meets UnknownJob.     *)
SentIsRecorded ==
  \A j \in Jobs :
    \/ sending[j] # {}
    \/ \E m \in queue : m.job = j
    \/ \E t \in Takers : att[t].job = j
    => row[j].state # "absent"

(* deliver: every paid attempt that delivered is metered exactly once,     *)
(* replays and lost replies included; the tenant is charged for a job at   *)
(* most once, only for an answer, and for the accepted answer exactly when *)
(* it was paid for (what ap_deliveries still says of it).                  *)
MeteredOnce ==
  /\ \A t \in Takers : deliveries[t] # NoDelivery =>
       metered[t] = (IF deliveries[t].paid THEN 1 ELSE 0)
  /\ \A j \in Jobs : charged[j] <= 1 /\ (charged[j] = 1 => row[j].answer # None)
  /\ \A t \in Takers : deliveries[t].verdict = "accepted" =>
       /\ row[deliveries[t].job].answer = t
       /\ charged[deliveries[t].job] = (IF deliveries[t].paid THEN 1 ELSE 0)

(* "Out of retries. The agent has to hear about it, or it waits for ever": *)
(* a recorded job is answered, unless its generation ended first, whatever *)
(* was lost or died on the way.                                            *)
JobEnds ==
  \A j \in Jobs : row[j].state = "out" ~> (row[j].answer # None \/ row[j].state # "out")

(* The jobs, seen through status, answer and charge alone, are model calls.*)
Call == INSTANCE ModelCall WITH
  status <- [j \in Jobs |-> row[j].state],
  reply  <- [j \in Jobs |-> row[j].answer],
  bill   <- charged

ImplementsModelCall == Call!CallSpec
=============================================================================
