--------------------------- MODULE BackgroundJobs ---------------------------
(***************************************************************************)
(* Tool calls that outlive a turn (src/runtime/background-jobs.ts, driven  *)
(* by cf/src/runtime.ts): the plugin's work goes on after the call, a row  *)
(* in the agent's object tracks it, and four actors meet over that row:    *)
(* the calls that start work, the alarm's pass that polls it, jobs.cancel  *)
(* in a turn, and the cancel of a session. Each awaits the plugin between  *)
(* its look at the row and what it does with it, and the object may be     *)
(* evicted at any of those awaits.                                         *)
(*                                                                         *)
(* A row, its operation and what is written with no await between are one  *)
(* step: the object commits them together. Time is per job: whether its    *)
(* next check is due, and whether it is past the ceiling or the grace      *)
(* after it. A pass reads the clock once, when it begins, and nothing else *)
(* reads it: a job ages between passes.                                    *)
(***************************************************************************)
EXTENDS Naturals, FiniteSets

CONSTANTS
  Jobs,          (* calls that go to the background, by operation id       *)
  SessionJobs,   (* those of the session that may be cancelled             *)
  Cap,           (* BACKGROUND_CAP                                         *)
  None,          (* nobody                                                 *)
  MaxEvicts      (* bound: evictions                                       *)

ASSUME BackgroundAssumption ==
  /\ IsFiniteSet(Jobs) /\ SessionJobs \subseteq Jobs /\ None \notin Jobs
  /\ Cap \in Nat /\ MaxEvicts \in Nat

VARIABLES
  call,      (* the call that starts it: where it is                       *)
  work,      (* the plugin's work: none, running, ended                    *)
  row,       (* background_jobs.state, or none                             *)
  op,        (* operations.status, or none                                 *)
  due,       (* next_poll_at is past                                       *)
  age,       (* 0, 1 past the ceiling, 2 past the grace after it           *)
  left,      (* the pass: due jobs still to check                          *)
  pass,      (* the pass: its step                                         *)
  at,        (* the pass: the job it is at                                 *)
  tool,      (* the job jobs.cancel is stopping                            *)
  stop,      (* jobs the session's cancel is still to stop                 *)
  told,      (* notices the agent was given                                *)
  mayRun,    (* jobs whose outcome, which is what the notice says, is that *)
             (* they could not be stopped and may still be running         *)
  over,      (* history: recorded over the cap                             *)
  unheard,   (* history: their notice was lost on its way to the agent     *)
  evicts     (* how many evictions there were                              *)

calls == <<call, work>>
rows == <<row, op>>
clock == <<due, age>>
alarm == <<left, pass, at>>
cancels == <<tool, stop>>
history == <<told, mayRun, over, unheard, evicts>>
vars == <<calls, rows, clock, alarm, cancels, history>>

TypeOK ==
  /\ call \in [Jobs -> {"none", "started", "stopping", "over", "lost"}]
  /\ work \in [Jobs -> {"none", "running", "ended"}]
  /\ row \in [Jobs -> {"none", "running", "done", "failed", "cancelled"}]
  /\ op \in [Jobs -> {"none", "running", "succeeded", "failed", "cancelled"}]
  /\ due \in [Jobs -> BOOLEAN] /\ age \in [Jobs -> 0..2]
  /\ left \subseteq Jobs /\ pass \in {"idle", "next", "poll", "cancel", "deliver"}
  /\ at \in Jobs \cup {None} /\ (pass \in {"poll", "cancel", "deliver"} => at \in Jobs)
  /\ tool \in Jobs \cup {None} /\ stop \subseteq Jobs
  /\ told \in [Jobs -> 0..1]
  /\ mayRun \subseteq Jobs /\ over \subseteq Jobs /\ unheard \subseteq Jobs
  /\ evicts \in 0..MaxEvicts

Init ==
  /\ call = [j \in Jobs |-> "none"] /\ work = [j \in Jobs |-> "none"]
  /\ row = [j \in Jobs |-> "none"] /\ op = [j \in Jobs |-> "none"]
  /\ due = [j \in Jobs |-> FALSE] /\ age = [j \in Jobs |-> 0]
  /\ left = {} /\ pass = "idle" /\ at = None
  /\ tool = None /\ stop = {}
  /\ told = [j \in Jobs |-> 0] /\ mayRun = {} /\ over = {} /\ unheard = {}
  /\ evicts = 0

runningBackgroundJobs == {j \in Jobs : row[j] = "running"}

-----------------------------------------------------------------------------
(* What the actors do to a row *)

Put(f, j, v) == [f EXCEPT ![j] = v]

(* Fault: a late answer overwrites what the job ended as. *)
finishAnyway(j, state) ==
  row' = Put(row, j, state)

(* finishBackgroundJob: only a running job finishes. *)
finishBackgroundJob(j, state) ==
  row' = IF row[j] = "running" THEN Put(row, j, state) ELSE row

completeOperation(j, status) == op' = Put(op, j, status)

(* A check that found it still running, or failed: the next is scheduled.  *)
markPolled(j) == due' = IF row[j] = "running" THEN Put(due, j, FALSE) ELSE due

(* The plugin stopped the work, confirmed, or could not say: it may have.  *)
Stopped(j) == work' = Put(work, j, "ended")
NotStopped(j) == work' = work \/ work' = Put(work, j, "ended")

-----------------------------------------------------------------------------
(* The calls that start work *)

(* The plugin starts the work and answers with a handle. *)
Starts(j) ==
  /\ call[j] = "none"
  /\ call' = Put(call, j, "started") /\ work' = Put(work, j, "running")
  /\ op' = Put(op, j, "running")
  /\ UNCHANGED <<row, clock, alarm, cancels, history>>

(* Fault: the cap was looked at before the call went out. *)
AdmitsEarly(j) ==
  /\ call[j] = "started"
  /\ Cardinality(runningBackgroundJobs) < Cap + 1
  /\ row' = Put(row, j, "running")
  /\ call' = Put(call, j, "over")
  /\ UNCHANGED <<work, op, clock, alarm, cancels, history>>

(* admitBackground, and the job recorded. *)
Admits(j) ==
  /\ call[j] = "started"
  /\ Cardinality(runningBackgroundJobs) < Cap
  /\ row' = Put(row, j, "running")
  /\ call' = Put(call, j, "over")
  /\ UNCHANGED <<work, op, clock, alarm, cancels, history>>

(* refuseOverCap: recorded all the same, then asked to stop; it is tracked *)
(* until a poll shows that it ended.                                       *)
RefusesOverCap(j) ==
  /\ call[j] = "started"
  /\ Cardinality(runningBackgroundJobs) >= Cap
  /\ row' = Put(row, j, "running") /\ over' = over \cup {j}
  /\ call' = Put(call, j, "stopping")
  /\ UNCHANGED <<work, op, clock, alarm, cancels, told, mayRun, unheard, evicts>>

RefusalAnswered(j) ==
  /\ call[j] = "stopping"
  /\ Stopped(j) \/ NotStopped(j)
  /\ call' = Put(call, j, "over")
  /\ UNCHANGED <<rows, clock, alarm, cancels, history>>

-----------------------------------------------------------------------------
(* The pass over due jobs (runBackgroundPass) *)

PassBegins ==
  /\ pass = "idle"
  /\ left' = {j \in Jobs : row[j] = "running" /\ due[j]}
  /\ left' # {}
  /\ pass' = "next"
  /\ UNCHANGED <<calls, rows, clock, at, cancels, history>>

(* The next due job is polled, or past the ceiling cancelled. *)
PassNext(j) ==
  /\ pass = "next" /\ j \in left
  /\ left' = left \ {j} /\ at' = j
  /\ pass' = IF age[j] = 0 THEN "poll" ELSE "cancel"
  /\ UNCHANGED <<calls, rows, clock, cancels, history>>

PassEnds ==
  /\ pass = "next" /\ left = {}
  /\ pass' = "idle" /\ at' = None
  /\ UNCHANGED <<calls, rows, clock, left, cancels, history>>

Continues == pass' = "next" /\ at' = None /\ left' = left

(* The end of a job that was still running is to be delivered; of one that *)
(* ended meanwhile nothing is said.                                        *)
FinishedHere(state, status) ==
  /\ finishBackgroundJob(at, state)
  /\ IF row[at] = "running"
     THEN completeOperation(at, status) /\ pass' = "deliver" /\ UNCHANGED <<at, left>>
     ELSE op' = op /\ Continues

(* Fault: a job that was told stays the pass's, and is told again. *)
DeliversAgain ==
  /\ pass = "deliver"
  /\ told' = Put(told, at, told[at] + 1)
  /\ UNCHANGED <<calls, rows, clock, alarm, cancels, mayRun, over, unheard, evicts>>

(* The poll says it runs, or throws. *)
PollsRunning ==
  /\ pass = "poll"
  /\ markPolled(at)
  /\ Continues
  /\ UNCHANGED <<calls, rows, age, cancels, history>>

PollsDone ==
  /\ pass = "poll" /\ work[at] = "ended"
  /\ FinishedHere("done", "succeeded")
  /\ UNCHANGED <<calls, clock, cancels, history>>

(* Past the ceiling: stopped, ... *)
CeilingStops ==
  /\ pass = "cancel"
  /\ Stopped(at)
  /\ FinishedHere("failed", "failed")
  /\ UNCHANGED <<call, clock, cancels, history>>

(* ... or not, and asked again later, ... *)
CeilingRetries ==
  /\ pass = "cancel" /\ age[at] < 2
  /\ NotStopped(at) /\ markPolled(at)
  /\ Continues
  /\ UNCHANGED <<call, rows, age, cancels, history>>

(* Fault: a job that will not stop is asked for ever. *)
CeilingNever ==
  /\ pass = "cancel" /\ age[at] = 2
  /\ NotStopped(at) /\ markPolled(at)
  /\ Continues
  /\ UNCHANGED <<call, rows, age, cancels, history>>

(* Fault: the end says no more than that of a job that stopped. *)
CeilingSaysStopped ==
  /\ pass = "cancel" /\ age[at] = 2
  /\ NotStopped(at)
  /\ FinishedHere("failed", "failed")
  /\ UNCHANGED <<call, clock, cancels, history>>

(* ... until the grace is over, too: it is failed, saying that it may      *)
(* still be running.                                                       *)
CeilingGivesUp ==
  /\ pass = "cancel" /\ age[at] = 2
  /\ NotStopped(at)
  /\ FinishedHere("failed", "failed")
  /\ mayRun' = IF row[at] = "running" THEN mayRun \cup {at} ELSE mayRun
  /\ UNCHANGED <<call, clock, cancels, told, over, unheard, evicts>>

(* The notice is posted to the session, ... *)
Delivers ==
  /\ pass = "deliver"
  /\ told' = Put(told, at, told[at] + 1)
  /\ Continues
  /\ UNCHANGED <<calls, rows, clock, cancels, mayRun, over, unheard, evicts>>

(* ... is not for it to have (its task is over, or it is a subagent that  *)
(* may not be woken), ...                                                  *)
DeliversNothing ==
  /\ pass = "deliver"
  /\ unheard' = unheard \cup {at}
  /\ Continues
  /\ UNCHANGED <<calls, rows, clock, cancels, told, mayRun, over, evicts>>

(* ... or the post throws, which ends the pass. *)
DeliverThrows ==
  /\ pass = "deliver"
  /\ unheard' = unheard \cup {at}
  /\ pass' = "idle" /\ at' = None /\ left' = {}
  /\ UNCHANGED <<calls, rows, clock, cancels, told, mayRun, over, evicts>>

-----------------------------------------------------------------------------
(* jobs.cancel, and the cancel of a session (stopSessionJobs) *)

ToolCancels(j) ==
  /\ tool = None /\ row[j] = "running"
  /\ tool' = j
  /\ UNCHANGED <<calls, rows, clock, alarm, stop, history>>

(* Stopped: the operation is completed whether or not the job still ran. *)
ToolStops ==
  /\ tool # None
  /\ Stopped(tool)
  /\ finishBackgroundJob(tool, "cancelled") /\ completeOperation(tool, "cancelled")
  /\ tool' = None
  /\ UNCHANGED <<call, clock, alarm, stop, history>>

ToolFails ==
  /\ tool # None
  /\ NotStopped(tool)
  /\ tool' = None
  /\ UNCHANGED <<call, rows, clock, alarm, stop, history>>

StopBegins ==
  /\ stop = {}
  /\ stop' = runningBackgroundJobs \cap SessionJobs
  /\ stop' # {}
  /\ UNCHANGED <<calls, rows, clock, alarm, tool, history>>

StopStops(j) ==
  /\ j \in stop
  /\ Stopped(j)
  /\ finishBackgroundJob(j, "cancelled")
  /\ IF row[j] = "running" THEN completeOperation(j, "cancelled") ELSE op' = op
  /\ stop' = stop \ {j}
  /\ UNCHANGED <<call, clock, alarm, tool, history>>

(* Fault: one whose stop failed is finished as well. *)
StopFailsButFinishes(j) ==
  /\ j \in stop
  /\ NotStopped(j)
  /\ finishBackgroundJob(j, "cancelled") /\ op' = op
  /\ stop' = stop \ {j}
  /\ UNCHANGED <<call, clock, alarm, tool, history>>

(* One whose stop failed stays tracked. *)
StopFails(j) ==
  /\ j \in stop
  /\ NotStopped(j)
  /\ stop' = stop \ {j}
  /\ UNCHANGED <<call, rows, clock, alarm, tool, history>>

-----------------------------------------------------------------------------
(* The plugin's work, time and the platform *)

WorkEnds(j) ==
  /\ work[j] = "running"
  /\ work' = Put(work, j, "ended")
  /\ UNCHANGED <<call, rows, clock, alarm, cancels, history>>

ComesDue(j) ==
  /\ row[j] = "running" /\ ~due[j]
  /\ due' = Put(due, j, TRUE)
  /\ UNCHANGED <<calls, rows, age, alarm, cancels, history>>

Ages(j) ==
  /\ pass = "idle" /\ row[j] = "running" /\ age[j] < 2
  /\ age' = Put(age, j, age[j] + 1)
  /\ UNCHANGED <<calls, rows, due, alarm, cancels, history>>

(* Everything at an await is gone with the isolate. *)
Evicted ==
  /\ evicts < MaxEvicts /\ evicts' = evicts + 1
  /\ call' = [j \in Jobs |-> IF call[j] = "started" THEN "lost"
                             ELSE IF call[j] = "stopping" THEN "over" ELSE call[j]]
  /\ left' = {} /\ pass' = "idle" /\ at' = None
  /\ tool' = None /\ stop' = {}
  /\ unheard' = IF pass = "deliver" THEN unheard \cup {at} ELSE unheard
  /\ UNCHANGED <<work, rows, clock, told, mayRun, over>>

-----------------------------------------------------------------------------

PassStep ==
  \/ PassBegins \/ (\E j \in Jobs : PassNext(j)) \/ PassEnds
  \/ PollsRunning \/ PollsDone \/ CeilingStops \/ CeilingRetries \/ CeilingGivesUp
  \/ Delivers \/ DeliversNothing \/ DeliverThrows

CallStep(j) == Starts(j) \/ Admits(j) \/ RefusesOverCap(j) \/ RefusalAnswered(j)

CancelStep ==
  \/ (\E j \in Jobs : ToolCancels(j)) \/ ToolStops \/ ToolFails
  \/ StopBegins \/ (\E j \in Jobs : StopStops(j) \/ StopFails(j))

Next ==
  \/ PassStep \/ CancelStep
  \/ \E j \in Jobs : CallStep(j) \/ WorkEnds(j) \/ ComesDue(j) \/ Ages(j)
  \/ Evicted

Spec == Init /\ [][Next]_vars

(* The alarm is kept for the next check (AgentAlarm), a pass goes on, and  *)
(* time passes, however often a pass is under way.                         *)
FairSpec ==
  /\ Spec
  /\ WF_vars(PassStep)
  /\ \A j \in Jobs : WF_vars(ComesDue(j)) /\ SF_vars(Ages(j))

-----------------------------------------------------------------------------
(* Properties *)

(* The agent is told of a job's end at most once, never before its row and *)
(* its operation say so, and never of one that was cancelled, whoever else *)
(* ended it while the pass awaited the plugin.                             *)
ToldOnce ==
  \A j \in Jobs :
    LET n == told[j] + (IF pass = "deliver" /\ at = j THEN 1 ELSE 0)
    IN  n <= 1 /\ (n = 1 => row[j] \in {"done", "failed"} /\ op[j] # "running")

(* No work runs that nothing lists or stops, and the agent does not know   *)
(* of: work that has not ended has a running row; or it was given up with  *)
(* an end that says that it may still be running, which the agent was told *)
(* or is about to be, unless the notice was lost (its session may not be   *)
(* woken, its post threw, the object died with it in hand); or the object  *)
(* died between the plugin's answer and the record.                        *)
Tracked ==
  \A j \in Jobs :
    work[j] = "running" =>
      \/ row[j] = "running" \/ call[j] \in {"started", "lost"}
      \/ /\ j \in mayRun
         /\ told[j] = 1 \/ (pass = "deliver" /\ at = j) \/ j \in unheard

(* The agent never has more than the cap's jobs that were not refused. *)
BelowCap == Cardinality(runningBackgroundJobs \ over) <= Cap

(* A job ends, whatever its plugin answers: a slot is not held for ever. *)
JobEnds == \A j \in Jobs : (row[j] = "running") ~> (row[j] # "running")
=============================================================================
