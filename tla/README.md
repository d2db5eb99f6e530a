# A TLA+ verification of antiproton

antiproton runs long-lived agents on Cloudflare: each agent is one Durable
Object with its own SQLite store, which sleeps between inputs and is woken by
its one alarm. Its model calls are made by a queue consumer outside the object,
its tool calls go through a gateway that may hold them for a person, and
everything it does has to survive the object being evicted at any await.

This directory models seven parts of that system in which the order of steps
decides whether it is right: the **model jobs**, the **alarm**, the
**approvals**, the **inbound pushes**, the **GitHub token refresh**, the
**background jobs** and the **plugin hooks**. Every safety property a run checks
on a small instance is also proved with TLAPS for every value of the constants;
liveness is checked by TLC.

    tlc -workers 2 -config ModelJobsTakes.cfg MCModelJobs
    tlapm ModelJobsProofs.tla

## 1. Inventory

`src/` below is the repository's own root; the object's code is in `cf/src`, the
runtime it hosts in `src/runtime`, `src/store`, `src/plugins`.

| component | state | operations | interacts with | hard because | correct when |
|---|---|---|---|---|---|
| Durable model jobs (`runtime/durable-agent.ts`, `runtime/pd-outbox.ts`, `cf/src/model-queue.ts`) | `ap_model_jobs`, `ap_deliveries`, the staged map in memory, the queue | stage, commit hook, dispatch, sweep, take, call, deliver, release, cancel, dead letter | pi-durable's commits, the queue, the provider, the usage outbox | at-least-once queue, lost replies, takes that lapse, eviction between commit and send | one call at a time, first answer final, metered once, nothing waits for ever |
| Alarm and wake (`cf/src/index.ts`, `alarm-next.ts`, `usage-flush.ts`) | the alarm, `#wakeAsked`, failure and retry counts | wake, keep alive, fire, decide, stand down | every other component asks it for a wake | input lands between any two awaits of the pass; the pass may be cut short anywhere | whatever needs a pass has an alarm in time |
| Approvals (`runtime/gateway.ts`, `store/approvals-schema.ts`, `store/durable-object.ts`, `cf/src/runtime.ts`) | `approvals`, `operations` | hold, merge, decide, expire, claim a run, run, end, tell | gateway, console and provider requests, alarm, conversation | two ways to decide, two runners, deadlines, a run lost with its object | one effect per approval, what the agent is told is true and told once |
| Approval publication (`cf/src/approvals.ts`) | D1 copy, attempts | publish, retry | approvals, alarm | retries against a newer state | the copy converges |
| Tool gateway and operations | `operations`, mounts, leases | invoke, start, complete, resume | approvals, plugins, background jobs | idempotency across replays | an operation starts once |
| Inbound pushes (`runtime/inbound.ts`, `cf/src/runtime.ts`) | queue per hook, attempts | receive, post, retry, settle | alarm, conversation | a post that failed after it landed | posted at most once, in order |
| Park and settle (`runtime/durable-drive.ts`) | parked conversations | drive, park, settle | pi-durable, alarm | parking with something due | nothing due is parked |
| Background jobs (`runtime/background-jobs.ts`, `cf/src/runtime.ts`) | `background_jobs`, the operation, the plugin's work | start, admit or refuse, poll, stop at the ceiling, cancel, tell | gateway, alarm, conversation | four actors await the plugin over one row | told once, nothing runs untracked, the cap holds, a job ends |
| Plugin hooks (`runtime/plugin-wakes.ts`, `cf/src/runtime.ts`) | `plugin_turn_ends`, `plugin_turns`, `plugin_turn_asked`, `plugin_wakes`, `plugin_answers` | record an end, ask for a wake, tell, wake, keep and do an answer | the engine's runs, pushes, alarm | the pass is cut between a mark, a write and a drop | an end answered once, a turn posted once, no wake lost |
| GitHub token refresh (`cf/src/github-refresh.ts`, `control-plane.ts`) | the connector's row in D1 with its lease, each mount's pair | renew before use, after a 401, for another agent; reconnect, disconnect | every agent on the connector, GitHub | a refresh token is spent at its first use, by objects that cannot see each other | no token traded twice, no good connection broken |
| Client calls, subagents | rows per call or child | start, watch, stop, notify | gateway, conversation | an end that races a stop | one notice per end |
| Sandbox and leases | container, holders, idle time | hold, idle, wake, release | gateway | release racing a new holder | no container stopped in use |
| Trace and usage outboxes | rows, cursors | append, drain | alarm, D1, R2 | a batch sent whose cursor is lost | every row sent, cursors only forward |
| Spend limits, reminders, engine migration, overflow backstop, rebuild | small tables each | see `PROJECT.json` | | | |
| Console, control plane, plugins that only make requests, vendored engine | none of their own | | | | not modelled |

`PROJECT.json` lists every component with its sources and what of it is
modelled, and under `hazards` the 40 places in the modelled code where a test
would hardly reach.

## 2. Modules

| module | models |
|---|---|
| `ModelJobs` | the model jobs, in full |
| `ModelCall` | abstract: what a model job promises the runtime |
| `AgentAlarm` | the alarm, its pass and everything that asks for a wake |
| `Approvals` | held calls, from the policy's verdict to the notice |
| `HeldCall` | abstract: what the gate promises of a call |
| `Inbound` | the hook, the queue of pushes and the pass that hands them over |
| `Push` | abstract: what a hook's 202 promises |
| `GithubRefresh` | the renewal of a GitHub connection several agents share |
| `Connection` | abstract: what a shared connection promises the agents on it |
| `BackgroundJobs` | tool calls that outlive a turn, and who may end them |
| `PluginHooks` | the calls plugins are owed, and what their answers ask for |
| `MC*` | symmetry sets, tables of times and sets of answers for TLC |
| `*Proofs` | inductive invariants and theorems |

`Approvals` stands on `AgentAlarm`: its `woken`, `armed` and the wake left by an
eviction are what `NothingStranded` and `SafetyNet` say of the alarm.
`ModelJobs` likewise takes from it that a parked object comes back for its sweep.
`Inbound` has an alarm of its own, cut down to what `SafetyNet` and
`NothingStranded` promise of `AgentAlarm`'s `queued`: a pass that dies leaves its
net, a wake asked for during a pass stands at its end. The import hold is in
both: `AgentAlarm` has what it does to the alarm, `Inbound` what it does to the
pushes.
`BackgroundJobs` and `PluginHooks` are parts of the same pass, after the sessions
are stepped; that the pass comes back for a due check or wake is their fairness,
and `AgentAlarm`'s `InputIsRead`.

**Time.** The modules keep times as the ticks left until them, or ages up to the
last one the code tells apart, so the clock needs no bound; `Tick` passes time
for all of them at once.

**Faults.** An operator whose comment starts with "Fault:" is not part of any
specification. It is a plausible bug of the definition after it, kept to show
that a property notices: each run's properties are re-checked with the fault in
place and must then fail.

### 2.1 ModelJobs

A generation stages a job in memory (`StartJob`, `PdHost.startJob`); the commit
of its poll checkpoint inserts the row in the same transaction and dispatches
it afterwards (`CommitPoll`, `bookCommit` and `#afterCommit`). A dispatch is two
steps, the send and the mark of `dispatched_at`. The sweep resends what nobody
carries. A consumer's attempt goes `take`, `call`, `deliver`, with `release` on
a throw; a message that fails is retried `MaxRetries` times and then becomes a
dead letter, whose attempt delivers the failure as the answer.

| variable | code |
|---|---|
| `gen` | where the generation's task is in pi-durable (external) |
| `staged` | `PdHost.#staged` |
| `row` | `ap_model_jobs`; `hold` is `taken_at + TAKE_HOLD_MS - now`, `resend` is `dispatched_at + REDELIVERY_MS - now` |
| `sending` | dispatches in flight, in memory |
| `queue` | the model queue and its dead letter queue (external) |
| `att` | the consumer's invocations, by the name `newTaker` gave them |
| `deliveries` | `ap_deliveries`; `late` is there for the property |
| `charged`, `metered` | usage rows, by job and by attempt |

What can go wrong is in the actions: `Evict`, `Die`, `LoseMessage`, a `Receive`
that leaves the message on the queue, `TakeFails` and `Deliver` with the effect
and without the reply, a release that fails, a send that threw and yet arrived.
A taker's name is reused only when nothing stored names it, which stands for
the fresh UUID of each attempt.

Assumed of the constants (`JobsAssumption`): a call's deadline is within the
hold (`TAKE_HOLD_MS` is `MODEL_CALL_DEADLINE_MS` and a minute), and a commit
follows its generation within `STAGED_MS`.

### 2.2 AgentAlarm

One pass of `alarm()` is cut at its awaits: `AlarmFires` (net up, owner read),
`InboundEnds`, `StepReads` and `StepEnds`, `Flush`, `Decide`, `StandDown`,
`PassEnds`. Between any two of them an input or a push may land, a handler may
write rows or end, `#keepAlive` may bring the alarm forward, the pass may throw,
the isolate may die. `asked` is `#wakeAsked`; `alarm` the storage's; `work`,
`queued`, `hold`, `publish` and `rows` are what the object must come back for.
`arrived` marks input no step has looked at. `cut`, `blind` and `left` are
history: the last pass did not decide; it could not read its holds or publishes;
rows were left knowingly.

While an agent waits for its workspace import, `importHold` counts down to the
hold's own end (`IMPORT_HOLD_MAX_MS`), and `#deliverInbound` keeps every push and
comes back then (the second disjunct of `InboundEnds`). An import lifts the hold
in one transaction (`LiftHold`) and asks for the wake some awaits later
(`LiftWakes`); `lift` says that this wake is still to come, or was lost with the
object, in which case the bound on what waits is still the end of the hold, and
`importHold` stays until the next alarm fires.

After a pass that did not end, the alarm is the one armed or the platform's own
retry of it, whichever the platform chooses (`AlarmKept`). Past `MaxFailures`
failures in a row the code puts up no net, and the properties say so.

A usage sink that throws brings the pass back every minute without limit;
`USAGE_RETRY_LIMIT` bounds only sinks that refuse without throwing. The model
has both, as the code does.

### 2.3 Approvals

`Ops` are operations of one agent that ask for the same thing. `Invoke` records
the operation and asks the policy; `holdApproval` is the transaction that merges
it into a pending identical call or makes the hold. A person decides through the
provider (`DecideByProvider`) or the console (`DecideByConsole`,
`ApproveByConsole`, which goes on to run the call itself). The object's pass
expires what is due (`PassBegins`), claims and runs what is approved
(`SettleRun`), ends runs whose grace is over (`SettleStale`), and tells the
agent (`TellClaim`, `TellLands`, `TellFails`). A run is `StartRun`, `Act`,
`FinishRun`; `effects` counts what happened outside, which no code can see and
every property is about.

Abstractions: a hold without a deadline (`approvalTtlMs` 0) is left out; a call
is invoked once per operation id; a plugin's `unknown` status is a failure that
may have landed. A tool only a model may read is not run for an approval and
appears as a refusal. `RunTicks < GraceTicks` is what the comment on
`NOTICE_GRACE_MS` says. `told_at` is written before the engine's commit, so a
stop between the two loses the notice: the code chooses at most once, and
`Evict` shows the loss.

### 2.4 Inbound

A request at a hook is two steps: `HookChecks` up to the last await of
`receiveHook`, and the synchronous run after it, which refuses (`HookRefuses`) or
takes the push and arms the alarm (`HookTakes`). The alarm pass begins by
lifting a hold at its deadline and giving up what is too old (`PassBegins`), then
looks at the head again and again: one action per branch of the loop
(`LookEmpty` ... `LookReady`). A post is `Claim`, `MarkPosting`, `Say` and
`Delivered`, or a failure (`Requeues`, `GivesUp`); the object may be evicted
between any two of them.

| variable | code |
|---|---|
| `state`, `ahead`, `tries`, `wait` | `inbound_pending`: `state`, the rows with a lower `seq`, `attempts`, `next_at - now` |
| `age` | since `received_at`, of the row or of the record that replaced it |
| `record` | the row of `inbound_events` that holds the key; "unclear" is the failure whose reason says it may have arrived |
| `stamped` | requests between their last await and the synchronous run |
| `mount` | the mount's row and the gateway's mark of a removal, in memory |
| `hold`, `lifted` | `import_hold`: the ticks to its own end, and since it was lifted |
| `unwoken` | history: an import lifted the hold and no pass has looked since |
| `alarm`, `pc` | the object's alarm, and where the pass is |
| `said` | how often the agent was given the push: for the properties |

Abstractions: one mount with one hook, and every push names its key; no profile
(under one, nothing is queued); a mount added again under the alias has another
installation id and is gone to the rows already queued; a hook answers within a
tick, so `received_at` follows the order of the rows. A post that throws wrote
nothing: it is the rule the code retries by, and the model's assumption on the
engine. The net is there whenever a pass dies: an object that has failed
`MaxFailures` times in a row has none, which is `AgentAlarm`'s to say. `said`
counts while the key is held; once its record is past `INBOUND_DEDUPE_MS` the
same key is another push. `tries` counts without a limit, as `attempts` does: a
pass that dies before its post counts one too, and only the place read in the
retry table is clipped.

### 2.5 GithubRefresh

One connector in D1, the agents' mounts on it, and any number of runs of
`#renew`. A renewal begins before a use, after a 401 or because another agent
renewed (`Begin`), reads the connector and decides whether it needs renewing
(`ReadEnds` ... `ReadFresh`, `Ask`), takes the lease or waits for it (`lease`,
`LeaseHeld`, `LeaseLooks`, `LeaseGivesUp`), reads again (`Reread`), trades
(`Trade`, `Refuse`, `Unavailable`), stores the new pair over the one it traded
(`Store`, `StoreThrows`) or marks the connector (`Recheck`, `markBroken`,
`LookAgain`), and writes its own mount (`Write`, `Keep`, `Break`).

| variable | code |
|---|---|
| `issued`, `unspent` | GitHub: pairs in the order of issue, and those it still takes (external) |
| `stored`, `broken`, `there` | the connector's row: its pair, `broken_at`, that it exists |
| `leaseBy`, `leased` | `refreshing_by`; `refreshing_until` is ahead |
| `pair`, `mbroken` | each mount's sealed pair and its `brokenAt` |
| `hand`, `told` | a reconnect's pair on its way to a mount; the handing on after a renewal |
| `ren` | the renewals, by where they are and what they have read |
| `aged` | pairs up to this one have been found near their expiry |
| `adrift` | history: a token possibly spent with no successor stored: its lease lapsed, its trade was lost, its authorization withdrawn |

No clock is assumed: whether a pair has expired, or was stored moments ago, is
open at each look, and a lease may lapse under its holder at any step. The guard
a mount stores against two renewals of its own lapses with `LEASE_MS` while a
renewal may wait longer than that for the lease alone, so nothing rests on it. A
mount with a refresh token of its own, off any connector, is left out. The run has
one mount: that another agent's mount adopts a pair renewed by the first is in the
actions and in the theorems, and not exercised by TLC with a second mount.

### 2.6 BackgroundJobs

Four actors meet over a job's row: the call that starts it (`Starts`, `Admits`,
`RefusesOverCap`, `RefusalAnswered`), the pass (`PassBegins`, `PassNext`,
`PollsRunning` ... `DeliverThrows`), `jobs.cancel` (`ToolCancels`, `ToolStops`,
`ToolFails`) and a session's cancel (`StopBegins`, `StopStops`, `StopFails`).
Each awaits the plugin between its look at the row and what it does with it;
`finishBackgroundJob`, whose update names the running state, is what settles who
ended the job. `work` is the plugin's side, which no code of the object sees; a
stop that failed may have stopped it all the same. What the pass writes with no
await on anything but the object's own storage is one step.

Time is per job: due or not, and before the ceiling, past it, past the grace
after it. A pass reads the clock once, at its beginning, so a job ages between
passes only. A notice withheld from a subagent, or from a task that is over, is
`DeliversNothing`.

`mayRun` holds the jobs let go at their ceiling whose outcome, and so whose notice,
says that the work may still be running; `unheard` is history, those whose notice
reached nobody because the session takes none, the post threw or the object was
evicted with the notice in hand. `Tracked` wants work that runs on without a
running row to be in `mayRun`, and its notice told, in hand or `unheard`; left out
are calls whose object died before the row was recorded.

### 2.7 PluginHooks

The pass steps the sessions and records the ends it saw (`Settles`,
`RecordEnd`), tells the mounts every end owed (`EndTold`, `EndAnswered`), runs
the wakes that are due (`WakeCalled`, `WakeAnswered`), and does what was answered
(`AnswerTaken`, then `CancelsRun` and `CancelsRecorded`, `PostMarks`, `SayStarts`
or `SayJoins`, `Bound`). People's messages and cancels (`Says`, `CancelAborts`,
`CancelRecords`) and pushes (`Push`) come in between, and the pass may throw or
be evicted.

| variable | code |
|---|---|
| `open`, `short`, `active` | runs not settled, those of short sessions, `pi_sessions.active` |
| `row`, `key` | `plugin_turn_ends`; `plugin_turns`, or a short session's key |
| `asked` | `plugin_turn_asked`: the key waiting for its run |
| `wake`, `due` | `plugin_wakes`: its `gen`, and that its time has come |
| `ans` | `plugin_answers`: kept, marked posting, dropped; who asked and for what |
| `pass`, `at`, `op`, `todo`, `seen` | where `#runPluginHooks` is, and what it has read |
| `stopping` | an API cancel between its abort and its record |
| `holds`, `owed`, `answered`, `posts` | history, for the properties |

It is the pi085 engine's pass: the other engine has no hooks. What a turn says,
budgets, and the refusal of an answer's contents are left out; an answer is one
of the sets of things `PluginNext` may ask for. A message that joins a run going
on changes nothing here unless a hook asked for it. `markSession` marks the
conversation by what its step said some awaits earlier (`runtime.ts:6247`), which
may since have changed, so `HooksBegin` leaves the mark open. Every answer has a
key: a turn asked for without one, which waits under no key and is bound to none
(`runtime.ts:6618-6629`), is left out. `keepWake`'s wake is due at once, as its one
caller asks (`runtime.ts:4058`).

## 3. Runs

| run | instance | checks |
|---|---|---|
| `jobs_takes` | 1 job, 2 takers, hold 2, call 1, 1 retry | `TypeOK`, `AtMostOneCall`, `OneTakerInHold`, `MeteredOnce`, `PollHasRow`, `SentIsRecorded`, `ImplementsModelCall` |
| `jobs_live` | 1 job, 2 takers, fair | `JobEnds` |
| `alarm_pass` | waits {1}, watch 0, inbound 1, hold 2, flush 1, retry limit 1, 1 failure, fair | `TypeOK`, `NothingStranded`, `SafetyNet`, `RowsHaveAlarm`, `InputIsRead` |
| `approvals_gate` | 2 calls, 3 policies, ttl 1, grace 2, run 1 | `TypeOK`, `OneCard`, `NoticeTrue`, `ToldOnce`, `ImplementsHeldCall` |
| `approvals_live` | 2 calls, fair | `PendingEnds` |
| `inbound_pass` | 2 pushes, 2 attempts, age 2, window 3, hold 3, fair | `TypeOK`, `SaidOnce`, `HasAlarm`, `ReadInOrder`, `ImplementsPush`, `PushSettles` |
| `github` | 1 mount, 2 renewals, 2 writes, 2 pairs, 1 fault, fair | `TypeOK`, `BrokenIsDead`, `TradesLive`, `ImplementsConnection`, `DeadMountEnds` |
| `background` | 2 jobs, 1 of a session that may be cancelled, cap 1, 1 eviction, fair | `TypeOK`, `ToldOnce`, `Tracked`, `BelowCap`, `JobEnds` |
| `hooks` | 1 mount, 1 answer of 5 kinds, 2 runs, 1 push, 2 cuts, fair | `TypeOK`, `AnsweredOnce`, `PostedOnce`, `WakeKept`, `CallsMade` |
| `approvals_run_ends` | 1 call, fair | `RunEnds`, violated |
| `approvals_background` | 1 call | `BackgroundTracked`, violated |
| `hooks_key` | as `hooks`, no cuts | `KeyIsItsOwn`, violated |

**Why the bounds are enough.** Within a model job, two attempts show every pair
of a holder and a latecomer, and a hold longer than the call is the only thing
the times must tell apart; jobs meet only in the staged map and the sweep's
limit, which the theorems `PollRecorded` and `OnlyRecordedSent` cover for any
set of jobs. The alarm's net, a push's retry and the import hold are in the code's
order, each longer than the one before, so a bound that forgot one of them would
be passed; one failure takes the net down and one stand-down retry is followed by
giving up.
Two identical calls are a merge, and two holds are a hold that is due beside one
that is not. Two pushes are a head and what waits behind it, and the window is
longer than the age limit and the hold as long as the window, as in the code;
two attempts are a retry and a last one. The rate and the queue's cap equal the
number of keys: the rate refuses when both are taken within a tick, and a full
queue refuses only duplicates. Two renewals are a holder and one whose lease
lapsed; a second pair is the one a trade or a reconnect hands out, after which a
bound on pairs keeps GitHub from answering (`AtBound`, which `DeadMountEnds`
excuses by name). A cap of one and two jobs are one admitted and one refused.
Two runs are a mount's turn and the run of a person it is taken for, and two
cuts are one pass that dies and the next that dies over what it left. The
theorems carry each safety property beyond the bounds.

`Unanswered`, the constraint of `jobs_live`, cuts the instance at its one job's
answer: an answer is never taken back (`AnswersFinal`), so `JobEnds`
holds of every state past it. Symmetry is used only where no liveness is
checked. `background` has no deadlock check: when every job has started and
ended and the evictions are used up, nothing is left to happen.

**Fairness.**

- `ModelJobs`: time passes, a swept job's send and mark go on, the sweep comes
  (the alarm does), a commit lands or is lost, an attempt at its take or its
  release goes on: weak. A send, a message's delivery, a winning take, a call
  and a delivery that are tried again and again succeed once: strong, since each
  may fail and be retried. Nothing is assumed of the dead letter queue.
- `AgentAlarm`: the platform fires due alarms, a pass that is not cut goes on:
  weak. A pass that is started again and again gets as far as its step once:
  strong. `InputIsRead` excuses an object that has failed `MaxFailures` times.
- `Approvals`: time, alarms and what an object runs: weak. Nothing is assumed of
  people, nor that anything but the armed alarm wakes the object.
- `Inbound`: time passes, a due alarm fires, a pass that is not cut goes on:
  weak. Nothing is assumed of posts, which may all fail, of removals or of the
  service. Evictions may recur for ever: `PushSettles` holds by the age limit.
- `GithubRefresh`: a renewal that is not cut goes on, leases lapse: weak. A mount
  whose token GitHub refuses is used again and its renewal runs (the use is the
  agent's, and the property is about mounts in use), and the pair is looked at
  again when its last storing is no longer moments ago: strong, since the
  conditions for each come and go. Faults are bounded by `MaxFaults`.
- `BackgroundJobs`: the pass goes on and a next check comes due: weak. A job
  ages: strong, because in the model it does so between passes only. Nothing is
  assumed of the plugin, which may never answer that the work is done or stopped.
- `PluginHooks`: the pass goes on: weak. Nothing is assumed of people or pushes;
  a throw or an eviction ends at most `MaxCuts` passes.

### Findings

Three runs end in the violation of something the repository says of itself.

- `approvals_run_ends`: `docs/raft-approvals.md` says a run lost with its object
  ends fifteen minutes after it was claimed. `approvalDeadline` counts pending
  holds only, so no alarm is armed for it, and it ends when something else wakes
  the object.
- `approvals_background`: the same document says the result of an approved run
  that went to the background "arrives in the job's own notice". Jobs are
  recorded by `dispatch`, which an approved run does not pass through.
- `hooks_key`: a comment in `plugin-wakes.ts` says nothing else starts a run
  between a post and its end being recorded, and `plugins/types.ts` promises a
  null key for a turn a mount did not ask for. An API cancel records its run's
  end some awaits after the abort; a plugin's turn posted in between has its key
  waiting, and the cancelled run of the person is told under it.

### Observations

Met while modelling, visible in the actions named, and not the subject of a run:

- `InboundEnds` (`index.ts:2564`): the retry of a queued push is armed over
  whatever alarm stands, where the comment on `#wake` (`index.ts:621-622`) says a
  running pass does not replace a wake that was asked for. Memory holds the
  earlier time until the pass decides; `NothingStranded` shows that a pass cut
  before that is late by the retry at most (ten minutes), and under an import hold,
  whose end is armed the same way (`runtime.ts:1775-1779`), by what is left of the
  hold: up to 24 hours, for an input that landed while the pass ran.
- `LiftHold` and `Evict` (`index.ts:2248-2250`): the object may die after the
  import's transaction lifted the hold and before its wake. The import tried again
  finds the hold lifted (`liftHold` returns null) and wakes nothing, so the pushes
  wait for the alarm that is armed, at worst until the hold would have ended by
  itself; the comment at `runtime.ts:1773-1774` says only that the import "wakes the
  object". `NothingStranded` and `HasAlarm` allow that wait and no longer one.
- A pass that cannot read its holds or publishes takes them for none
  (`index.ts:3085`), which is why `NothingStranded` excuses `blind`.
- `PassBegins` of `Inbound` (`runtime.ts:1788`): a row left `posting` and met past
  its age is recorded as never posted, where the comment at `runtime.ts:1750`
  says such a row is settled saying that it may have landed. It is not posted
  again (`SaidOnce`).
- `LookReady` (`runtime.ts:1820`): a mount removed between the check and the post
  still has its push handed over. A rename makes queued pushes ignored, since
  they are looked up by the old alias. A submission that threw after it was
  admitted (`durable-agent.ts:878`) is taken for one that wrote nothing. Within
  the age limit of a lifted hold, a waiting head makes the pass ask for an
  immediate wake until its retry is due (`runtime.ts:1844`).
- `Write` (`github-refresh.ts:483-489`): a mount that kept the only live pair,
  because D1 would not take it, has it replaced by the connector's spent one at
  the next renewal, which compares the two for equality and not for age. What
  `DeadMountEnds` leaves is that its person is asked to reconnect.
- `DeliverThrows` (`background-jobs.ts:286`, `298`): a job's row is finished
  before its notice is posted, and only running rows are looked at again, so a
  post that throws loses the notice the `jobs` tool promises
  (`background-jobs.ts:347-348`). Of a job let go at its ceiling this is the notice
  that "the agent is told it may still be running" (`:264-266`): work may run on of
  which it never hears, which `Tracked` excuses by `unheard`. `ToolStops`
  (`:364-365`): `jobs.cancel` completes the operation as cancelled even when the job
  ended by itself during the stop.

## 4. Proofs

Each `*Proofs` module has one inductive invariant, a lemma per action, and the
theorems. Nothing is assumed but the named assumption of each module.

Beside the properties the runs check there are three kinds of theorem. *What is
final*: an action property of the tables that several writers share. *What a
liveness property rests on*: the invariant that keeps its fair action in reach.
*For cause*: `Spec /\ [][A]_vars => []P`, where `P` fails in general and `A` names
the steps that may break it; it says that nothing else does. `A` forbids single
steps of the specification and every other fault and race stays in. Each of
these was checked by TLC before it was proved: on the instance of the
component's run, the third kind with `Next /\ A` for `Next`, a little larger
where the claim needs it (three pushes, two answers, three pairs).

**ModelJobsProofs.** `IndInv` adds to the properties: a staged generation has
its staged entry, not yet expired (`StagedInv`); an absent row has no answer
(`AbsentInv`); an attempt is idle or at some job (`IdleInv`); an attempt whose
own hold has ticks left is the row's taker with exactly as many left (`HoldInv`),
from which `AtMostOneCall` follows since a call is always within its hold; a job
answered within its hold is taken by no other attempt (`DeliveryInv`) nor answered
by another within its own (`DeliveredInHold`), which with `HoldInv` is
`OneTakerInHold`; and what was metered is what was delivered (`MeterInv`).
Theorems `Invariance`, `Typing`, `OneCall`, `OneInHold`, `PollRecorded`,
`OnlyRecordedSent`, `Metering`, and `Refinement` to `ModelCall`. `PollAwaited`:
where a generation is and what its row says agree, so a live poll's job is out;
it is inductive given `IndInv`.
`AnswersFinal`, that no answer, charge or end is undone, is read off `ModelCall`
through the refinement; it is what the constraint `Unanswered` relies on.

**AgentAlarmProofs.** `IndInv` says what each await of the pass carries: before
the decision, `asked` stands for every input and push not read and `wait` for
what the step left (`CarriedInv`), under an armed net (`SafetyNet`); once armed,
the decision answers everything (`ArmedInv`); an unclaimed object needs nothing
(`UnclaimedInv`); a push under an import hold waits for its end at most, and a lift
whose wake is outstanding still has that end as its bound (`HoldInv`). `NothingStranded` alone is not inductive:
it speaks of decided states, and the decision is right only because of what was
carried. Theorems `Invariance`, `Typing`, `Stranding`, `Net`, `Outboxes`.
`Attending` is what `InputIsRead` rests on: an unread input is work for now
(`InputIsWork`), so decided or not its alarm is within the net, a push's retry or
the import hold. `NearerOnly`: once decided, an alarm is not put off. `Punctual`, for
cause: without a failed pass or one evicted before it decided, no alarm is
later than what it is for (nor, without a lift cut off before its wake, than the
pushes the hold kept), so the slack in `Answered` and `Unwoken` is owed to those
alone.

**ApprovalsProofs.** `IndInv` relates, per operation, the call's verdict, the
operation's status, the hold and its runners: only a claimed hold has a runner,
one at most of the pass and the console, within `RunTicks` of the claim
(`CallInv`, `RunInv`); a run listed to be ended was claimed the whole grace ago,
so nobody runs it any more (`TodoInv`); effects are at most one, and none before
a claim (`HoldInv`); a notice is posted only of a told hold (`ToldInv`,
`TellInv`). Theorems `Invariance`, `Typing`, `Merging`,
`Truth`, `Telling`, and `Refinement` to `HeldCall`. `Deciding`: decisions, claims
and ends are final. `Arming` is what `PendingEnds` rests on: between passes a
pending hold has a wake or an alarm by its deadline; the deadline armed is a
least one, whose existence comes from the well-founded order of the numbers.
For cause: `Awaiting`, that an approved call not begun is about to be, unless a
pass throws with rows left; `Reporting`, that an end not told is too, unless
besides a notice fails. A step in which a turn begins is also one in which the
pass could have thrown, hence `PassThrows => TurnBegins` in the hypotheses and in
`RunEnds`. `Untracked`: of no held call is a job recorded, so what
`approvals_background` shows happens to every approved call that goes to the
background.

**InboundProofs.** `IndInv` adds to the properties: `ahead` orders the rows
strictly and no younger row is ahead of an older one (`Queue`); a push said is
held by its key, in its row marked posting or in its record, and no queued row
has been said (`Held`); a pass past its look has a head, marked exactly from
`MarkPosting` on, and said exactly at "said" (`AtWork`). `SaidOnce` rests on the
last two: the one step that says a push finds it marked and unsaid. Theorems
`TypeCorrect`, `NeverTwice`, `NeverWithoutAlarm`, `InOrder`, and `Refinement` to
`Push`. `Bounded`: the limits on the queue and on the minute, each tested by one
request at a time, hold of all of them; `LimInv` adds that the queue is one line
(`Line`), and the counting is done with the cardinality theorems. `AlwaysAHead`
is what `PushSettles` rests on: a finite line has a first row. `RecordsFinal`: a
record stands until its window is over.

**GithubRefreshProofs.** `IndInv` says what a renewal may rely on after each
await: a refusal was about a token that is and stays dead, what it read is not
newer than what is stored (`Local`); without its lease the pair in hand is adrift
if it is the one stored, with it nobody else has spent it (`Leased`); and the pair
stored is live, adrift, or being replaced by the holder (`StoredIsLive`).
`TradesLive` alone is not inductive: that nobody else spends the token is known
only from where every other renewal stands. Theorems `TypeCorrect`,
`MarkedWhenDead`, `NeverTradedTwice`, and `Refinement` to `Connection`.
`Succession`: the stored pair is live, adrift or being replaced, and one renewal
at most trades it. `AskedForCause`: a person is asked to connect again only after
a revocation, a lease lapsing under its holder, or a renewal cut off between
GitHub's answer and the write (`Lossless` forbids these). Then nothing is adrift,
so a renewal that was refused has been overtaken and its pair is no longer the
one stored (`Superseded`), and its conditional write of the mark finds nothing.

**BackgroundJobsProofs.** `IndInv` adds to the properties that a call which has
not answered has no row (`NotYet`), so that a job recorded now was never finished
or told. The cap needs the cardinality theorems, since a row ends in some steps
and appears in one. Theorems `TypeCorrect`, `EndIsToldOnce`, `NoWorkUntracked`,
`CapHolds`. `LedgerAgrees`: the row, the operation and the plugin's work agree,
with the one exception that `jobs.cancel` makes; `LedgerInv` adds that the pass
and the cancels are at recorded jobs (`Seen`) and that a call not answered has an
open operation (`Opened`). `EndsFinal`: ends stand. `SilentForCause`: the pass's
end of a job is told unless its session takes nothing, the post throws or the
object is evicted with the notice in hand.

**PluginHooksProofs.** `IndInv` adds to the properties: the ends the pass has
listed are owed, and the one it is telling is not listed twice (`EndsOwed`); the
answer at hand is kept until it is marked, and unwritten when it is about to be
written (`AtHand`); the gen read is at most the row's, and behind it once a wake
is asked for during the call (`Gens`). Theorems `TypeCorrect`, `EndAnsweredOnce`,
`TurnPostedOnce`, `NoWakeLost`. `NothingUndone`: ends and answers only go forward.
`KeyForCause` bounds the finding `hooks_key`: `KeyIsItsOwn` holds unless a post
throws or is evicted while its key waits, a cancel records another run's end
meanwhile, or a hook's turn joins a run. `KeyInv` says that a key waits only
between its mark and its binding. TLC finds `KeyIsItsOwn` violated when any one
of the four is allowed again.

**Only model-checked:** the liveness properties `JobEnds` (of both kinds of
job), `InputIsRead`, `PendingEnds`, `PushSettles`, `DeadMountEnds` and
`CallsMade` (the prover has no liveness under fairness), and the three
violations. Of `InputIsRead`, `PendingEnds` and `PushSettles` the invariant each
rests on is proved (`Attending`, `Arming`, `AlwaysAHead` with
`NeverWithoutAlarm`).

## 5. Not modelled, and the plan

Not modelled for good: request handlers with no state of their own, pages,
plugins that only call services outside the repository, the vendored engine
(what the host relies on of it is marked external where it is used). They are
most of the repository's lines (the console and its pages, provisioning
handlers, the Raft, sandbox and other plugins' requests and formatting), so the
modules stand for a small share of the lines and for the part of them in which
interleaving, failure and time decide. The prewarm messages on the model queue
are hints whose loss nothing depends on.

In the order of what a mistake would cost:

1. Subagents: one notice per end of a child, a stop racing it.
2. Approval publication: the provider's copy converges on the hold's end.
3. Park and settle: nothing due is parked.
4. Sandbox leases: no container released in use.
5. Inbound, further: renames of a mount with pushes queued, several hooks with
   their own caps, profiles.
6. Outbox cursors, the reminder plugin's schedule, engine migration.

Abstract specifications worth stating with them: a copy that converges, for the
publication, and a lease for the sandbox. Theorems: the safety invariants of
each, and that they implement those.
