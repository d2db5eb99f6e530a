---------------------------- MODULE PluginHooks ----------------------------
(***************************************************************************)
(* The plugin code an agent owes a call (src/runtime/plugin-wakes.ts), and *)
(* the pass that makes the calls (AgentRuntime.#runPluginHooks,            *)
(* cf/src/runtime.ts), on pi085: the end of every turn is told to the      *)
(* mounts, a mount is woken when it asked to be, and what a hook answers   *)
(* is done: a wake asked for, the turn cancelled, the conversation begun   *)
(* anew, a turn posted under the mount's key. Meanwhile people post and    *)
(* cancel, pushes ask for wakes, and the object may be evicted at any      *)
(* await of the pass.                                                      *)
(*                                                                         *)
(* What is written with no await between is one step. Turns are the runs   *)
(* of the main conversation, one at a time, and of short sessions.         *)
(***************************************************************************)
EXTENDS Naturals

CONSTANTS
  Mounts,      (* aliases of the mounts whose plugin has hooks             *)
  Answers,     (* answers that hooks may give, each a key                  *)
  Bodies,      (* what an answer may ask for (PluginNext)                  *)
  None,        (* nothing                                                  *)
  MaxRuns,     (* bound: runs started                                      *)
  MaxAsks,     (* bound: pushes that ask for a wake                        *)
  MaxCuts      (* bound: passes cut short                                  *)

Body == [wakes : BOOLEAN, cancels : BOOLEAN, clean : BOOLEAN, turn : {"none", "main", "alone"}]

ASSUME HooksAssumption ==
  /\ Bodies \subseteq Body
  /\ \A b \in Bodies : [b EXCEPT !.wakes = FALSE, !.cancels = FALSE] \in Bodies
  /\ None \notin Answers \cup Bodies \cup Mounts
  /\ MaxRuns \in Nat /\ MaxAsks \in Nat /\ MaxCuts \in Nat

Runs == 1..MaxRuns

VARIABLES
  starts,    (* runs started                                               *)
  open,      (* runs not settled                                           *)
  short,     (* runs of short sessions                                     *)
  active,    (* pi_sessions.active of the main conversation                *)
  holds,     (* history: the answers whose turn a run was given            *)
  row,       (* plugin_turn_ends: none, owed, handled                      *)
  key,       (* plugin_turns, or a short session's key: the run's, or None *)
  asked,     (* plugin_turn_asked                                          *)
  wake,      (* plugin_wakes: gen, 0 with no row                           *)
  due,       (* its time has come                                          *)
  ans,       (* plugin_answers                                             *)
  pass,      (* the pass: its step                                         *)
  at,        (* the pass: the run, mount or answer it is at                *)
  op,        (* the pass: the run that its post started or it aborted, or 0*)
  todo,      (* the pass: ends, or answers, still to see to                *)
  seen,      (* the pass: the gen of each wake still to run                *)
  stopping,  (* the run an API cancel aborted, its end not recorded, or 0  *)
  owed,      (* history: a call of wake asked for and not begun            *)
  answered,  (* history: how often the end was answered                    *)
  posts,     (* history: how often the engine was given the turn           *)
  asks,      (* history: pushes that asked                                 *)
  cuts       (* history: passes cut short                                  *)

lane == <<starts, open, short, active, holds>>
ends == <<row, key, asked, answered>>
wakes == <<wake, due, owed, asks>>
replies == <<ans, posts>>
work == <<pass, at, op, todo, seen>>
vars == <<lane, ends, wakes, replies, work, stopping, cuts>>

Answer ==
  [at : {"none", "kept", "posting", "gone"}, by : Mounts \cup {None}, body : Bodies \cup {None}]

Unasked == [at |-> "none", by |-> None, body |-> None]

(* The run of the main conversation, if one is going. *)
mainRun == open \ short

TypeOK ==
  /\ starts \in 0..MaxRuns
  /\ open \subseteq 1..starts /\ short \subseteq 1..starts /\ active \in BOOLEAN
  /\ \A r, s \in mainRun : r = s
  /\ holds \in [Runs -> SUBSET Answers]
  /\ row \in [Runs -> {"none", "owed", "handled"}]
  /\ key \in [Runs -> Answers \cup {None}] /\ asked \in Answers \cup {None}
  /\ wake \in [Mounts -> Nat] /\ due \in [Mounts -> BOOLEAN]
  /\ ans \in [Answers -> Answer]
  /\ \A k \in Answers : ans[k].at \in {"kept", "posting"} => ans[k].by \in Mounts /\ ans[k].body \in Bodies
  /\ pass \in {"idle", "step", "record", "ends", "end", "wakes", "wake",
               "answers", "cancel", "cancelled", "post", "say", "said"}
  /\ pass \in {"record", "end"} => at \in Runs
  /\ pass = "wake" => at \in Mounts
  /\ pass \in {"cancel", "cancelled", "post", "say", "said"} => at \in Answers
  /\ op \in 0..MaxRuns /\ (pass = "cancelled" => op # 0)
  /\ todo \subseteq Runs \cup Answers
  /\ pass = "ends" => todo \subseteq Runs
  /\ pass \in {"answers", "cancel", "cancelled", "post", "say", "said"} => todo \subseteq Answers
  /\ seen \in [Mounts -> Nat]
  /\ stopping \in 0..MaxRuns
  /\ owed \in [Mounts -> {"none", "later", "now"}]
  /\ answered \in [Runs -> Nat] /\ posts \in [Answers -> Nat]
  /\ asks \in 0..MaxAsks /\ cuts \in 0..MaxCuts

Init ==
  /\ starts = 0 /\ open = {} /\ short = {} /\ active = FALSE
  /\ holds = [r \in Runs |-> {}]
  /\ row = [r \in Runs |-> "none"] /\ key = [r \in Runs |-> None] /\ asked = None
  /\ wake = [m \in Mounts |-> 0] /\ due = [m \in Mounts |-> FALSE]
  /\ ans = [k \in Answers |-> Unasked]
  /\ pass = "idle" /\ at = None /\ op = 0 /\ todo = {} /\ seen = [m \in Mounts |-> 0]
  /\ stopping = 0
  /\ owed = [m \in Mounts |-> "none"]
  /\ answered = [r \in Runs |-> 0] /\ posts = [k \in Answers |-> 0] /\ asks = 0 /\ cuts = 0

-----------------------------------------------------------------------------
(* The tables *)

Set(f, x, v) == [f EXCEPT ![x] = v]

(* bindTurn, and what is left of the key that waits for its run. *)
bindTurn(r, k) == key' = Set(key, r, k) /\ asked' = IF asked = k THEN None ELSE asked

(* Fault: an end recorded again is told again. *)
recordTurnEndAgain(r) ==
  /\ IF asked # None /\ key[r] = None THEN bindTurn(r, asked) ELSE UNCHANGED <<key, asked>>
  /\ row' = Set(row, r, "owed")

(* recordTurnEnd: a key that was never bound is taken for this run's; an   *)
(* end recorded before is not recorded again.                              *)
recordTurnEnd(r) ==
  /\ IF asked # None /\ key[r] = None THEN bindTurn(r, asked) ELSE UNCHANGED <<key, asked>>
  /\ row' = IF row[r] = "none" THEN Set(row, r, "owed") ELSE row

(* askWake, for now or for later: the earlier time stays, the gen moves. *)
askWake(m, now) ==
  /\ wake' = Set(wake, m, wake[m] + 1)
  /\ due' = Set(due, m, due[m] \/ now)
  /\ owed' = Set(owed, m, IF now \/ owed[m] = "now" THEN "now" ELSE "later")

(* Fault: the row goes, whichever ask it is. *)
dropWakeAny(m, gen) == wake' = Set(wake, m, 0) /\ due' = Set(due, m, FALSE)

(* dropWake: only the row that ran. *)
dropWake(m, gen) ==
  IF wake[m] = gen
  THEN wake' = Set(wake, m, 0) /\ due' = Set(due, m, FALSE)
  ELSE UNCHANGED <<wake, due>>

(* What the hooks of the mounts ms answered is kept: of each mount one     *)
(* answer, or none.                                                        *)
keepAnswer(ms) ==
  \E K \in SUBSET {k \in Answers : ans[k].at = "none"} :
    \E by \in [K -> ms], body \in [K -> Bodies] :
      /\ \A j, k \in K : by[j] = by[k] => j = k
      /\ ans' = [k \in Answers |-> IF k \in K THEN [at |-> "kept", by |-> by[k], body |-> body[k]]
                                   ELSE ans[k]]

Drop(k) == ans' = [ans EXCEPT ![k].at = "gone", ![k].body = None]

-----------------------------------------------------------------------------
(* People, pushes and time *)

(* A message starts a run; one that joins a run changes nothing here. *)
Says ==
  /\ mainRun = {} /\ starts < MaxRuns
  /\ starts' = starts + 1 /\ open' = open \cup {starts + 1} /\ active' = TRUE
  /\ UNCHANGED <<short, holds, ends, wakes, replies, work, stopping, cuts>>

(* cancelSession for the API: the run is aborted, and its end recorded     *)
(* some awaits later. A step may be driving the run at that moment, and    *)
(* see it settle too.                                                      *)
CancelAborts ==
  /\ stopping = 0
  /\ \E r \in mainRun \cup (IF pass = "record" THEN {at} \ short ELSE {}) :
       stopping' = r /\ open' = open \ {r}
  /\ UNCHANGED <<starts, short, active, holds, ends, wakes, replies, work, cuts>>

CancelRecords ==
  /\ stopping # 0
  /\ recordTurnEnd(stopping)
  /\ stopping' = 0
  /\ UNCHANGED <<lane, answered, wakes, replies, work, cuts>>

(* A push its plugin acts on. *)
Push(m) ==
  /\ asks < MaxAsks /\ asks' = asks + 1
  /\ askWake(m, TRUE)
  /\ UNCHANGED <<lane, ends, replies, work, stopping, cuts>>

(* keepWake, when a harness is opened: only where none is kept. *)
keepWake(m) ==
  /\ wake[m] = 0
  /\ askWake(m, TRUE)
  /\ UNCHANGED <<lane, ends, asks, replies, work, stopping, cuts>>

WakeComesDue(m) ==
  /\ wake[m] # 0 /\ ~due[m]
  /\ due' = Set(due, m, TRUE)
  /\ UNCHANGED <<lane, ends, wake, owed, asks, replies, work, stopping, cuts>>

-----------------------------------------------------------------------------
(* The pass: the sessions are stepped, and the ends recorded *)

PassBegins ==
  /\ pass = "idle" /\ pass' = "step"
  /\ UNCHANGED <<lane, ends, wakes, replies, at, op, todo, seen, stopping, cuts>>

Settles(r) ==
  /\ pass = "step" /\ r \in open
  /\ open' = open \ {r}
  /\ pass' = "record" /\ at' = r
  /\ UNCHANGED <<starts, short, active, holds, ends, wakes, replies, op, todo, seen, stopping, cuts>>

(* A short session's end is told under its own key, to its mount alone. *)
RecordEnd ==
  /\ pass = "record"
  /\ IF at \in short
     THEN row' = (IF row[at] = "none" THEN Set(row, at, "owed") ELSE row) /\ UNCHANGED <<key, asked>>
     ELSE recordTurnEnd(at)
  /\ pass' = "step" /\ at' = None
  /\ UNCHANGED <<lane, answered, wakes, replies, op, todo, seen, stopping, cuts>>

(* A read or write that throws loses the end (#turnEndsUnrecorded). *)
RecordFails ==
  /\ pass = "record"
  /\ pass' = "step" /\ at' = None
  /\ UNCHANGED <<lane, ends, wakes, replies, op, todo, seen, stopping, cuts>>

(* Fault: the ends of short sessions are not read. *)
HooksBeginMain ==
  /\ pass = "step"
  /\ active' \in BOOLEAN
  /\ todo' = {r \in Runs \ short : row[r] = "owed"}
  /\ pass' = "ends"
  /\ UNCHANGED <<starts, open, short, holds, ends, wakes, replies, at, op, seen, stopping, cuts>>

(* markSession, and the ends to tell (pendingTurnEnds). The mark is what   *)
(* the conversation's step said of itself some awaits ago (a run open, or  *)
(* a wake of its own to come): a run may have begun or ended since, and a  *)
(* conversation not stepped keeps its mark. So it is left open.            *)
HooksBegin ==
  /\ pass = "step"
  /\ active' \in BOOLEAN
  /\ todo' = {r \in Runs : row[r] = "owed"}
  /\ pass' = "ends"
  /\ UNCHANGED <<starts, open, short, holds, ends, wakes, replies, at, op, seen, stopping, cuts>>

-----------------------------------------------------------------------------
(* The hooks are called *)

EndTold(r) ==
  /\ pass = "ends" /\ r \in todo
  /\ todo' = todo \ {r} /\ at' = r /\ pass' = "end"
  /\ UNCHANGED <<lane, ends, wakes, replies, op, seen, stopping, cuts>>

(* What they answered is kept, and the end handled: one transaction. *)
EndAnswered ==
  /\ pass = "end"
  /\ keepAnswer(IF at \in short THEN {m \in Mounts : \E k \in holds[at] : ans[k].by = m} ELSE Mounts)
  /\ row' = Set(row, at, "handled")
  /\ answered' = Set(answered, at, answered[at] + 1)
  /\ pass' = "ends" /\ at' = None
  /\ UNCHANGED <<lane, key, asked, wakes, posts, op, todo, seen, stopping, cuts>>

WakesBegin ==
  /\ pass = "ends" /\ todo = {}
  /\ seen' = [m \in Mounts |-> IF due[m] THEN wake[m] ELSE 0]
  /\ pass' = "wakes"
  /\ UNCHANGED <<lane, ends, wakes, replies, at, op, todo, stopping, cuts>>

WakeCalled(m) ==
  /\ pass = "wakes" /\ seen[m] # 0
  /\ owed' = Set(owed, m, "none")
  /\ pass' = "wake" /\ at' = m
  /\ UNCHANGED <<lane, ends, wake, due, asks, replies, op, todo, seen, stopping, cuts>>

WakeAnswered ==
  /\ pass = "wake"
  /\ keepAnswer({at})
  /\ dropWake(at, seen[at])
  /\ seen' = Set(seen, at, 0)
  /\ pass' = "wakes" /\ at' = None
  /\ UNCHANGED <<lane, ends, owed, asks, posts, op, todo, stopping, cuts>>

-----------------------------------------------------------------------------
(* What they answered is done *)

AnswersBegin ==
  /\ pass = "wakes" /\ \A m \in Mounts : seen[m] = 0
  /\ todo' = {k \in Answers : ans[k].at \in {"kept", "posting"}}
  /\ pass' = "answers"
  /\ UNCHANGED <<lane, ends, wakes, replies, at, op, seen, stopping, cuts>>

(* One that a pass died posting is not posted again. *)
AnswerCut(k) ==
  /\ pass = "answers" /\ k \in todo /\ ans[k].at = "posting"
  /\ Drop(k) /\ todo' = todo \ {k}
  /\ UNCHANGED <<lane, ends, wakes, posts, pass, at, op, seen, stopping, cuts>>

Over == pass' = "answers" /\ at' = None /\ op' = 0

(* keepTurnOnly *)
Waiting(b) == [b EXCEPT !.wakes = FALSE, !.cancels = FALSE]

(* A fresh conversation, or an erase, waits for the run that is going; a   *)
(* turn is posted; with none the answer is done.                           *)
Route(k, b) ==
  \/ /\ b.turn # "alone" /\ b.clean /\ active
     /\ ans' = [ans EXCEPT ![k].body = Waiting(b)]
     /\ Over
  \/ /\ b.turn = "alone" \/ (b.turn = "main" /\ (b.clean => ~active))
     /\ ans' = ans
     /\ pass' = "post" /\ at' = k /\ op' = 0
  \/ /\ b.turn = "none" /\ (b.clean => ~active)
     /\ Drop(k)
     /\ Over

AnswerTaken(k) ==
  /\ pass = "answers" /\ k \in todo /\ ans[k].at = "kept"
  /\ todo' = todo \ {k}
  /\ IF ans[k].body.wakes THEN askWake(ans[k].by, FALSE) ELSE UNCHANGED <<wake, due, owed>>
  /\ IF ans[k].body.cancels
     THEN pass' = "cancel" /\ at' = k /\ UNCHANGED <<ans, op>>
     ELSE Route(k, ans[k].body)
  /\ UNCHANGED <<lane, ends, asks, posts, seen, stopping, cuts>>

(* cancelTurn: nothing to cancel, or not cancelled, ... *)
CancelsNothing ==
  /\ pass \in {"cancel", "cancelled"}
  /\ Route(at, ans[at].body)
  /\ UNCHANGED <<lane, ends, wakes, posts, todo, seen, stopping, cuts>>

(* ... or the run is aborted, and its end recorded. *)
CancelsRun ==
  /\ pass = "cancel"
  /\ \E r \in mainRun : op' = r /\ open' = open \ {r}
  /\ pass' = "cancelled"
  /\ UNCHANGED <<starts, short, active, holds, ends, wakes, replies, at, todo, seen, stopping, cuts>>

CancelsRecorded ==
  /\ pass = "cancelled"
  /\ recordTurnEnd(op)
  /\ Route(at, ans[at].body)
  /\ UNCHANGED <<lane, answered, wakes, posts, todo, seen, stopping, cuts>>

(* The post throws before its write, the session marked or not. *)
PostFails ==
  /\ pass = "post"
  /\ active' \in {active, active \/ ans[at].body.turn = "main"}
  /\ Drop(at) /\ Over
  /\ UNCHANGED <<starts, open, short, holds, ends, wakes, posts, todo, seen, stopping, cuts>>

(* Fault: the answer is not marked before the write. *)
PostUnmarked ==
  /\ pass = "post"
  /\ pass' = "say"
  /\ UNCHANGED <<lane, ends, wakes, replies, at, op, todo, seen, stopping, cuts>>

(* beforeSay: the answer is marked, and its key waits for the run. *)
PostMarks ==
  /\ pass = "post"
  /\ ans' = [ans EXCEPT ![at].at = "posting"]
  /\ IF ans[at].body.turn = "main" THEN asked' = at /\ active' = TRUE ELSE UNCHANGED <<asked, active>>
  /\ pass' = "say"
  /\ UNCHANGED <<starts, open, short, holds, row, key, answered, wakes, posts, at, op, todo, seen, stopping, cuts>>

(* Fault: a prompt starts a run beside the one that is going. *)
SayStartsBeside ==
  /\ pass = "say" /\ starts < MaxRuns
  /\ starts' = starts + 1 /\ open' = open \cup {starts + 1}
  /\ holds' = Set(holds, starts + 1, {at})
  /\ op' = starts + 1
  /\ posts' = Set(posts, at, posts[at] + 1)
  /\ pass' = "said"
  /\ UNCHANGED <<short, active, ends, wakes, ans, at, todo, seen, stopping, cuts>>

(* The engine writes it: a run starts in an idle conversation, ... *)
SayStarts ==
  /\ pass = "say" /\ starts < MaxRuns
  /\ ans[at].body.turn = "main" => mainRun = {}
  /\ starts' = starts + 1 /\ open' = open \cup {starts + 1}
  /\ holds' = Set(holds, starts + 1, {at})
  /\ IF ans[at].body.turn = "alone"
     THEN short' = short \cup {starts + 1} /\ key' = Set(key, starts + 1, at) /\ op' = 0
     ELSE short' = short /\ key' = key /\ op' = starts + 1
  /\ posts' = Set(posts, at, posts[at] + 1)
  /\ pass' = "said"
  /\ UNCHANGED <<active, row, asked, answered, wakes, ans, at, todo, seen, stopping, cuts>>

(* ... joins the run that is going, with no operation of its own, ... *)
SayJoins ==
  /\ pass = "say" /\ ans[at].body.turn = "main"
  /\ \E r \in mainRun : holds' = Set(holds, r, holds[r] \cup {at})
  /\ posts' = Set(posts, at, posts[at] + 1)
  /\ pass' = "said"
  /\ UNCHANGED <<starts, open, short, active, ends, wakes, ans, at, op, todo, seen, stopping, cuts>>

(* ... or throws, or is refused. *)
SayThrows ==
  /\ pass = "say"
  /\ Drop(at) /\ Over
  /\ UNCHANGED <<lane, ends, wakes, posts, todo, seen, stopping, cuts>>

(* The key is bound to the run that was started. *)
Bound ==
  /\ pass = "said"
  /\ IF op # 0 THEN bindTurn(op, at) ELSE UNCHANGED <<key, asked>>
  /\ Drop(at) /\ Over
  /\ UNCHANGED <<lane, row, answered, wakes, posts, todo, seen, stopping, cuts>>

PassEnds ==
  /\ pass = "answers" /\ todo = {}
  /\ pass' = "idle"
  /\ UNCHANGED <<lane, ends, wakes, replies, at, op, todo, seen, stopping, cuts>>

-----------------------------------------------------------------------------
(* Faults *)

PassGone ==
  /\ pass' = "idle" /\ at' = None /\ op' = 0 /\ todo' = {} /\ seen' = [m \in Mounts |-> 0]

(* A step, the reading of a mount's credential or a listing throws, which  *)
(* ends the pass.                                                          *)
PassThrows ==
  /\ pass \in {"step", "end", "wake", "wakes"}
  /\ cuts < MaxCuts /\ cuts' = cuts + 1
  /\ PassGone
  /\ UNCHANGED <<lane, ends, wakes, replies, stopping>>

(* The object is evicted, and every request in it. *)
Evicted ==
  /\ pass # "idle" \/ stopping # 0
  /\ cuts < MaxCuts /\ cuts' = cuts + 1
  /\ PassGone /\ stopping' = 0
  /\ UNCHANGED <<lane, ends, wakes, replies>>

-----------------------------------------------------------------------------

PassStep ==
  \/ PassBegins \/ (\E r \in Runs : Settles(r)) \/ RecordEnd \/ RecordFails \/ HooksBegin
  \/ (\E r \in Runs : EndTold(r)) \/ EndAnswered
  \/ WakesBegin \/ (\E m \in Mounts : WakeCalled(m)) \/ WakeAnswered
  \/ AnswersBegin \/ (\E k \in Answers : AnswerCut(k) \/ AnswerTaken(k))
  \/ CancelsNothing \/ CancelsRun \/ CancelsRecorded
  \/ PostFails \/ PostMarks \/ SayStarts \/ SayJoins \/ SayThrows \/ Bound
  \/ PassEnds

Around ==
  \/ Says \/ CancelAborts \/ CancelRecords
  \/ \E m \in Mounts : Push(m) \/ keepWake(m) \/ WakeComesDue(m)

Next == PassStep \/ Around \/ PassThrows \/ Evicted

Spec == Init /\ [][Next]_vars

(* The alarm brings the pass back (AgentAlarm), and its awaits answer. *)
FairSpec == Spec /\ WF_vars(PassStep)

-----------------------------------------------------------------------------
(* Properties *)

(* A hook that has answered for a turn is never asked for it again,        *)
(* whoever recorded the end again (a step and a cancel see the same run    *)
(* end) and wherever the pass was cut: an end is answered once, in the     *)
(* step that marks it handled.                                             *)
AnsweredOnce == \A r \in Runs : answered[r] = IF row[r] = "handled" THEN 1 ELSE 0

(* A turn a hook asked for is given to the engine at most once, and never  *)
(* after its answer was dropped.                                           *)
PostedOnce ==
  \A k \in Answers :
    posts[k] <= 1 /\ (posts[k] = 1 => ans[k].at \in {"posting", "gone"})

(* A wake asked for is not lost to the pass that is running an earlier     *)
(* one: until a call of wake begins after the ask there is a row, which is *)
(* due if the ask was for now.                                             *)
WakeKept ==
  \A m \in Mounts :
    /\ owed[m] # "none" => wake[m] # 0
    /\ owed[m] = "now" => due[m]

(* Every end that is owed is told, and every wake asked for now is called. *)
CallsMade ==
  /\ \A r \in Runs : row[r] = "owed" ~> row[r] = "handled"
  /\ \A m \in Mounts : owed[m] = "now" ~> owed[m] # "now"

(* src/plugins/types.ts, TurnEnd.turnKey: the key the mount gave when it   *)
(* asked for this turn, or null for a turn it did not ask for.             *)
KeyIsItsOwn ==
  \A r \in Runs : row[r] # "none" /\ key[r] # None => key[r] \in holds[r]
=============================================================================
