-------------------------- MODULE AgentAlarmProofs --------------------------
(***************************************************************************)
(* That the alarm pass strands nothing, for any waits, limits and times.   *)
(* The inductive invariant says what the pass carries in memory while it   *)
(* runs: `asked' stands for every input and queued push it has not read,   *)
(* `wait' for what its own step left.                                      *)
(*                                                                         *)
(* From it also: how near an unread input's alarm is, that an alarm once   *)
(* decided is not put off, and that only a pass cut short makes one late.  *)
(***************************************************************************)
EXTENDS AgentAlarm, TLAPS

(* A null-able time no later than another. *)
By(s, t) == t # None => s # None /\ s <= t

(* Before anything claims the object there is nothing to wake it for. *)
UnclaimedInv ==
  ~owned => /\ pc = "none" /\ rows = FALSE
            /\ work = None /\ queued = None /\ hold = None /\ publish = None

(* A hold that was lifted without a wake yet still says when it would have *)
(* ended; under one that was not, no push waits for longer.                *)
HoldInv ==
  /\ lift # "no" => importHold # None
  /\ Held /\ queued # None => queued <= importHold

(* What needs a pass after this one is asked for, planned or armed, at     *)
(* every await of the pass.                                                *)
CarriedInv ==
  /\ ~Decided => cut
  /\ pc \in {"step", "stepping", "flush", "publish", "standdown"} =>
       By(asked, queued) \/ (lift # "no" /\ By(asked, importHold))
  /\ pc \in {"stepping", "flush", "publish", "standdown"} /\ arrived => asked = 0
  /\ pc \in {"flush", "publish"} => asked = 0 \/ By(wait, work)
  /\ pc = "standdown" =>
       /\ asked = 0 \/ work = None
       /\ ~blind => publish = None /\ By(deadline, hold)

(* Once armed, the decision answers everything, whatever the failures.     *)
ArmedInv ==
  pc = "after" \/ (pc = "none" /\ failures < MaxFailures) =>
    /\ Answered(work)
    /\ Answered(queued) \/ Unwoken
    /\ ~blind => Answered(hold) /\ Answered(publish)

IndInv ==
  TypeOK /\ UnclaimedInv /\ HoldInv /\ CarriedInv /\ ArmedInv /\ SafetyNet /\ RowsHaveAlarm

(* nextAlarm is the earlier of two times, and none only when both are.     *)
LEMMA Earlier ==
  ASSUME NEW a \in Times, NEW b \in Times
  PROVE  /\ nextAlarm(a, b) \in Times
         /\ nextAlarm(a, b) = None <=> a = None /\ b = None
         /\ By(nextAlarm(a, b), a)
         /\ By(nextAlarm(a, b), b)
BY AlarmAssumption DEF nextAlarm, By, Times

(* An input that lands asks for a wake at once. *)
LEMMA InputLandsKeeps ==
  ASSUME IndInv, NEW h \in Times, InputLands(h)
  PROVE  IndInv'
<1>1. TypeOK'
  BY AlarmAssumption DEF IndInv, TypeOK, Times, InputLands, wake, nextAlarm, passVars,
     usageVars, needVars, importVars, Decided
<1>2. UnclaimedInv'
  BY AlarmAssumption DEF IndInv, UnclaimedInv, TypeOK, Times, InputLands, wake,
     nextAlarm, passVars, usageVars, needVars, importVars, Decided
<1>3. CarriedInv'
  BY AlarmAssumption DEF IndInv, CarriedInv, Decided, By, TypeOK, Times, InputLands,
     wake, nextAlarm, passVars, usageVars, needVars, importVars, HoldInv, Held
<1>4. ArmedInv'
  BY AlarmAssumption DEF IndInv, ArmedInv, Answered, TypeOK, Times, CarriedInv, Decided,
     By, SafetyNet, UnclaimedInv, InputLands, wake, nextAlarm, passVars, usageVars,
     needVars, importVars, Near, Unwoken, HoldInv, Held
<1>5. SafetyNet'
  BY AlarmAssumption DEF IndInv, SafetyNet, Decided, TypeOK, Times, InputLands, wake,
     nextAlarm, passVars, usageVars, needVars, importVars, Near
<1>6. RowsHaveAlarm'
  BY AlarmAssumption DEF IndInv, RowsHaveAlarm, Decided, TypeOK, Times, SafetyNet,
     UnclaimedInv, InputLands, wake, nextAlarm, passVars, usageVars, needVars,
     importVars
<1>7. HoldInv'
  BY AlarmAssumption DEF IndInv, HoldInv, Held, TypeOK, Times, InputLands, wake,
     nextAlarm, passVars, usageVars, needVars, importVars, Decided
<1> QED
  BY <1>1, <1>2, <1>3, <1>4, <1>5, <1>6, <1>7 DEF IndInv

(* A queued push asks for a wake at once. *)
LEMMA PushLandsKeeps ==
  ASSUME IndInv, PushLands
  PROVE  IndInv'
<1>1. TypeOK'
  BY AlarmAssumption DEF IndInv, TypeOK, Times, PushLands, wake, nextAlarm, passVars,
     usageVars, needVars, importVars, Decided
<1>2. UnclaimedInv'
  BY AlarmAssumption DEF IndInv, UnclaimedInv, TypeOK, Times, PushLands, wake,
     nextAlarm, passVars, usageVars, needVars, importVars, Decided
<1>3. CarriedInv'
  BY AlarmAssumption DEF IndInv, CarriedInv, Decided, By, TypeOK, Times, PushLands,
     wake, nextAlarm, passVars, usageVars, needVars, importVars, HoldInv, Held
<1>4. ArmedInv'
  BY AlarmAssumption DEF IndInv, ArmedInv, Answered, TypeOK, Times, CarriedInv, Decided,
     By, SafetyNet, UnclaimedInv, PushLands, wake, nextAlarm, passVars, usageVars,
     needVars, importVars, Near, Unwoken, HoldInv, Held
<1>5. SafetyNet'
  BY AlarmAssumption DEF IndInv, SafetyNet, Decided, TypeOK, Times, PushLands, wake,
     nextAlarm, passVars, usageVars, needVars, importVars, Near
<1>6. RowsHaveAlarm'
  BY AlarmAssumption DEF IndInv, RowsHaveAlarm, Decided, TypeOK, Times, SafetyNet,
     UnclaimedInv, PushLands, wake, nextAlarm, passVars, usageVars, needVars,
     importVars
<1>7. HoldInv'
  BY AlarmAssumption DEF IndInv, HoldInv, Held, TypeOK, Times, PushLands, wake,
     nextAlarm, passVars, usageVars, needVars, importVars, Decided
<1> QED
  BY <1>1, <1>2, <1>3, <1>4, <1>5, <1>6, <1>7 DEF IndInv

(* A handler that writes rows is open until it has ended. *)
LEMMA HandlerWritesKeeps ==
  ASSUME IndInv, HandlerWrites
  PROVE  IndInv'
<1>1. TypeOK'
  BY AlarmAssumption DEF IndInv, TypeOK, Times, HandlerWrites, passVars, usageVars,
     needVars, importVars
<1>2. UnclaimedInv'
  BY AlarmAssumption DEF IndInv, UnclaimedInv, TypeOK, Times, HandlerWrites, passVars,
     usageVars, needVars, importVars
<1>3. CarriedInv'
  BY AlarmAssumption DEF IndInv, CarriedInv, Decided, By, TypeOK, Times, HandlerWrites,
     passVars, usageVars, needVars, importVars, HoldInv, Held
<1>4. ArmedInv'
  BY AlarmAssumption DEF IndInv, ArmedInv, Answered, TypeOK, Times, CarriedInv, Decided,
     By, SafetyNet, UnclaimedInv, HandlerWrites, passVars, usageVars, needVars,
     importVars, Near, Unwoken, HoldInv, Held
<1>5. SafetyNet'
  BY AlarmAssumption DEF IndInv, SafetyNet, Decided, TypeOK, Times, HandlerWrites,
     passVars, usageVars, needVars, importVars, Near
<1>6. RowsHaveAlarm'
  BY AlarmAssumption DEF IndInv, RowsHaveAlarm, Decided, TypeOK, Times, SafetyNet,
     UnclaimedInv, HandlerWrites, passVars, usageVars, needVars, importVars
<1>7. HoldInv'
  BY AlarmAssumption DEF IndInv, HoldInv, Held, TypeOK, Times, HandlerWrites, passVars,
     usageVars, needVars, importVars
<1> QED
  BY <1>1, <1>2, <1>3, <1>4, <1>5, <1>6, <1>7 DEF IndInv

(* A handler that ends leaves its rows with an alarm. *)
LEMMA HandlerEndsKeeps ==
  ASSUME IndInv, HandlerEnds
  PROVE  IndInv'
<1>1. TypeOK'
  <2>1. owned' \in BOOLEAN /\ alarm' \in Times /\ asked' \in Times
    BY AlarmAssumption DEF IndInv, TypeOK, Times, HandlerEnds, wake, nextAlarm,
       passVars, usageVars, needVars, importVars, Decided
  <2>2. failures' \in 0..MaxFailures /\ retries' \in 0..RetryLimit
    BY AlarmAssumption DEF IndInv, TypeOK, Times, HandlerEnds, wake, nextAlarm,
       passVars, usageVars, needVars, importVars, Decided
  <2>3. pc' \in {"none", "inbound", "step", "stepping", "flush", "publish", "standdown", "after"}
    BY AlarmAssumption DEF IndInv, TypeOK, Times, HandlerEnds, wake, nextAlarm,
       passVars, usageVars, needVars, importVars, Decided
  <2>4. wait' \in Times /\ deadline' \in Times /\ moved' \in BOOLEAN
    BY AlarmAssumption DEF IndInv, TypeOK, Times, HandlerEnds, wake, nextAlarm,
       passVars, usageVars, needVars, importVars, Decided
  <2>5. open' \in BOOLEAN /\ rows' \in BOOLEAN /\ left' \in BOOLEAN
    BY AlarmAssumption DEF IndInv, TypeOK, Times, HandlerEnds, wake, nextAlarm,
       passVars, usageVars, needVars, importVars, Decided
  <2>6. work' \in Times /\ queued' \in Times /\ hold' \in Times /\ publish' \in Times
    BY AlarmAssumption DEF IndInv, TypeOK, Times, HandlerEnds, wake, nextAlarm,
       passVars, usageVars, needVars, importVars, Decided
  <2>7. arrived' \in BOOLEAN /\ cut' \in BOOLEAN /\ blind' \in BOOLEAN
    BY AlarmAssumption DEF IndInv, TypeOK, Times, HandlerEnds, wake, nextAlarm,
       passVars, usageVars, needVars, importVars, Decided
  <2>8. importHold' \in Times /\ lift' \in {"no", "waking", "lost"}
    BY AlarmAssumption DEF IndInv, TypeOK, Times, HandlerEnds, wake, nextAlarm,
       passVars, usageVars, needVars, importVars, Decided
  <2> QED
    BY <2>1, <2>2, <2>3, <2>4, <2>5, <2>6, <2>7, <2>8 DEF TypeOK
<1>2. UnclaimedInv'
  BY AlarmAssumption DEF IndInv, UnclaimedInv, TypeOK, Times, HandlerEnds, wake,
     nextAlarm, passVars, usageVars, needVars, importVars, Decided
<1>3. CarriedInv'
  BY AlarmAssumption DEF IndInv, CarriedInv, Decided, By, TypeOK, Times, HandlerEnds,
     wake, nextAlarm, passVars, usageVars, needVars, importVars, HoldInv, Held
<1>4. ArmedInv'
  BY AlarmAssumption DEF IndInv, ArmedInv, Answered, TypeOK, Times, CarriedInv, Decided,
     By, SafetyNet, UnclaimedInv, HandlerEnds, wake, nextAlarm, passVars, usageVars,
     needVars, importVars, Near, Unwoken, HoldInv, Held
<1>5. SafetyNet'
  BY AlarmAssumption DEF IndInv, SafetyNet, Decided, TypeOK, Times, HandlerEnds, wake,
     nextAlarm, passVars, usageVars, needVars, importVars, Near
<1>6. RowsHaveAlarm'
  BY AlarmAssumption DEF IndInv, RowsHaveAlarm, Decided, TypeOK, Times, SafetyNet,
     UnclaimedInv, HandlerEnds, wake, nextAlarm, passVars, usageVars, needVars,
     importVars
<1>7. HoldInv'
  BY AlarmAssumption DEF IndInv, HoldInv, Held, TypeOK, Times, HandlerEnds, wake,
     nextAlarm, passVars, usageVars, needVars, importVars, Decided
<1> QED
  BY <1>1, <1>2, <1>3, <1>4, <1>5, <1>6, <1>7 DEF IndInv

(* A suspended program only brings the alarm forward. *)
LEMMA KeepAliveKeeps ==
  ASSUME IndInv, NEW at \in Nat, KeepAlive(at)
  PROVE  IndInv'
<1>1. TypeOK'
  BY AlarmAssumption DEF IndInv, TypeOK, Times, KeepAlive, wake, nextAlarm, passVars,
     usageVars, needVars, importVars, Decided
<1>2. UnclaimedInv'
  BY AlarmAssumption DEF IndInv, UnclaimedInv, TypeOK, Times, KeepAlive, wake,
     nextAlarm, passVars, usageVars, needVars, importVars, Decided
<1>3. CarriedInv'
  BY AlarmAssumption DEF IndInv, CarriedInv, Decided, By, TypeOK, Times, KeepAlive,
     wake, nextAlarm, passVars, usageVars, needVars, importVars, HoldInv, Held
<1>4. ArmedInv'
  BY AlarmAssumption DEF IndInv, ArmedInv, Answered, TypeOK, Times, CarriedInv, Decided,
     By, SafetyNet, UnclaimedInv, KeepAlive, wake, nextAlarm, passVars, usageVars,
     needVars, importVars, Near, Unwoken, HoldInv, Held
<1>5. SafetyNet'
  BY AlarmAssumption DEF IndInv, SafetyNet, Decided, TypeOK, Times, KeepAlive, wake,
     nextAlarm, passVars, usageVars, needVars, importVars, Near
<1>6. RowsHaveAlarm'
  BY AlarmAssumption DEF IndInv, RowsHaveAlarm, Decided, TypeOK, Times, SafetyNet,
     UnclaimedInv, KeepAlive, wake, nextAlarm, passVars, usageVars, needVars,
     importVars
<1>7. HoldInv'
  BY AlarmAssumption DEF IndInv, HoldInv, Held, TypeOK, Times, KeepAlive, wake,
     nextAlarm, passVars, usageVars, needVars, importVars, Decided
<1> QED
  BY <1>1, <1>2, <1>3, <1>4, <1>5, <1>6, <1>7 DEF IndInv

(* A lift leaves the pushes the hold's own end, and its wake to come. *)
LEMMA LiftHoldKeeps ==
  ASSUME IndInv, LiftHold
  PROVE  IndInv'
<1>1. TypeOK'
  BY AlarmAssumption DEF IndInv, TypeOK, Times, LiftHold, passVars, usageVars, needVars,
     importVars, Decided, Held
<1>2. UnclaimedInv'
  BY AlarmAssumption DEF IndInv, UnclaimedInv, TypeOK, Times, LiftHold, passVars,
     usageVars, needVars, importVars, Decided, Held
<1>3. CarriedInv'
  BY AlarmAssumption DEF IndInv, CarriedInv, Decided, By, TypeOK, Times, LiftHold,
     passVars, usageVars, needVars, importVars, HoldInv, Held
<1>4. ArmedInv'
  BY AlarmAssumption DEF IndInv, ArmedInv, Answered, TypeOK, Times, CarriedInv, Decided,
     By, SafetyNet, UnclaimedInv, LiftHold, passVars, usageVars, needVars, importVars,
     Near, Unwoken, HoldInv, Held
<1>5. SafetyNet'
  BY AlarmAssumption DEF IndInv, SafetyNet, Decided, TypeOK, Times, LiftHold, passVars,
     usageVars, needVars, importVars, Near, Held
<1>6. RowsHaveAlarm'
  BY AlarmAssumption DEF IndInv, RowsHaveAlarm, Decided, TypeOK, Times, SafetyNet,
     UnclaimedInv, LiftHold, passVars, usageVars, needVars, importVars, Held
<1>7. HoldInv'
  BY AlarmAssumption DEF IndInv, HoldInv, Held, TypeOK, Times, LiftHold, passVars,
     usageVars, needVars, importVars, Decided
<1> QED
  BY <1>1, <1>2, <1>3, <1>4, <1>5, <1>6, <1>7 DEF IndInv

(* The lift's wake answers them. *)
LEMMA LiftWakesKeeps ==
  ASSUME IndInv, LiftWakes
  PROVE  IndInv'
<1>1. TypeOK'
  BY AlarmAssumption DEF IndInv, TypeOK, Times, LiftWakes, wake, nextAlarm, passVars,
     usageVars, needVars, importVars, Decided, LiftOver
<1>2. UnclaimedInv'
  BY AlarmAssumption DEF IndInv, UnclaimedInv, TypeOK, Times, LiftWakes, wake,
     nextAlarm, passVars, usageVars, needVars, importVars, Decided, LiftOver
<1>3. CarriedInv'
  BY AlarmAssumption DEF IndInv, CarriedInv, Decided, By, TypeOK, Times, LiftWakes,
     wake, nextAlarm, passVars, usageVars, needVars, importVars, HoldInv, Held, LiftOver
<1>4. ArmedInv'
  BY AlarmAssumption DEF IndInv, ArmedInv, Answered, TypeOK, Times, CarriedInv, Decided,
     By, SafetyNet, UnclaimedInv, LiftWakes, wake, nextAlarm, passVars, usageVars,
     needVars, importVars, Near, Unwoken, HoldInv, Held, LiftOver
<1>5. SafetyNet'
  BY AlarmAssumption DEF IndInv, SafetyNet, Decided, TypeOK, Times, LiftWakes, wake,
     nextAlarm, passVars, usageVars, needVars, importVars, Near, LiftOver
<1>6. RowsHaveAlarm'
  BY AlarmAssumption DEF IndInv, RowsHaveAlarm, Decided, TypeOK, Times, SafetyNet,
     UnclaimedInv, LiftWakes, wake, nextAlarm, passVars, usageVars, needVars,
     importVars, LiftOver
<1>7. HoldInv'
  BY AlarmAssumption DEF IndInv, HoldInv, Held, TypeOK, Times, LiftWakes, wake,
     nextAlarm, passVars, usageVars, needVars, importVars, Decided, LiftOver
<1> QED
  BY <1>1, <1>2, <1>3, <1>4, <1>5, <1>6, <1>7 DEF IndInv

(* The net is up before the pass has done anything. *)
LEMMA AlarmFiresKeeps ==
  ASSUME IndInv, AlarmFires
  PROVE  IndInv'
<1>1. TypeOK'
  <2>1. owned' \in BOOLEAN /\ alarm' \in Times /\ asked' \in Times
    BY AlarmAssumption DEF IndInv, TypeOK, Times, AlarmFires, passVars, usageVars,
       needVars, importVars, LiftOver
  <2>2. failures' \in 0..MaxFailures /\ retries' \in 0..RetryLimit
    BY AlarmAssumption DEF IndInv, TypeOK, Times, AlarmFires, passVars, usageVars,
       needVars, importVars, LiftOver
  <2>3. pc' \in {"none", "inbound", "step", "stepping", "flush", "publish", "standdown", "after"}
    BY AlarmAssumption DEF IndInv, TypeOK, Times, AlarmFires, passVars, usageVars,
       needVars, importVars, LiftOver
  <2>4. wait' \in Times /\ deadline' \in Times /\ moved' \in BOOLEAN
    BY AlarmAssumption DEF IndInv, TypeOK, Times, AlarmFires, passVars, usageVars,
       needVars, importVars, LiftOver
  <2>5. open' \in BOOLEAN /\ rows' \in BOOLEAN /\ left' \in BOOLEAN
    BY AlarmAssumption DEF IndInv, TypeOK, Times, AlarmFires, passVars, usageVars,
       needVars, importVars, LiftOver
  <2>6. work' \in Times /\ queued' \in Times /\ hold' \in Times /\ publish' \in Times
    BY AlarmAssumption DEF IndInv, TypeOK, Times, AlarmFires, passVars, usageVars,
       needVars, importVars, LiftOver
  <2>7. arrived' \in BOOLEAN /\ cut' \in BOOLEAN /\ blind' \in BOOLEAN
    BY AlarmAssumption DEF IndInv, TypeOK, Times, AlarmFires, passVars, usageVars,
       needVars, importVars, LiftOver
  <2>8. importHold' \in Times /\ lift' \in {"no", "waking", "lost"}
    BY AlarmAssumption DEF IndInv, TypeOK, Times, AlarmFires, passVars, usageVars,
       needVars, importVars, LiftOver
  <2> QED
    BY <2>1, <2>2, <2>3, <2>4, <2>5, <2>6, <2>7, <2>8 DEF TypeOK
<1>2. UnclaimedInv'
  BY AlarmAssumption DEF IndInv, UnclaimedInv, TypeOK, Times, AlarmFires, passVars,
     usageVars, needVars, importVars, LiftOver
<1>3. CarriedInv'
  BY AlarmAssumption DEF IndInv, CarriedInv, Decided, By, TypeOK, Times, AlarmFires,
     passVars, usageVars, needVars, importVars, LiftOver, HoldInv, Held
<1>4. ArmedInv'
  BY AlarmAssumption DEF IndInv, ArmedInv, Answered, TypeOK, Times, CarriedInv, Decided,
     By, SafetyNet, UnclaimedInv, AlarmFires, passVars, usageVars, needVars, importVars,
     LiftOver, Near, Unwoken, HoldInv, Held
<1>5. SafetyNet'
  BY AlarmAssumption DEF IndInv, SafetyNet, Decided, TypeOK, Times, AlarmFires,
     passVars, usageVars, needVars, importVars, LiftOver, Near
<1>6. RowsHaveAlarm'
  BY AlarmAssumption DEF IndInv, RowsHaveAlarm, Decided, TypeOK, Times, SafetyNet,
     UnclaimedInv, AlarmFires, passVars, usageVars, needVars, importVars, LiftOver
<1>7. HoldInv'
  BY AlarmAssumption DEF IndInv, HoldInv, Held, TypeOK, Times, AlarmFires, passVars,
     usageVars, needVars, importVars, LiftOver
<1> QED
  BY <1>1, <1>2, <1>3, <1>4, <1>5, <1>6, <1>7 DEF IndInv

(* An unclaimed object has nothing to come back for. *)
LEMMA AlarmUnclaimedKeeps ==
  ASSUME IndInv, AlarmUnclaimed
  PROVE  IndInv'
<1>1. TypeOK'
  BY AlarmAssumption DEF IndInv, TypeOK, Times, AlarmUnclaimed, passVars, usageVars,
     needVars, importVars
<1>2. UnclaimedInv'
  BY AlarmAssumption DEF IndInv, UnclaimedInv, TypeOK, Times, AlarmUnclaimed, passVars,
     usageVars, needVars, importVars
<1>3. CarriedInv'
  BY AlarmAssumption DEF IndInv, CarriedInv, Decided, By, TypeOK, Times, AlarmUnclaimed,
     passVars, usageVars, needVars, importVars, HoldInv, Held
<1>4. ArmedInv'
  BY AlarmAssumption DEF IndInv, ArmedInv, Answered, TypeOK, Times, CarriedInv, Decided,
     By, SafetyNet, UnclaimedInv, AlarmUnclaimed, passVars, usageVars, needVars,
     importVars, Near, Unwoken, HoldInv, Held
<1>5. SafetyNet'
  BY AlarmAssumption DEF IndInv, SafetyNet, Decided, TypeOK, Times, AlarmUnclaimed,
     passVars, usageVars, needVars, importVars, Near
<1>6. RowsHaveAlarm'
  BY AlarmAssumption DEF IndInv, RowsHaveAlarm, Decided, TypeOK, Times, SafetyNet,
     UnclaimedInv, AlarmUnclaimed, passVars, usageVars, needVars, importVars
<1>7. HoldInv'
  BY AlarmAssumption DEF IndInv, HoldInv, Held, TypeOK, Times, AlarmUnclaimed, passVars,
     usageVars, needVars, importVars
<1> QED
  BY <1>1, <1>2, <1>3, <1>4, <1>5, <1>6, <1>7 DEF IndInv

(* A push that waits for its retry is asked for. *)
LEMMA InboundEndsKeeps ==
  ASSUME IndInv, NEW r \in Times, InboundEnds(r)
  PROVE  IndInv'
<1>1. TypeOK'
  BY AlarmAssumption DEF IndInv, TypeOK, Times, InboundEnds, wake, nextAlarm, passVars,
     usageVars, needVars, importVars, Decided, Held
<1>2. UnclaimedInv'
  BY AlarmAssumption DEF IndInv, UnclaimedInv, TypeOK, Times, InboundEnds, wake,
     nextAlarm, passVars, usageVars, needVars, importVars, Decided, Held
<1>3. CarriedInv'
  BY AlarmAssumption DEF IndInv, CarriedInv, Decided, By, TypeOK, Times, InboundEnds,
     wake, nextAlarm, passVars, usageVars, needVars, importVars, Held, HoldInv
<1>4. ArmedInv'
  BY AlarmAssumption DEF IndInv, ArmedInv, Answered, TypeOK, Times, CarriedInv, Decided,
     By, SafetyNet, UnclaimedInv, InboundEnds, wake, nextAlarm, passVars, usageVars,
     needVars, importVars, Held, Near, Unwoken, HoldInv
<1>5. SafetyNet'
  BY AlarmAssumption DEF IndInv, SafetyNet, Decided, TypeOK, Times, InboundEnds, wake,
     nextAlarm, passVars, usageVars, needVars, importVars, Held, Near
<1>6. RowsHaveAlarm'
  BY AlarmAssumption DEF IndInv, RowsHaveAlarm, Decided, TypeOK, Times, SafetyNet,
     UnclaimedInv, InboundEnds, wake, nextAlarm, passVars, usageVars, needVars,
     importVars, Held
<1>7. HoldInv'
  BY AlarmAssumption DEF IndInv, HoldInv, Held, TypeOK, Times, InboundEnds, wake,
     nextAlarm, passVars, usageVars, needVars, importVars, Decided
<1> QED
  BY <1>1, <1>2, <1>3, <1>4, <1>5, <1>6, <1>7 DEF IndInv

(* The step has everything in hand. *)
LEMMA StepReadsKeeps ==
  ASSUME IndInv, StepReads
  PROVE  IndInv'
<1>1. TypeOK'
  <2>1. owned' \in BOOLEAN /\ alarm' \in Times /\ asked' \in Times
    BY AlarmAssumption DEF IndInv, TypeOK, Times, StepReads, passVars, usageVars,
       needVars, importVars
  <2>2. failures' \in 0..MaxFailures /\ retries' \in 0..RetryLimit
    BY AlarmAssumption DEF IndInv, TypeOK, Times, StepReads, passVars, usageVars,
       needVars, importVars
  <2>3. pc' \in {"none", "inbound", "step", "stepping", "flush", "publish", "standdown", "after"}
    BY AlarmAssumption DEF IndInv, TypeOK, Times, StepReads, passVars, usageVars,
       needVars, importVars
  <2>4. wait' \in Times /\ deadline' \in Times /\ moved' \in BOOLEAN
    BY AlarmAssumption DEF IndInv, TypeOK, Times, StepReads, passVars, usageVars,
       needVars, importVars
  <2>5. open' \in BOOLEAN /\ rows' \in BOOLEAN /\ left' \in BOOLEAN
    BY AlarmAssumption DEF IndInv, TypeOK, Times, StepReads, passVars, usageVars,
       needVars, importVars
  <2>6. work' \in Times /\ queued' \in Times /\ hold' \in Times /\ publish' \in Times
    BY AlarmAssumption DEF IndInv, TypeOK, Times, StepReads, passVars, usageVars,
       needVars, importVars
  <2>7. arrived' \in BOOLEAN /\ cut' \in BOOLEAN /\ blind' \in BOOLEAN
    BY AlarmAssumption DEF IndInv, TypeOK, Times, StepReads, passVars, usageVars,
       needVars, importVars
  <2>8. importHold' \in Times /\ lift' \in {"no", "waking", "lost"}
    BY AlarmAssumption DEF IndInv, TypeOK, Times, StepReads, passVars, usageVars,
       needVars, importVars
  <2> QED
    BY <2>1, <2>2, <2>3, <2>4, <2>5, <2>6, <2>7, <2>8 DEF TypeOK
<1>2. UnclaimedInv'
  BY AlarmAssumption DEF IndInv, UnclaimedInv, TypeOK, Times, StepReads, passVars,
     usageVars, needVars, importVars
<1>3. CarriedInv'
  BY AlarmAssumption DEF IndInv, CarriedInv, Decided, By, TypeOK, Times, StepReads,
     passVars, usageVars, needVars, importVars, HoldInv, Held
<1>4. ArmedInv'
  BY AlarmAssumption DEF IndInv, ArmedInv, Answered, TypeOK, Times, CarriedInv, Decided,
     By, SafetyNet, UnclaimedInv, StepReads, passVars, usageVars, needVars, importVars,
     Near, Unwoken, HoldInv, Held
<1>5. SafetyNet'
  BY AlarmAssumption DEF IndInv, SafetyNet, Decided, TypeOK, Times, StepReads, passVars,
     usageVars, needVars, importVars, Near
<1>6. RowsHaveAlarm'
  BY AlarmAssumption DEF IndInv, RowsHaveAlarm, Decided, TypeOK, Times, SafetyNet,
     UnclaimedInv, StepReads, passVars, usageVars, needVars, importVars
<1>7. HoldInv'
  BY AlarmAssumption DEF IndInv, HoldInv, Held, TypeOK, Times, StepReads, passVars,
     usageVars, needVars, importVars
<1> QED
  BY <1>1, <1>2, <1>3, <1>4, <1>5, <1>6, <1>7 DEF IndInv

(* What the step leaves is in `wait', what it has not seen in `asked'. *)
LEMMA StepEndsKeeps ==
  ASSUME IndInv, NEW w \in Times, NEW h \in Times, StepEnds(w, h)
  PROVE  IndInv'
<1>1. TypeOK'
  <2>1. owned' \in BOOLEAN /\ alarm' \in Times /\ asked' \in Times
    BY AlarmAssumption DEF IndInv, TypeOK, Times, StepEnds, passVars, usageVars,
       needVars, importVars
  <2>2. failures' \in 0..MaxFailures /\ retries' \in 0..RetryLimit
    BY AlarmAssumption DEF IndInv, TypeOK, Times, StepEnds, passVars, usageVars,
       needVars, importVars
  <2>3. pc' \in {"none", "inbound", "step", "stepping", "flush", "publish", "standdown", "after"}
    BY AlarmAssumption DEF IndInv, TypeOK, Times, StepEnds, passVars, usageVars,
       needVars, importVars
  <2>4. wait' \in Times /\ deadline' \in Times /\ moved' \in BOOLEAN
    BY AlarmAssumption DEF IndInv, TypeOK, Times, StepEnds, passVars, usageVars,
       needVars, importVars
  <2>5. open' \in BOOLEAN /\ rows' \in BOOLEAN /\ left' \in BOOLEAN
    BY AlarmAssumption DEF IndInv, TypeOK, Times, StepEnds, passVars, usageVars,
       needVars, importVars
  <2>6. work' \in Times /\ queued' \in Times /\ hold' \in Times /\ publish' \in Times
    BY AlarmAssumption DEF IndInv, TypeOK, Times, StepEnds, passVars, usageVars,
       needVars, importVars
  <2>7. arrived' \in BOOLEAN /\ cut' \in BOOLEAN /\ blind' \in BOOLEAN
    BY AlarmAssumption DEF IndInv, TypeOK, Times, StepEnds, passVars, usageVars,
       needVars, importVars
  <2>8. importHold' \in Times /\ lift' \in {"no", "waking", "lost"}
    BY AlarmAssumption DEF IndInv, TypeOK, Times, StepEnds, passVars, usageVars,
       needVars, importVars
  <2> QED
    BY <2>1, <2>2, <2>3, <2>4, <2>5, <2>6, <2>7, <2>8 DEF TypeOK
<1>2. UnclaimedInv'
  BY AlarmAssumption DEF IndInv, UnclaimedInv, TypeOK, Times, StepEnds, passVars,
     usageVars, needVars, importVars
<1>3. CarriedInv'
  BY AlarmAssumption DEF IndInv, CarriedInv, Decided, By, TypeOK, Times, StepEnds,
     passVars, usageVars, needVars, importVars, HoldInv, Held
<1>4. ArmedInv'
  BY AlarmAssumption DEF IndInv, ArmedInv, Answered, TypeOK, Times, CarriedInv, Decided,
     By, SafetyNet, UnclaimedInv, StepEnds, passVars, usageVars, needVars, importVars,
     Near, Unwoken, HoldInv, Held
<1>5. SafetyNet'
  BY AlarmAssumption DEF IndInv, SafetyNet, Decided, TypeOK, Times, StepEnds, passVars,
     usageVars, needVars, importVars, Near
<1>6. RowsHaveAlarm'
  BY AlarmAssumption DEF IndInv, RowsHaveAlarm, Decided, TypeOK, Times, SafetyNet,
     UnclaimedInv, StepEnds, passVars, usageVars, needVars, importVars
<1>7. HoldInv'
  BY AlarmAssumption DEF IndInv, HoldInv, Held, TypeOK, Times, StepEnds, passVars,
     usageVars, needVars, importVars
<1> QED
  BY <1>1, <1>2, <1>3, <1>4, <1>5, <1>6, <1>7 DEF IndInv

(* A flush only adds a time to come back at. *)
LEMMA FlushKeeps ==
  ASSUME IndInv, NEW some \in BOOLEAN, NEW all \in BOOLEAN, NEW threw \in BOOLEAN, Flush(some, all, threw)
  PROVE  IndInv'
<1>1. TypeOK'
  BY AlarmAssumption DEF IndInv, TypeOK, Times, Flush, passVars, usageVars, needVars,
     importVars
<1>2. UnclaimedInv'
  BY AlarmAssumption DEF IndInv, UnclaimedInv, TypeOK, Times, Flush, passVars,
     usageVars, needVars, importVars
<1>3. CarriedInv'
  BY AlarmAssumption DEF IndInv, CarriedInv, Decided, By, TypeOK, Times, Flush,
     passVars, usageVars, needVars, importVars, HoldInv, Held
<1>4. ArmedInv'
  BY AlarmAssumption DEF IndInv, ArmedInv, Answered, TypeOK, Times, CarriedInv, Decided,
     By, SafetyNet, UnclaimedInv, Flush, passVars, usageVars, needVars, importVars,
     Near, Unwoken, HoldInv, Held
<1>5. SafetyNet'
  BY AlarmAssumption DEF IndInv, SafetyNet, Decided, TypeOK, Times, Flush, passVars,
     usageVars, needVars, importVars, Near
<1>6. RowsHaveAlarm'
  BY AlarmAssumption DEF IndInv, RowsHaveAlarm, Decided, TypeOK, Times, SafetyNet,
     UnclaimedInv, Flush, passVars, usageVars, needVars, importVars
<1>7. HoldInv'
  BY AlarmAssumption DEF IndInv, HoldInv, Held, TypeOK, Times, Flush, passVars,
     usageVars, needVars, importVars
<1> QED
  BY <1>1, <1>2, <1>3, <1>4, <1>5, <1>6, <1>7 DEF IndInv

(* The decision is no later than anything asked, planned or held. *)
LEMMA DecideKeeps ==
  ASSUME IndInv, NEW p \in Times, NEW published \in BOOLEAN, NEW read \in BOOLEAN, Decide(p, published, read)
  PROVE  IndInv'
<1>1. TypeOK'
  <2>1. owned' \in BOOLEAN /\ alarm' \in Times /\ asked' \in Times
    BY AlarmAssumption DEF IndInv, TypeOK, Times, Decide, Arm, nextAlarm, passVars,
       usageVars, needVars, importVars, LetGo
  <2>2. failures' \in 0..MaxFailures /\ retries' \in 0..RetryLimit
    BY AlarmAssumption DEF IndInv, TypeOK, Times, Decide, Arm, nextAlarm, passVars,
       usageVars, needVars, importVars, LetGo
  <2>3. pc' \in {"none", "inbound", "step", "stepping", "flush", "publish", "standdown", "after"}
    BY AlarmAssumption DEF IndInv, TypeOK, Times, Decide, Arm, nextAlarm, passVars,
       usageVars, needVars, importVars, LetGo
  <2>4. wait' \in Times /\ deadline' \in Times /\ moved' \in BOOLEAN
    BY AlarmAssumption DEF IndInv, TypeOK, Times, Decide, Arm, nextAlarm, passVars,
       usageVars, needVars, importVars, LetGo
  <2>5. open' \in BOOLEAN /\ rows' \in BOOLEAN /\ left' \in BOOLEAN
    BY AlarmAssumption DEF IndInv, TypeOK, Times, Decide, Arm, nextAlarm, passVars,
       usageVars, needVars, importVars, LetGo
  <2>6. work' \in Times /\ queued' \in Times /\ hold' \in Times /\ publish' \in Times
    BY AlarmAssumption DEF IndInv, TypeOK, Times, Decide, Arm, nextAlarm, passVars,
       usageVars, needVars, importVars, LetGo
  <2>7. arrived' \in BOOLEAN /\ cut' \in BOOLEAN /\ blind' \in BOOLEAN
    BY AlarmAssumption DEF IndInv, TypeOK, Times, Decide, Arm, nextAlarm, passVars,
       usageVars, needVars, importVars, LetGo
  <2>8. importHold' \in Times /\ lift' \in {"no", "waking", "lost"}
    BY AlarmAssumption DEF IndInv, TypeOK, Times, Decide, Arm, nextAlarm, passVars,
       usageVars, needVars, importVars, LetGo
  <2> QED
    BY <2>1, <2>2, <2>3, <2>4, <2>5, <2>6, <2>7, <2>8 DEF TypeOK
<1>2. UnclaimedInv'
  BY AlarmAssumption DEF IndInv, UnclaimedInv, TypeOK, Times, Decide, Arm, nextAlarm,
     passVars, usageVars, needVars, importVars, LetGo
<1> DEFINE pub == IF published THEN p ELSE None
           dl == IF read THEN hold ELSE None
           planned == nextAlarm(wait, pub)
           next == nextAlarm(asked, planned)
<1>a. /\ pub \in Times /\ dl \in Times /\ wait \in Times /\ asked \in Times
      /\ work \in Times /\ queued \in Times /\ hold \in Times /\ importHold \in Times
  BY DEF IndInv, TypeOK, Times
<1>b. /\ planned \in Times
      /\ planned = None <=> wait = None /\ pub = None
      /\ By(planned, wait) /\ By(planned, pub)
  BY <1>a, Earlier
<1>c. /\ next \in Times
      /\ next = None <=> asked = None /\ planned = None
      /\ By(next, asked) /\ By(next, planned)
  BY <1>a, <1>b, Earlier
<1>d. /\ nextAlarm(next, dl) \in Times
      /\ By(nextAlarm(next, dl), next) /\ By(nextAlarm(next, dl), dl)
  BY <1>a, <1>c, Earlier
<1>e. /\ pc = "publish" /\ cut
      /\ By(asked, queued) \/ (lift # "no" /\ By(asked, importHold))
      /\ lift # "no" => importHold # None
      /\ asked = 0 \/ By(wait, work)
      /\ arrived => asked = 0
  BY DEF IndInv, CarriedInv, HoldInv, Decided, Decide
<1>f. /\ work' = work /\ queued' = queued /\ hold' = hold /\ arrived' = arrived
      /\ lift' = lift /\ importHold' = importHold
      /\ publish' = IF published THEN p ELSE publish
      /\ ~blind' => published /\ read
  BY DEF Decide, importVars
<1>g. ASSUME next # None PROVE CarriedInv' /\ ArmedInv'
  <2>1. alarm' = nextAlarm(next, dl) /\ pc' = "after" /\ ~cut'
    BY <1>g DEF Decide, Arm
  <2>2. By(alarm', asked) /\ By(alarm', wait) /\ By(alarm', pub) /\ By(alarm', dl)
    BY <1>a, <1>b, <1>c, <1>d, <2>1, <1>g, AlarmAssumption DEF By, Times
  <2>3. By(alarm', work)
    BY <1>a, <1>d, <1>e, <2>1, <2>2, AlarmAssumption DEF By, Times
  <2>4. By(alarm', queued) \/ (lift # "no" /\ By(alarm', importHold))
    BY <1>a, <1>d, <1>e, <2>1, <2>2, AlarmAssumption DEF By, Times
  <2>5. CarriedInv'
    BY <2>1 DEF CarriedInv, Decided
  <2>6. Answered(queued)' \/ Unwoken'
    BY <1>e, <1>f, <2>4 DEF Answered, Unwoken, By
  <2>7. ArmedInv'
    BY <1>f, <2>1, <2>2, <2>3, <2>6 DEF ArmedInv, Answered, By
  <2> QED
    BY <2>5, <2>7
<1>h. ASSUME next = None PROVE CarriedInv' /\ ArmedInv'
  <2>1. deadline' = dl /\ pc' = "standdown" /\ cut' = cut /\ asked' = asked
    BY <1>h DEF Decide
  <2>2. asked = None /\ wait = None /\ pub = None
    BY <1>b, <1>c, <1>h
  <2>3. CarriedInv'
    BY <1>a, <1>e, <1>f, <2>1, <2>2, AlarmAssumption DEF CarriedInv, Decided, By, Times
  <2>4. ArmedInv'
    BY <2>1 DEF ArmedInv
  <2> QED
    BY <2>3, <2>4
<1>3. CarriedInv' /\ ArmedInv'
  BY <1>g, <1>h
<1>5. SafetyNet'
  BY AlarmAssumption DEF IndInv, SafetyNet, Decided, TypeOK, Times, Decide, Arm,
     nextAlarm, passVars, usageVars, needVars, importVars, LetGo, Near
<1>6. RowsHaveAlarm'
  BY AlarmAssumption DEF IndInv, RowsHaveAlarm, Decided, TypeOK, Times, SafetyNet,
     UnclaimedInv, Decide, Arm, nextAlarm, passVars, usageVars, needVars, importVars,
     LetGo
<1>7. HoldInv'
  BY AlarmAssumption DEF IndInv, HoldInv, Held, TypeOK, Times, Decide, Arm, nextAlarm,
     passVars, usageVars, needVars, importVars, LetGo
<1> QED
  BY <1>1, <1>2, <1>3, <1>5, <1>6, <1>7 DEF IndInv

(* Standing down looks again at what was asked and what is unsent. *)
LEMMA StandDownKeeps ==
  ASSUME IndInv, NEW some \in BOOLEAN, NEW all \in BOOLEAN, StandDown(some, all)
  PROVE  IndInv'
<1>1. TypeOK'
  <2>1. owned' \in BOOLEAN /\ alarm' \in Times /\ asked' \in Times
    BY AlarmAssumption DEF IndInv, TypeOK, Times, StandDown, Arm, nextAlarm,
       standDownDelay, passVars, usageVars, needVars, importVars, LetGo
  <2>2. failures' \in 0..MaxFailures /\ retries' \in 0..RetryLimit
    BY AlarmAssumption DEF IndInv, TypeOK, Times, StandDown, Arm, nextAlarm,
       standDownDelay, passVars, usageVars, needVars, importVars, LetGo
  <2>3. pc' \in {"none", "inbound", "step", "stepping", "flush", "publish", "standdown", "after"}
    BY AlarmAssumption DEF IndInv, TypeOK, Times, StandDown, Arm, nextAlarm,
       standDownDelay, passVars, usageVars, needVars, importVars, LetGo
  <2>4. wait' \in Times /\ deadline' \in Times /\ moved' \in BOOLEAN
    BY AlarmAssumption DEF IndInv, TypeOK, Times, StandDown, Arm, nextAlarm,
       standDownDelay, passVars, usageVars, needVars, importVars, LetGo
  <2>5. open' \in BOOLEAN /\ rows' \in BOOLEAN /\ left' \in BOOLEAN
    BY AlarmAssumption DEF IndInv, TypeOK, Times, StandDown, Arm, nextAlarm,
       standDownDelay, passVars, usageVars, needVars, importVars, LetGo
  <2>6. work' \in Times /\ queued' \in Times /\ hold' \in Times /\ publish' \in Times
    BY AlarmAssumption DEF IndInv, TypeOK, Times, StandDown, Arm, nextAlarm,
       standDownDelay, passVars, usageVars, needVars, importVars, LetGo
  <2>7. arrived' \in BOOLEAN /\ cut' \in BOOLEAN /\ blind' \in BOOLEAN
    BY AlarmAssumption DEF IndInv, TypeOK, Times, StandDown, Arm, nextAlarm,
       standDownDelay, passVars, usageVars, needVars, importVars, LetGo
  <2>8. importHold' \in Times /\ lift' \in {"no", "waking", "lost"}
    BY AlarmAssumption DEF IndInv, TypeOK, Times, StandDown, Arm, nextAlarm,
       standDownDelay, passVars, usageVars, needVars, importVars, LetGo
  <2> QED
    BY <2>1, <2>2, <2>3, <2>4, <2>5, <2>6, <2>7, <2>8 DEF TypeOK
<1>2. UnclaimedInv'
  BY AlarmAssumption DEF IndInv, UnclaimedInv, TypeOK, Times, StandDown, Arm, nextAlarm,
     standDownDelay, passVars, usageVars, needVars, importVars, LetGo
<1>3. CarriedInv'
  BY AlarmAssumption DEF IndInv, CarriedInv, Decided, By, TypeOK, Times, StandDown, Arm,
     nextAlarm, standDownDelay, passVars, usageVars, needVars, importVars, LetGo,
     HoldInv, Held
<1>4. ArmedInv'
  BY AlarmAssumption DEF IndInv, ArmedInv, Answered, TypeOK, Times, CarriedInv, Decided,
     By, SafetyNet, UnclaimedInv, StandDown, Arm, nextAlarm, standDownDelay, passVars,
     usageVars, needVars, importVars, LetGo, Near, Unwoken, HoldInv, Held
<1>5. SafetyNet'
  BY AlarmAssumption DEF IndInv, SafetyNet, Decided, TypeOK, Times, StandDown, Arm,
     nextAlarm, standDownDelay, passVars, usageVars, needVars, importVars, LetGo, Near
<1>6. RowsHaveAlarm'
  BY AlarmAssumption DEF IndInv, RowsHaveAlarm, Decided, TypeOK, Times, SafetyNet,
     UnclaimedInv, StandDown, Arm, nextAlarm, standDownDelay, passVars, usageVars,
     needVars, importVars, LetGo
<1>7. HoldInv'
  BY AlarmAssumption DEF IndInv, HoldInv, Held, TypeOK, Times, StandDown, Arm,
     nextAlarm, standDownDelay, passVars, usageVars, needVars, importVars, LetGo
<1> QED
  BY <1>1, <1>2, <1>3, <1>4, <1>5, <1>6, <1>7 DEF IndInv

(* A clean pass ends on the alarm it decided. *)
LEMMA PassEndsKeeps ==
  ASSUME IndInv, PassEnds
  PROVE  IndInv'
<1>1. TypeOK'
  BY AlarmAssumption DEF IndInv, TypeOK, Times, PassEnds, passVars, usageVars, needVars,
     importVars
<1>2. UnclaimedInv'
  BY AlarmAssumption DEF IndInv, UnclaimedInv, TypeOK, Times, PassEnds, passVars,
     usageVars, needVars, importVars
<1>3. CarriedInv'
  BY AlarmAssumption DEF IndInv, CarriedInv, Decided, By, TypeOK, Times, PassEnds,
     passVars, usageVars, needVars, importVars, HoldInv, Held
<1>4. ArmedInv'
  BY AlarmAssumption DEF IndInv, ArmedInv, Answered, TypeOK, Times, CarriedInv, Decided,
     By, SafetyNet, UnclaimedInv, PassEnds, passVars, usageVars, needVars, importVars,
     Near, Unwoken, HoldInv, Held
<1>5. SafetyNet'
  BY AlarmAssumption DEF IndInv, SafetyNet, Decided, TypeOK, Times, PassEnds, passVars,
     usageVars, needVars, importVars, Near
<1>6. RowsHaveAlarm'
  BY AlarmAssumption DEF IndInv, RowsHaveAlarm, Decided, TypeOK, Times, SafetyNet,
     UnclaimedInv, PassEnds, passVars, usageVars, needVars, importVars
<1>7. HoldInv'
  BY AlarmAssumption DEF IndInv, HoldInv, Held, TypeOK, Times, PassEnds, passVars,
     usageVars, needVars, importVars
<1> QED
  BY <1>1, <1>2, <1>3, <1>4, <1>5, <1>6, <1>7 DEF IndInv

(* A pass that throws leaves its net. *)
LEMMA PassFailsKeeps ==
  ASSUME IndInv, PassFails
  PROVE  IndInv'
<1>1. TypeOK'
  <2>1. owned' \in BOOLEAN /\ alarm' \in Times /\ asked' \in Times
    BY AlarmAssumption DEF IndInv, TypeOK, Times, PassFails, AlarmKept, passVars, usageVars,
       needVars, importVars, LetGo
  <2>2. failures' \in 0..MaxFailures /\ retries' \in 0..RetryLimit
    BY AlarmAssumption DEF IndInv, TypeOK, Times, PassFails, AlarmKept, passVars, usageVars,
       needVars, importVars, LetGo
  <2>3. pc' \in {"none", "inbound", "step", "stepping", "flush", "publish", "standdown", "after"}
    BY AlarmAssumption DEF IndInv, TypeOK, Times, PassFails, AlarmKept, passVars, usageVars,
       needVars, importVars, LetGo
  <2>4. wait' \in Times /\ deadline' \in Times /\ moved' \in BOOLEAN
    BY AlarmAssumption DEF IndInv, TypeOK, Times, PassFails, AlarmKept, passVars, usageVars,
       needVars, importVars, LetGo
  <2>5. open' \in BOOLEAN /\ rows' \in BOOLEAN /\ left' \in BOOLEAN
    BY AlarmAssumption DEF IndInv, TypeOK, Times, PassFails, AlarmKept, passVars, usageVars,
       needVars, importVars, LetGo
  <2>6. work' \in Times /\ queued' \in Times /\ hold' \in Times /\ publish' \in Times
    BY AlarmAssumption DEF IndInv, TypeOK, Times, PassFails, AlarmKept, passVars, usageVars,
       needVars, importVars, LetGo
  <2>7. arrived' \in BOOLEAN /\ cut' \in BOOLEAN /\ blind' \in BOOLEAN
    BY AlarmAssumption DEF IndInv, TypeOK, Times, PassFails, AlarmKept, passVars, usageVars,
       needVars, importVars, LetGo
  <2>8. importHold' \in Times /\ lift' \in {"no", "waking", "lost"}
    BY AlarmAssumption DEF IndInv, TypeOK, Times, PassFails, AlarmKept, passVars, usageVars,
       needVars, importVars, LetGo
  <2> QED
    BY <2>1, <2>2, <2>3, <2>4, <2>5, <2>6, <2>7, <2>8 DEF TypeOK
<1>2. UnclaimedInv'
  BY AlarmAssumption DEF IndInv, UnclaimedInv, TypeOK, Times, PassFails, AlarmKept,
     passVars, usageVars, needVars, importVars, LetGo
<1>3. CarriedInv'
  BY AlarmAssumption DEF IndInv, CarriedInv, Decided, By, TypeOK, Times, PassFails,
     AlarmKept, passVars, usageVars, needVars, importVars, LetGo, HoldInv, Held
<1>4. ArmedInv'
  BY AlarmAssumption DEF IndInv, ArmedInv, Answered, TypeOK, Times, CarriedInv, Decided,
     By, SafetyNet, UnclaimedInv, PassFails, AlarmKept, passVars, usageVars, needVars,
     importVars, LetGo, Near, Unwoken, HoldInv, Held
<1>5. SafetyNet'
  BY AlarmAssumption DEF IndInv, SafetyNet, Decided, TypeOK, Times, PassFails,
     AlarmKept, passVars, usageVars, needVars, importVars, LetGo, Near
<1>6. RowsHaveAlarm'
  BY AlarmAssumption DEF IndInv, RowsHaveAlarm, Decided, TypeOK, Times, SafetyNet,
     UnclaimedInv, PassFails, AlarmKept, passVars, usageVars, needVars, importVars,
     LetGo
<1>7. HoldInv'
  BY AlarmAssumption DEF IndInv, HoldInv, Held, TypeOK, Times, PassFails, AlarmKept,
     passVars, usageVars, needVars, importVars, LetGo
<1> QED
  BY <1>1, <1>2, <1>3, <1>4, <1>5, <1>6, <1>7 DEF IndInv

(* A pass that dies leaves its net. *)
LEMMA EvictKeeps ==
  ASSUME IndInv, Evict
  PROVE  IndInv'
<1>1. TypeOK'
  <2>1. owned' \in BOOLEAN /\ alarm' \in Times /\ asked' \in Times
    BY AlarmAssumption DEF IndInv, TypeOK, Times, Evict, AlarmKept, passVars, usageVars,
       needVars, importVars, LetGo
  <2>2. failures' \in 0..MaxFailures /\ retries' \in 0..RetryLimit
    BY AlarmAssumption DEF IndInv, TypeOK, Times, Evict, AlarmKept, passVars, usageVars,
       needVars, importVars, LetGo
  <2>3. pc' \in {"none", "inbound", "step", "stepping", "flush", "publish", "standdown", "after"}
    BY AlarmAssumption DEF IndInv, TypeOK, Times, Evict, AlarmKept, passVars, usageVars,
       needVars, importVars, LetGo
  <2>4. wait' \in Times /\ deadline' \in Times /\ moved' \in BOOLEAN
    BY AlarmAssumption DEF IndInv, TypeOK, Times, Evict, AlarmKept, passVars, usageVars,
       needVars, importVars, LetGo
  <2>5. open' \in BOOLEAN /\ rows' \in BOOLEAN /\ left' \in BOOLEAN
    BY AlarmAssumption DEF IndInv, TypeOK, Times, Evict, AlarmKept, passVars, usageVars,
       needVars, importVars, LetGo
  <2>6. work' \in Times /\ queued' \in Times /\ hold' \in Times /\ publish' \in Times
    BY AlarmAssumption DEF IndInv, TypeOK, Times, Evict, AlarmKept, passVars, usageVars,
       needVars, importVars, LetGo
  <2>7. arrived' \in BOOLEAN /\ cut' \in BOOLEAN /\ blind' \in BOOLEAN
    BY AlarmAssumption DEF IndInv, TypeOK, Times, Evict, AlarmKept, passVars, usageVars,
       needVars, importVars, LetGo
  <2>8. importHold' \in Times /\ lift' \in {"no", "waking", "lost"}
    BY AlarmAssumption DEF IndInv, TypeOK, Times, Evict, AlarmKept, passVars, usageVars,
       needVars, importVars, LetGo
  <2> QED
    BY <2>1, <2>2, <2>3, <2>4, <2>5, <2>6, <2>7, <2>8 DEF TypeOK
<1>2. UnclaimedInv'
  BY AlarmAssumption DEF IndInv, UnclaimedInv, TypeOK, Times, Evict, AlarmKept,
     passVars, usageVars, needVars, importVars, LetGo
<1>3. CarriedInv'
  BY AlarmAssumption DEF IndInv, CarriedInv, Decided, By, TypeOK, Times, Evict,
     AlarmKept, passVars, usageVars, needVars, importVars, LetGo, HoldInv, Held
<1>4. ArmedInv'
  BY AlarmAssumption DEF IndInv, ArmedInv, Answered, TypeOK, Times, CarriedInv, Decided,
     By, SafetyNet, UnclaimedInv, Evict, AlarmKept, passVars, usageVars, needVars,
     importVars, LetGo, Near, Unwoken, HoldInv, Held
<1>5. SafetyNet'
  BY AlarmAssumption DEF IndInv, SafetyNet, Decided, TypeOK, Times, Evict, AlarmKept,
     passVars, usageVars, needVars, importVars, LetGo, Near
<1>6. RowsHaveAlarm'
  BY AlarmAssumption DEF IndInv, RowsHaveAlarm, Decided, TypeOK, Times, SafetyNet,
     UnclaimedInv, Evict, AlarmKept, passVars, usageVars, needVars, importVars, LetGo
<1>7. HoldInv'
  BY AlarmAssumption DEF IndInv, HoldInv, Held, TypeOK, Times, Evict, AlarmKept,
     passVars, usageVars, needVars, importVars, LetGo
<1> QED
  BY <1>1, <1>2, <1>3, <1>4, <1>5, <1>6, <1>7 DEF IndInv

(* Everything comes nearer alike. *)
LEMMA TickKeeps ==
  ASSUME IndInv, Tick
  PROVE  IndInv'
<1>1. TypeOK'
  BY AlarmAssumption DEF IndInv, TypeOK, Times, Tick, Nearer, passVars, usageVars,
     needVars, importVars
<1>2. UnclaimedInv'
  BY AlarmAssumption DEF IndInv, UnclaimedInv, TypeOK, Times, Tick, Nearer, passVars,
     usageVars, needVars, importVars
<1>3. CarriedInv'
  BY AlarmAssumption DEF IndInv, CarriedInv, Decided, By, TypeOK, Times, Tick, Nearer,
     passVars, usageVars, needVars, importVars, HoldInv, Held
<1>4. ArmedInv'
  BY AlarmAssumption DEF IndInv, ArmedInv, Answered, TypeOK, Times, CarriedInv, Decided,
     By, SafetyNet, UnclaimedInv, Tick, Nearer, passVars, usageVars, needVars,
     importVars, Near, Unwoken, HoldInv, Held
<1>5. SafetyNet'
  BY AlarmAssumption DEF IndInv, SafetyNet, Decided, TypeOK, Times, Tick, Nearer,
     passVars, usageVars, needVars, importVars, Near
<1>6. RowsHaveAlarm'
  BY AlarmAssumption DEF IndInv, RowsHaveAlarm, Decided, TypeOK, Times, SafetyNet,
     UnclaimedInv, Tick, Nearer, passVars, usageVars, needVars, importVars
<1>7. HoldInv'
  BY AlarmAssumption DEF IndInv, HoldInv, Held, TypeOK, Times, Tick, Nearer, passVars,
     usageVars, needVars, importVars
<1> QED
  BY <1>1, <1>2, <1>3, <1>4, <1>5, <1>6, <1>7 DEF IndInv

(* Nothing to wake for, to begin with. *)
LEMMA InitEstablishes ==
  ASSUME Init
  PROVE  IndInv
<1>1. TypeOK
  <2>1. alarm \in Times /\ asked \in Times /\ wait \in Times /\ deadline \in Times
    BY DEF Init, Times
  <2>2. work \in Times /\ queued \in Times /\ hold \in Times /\ publish \in Times
    BY DEF Init, Times
  <2>3. failures \in 0..MaxFailures /\ retries \in 0..RetryLimit
    BY AlarmAssumption DEF Init
  <2>4. importHold \in Times /\ owned \in BOOLEAN
    BY AlarmAssumption DEF Init, Times
  <2> QED
    BY <2>1, <2>2, <2>3, <2>4 DEF Init, TypeOK
<1>2. UnclaimedInv /\ HoldInv /\ CarriedInv /\ SafetyNet
  BY DEF Init, UnclaimedInv, HoldInv, CarriedInv, SafetyNet, Decided
<1>3. ArmedInv /\ RowsHaveAlarm
  BY DEF Init, ArmedInv, Answered, RowsHaveAlarm
<1> QED
  BY <1>1, <1>2, <1>3 DEF IndInv

(* Every step keeps the invariant. *)
LEMMA NextKeeps ==
  ASSUME IndInv, [Next]_vars
  PROVE  IndInv'
<1>t. /\ hold \in Times /\ importHold \in Times /\ None \in Times
      /\ Waits \subseteq Nat /\ Waits \cup {None} \subseteq Times
  BY AlarmAssumption DEF IndInv, TypeOK, Times
<1>1. CASE Outside
  <2>1. CASE \E h \in {hold, None} : InputLands(h)
    BY <1>t, <2>1, InputLandsKeeps
  <2>2. CASE \E at \in Waits : KeepAlive(at)
    BY <1>t, <2>2, KeepAliveKeeps
  <2> QED
    BY <1>1, <2>1, <2>2, PushLandsKeeps, HandlerWritesKeeps, HandlerEndsKeeps,
       LiftHoldKeeps, LiftWakesKeeps DEF Outside
<1>2. CASE Pass
  <2>1. CASE \E r \in Waits \cup {None, importHold} : InboundEnds(r)
    BY <1>t, <2>1, InboundEndsKeeps
  <2>2. CASE \E w, h \in Waits \cup {None} : StepEnds(w, h)
    BY <1>t, <2>2, StepEndsKeeps
  <2>3. CASE \E some, all, threw \in BOOLEAN : Flush(some, all, threw)
    BY <2>3, FlushKeeps
  <2>4. CASE \E p \in Waits \cup {None}, published, read \in BOOLEAN : Decide(p, published, read)
    BY <1>t, <2>4, DecideKeeps
  <2>5. CASE \E some, all \in BOOLEAN : StandDown(some, all)
    BY <2>5, StandDownKeeps
  <2> QED
    BY <1>2, <2>1, <2>2, <2>3, <2>4, <2>5, AlarmFiresKeeps, AlarmUnclaimedKeeps,
       StepReadsKeeps,
       PassEndsKeeps DEF Pass
<1>3. CASE UNCHANGED vars
  BY <1>3 DEF vars, passVars, usageVars, needVars, importVars, IndInv, TypeOK,
     UnclaimedInv, HoldInv, Held, CarriedInv, By, Decided, ArmedInv, Answered, Near,
     Unwoken, SafetyNet, RowsHaveAlarm
<1> QED
  BY <1>1, <1>2, <1>3, PassFailsKeeps, EvictKeeps, TickKeeps DEF Next

(* The inductive invariant, for every choice of times and limits. *)
THEOREM Invariance == Spec => []IndInv
<1>1. Init => IndInv
  BY InitEstablishes
<1>2. IndInv /\ [Next]_vars => IndInv'
  BY NextKeeps
<1> QED
  BY <1>1, <1>2, PTL DEF Spec

(* Every reachable state of the alarm is well typed; the stand-down's      *)
(* retries never pass USAGE_RETRY_LIMIT.                                   *)
THEOREM Typing == Spec => []TypeOK
<1>1. IndInv => TypeOK
  BY DEF IndInv
<1> QED
  BY <1>1, Invariance, PTL

(* Outside a pass, whatever needs one has an alarm in time for it, however *)
(* inputs, handlers, evictions and failures fell between the pass's awaits;*)
(* the delays are those of NothingStranded: a cut pass, and a lift of the  *)
(* import hold that did not get to its wake.                               *)
THEOREM Stranding == Spec => []NothingStranded
<1>1. IndInv => NothingStranded
  BY DEF IndInv, ArmedInv, NothingStranded, Decided
<1> QED
  BY <1>1, Invariance, PTL

(* No moment of a pass is one whose death leaves the object without an     *)
(* alarm, or with one further than the net, a push's retry and the end of  *)
(* the import hold.                                                        *)
THEOREM Net == Spec => []SafetyNet
<1>1. IndInv => SafetyNet
  BY DEF IndInv
<1> QED
  BY <1>1, Invariance, PTL

(* Unsent rows are without an alarm only when the retry limit, an eviction *)
(* under an open handler or repeated failures left them so.                *)
THEOREM Outboxes == Spec => []RowsHaveAlarm
<1>1. IndInv => RowsHaveAlarm
  BY DEF IndInv
<1> QED
  BY <1>1, Invariance, PTL

-----------------------------------------------------------------------------
(* An unread input *)

(* An input no step has looked at is work to do at once. *)
InputIsWork == arrived => work = 0

(* However far a pass got, an unread input is no further from the next one *)
(* than the net, a push's retry or the end of the import hold.             *)
InputIsNear == arrived /\ failures < MaxFailures => alarm # None /\ Near(alarm)

LEMMA InputIsWorkKeeps == TypeOK /\ InputIsWork /\ [Next]_vars => InputIsWork'
<1> SUFFICES ASSUME TypeOK, InputIsWork, [Next]_vars PROVE InputIsWork'
  OBVIOUS
<1> USE DEF InputIsWork, passVars, usageVars, needVars, importVars
<1>1. CASE \E h \in {hold, None} : InputLands(h)
  BY <1>1 DEF InputLands
<1>2. CASE StepReads
  BY <1>2 DEF StepReads
<1>3. CASE \E w, h \in Waits \cup {None} : StepEnds(w, h)
  BY <1>3 DEF StepEnds
<1>4. CASE Tick
  BY <1>4, AlarmAssumption DEF Tick, Nearer
<1>5. ASSUME UNCHANGED <<arrived, work>> PROVE InputIsWork'
  BY <1>5
<1>6. CASE \/ PushLands \/ HandlerWrites \/ HandlerEnds \/ LiftHold \/ LiftWakes
           \/ \E at \in Waits : KeepAlive(at)
  BY <1>5, <1>6 DEF PushLands, HandlerWrites, HandlerEnds, LiftHold, LiftWakes, KeepAlive
<1>7. CASE AlarmFires \/ AlarmUnclaimed \/ PassEnds
           \/ \E r \in Waits \cup {None, importHold} : InboundEnds(r)
  BY <1>5, <1>7 DEF AlarmFires, AlarmUnclaimed, PassEnds, InboundEnds
<1>8. CASE \E some, all, threw \in BOOLEAN : Flush(some, all, threw)
  BY <1>5, <1>8 DEF Flush
<1>9. CASE \E p \in Waits \cup {None}, published, read \in BOOLEAN : Decide(p, published, read)
  BY <1>5, <1>9 DEF Decide
<1>10. CASE \E some, all \in BOOLEAN : StandDown(some, all)
  BY <1>5, <1>10 DEF StandDown
<1>11. CASE PassFails \/ Evict
  BY <1>5, <1>11 DEF PassFails, Evict
<1>12. CASE UNCHANGED vars
  BY <1>5, <1>12 DEF vars
<1> QED
  BY <1>1, <1>2, <1>3, <1>4, <1>6, <1>7, <1>8, <1>9, <1>10, <1>11, <1>12
  DEF Next, Outside, Pass

(* A message, an answer or a decision that no step has looked at has an    *)
(* alarm within 30 s, a push's longest retry or what is left of the import *)
(* hold under which pushes wait, at every moment, whatever was evicted,    *)
(* failed or armed over it (#wake, alarm); only an object that failed      *)
(* MaxFailures times is without one. What InputIsRead needs for its        *)
(* fairness to act on.                                                     *)
THEOREM Attending == Spec => []InputIsNear
<1>1. Init => InputIsWork
  BY DEF Init, InputIsWork
<1>2. IndInv /\ InputIsWork /\ [Next]_vars => InputIsWork'
  BY InputIsWorkKeeps DEF IndInv
<1>3. IndInv /\ InputIsWork => InputIsNear
  <2> SUFFICES ASSUME IndInv, InputIsWork, arrived, failures < MaxFailures
               PROVE  alarm # None /\ Near(alarm)
    BY DEF InputIsNear
  <2>1. CASE ~Decided
    BY <2>1 DEF IndInv, SafetyNet
  <2>2. CASE Decided
    <3>1. work = 0 /\ work # None
      BY AlarmAssumption DEF InputIsWork
    <3>2. alarm # None /\ (alarm <= 0 \/ Near(alarm))
      BY <2>2, <3>1 DEF IndInv, ArmedInv, Decided, Answered
    <3> QED
      BY <3>2, AlarmAssumption DEF IndInv, TypeOK, Times, Near
  <2> QED
    BY <2>1, <2>2
<1> QED
  BY <1>1, <1>2, <1>3, Invariance, PTL DEF Spec

-----------------------------------------------------------------------------
(* The alarm once decided *)

(* While no pass is deciding, the alarm of a claimed object only comes     *)
(* nearer.                                                                 *)
NotPutOff == Decided /\ Decided' /\ owned => By(alarm', alarm)

LEMMA StepNotPutOff == TypeOK /\ [Next]_vars => NotPutOff
<1> SUFFICES ASSUME TypeOK, [Next]_vars, Decided, Decided', owned, alarm # None
             PROVE  alarm' # None /\ alarm' <= alarm
  BY DEF NotPutOff, By
<1>0. alarm \in Nat
  BY DEF TypeOK, Times
<1>1. CASE UNCHANGED alarm
  BY <1>0, <1>1
<1>2. CASE alarm' = 0
  BY <1>0, <1>2, AlarmAssumption
<1>3. CASE Outside
  <2>1. CASE (\E h \in {hold, None} : InputLands(h)) \/ PushLands \/ LiftWakes
    BY <1>2, <2>1 DEF InputLands, PushLands, LiftWakes, wake
  <2>2. CASE HandlerWrites \/ HandlerEnds \/ LiftHold
    BY <1>1, <2>2 DEF HandlerWrites, HandlerEnds, LiftHold
  <2>3. ASSUME NEW at \in Waits, KeepAlive(at) PROVE alarm' # None /\ alarm' <= alarm
    BY <1>0, <2>3, AlarmAssumption DEF KeepAlive, wake
  <2> QED
    BY <1>3, <2>1, <2>2, <2>3 DEF Outside
<1>4. CASE Pass
  <2>1. CASE PassEnds
    BY <1>1, <2>1 DEF PassEnds
  <2>2. CASE ~PassEnds
    BY <1>4, <2>2
    DEF Pass, Decided, AlarmFires, AlarmUnclaimed, InboundEnds, StepReads, StepEnds, Flush,
        Decide, StandDown
  <2> QED
    BY <2>1, <2>2
<1>5. CASE PassFails
  BY <1>1, <1>2, <1>5 DEF PassFails, AlarmKept
<1>6. CASE Evict
  BY <1>1, <1>2, <1>6 DEF Evict, AlarmKept
<1>7. CASE Tick
  BY <1>0, <1>7, AlarmAssumption DEF Tick, Nearer
<1>8. CASE UNCHANGED vars
  BY <1>1, <1>8 DEF vars
<1> QED
  BY <1>3, <1>4, <1>5, <1>6, <1>7, <1>8 DEF Next

(* #keepAlive, #usageWake, #wake and the end of a pass: once a pass has    *)
(* decided, nothing but the alarm going off puts it off or takes it away.  *)
THEOREM NearerOnly == Spec => [][NotPutOff]_vars
<1>1. IndInv /\ [Next]_vars => [NotPutOff]_vars
  BY StepNotPutOff DEF IndInv
<1> QED
  BY <1>1, Invariance, PTL DEF Spec

-----------------------------------------------------------------------------
(* When the alarm is on time *)

(* No pass fails, none is evicted before it has decided, and no lift of    *)
(* the hold before its wake.                                               *)
Uncut == ~PassFails /\ (Evict => Decided /\ lift # "waking")

Whole == failures = 0 /\ lift # "lost" /\ (Decided => ~cut)

(* No need of a pass waits for the net: the alarm is no later than it.     *)
OnTime ==
  Decided =>
    /\ By(alarm, work) /\ (lift # "waking" => By(alarm, queued))
    /\ ~blind => By(alarm, hold) /\ By(alarm, publish)

LEMMA WholeKeeps == TypeOK /\ Whole /\ [Next]_vars /\ [Uncut]_vars => Whole'
<1> SUFFICES ASSUME TypeOK, Whole, [Next]_vars, [Uncut]_vars PROVE Whole'
  OBVIOUS
<1> USE DEF Whole, Decided, passVars, usageVars, needVars, importVars
<1>1. ASSUME UNCHANGED <<failures, cut, pc>>, lift' # "lost" PROVE Whole'
  BY <1>1
<1>2. CASE Outside
  BY <1>1, <1>2
  DEF Outside, InputLands, PushLands, HandlerWrites, HandlerEnds, KeepAlive, LiftHold,
      LiftWakes, LiftOver
<1>3. CASE AlarmFires
  BY <1>3 DEF AlarmFires
<1>4. CASE AlarmUnclaimed \/ PassEnds
  BY <1>4 DEF AlarmUnclaimed, PassEnds
<1>5. CASE \E r \in Waits \cup {None, importHold} : InboundEnds(r)
  BY <1>5 DEF InboundEnds
<1>6. CASE StepReads \/ \E w, h \in Waits \cup {None} : StepEnds(w, h)
  BY <1>6 DEF StepReads, StepEnds
<1>7. CASE \E some, all, threw \in BOOLEAN : Flush(some, all, threw)
  BY <1>7 DEF Flush
<1>8. CASE \E p \in Waits \cup {None}, published, read \in BOOLEAN : Decide(p, published, read)
  BY <1>8 DEF Decide, Arm
<1>9. CASE \E some, all \in BOOLEAN : StandDown(some, all)
  BY <1>9 DEF StandDown, Arm
<1>10. CASE UNCHANGED vars
  BY <1>1, <1>10 DEF vars
<1>11. CASE PassFails
  BY <1>10, <1>11 DEF Uncut
<1>12. CASE Evict
  BY <1>10, <1>12 DEF Uncut, Evict
<1>13. CASE Tick
  BY <1>1, <1>13 DEF Tick
<1> QED
  BY <1>2, <1>3, <1>4, <1>5, <1>6, <1>7, <1>8, <1>9, <1>10, <1>11, <1>12, <1>13
  DEF Next, Pass

(* The net is needed for passes cut short and for nothing else: as long as *)
(* none is, and a lift of the import hold gets to its wake, the alarm that *)
(* every pass leaves is no later than the work it left, the pushes queued  *)
(* behind it and the holds and publishes it could read, whatever landed    *)
(* between its awaits.                                                     *)
THEOREM Punctual == Spec /\ [][Uncut]_vars => []OnTime
<1>1. Init => Whole
  BY DEF Init, Whole
<1>2. IndInv /\ Whole /\ [Next]_vars /\ [Uncut]_vars => Whole'
  BY WholeKeeps DEF IndInv
<1>3. IndInv /\ Whole => OnTime
  <2> SUFFICES ASSUME IndInv, Whole, Decided
               PROVE  /\ By(alarm, work) /\ (lift # "waking" => By(alarm, queued))
                      /\ ~blind => By(alarm, hold) /\ By(alarm, publish)
    BY DEF OnTime
  <2>1. ~cut /\ lift # "lost" /\ failures < MaxFailures
    BY AlarmAssumption DEF Whole
  <2>2. \A t : Answered(t) => By(alarm, t)
    BY <2>1 DEF Answered, By
  <2>3. lift # "waking" => Answered(queued)
    BY <2>1 DEF IndInv, TypeOK, ArmedInv, Unwoken, Decided
  <2> QED
    BY <2>1, <2>2, <2>3 DEF IndInv, ArmedInv, Decided
<1> QED
  BY <1>1, <1>2, <1>3, Invariance, PTL DEF Spec
=============================================================================
