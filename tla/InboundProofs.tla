--------------------------- MODULE InboundProofs ---------------------------
(***************************************************************************)
(* That a push is given to the agent at most once and in its turn, and     *)
(* that the queue is never without an alarm, for any number of pushes and  *)
(* any waits and limits. The inductive invariant says what the queue's     *)
(* order is, that a key is held by its row or by its record, and what a    *)
(* pass past its look may rely on after each await.                        *)
(*                                                                         *)
(* From it also: that the queue and the minute keep their limits, that a   *)
(* queue has one head, and that a settled push stays settled.              *)
(***************************************************************************)
EXTENDS Inbound, FiniteSetTheorems, TLAPS

(* The rows are in one order, oldest first, and a row that is gone is not  *)
(* waited for.                                                             *)
Queue ==
  /\ \A k \in Keys : ahead[k] \subseteq Pending \ {k}
  /\ \A k \in Keys : state[k] = "none" => ahead[k] = {}
  /\ \A j, k \in Pending : j = k \/ j \in ahead[k] \/ k \in ahead[j]
  /\ \A j, k \in Keys : j \in ahead[k] => age[k] <= age[j]

(* A key is held by a row or by a record; one that neither holds was not   *)
(* given to the agent, nor was a queued one.                               *)
Held == \A k \in Keys :
  /\ record[k] # "none" => state[k] = "none"
  /\ record[k] = "none" /\ state[k] \in {"none", "queued"} => said[k] = 0

(* A pass past its look works on the head, as far as pc says. *)
AtWork == pc \in {"claim", "post", "say", "said"} =>
  \E k \in Keys :
    /\ nextPendingInbound(k)
    /\ state[k] = IF pc \in {"claim", "post"} THEN "queued" ELSE "posting"
    /\ said[k] = IF pc = "said" THEN 1 ELSE 0

IndInv == TypeOK /\ SaidOnce /\ HasAlarm /\ Queue /\ Held /\ AtWork

(* The queue has one head. *)
LEMMA OneHead ==
  ASSUME Queue, NEW j \in Keys, NEW k \in Keys,
         nextPendingInbound(j), nextPendingInbound(k)
  PROVE  j = k
BY DEF Queue, nextPendingInbound, Pending

(* Earlier is the earlier of two times. *)
LEMMA EarlierTime ==
  ASSUME NEW a \in Nat \cup {None}, NEW b \in Nat \cup {None}
  PROVE  /\ Earlier(a, b) \in Nat \cup {None}
         /\ b # None => Earlier(a, b) # None /\ Earlier(a, b) <= b
         /\ a # None => Earlier(a, b) # None /\ Earlier(a, b) <= a
BY InboundAssumption DEF Earlier

(* A step that leaves the rows, the records and what was said alone keeps  *)
(* what the invariant says of them.                                        *)
LEMMA RowsAlone ==
  ASSUME IndInv, UNCHANGED <<rows, age, record, said>>
  PROVE  /\ Queue' /\ Held' /\ SaidOnce'
         /\ Pending' = Pending
         /\ \A k \in Keys : nextPendingInbound(k)' <=> nextPendingInbound(k)
<1>1. Pending' = Pending
  BY DEF Pending, rows
<1>2. \A k \in Keys : nextPendingInbound(k)' <=> nextPendingInbound(k)
  BY <1>1 DEF nextPendingInbound, rows
<1>3. Queue'
  BY <1>1 DEF IndInv, Queue, rows
<1>4. Held' /\ SaidOnce'
  BY DEF IndInv, Held, SaidOnce, rows
<1> QED BY <1>1, <1>2, <1>3, <1>4

(* Settling takes rows out of the order, keeping the order of the others,  *)
(* and leaves every key held, or forgotten and never given.                *)
LEMMA SettleKeeps ==
  ASSUME IndInv, NEW S \in SUBSET Pending,
         NEW outcome \in {"delivered", "failed", "unclear", "ignored"},
         settleInbound(S, outcome), age' = age,
         outcome = "ignored" => \A k \in S : state[k] = "queued"
  PROVE  /\ Queue' /\ Held' /\ SaidOnce'
         /\ state' \in [Keys -> {"none", "queued", "posting"}]
         /\ ahead' \in [Keys -> SUBSET Keys]
         /\ tries' \in [Keys -> Nat]
         /\ wait' \in [Keys -> Nat]
         /\ record' \in [Keys -> Records]
         /\ said' \in [Keys -> Nat]
         /\ Pending' = Pending \ S
<1> USE DEF IndInv
<1>1. /\ state' \in [Keys -> {"none", "queued", "posting"}]
      /\ ahead' \in [Keys -> SUBSET Keys]
      /\ tries' \in [Keys -> Nat]
      /\ wait' \in [Keys -> Nat]
      /\ record' \in [Keys -> Records]
      /\ said' \in [Keys -> Nat]
  BY InboundAssumption DEF TypeOK, settleInbound, Records
<1>2. Pending' = Pending \ S
  BY DEF Pending, settleInbound
<1>3. Queue'
  <2>1. \A k \in Keys : ahead'[k] \subseteq Pending' \ {k}
    BY <1>2 DEF Queue, settleInbound
  <2>2. \A k \in Keys : state'[k] = "none" => ahead'[k] = {}
    BY DEF Queue, settleInbound
  <2>3. \A j, k \in Pending' : j = k \/ j \in ahead'[k] \/ k \in ahead'[j]
    BY <1>2 DEF Queue, settleInbound, Pending
  <2>4. \A j, k \in Keys : j \in ahead'[k] => age'[k] <= age'[j]
    BY DEF Queue, settleInbound
  <2> QED BY <2>1, <2>2, <2>3, <2>4 DEF Queue
<1>4. Held'
  <2> SUFFICES ASSUME NEW k \in Keys
               PROVE  /\ record'[k] # "none" => state'[k] = "none"
                      /\ record'[k] = "none" /\ state'[k] \in {"none", "queued"} => said'[k] = 0
    BY DEF Held
  <2>1. CASE k \in S
    BY <2>1 DEF Held, settleInbound, Pending, TypeOK
  <2>2. CASE k \notin S
    BY <2>2 DEF Held, settleInbound
  <2> QED BY <2>1, <2>2
<1>5. SaidOnce'
  BY DEF SaidOnce, settleInbound, TypeOK
<1> QED BY <1>1, <1>2, <1>3, <1>4, <1>5

(* The order and the keys after a push is accepted. *)
LEMMA AcceptKeeps ==
  ASSUME IndInv, NEW k \in Keys, acceptInbound(k), ~seenBefore(k), said' = said
  PROVE  /\ Queue' /\ Held' /\ SaidOnce'
         /\ Pending' = Pending \cup {k}
         /\ \A j \in Pending : /\ nextPendingInbound(j) => nextPendingInbound(j)'
                               /\ state'[j] = state[j] /\ wait'[j] = wait[j]
<1> USE DEF IndInv
<1>1. k \notin Pending /\ state[k] = "none" /\ record[k] = "none"
  BY DEF seenBefore, Pending
<1>2. /\ \A j \in Keys : j # k => /\ state'[j] = state[j] /\ ahead'[j] = ahead[j]
                                  /\ age'[j] = age[j] /\ wait'[j] = wait[j]
      /\ state'[k] = "queued" /\ ahead'[k] = Pending /\ age'[k] = 0
      /\ record' = record
  BY DEF TypeOK, acceptInbound
<1>3. Pending' = Pending \cup {k}
  BY <1>1, <1>2 DEF Pending
<1>4. Queue'
  <2>1. \A j \in Keys : ahead'[j] \subseteq Pending' \ {j}
    BY <1>1, <1>2, <1>3 DEF Queue
  <2>2. \A j \in Keys : state'[j] = "none" => ahead'[j] = {}
    BY <1>2 DEF Queue
  <2>3. \A i, j \in Pending' : i = j \/ i \in ahead'[j] \/ j \in ahead'[i]
    BY <1>1, <1>2, <1>3 DEF Queue, Pending
  <2>4. \A i, j \in Keys : i \in ahead'[j] => age'[j] <= age'[i]
    <3> SUFFICES ASSUME NEW i \in Keys, NEW j \in Keys, i \in ahead'[j]
                 PROVE  age'[j] <= age'[i]
      OBVIOUS
    <3>1. age[i] \in Nat /\ age[j] \in Nat
      BY InboundAssumption DEF TypeOK
    <3>2. CASE j = k
      BY <1>1, <1>2, <3>1, <3>2
    <3>3. CASE j # k
      <4>1. i # k
        BY <1>1, <1>2, <3>3 DEF Queue
      <4> QED BY <1>2, <3>3, <4>1 DEF Queue
    <3> QED BY <3>2, <3>3
  <2> QED BY <2>1, <2>2, <2>3, <2>4 DEF Queue
<1>5. Held'
  BY <1>1, <1>2 DEF Held
<1>6. SaidOnce'
  BY DEF SaidOnce
<1>7. \A j \in Pending : /\ nextPendingInbound(j) => nextPendingInbound(j)'
                         /\ state'[j] = state[j] /\ wait'[j] = wait[j]
  BY <1>1, <1>2, <1>3 DEF nextPendingInbound, Pending
<1> QED BY <1>3, <1>4, <1>5, <1>6, <1>7

(* A request checked, or refused, changes nothing the invariant is about.  *)
LEMMA HookChecksKeeps ==
  ASSUME IndInv, NEW k \in Keys, HookChecks(k) \/ HookRefuses(k)
  PROVE  IndInv'
<1>0. /\ UNCHANGED <<rows, age, record, said, pc, alarm, hold, unwoken, lifted, mount>>
      /\ stamped' \subseteq Keys
  BY DEF HookChecks, HookRefuses, IndInv, TypeOK
<1>1. TypeOK'
  BY <1>0 DEF IndInv, TypeOK, rows
<1>2. HasAlarm'
  BY <1>0, RowsAlone DEF IndInv, HasAlarm, rows
<1>3. AtWork'
  BY <1>0, RowsAlone DEF IndInv, AtWork, rows
<1> QED BY <1>0, <1>1, <1>2, <1>3, RowsAlone DEF IndInv

(* A push taken, queued behind the others or left to its plugin. *)
LEMMA HookTakesKeeps ==
  ASSUME IndInv, NEW k \in Keys, HookTakes(k)
  PROVE  IndInv'
<1> USE DEF IndInv
<1>1. TypeOK'
  <2>1. /\ record' \in [Keys -> Records] /\ age' \in [Keys -> 0..DedupeTicks]
        /\ state' \in [Keys -> {"none", "queued", "posting"}]
        /\ ahead' \in [Keys -> SUBSET Keys]
        /\ tries' \in [Keys -> Nat] /\ wait' \in [Keys -> Nat]
    <3>1. CASE acceptInbound(k)
      BY <3>1, InboundAssumption DEF acceptInbound, TypeOK, Pending
    <3>2. CASE recordWake(k)
      BY <3>2, InboundAssumption DEF recordWake, TypeOK, Records, rows
    <3> QED BY <3>1, <3>2 DEF HookTakes
  <2> QED BY <2>1 DEF TypeOK, HookTakes
<1>2. HasAlarm'
  BY InboundAssumption DEF HasAlarm, HookTakes
<1>3. CASE acceptInbound(k)
  <2>1. Queue' /\ Held' /\ SaidOnce'
    BY <1>3, AcceptKeeps DEF HookTakes
  <2>2. AtWork'
    BY <1>3, AcceptKeeps DEF HookTakes, AtWork, nextPendingInbound
  <2> QED BY <1>1, <1>2, <2>1, <2>2
<1>4. CASE recordWake(k)
  <2>1. state[k] = "none" /\ record[k] = "none" /\ k \notin Pending
    BY DEF HookTakes, seenBefore, Pending
  <2>2. /\ UNCHANGED <<rows, said, pc>>
        /\ \A j \in Keys : j # k => age'[j] = age[j] /\ record'[j] = record[j]
        /\ record'[k] = "wake"
    BY <1>4 DEF recordWake, HookTakes, TypeOK
  <2>3. Pending' = Pending
    BY <2>2 DEF Pending, rows
  <2>4. Queue'
    BY <2>1, <2>2, <2>3 DEF Queue, rows
  <2>5. Held' /\ SaidOnce'
    BY <2>1, <2>2 DEF Held, SaidOnce, rows
  <2>6. AtWork'
    BY <2>2, <2>3 DEF AtWork, nextPendingInbound, rows
  <2> QED BY <1>1, <1>2, <2>4, <2>5, <2>6
<1> QED BY <1>3, <1>4 DEF HookTakes

(* A pass that ends, or steps that only move the alarm, the hold, the      *)
(* mount or the pass: it is enough that the types hold, that an ended pass *)
(* left an alarm, and that a pass past its look has its head.              *)
LEMMA MovesKeep ==
  ASSUME IndInv, UNCHANGED <<rows, age, record, said>>,
         stamped' \subseteq Keys,
         mount' \in {"on", "removing", "gone"},
         hold' \in Nat \cup {None}, unwoken' \in BOOLEAN, lifted' \in 0..MaxAge,
         alarm' \in Nat \cup {None},
         pc' \in {"none", "look", "claim", "post", "say", "said"},
         pc' \in {"claim", "post", "say", "said"} =>
           \/ pc' = pc
           \/ pc' = "claim" /\ \E k \in Keys : nextPendingInbound(k) /\ state[k] = "queued",
         pc' = "none" /\ Pending # {} => HasAlarm'
  PROVE  IndInv'
<1>1. TypeOK'
  BY DEF IndInv, TypeOK, rows
<1>2. HasAlarm'
  BY RowsAlone DEF HasAlarm
<1>3. AtWork'
  <2>1. CASE pc' = pc
    BY <2>1, RowsAlone DEF IndInv, AtWork, rows
  <2>2. CASE pc' = "claim" /\ \E k \in Keys : nextPendingInbound(k) /\ state[k] = "queued"
    <3>1. PICK k \in Keys : nextPendingInbound(k) /\ state[k] = "queued"
      BY <2>2
    <3>2. said[k] = 0
      BY <3>1 DEF IndInv, Held, TypeOK, Records
    <3> QED BY <2>2, <3>1, <3>2, RowsAlone DEF AtWork, rows
  <2>3. CASE pc' \notin {"claim", "post", "say", "said"}
    BY <2>3 DEF AtWork
  <2> QED BY <2>1, <2>2, <2>3
<1> QED BY <1>1, <1>2, <1>3, RowsAlone DEF IndInv

(* An alarm with nothing to do, or for a held agent. *)
LEMMA PassIdleKeeps ==
  ASSUME IndInv, PassIdle \/ PassHeld
  PROVE  IndInv'
<1>1. CASE PassIdle
  <2>1. hold' \in Nat \cup {None} /\ unwoken' \in BOOLEAN
    BY <1>1 DEF PassIdle, LiftServed, IndInv, TypeOK
  <2> QED BY <1>1, <2>1, MovesKeep DEF PassIdle, IndInv, TypeOK
<1>2. CASE PassHeld
  <2>1. HasAlarm'
    BY <1>2, InboundAssumption DEF PassHeld, importHeld, HasAlarm, IndInv, TypeOK
  <2> QED BY <1>2, <2>1, MovesKeep DEF PassHeld, IndInv, TypeOK
<1> QED BY <1>1, <1>2

(* A pass that begins gives up what is too old, and looks. *)
LEMMA PassBeginsKeeps ==
  ASSUME IndInv, PassBegins
  PROVE  IndInv'
<1> DEFINE S == expiredPendingInbound(lifted')
<1>1. S \in SUBSET Pending
  BY DEF expiredPendingInbound
<1>2. settleInbound(S, "failed") /\ age' = age
  BY DEF PassBegins
<1> HIDE DEF S
<1>3. /\ Queue' /\ Held' /\ SaidOnce'
      /\ state' \in [Keys -> {"none", "queued", "posting"}]
      /\ ahead' \in [Keys -> SUBSET Keys]
      /\ tries' \in [Keys -> Nat]
      /\ wait' \in [Keys -> Nat]
      /\ record' \in [Keys -> Records]
      /\ said' \in [Keys -> Nat]
  BY <1>1, <1>2, SettleKeeps
<1>4. TypeOK'
  <2>1. hold' \in Nat \cup {None} /\ unwoken' \in BOOLEAN /\ alarm' \in Nat \cup {None}
    BY DEF PassBegins
  <2>2. lifted' \in 0..MaxAge
    BY InboundAssumption DEF PassBegins, IndInv, TypeOK
  <2>3. age' \in [Keys -> 0..DedupeTicks] /\ stamped' \subseteq Keys
        /\ mount' \in {"on", "removing", "gone"} /\ pc' = "look"
    BY DEF PassBegins, IndInv, TypeOK
  <2> QED BY <1>3, <2>1, <2>2, <2>3 DEF TypeOK
<1>5. HasAlarm' /\ AtWork'
  BY DEF HasAlarm, AtWork, PassBegins
<1> QED BY <1>3, <1>4, <1>5 DEF IndInv

(* The pass settles its head and looks again. *)
LEMMA SettleLooksAgain ==
  ASSUME IndInv, NEW k \in Keys, nextPendingInbound(k),
         NEW outcome \in {"delivered", "failed", "unclear", "ignored"},
         settleInbound({k}, outcome),
         outcome = "ignored" => state[k] = "queued",
         UNCHANGED <<age, stamped, mount, hold, unwoken, lifted, alarm>>, pc' = "look"
  PROVE  IndInv'
<1>1. {k} \in SUBSET Pending
  BY DEF nextPendingInbound
<1>2. /\ Queue' /\ Held' /\ SaidOnce'
      /\ state' \in [Keys -> {"none", "queued", "posting"}]
      /\ ahead' \in [Keys -> SUBSET Keys]
      /\ tries' \in [Keys -> Nat]
      /\ wait' \in [Keys -> Nat]
      /\ record' \in [Keys -> Records]
      /\ said' \in [Keys -> Nat]
  BY <1>1, SettleKeeps
<1>3. TypeOK'
  BY <1>2 DEF TypeOK, IndInv
<1>4. HasAlarm' /\ AtWork'
  BY DEF HasAlarm, AtWork
<1> QED BY <1>2, <1>3, <1>4 DEF IndInv

(* Every way a pass looks at its head. *)
LEMMA LookKeeps ==
  ASSUME IndInv, NEW k \in Keys, Look(k)
  PROVE  IndInv'
<1>1. CASE LookPosting(k) \/ LookGone(k) \/ LookStuck(k)
  BY <1>1, SettleLooksAgain DEF LookPosting, LookGone, LookStuck
<1>2. CASE LookRemoving(k)
  <2>1. alarm' \in Nat \cup {None} /\ alarm' # None /\ alarm' <= RemovingTicks
    BY <1>2, EarlierTime, InboundAssumption DEF LookRemoving, PassEnds, IndInv, TypeOK
  <2>2. HasAlarm'
    BY <2>1 DEF HasAlarm
  <2> QED BY <1>2, <2>1, <2>2, MovesKeep DEF LookRemoving, PassEnds, IndInv, TypeOK
<1>3. CASE LookWaits(k)
  <2> DEFINE old == IF age[k] < MaxAge THEN MaxAge - age[k] ELSE 0
  <2>1. wait[k] \in Nat /\ old \in Nat
    BY InboundAssumption DEF IndInv, TypeOK
  <2> HIDE DEF old
  <2>2. Earlier(wait[k], old) \in Nat /\ Earlier(wait[k], old) <= wait[k]
    BY <2>1, EarlierTime, InboundAssumption DEF Earlier
  <2>3. alarm' = Earlier(alarm, Earlier(wait[k], old))
    BY <1>3 DEF LookWaits, PassEnds, old
  <2>4. /\ alarm' \in Nat \cup {None} /\ alarm' # None
        /\ alarm' <= Earlier(wait[k], old)
    BY <2>2, <2>3, EarlierTime, InboundAssumption DEF IndInv, TypeOK
  <2>5. alarm' <= wait[k]
    BY <2>1, <2>2, <2>4
  <2>6. nextPendingInbound(k)' /\ wait' = wait
    BY <1>3, RowsAlone DEF LookWaits, rows
  <2>7. HasAlarm'
    BY <2>4, <2>5, <2>6 DEF HasAlarm
  <2> QED BY <1>3, <2>4, <2>7, MovesKeep DEF LookWaits, PassEnds, IndInv, TypeOK
<1>4. CASE LookReady(k)
  BY <1>4, MovesKeep DEF LookReady, IndInv, TypeOK
<1> QED BY <1>1, <1>2, <1>3, <1>4 DEF Look

(* A pass that ends with an empty queue, or throws. *)
LEMMA PassEndsKeeps ==
  ASSUME IndInv, LookEmpty \/ PassThrows
  PROVE  IndInv'
<1>1. CASE LookEmpty
  <2>1. alarm' \in Nat \cup {None}
    BY <1>1, EarlierTime DEF LookEmpty, PassEnds, IndInv, TypeOK
  <2> QED BY <1>1, <2>1, MovesKeep DEF LookEmpty, PassEnds, IndInv, TypeOK
<1>2. CASE PassThrows
  <2>1. alarm' \in Nat \cup {None} /\ alarm' # None /\ alarm' <= NetTicks
    BY <1>2, EarlierTime, InboundAssumption DEF PassThrows, PassEnds, IndInv, TypeOK
  <2>2. HasAlarm'
    BY <2>1 DEF HasAlarm
  <2> QED BY <1>2, <2>1, <2>2, MovesKeep DEF PassThrows, PassEnds, IndInv, TypeOK
<1> QED BY <1>1, <1>2

(* The head's row moves, and nothing else of the queue does. *)
LEMMA HeadMoves ==
  ASSUME IndInv, NEW k \in Keys, nextPendingInbound(k),
         state' \in [Keys -> {"none", "queued", "posting"}],
         \A j \in Keys : j # k => state'[j] = state[j] /\ said'[j] = said[j],
         state'[k] # "none", UNCHANGED <<ahead, age, record>>,
         said'[k] \in {0, 1}, state'[k] = "queued" => said'[k] = 0
  PROVE  /\ Queue' /\ Held' /\ SaidOnce'
         /\ nextPendingInbound(k)'
<1>1. Pending' = Pending
  BY DEF Pending, nextPendingInbound
<1>2. Queue'
  BY <1>1 DEF IndInv, Queue, nextPendingInbound
<1>3. Held'
  BY DEF IndInv, Held, nextPendingInbound, Pending
<1>4. SaidOnce'
  BY DEF IndInv, SaidOnce
<1> QED BY <1>1, <1>2, <1>3, <1>4 DEF nextPendingInbound

(* The head as the pass left it before its last await. *)
LEMMA HeadStands ==
  ASSUME IndInv, NEW k \in Keys, nextPendingInbound(k),
         pc \in {"claim", "post", "say", "said"}
  PROVE  /\ state[k] = IF pc \in {"claim", "post"} THEN "queued" ELSE "posting"
         /\ said[k] = IF pc = "said" THEN 1 ELSE 0
<1>1. PICK j \in Keys :
        /\ nextPendingInbound(j)
        /\ state[j] = IF pc \in {"claim", "post"} THEN "queued" ELSE "posting"
        /\ said[j] = IF pc = "said" THEN 1 ELSE 0
  BY DEF IndInv, AtWork
<1>2. j = k
  BY <1>1, OneHead DEF IndInv
<1> QED BY <1>1, <1>2

(* Every step of a post. *)
LEMMA PostKeeps ==
  ASSUME IndInv, NEW k \in Keys, Post(k)
  PROVE  IndInv'
<1>1. CASE Claim(k)
  <2>0. tries[k] \in Nat /\ PostAttempts \in Nat \ {0}
    BY InboundAssumption DEF IndInv, TypeOK
  <2>1. TypeOK'
    <3>1. tries' \in [Keys -> Nat]
      BY <1>1, <2>0 DEF Claim, IndInv, TypeOK
    <3>2. RetryTicks[IF tries[k] < PostAttempts THEN tries[k] ELSE PostAttempts - 1] \in Nat
      BY <2>0, InboundAssumption
    <3>3. wait' \in [Keys -> Nat]
      BY <1>1, <3>2 DEF Claim, IndInv, TypeOK
    <3> QED BY <1>1, <3>1, <3>3 DEF Claim, IndInv, TypeOK
  <2>2. nextPendingInbound(k) /\ state[k] = "queued" /\ said[k] = 0
    BY <1>1, HeadStands DEF Claim
  <2>3. Queue' /\ Held' /\ SaidOnce' /\ nextPendingInbound(k)'
    BY <1>1, <2>2, HeadMoves DEF Claim, IndInv, TypeOK
  <2>4. HasAlarm' /\ AtWork'
    BY <1>1, <2>2, <2>3 DEF Claim, HasAlarm, AtWork
  <2> QED BY <2>1, <2>3, <2>4 DEF IndInv
<1>2. CASE MarkPosting(k)
  <2>1. TypeOK'
    BY <1>2 DEF MarkPosting, IndInv, TypeOK
  <2>2. nextPendingInbound(k) /\ said[k] = 0
    BY <1>2, HeadStands DEF MarkPosting
  <2>3. state'[k] = "posting" /\ \A j \in Keys : j # k => state'[j] = state[j]
    BY <1>2 DEF MarkPosting, IndInv, TypeOK
  <2>4. Queue' /\ Held' /\ SaidOnce' /\ nextPendingInbound(k)'
    BY <1>2, <2>1, <2>2, <2>3, HeadMoves DEF MarkPosting, TypeOK
  <2>5. HasAlarm' /\ AtWork'
    BY <1>2, <2>2, <2>3, <2>4 DEF MarkPosting, HasAlarm, AtWork
  <2> QED BY <2>1, <2>4, <2>5 DEF IndInv
<1>3. CASE Say(k)
  <2>1. TypeOK'
    BY <1>3 DEF Say, IndInv, TypeOK, rows
  <2>2. nextPendingInbound(k) /\ state[k] = "posting" /\ said[k] = 0
    BY <1>3, HeadStands DEF Say
  <2>3. said'[k] = 1 /\ \A j \in Keys : j # k => said'[j] = said[j]
    BY <1>3, <2>2 DEF Say, IndInv, TypeOK
  <2>4. Queue' /\ Held' /\ SaidOnce' /\ nextPendingInbound(k)'
    BY <1>3, <2>1, <2>2, <2>3, HeadMoves DEF Say, TypeOK, rows
  <2>5. HasAlarm' /\ AtWork'
    BY <1>3, <2>2, <2>3, <2>4 DEF Say, HasAlarm, AtWork, rows
  <2> QED BY <2>1, <2>4, <2>5 DEF IndInv
<1>4. CASE Delivered(k) \/ GivesUp(k)
  BY <1>4, SettleLooksAgain DEF Delivered, GivesUp
<1>5. CASE Requeues(k)
  <2>1. nextPendingInbound(k) /\ said[k] = 0 /\ wait[k] \in Nat
    BY <1>5, HeadStands DEF Requeues, IndInv, TypeOK
  <2>2. alarm' \in Nat \cup {None} /\ alarm' # None /\ alarm' <= wait[k]
    BY <1>5, <2>1, EarlierTime, InboundAssumption DEF Requeues, PassEnds, IndInv, TypeOK
  <2>3. TypeOK'
    BY <1>5, <2>2 DEF Requeues, PassEnds, IndInv, TypeOK
  <2>4. state'[k] = "queued" /\ \A j \in Keys : j # k => state'[j] = state[j]
    BY <1>5 DEF Requeues, IndInv, TypeOK
  <2>5. Queue' /\ Held' /\ SaidOnce' /\ nextPendingInbound(k)'
    BY <1>5, <2>1, <2>3, <2>4, HeadMoves DEF Requeues, TypeOK
  <2>6. HasAlarm' /\ AtWork'
    BY <1>5, <2>2, <2>5 DEF Requeues, PassEnds, HasAlarm, AtWork
  <2> QED BY <2>3, <2>5, <2>6 DEF IndInv
<1> QED BY <1>1, <1>2, <1>3, <1>4, <1>5 DEF Post

(* The removal, the hold and whatever else wakes or stops the object.      *)
LEMMA OutsideKeeps ==
  ASSUME IndInv,
         \/ RemoveBegins \/ (\E gone \in BOOLEAN : RemoveEnds(gone))
         \/ LiftHold \/ LiftWakes \/ Wake \/ Evicted
  PROVE  IndInv'
<1>1. CASE RemoveBegins \/ \E gone \in BOOLEAN : RemoveEnds(gone)
  <2>1. UNCHANGED <<rows, age, record, said, pc, alarm, hold, unwoken, lifted, stamped>>
    BY <1>1 DEF RemoveBegins, RemoveEnds
  <2>2. mount' \in {"on", "removing", "gone"}
    BY <1>1 DEF RemoveBegins, RemoveEnds
  <2>3. HasAlarm'
    BY <2>1, RowsAlone DEF IndInv, HasAlarm, rows
  <2> QED BY <2>1, <2>2, <2>3, MovesKeep DEF IndInv, TypeOK
<1>2. CASE LiftWakes \/ Wake
  <2>1. /\ UNCHANGED <<rows, age, record, said, pc, stamped, mount, lifted>>
        /\ alarm' = 0 /\ hold' \in {None, hold} /\ unwoken' \in {FALSE, unwoken}
    BY <1>2 DEF LiftWakes, LiftServed, Wake
  <2>2. HasAlarm'
    BY <2>1, InboundAssumption DEF HasAlarm
  <2>3. /\ stamped' \subseteq Keys /\ mount' \in {"on", "removing", "gone"}
        /\ hold' \in Nat \cup {None} /\ unwoken' \in BOOLEAN /\ lifted' \in 0..MaxAge
        /\ alarm' \in Nat \cup {None}
        /\ pc' \in {"none", "look", "claim", "post", "say", "said"}
    BY <2>1, InboundAssumption DEF IndInv, TypeOK
  <2> QED BY <2>1, <2>2, <2>3, MovesKeep
<1>3. CASE Evicted
  <2>1. /\ UNCHANGED <<rows, age, record, said, hold, unwoken, lifted>>
        /\ pc' = "none" /\ stamped' = {} /\ mount' \in {"on", mount}
    BY <1>3 DEF Evicted
  <2>2. /\ alarm' \in Nat \cup {None}
        /\ pc = "none" => alarm' = alarm
        /\ pc # "none" => alarm' # None /\ alarm' <= NetTicks
    BY <1>3, EarlierTime, InboundAssumption DEF Evicted, IndInv, TypeOK
  <2>3. HasAlarm'
    <3>1. CASE pc = "none"
      BY <2>1, <2>2, <3>1, RowsAlone DEF IndInv, HasAlarm, rows
    <3>2. CASE pc # "none"
      BY <2>2, <3>2 DEF HasAlarm
    <3> QED BY <3>1, <3>2
  <2> QED BY <2>1, <2>2, <2>3, MovesKeep DEF IndInv, TypeOK
<1>4. CASE LiftHold
  <2>1. /\ UNCHANGED <<rows, age, record, said, pc, stamped, mount, hold, alarm>>
        /\ unwoken' = TRUE /\ lifted' = 0
    BY <1>4 DEF LiftHold
  <2>2. HasAlarm'
    BY <2>1, RowsAlone DEF IndInv, HasAlarm, rows
  <2>3. lifted' \in 0..MaxAge
    BY <2>1, InboundAssumption
  <2> QED BY <2>1, <2>2, <2>3, MovesKeep DEF IndInv, TypeOK
<1> QED BY <1>1, <1>2, <1>3, <1>4

(* What a tick does to each key, in the words of the invariant. *)
LEMMA TickEffect ==
  ASSUME IndInv, Tick
  PROVE  /\ TypeOK'
         /\ Pending' = Pending
         /\ \A k \in Keys :
              /\ age'[k] \in Nat /\ age[k] \in Nat
              /\ k \in Pending => age'[k] = IF age[k] < DedupeTicks THEN age[k] + 1 ELSE age[k]
              /\ record'[k] \in {record[k], "none"}
              /\ record[k] # "none" /\ record'[k] = "none" => said'[k] = 0
              /\ said'[k] \in {said[k], 0}
              /\ k \in Pending => said'[k] = said[k] /\ record'[k] = "none"
              /\ wait[k] \in Nat
              /\ wait'[k] = IF wait[k] = 0 THEN 0 ELSE wait[k] - 1
<1> USE DEF IndInv
<1>0. DedupeTicks \in Nat /\ MaxAge \in Nat /\ None \notin Nat
  BY InboundAssumption
<1>1. \A t \in Nat : Sooner(t) \in Nat /\ Sooner(t) = IF t = 0 THEN 0 ELSE t - 1
  BY <1>0 DEF Sooner
<1>2. \A t \in Nat \cup {None} : Sooner(t) \in Nat \cup {None}
  BY <1>0 DEF Sooner
<1>3. /\ age' \in [Keys -> 0..DedupeTicks]
      /\ \A k \in Keys : age[k] \in 0..DedupeTicks
  BY <1>0 DEF Tick, TypeOK
<1>4. record' \in [Keys -> Records] /\ said' \in [Keys -> Nat]
  BY DEF Tick, TypeOK, Records
<1>5. wait' \in [Keys -> Nat]
  BY <1>1 DEF Tick, TypeOK
<1>6. hold' \in Nat \cup {None} /\ alarm' \in Nat \cup {None} /\ lifted' \in 0..MaxAge
  BY <1>0, <1>2 DEF Tick, TypeOK
<1>7. TypeOK'
  BY <1>3, <1>4, <1>5, <1>6 DEF Tick, TypeOK
<1>8. Pending' = Pending
  BY DEF Tick, Pending
<1>9. ASSUME NEW k \in Keys
      PROVE  /\ age'[k] \in Nat /\ age[k] \in Nat
             /\ k \in Pending => age'[k] = IF age[k] < DedupeTicks THEN age[k] + 1 ELSE age[k]
             /\ record'[k] \in {record[k], "none"}
             /\ record[k] # "none" /\ record'[k] = "none" => said'[k] = 0
             /\ said'[k] \in {said[k], 0}
             /\ k \in Pending => said'[k] = said[k] /\ record'[k] = "none"
             /\ wait[k] \in Nat
             /\ wait'[k] = IF wait[k] = 0 THEN 0 ELSE wait[k] - 1
  <2>1. age'[k] \in Nat /\ age[k] \in Nat
    BY <1>0, <1>3
  <2>2. k \in Pending => age'[k] = IF age[k] < DedupeTicks THEN age[k] + 1 ELSE age[k]
    BY DEF Tick, seenBefore
  <2>3. /\ record'[k] = IF age'[k] >= DedupeTicks THEN "none" ELSE record[k]
        /\ said'[k] = IF age'[k] >= DedupeTicks /\ k \notin Pending THEN 0 ELSE said[k]
    BY DEF Tick
  <2>4. k \in Pending => record[k] = "none"
    BY DEF Held, Pending
  <2>5. record[k] # "none" => k \notin Pending
    BY <2>4
  <2>6. wait[k] \in Nat /\ wait'[k] = IF wait[k] = 0 THEN 0 ELSE wait[k] - 1
    BY <1>1 DEF Tick, TypeOK
  <2> QED BY <2>1, <2>2, <2>3, <2>4, <2>5, <2>6
<1> QED BY <1>7, <1>8, <1>9

(* Time passes: ages stay in the queue's order, a forgotten key was not    *)
(* given, and the alarm comes nearer with whatever it is for.              *)
LEMMA TickKeeps ==
  ASSUME IndInv, Tick
  PROVE  IndInv'
<1>0. DedupeTicks \in Nat /\ NetTicks \in Nat /\ RemovingTicks \in Nat /\ None \notin Nat
  BY InboundAssumption
<1>1. TypeOK' /\ Pending' = Pending /\ UNCHANGED <<state, ahead, pc>>
  BY TickEffect DEF Tick
<1>2. Queue'
  <2>1. \A j, k \in Keys : j \in ahead[k] => age'[k] <= age'[j]
    <3> SUFFICES ASSUME NEW j \in Keys, NEW k \in Keys, j \in ahead[k]
                 PROVE  age'[k] <= age'[j]
      OBVIOUS
    <3>1. j \in Pending /\ k \in Pending /\ age[k] <= age[j]
      BY DEF IndInv, Queue, Pending
    <3> QED BY <1>0, <3>1, TickEffect
  <2> QED BY <1>1, <2>1 DEF IndInv, Queue
<1>3. Held'
  <2> SUFFICES ASSUME NEW k \in Keys
               PROVE  /\ record'[k] # "none" => state'[k] = "none"
                      /\ record'[k] = "none" /\ state'[k] \in {"none", "queued"} => said'[k] = 0
    BY DEF Held
  <2> QED BY <1>1, TickEffect DEF IndInv, Held
<1>4. SaidOnce'
  BY TickEffect DEF IndInv, SaidOnce
<1>5. AtWork'
  <2>1. \A k \in Keys : nextPendingInbound(k)' <=> nextPendingInbound(k)
    BY <1>1 DEF nextPendingInbound
  <2>2. \A k \in Keys : nextPendingInbound(k) => said'[k] = said[k]
    BY TickEffect DEF nextPendingInbound
  <2> QED BY <1>1, <2>1, <2>2 DEF IndInv, AtWork
<1>6. HasAlarm'
  <2> SUFFICES ASSUME pc = "none", Pending # {}
               PROVE  /\ alarm' # None
                      /\ \/ hold' # None /\ alarm' <= hold'
                         \/ alarm' <= NetTicks \/ alarm' <= RemovingTicks
                         \/ \E k \in Keys : nextPendingInbound(k)' /\ alarm' <= wait'[k]
    BY <1>1 DEF HasAlarm
  <2>1. /\ alarm \in Nat
        /\ \/ hold # None /\ alarm <= hold
           \/ alarm <= NetTicks \/ alarm <= RemovingTicks
           \/ \E k \in Keys : nextPendingInbound(k) /\ alarm <= wait[k]
    BY DEF IndInv, HasAlarm, TypeOK
  <2>2. alarm' \in Nat /\ alarm' = IF alarm = 0 THEN 0 ELSE alarm - 1
    BY <1>0, <2>1 DEF Tick, Sooner
  <2>3. CASE hold # None /\ alarm <= hold
    <3>1. hold \in Nat
      BY <2>3 DEF IndInv, TypeOK
    <3>2. hold' \in Nat /\ hold' = IF hold = 0 THEN 0 ELSE hold - 1
      BY <1>0, <3>1 DEF Tick, Sooner
    <3> QED BY <1>0, <2>1, <2>2, <2>3, <3>1, <3>2
  <2>4. CASE alarm <= NetTicks \/ alarm <= RemovingTicks
    BY <1>0, <2>1, <2>2, <2>4
  <2>5. CASE \E k \in Keys : nextPendingInbound(k) /\ alarm <= wait[k]
    <3>1. PICK k \in Keys : nextPendingInbound(k) /\ alarm <= wait[k]
      BY <2>5
    <3>2. nextPendingInbound(k)'
      BY <1>1, <3>1 DEF nextPendingInbound
    <3>3. alarm' <= wait'[k]
      BY <2>1, <2>2, <3>1, TickEffect
    <3> QED BY <1>0, <2>2, <3>2, <3>3
  <2> QED BY <2>1, <2>3, <2>4, <2>5
<1> QED BY <1>1, <1>2, <1>3, <1>4, <1>5, <1>6 DEF IndInv

LEMMA InitHolds == Init => IndInv
<1> SUFFICES ASSUME Init PROVE IndInv
  OBVIOUS
<1>1. TypeOK
  <2>1. /\ state \in [Keys -> {"none", "queued", "posting"}]
        /\ ahead \in [Keys -> SUBSET Keys]
        /\ tries \in [Keys -> Nat] /\ wait \in [Keys -> Nat]
        /\ record \in [Keys -> Records] /\ said \in [Keys -> Nat]
    BY DEF Init, Records
  <2>2. age \in [Keys -> 0..DedupeTicks] /\ lifted \in 0..MaxAge
    BY InboundAssumption DEF Init
  <2>3. /\ hold \in Nat \cup {None} /\ unwoken \in BOOLEAN /\ alarm \in Nat \cup {None}
        /\ stamped \subseteq Keys /\ mount = "on" /\ pc = "none"
    BY InboundAssumption DEF Init
  <2> QED BY <2>1, <2>2, <2>3 DEF TypeOK
<1>2. SaidOnce /\ HasAlarm /\ Queue /\ Held /\ AtWork
  BY DEF Init, SaidOnce, HasAlarm, Queue, Held, AtWork, Pending
<1> QED BY <1>1, <1>2 DEF IndInv

LEMMA NextKeeps == IndInv /\ [Next]_vars => IndInv'
<1> SUFFICES ASSUME IndInv, [Next]_vars PROVE IndInv'
  OBVIOUS
<1>1. CASE Hook
  BY <1>1, HookChecksKeeps, HookTakesKeeps DEF Hook
<1>2. CASE Alarm
  BY <1>2, PassIdleKeeps, PassBeginsKeeps DEF Alarm
<1>3. CASE LookEmpty
  BY <1>3, PassEndsKeeps
<1>4. CASE \E k \in Keys : Look(k) \/ Post(k)
  BY <1>4, LookKeeps, PostKeeps
<1>5. CASE Around
  BY <1>5, OutsideKeeps, PassEndsKeeps, TickKeeps DEF Around
<1>6. CASE UNCHANGED vars
  <2>1. UNCHANGED <<rows, age, record, said, pc, alarm, hold, unwoken, lifted, mount, stamped>>
    BY <1>6 DEF vars
  <2>2. HasAlarm'
    BY <2>1, RowsAlone DEF IndInv, HasAlarm, rows
  <2> QED BY <2>1, <2>2, MovesKeep DEF IndInv, TypeOK
<1> QED BY <1>1, <1>2, <1>3, <1>4, <1>5, <1>6 DEF Next

LEMMA Invariance == Spec => []IndInv
BY InitHolds, NextKeeps, PTL DEF Spec

(* The variables of the hook, the queue and the pass keep their types. *)
THEOREM TypeCorrect == Spec => []TypeOK
<1>1. IndInv => TypeOK
  BY DEF IndInv
<1> QED BY <1>1, Invariance, PTL

(* deliverPendingInbound's promise: while its key is held, a push is given *)
(* to the agent at most once.                                              *)
THEOREM NeverTwice == Spec => []SaidOnce
<1>1. IndInv => SaidOnce
  BY DEF IndInv
<1> QED BY <1>1, Invariance, PTL

(* A queue that is not empty has an alarm that comes in time, whichever    *)
(* way the last pass ended or died.                                        *)
THEOREM NeverWithoutAlarm == Spec => []HasAlarm
<1>1. IndInv => HasAlarm
  BY DEF IndInv
<1> QED BY <1>1, Invariance, PTL

(* What was said is added to by Say alone. *)
LEMMA OnlySaySays ==
  ASSUME IndInv, [Next]_vars, NEW k \in Keys, said'[k] > said[k]
  PROVE  Say(k)
<1>0. \A j \in Keys : said[j] \in Nat /\ ~(said[j] > said[j]) /\ ~(0 > said[j])
  BY DEF IndInv, TypeOK
<1>1. ASSUME NEW S, NEW outcome, settleInbound(S, outcome) PROVE FALSE
  <2>1. said'[k] = said[k] \/ said'[k] = 0
    BY <1>1 DEF settleInbound
  <2> QED BY <1>0, <2>1
<1>2. ASSUME said' = said PROVE FALSE
  BY <1>0, <1>2
<1>3. CASE Hook \/ Alarm \/ LookEmpty \/ UNCHANGED vars
  BY <1>1, <1>2, <1>3 DEF Hook, HookChecks, HookTakes, HookRefuses, Alarm, PassIdle,
     PassHeld, PassBegins, LookEmpty, vars
<1>4. ASSUME NEW j \in Keys, Look(j) PROVE FALSE
  BY <1>1, <1>2, <1>4 DEF Look, LookPosting, LookRemoving, LookGone, LookStuck,
     LookWaits, LookReady
<1>5. ASSUME NEW j \in Keys, Post(j) PROVE Say(k)
  <2>1. CASE Say(j)
    <3>1. j = k
      BY <1>0, <2>1 DEF Say, IndInv, TypeOK
    <3> QED BY <2>1, <3>1
  <2>2. CASE Claim(j) \/ MarkPosting(j) \/ Delivered(j) \/ GivesUp(j) \/ Requeues(j)
    BY <1>1, <1>2, <2>2 DEF Claim, MarkPosting, Delivered, GivesUp, Requeues
  <2> QED BY <1>5, <2>1, <2>2 DEF Post
<1>6. CASE Around
  <2>1. CASE Tick
    BY <1>0, <2>1, TickEffect
  <2>2. CASE ~Tick
    BY <1>2, <1>6, <2>2 DEF Around, RemoveBegins, RemoveEnds, LiftHold, LiftWakes, Wake, Evicted,
       PassThrows
  <2> QED BY <2>1, <2>2
<1> QED BY <1>3, <1>4, <1>5, <1>6 DEF Next

(* The agent is given the pushes in the order they arrived. *)
THEOREM InOrder == Spec => ReadInOrder
<1>1. IndInv /\ [Next]_vars =>
        [\A k \in Keys : said'[k] > said[k] => \A j \in Pending : age[j] <= age[k]]_vars
  <2> SUFFICES ASSUME IndInv, [Next]_vars, NEW k \in Keys, said'[k] > said[k],
                      NEW j \in Pending
               PROVE  age[j] <= age[k]
    OBVIOUS
  <2>1. nextPendingInbound(k)
    BY OnlySaySays DEF Say
  <2>2. j = k \/ k \in ahead[j]
    BY <2>1 DEF IndInv, Queue, nextPendingInbound
  <2>3. j \in Keys /\ age[j] \in Nat
    BY InboundAssumption DEF Pending, IndInv, TypeOK
  <2> QED BY <2>2, <2>3 DEF IndInv, Queue
<1> QED BY <1>1, Invariance, PTL DEF Spec, ReadInOrder

(* A step that leaves the pending keys, their records and what was said    *)
(* alone is no step of Push.                                               *)
LEMMA InnerStep ==
  ASSUME Pending' = Pending, record' = record, said' = said
  PROVE  UNCHANGED stageBar
BY DEF stageBar

(* One key's stage moves. *)
LEMMA OneStage ==
  ASSUME NEW k \in Keys, NEW from, NEW to,
         stageBar[k] = from, stageBar'[k] = to,
         \A j \in Keys : j # k => stageBar'[j] = stageBar[j]
  PROVE  P!Becomes(k, from, to)
BY DEF P!Becomes, stageBar

(* Settling is Push's Close, or its Deliver for one that was read. *)
LEMMA SettleStep ==
  ASSUME IndInv, NEW S \in SUBSET Pending,
         NEW outcome \in {"delivered", "failed", "unclear", "ignored"},
         settleInbound(S, outcome), age' = age,
         outcome = "ignored" => \A k \in S : state[k] = "queued",
         outcome = "delivered" => \E k \in Keys : S = {k} /\ said[k] = 1
  PROVE  P!PushNext
<1>1. Pending' = Pending \ S
  BY SettleKeeps
<1>2. \A k \in Keys \ S : stageBar'[k] = stageBar[k]
  BY <1>1 DEF stageBar, settleInbound
<1>3. \A k \in S : /\ k \in Keys
                   /\ stageBar[k] \in {"accepted", "read"}
                   /\ stageBar'[k] = record'[k]
  BY <1>1 DEF stageBar, Pending
<1>4. CASE outcome # "delivered" \/ \E k \in S : age[k] >= DedupeTicks
  <2>1. \A k \in S : record'[k] \in {"failed", "unclear", "none"}
    BY <1>4 DEF settleInbound, Pending
  <2> DEFINE to == [k \in S |-> record'[k]]
  <2>2. to \in [S -> {"failed", "unclear", "none"}]
    BY <2>1
  <2>3. stageBar' = [k \in Keys |-> IF k \in S THEN to[k] ELSE stageBar[k]]
    BY <1>2, <1>3 DEF stageBar
  <2>4. P!Close(S)
    BY <1>3, <2>2, <2>3 DEF P!Close, P!Open
  <2> QED BY <2>4 DEF P!PushNext, Pending
<1>5. CASE outcome = "delivered" /\ \A k \in S : ~(age[k] >= DedupeTicks)
  <2>1. PICK k \in Keys : S = {k} /\ said[k] = 1
    BY <1>5
  <2>2. stageBar[k] = "read" /\ stageBar'[k] = "delivered"
    BY <1>3, <1>5, <2>1 DEF stageBar, settleInbound
  <2>3. P!Deliver(k)
    BY <1>2, <2>1, <2>2, OneStage DEF P!Deliver
  <2> QED BY <2>3 DEF P!PushNext
<1> QED BY <1>4, <1>5

(* Every step of Inbound is a step of Push, or none. *)
LEMMA PushStep == IndInv /\ [Next]_vars => [P!PushNext]_stageBar
<1> SUFFICES ASSUME IndInv, [Next]_vars PROVE [P!PushNext]_stageBar
  OBVIOUS
<1>1. ASSUME NEW k \in Keys, HookTakes(k) PROVE P!PushNext
  <2>1. k \notin Pending /\ record[k] = "none" /\ said[k] = 0
    BY <1>1 DEF HookTakes, seenBefore, IndInv, Held, Pending
  <2>2. stageBar[k] = "none"
    BY <2>1 DEF stageBar
  <2>3. CASE acceptInbound(k)
    <3>1. Pending' = Pending \cup {k} /\ record' = record /\ said' = said
      BY <1>1, <2>3, AcceptKeeps DEF HookTakes, acceptInbound
    <3>2. /\ stageBar'[k] = "accepted"
          /\ \A j \in Keys : j # k => stageBar'[j] = stageBar[j]
      BY <2>1, <3>1 DEF stageBar
    <3>3. P!Accept(k)
      BY <2>2, <3>2, OneStage DEF P!Accept
    <3> QED BY <3>3 DEF P!PushNext
  <2>4. CASE recordWake(k)
    <3>1. Pending' = Pending /\ said' = said
      BY <1>1, <2>4 DEF HookTakes, recordWake, Pending, rows
    <3>2. record'[k] = "wake" /\ \A j \in Keys : j # k => record'[j] = record[j]
      BY <2>4 DEF recordWake, IndInv, TypeOK
    <3>3. /\ stageBar'[k] = "wake"
          /\ \A j \in Keys : j # k => stageBar'[j] = stageBar[j]
      BY <2>1, <3>1, <3>2 DEF stageBar
    <3>4. P!Accept(k)
      BY <2>2, <3>3, OneStage DEF P!Accept
    <3> QED BY <3>4 DEF P!PushNext
  <2> QED BY <1>1, <2>3, <2>4 DEF HookTakes
<1>2. ASSUME PassBegins PROVE P!PushNext
  <2> DEFINE S == expiredPendingInbound(lifted')
  <2>1. S \in SUBSET Pending /\ settleInbound(S, "failed") /\ age' = age
    BY <1>2 DEF PassBegins, expiredPendingInbound
  <2> HIDE DEF S
  <2> QED BY <2>1, SettleStep
<1>3. ASSUME NEW k \in Keys, LookPosting(k) \/ LookGone(k) \/ LookStuck(k) \/ GivesUp(k)
      PROVE  P!PushNext
  <2>1. {k} \in SUBSET Pending /\ age' = age
    BY <1>3 DEF LookPosting, LookGone, LookStuck, GivesUp, nextPendingInbound
  <2>2. PICK outcome \in {"failed", "unclear", "ignored"} :
          settleInbound({k}, outcome) /\ (outcome = "ignored" => state[k] = "queued")
    BY <1>3 DEF LookPosting, LookGone, LookStuck, GivesUp
  <2> QED BY <2>1, <2>2, SettleStep
<1>4. ASSUME NEW k \in Keys, Delivered(k) PROVE P!PushNext
  <2>1. {k} \in SUBSET Pending /\ age' = age /\ settleInbound({k}, "delivered")
    BY <1>4 DEF Delivered, nextPendingInbound
  <2>2. said[k] = 1
    BY <1>4, HeadStands DEF Delivered
  <2> QED BY <2>1, <2>2, SettleStep
<1>5. ASSUME NEW k \in Keys, Say(k) PROVE P!PushNext
  <2>1. k \in Pending /\ said[k] = 0
    BY <1>5, HeadStands DEF Say, nextPendingInbound
  <2>2. Pending' = Pending /\ record' = record
    BY <1>5 DEF Say, Pending, rows
  <2>3. said'[k] = 1 /\ \A j \in Keys : j # k => said'[j] = said[j]
    BY <1>5, <2>1 DEF Say, IndInv, TypeOK
  <2>4. /\ stageBar[k] = "accepted" /\ stageBar'[k] = "read"
        /\ \A j \in Keys : j # k => stageBar'[j] = stageBar[j]
    BY <2>1, <2>2, <2>3 DEF stageBar
  <2>5. P!Read(k)
    BY <2>4, OneStage DEF P!Read
  <2> QED BY <2>5 DEF P!PushNext
<1>6. ASSUME Tick PROVE P!PushNext
  <2> DEFINE S == {k \in Keys : k \notin Pending /\ record'[k] = "none"}
  <2>1. Pending' = Pending
    BY <1>6, TickEffect
  <2>2. \A k \in Keys : k \notin Pending => stageBar[k] = record[k] /\ stageBar'[k] = record'[k]
    BY <2>1 DEF stageBar
  <2>3. \A k \in Keys : k \in Pending => stageBar'[k] = stageBar[k]
    BY <1>6, <2>1, TickEffect DEF stageBar
  <2>4. \A k \in Keys : record[k] \in Records
    BY DEF IndInv, TypeOK
  <2>5. \A k \in S : stageBar[k] \in P!Ends
    BY <2>2, <2>4 DEF P!Ends, Records
  <2>6. \A k \in Keys : stageBar'[k] = IF k \in S THEN "none" ELSE stageBar[k]
    BY <1>6, <2>2, <2>3, TickEffect
  <2>7. stageBar' = [k \in Keys |-> IF k \in S THEN "none" ELSE stageBar[k]]
    BY <2>6 DEF stageBar
  <2>8. P!Forget(S)
    BY <2>5, <2>7 DEF P!Forget
  <2> QED BY <2>8 DEF P!PushNext
<1>7. ASSUME NEW k \in Keys,
             \/ HookChecks(k) \/ HookRefuses(k) \/ LookRemoving(k) \/ LookWaits(k)
             \/ LookReady(k) \/ Claim(k)
      PROVE  UNCHANGED stageBar
  BY <1>7, InnerStep DEF HookChecks, HookRefuses, LookRemoving, LookWaits, LookReady, Claim,
     Pending, rows
<1>8. ASSUME NEW k \in Keys, MarkPosting(k) \/ Requeues(k) PROVE UNCHANGED stageBar
  <2>1. Pending' = Pending
    BY <1>8 DEF MarkPosting, Requeues, nextPendingInbound, Pending, IndInv, TypeOK
  <2> QED BY <1>8, <2>1, InnerStep DEF MarkPosting, Requeues
<1>9. ASSUME \/ PassIdle \/ PassHeld \/ LookEmpty \/ RemoveBegins
             \/ (\E gone \in BOOLEAN : RemoveEnds(gone))
             \/ LiftHold \/ LiftWakes \/ Wake \/ Evicted \/ PassThrows \/ UNCHANGED vars
      PROVE  UNCHANGED stageBar
  <2>1. UNCHANGED <<rows, record, said>>
    BY <1>9 DEF PassIdle, PassHeld, LookEmpty, RemoveBegins, RemoveEnds, LiftHold, LiftWakes,
       Wake, Evicted, PassThrows, vars
  <2> QED BY <2>1, InnerStep DEF Pending, rows
<1> QED
  BY <1>1, <1>2, <1>3, <1>4, <1>5, <1>6, <1>7, <1>8, <1>9
  DEF Next, Hook, Alarm, Look, Post, Around

(* The hook, the queue and the pass implement Push, for any number of      *)
(* pushes and any limits.                                                  *)
THEOREM Refinement == Spec => ImplementsPush
<1>1. Init => P!PushInit
  BY DEF Init, P!PushInit, stageBar, Pending
<1> QED BY <1>1, PushStep, Invariance, PTL DEF Spec, ImplementsPush, P!PushSpec
-----------------------------------------------------------------------------
(* The queue's limits, its head, and what is settled *)

(* Keys accepted within the last minute. *)
Recent == {k \in Keys : seenBefore(k) /\ age[k] < MinuteTicks}

(* The queue is one line: who is ahead of a row's forerunner is ahead of   *)
(* the row too.                                                            *)
Line == \A k \in Keys : \A j \in ahead[k] : ahead[j] \subseteq ahead[k]

(* INBOUND_QUEUE_MAX and INBOUND_PER_MINUTE, which receiveHook tests for   *)
(* one request at a time, bound the rows and the minute's pushes, however  *)
(* many requests are past the mount's check together.                      *)
WithinLimits ==
  /\ IsFiniteSet(Pending) /\ Cardinality(Pending) <= QueueMax
  /\ IsFiniteSet(Recent) /\ Cardinality(Recent) <= PerMinute

(* A queue that is not empty has one head, which is what the pass looks    *)
(* for: it never goes idle over rows that wait for each other.             *)
QueueHasHead ==
  Pending # {} => \E k \in Keys : /\ nextPendingInbound(k)
                                  /\ \A j \in Keys : nextPendingInbound(j) => j = k

(* A record holds its key until its window has run from the arrival; it is *)
(* never overwritten, not even by another end of the same push.            *)
RecordStands ==
  \A k \in Keys : record[k] # "none" =>
    \/ record'[k] = record[k] /\ age'[k] >= age[k]
    \/ record'[k] = "none" /\ age'[k] >= DedupeTicks

LimInv == IndInv /\ Line /\ WithinLimits

(* A set that only loses members stays within its bound. *)
LEMMA Fewer ==
  ASSUME NEW S, NEW T, NEW n \in Nat, IsFiniteSet(S), Cardinality(S) <= n, T \subseteq S
  PROVE  IsFiniteSet(T) /\ Cardinality(T) <= n
<1>1. IsFiniteSet(T) /\ Cardinality(T) <= Cardinality(S)
  BY FS_Subset
<1>2. Cardinality(S) \in Nat /\ Cardinality(T) \in Nat
  BY <1>1, FS_CardinalityType
<1> QED BY <1>1, <1>2

(* A set below its bound may gain one. *)
LEMMA OneMore ==
  ASSUME NEW S, NEW T, NEW n \in Nat, NEW x,
         IsFiniteSet(S), Cardinality(S) < n, T \subseteq S \cup {x}
  PROVE  IsFiniteSet(T) /\ Cardinality(T) <= n
<1>1. /\ IsFiniteSet(S \cup {x})
      /\ Cardinality(S \cup {x}) = IF x \in S THEN Cardinality(S) ELSE Cardinality(S) + 1
  BY FS_AddElement
<1>2. Cardinality(S) \in Nat
  BY FS_CardinalityType
<1>3. Cardinality(S \cup {x}) <= n
  BY <1>1, <1>2
<1> QED BY <1>1, <1>3, Fewer

(* The steps, by what they do to the rows and the records. *)
LEMMA RowMoves ==
  ASSUME IndInv, [Next]_vars
  PROVE  \/ UNCHANGED <<ahead, age, record>> /\ Pending' = Pending
         \/ \E k \in Keys : HookTakes(k)
         \/ /\ age' = age
            /\ \E S \in SUBSET Pending :
                 \E outcome \in {"delivered", "failed", "unclear", "ignored"} :
                   settleInbound(S, outcome)
         \/ Tick
<1> DEFINE Alone == UNCHANGED <<ahead, age, record>> /\ Pending' = Pending
           Settles == /\ age' = age
                      /\ \E S \in SUBSET Pending :
                           \E outcome \in {"delivered", "failed", "unclear", "ignored"} :
                             settleInbound(S, outcome)
<1>1. ASSUME PassBegins PROVE Settles
  <2> DEFINE S == expiredPendingInbound(lifted')
  <2>1. S \in SUBSET Pending /\ settleInbound(S, "failed") /\ age' = age
    BY <1>1 DEF PassBegins, expiredPendingInbound
  <2> HIDE DEF S
  <2> QED BY <2>1
<1>2. ASSUME NEW k \in Keys,
             LookPosting(k) \/ LookGone(k) \/ LookStuck(k) \/ GivesUp(k) \/ Delivered(k)
      PROVE  Settles
  <2>1. {k} \in SUBSET Pending /\ age' = age
    BY <1>2 DEF LookPosting, LookGone, LookStuck, GivesUp, Delivered, nextPendingInbound
  <2>2. PICK outcome \in {"delivered", "failed", "unclear", "ignored"} :
          settleInbound({k}, outcome)
    BY <1>2 DEF LookPosting, LookGone, LookStuck, GivesUp, Delivered
  <2> QED BY <2>1, <2>2
<1>3. ASSUME NEW k \in Keys,
             \/ HookChecks(k) \/ HookRefuses(k) \/ LookRemoving(k) \/ LookWaits(k)
             \/ LookReady(k) \/ Claim(k) \/ Say(k)
      PROVE  Alone
  BY <1>3 DEF HookChecks, HookRefuses, LookRemoving, LookWaits, LookReady, Claim, Say,
     Pending, rows
<1>4. ASSUME NEW k \in Keys, MarkPosting(k) \/ Requeues(k) PROVE Alone
  BY <1>4 DEF MarkPosting, Requeues, nextPendingInbound, Pending, IndInv, TypeOK
<1>5. ASSUME \/ PassIdle \/ PassHeld \/ LookEmpty \/ RemoveBegins
             \/ (\E gone \in BOOLEAN : RemoveEnds(gone))
             \/ LiftHold \/ LiftWakes \/ Wake \/ Evicted \/ PassThrows \/ UNCHANGED vars
      PROVE  Alone
  BY <1>5 DEF PassIdle, PassHeld, LookEmpty, RemoveBegins, RemoveEnds, LiftHold, LiftWakes, Wake,
     Evicted, PassThrows, vars, rows, Pending
<1> QED
  BY <1>1, <1>2, <1>3, <1>4, <1>5
  DEF Next, Hook, Alarm, Look, Post, Around

LEMMA LimKeeps == LimInv /\ [Next]_vars => LimInv'
<1> SUFFICES ASSUME LimInv, [Next]_vars PROVE LimInv'
  OBVIOUS
<1> USE DEF LimInv
<1>0. IndInv'
  BY NextKeeps
<1>1. QueueMax \in Nat /\ PerMinute \in Nat /\ MinuteTicks \in Nat /\ DedupeTicks \in Nat
  BY InboundAssumption
<1>2. \A k \in Keys : age[k] \in Nat
  BY <1>1 DEF IndInv, TypeOK
<1>ahead. \A k \in Keys : ahead[k] \subseteq Pending /\ ahead[k] \subseteq Keys
  BY DEF IndInv, Queue, Pending
<1>3. CASE UNCHANGED <<ahead, age, record>> /\ Pending' = Pending
  <2>1. Recent' = Recent
    BY <1>3 DEF Recent, seenBefore
  <2> QED BY <1>0, <1>3, <2>1 DEF Line, WithinLimits
<1>4. ASSUME NEW k \in Keys, HookTakes(k) PROVE LimInv'
  <2>1. k \notin Pending /\ Cardinality(Pending) < QueueMax /\ Cardinality(Recent) < PerMinute
    <3>1. Cardinality(Pending) \in Nat
      BY FS_CardinalityType DEF WithinLimits
    <3> QED BY <1>1, <1>4, <3>1 DEF HookTakes, seenBefore, queueFull, underRate, Recent
  <2>2. Recent' \subseteq Recent \cup {k} /\ Pending' \subseteq Pending \cup {k} /\ Line'
    <3>1. CASE acceptInbound(k)
      <4>1. Pending' = Pending \cup {k}
        BY <1>4, <3>1, AcceptKeeps DEF HookTakes
      <4>2. /\ \A j \in Keys : j # k => age'[j] = age[j] /\ ahead'[j] = ahead[j]
            /\ record' = record /\ ahead'[k] = Pending
        BY <3>1 DEF acceptInbound, IndInv, TypeOK
      <4>3. Recent' \subseteq Recent \cup {k}
        BY <4>1, <4>2 DEF Recent, seenBefore
      <4>4. Line'
        <5> SUFFICES ASSUME NEW i \in Keys, NEW j \in ahead'[i]
                     PROVE  ahead'[j] \subseteq ahead'[i]
          BY DEF Line
        <5>1. j \in Pending /\ j # k /\ j \in Keys
          BY <1>ahead, <2>1, <4>2 DEF Pending
        <5>2. ahead'[j] = ahead[j] /\ ahead[j] \subseteq Pending
          BY <1>ahead, <4>2, <5>1
        <5>3. CASE i = k
          BY <4>2, <5>2, <5>3
        <5>4. CASE i # k
          BY <4>2, <5>2, <5>4 DEF Line
        <5> QED BY <5>3, <5>4
      <4> QED BY <4>1, <4>3, <4>4
    <3>2. CASE recordWake(k)
      <4>1. Pending' = Pending /\ ahead' = ahead
        BY <3>2 DEF recordWake, Pending, rows
      <4>2. \A j \in Keys : j # k => age'[j] = age[j] /\ record'[j] = record[j]
        BY <3>2 DEF recordWake, IndInv, TypeOK
      <4>3. Recent' \subseteq Recent \cup {k}
        BY <4>1, <4>2 DEF Recent, seenBefore
      <4> QED BY <4>1, <4>3 DEF Line
    <3> QED BY <1>4, <3>1, <3>2 DEF HookTakes
  <2>3. IsFiniteSet(Pending') /\ Cardinality(Pending') <= QueueMax
    BY <1>1, <2>1, <2>2, OneMore DEF WithinLimits
  <2>4. IsFiniteSet(Recent') /\ Cardinality(Recent') <= PerMinute
    BY <1>1, <2>1, <2>2, OneMore DEF WithinLimits
  <2> QED BY <1>0, <2>2, <2>3, <2>4 DEF WithinLimits
<1>5. ASSUME Pending' \subseteq Pending, Recent' \subseteq Recent PROVE WithinLimits'
  BY <1>1, <1>5, Fewer DEF WithinLimits
<1>6. ASSUME age' = age, NEW S \in SUBSET Pending,
             NEW outcome \in {"delivered", "failed", "unclear", "ignored"},
             settleInbound(S, outcome)
      PROVE  LimInv'
  <2>1. Pending' = Pending \ S
    BY <1>6 DEF Pending, settleInbound
  <2>2. Recent' \subseteq Recent
    BY <1>6, <2>1 DEF Recent, seenBefore, settleInbound
  <2>3. Line'
    <3> SUFFICES ASSUME NEW i \in Keys, NEW j \in ahead'[i]
                 PROVE  ahead'[j] \subseteq ahead'[i]
      BY DEF Line
    <3>1. \A k \in Keys : ahead'[k] = IF k \in S THEN {} ELSE ahead[k] \ S
      BY <1>6 DEF settleInbound
    <3>2. i \notin S /\ j \in ahead[i] /\ j \notin S /\ j \in Keys
      BY <1>ahead, <3>1
    <3> QED BY <3>1, <3>2 DEF Line
  <2> QED BY <1>0, <1>5, <2>1, <2>2, <2>3
<1>7. CASE Tick
  <2>1. Pending' = Pending /\ ahead' = ahead
    BY <1>7, TickEffect DEF Tick
  <2>2. \A k \in Keys : /\ age'[k] \in Nat /\ age'[k] >= age[k]
                        /\ record'[k] # "none" => record[k] # "none"
    BY <1>1, <1>2, <1>7, TickEffect DEF Tick
  <2>3. Recent' \subseteq Recent
    BY <1>1, <1>2, <2>1, <2>2 DEF Recent, seenBefore
  <2> QED BY <1>0, <1>5, <2>1, <2>3 DEF Line
<1> QED BY <1>3, <1>4, <1>6, <1>7, RowMoves

LEMMA Limiting == Spec => []LimInv
<1>1. Init => LimInv
  <2> SUFFICES ASSUME Init PROVE LimInv
    OBVIOUS
  <2>1. Pending = {} /\ Recent = {} /\ Line
    BY DEF Init, Pending, Recent, seenBefore, Line
  <2> QED BY <2>1, InitHolds, FS_EmptySet, InboundAssumption DEF LimInv, WithinLimits
<1> QED BY <1>1, LimKeeps, PTL DEF Spec

(* However many requests race past receiveHook's awaits, the queue never   *)
(* holds more than INBOUND_QUEUE_MAX rows and no minute sees more than     *)
(* INBOUND_PER_MINUTE pushes accepted.                                     *)
THEOREM Bounded == Spec => []WithinLimits
<1>1. LimInv => WithinLimits
  BY DEF LimInv
<1> QED BY <1>1, Limiting, PTL

(* A line of finitely many rows has a first. *)
LEMMA FirstInLine ==
  ASSUME LimInv, Pending # {}
  PROVE  \E k \in Keys : nextPendingInbound(k)
<1> DEFINE T == {ahead[k] : k \in Pending}
           R == StrictSubsetOrdering(Pending)
<1>1. \A k \in Pending : k \in Keys /\ ahead[k] \subseteq Pending \ {k}
  BY DEF LimInv, IndInv, Queue, Pending
<1>2. T \subseteq FiniteSubsetsOf(Pending)
  <2>1. \A k \in Pending : ahead[k] \in SUBSET Pending
    BY <1>1
  <2>2. \A U \in SUBSET Pending : IsFiniteSet(U)
    BY FS_Subset DEF LimInv, WithinLimits
  <2> QED BY <2>1, <2>2 DEF FiniteSubsetsOf
<1>3. IsWellFoundedOn(R, FiniteSubsetsOf(Pending))
  BY FS_StrictSubsetOrderingWellFounded
<1>4. PICK U \in T : \A V \in T : ~(<<V, U>> \in R)
  <2>1. T # {}
    OBVIOUS
  <2> HIDE DEF T, R
  <2> QED BY <1>2, <1>3, <2>1, WFMin
<1>5. PICK k \in Pending : U = ahead[k]
  OBVIOUS
<1>6. ahead[k] = {}
  <2> SUFFICES ASSUME NEW j \in ahead[k] PROVE FALSE
    OBVIOUS
  <2>1. j \in Pending /\ ahead[j] \subseteq ahead[k] /\ j \notin ahead[j]
    BY <1>1 DEF LimInv, Line
  <2>2. ahead[j] \in T /\ <<ahead[j], ahead[k]>> \in R
    BY <1>1, <2>1 DEF StrictSubsetOrdering
  <2> QED BY <1>4, <1>5, <2>2
<1> QED BY <1>1, <1>6 DEF nextPendingInbound

(* The pass that looks at a queue with rows always finds the one to serve: *)
(* what the settling of every push rests on, whatever was given up,        *)
(* accepted or retried around it.                                          *)
THEOREM AlwaysAHead == Spec => []QueueHasHead
<1>1. LimInv => QueueHasHead
  BY FirstInLine, OneHead DEF QueueHasHead, LimInv, IndInv
<1> QED BY <1>1, Limiting, PTL

(* settleInbound's record is final: a redelivery of the service, a late    *)
(* request past the check or another pass never replaces it, and it goes   *)
(* only when INBOUND_DEDUPE_MS have passed since the push arrived.         *)
THEOREM RecordsFinal == Spec => [][RecordStands]_vars
<1>1. IndInv /\ [Next]_vars => [RecordStands]_vars
  <2> SUFFICES ASSUME IndInv, [Next]_vars, NEW k \in Keys, record[k] # "none"
               PROVE  \/ record'[k] = record[k] /\ age'[k] >= age[k]
                      \/ record'[k] = "none" /\ age'[k] >= DedupeTicks
    BY DEF RecordStands
  <2>0. age[k] \in Nat /\ age[k] >= age[k] /\ k \notin Pending
    BY InboundAssumption DEF IndInv, TypeOK, Held, Pending
  <2>1. CASE UNCHANGED <<ahead, age, record>>
    BY <2>0, <2>1
  <2>2. ASSUME NEW j \in Keys, HookTakes(j)
        PROVE  record'[k] = record[k] /\ age'[k] = age[k]
    <3>1. j # k
      BY <2>2 DEF HookTakes, seenBefore
    <3> QED BY <2>2, <3>1 DEF HookTakes, acceptInbound, recordWake, IndInv, TypeOK
  <2>3. ASSUME age' = age, NEW S \in SUBSET Pending, NEW outcome, settleInbound(S, outcome)
        PROVE  record'[k] = record[k] /\ age'[k] = age[k]
    BY <2>0, <2>3 DEF settleInbound
  <2>4. CASE Tick
    BY <2>0, <2>4, InboundAssumption DEF Tick
  <2> QED BY <2>0, <2>1, <2>2, <2>3, <2>4, RowMoves
<1> QED BY <1>1, Invariance, PTL DEF Spec
=============================================================================
