-------------------------- MODULE ModelJobsProofs --------------------------
(***************************************************************************)
(* Proofs about ModelJobs, for every set of jobs and attempts and every    *)
(* choice of the intervals that JobsAssumption allows.                     *)
(*                                                                         *)
(* The safety properties are not inductive by themselves. AtMostOneCall    *)
(* needs that an attempt counts the same hold as the row it took (HoldInv),*)
(* OneTakerInHold also that a job answered in time is taken by nobody else *)
(* (DeliveryInv) nor answered by another in time (DeliveredInHold), and    *)
(* MeteredOnce that an attempt still running has been metered for its own  *)
(* job only (MeterInv).                                                    *)
(*                                                                         *)
(* From these also: that a job with a live poll is still out, and that an  *)
(* answer and its charge are final.                                        *)
(***************************************************************************)
EXTENDS ModelJobs, TLAPS

-----------------------------------------------------------------------------
(* The inductive invariant *)

(* A job whose commit is still to come is staged, and has not expired. *)
StagedInv ==
  \A j \in Jobs : gen[j] = "staged" => staged[j] \in Nat /\ staged[j] <= CommitTicks

(* A job with no row has nothing of one. *)
AbsentInv ==
  \A j \in Jobs : row[j].state = "absent" => row[j].answer = None

(* An attempt is over, or is an attempt at a job. *)
IdleInv ==
  \A t \in Takers : IF att[t].pc = "idle" THEN att[t] = Idle ELSE att[t].job \in Jobs

(* Until its hold is over, an attempt that took a job still has it, and    *)
(* the row holds it for exactly as long as the attempt thinks; a call      *)
(* never outlasts its deadline.                                            *)
HoldInv ==
  \A t \in Takers :
    /\ att[t].pc = "call" => att[t].left >= HoldTicks - CallTicks
    /\ att[t].pc \in {"call", "deliver"} /\ att[t].left > 0 =>
         /\ row[att[t].job].takenBy = t
         /\ row[att[t].job].hold = att[t].left

(* A job answered by an attempt in its hold is taken by no other. *)
DeliveryInv ==
  \A t \in Takers : deliveries[t].job # None =>
    /\ row[deliveries[t].job].answer # None
    /\ ~deliveries[t].late => row[deliveries[t].job].takenBy \in {t, None}

(* Of two attempts that delivered an answer to one job, one did so after   *)
(* its hold.                                                               *)
DeliveredInHold ==
  \A t, u \in Takers :
    /\ t # u
    /\ deliveries[t].job # None
    /\ deliveries[t].job = deliveries[u].job
    => deliveries[t].late \/ deliveries[u].late

(* What was metered is what was delivered. *)
MeterInv ==
  /\ \A t \in Takers : att[t].pc # "idle" =>
       IF deliveries[t] = NoDelivery THEN metered[t] = 0 ELSE deliveries[t].job = att[t].job
  /\ \A j \in Jobs : charged[j] <= 1 /\ (row[j].answer = None => charged[j] = 0)
  /\ \A t \in Takers : deliveries[t] # NoDelivery =>
       metered[t] = (IF deliveries[t].paid THEN 1 ELSE 0)
  /\ \A t \in Takers : deliveries[t].verdict = "accepted" =>
       /\ row[deliveries[t].job].answer = t
       /\ charged[deliveries[t].job] = (IF deliveries[t].paid THEN 1 ELSE 0)

IndInv ==
  /\ TypeOK
  /\ StagedInv /\ PollHasRow
  /\ AbsentInv /\ IdleInv /\ SentIsRecorded
  /\ HoldInv
  /\ DeliveryInv /\ DeliveredInHold
  /\ MeterInv

-----------------------------------------------------------------------------
(* What the steps do, field by field *)

(* A row with one column written is a row. *)
LEMMA RowUpdates ==
  ASSUME NEW r \in Row
  PROVE  /\ \A s \in {"absent", "out", "consumed", "cancelled"} : [r EXCEPT !.state = s] \in Row
         /\ \A t \in Takers : [r EXCEPT !.answer = t] \in Row
         /\ \A n \in 0..RedeliveryTicks : [r EXCEPT !.resend = n] \in Row
         /\ \A h \in 0..HoldTicks : [r EXCEPT !.hold = h] \in Row
         /\ \A t \in Takers \cup {None} : [r EXCEPT !.takenBy = t] \in Row
<1>1. ASSUME NEW s \in {"absent", "out", "consumed", "cancelled"}
      PROVE  [r EXCEPT !.state = s] \in Row
  BY DEF Row
<1>2. ASSUME NEW t \in Takers PROVE [r EXCEPT !.answer = t] \in Row
  BY DEF Row
<1>3. ASSUME NEW n \in 0..RedeliveryTicks PROVE [r EXCEPT !.resend = n] \in Row
  BY DEF Row
<1>4. ASSUME NEW h \in 0..HoldTicks PROVE [r EXCEPT !.hold = h] \in Row
  BY DEF Row
<1>5. ASSUME NEW t \in Takers \cup {None} PROVE [r EXCEPT !.takenBy = t] \in Row
  BY DEF Row
<1>6. QED
  BY <1>1, <1>2, <1>3, <1>4, <1>5

(* The columns of a row, and what a fresh row holds. *)
LEMMA RowFields ==
  /\ NoRow \in Row
  /\ [NoRow EXCEPT !.state = "out", !.resend = RedeliveryTicks] \in Row
  /\ \A r \in Row : /\ r.answer \in Takers \cup {None}
                    /\ r.takenBy \in Takers \cup {None}
                    /\ r.hold \in Nat /\ r.hold <= HoldTicks
                    /\ r.resend \in Nat /\ r.resend <= RedeliveryTicks
<1>1. NoRow \in Row
  BY JobsAssumption DEF Row, NoRow
<1>2. [NoRow EXCEPT !.state = "out", !.resend = RedeliveryTicks] \in Row
  <2>1. [NoRow EXCEPT !.state = "out"] \in Row
    BY <1>1, RowUpdates
  <2>2. RedeliveryTicks \in 0..RedeliveryTicks
    BY JobsAssumption
  <2>3. QED
    BY <2>1, <2>2, RowUpdates
<1>3. \A r \in Row : /\ r.answer \in Takers \cup {None}
                     /\ r.takenBy \in Takers \cup {None}
                     /\ r.hold \in Nat /\ r.hold <= HoldTicks
                     /\ r.resend \in Nat /\ r.resend <= RedeliveryTicks
  BY JobsAssumption DEF Row
<1>4. QED
  BY <1>1, <1>2, <1>3

(* A take writes the hold and the taker of its own job, and nothing else. *)
LEMMA TakenEffect ==
  ASSUME TypeOK, NEW t \in Takers, NEW j \in Jobs
  PROVE  /\ Taken(t, j) \in [Jobs -> Row]
         /\ \A i \in Jobs : /\ Taken(t, j)[i].state = row[i].state
                            /\ Taken(t, j)[i].answer = row[i].answer
                            /\ i # j => Taken(t, j)[i] = row[i]
         /\ Taken(t, j)[j].hold = HoldTicks
         /\ Taken(t, j)[j].takenBy = t
<1>1. row \in [Jobs -> Row] /\ row[j] \in Row
  BY DEF TypeOK
<1>2. HoldTicks \in 0..HoldTicks
  BY JobsAssumption
<1>3. [row[j] EXCEPT !.hold = HoldTicks] \in Row
  BY <1>1, <1>2, RowUpdates
<1>4. [row[j] EXCEPT !.hold = HoldTicks, !.takenBy = t] \in Row
  BY <1>3, RowUpdates
<1>5. Taken(t, j) = [row EXCEPT ![j] = [row[j] EXCEPT !.hold = HoldTicks, !.takenBy = t]]
  BY <1>1 DEF Taken
<1>6. /\ [row[j] EXCEPT !.hold = HoldTicks, !.takenBy = t].state = row[j].state
      /\ [row[j] EXCEPT !.hold = HoldTicks, !.takenBy = t].answer = row[j].answer
      /\ [row[j] EXCEPT !.hold = HoldTicks, !.takenBy = t].hold = HoldTicks
      /\ [row[j] EXCEPT !.hold = HoldTicks, !.takenBy = t].takenBy = t
  BY <1>1 DEF Row
<1>7. QED
  BY <1>1, <1>4, <1>5, <1>6

(* A release clears the taker's own take, or changes nothing. *)
LEMMA ReleasedEffect ==
  ASSUME TypeOK, NEW t \in Takers, NEW j \in Jobs
  PROVE  /\ Released(t, j) \in [Jobs -> Row]
         /\ \A i \in Jobs : /\ Released(t, j)[i].state = row[i].state
                            /\ Released(t, j)[i].answer = row[i].answer
                            /\ row[i].takenBy # t => Released(t, j)[i] = row[i]
                            /\ Released(t, j)[i].takenBy \in {row[i].takenBy, None}
<1>1. row \in [Jobs -> Row] /\ row[j] \in Row
  BY DEF TypeOK
<1>2. 0 \in 0..HoldTicks
  BY JobsAssumption
<1>3. [row[j] EXCEPT !.hold = 0] \in Row
  BY <1>1, <1>2, RowUpdates
<1>4. [row[j] EXCEPT !.hold = 0, !.takenBy = None] \in Row
  BY <1>3, RowUpdates
<1>5. [row EXCEPT ![j].hold = 0, ![j].takenBy = None]
        = [row EXCEPT ![j] = [row[j] EXCEPT !.hold = 0, !.takenBy = None]]
  BY <1>1
<1>6. /\ [row[j] EXCEPT !.hold = 0, !.takenBy = None].state = row[j].state
      /\ [row[j] EXCEPT !.hold = 0, !.takenBy = None].answer = row[j].answer
      /\ [row[j] EXCEPT !.hold = 0, !.takenBy = None].takenBy = None
  BY <1>1 DEF Row
<1>7. CASE row[j].takenBy = t
  <2>1. Released(t, j) = [row EXCEPT ![j] = [row[j] EXCEPT !.hold = 0, !.takenBy = None]]
    BY <1>5, <1>7 DEF Released
  <2>2. QED
    BY <1>1, <1>4, <1>6, <1>7, <2>1
<1>8. CASE row[j].takenBy # t
  BY <1>1, <1>8 DEF Released
<1>9. QED
  BY <1>7, <1>8

(* Time runs for holds, redeliveries and attempts, and for nothing else. *)
LEMMA TickEffect ==
  ASSUME TypeOK, Tick
  PROVE  /\ row' \in [Jobs -> Row]
         /\ att' \in [Takers -> Attempt]
         /\ \A j \in Jobs : /\ row'[j].state = row[j].state
                            /\ row'[j].answer = row[j].answer
                            /\ row'[j].takenBy = row[j].takenBy
                            /\ row'[j].hold = Less(row[j].hold)
         /\ \A t \in Takers : /\ att'[t].pc = att[t].pc
                              /\ att'[t].job = att[t].job
                              /\ att'[t].left = Less(att[t].left)
                              /\ att'[t].paid = att[t].paid
                              /\ att[t] = Idle => att'[t] = Idle
                              /\ att[t].pc = "call" => att[t].left > HoldTicks - CallTicks
         /\ UNCHANGED <<gen, sending, queue, deliveries, charged, metered>>
<1>1. ASSUME NEW j \in Jobs
      PROVE  LET r == [row[j] EXCEPT !.resend = Less(@), !.hold = Less(@)]
             IN /\ r \in Row
                /\ r.state = row[j].state /\ r.answer = row[j].answer
                /\ r.takenBy = row[j].takenBy /\ r.hold = Less(row[j].hold)
  <2>1. row[j] \in Row
    BY DEF TypeOK
  <2>2. Less(row[j].resend) \in 0..RedeliveryTicks /\ Less(row[j].hold) \in 0..HoldTicks
    BY <2>1, JobsAssumption DEF Row, Less
  <2>3. [row[j] EXCEPT !.resend = Less(@)] \in Row
    BY <2>1, <2>2, RowUpdates
  <2>4. [row[j] EXCEPT !.resend = Less(@), !.hold = Less(@)] \in Row
    BY <2>2, <2>3, RowUpdates
  <2>5. QED
    BY <2>1, <2>4 DEF Row
<1>2. ASSUME NEW t \in Takers
      PROVE  LET a == [att[t] EXCEPT !.left = Less(@)]
             IN /\ a \in Attempt
                /\ a.pc = att[t].pc /\ a.job = att[t].job
                /\ a.left = Less(att[t].left) /\ a.paid = att[t].paid
                /\ att[t] = Idle => a = Idle
  <2>1. att[t] \in Attempt
    BY DEF TypeOK
  <2>2. Less(att[t].left) \in 0..HoldTicks
    BY <2>1, JobsAssumption DEF Attempt, Less
  <2>3. [att[t] EXCEPT !.left = Less(@)] \in Attempt
    BY <2>1, <2>2 DEF Attempt
  <2>4. att[t] = Idle => [att[t] EXCEPT !.left = Less(@)] = Idle
    <3>1. att[t] = Idle => Less(att[t].left) = att[t].left
      BY DEF Idle, Less
    <3>2. QED
      BY <2>1, <3>1 DEF Attempt
  <2>5. QED
    BY <2>1, <2>3, <2>4 DEF Attempt
<1>3. row' = [j \in Jobs |-> [row[j] EXCEPT !.resend = Less(@), !.hold = Less(@)]]
  BY DEF Tick
<1>4. att' = [t \in Takers |-> [att[t] EXCEPT !.left = Less(@)]]
  BY DEF Tick
<1>5. /\ \A t \in Takers : att[t].pc = "call" => att[t].left > HoldTicks - CallTicks
      /\ UNCHANGED <<gen, sending, queue, deliveries, charged, metered>>
  BY DEF Tick, meterVars
<1>6. QED
  BY <1>1, <1>2, <1>3, <1>4, <1>5


(* An attempt that threw holds nothing any more; the others are as they    *)
(* were.                                                                   *)
LEMMA ThrowEffect ==
  ASSUME TypeOK, NEW t \in Takers, Throw(t)
  PROVE  /\ att' \in [Takers -> Attempt]
         /\ att'[t].pc = "release" /\ att'[t].job = att[t].job
         /\ \A u \in Takers : u # t => att'[u] = att[u]
<1>1. att \in [Takers -> Attempt] /\ att[t] \in Attempt
  BY DEF TypeOK
<1>2. [att[t] EXCEPT !.pc = "release"] \in Attempt
  BY <1>1 DEF Attempt
<1>3. [att[t] EXCEPT !.pc = "release", !.left = 0] \in Attempt
  <2>1. 0 \in 0..HoldTicks
    BY JobsAssumption
  <2>2. QED
    BY <1>2, <2>1 DEF Attempt
<1>4. /\ [att[t] EXCEPT !.pc = "release", !.left = 0].pc = "release"
      /\ [att[t] EXCEPT !.pc = "release", !.left = 0].job = att[t].job
  BY <1>1 DEF Attempt
<1>5. att' = [att EXCEPT ![t] = [att[t] EXCEPT !.pc = "release", !.left = 0]]
  BY <1>1 DEF Throw
<1>6. QED
  BY <1>1, <1>3, <1>4, <1>5

(* An acked attempt is over; the others are as they were. *)
LEMMA AckEffect ==
  ASSUME TypeOK, NEW t \in Takers, Ack(t)
  PROVE  /\ att' \in [Takers -> Attempt]
         /\ att'[t] = Idle
         /\ \A u \in Takers : u # t => att'[u] = att[u]
<1>1. Idle \in Attempt
  BY JobsAssumption DEF Idle, Attempt
<1>2. QED
  BY <1>1 DEF TypeOK, Ack

(* A retried message is the attempt's own, still on the queue or a dead    *)
(* letter; the attempt is over.                                            *)
LEMMA RetryEffect ==
  ASSUME TypeOK, NEW t \in Takers, att[t].job \in Jobs, Retry(t)
  PROVE  /\ att' \in [Takers -> Attempt]
         /\ att'[t] = Idle
         /\ \A u \in Takers : u # t => att'[u] = att[u]
         /\ queue' \subseteq Message
         /\ \A m \in queue' : m \in queue \/ m.job = att[t].job
<1>1. att[t] \in Attempt
  BY DEF TypeOK
<1> DEFINE m == [job |-> att[t].job, tries |-> att[t].tries, dlq |-> att[t].dlq]
<1>2. m \in Message
  BY <1>1 DEF Attempt, Message
<1>3. [m EXCEPT !.dlq = TRUE] \in Message /\ [m EXCEPT !.dlq = TRUE].job = att[t].job
  BY <1>2 DEF Message
<1>4. m.tries < MaxRetries => /\ [m EXCEPT !.tries = @ + 1] \in Message
                              /\ [m EXCEPT !.tries = @ + 1].job = att[t].job
  BY <1>2, JobsAssumption DEF Message
<1>5. m.job = att[t].job
  OBVIOUS
<1>6. \/ queue' = queue
      \/ queue' = queue \cup {m}
      \/ m.tries < MaxRetries /\ queue' = queue \cup {[m EXCEPT !.tries = @ + 1]}
      \/ queue' = queue \cup {[m EXCEPT !.dlq = TRUE]}
  BY DEF Retry, Requeued
<1>7. queue \subseteq Message
  BY DEF TypeOK
<1> HIDE DEF m
<1>8. /\ queue' \subseteq Message
      /\ \A n \in queue' : n \in queue \/ n.job = att[t].job
  BY <1>2, <1>3, <1>4, <1>5, <1>6, <1>7
<1>9. QED
  BY <1>8, AckEffect DEF Retry

(* A take that wins starts the call or, for a dead letter, the delivery,   *)
(* with the whole hold ahead.                                              *)
LEMMA TakeEffect ==
  ASSUME TypeOK, NEW t \in Takers, TakeJob(t), CanTake(att[t].job), att[t].job \in Jobs
  PROVE  /\ att' \in [Takers -> Attempt]
         /\ att'[t].pc \in {"call", "deliver"}
         /\ att'[t].left = HoldTicks /\ att'[t].job = att[t].job
         /\ \A u \in Takers : u # t => att'[u] = att[u]
         /\ row' = Taken(t, att[t].job)
<1>1. att \in [Takers -> Attempt] /\ att[t] \in Attempt
  BY DEF TypeOK
<1>2. ASSUME NEW p \in {"call", "deliver"}
      PROVE  LET a == [att[t] EXCEPT !.pc = p, !.left = HoldTicks]
             IN a \in Attempt /\ a.pc = p /\ a.left = HoldTicks /\ a.job = att[t].job
  <2>1. [att[t] EXCEPT !.pc = p] \in Attempt
    BY <1>1 DEF Attempt
  <2>2. HoldTicks \in 0..HoldTicks
    BY JobsAssumption
  <2>3. [att[t] EXCEPT !.pc = p, !.left = HoldTicks] \in Attempt
    BY <2>1, <2>2 DEF Attempt
  <2>4. QED
    BY <1>1, <2>3 DEF Attempt
<1>3. PICK p \in {"call", "deliver"} :
        att' = [att EXCEPT ![t] = [att[t] EXCEPT !.pc = p, !.left = HoldTicks]]
  <2>1. \/ att' = [att EXCEPT ![t].pc = "deliver", ![t].left = HoldTicks]
        \/ att' = [att EXCEPT ![t].pc = "call", ![t].left = HoldTicks]
    BY DEF TakeJob
  <2>2. \/ att' = [att EXCEPT ![t] = [att[t] EXCEPT !.pc = "deliver", !.left = HoldTicks]]
        \/ att' = [att EXCEPT ![t] = [att[t] EXCEPT !.pc = "call", !.left = HoldTicks]]
    BY <1>1, <2>1
  <2>3. QED
    BY <2>2
<1>4. row' = Taken(t, att[t].job)
  BY DEF TakeJob
<1>5. QED
  BY <1>1, <1>2, <1>3, <1>4

(* What a delivery writes the first time, and that a replay writes nothing.*)
LEMMA DeliverEffect ==
  ASSUME TypeOK, NEW t \in Takers, NEW j \in Jobs, DeliverTx(t, j)
  PROVE  \/ deliveries[t].job = j /\ UNCHANGED <<row, deliveries, charged, metered>>
         \/ /\ deliveries[t].job # j
            /\ row' \in [Jobs -> Row]
            /\ \A i \in Jobs : /\ row'[i].state = row[i].state
                               /\ row'[i].hold = row[i].hold
                               /\ row'[i].takenBy = row[i].takenBy
            /\ \A i \in Jobs : row'[i].answer =
                 (IF i = j /\ Verdict(j) = "accepted" THEN t ELSE row[i].answer)
            /\ deliveries' \in [Takers -> Delivery \cup {NoDelivery}]
            /\ deliveries'[t] = [job |-> j, verdict |-> Verdict(j), paid |-> att[t].paid,
                                 late |-> att[t].left = 0]
            /\ \A u \in Takers : u # t =>
                 \/ deliveries'[u] = deliveries[u]
                 \/ deliveries'[u] = NoDelivery /\ att[u].pc = "idle"
            /\ charged' \in [Jobs -> Nat]
            /\ \A i \in Jobs : charged'[i] = 
                 (IF i = j /\ Verdict(j) = "accepted" /\ att[t].paid THEN charged[i] + 1 ELSE charged[i])
            /\ metered' \in [Takers -> Nat]
            /\ \A u \in Takers : metered'[u] =
                 (IF u = t /\ att[t].paid THEN metered[u] + 1 ELSE metered[u])
<1>1. CASE deliveries[t].job = j
  BY <1>1 DEF DeliverTx, meterVars
<1>2. CASE deliveries[t].job # j
  <2> DEFINE d == [job |-> j, verdict |-> Verdict(j), paid |-> att[t].paid,
                   late |-> att[t].left = 0]
  <2>1. /\ row' = IF Verdict(j) = "accepted" THEN [row EXCEPT ![j].answer = t] ELSE row
        /\ deliveries' \in Recorded(t, d)
        /\ charged' = IF Verdict(j) = "accepted" /\ att[t].paid
                      THEN [charged EXCEPT ![j] = @ + 1] ELSE charged
        /\ metered' = IF att[t].paid THEN [metered EXCEPT ![t] = @ + 1] ELSE metered
    BY <1>2 DEF DeliverTx
  <2>2. /\ row' \in [Jobs -> Row]
        /\ \A i \in Jobs : /\ row'[i].state = row[i].state
                           /\ row'[i].hold = row[i].hold
                           /\ row'[i].takenBy = row[i].takenBy
                           /\ row'[i].answer =
                               (IF i = j /\ Verdict(j) = "accepted" THEN t ELSE row[i].answer)
    <3>1. row \in [Jobs -> Row] /\ row[j] \in Row
      BY DEF TypeOK
    <3>2. LET r == [row[j] EXCEPT !.answer = t]
          IN /\ r \in Row /\ r.state = row[j].state /\ r.hold = row[j].hold
             /\ r.takenBy = row[j].takenBy /\ r.answer = t
      BY <3>1 DEF Row
    <3>3. row' = IF Verdict(j) = "accepted" THEN [row EXCEPT ![j] = [row[j] EXCEPT !.answer = t]]
                                            ELSE row
      BY <2>1
    <3>4. QED
      BY <3>1, <3>2, <3>3
  <2>3. d \in Delivery
    <3>1. att[t].paid \in BOOLEAN
      BY DEF TypeOK, Attempt
    <3>2. Verdict(j) \in {"accepted", "refused", "unknown"}
      BY DEF Verdict
    <3>3. (att[t].left = 0) \in BOOLEAN
      OBVIOUS
    <3>4. QED
      BY <3>1, <3>2, <3>3 DEF Delivery
  <2>4. /\ deliveries' \in [Takers -> Delivery \cup {NoDelivery}]
        /\ deliveries'[t] = d
        /\ \A u \in Takers : u # t =>
             \/ deliveries'[u] = deliveries[u]
             \/ deliveries'[u] = NoDelivery /\ att[u].pc = "idle"
    <3> HIDE DEF d
    <3>1. PICK S \in SUBSET {u \in Takers : att[u].pc = "idle"} :
            deliveries' = [[u \in Takers |-> IF u \in S THEN NoDelivery ELSE deliveries[u]]
                             EXCEPT ![t] = d]
      BY <2>1 DEF Recorded
    <3>2. deliveries \in [Takers -> Delivery \cup {NoDelivery}]
      BY DEF TypeOK
    <3>3. QED
      BY <2>3, <3>1, <3>2
  <2>5. /\ charged' \in [Jobs -> Nat]
        /\ \A i \in Jobs : charged'[i] =
             (IF i = j /\ Verdict(j) = "accepted" /\ att[t].paid THEN charged[i] + 1 ELSE charged[i])
    BY <2>1 DEF TypeOK
  <2>6. /\ metered' \in [Takers -> Nat]
        /\ \A u \in Takers : metered'[u] =
             (IF u = t /\ att[t].paid THEN metered[u] + 1 ELSE metered[u])
    BY <2>1 DEF TypeOK
  <2>7. QED
    BY <1>2, <2>2, <2>4, <2>5, <2>6
<1>3. QED
  BY <1>1, <1>2

(* The commit's row is there, unanswered and untaken, or was there before. *)
LEMMA RecordEffect ==
  ASSUME TypeOK, NEW j \in Jobs
  PROVE  /\ RecordJob(j) \in [Jobs -> Row]
         /\ \A i \in Jobs : row[i].state # "absent" => RecordJob(j)[i] = row[i]
         /\ \A i \in Jobs : i # j => RecordJob(j)[i] = row[i]
         /\ staged[j] # None => RecordJob(j)[j].state # "absent"
         /\ RecordJob(j) # row => /\ row[j].state = "absent"
                                  /\ RecordJob(j)[j].state = "out"
                                  /\ RecordJob(j)[j].answer = None
                                  /\ RecordJob(j)[j].takenBy = None
<1>1. row \in [Jobs -> Row] /\ row[j] \in Row
  BY DEF TypeOK
<1> DEFINE r == [NoRow EXCEPT !.state = "out", !.resend = RedeliveryTicks]
<1>2. r \in Row
  BY RowFields
<1>3. r.state = "out" /\ r.answer = None /\ r.takenBy = None
  BY DEF NoRow
<1>4. RecordJob(j) = IF staged[j] # None /\ row[j].state = "absent"
                     THEN [row EXCEPT ![j] = r] ELSE row
  BY DEF RecordJob
<1> HIDE DEF r
<1>5. QED
  BY <1>1, <1>2, <1>3, <1>4

(* Ending a job, and marking it dispatched, leave its take and answer. *)
LEMMA EndEffect ==
  ASSUME TypeOK, NEW j \in Jobs,
         \/ \E s \in {"consumed", "cancelled"} :
              row[j].state = "out" /\ row' = [row EXCEPT ![j].state = s]
         \/ row' = [row EXCEPT ![j].resend = RedeliveryTicks]
         \/ row' = row
  PROVE  /\ row' \in [Jobs -> Row]
         /\ \A i \in Jobs : /\ row'[i].answer = row[i].answer
                            /\ row'[i].takenBy = row[i].takenBy
                            /\ row'[i].hold = row[i].hold
                            /\ row'[i].state = "absent" <=> row[i].state = "absent"
<1>1. row \in [Jobs -> Row] /\ row[j] \in Row
  BY DEF TypeOK
<1>2. ASSUME NEW s \in {"consumed", "cancelled"},
             row[j].state = "out", row' = [row EXCEPT ![j].state = s]
      PROVE  /\ row' \in [Jobs -> Row]
             /\ \A i \in Jobs : /\ row'[i].answer = row[i].answer
                                /\ row'[i].takenBy = row[i].takenBy
                                /\ row'[i].hold = row[i].hold
                                /\ row'[i].state = "absent" <=> row[i].state = "absent"
  <2>1. LET r == [row[j] EXCEPT !.state = s]
        IN /\ r \in Row /\ r.state = s /\ r.answer = row[j].answer
           /\ r.takenBy = row[j].takenBy /\ r.hold = row[j].hold
    BY <1>1 DEF Row
  <2>2. row' = [row EXCEPT ![j] = [row[j] EXCEPT !.state = s]]
    BY <1>1, <1>2
  <2>3. QED
    BY <1>1, <1>2, <2>1, <2>2
<1>3. CASE row' = [row EXCEPT ![j].resend = RedeliveryTicks]
  <2>1. RedeliveryTicks \in 0..RedeliveryTicks
    BY JobsAssumption
  <2>2. LET r == [row[j] EXCEPT !.resend = RedeliveryTicks]
        IN /\ r \in Row /\ r.state = row[j].state /\ r.answer = row[j].answer
           /\ r.takenBy = row[j].takenBy /\ r.hold = row[j].hold
    BY <1>1, <2>1 DEF Row
  <2>3. row' = [row EXCEPT ![j] = [row[j] EXCEPT !.resend = RedeliveryTicks]]
    BY <1>1, <1>3
  <2>4. QED
    BY <1>1, <2>2, <2>3
<1>4. QED
  BY <1>1, <1>2, <1>3

(* A call's return changes its own attempt's pc and what was paid. *)
LEMMA ReturnEffect ==
  ASSUME TypeOK, NEW t \in Takers, NEW paid \in BOOLEAN, CallReturns(t, paid)
  PROVE  /\ UNCHANGED <<gen, staged, row, sending, queue, deliveries, charged, metered>>
         /\ att' \in [Takers -> Attempt]
         /\ att[t].pc = "call"
         /\ att'[t].pc = "deliver" /\ att'[t].job = att[t].job /\ att'[t].left = att[t].left
         /\ \A u \in Takers : u # t => att'[u] = att[u]
<1>1. att \in [Takers -> Attempt] /\ att[t] \in Attempt
  BY DEF TypeOK
<1>2. [att[t] EXCEPT !.pc = "deliver"] \in Attempt
  BY <1>1 DEF Attempt
<1>3. LET a == [att[t] EXCEPT !.pc = "deliver", !.paid = paid]
      IN a \in Attempt /\ a.pc = "deliver" /\ a.job = att[t].job /\ a.left = att[t].left
  BY <1>1, <1>2 DEF Attempt
<1>4. att' = [att EXCEPT ![t] = [att[t] EXCEPT !.pc = "deliver", !.paid = paid]]
  BY <1>1 DEF CallReturns
<1>5. /\ UNCHANGED <<gen, staged, row, sending, queue, deliveries, charged, metered>>
      /\ att[t].pc = "call"
  BY DEF CallReturns, harnessVars, meterVars
<1>6. QED
  BY <1>1, <1>3, <1>4, <1>5

(* A fresh attempt is at the job its message names, and has yet to take it.*)
LEMMA ReceiveEffect ==
  ASSUME TypeOK, NEW t \in Takers, NEW m \in queue, Receive(t, m)
  PROVE  /\ UNCHANGED <<gen, staged, row, sending, deliveries, charged>>
         /\ att' \in [Takers -> Attempt]
         /\ att'[t].pc = "take" /\ att'[t].job = m.job /\ m.job \in Jobs
         /\ \A u \in Takers : u # t => att'[u] = att[u]
         /\ queue' \subseteq queue
         /\ deliveries[t] = NoDelivery /\ metered'[t] = 0
         /\ \A u \in Takers : u # t => metered'[u] = metered[u]
<1>1. att \in [Takers -> Attempt] /\ m \in Message
  BY DEF TypeOK
<1>2. [pc |-> "take", job |-> m.job, tries |-> m.tries, dlq |-> m.dlq,
       left |-> 0, paid |-> FALSE] \in Attempt
  BY <1>1, JobsAssumption DEF Message, Attempt
<1>3. att' = [att EXCEPT ![t] = [pc |-> "take", job |-> m.job, tries |-> m.tries,
                                 dlq |-> m.dlq, left |-> 0, paid |-> FALSE]]
  BY DEF Receive
<1>4. queue' \subseteq queue
  BY DEF Receive
<1>5. m.job \in Jobs
  BY <1>1 DEF Message
<1>6. /\ UNCHANGED <<gen, staged, row, sending, deliveries, charged>>
      /\ deliveries[t] = NoDelivery /\ metered'[t] = 0
      /\ \A u \in Takers : u # t => metered'[u] = metered[u]
  BY DEF Receive, harnessVars, TypeOK
<1>7. QED
  BY <1>1, <1>2, <1>3, <1>4, <1>5, <1>6

(* A message just sent is a message about its job. *)
LEMMA FreshMessage ==
  ASSUME NEW j \in Jobs
  PROVE  Fresh(j) \in Message /\ Fresh(j).job = j
BY JobsAssumption DEF Fresh, Message

-----------------------------------------------------------------------------
(* What the consumer's steps do *)

(* An attempt that is over is at no job. *)
LEMMA IdleFields == Idle.pc = "idle" /\ Idle.job \notin Jobs
BY JobsAssumption DEF Idle

(* An attempt not over is at one of the jobs. *)
LEMMA AtJob ==
  ASSUME IdleInv, NEW t \in Takers, att[t].pc # "idle"
  PROVE  att[t].job \in Jobs
BY DEF IdleInv

(* takeJob either wins the job, free until then, or ends the attempt. *)
LEMMA TakeJobEffect ==
  ASSUME TypeOK, IdleInv, NEW t \in Takers, TakeJob(t)
  PROVE  /\ att[t].job \in Jobs /\ att[t].pc # "idle"
         /\ UNCHANGED <<gen, staged, sending, queue, deliveries, charged, metered>>
         /\ \A u \in Takers : u # t => att'[u] = att[u]
         /\ \A i \in Jobs : /\ row'[i].state = row[i].state
                            /\ row'[i].answer = row[i].answer
                            /\ i # att[t].job => row'[i] = row[i]
         /\ \/ att'[t] = Idle /\ row' = row
            \/ /\ row[att[t].job].hold = 0 /\ row[att[t].job].answer = None
               /\ row'[att[t].job].hold = HoldTicks /\ row'[att[t].job].takenBy = t
               /\ att'[t].pc \in {"call", "deliver"}
               /\ att'[t].left = HoldTicks /\ att'[t].job = att[t].job
<1>1. att[t].job \in Jobs /\ att[t].pc # "idle"
  BY AtJob DEF TakeJob
<1>2. UNCHANGED <<gen, staged, sending, queue, deliveries, charged, metered>>
  BY DEF TakeJob, harnessVars, meterVars
<1>3. CASE CanTake(att[t].job)
  <2>1. row[att[t].job].hold = 0 /\ row[att[t].job].answer = None
    BY <1>3 DEF CanTake
  <2>2. QED
    BY <1>1, <1>2, <1>3, <2>1, TakeEffect, TakenEffect
<1>4. CASE ~CanTake(att[t].job)
  <2>1. Ack(t) /\ row' = row
    BY <1>4 DEF TakeJob
  <2>2. QED
    BY <1>1, <1>2, <2>1, AckEffect
<1>5. QED
  BY <1>3, <1>4

(* A take whose reply never came: made or not, the attempt is over. *)
LEMMA TakeFailsEffect ==
  ASSUME TypeOK, IdleInv, NEW t \in Takers, TakeFails(t)
  PROVE  /\ att[t].job \in Jobs /\ att[t].pc # "idle"
         /\ UNCHANGED <<gen, staged, sending, deliveries, charged, metered>>
         /\ att'[t] = Idle
         /\ \A u \in Takers : u # t => att'[u] = att[u]
         /\ \A m \in queue' : m \in queue \/ m.job = att[t].job
         /\ \A i \in Jobs : /\ row'[i].state = row[i].state
                            /\ row'[i].answer = row[i].answer
                            /\ i # att[t].job => row'[i] = row[i]
         /\ \/ row' = row
            \/ row[att[t].job].hold = 0 /\ row[att[t].job].answer = None
<1>1. att[t].job \in Jobs /\ att[t].pc # "idle"
  BY AtJob DEF TakeFails
<1>2. UNCHANGED <<gen, staged, sending, deliveries, charged, metered>> /\ Retry(t)
  BY DEF TakeFails, harnessVars, meterVars
<1>3. /\ att'[t] = Idle
      /\ \A u \in Takers : u # t => att'[u] = att[u]
      /\ \A m \in queue' : m \in queue \/ m.job = att[t].job
  BY <1>1, <1>2, RetryEffect
<1>4. \/ row' = row
      \/ /\ row[att[t].job].hold = 0 /\ row[att[t].job].answer = None
         /\ row' = Taken(t, att[t].job)
  BY DEF TakeFails, CanTake
<1>5. QED
  BY <1>1, <1>2, <1>3, <1>4, TakenEffect

(* A delivery decides and meters once; the attempt is over, has thrown, or *)
(* delivers again.                                                         *)
LEMMA DeliverStepEffect ==
  ASSUME TypeOK, IdleInv, NEW t \in Takers, Deliver(t)
  PROVE  /\ att[t].job \in Jobs /\ att[t].pc = "deliver"
         /\ DeliverTx(t, att[t].job)
         /\ UNCHANGED <<gen, staged, sending, queue>>
         /\ att' \in [Takers -> Attempt]
         /\ \A u \in Takers : u # t => att'[u] = att[u]
         /\ \/ att'[t] = Idle
            \/ att'[t].pc = "release" /\ att'[t].job = att[t].job
            \/ att' = att
         /\ \A i \in Jobs : /\ row'[i].state = row[i].state
                            /\ row'[i].hold = row[i].hold
                            /\ row'[i].takenBy = row[i].takenBy
                            /\ row[i].answer # None => row'[i].answer = row[i].answer
                            /\ row[i].answer = None /\ row[i].state = "absent" => row'[i].answer = None
<1>1. att[t].job \in Jobs /\ att[t].pc = "deliver"
  BY AtJob DEF Deliver
<1>2. DeliverTx(t, att[t].job) /\ UNCHANGED <<gen, staged, sending, queue>>
  BY DEF Deliver, harnessVars
<1>3. /\ att' \in [Takers -> Attempt]
      /\ \A u \in Takers : u # t => att'[u] = att[u]
      /\ \/ att'[t] = Idle
         \/ att'[t].pc = "release" /\ att'[t].job = att[t].job
         \/ att' = att
  <2>1. Ack(t) \/ Throw(t) \/ att' = att
    BY DEF Deliver
  <2>2. att \in [Takers -> Attempt]
    BY DEF TypeOK
  <2>3. CASE Ack(t)
    BY <2>3, AckEffect
  <2>4. CASE Throw(t)
    BY <2>4, ThrowEffect
  <2>5. QED
    BY <2>1, <2>2, <2>3, <2>4
<1>4. \A i \in Jobs : /\ row'[i].state = row[i].state
                      /\ row'[i].hold = row[i].hold
                      /\ row'[i].takenBy = row[i].takenBy
                      /\ row[i].answer # None => row'[i].answer = row[i].answer
                      /\ row[i].answer = None /\ row[i].state = "absent" => row'[i].answer = None
  <2>1. Verdict(att[t].job) = "accepted" =>
          row[att[t].job].answer = None /\ row[att[t].job].state # "absent"
    BY DEF Verdict
  <2>2. CASE deliveries[t].job = att[t].job
    BY <1>2, <2>2 DEF DeliverTx
  <2>3. CASE deliveries[t].job # att[t].job
    <3>1. /\ \A i \in Jobs : /\ row'[i].state = row[i].state
                             /\ row'[i].hold = row[i].hold
                             /\ row'[i].takenBy = row[i].takenBy
          /\ \A i \in Jobs : row'[i].answer =
               (IF i = att[t].job /\ Verdict(att[t].job) = "accepted" THEN t ELSE row[i].answer)
      BY <1>1, <1>2, <2>3, DeliverEffect
    <3>2. QED
      BY <2>1, <3>1
  <2>4. QED
    BY <2>2, <2>3
<1>5. QED
  BY <1>1, <1>2, <1>3, <1>4

(* A release gives back the attempt's own take or none, and the attempt is *)
(* over.                                                                   *)
LEMMA ReleaseJobEffect ==
  ASSUME TypeOK, IdleInv, NEW t \in Takers, ReleaseJob(t)
  PROVE  /\ att[t].job \in Jobs /\ att[t].pc # "idle"
         /\ UNCHANGED <<gen, staged, sending, deliveries, charged, metered>>
         /\ att'[t] = Idle
         /\ \A u \in Takers : u # t => att'[u] = att[u]
         /\ \A m \in queue' : m \in queue \/ m.job = att[t].job
         /\ \A i \in Jobs : /\ row'[i].state = row[i].state
                            /\ row'[i].answer = row[i].answer
                            /\ row[i].takenBy # t => row'[i] = row[i]
                            /\ row'[i].takenBy \in {row[i].takenBy, None}
<1>1. att[t].job \in Jobs /\ att[t].pc # "idle"
  BY AtJob DEF ReleaseJob
<1>2. UNCHANGED <<gen, staged, sending, deliveries, charged, metered>> /\ Retry(t)
  BY DEF ReleaseJob, harnessVars, meterVars
<1>3. /\ att'[t] = Idle
      /\ \A u \in Takers : u # t => att'[u] = att[u]
      /\ \A m \in queue' : m \in queue \/ m.job = att[t].job
  BY <1>1, <1>2, RetryEffect
<1>4. row' = row \/ row' = Released(t, att[t].job)
  BY DEF ReleaseJob
<1>5. QED
  BY <1>1, <1>2, <1>3, <1>4, ReleasedEffect

(* A dead attempt is over; only its message is left of it. *)
LEMMA DieEffect ==
  ASSUME TypeOK, IdleInv, NEW t \in Takers, Die(t)
  PROVE  /\ att[t].job \in Jobs /\ att[t].pc # "idle"
         /\ UNCHANGED <<gen, staged, row, sending, deliveries, charged, metered>>
         /\ att'[t] = Idle
         /\ \A u \in Takers : u # t => att'[u] = att[u]
         /\ \A m \in queue' : m \in queue \/ m.job = att[t].job
<1>1. att[t].job \in Jobs /\ att[t].pc # "idle"
  BY AtJob DEF Die
<1>2. UNCHANGED <<gen, staged, row, sending, deliveries, charged, metered>> /\ Retry(t)
  BY DEF Die, harnessVars, meterVars
<1>3. QED
  BY <1>1, <1>2, RetryEffect

(* A call or a delivery that failed leaves everything but its attempt. *)
LEMMA FailEffect ==
  ASSUME TypeOK, IdleInv, NEW t \in Takers, CallFails(t) \/ DeliverFails(t)
  PROVE  /\ att[t].job \in Jobs /\ att[t].pc # "idle"
         /\ UNCHANGED <<gen, staged, row, sending, queue, deliveries, charged, metered>>
         /\ att'[t].pc = "release" /\ att'[t].job = att[t].job
         /\ \A u \in Takers : u # t => att'[u] = att[u]
<1>1. att[t].job \in Jobs /\ att[t].pc # "idle"
  BY AtJob DEF CallFails, DeliverFails
<1>2. /\ UNCHANGED <<gen, staged, row, sending, queue, deliveries, charged, metered>>
      /\ Throw(t)
  BY DEF CallFails, DeliverFails, harnessVars, meterVars
<1>3. QED
  BY <1>1, <1>2, ThrowEffect

(* A poll's commit finds its job staged, so the row is there. *)
LEMMA CommitEffect ==
  ASSUME TypeOK, StagedInv, NEW j \in Jobs, CommitPoll(j)
  PROVE  /\ UNCHANGED <<queue, att, deliveries, charged, metered>>
         /\ \A i \in Jobs : /\ row[i].state # "absent" => row'[i] = row[i]
                            /\ i # j => row'[i] = row[i]
         /\ row'[j].state # "absent"
         /\ row[j].state = "absent" => row'[j].answer = None /\ row'[j].takenBy = None
         /\ \A i \in Jobs : /\ i # j => gen'[i] = gen[i] /\ staged'[i] = staged[i]
                                        /\ sending'[i] = sending[i]
         /\ gen'[j] = "poll"
<1>1. staged[j] # None
  BY JobsAssumption DEF StagedInv, CommitPoll, TypeOK
<1>2. row' = RecordJob(j) /\ UNCHANGED <<queue, att, deliveries, charged, metered>>
  BY DEF CommitPoll, consumerVars, meterVars
<1>3. /\ \A i \in Jobs : /\ row[i].state # "absent" => row'[i] = row[i]
                         /\ i # j => row'[i] = row[i]
      /\ row'[j].state # "absent"
      /\ row[j].state = "absent" => row'[j].answer = None /\ row'[j].takenBy = None
  BY <1>1, <1>2, RecordEffect
<1>4. /\ \A i \in Jobs : i # j => /\ gen'[i] = gen[i] /\ staged'[i] = staged[i]
                                  /\ sending'[i] = sending[i]
      /\ gen'[j] = "poll"
  BY DEF CommitPoll, TypeOK
<1>5. QED
  BY <1>2, <1>3, <1>4

-----------------------------------------------------------------------------
(* Every step keeps the invariant *)

(* Every step keeps the types. *)
LEMMA TypeStep ==
  ASSUME TypeOK, IdleInv, [Next]_vars
  PROVE  TypeOK'
<1> USE JobsAssumption DEF TypeOK, IdleInv
<1>1. ASSUME NEW j \in Jobs, StartJob(j) PROVE TypeOK'
  BY <1>1 DEF StartJob, consumerVars, meterVars
<1>2. ASSUME NEW j \in Jobs, CommitPoll(j) PROVE TypeOK'
  BY <1>2, RecordEffect DEF CommitPoll, consumerVars, meterVars
<1>3. ASSUME NEW j \in Jobs, LoseGeneration(j) PROVE TypeOK'
  BY <1>3 DEF LoseGeneration, consumerVars, meterVars
<1>4. ASSUME NEW j \in Jobs, RequestAbort(j) PROVE TypeOK'
  BY <1>4 DEF RequestAbort, consumerVars, meterVars
<1>5. ASSUME NEW j \in Jobs, DropJob(j) PROVE TypeOK'
  BY <1>5, EndEffect DEF DropJob, Cancelled, consumerVars, meterVars
<1>6. ASSUME NEW j \in Jobs, EndUnread(j) PROVE TypeOK'
  BY <1>6, EndEffect DEF EndUnread, Cancelled, consumerVars, meterVars
<1>7. ASSUME NEW j \in Jobs, Consume(j) PROVE TypeOK'
  BY <1>7, EndEffect DEF Consume, consumerVars, meterVars
<1>8. ASSUME NEW j \in Jobs, DispatchSend(j) PROVE TypeOK'
  BY <1>8, FreshMessage DEF DispatchSend, harnessVars, meterVars
<1>9. ASSUME NEW j \in Jobs, DispatchFail(j) PROVE TypeOK'
  BY <1>9, FreshMessage DEF DispatchFail, harnessVars, meterVars
<1>10. ASSUME NEW j \in Jobs, DispatchMark(j) PROVE TypeOK'
  BY <1>10, EndEffect DEF DispatchMark, harnessVars, consumerVars, meterVars
<1>11. CASE Sweep
  BY <1>11 DEF Sweep, SweepDue, harnessVars, consumerVars, meterVars
<1>12. CASE Evict
  BY <1>12 DEF Evict, consumerVars, meterVars
<1>13. ASSUME NEW t \in Takers, NEW m \in queue, Receive(t, m) PROVE TypeOK'
  BY <1>13, ReceiveEffect DEF Receive, harnessVars
<1>14. ASSUME NEW t \in Takers, TakeJob(t) PROVE TypeOK'
  <2>1. CASE CanTake(att[t].job)
    <3>1. att[t].job \in Jobs
      BY <1>14 DEF TakeJob
    <3>2. row' \in [Jobs -> Row] /\ att' \in [Takers -> Attempt]
      BY <1>14, <2>1, <3>1, TakeEffect, TakenEffect
    <3>3. QED
      BY <1>14, <3>2 DEF TakeJob, harnessVars, meterVars
  <2>2. CASE ~CanTake(att[t].job)
    BY <1>14, <2>2, AckEffect DEF TakeJob, harnessVars, meterVars
  <2>3. QED
    BY <2>1, <2>2
<1>15. ASSUME NEW t \in Takers, TakeFails(t) PROVE TypeOK'
  BY <1>15, RetryEffect, TakenEffect DEF TakeFails, CanTake, harnessVars, meterVars
<1>16. ASSUME NEW t \in Takers, CallFails(t) PROVE TypeOK'
  BY <1>16, ThrowEffect DEF CallFails, harnessVars, meterVars
<1>17. ASSUME NEW t \in Takers, Deliver(t) PROVE TypeOK'
  BY <1>17, DeliverEffect, AckEffect, ThrowEffect, ZenonT(60) DEF Deliver, harnessVars
<1>18. ASSUME NEW t \in Takers, DeliverFails(t) PROVE TypeOK'
  BY <1>18, ThrowEffect DEF DeliverFails, harnessVars, meterVars
<1>19. ASSUME NEW t \in Takers, ReleaseJob(t) PROVE TypeOK'
  BY <1>19, RetryEffect, ReleasedEffect DEF ReleaseJob, harnessVars, meterVars
<1>20. ASSUME NEW t \in Takers, Die(t) PROVE TypeOK'
  BY <1>20, RetryEffect DEF Die, harnessVars, meterVars
<1>21. ASSUME NEW t \in Takers, NEW paid \in BOOLEAN, CallReturns(t, paid) PROVE TypeOK'
  BY <1>21, ReturnEffect DEF CallReturns, harnessVars, meterVars
<1>22. ASSUME NEW m \in queue, LoseMessage(m) PROVE TypeOK'
  BY <1>22, SMTT(30) DEF LoseMessage, harnessVars, meterVars
<1>23. CASE Tick
  <2>1. staged' \in [Jobs -> 0..(StagedTicks + 1) \cup {None}]
    <3>1. ASSUME NEW j \in Jobs
          PROVE  (IF staged[j] = None \/ staged[j] > StagedTicks THEN staged[j] ELSE staged[j] + 1)
                   \in 0..(StagedTicks + 1) \cup {None}
      OBVIOUS
    <3>2. QED
      BY <1>23, <3>1 DEF Tick
  <2>2. QED
    BY <1>23, <2>1, TickEffect DEF Tick, meterVars
<1>24. CASE UNCHANGED vars
  BY <1>24 DEF vars
<1> HIDE DEF TypeOK, IdleInv
<1>25. QED
  BY <1>1, <1>2, <1>3, <1>4, <1>5, <1>6, <1>7, <1>8, <1>9, <1>10, <1>11, <1>12, <1>13, <1>14, <1>15, <1>16, <1>17, <1>18, <1>19, <1>20, <1>21, <1>22, <1>23, <1>24
  DEF Next, HarnessStep, DispatchStep, ConsumerStep


(* Only a staged job's own commit moves it on, before it expires. *)
LEMMA StagedStep ==
  ASSUME TypeOK, IdleInv, StagedInv, PollHasRow, [Next]_vars
  PROVE  (StagedInv /\ PollHasRow)'
<1> USE JobsAssumption DEF StagedInv, PollHasRow
<1>1. ASSUME NEW j \in Jobs, StartJob(j) PROVE (StagedInv /\ PollHasRow)'
  BY <1>1 DEF StartJob, consumerVars, meterVars
<1>2. ASSUME NEW j \in Jobs, CommitPoll(j) PROVE (StagedInv /\ PollHasRow)'
  BY <1>2, CommitEffect
<1>3. ASSUME NEW j \in Jobs, LoseGeneration(j) PROVE (StagedInv /\ PollHasRow)'
  BY <1>3 DEF LoseGeneration, consumerVars, meterVars
<1>4. ASSUME NEW j \in Jobs, RequestAbort(j) PROVE (StagedInv /\ PollHasRow)'
  BY <1>4 DEF RequestAbort, consumerVars, meterVars
<1>5. ASSUME NEW j \in Jobs, DropJob(j) PROVE (StagedInv /\ PollHasRow)'
  BY <1>5, EndEffect DEF DropJob, Cancelled, consumerVars, meterVars
<1>6. ASSUME NEW j \in Jobs, EndUnread(j) PROVE (StagedInv /\ PollHasRow)'
  BY <1>6, EndEffect DEF EndUnread, Cancelled, consumerVars, meterVars
<1>7. ASSUME NEW j \in Jobs, Consume(j) PROVE (StagedInv /\ PollHasRow)'
  BY <1>7, EndEffect DEF Consume, consumerVars, meterVars
<1>8. ASSUME NEW j \in Jobs, DispatchSend(j) PROVE (StagedInv /\ PollHasRow)'
  BY <1>8, FreshMessage DEF DispatchSend, harnessVars, meterVars
<1>9. ASSUME NEW j \in Jobs, DispatchFail(j) PROVE (StagedInv /\ PollHasRow)'
  BY <1>9, FreshMessage DEF DispatchFail, harnessVars, meterVars
<1>10. ASSUME NEW j \in Jobs, DispatchMark(j) PROVE (StagedInv /\ PollHasRow)'
  BY <1>10, EndEffect DEF DispatchMark, harnessVars, consumerVars, meterVars
<1>11. CASE Sweep
  BY <1>11 DEF Sweep, SweepDue, harnessVars, consumerVars, meterVars
<1>12. CASE Evict
  BY <1>12 DEF Evict, consumerVars, meterVars
<1>13. ASSUME NEW t \in Takers, NEW m \in queue, Receive(t, m) PROVE (StagedInv /\ PollHasRow)'
  BY <1>13, ReceiveEffect
<1>14. ASSUME NEW t \in Takers, TakeJob(t) PROVE (StagedInv /\ PollHasRow)'
  BY <1>14, TakeJobEffect, IdleFields
<1>15. ASSUME NEW t \in Takers, TakeFails(t) PROVE (StagedInv /\ PollHasRow)'
  BY <1>15, TakeFailsEffect, IdleFields
<1>16. ASSUME NEW t \in Takers, CallFails(t) PROVE (StagedInv /\ PollHasRow)'
  BY <1>16, FailEffect
<1>17. ASSUME NEW t \in Takers, Deliver(t) PROVE (StagedInv /\ PollHasRow)'
  BY <1>17, DeliverStepEffect, IdleFields
<1>18. ASSUME NEW t \in Takers, DeliverFails(t) PROVE (StagedInv /\ PollHasRow)'
  BY <1>18, FailEffect
<1>19. ASSUME NEW t \in Takers, ReleaseJob(t) PROVE (StagedInv /\ PollHasRow)'
  BY <1>19, ReleaseJobEffect, IdleFields
<1>20. ASSUME NEW t \in Takers, Die(t) PROVE (StagedInv /\ PollHasRow)'
  BY <1>20, DieEffect, IdleFields
<1>21. ASSUME NEW t \in Takers, NEW paid \in BOOLEAN, CallReturns(t, paid) PROVE (StagedInv /\ PollHasRow)'
  BY <1>21, ReturnEffect
<1>22. ASSUME NEW m \in queue, LoseMessage(m) PROVE (StagedInv /\ PollHasRow)'
  BY <1>22 DEF LoseMessage, harnessVars, meterVars
<1>23. CASE Tick
  <2>1. \A j \in Jobs : row'[j].state = row[j].state
    BY <1>23, TickEffect
  <2>2. ASSUME NEW j \in Jobs, gen'[j] = "staged"
        PROVE  staged'[j] \in Nat /\ staged'[j] <= CommitTicks
    <3>1. /\ gen[j] = "staged" /\ staged[j] \in Nat
          /\ staged[j] # None /\ staged[j] < CommitTicks
      BY <1>23, <2>2 DEF Tick
    <3>2. ~(staged[j] = None \/ staged[j] > StagedTicks)
      BY <3>1
    <3>3. staged'[j] = staged[j] + 1
      BY <1>23, <3>2 DEF Tick
    <3>4. QED
      BY <3>1, <3>3
  <2>3. QED
    BY <1>23, <2>1, <2>2 DEF Tick
<1>24. CASE UNCHANGED vars
  BY <1>24 DEF vars
<1> HIDE DEF StagedInv, PollHasRow
<1>25. QED
  BY <1>1, <1>2, <1>3, <1>4, <1>5, <1>6, <1>7, <1>8, <1>9, <1>10, <1>11, <1>12, <1>13, <1>14, <1>15, <1>16, <1>17, <1>18, <1>19, <1>20, <1>21, <1>22, <1>23, <1>24
  DEF Next, HarnessStep, DispatchStep, ConsumerStep


(* Attempts start at a job and end idle. *)
LEMMA IdleStep ==
  ASSUME TypeOK, IdleInv, StagedInv, [Next]_vars
  PROVE  IdleInv'
<1> USE DEF IdleInv
<1>1. ASSUME NEW j \in Jobs, StartJob(j) PROVE IdleInv'
  BY <1>1 DEF StartJob, consumerVars, meterVars
<1>2. ASSUME NEW j \in Jobs, CommitPoll(j) PROVE IdleInv'
  BY <1>2, CommitEffect
<1>3. ASSUME NEW j \in Jobs, LoseGeneration(j) PROVE IdleInv'
  BY <1>3 DEF LoseGeneration, consumerVars, meterVars
<1>4. ASSUME NEW j \in Jobs, RequestAbort(j) PROVE IdleInv'
  BY <1>4 DEF RequestAbort, consumerVars, meterVars
<1>5. ASSUME NEW j \in Jobs, DropJob(j) PROVE IdleInv'
  BY <1>5, EndEffect DEF DropJob, Cancelled, consumerVars, meterVars
<1>6. ASSUME NEW j \in Jobs, EndUnread(j) PROVE IdleInv'
  BY <1>6, EndEffect DEF EndUnread, Cancelled, consumerVars, meterVars
<1>7. ASSUME NEW j \in Jobs, Consume(j) PROVE IdleInv'
  BY <1>7, EndEffect DEF Consume, consumerVars, meterVars
<1>8. ASSUME NEW j \in Jobs, DispatchSend(j) PROVE IdleInv'
  BY <1>8, FreshMessage DEF DispatchSend, harnessVars, meterVars
<1>9. ASSUME NEW j \in Jobs, DispatchFail(j) PROVE IdleInv'
  BY <1>9, FreshMessage DEF DispatchFail, harnessVars, meterVars
<1>10. ASSUME NEW j \in Jobs, DispatchMark(j) PROVE IdleInv'
  BY <1>10, EndEffect DEF DispatchMark, harnessVars, consumerVars, meterVars
<1>11. CASE Sweep
  BY <1>11 DEF Sweep, SweepDue, harnessVars, consumerVars, meterVars
<1>12. CASE Evict
  BY <1>12 DEF Evict, consumerVars, meterVars
<1>13. ASSUME NEW t \in Takers, NEW m \in queue, Receive(t, m) PROVE IdleInv'
  BY <1>13, ReceiveEffect
<1>14. ASSUME NEW t \in Takers, TakeJob(t) PROVE IdleInv'
  BY <1>14, TakeJobEffect, IdleFields
<1>15. ASSUME NEW t \in Takers, TakeFails(t) PROVE IdleInv'
  BY <1>15, TakeFailsEffect, IdleFields
<1>16. ASSUME NEW t \in Takers, CallFails(t) PROVE IdleInv'
  BY <1>16, FailEffect
<1>17. ASSUME NEW t \in Takers, Deliver(t) PROVE IdleInv'
  BY <1>17, DeliverStepEffect, IdleFields
<1>18. ASSUME NEW t \in Takers, DeliverFails(t) PROVE IdleInv'
  BY <1>18, FailEffect
<1>19. ASSUME NEW t \in Takers, ReleaseJob(t) PROVE IdleInv'
  BY <1>19, ReleaseJobEffect, IdleFields
<1>20. ASSUME NEW t \in Takers, Die(t) PROVE IdleInv'
  BY <1>20, DieEffect, IdleFields
<1>21. ASSUME NEW t \in Takers, NEW paid \in BOOLEAN, CallReturns(t, paid) PROVE IdleInv'
  BY <1>21, ReturnEffect
<1>22. ASSUME NEW m \in queue, LoseMessage(m) PROVE IdleInv'
  BY <1>22 DEF LoseMessage, harnessVars, meterVars
<1>23. CASE Tick
  BY <1>23, TickEffect DEF Less
<1>24. CASE UNCHANGED vars
  BY <1>24 DEF vars
<1> HIDE DEF IdleInv
<1>25. QED
  BY <1>1, <1>2, <1>3, <1>4, <1>5, <1>6, <1>7, <1>8, <1>9, <1>10, <1>11, <1>12, <1>13, <1>14, <1>15, <1>16, <1>17, <1>18, <1>19, <1>20, <1>21, <1>22, <1>23, <1>24
  DEF Next, HarnessStep, DispatchStep, ConsumerStep


(* A job is sent only once its row is there, and the row stays. *)
LEMMA SentStep ==
  ASSUME TypeOK, IdleInv, StagedInv, AbsentInv, SentIsRecorded, [Next]_vars
  PROVE  (AbsentInv /\ SentIsRecorded)'
<1> USE DEF AbsentInv, SentIsRecorded
<1>1. ASSUME NEW j \in Jobs, StartJob(j) PROVE (AbsentInv /\ SentIsRecorded)'
  BY <1>1 DEF StartJob, consumerVars, meterVars
<1>2. ASSUME NEW j \in Jobs, CommitPoll(j) PROVE (AbsentInv /\ SentIsRecorded)'
  BY <1>2, CommitEffect
<1>3. ASSUME NEW j \in Jobs, LoseGeneration(j) PROVE (AbsentInv /\ SentIsRecorded)'
  BY <1>3 DEF LoseGeneration, consumerVars, meterVars
<1>4. ASSUME NEW j \in Jobs, RequestAbort(j) PROVE (AbsentInv /\ SentIsRecorded)'
  BY <1>4 DEF RequestAbort, consumerVars, meterVars
<1>5. ASSUME NEW j \in Jobs, DropJob(j) PROVE (AbsentInv /\ SentIsRecorded)'
  BY <1>5, EndEffect DEF DropJob, Cancelled, consumerVars, meterVars
<1>6. ASSUME NEW j \in Jobs, EndUnread(j) PROVE (AbsentInv /\ SentIsRecorded)'
  BY <1>6, EndEffect DEF EndUnread, Cancelled, consumerVars, meterVars
<1>7. ASSUME NEW j \in Jobs, Consume(j) PROVE (AbsentInv /\ SentIsRecorded)'
  BY <1>7, EndEffect DEF Consume, consumerVars, meterVars
<1>8. ASSUME NEW j \in Jobs, DispatchSend(j) PROVE (AbsentInv /\ SentIsRecorded)'
  BY <1>8, FreshMessage DEF DispatchSend, harnessVars, meterVars
<1>9. ASSUME NEW j \in Jobs, DispatchFail(j) PROVE (AbsentInv /\ SentIsRecorded)'
  BY <1>9, FreshMessage DEF DispatchFail, harnessVars, meterVars
<1>10. ASSUME NEW j \in Jobs, DispatchMark(j) PROVE (AbsentInv /\ SentIsRecorded)'
  BY <1>10, EndEffect DEF DispatchMark, harnessVars, consumerVars, meterVars
<1>11. CASE Sweep
  BY <1>11 DEF Sweep, SweepDue, harnessVars, consumerVars, meterVars
<1>12. CASE Evict
  BY <1>12 DEF Evict, consumerVars, meterVars
<1>13. ASSUME NEW t \in Takers, NEW m \in queue, Receive(t, m) PROVE (AbsentInv /\ SentIsRecorded)'
  BY <1>13, ReceiveEffect
<1>14. ASSUME NEW t \in Takers, TakeJob(t) PROVE (AbsentInv /\ SentIsRecorded)'
  BY <1>14, TakeJobEffect, IdleFields
<1>15. ASSUME NEW t \in Takers, TakeFails(t) PROVE (AbsentInv /\ SentIsRecorded)'
  BY <1>15, TakeFailsEffect, IdleFields
<1>16. ASSUME NEW t \in Takers, CallFails(t) PROVE (AbsentInv /\ SentIsRecorded)'
  BY <1>16, FailEffect
<1>17. ASSUME NEW t \in Takers, Deliver(t) PROVE (AbsentInv /\ SentIsRecorded)'
  BY <1>17, DeliverStepEffect, IdleFields
<1>18. ASSUME NEW t \in Takers, DeliverFails(t) PROVE (AbsentInv /\ SentIsRecorded)'
  BY <1>18, FailEffect
<1>19. ASSUME NEW t \in Takers, ReleaseJob(t) PROVE (AbsentInv /\ SentIsRecorded)'
  BY <1>19, ReleaseJobEffect, IdleFields
<1>20. ASSUME NEW t \in Takers, Die(t) PROVE (AbsentInv /\ SentIsRecorded)'
  BY <1>20, DieEffect, IdleFields
<1>21. ASSUME NEW t \in Takers, NEW paid \in BOOLEAN, CallReturns(t, paid) PROVE (AbsentInv /\ SentIsRecorded)'
  BY <1>21, ReturnEffect
<1>22. ASSUME NEW m \in queue, LoseMessage(m) PROVE (AbsentInv /\ SentIsRecorded)'
  BY <1>22 DEF LoseMessage, harnessVars, meterVars
<1>23. CASE Tick
  BY <1>23, TickEffect DEF Less
<1>24. CASE UNCHANGED vars
  BY <1>24 DEF vars
<1> HIDE DEF AbsentInv, SentIsRecorded
<1>25. QED
  BY <1>1, <1>2, <1>3, <1>4, <1>5, <1>6, <1>7, <1>8, <1>9, <1>10, <1>11, <1>12, <1>13, <1>14, <1>15, <1>16, <1>17, <1>18, <1>19, <1>20, <1>21, <1>22, <1>23, <1>24
  DEF Next, HarnessStep, DispatchStep, ConsumerStep


(* Nobody takes a job from an attempt whose hold is not over. *)
LEMMA HoldStep ==
  ASSUME TypeOK, IdleInv, StagedInv, SentIsRecorded, HoldInv, [Next]_vars
  PROVE  HoldInv'
<1>a. \A u \in Takers : /\ att[u].left \in Nat
                        /\ att[u].pc # "idle" => /\ att[u].job \in Jobs
                                                 /\ row[att[u].job].state # "absent"
                                                 /\ row[att[u].job].hold \in Nat
  <2>1. \A u \in Takers : att[u].left \in Nat
    BY JobsAssumption DEF TypeOK, Attempt
  <2>2. \A u \in Takers : att[u].pc # "idle" => att[u].job \in Jobs
    BY DEF IdleInv
  <2>3. \A u \in Takers : att[u].pc # "idle" => row[att[u].job].state # "absent"
    BY <2>2 DEF SentIsRecorded
  <2>4. \A i \in Jobs : row[i].hold \in Nat
    BY RowFields DEF TypeOK
  <2>5. QED
    BY <2>1, <2>2, <2>3, <2>4
<1> USE JobsAssumption DEF HoldInv
<1>1. ASSUME NEW j \in Jobs, StartJob(j) PROVE HoldInv'
  BY <1>1, <1>a DEF StartJob, consumerVars, meterVars
<1>2. ASSUME NEW j \in Jobs, CommitPoll(j) PROVE HoldInv'
  BY <1>2, <1>a, CommitEffect
<1>3. ASSUME NEW j \in Jobs, LoseGeneration(j) PROVE HoldInv'
  BY <1>3, <1>a DEF LoseGeneration, consumerVars, meterVars
<1>4. ASSUME NEW j \in Jobs, RequestAbort(j) PROVE HoldInv'
  BY <1>4, <1>a DEF RequestAbort, consumerVars, meterVars
<1>5. ASSUME NEW j \in Jobs, DropJob(j) PROVE HoldInv'
  BY <1>5, <1>a, EndEffect DEF DropJob, Cancelled, consumerVars, meterVars
<1>6. ASSUME NEW j \in Jobs, EndUnread(j) PROVE HoldInv'
  BY <1>6, <1>a, EndEffect DEF EndUnread, Cancelled, consumerVars, meterVars
<1>7. ASSUME NEW j \in Jobs, Consume(j) PROVE HoldInv'
  BY <1>7, <1>a, EndEffect DEF Consume, consumerVars, meterVars
<1>8. ASSUME NEW j \in Jobs, DispatchSend(j) PROVE HoldInv'
  BY <1>8, <1>a, FreshMessage DEF DispatchSend, harnessVars, meterVars
<1>9. ASSUME NEW j \in Jobs, DispatchFail(j) PROVE HoldInv'
  BY <1>9, <1>a, FreshMessage DEF DispatchFail, harnessVars, meterVars
<1>10. ASSUME NEW j \in Jobs, DispatchMark(j) PROVE HoldInv'
  BY <1>10, <1>a, EndEffect DEF DispatchMark, harnessVars, consumerVars, meterVars
<1>11. CASE Sweep
  BY <1>11, <1>a DEF Sweep, SweepDue, harnessVars, consumerVars, meterVars
<1>12. CASE Evict
  BY <1>12, <1>a DEF Evict, consumerVars, meterVars
<1>13. ASSUME NEW t \in Takers, NEW m \in queue, Receive(t, m) PROVE HoldInv'
  BY <1>13, <1>a, ReceiveEffect
<1>14. ASSUME NEW t \in Takers, TakeJob(t) PROVE HoldInv'
  BY <1>14, <1>a, TakeJobEffect, IdleFields
<1>15. ASSUME NEW t \in Takers, TakeFails(t) PROVE HoldInv'
  BY <1>15, <1>a, TakeFailsEffect, IdleFields
<1>16. ASSUME NEW t \in Takers, CallFails(t) PROVE HoldInv'
  BY <1>16, <1>a, FailEffect
<1>17. ASSUME NEW t \in Takers, Deliver(t) PROVE HoldInv'
  BY <1>17, <1>a, DeliverStepEffect, IdleFields
<1>18. ASSUME NEW t \in Takers, DeliverFails(t) PROVE HoldInv'
  BY <1>18, <1>a, FailEffect
<1>19. ASSUME NEW t \in Takers, ReleaseJob(t) PROVE HoldInv'
  BY <1>19, <1>a, ReleaseJobEffect, IdleFields
<1>20. ASSUME NEW t \in Takers, Die(t) PROVE HoldInv'
  BY <1>20, <1>a, DieEffect, IdleFields
<1>21. ASSUME NEW t \in Takers, NEW paid \in BOOLEAN, CallReturns(t, paid) PROVE HoldInv'
  BY <1>21, <1>a, ReturnEffect
<1>22. ASSUME NEW m \in queue, LoseMessage(m) PROVE HoldInv'
  BY <1>22, <1>a DEF LoseMessage, harnessVars, meterVars
<1>23. CASE Tick
  BY <1>23, <1>a, TickEffect DEF Less
<1>24. CASE UNCHANGED vars
  BY <1>24 DEF vars
<1> HIDE DEF HoldInv
<1>25. QED
  BY <1>1, <1>2, <1>3, <1>4, <1>5, <1>6, <1>7, <1>8, <1>9, <1>10, <1>11, <1>12, <1>13, <1>14, <1>15, <1>16, <1>17, <1>18, <1>19, <1>20, <1>21, <1>22, <1>23, <1>24
  DEF Next, HarnessStep, DispatchStep, ConsumerStep


(* An answer is never taken back, and an answered job is not taken again.  *)
LEMMA DeliveryStep ==
  ASSUME TypeOK, IdleInv, StagedInv, AbsentInv, SentIsRecorded, HoldInv, DeliveryInv, [Next]_vars
  PROVE  DeliveryInv'
<1>a. \A u \in Takers : deliveries[u].job # None => deliveries[u].job \in Jobs
  BY DEF TypeOK, Delivery, NoDelivery
<1> USE JobsAssumption DEF DeliveryInv
<1>1. ASSUME NEW j \in Jobs, StartJob(j) PROVE DeliveryInv'
  BY <1>1, <1>a DEF StartJob, consumerVars, meterVars
<1>2. ASSUME NEW j \in Jobs, CommitPoll(j) PROVE DeliveryInv'
  BY <1>2, <1>a, CommitEffect DEF AbsentInv
<1>3. ASSUME NEW j \in Jobs, LoseGeneration(j) PROVE DeliveryInv'
  BY <1>3, <1>a DEF LoseGeneration, consumerVars, meterVars
<1>4. ASSUME NEW j \in Jobs, RequestAbort(j) PROVE DeliveryInv'
  BY <1>4, <1>a DEF RequestAbort, consumerVars, meterVars
<1>5. ASSUME NEW j \in Jobs, DropJob(j) PROVE DeliveryInv'
  BY <1>5, <1>a, EndEffect DEF DropJob, Cancelled, consumerVars, meterVars
<1>6. ASSUME NEW j \in Jobs, EndUnread(j) PROVE DeliveryInv'
  BY <1>6, <1>a, EndEffect DEF EndUnread, Cancelled, consumerVars, meterVars
<1>7. ASSUME NEW j \in Jobs, Consume(j) PROVE DeliveryInv'
  BY <1>7, <1>a, EndEffect DEF Consume, consumerVars, meterVars
<1>8. ASSUME NEW j \in Jobs, DispatchSend(j) PROVE DeliveryInv'
  BY <1>8, <1>a, FreshMessage DEF DispatchSend, harnessVars, meterVars
<1>9. ASSUME NEW j \in Jobs, DispatchFail(j) PROVE DeliveryInv'
  BY <1>9, <1>a, FreshMessage DEF DispatchFail, harnessVars, meterVars
<1>10. ASSUME NEW j \in Jobs, DispatchMark(j) PROVE DeliveryInv'
  BY <1>10, <1>a, EndEffect DEF DispatchMark, harnessVars, consumerVars, meterVars
<1>11. CASE Sweep
  BY <1>11, <1>a DEF Sweep, SweepDue, harnessVars, consumerVars, meterVars
<1>12. CASE Evict
  BY <1>12, <1>a DEF Evict, consumerVars, meterVars
<1>13. ASSUME NEW t \in Takers, NEW m \in queue, Receive(t, m) PROVE DeliveryInv'
  BY <1>13, <1>a, ReceiveEffect
<1>14. ASSUME NEW t \in Takers, TakeJob(t) PROVE DeliveryInv'
  BY <1>14, <1>a, TakeJobEffect, IdleFields
<1>15. ASSUME NEW t \in Takers, TakeFails(t) PROVE DeliveryInv'
  BY <1>15, <1>a, TakeFailsEffect, IdleFields
<1>16. ASSUME NEW t \in Takers, CallFails(t) PROVE DeliveryInv'
  BY <1>16, <1>a, FailEffect
<1>17. ASSUME NEW t \in Takers, Deliver(t) PROVE DeliveryInv'
  <2> DEFINE j == att[t].job
  <2>1. j \in Jobs /\ att[t].pc = "deliver" /\ DeliverTx(t, j)
    BY <1>17, DeliverStepEffect
  <2>2. CASE deliveries[t].job = j
    BY <2>1, <2>2, <1>a DEF DeliverTx, meterVars
  <2>3. CASE deliveries[t].job # j
    <3>1. row[j].state # "absent"
      BY <2>1 DEF SentIsRecorded
    <3>2. /\ \A i \in Jobs : row'[i].takenBy = row[i].takenBy
          /\ \A i \in Jobs : row'[i].answer =
               (IF i = j /\ Verdict(j) = "accepted" THEN t ELSE row[i].answer)
          /\ deliveries'[t] = [job |-> j, verdict |-> Verdict(j), paid |-> att[t].paid,
                               late |-> att[t].left = 0]
          /\ \A u \in Takers : u # t =>
               deliveries'[u] = deliveries[u] \/ deliveries'[u] = NoDelivery
      BY <2>1, <2>3, DeliverEffect
    <3>3. row'[j].answer # None
      BY <2>1, <3>1, <3>2 DEF Verdict
    <3>4. att[t].left # 0 => row'[j].takenBy = t
      <4>1. att[t].left \in Nat
        BY DEF TypeOK, Attempt
      <4>2. QED
        BY <2>1, <3>2, <4>1 DEF HoldInv
    <3>5. ASSUME NEW u \in Takers, deliveries'[u].job # None
          PROVE  /\ row'[deliveries'[u].job].answer # None
                 /\ ~deliveries'[u].late => row'[deliveries'[u].job].takenBy \in {u, None}
      <4>1. CASE u = t
        <5>1. deliveries'[t].job = j
          BY <3>2
        <5>2. deliveries'[t].late = (att[t].left = 0)
          BY <3>2
        <5>3. QED
          BY <4>1, <5>1, <5>2, <3>3, <3>4
      <4>2. CASE u # t
        <5>1. deliveries'[u] = deliveries[u]
          BY <3>2, <3>5, <4>2 DEF NoDelivery
        <5>2. QED
          BY <1>a, <2>1, <3>2, <3>5, <5>1
      <4>3. QED
        BY <4>1, <4>2
    <3>6. QED
      BY <3>5
  <2>4. QED
    BY <2>2, <2>3
<1>18. ASSUME NEW t \in Takers, DeliverFails(t) PROVE DeliveryInv'
  BY <1>18, <1>a, FailEffect
<1>19. ASSUME NEW t \in Takers, ReleaseJob(t) PROVE DeliveryInv'
  BY <1>19, <1>a, ReleaseJobEffect, IdleFields
<1>20. ASSUME NEW t \in Takers, Die(t) PROVE DeliveryInv'
  BY <1>20, <1>a, DieEffect, IdleFields
<1>21. ASSUME NEW t \in Takers, NEW paid \in BOOLEAN, CallReturns(t, paid) PROVE DeliveryInv'
  BY <1>21, <1>a, ReturnEffect
<1>22. ASSUME NEW m \in queue, LoseMessage(m) PROVE DeliveryInv'
  BY <1>22, <1>a DEF LoseMessage, harnessVars, meterVars
<1>23. CASE Tick
  BY <1>23, <1>a, TickEffect DEF Less
<1>24. CASE UNCHANGED vars
  BY <1>24 DEF vars
<1> HIDE DEF DeliveryInv
<1>25. QED
  BY <1>1, <1>2, <1>3, <1>4, <1>5, <1>6, <1>7, <1>8, <1>9, <1>10, <1>11, <1>12, <1>13, <1>14, <1>15, <1>16, <1>17, <1>18, <1>19, <1>20, <1>21, <1>22, <1>23, <1>24
  DEF Next, HarnessStep, DispatchStep, ConsumerStep


(* A delivery is metered in the step that decides it, and only there. *)
LEMMA MeterStep ==
  ASSUME TypeOK, IdleInv, StagedInv, AbsentInv, SentIsRecorded, DeliveryInv, MeterInv, [Next]_vars
  PROVE  MeterInv'
<1>a. \A u \in Takers : deliveries[u] # NoDelivery => deliveries[u].job \in Jobs
  BY DEF TypeOK, Delivery
<1>b. \A u \in Takers : deliveries[u].verdict = "accepted" => deliveries[u].job \in Jobs
  BY DEF TypeOK, Delivery, NoDelivery
<1> USE JobsAssumption DEF MeterInv
<1>1. ASSUME NEW j \in Jobs, StartJob(j) PROVE MeterInv'
  BY <1>1, <1>a, <1>b DEF StartJob, consumerVars, meterVars
<1>2. ASSUME NEW j \in Jobs, CommitPoll(j) PROVE MeterInv'
  BY <1>2, <1>a, <1>b, CommitEffect DEF AbsentInv, DeliveryInv
<1>3. ASSUME NEW j \in Jobs, LoseGeneration(j) PROVE MeterInv'
  BY <1>3, <1>a, <1>b DEF LoseGeneration, consumerVars, meterVars
<1>4. ASSUME NEW j \in Jobs, RequestAbort(j) PROVE MeterInv'
  BY <1>4, <1>a, <1>b DEF RequestAbort, consumerVars, meterVars
<1>5. ASSUME NEW j \in Jobs, DropJob(j) PROVE MeterInv'
  BY <1>5, <1>a, <1>b, EndEffect DEF DropJob, Cancelled, consumerVars, meterVars
<1>6. ASSUME NEW j \in Jobs, EndUnread(j) PROVE MeterInv'
  BY <1>6, <1>a, <1>b, EndEffect DEF EndUnread, Cancelled, consumerVars, meterVars
<1>7. ASSUME NEW j \in Jobs, Consume(j) PROVE MeterInv'
  BY <1>7, <1>a, <1>b, EndEffect DEF Consume, consumerVars, meterVars
<1>8. ASSUME NEW j \in Jobs, DispatchSend(j) PROVE MeterInv'
  BY <1>8, <1>a, <1>b, FreshMessage DEF DispatchSend, harnessVars, meterVars
<1>9. ASSUME NEW j \in Jobs, DispatchFail(j) PROVE MeterInv'
  BY <1>9, <1>a, <1>b, FreshMessage DEF DispatchFail, harnessVars, meterVars
<1>10. ASSUME NEW j \in Jobs, DispatchMark(j) PROVE MeterInv'
  BY <1>10, <1>a, <1>b, EndEffect DEF DispatchMark, harnessVars, consumerVars, meterVars
<1>11. CASE Sweep
  BY <1>11, <1>a, <1>b DEF Sweep, SweepDue, harnessVars, consumerVars, meterVars
<1>12. CASE Evict
  BY <1>12, <1>a, <1>b DEF Evict, consumerVars, meterVars
<1>13. ASSUME NEW t \in Takers, NEW m \in queue, Receive(t, m) PROVE MeterInv'
  BY <1>13, <1>a, <1>b, ReceiveEffect
<1>14. ASSUME NEW t \in Takers, TakeJob(t) PROVE MeterInv'
  BY <1>14, <1>a, <1>b, TakeJobEffect, IdleFields
<1>15. ASSUME NEW t \in Takers, TakeFails(t) PROVE MeterInv'
  BY <1>15, <1>a, <1>b, TakeFailsEffect, IdleFields
<1>16. ASSUME NEW t \in Takers, CallFails(t) PROVE MeterInv'
  BY <1>16, <1>a, <1>b, FailEffect
<1>17. ASSUME NEW t \in Takers, Deliver(t) PROVE MeterInv'
  <2> DEFINE j == att[t].job
  <2>1. j \in Jobs /\ att[t].pc = "deliver" /\ DeliverTx(t, j)
    BY <1>17, DeliverStepEffect
  <2>2. /\ \A u \in Takers : u # t => att'[u] = att[u]
        /\ att'[t].pc # "idle" => att'[t].job = j
    BY <1>17, DeliverStepEffect, IdleFields
  <2>3. CASE deliveries[t].job = j
    <3>1. UNCHANGED <<row, deliveries, charged, metered>>
      BY <2>1, <2>3 DEF DeliverTx, meterVars
    <3>2. deliveries[t] # NoDelivery
      BY <2>1, <2>3 DEF NoDelivery
    <3>3. QED
      BY <2>1, <2>2, <2>3, <3>1, <3>2
  <2>4. CASE deliveries[t].job # j
    <3>1. row[j].state # "absent"
      BY <2>1 DEF SentIsRecorded
    <3>2. deliveries[t] = NoDelivery /\ metered[t] = 0
      BY <2>1, <2>4
    <3>3. /\ \A i \in Jobs : row'[i].answer =
               (IF i = j /\ Verdict(j) = "accepted" THEN t ELSE row[i].answer)
          /\ deliveries'[t] = [job |-> j, verdict |-> Verdict(j), paid |-> att[t].paid,
                               late |-> att[t].left = 0]
          /\ \A u \in Takers : u # t =>
               \/ deliveries'[u] = deliveries[u]
               \/ deliveries'[u] = NoDelivery /\ att[u].pc = "idle"
          /\ \A i \in Jobs : charged'[i] =
               (IF i = j /\ Verdict(j) = "accepted" /\ att[t].paid THEN charged[i] + 1 ELSE charged[i])
          /\ \A u \in Takers : metered'[u] =
               (IF u = t /\ att[t].paid THEN metered[u] + 1 ELSE metered[u])
      BY <2>1, <2>4, DeliverEffect
    <3>4. /\ deliveries'[t].job = j /\ deliveries'[t].verdict = Verdict(j)
          /\ deliveries'[t].paid = att[t].paid
      BY <3>3
    <3>5. /\ Verdict(j) = "accepted" <=> row[j].answer = None
          /\ att[t].paid \in BOOLEAN
      BY <2>1, <3>1 DEF Verdict, TypeOK, Attempt
    <3>6. \A u \in Takers : att'[u].pc # "idle" =>
            IF deliveries'[u] = NoDelivery THEN metered'[u] = 0 ELSE deliveries'[u].job = att'[u].job
      <4>1. deliveries'[t] # NoDelivery
        BY <2>1, <3>4 DEF NoDelivery
      <4>2. QED
        BY <2>1, <2>2, <3>3, <3>4, <4>1
    <3>7. \A i \in Jobs : charged'[i] <= 1 /\ (row'[i].answer = None => charged'[i] = 0)
      <4>1. \A i \in Jobs : charged[i] \in Nat
        BY DEF TypeOK
      <4>2. t # None
        OBVIOUS
      <4>3. QED
        BY <2>1, <3>3, <3>5, <4>1, <4>2
    <3>8. \A u \in Takers : deliveries'[u] # NoDelivery =>
            metered'[u] = (IF deliveries'[u].paid THEN 1 ELSE 0)
      <4>1. metered'[t] = (IF deliveries'[t].paid THEN 1 ELSE 0)
        BY <3>2, <3>3, <3>4, <3>5
      <4>2. QED
        BY <3>3, <4>1
    <3>9. ASSUME NEW u \in Takers, deliveries'[u].verdict = "accepted"
          PROVE  /\ row'[deliveries'[u].job].answer = u
                 /\ charged'[deliveries'[u].job] = (IF deliveries'[u].paid THEN 1 ELSE 0)
      <4>1. CASE u = t
        <5>1. Verdict(j) = "accepted" /\ charged[j] = 0
          BY <2>1, <3>4, <3>5, <3>9, <4>1
        <5>2. QED
          BY <2>1, <3>3, <3>4, <4>1, <5>1
      <4>2. CASE u # t
        <5>1. deliveries'[u] = deliveries[u]
          BY <3>3, <3>9, <4>2 DEF NoDelivery
        <5>2. row[deliveries[u].job].answer = u /\ deliveries[u].job \in Jobs
          BY <1>b, <3>9, <5>1
        <5>3. ~(deliveries[u].job = j /\ Verdict(j) = "accepted")
          BY <3>5, <5>2
        <5>4. QED
          BY <3>3, <3>9, <5>1, <5>2, <5>3
      <4>3. QED
        BY <4>1, <4>2
    <3>10. QED
      BY <3>6, <3>7, <3>8, <3>9
  <2>5. QED
    BY <2>3, <2>4
<1>18. ASSUME NEW t \in Takers, DeliverFails(t) PROVE MeterInv'
  BY <1>18, <1>a, <1>b, FailEffect
<1>19. ASSUME NEW t \in Takers, ReleaseJob(t) PROVE MeterInv'
  BY <1>19, <1>a, <1>b, ReleaseJobEffect, IdleFields
<1>20. ASSUME NEW t \in Takers, Die(t) PROVE MeterInv'
  BY <1>20, <1>a, <1>b, DieEffect, IdleFields
<1>21. ASSUME NEW t \in Takers, NEW paid \in BOOLEAN, CallReturns(t, paid) PROVE MeterInv'
  BY <1>21, <1>a, <1>b, ReturnEffect
<1>22. ASSUME NEW m \in queue, LoseMessage(m) PROVE MeterInv'
  BY <1>22, <1>a, <1>b DEF LoseMessage, harnessVars, meterVars
<1>23. CASE Tick
  BY <1>23, <1>a, <1>b, TickEffect DEF Less
<1>24. CASE UNCHANGED vars
  BY <1>24 DEF vars
<1> HIDE DEF MeterInv
<1>25. QED
  BY <1>1, <1>2, <1>3, <1>4, <1>5, <1>6, <1>7, <1>8, <1>9, <1>10, <1>11, <1>12, <1>13, <1>14, <1>15, <1>16, <1>17, <1>18, <1>19, <1>20, <1>21, <1>22, <1>23, <1>24
  DEF Next, HarnessStep, DispatchStep, ConsumerStep


(* A second answer in its hold finds the job taken by another, or by none. *)
LEMMA PaidStep ==
  ASSUME TypeOK, IdleInv, HoldInv, DeliveryInv, DeliveredInHold, [Next]_vars
  PROVE  DeliveredInHold'
<1>1. ASSUME NEW t \in Takers, Deliver(t) PROVE DeliveredInHold'
  <2> DEFINE j == att[t].job
  <2>1. j \in Jobs /\ att[t].pc = "deliver" /\ DeliverTx(t, j)
    BY <1>1, DeliverStepEffect
  <2>2. CASE deliveries[t].job = j
    BY <2>1, <2>2 DEF DeliverTx, meterVars, DeliveredInHold
  <2>3. CASE deliveries[t].job # j
    <3>1. /\ deliveries'[t] = [job |-> j, verdict |-> Verdict(j), paid |-> att[t].paid,
                               late |-> att[t].left = 0]
          /\ \A u \in Takers : u # t =>
               deliveries'[u] = deliveries[u] \/ deliveries'[u] = NoDelivery
      BY <2>1, <2>3, DeliverEffect
    <3>2. deliveries'[t].job = j
      BY <3>1
    <3>3. deliveries'[t].late = (att[t].left = 0)
      BY <3>1
    <3>4. att[t].left # 0 => row[j].takenBy = t
      <4>1. att[t].left \in Nat
        BY JobsAssumption DEF TypeOK, Attempt
      <4>2. QED
        BY <2>1, <4>1 DEF HoldInv
    <3>5. ASSUME NEW u \in Takers, u # t, deliveries'[u].job = j
          PROVE  deliveries'[t].late \/ deliveries'[u].late
      <4>1. deliveries'[u] = deliveries[u]
        BY <2>1, <3>1, <3>5, JobsAssumption DEF NoDelivery
      <4>2. ~deliveries[u].late => row[j].takenBy \in {u, None}
        BY <2>1, <3>5, <4>1, JobsAssumption DEF DeliveryInv
      <4>3. CASE att[t].left = 0
        BY <3>3, <4>3
      <4>4. CASE att[t].left # 0
        BY <3>4, <3>5, <4>1, <4>2, <4>4, JobsAssumption
      <4>5. QED
        BY <4>3, <4>4
    <3>6. ASSUME NEW u \in Takers, NEW v \in Takers, u # v, u # t, v # t,
                 deliveries'[u].job # None, deliveries'[u].job = deliveries'[v].job
          PROVE  deliveries'[u].late \/ deliveries'[v].late
      <4>1. deliveries'[u] = deliveries[u] /\ deliveries'[v] = deliveries[v]
        BY <3>1, <3>6 DEF NoDelivery
      <4>2. QED
        BY <3>6, <4>1 DEF DeliveredInHold
    <3>7. QED
      BY <3>2, <3>5, <3>6 DEF DeliveredInHold
  <2>4. QED
    BY <2>2, <2>3
<1>2. CASE UNCHANGED deliveries
  BY <1>2 DEF DeliveredInHold
<1>3. (\E t \in Takers : Deliver(t)) \/ UNCHANGED deliveries
  BY DEF Next, vars, HarnessStep, DispatchStep, ConsumerStep, StartJob, CommitPoll,
         LoseGeneration, RequestAbort, DropJob, EndUnread, Consume, DispatchSend,
         DispatchFail, DispatchMark, Sweep, Evict, Receive, TakeJob, TakeFails,
         CallReturns, CallFails, DeliverFails, ReleaseJob, Die, LoseMessage, Tick, meterVars
<1>4. QED
  BY <1>1, <1>2, <1>3

-----------------------------------------------------------------------------
(* The theorems *)

(* The invariant holds at first. *)
LEMMA InitInv == Init => IndInv
<1> SUFFICES ASSUME Init PROVE IndInv
  OBVIOUS
<1>1. TypeOK
  <2>1. NoRow \in Row /\ Idle \in Attempt
    BY JobsAssumption DEF NoRow, Row, Idle, Attempt
  <2>2. QED
    BY <2>1, JobsAssumption DEF Init, TypeOK
<1>2. StagedInv /\ PollHasRow /\ IdleInv
  <2>1. \A j \in Jobs : gen[j] = "unborn"
    BY DEF Init
  <2>2. \A t \in Takers : att[t] = Idle
    BY DEF Init
  <2>3. QED
    BY <2>1, <2>2, IdleFields DEF StagedInv, PollHasRow, IdleInv
<1>3. AbsentInv /\ SentIsRecorded
  BY IdleFields DEF Init, AbsentInv, SentIsRecorded, NoRow
<1>4. HoldInv
  BY IdleFields DEF Init, HoldInv
<1>5. DeliveryInv /\ DeliveredInHold
  BY DEF Init, DeliveryInv, DeliveredInHold, NoDelivery
<1>6. MeterInv
  BY IdleFields, JobsAssumption DEF Init, MeterInv, NoDelivery
<1>7. QED
  BY <1>1, <1>2, <1>3, <1>4, <1>5, <1>6 DEF IndInv

(* The invariant is kept by every step. *)
LEMMA StepInv == IndInv /\ [Next]_vars => IndInv'
BY TypeStep, StagedStep, IdleStep, SentStep, HoldStep, DeliveryStep, PaidStep, MeterStep
DEF IndInv

(* All of the invariant, for ModelJobs at large. *)
THEOREM Invariance == Spec => []IndInv
BY InitInv, StepInv, PTL DEF Spec

(* Rows, messages, attempts and deliveries keep their types whatever is    *)
(* resent, retried, evicted or lost.                                       *)
THEOREM Typing == Spec => []TypeOK
<1>1. IndInv => TypeOK
  BY DEF IndInv
<1>2. QED
  BY <1>1, Invariance, PTL

(* takeJob's hold: no job ever has two provider calls open, for any number *)
(* of jobs, messages and attempts.                                         *)
THEOREM OneCall == Spec => []AtMostOneCall
<1>1. IndInv => AtMostOneCall
  <2> SUFFICES ASSUME IndInv, NEW t \in Takers, NEW u \in Takers,
                      att[t].pc = "call", att[u].pc = "call", att[t].job = att[u].job
               PROVE  t = u
    BY DEF AtMostOneCall
  <2>1. att[t].left \in Nat /\ att[u].left \in Nat
    BY JobsAssumption DEF IndInv, TypeOK, Attempt
  <2>2. att[t].left > 0 /\ att[u].left > 0
    BY <2>1, JobsAssumption DEF IndInv, HoldInv
  <2>3. row[att[t].job].takenBy = t /\ row[att[u].job].takenBy = u
    BY <2>2 DEF IndInv, HoldInv
  <2>4. QED
    BY <2>3
<1>2. QED
  BY <1>1, Invariance, PTL

(* takeJob's hold again: a job is never in the hold of two attempts, be    *)
(* they calling, delivering or done.                                       *)
THEOREM OneInHold == Spec => []OneTakerInHold
<1>1. IndInv => OneTakerInHold
  <2> SUFFICES ASSUME IndInv, NEW t \in Takers, NEW u \in Takers, NEW j \in Jobs,
                      InHold(t, j), InHold(u, j), t # u
               PROVE  FALSE
    BY DEF OneTakerInHold
  <2>1. j # None /\ t # None /\ u # None
    BY JobsAssumption
  <2>2. \A v \in Takers : att[v].job = j /\ att[v].pc \in {"call", "deliver"} /\ att[v].left > 0
                            => row[j].takenBy = v
    BY DEF IndInv, HoldInv
  <2>3. \A v \in Takers : deliveries[v].job = j /\ ~deliveries[v].late
                            => row[j].takenBy \in {v, None}
    BY <2>1 DEF IndInv, DeliveryInv
  <2>4. ~(deliveries[t].job = j /\ ~deliveries[t].late
          /\ deliveries[u].job = j /\ ~deliveries[u].late)
    BY <2>1 DEF IndInv, DeliveredInHold
  <2>5. QED
    BY <2>1, <2>2, <2>3, <2>4 DEF InHold
<1>2. QED
  BY <1>1, Invariance, PTL

(* The commit hook leaves no poll without its row. *)
THEOREM PollRecorded == Spec => []PollHasRow
<1>1. IndInv => PollHasRow
  BY DEF IndInv
<1>2. QED
  BY <1>1, Invariance, PTL

(* What a generation that died before its commit staged is never sent. *)
THEOREM OnlyRecordedSent == Spec => []SentIsRecorded
<1>1. IndInv => SentIsRecorded
  BY DEF IndInv
<1>2. QED
  BY <1>1, Invariance, PTL

(* deliver meters a paid attempt once, and charges the tenant for the      *)
(* accepted answer of a job and no other, when that was paid for.          *)
THEOREM Metering == Spec => []MeteredOnce
<1>1. IndInv => MeteredOnce
  <2>1. ASSUME IndInv PROVE \A j \in Jobs : charged[j] = 1 => row[j].answer # None
    BY <2>1 DEF IndInv, MeterInv
  <2>2. QED
    BY <2>1 DEF IndInv, MeterInv, MeteredOnce
<1>2. QED
  BY <1>1, Invariance, PTL

-----------------------------------------------------------------------------
(* Refinement *)

(* A step that leaves status, answer and charge is none of ModelCall's. *)
LEMMA CallStutters ==
  ASSUME \A i \in Jobs : row'[i].state = row[i].state /\ row'[i].answer = row[i].answer,
         charged' = charged
  PROVE  UNCHANGED Call!callVars
BY DEF Call!callVars

(* Every step of the jobs is a step of ModelCall, or none. *)
LEMMA CallStep ==
  ASSUME IndInv, [Next]_vars
  PROVE  [Call!CallNext]_(Call!callVars)
<1> DEFINE Goal == [Call!CallNext]_(Call!callVars)
<1>0. TypeOK /\ IdleInv /\ StagedInv /\ AbsentInv /\ row \in [Jobs -> Row]
  BY DEF IndInv, TypeOK
<1>1. ASSUME NEW j \in Jobs, CommitPoll(j) PROVE Goal
  <2>1. row' = RecordJob(j) /\ charged' = charged
    BY <1>1 DEF CommitPoll, meterVars
  <2>2. CASE row' = row
    BY <2>1, <2>2, CallStutters
  <2>3. CASE row' # row
    <3>1. /\ row[j].state = "absent" /\ row'[j].state = "out"
          /\ \A i \in Jobs : row'[i].answer = row[i].answer
          /\ \A i \in Jobs : i # j => row'[i].state = row[i].state
      BY <1>0, <2>1, <2>3, RecordEffect DEF AbsentInv
    <3>2. Call!Record(j)
      BY <2>1, <3>1 DEF Call!Record
    <3>3. QED
      BY <3>2 DEF Call!CallNext
  <2>4. QED
    BY <2>2, <2>3
<1>2. ASSUME NEW j \in Jobs, DropJob(j) \/ EndUnread(j) PROVE Goal
  <2>1. row' = Cancelled(j) /\ charged' = charged
    BY <1>2 DEF DropJob, EndUnread, meterVars
  <2>2. CASE row[j].state # "out"
    BY <2>1, <2>2, CallStutters DEF Cancelled
  <2>3. CASE row[j].state = "out"
    <3>1. row' = [row EXCEPT ![j] = [row[j] EXCEPT !.state = "cancelled"]]
      BY <1>0, <2>1, <2>3 DEF Cancelled
    <3>2. /\ [row[j] EXCEPT !.state = "cancelled"].state = "cancelled"
          /\ [row[j] EXCEPT !.state = "cancelled"].answer = row[j].answer
      BY <1>0 DEF Row
    <3>3. Call!CancelCall(j)
      BY <1>0, <2>1, <2>3, <3>1, <3>2 DEF Call!CancelCall
    <3>4. QED
      BY <3>3 DEF Call!CallNext
  <2>4. QED
    BY <2>2, <2>3
<1>3. ASSUME NEW j \in Jobs, Consume(j) PROVE Goal
  <2>1. charged' = charged /\ row[j].answer # None
    BY <1>3 DEF Consume, meterVars
  <2>2. CASE row[j].state # "out"
    BY <1>3, <2>1, <2>2, CallStutters DEF Consume
  <2>3. CASE row[j].state = "out"
    <3>1. row' = [row EXCEPT ![j] = [row[j] EXCEPT !.state = "consumed"]]
      BY <1>0, <1>3, <2>3 DEF Consume
    <3>2. /\ [row[j] EXCEPT !.state = "consumed"].state = "consumed"
          /\ [row[j] EXCEPT !.state = "consumed"].answer = row[j].answer
      BY <1>0 DEF Row
    <3>3. Call!ConsumeCall(j)
      BY <1>0, <2>1, <2>3, <3>1, <3>2 DEF Call!ConsumeCall
    <3>4. QED
      BY <3>3 DEF Call!CallNext
  <2>4. QED
    BY <2>2, <2>3
<1>4. ASSUME NEW t \in Takers, Deliver(t) PROVE Goal
  <2> DEFINE j == att[t].job
  <2>1. j \in Jobs /\ DeliverTx(t, j)
    BY <1>0, <1>4, DeliverStepEffect
  <2>2. CASE deliveries[t].job = j
    BY <2>1, <2>2, CallStutters DEF DeliverTx, meterVars
  <2>3. CASE deliveries[t].job # j
    <3>1. /\ \A i \in Jobs : row'[i].state = row[i].state
          /\ \A i \in Jobs : row'[i].answer =
               (IF i = j /\ Verdict(j) = "accepted" THEN t ELSE row[i].answer)
          /\ charged' \in [Jobs -> Nat]
          /\ \A i \in Jobs : charged'[i] =
               (IF i = j /\ Verdict(j) = "accepted" /\ att[t].paid THEN charged[i] + 1 ELSE charged[i])
      BY <1>0, <2>1, <2>3, DeliverEffect
    <3>2. charged \in [Jobs -> Nat] /\ att[t].paid \in BOOLEAN
      BY <1>0 DEF TypeOK, Attempt
    <3>3. CASE Verdict(j) # "accepted"
      <4>1. charged' = charged
        BY <3>1, <3>2, <3>3
      <4>2. QED
        BY <3>1, <3>3, <4>1, CallStutters
    <3>4. CASE Verdict(j) = "accepted"
      <4>1. row[j].state # "absent" /\ row[j].answer = None /\ charged[j] = 0
        BY <2>1, <3>4 DEF Verdict, IndInv, MeterInv
      <4>2. charged' = IF att[t].paid THEN [charged EXCEPT ![j] = 1] ELSE charged
        BY <2>1, <3>1, <3>2, <3>4, <4>1
      <4>3. CASE att[t].paid
        <5>1. Call!Answer(j, t, TRUE)
          BY <2>1, <3>1, <3>4, <4>1, <4>2, <4>3 DEF Call!Answer
        <5>2. QED
          BY <2>1, <5>1 DEF Call!CallNext
      <4>4. CASE ~att[t].paid
        <5>1. Call!Answer(j, t, FALSE)
          BY <2>1, <3>1, <3>4, <4>1, <4>2, <4>4 DEF Call!Answer
        <5>2. QED
          BY <2>1, <5>1 DEF Call!CallNext
      <4>5. QED
        BY <4>3, <4>4
    <3>5. QED
      BY <3>3, <3>4
  <2>4. QED
    BY <2>2, <2>3
<1>5. ASSUME NEW t \in Takers, TakeJob(t) \/ TakeFails(t) \/ ReleaseJob(t) PROVE Goal
  BY <1>0, <1>5, TakeJobEffect, TakeFailsEffect, ReleaseJobEffect, CallStutters
<1>6. ASSUME NEW j \in Jobs, DispatchMark(j) PROVE Goal
  <2>1. /\ row' = [row EXCEPT ![j] = [row[j] EXCEPT !.resend = RedeliveryTicks]]
        /\ charged' = charged
    BY <1>0, <1>6 DEF DispatchMark, meterVars
  <2>2. /\ [row[j] EXCEPT !.resend = RedeliveryTicks].state = row[j].state
        /\ [row[j] EXCEPT !.resend = RedeliveryTicks].answer = row[j].answer
    BY <1>0 DEF Row
  <2>3. QED
    BY <1>0, <2>1, <2>2, CallStutters
<1>7. ASSUME Tick PROVE Goal
  BY <1>0, <1>7, TickEffect, CallStutters
<1>8. ASSUME row' = row, charged' = charged PROVE Goal
  BY <1>8, CallStutters
<1>9. QED
  BY <1>1, <1>2, <1>3, <1>4, <1>5, <1>6, <1>7, <1>8
  DEF Next, vars, HarnessStep, DispatchStep, ConsumerStep, StartJob, LoseGeneration,
      RequestAbort, DispatchSend, DispatchFail, Sweep, Evict, Receive, CallReturns,
      CallFails, DeliverFails, Die, LoseMessage, meterVars

(* Queue, takes, sweeps, evictions and retries together are no more than   *)
(* ModelCall allows: one answer a job, never replaced, billed at most once.*)
THEOREM Refinement == Spec => ImplementsModelCall
<1>1. Init => Call!CallInit
  BY DEF Init, NoRow, Call!CallInit
<1>2. QED
  BY <1>1, CallStep, Invariance, PTL DEF Spec, ImplementsModelCall, Call!CallSpec

-----------------------------------------------------------------------------
(* What a poll waits on, and what is final *)

(* Where a generation is and what its job's row says agree. A live poll    *)
(* waits on a job that is out: nothing but its own end cancels or consumes *)
(* it. A job with no commit has no row, one whose poll ended is closed,    *)
(* and a job was consumed only with its answer.                            *)
PollAwaitsItsJob ==
  \A j \in Jobs :
    /\ gen[j] \in {"unborn", "staged", "lost"} => row[j].state = "absent"
    /\ gen[j] = "poll" => row[j].state = "out"
    /\ gen[j] = "aborting" => row[j].state \in {"out", "cancelled"}
    /\ gen[j] = "ended" => row[j].state \in {"consumed", "cancelled"}
    /\ row[j].state = "consumed" => row[j].answer # None

(* A step that moves no generation and no status, and takes back no        *)
(* answer, keeps the agreement.                                            *)
LEMMA PollKept ==
  ASSUME PollAwaitsItsJob, gen' = gen,
         \A i \in Jobs : /\ row'[i].state = row[i].state
                         /\ row[i].answer # None => row'[i].answer # None
  PROVE  PollAwaitsItsJob'
BY DEF PollAwaitsItsJob

(* Every step keeps the agreement: the commits move the generation and the *)
(* row together.                                                           *)
LEMMA PollStep ==
  ASSUME IndInv, PollAwaitsItsJob, [Next]_vars
  PROVE  PollAwaitsItsJob'
<1>0. /\ TypeOK /\ IdleInv /\ StagedInv /\ AbsentInv
      /\ row \in [Jobs -> Row]
      /\ gen \in [Jobs -> {"unborn", "staged", "lost", "poll", "aborting", "ended"}]
  BY DEF IndInv, TypeOK
<1>1. ASSUME NEW j \in Jobs, StartJob(j) \/ LoseGeneration(j) \/ RequestAbort(j)
      PROVE  PollAwaitsItsJob'
  <2>1. row' = row /\ \A i \in Jobs : i # j => gen'[i] = gen[i]
    BY <1>0, <1>1 DEF StartJob, LoseGeneration, RequestAbort
  <2>2. \/ gen[j] \in {"unborn", "staged"} /\ gen'[j] \in {"staged", "lost"}
        \/ gen[j] = "poll" /\ gen'[j] = "aborting"
    BY <1>0, <1>1 DEF StartJob, LoseGeneration, RequestAbort
  <2>3. QED
    BY <2>1, <2>2 DEF PollAwaitsItsJob
<1>2. ASSUME NEW j \in Jobs, CommitPoll(j) PROVE PollAwaitsItsJob'
  <2>1. gen[j] = "staged" /\ row[j].state = "absent" /\ row' = RecordJob(j)
    BY <1>2 DEF CommitPoll, PollAwaitsItsJob
  <2>2. /\ gen'[j] = "poll" /\ row'[j].state # "absent"
        /\ \A i \in Jobs : i # j => gen'[i] = gen[i] /\ row'[i] = row[i]
    BY <1>0, <1>2, CommitEffect
  <2>3. row'[j].state = "out"
    BY <1>0, <2>1, <2>2, RecordEffect
  <2>4. QED
    BY <2>2, <2>3 DEF PollAwaitsItsJob
<1>3. ASSUME NEW j \in Jobs, DropJob(j) \/ EndUnread(j) \/ Consume(j) PROVE PollAwaitsItsJob'
  <2>1. ASSUME NEW s \in {"consumed", "cancelled"}
        PROVE  /\ [row[j] EXCEPT !.state = s].state = s
               /\ [row[j] EXCEPT !.state = s].answer = row[j].answer
    BY <1>0 DEF Row
  <2>2. CASE DropJob(j)
    <3>1. gen' = gen /\ gen[j] = "aborting"
          /\ row' = IF row[j].state = "out"
                    THEN [row EXCEPT ![j] = [row[j] EXCEPT !.state = "cancelled"]] ELSE row
      BY <1>0, <2>2 DEF DropJob, Cancelled
    <3>2. QED
      BY <1>0, <2>1, <3>1 DEF PollAwaitsItsJob
  <2>3. CASE EndUnread(j)
    <3>1. /\ gen' = [gen EXCEPT ![j] = "ended"] /\ gen[j] \in {"poll", "aborting"}
          /\ row' = IF row[j].state = "out"
                    THEN [row EXCEPT ![j] = [row[j] EXCEPT !.state = "cancelled"]] ELSE row
      BY <1>0, <2>3 DEF EndUnread, Cancelled
    <3>2. row[j].state \in {"out", "cancelled"}
      BY <3>1 DEF PollAwaitsItsJob
    <3>3. row'[j].state = "cancelled" /\ gen'[j] = "ended"
          /\ \A i \in Jobs : i # j => row'[i] = row[i] /\ gen'[i] = gen[i]
      BY <1>0, <2>1, <3>1, <3>2
    <3>4. QED
      BY <3>3 DEF PollAwaitsItsJob
  <2>4. CASE Consume(j)
    <3>1. /\ gen' = [gen EXCEPT ![j] = "ended"] /\ gen[j] = "poll" /\ row[j].answer # None
          /\ row' = IF row[j].state = "out"
                    THEN [row EXCEPT ![j] = [row[j] EXCEPT !.state = "consumed"]] ELSE row
      BY <1>0, <2>4 DEF Consume
    <3>2. row[j].state = "out"
      BY <3>1 DEF PollAwaitsItsJob
    <3>3. row'[j].state = "consumed" /\ row'[j].answer # None /\ gen'[j] = "ended"
          /\ \A i \in Jobs : i # j => row'[i] = row[i] /\ gen'[i] = gen[i]
      BY <1>0, <2>1, <3>1, <3>2
    <3>4. QED
      BY <3>3 DEF PollAwaitsItsJob
  <2>5. QED
    BY <1>3, <2>2, <2>3, <2>4
<1>4. CASE Evict
  <2>1. row' = row /\ \A i \in Jobs : gen'[i] = IF gen[i] = "staged" THEN "lost" ELSE gen[i]
    BY <1>4 DEF Evict
  <2>2. QED
    BY <2>1 DEF PollAwaitsItsJob
<1>5. ASSUME NEW t \in Takers, TakeJob(t) \/ TakeFails(t) \/ ReleaseJob(t) PROVE PollAwaitsItsJob'
  BY <1>0, <1>5, TakeJobEffect, TakeFailsEffect, ReleaseJobEffect, PollKept
<1>6. ASSUME NEW t \in Takers, Deliver(t) PROVE PollAwaitsItsJob'
  BY <1>0, <1>6, DeliverStepEffect, PollKept
<1>7. ASSUME NEW j \in Jobs, DispatchMark(j) PROVE PollAwaitsItsJob'
  <2>1. /\ row' = [row EXCEPT ![j] = [row[j] EXCEPT !.resend = RedeliveryTicks]]
        /\ gen' = gen
    BY <1>0, <1>7 DEF DispatchMark, harnessVars
  <2>2. /\ [row[j] EXCEPT !.resend = RedeliveryTicks].state = row[j].state
        /\ [row[j] EXCEPT !.resend = RedeliveryTicks].answer = row[j].answer
    BY <1>0 DEF Row
  <2>3. QED
    BY <1>0, <2>1, <2>2, PollKept
<1>8. CASE Tick
  BY <1>0, <1>8, TickEffect, PollKept
<1>9. ASSUME row' = row, gen' = gen PROVE PollAwaitsItsJob'
  BY <1>9, PollKept
<1>10. QED
  BY <1>1, <1>2, <1>3, <1>4, <1>5, <1>6, <1>7, <1>8, <1>9
  DEF Next, vars, HarnessStep, DispatchStep, ConsumerStep, DispatchSend, DispatchFail, Sweep,
      Receive, CallReturns, CallFails, DeliverFails, Die, LoseMessage, harnessVars

(* A poll that has not ended is never left on a job that was cancelled or  *)
(* consumed under it, whatever aborts, drops, evictions and late answers   *)
(* come between: with JobEnds, that the job's answer comes is what the     *)
(* poll can wait for.                                                      *)
THEOREM PollAwaited == Spec => []PollAwaitsItsJob
<1>1. Init => PollAwaitsItsJob
  BY DEF Init, NoRow, PollAwaitsItsJob
<1>2. QED
  BY <1>1, PollStep, Invariance, PTL DEF Spec

(* What the job's readers rely on: an answer is never replaced or taken    *)
(* back and never billed after the fact, a row never goes and a closed job *)
(* is never reopened.                                                      *)
Final ==
  \A j \in Jobs :
    /\ row[j].answer # None => row'[j].answer = row[j].answer /\ charged'[j] = charged[j]
    /\ row[j].state # "absent" => row'[j].state # "absent"
    /\ row[j].state \in {"consumed", "cancelled"} => row'[j].state = row[j].state

(* No resend, replay, late delivery, abort or eviction undoes an answer or *)
(* an end. It is read off ModelCall, which the jobs implement.             *)
THEOREM AnswersFinal == Spec => [][Final]_vars
<1>1. ASSUME IndInv, [Next]_vars PROVE Final
  <2>1. /\ charged \in [Jobs -> Nat]
        /\ \A j \in Jobs : row[j].state = "absent" => row[j].answer = None
    BY <1>1 DEF IndInv, TypeOK, AbsentInv
  <2>2. [Call!CallNext]_(Call!callVars)
    BY <1>1, CallStep
  <2>3. CASE UNCHANGED Call!callVars
    BY <2>3 DEF Call!callVars, Final
  <2>4. ASSUME NEW j \in Jobs, Call!Record(j) PROVE Final
    BY <2>1, <2>4 DEF Call!Record, Final
  <2>5. ASSUME NEW j \in Jobs, NEW t \in Takers, NEW paid \in BOOLEAN, Call!Answer(j, t, paid)
        PROVE  Final
    BY <2>1, <2>5 DEF Call!Answer, Final
  <2>6. ASSUME NEW j \in Jobs, Call!CancelCall(j) PROVE Final
    BY <2>6 DEF Call!CancelCall, Final
  <2>7. ASSUME NEW j \in Jobs, Call!ConsumeCall(j) PROVE Final
    BY <2>7 DEF Call!ConsumeCall, Final
  <2>8. QED
    BY <2>2, <2>3, <2>4, <2>5, <2>6, <2>7 DEF Call!CallNext
<1>2. QED
  BY <1>1, Invariance, PTL DEF Spec

=============================================================================
