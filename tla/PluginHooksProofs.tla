------------------------- MODULE PluginHooksProofs -------------------------
(***************************************************************************)
(* That an end is answered once, that a turn is given to the engine at     *)
(* most once and that no wake is lost, for any mounts, answers and bodies, *)
(* any number of runs, asks and evictions. Beside these the inductive      *)
(* invariant says what the pass knows at each of its awaits: the ends it   *)
(* has yet to tell are owed, the answer it is at is where it left it, and  *)
(* no row of wakes is older than the gen it read.                          *)
(*                                                                         *)
(* From it also: that ends and answers only go forward, and the only ways  *)
(* in which a turn's end carries a key that is not its own.                *)
(***************************************************************************)
EXTENDS PluginHooks, TLAPS

(* The ends the pass has listed are owed, and the one it is telling is not *)
(* among those still to tell.                                              *)
EndsOwed ==
  /\ pass \in {"ends", "end"} => todo \subseteq {r \in Runs : row[r] = "owed"}
  /\ pass = "end" => row[at] = "owed" /\ at \notin todo

(* The answer the pass is at: kept until it is marked, and not written yet *)
(* when the pass is about to write it.                                     *)
AtHand ==
  /\ pass \in {"cancel", "cancelled", "post"} => ans[at].at = "kept"
  /\ pass \in {"say", "said"} => ans[at].at = "posting"
  /\ pass = "say" => posts[at] = 0
  /\ pass \in {"post", "say"} => ans[at].body.turn \in {"main", "alone"}

(* The gen read is at most the row's, and behind it once a wake is asked   *)
(* for during the call.                                                    *)
Gens ==
  /\ \A m \in Mounts : seen[m] <= wake[m]
  /\ pass = "wake" /\ owed[at] # "none" => wake[at] # seen[at]

IndInv == TypeOK /\ EndsOwed /\ AtHand /\ Gens /\ AnsweredOnce /\ PostedOnce /\ WakeKept

(* TypeOK, in parts. *)
LaneTypes ==
  /\ starts \in 0..MaxRuns
  /\ open \subseteq 1..starts /\ short \subseteq 1..starts /\ active \in BOOLEAN
  /\ \A r, s \in mainRun : r = s
  /\ holds \in [Runs -> SUBSET Answers]
  /\ stopping \in 0..MaxRuns

TableTypes ==
  /\ row \in [Runs -> {"none", "owed", "handled"}]
  /\ key \in [Runs -> Answers \cup {None}] /\ asked \in Answers \cup {None}
  /\ wake \in [Mounts -> Nat] /\ due \in [Mounts -> BOOLEAN]
  /\ owed \in [Mounts -> {"none", "later", "now"}]
  /\ answered \in [Runs -> Nat] /\ posts \in [Answers -> Nat]
  /\ asks \in 0..MaxAsks /\ cuts \in 0..MaxCuts

AnswerTypes ==
  /\ ans \in [Answers -> Answer]
  /\ \A k \in Answers : ans[k].at \in {"kept", "posting"} => ans[k].by \in Mounts /\ ans[k].body
     \in Bodies

PassTypes ==
  /\ pass \in {"idle", "step", "record", "ends", "end", "wakes", "wake",
               "answers", "cancel", "cancelled", "post", "say", "said"}
  /\ pass \in {"record", "end"} => at \in Runs
  /\ pass = "wake" => at \in Mounts
  /\ pass \in {"cancel", "cancelled", "post", "say", "said"} => at \in Answers
  /\ op \in 0..MaxRuns /\ (pass = "cancelled" => op # 0)
  /\ todo \subseteq Runs \cup Answers
  /\ pass = "ends" => todo \subseteq Runs
  /\ pass \in {"answers", "cancel", "cancelled", "post", "say", "said"} => todo \subseteq Answers
  /\ seen \in [Mounts -> Nat]

(* The bounds are numbers. *)
LEMMA Bounds == MaxRuns \in Nat /\ MaxAsks \in Nat /\ MaxCuts \in Nat
  BY HooksAssumption

(* TypeOK is its parts, in a state and in the next. *)
LEMMA TypeParts == TypeOK <=> LaneTypes /\ TableTypes /\ AnswerTypes /\ PassTypes
  BY DEF TypeOK, LaneTypes, TableTypes, AnswerTypes, PassTypes

LEMMA TypePartsNext == TypeOK' <=> LaneTypes' /\ TableTypes' /\ AnswerTypes' /\ PassTypes'
  BY DEF TypeOK, LaneTypes, TableTypes, AnswerTypes, PassTypes

(* What is done with an answer is done with one that is kept. *)
LEMMA RouteKeepsTypes ==
  ASSUME AnswerTypes, NEW k \in Answers, ans[k].at = "kept", Route(k, ans[k].body)
  PROVE  AnswerTypes'
<1>1. ans[k].body \in Bodies /\ Waiting(ans[k].body) \in Bodies
  BY HooksAssumption DEF AnswerTypes, Waiting
<1>2. CASE ans' = [ans EXCEPT ![k].body = Waiting(ans[k].body)]
  BY <1>1, <1>2 DEF AnswerTypes, Answer
<1>3. CASE ans' = ans
  BY <1>3 DEF AnswerTypes
<1>4. CASE Drop(k)
  BY <1>4 DEF Drop, AnswerTypes, Answer
<1> QED
  BY <1>2, <1>3, <1>4 DEF Route

(* A wake asked for keeps the types of its row. *)
LEMMA AskKeepsTypes ==
  ASSUME TableTypes, NEW m \in Mounts, NEW now \in BOOLEAN, askWake(m, now)
  PROVE  /\ wake' \in [Mounts -> Nat] /\ due' \in [Mounts -> BOOLEAN]
         /\ owed' \in [Mounts -> {"none", "later", "now"}]
  BY DEF TableTypes, askWake, Set

(* A key bound, and an end recorded, keep the types of their rows. *)
LEMMA BindKeepsTypes ==
  ASSUME TableTypes, NEW r \in Runs, NEW k \in Answers, bindTurn(r, k)
  PROVE  key' \in [Runs -> Answers \cup {None}] /\ asked' \in Answers \cup {None}
  BY DEF TableTypes, bindTurn, Set

LEMMA RecordKeepsTypes ==
  ASSUME TableTypes, NEW r \in Runs, recordTurnEnd(r)
  PROVE  /\ row' \in [Runs -> {"none", "owed", "handled"}]
         /\ key' \in [Runs -> Answers \cup {None}] /\ asked' \in Answers \cup {None}
<1>1. row' \in [Runs -> {"none", "owed", "handled"}]
  BY DEF TableTypes, recordTurnEnd, Set
<1>2. CASE asked # None /\ key[r] = None
  BY <1>1, <1>2, BindKeepsTypes DEF TableTypes, recordTurnEnd
<1>3. CASE ~(asked # None /\ key[r] = None)
  BY <1>1, <1>3 DEF TableTypes, recordTurnEnd
<1> QED
  BY <1>2, <1>3

(* A wake asked for now has a row that is due. *)
LEMMA AskKeepsWake ==
  ASSUME TableTypes, WakeKept, NEW m \in Mounts, askWake(m, TRUE)
  PROVE  WakeKept'
<1> SUFFICES ASSUME NEW n \in Mounts
             PROVE  (owed[n] # "none" => wake[n] # 0)' /\ (owed[n] = "now" => due[n])'
  BY DEF WakeKept
<1>1. CASE n = m
  <2>1. wake'[m] = wake[m] + 1 /\ due'[m] = TRUE
    BY DEF askWake, Set, TableTypes
  <2>2. wake[m] \in Nat
    BY DEF TableTypes
  <2> QED
    BY <1>1, <2>1, <2>2
<1>2. CASE n # m
  <2>1. wake'[n] = wake[n] /\ due'[n] = due[n] /\ owed'[n] = owed[n]
    BY <1>2 DEF askWake, Set, TableTypes
  <2> QED
    BY <2>1 DEF WakeKept
<1> QED
  BY <1>1, <1>2

(* Nothing has happened yet. *)
LEMMA InitIndInv == Init => IndInv
<1> SUFFICES ASSUME Init PROVE IndInv
  OBVIOUS
<1>1. LaneTypes /\ TableTypes /\ PassTypes
  <2>1. LaneTypes
    <3>1. starts \in 0..MaxRuns /\ stopping \in 0..MaxRuns
      BY Bounds DEF Init
    <3>2. holds \in [Runs -> SUBSET Answers]
      BY DEF Init
    <3>3. open = {} /\ short = {} /\ mainRun = {} /\ active = FALSE
      BY DEF Init, mainRun
    <3> QED
      BY <3>1, <3>2, <3>3 DEF LaneTypes
  <2>2. TableTypes
    BY Bounds DEF Init, TableTypes, Runs
  <2>3. PassTypes
    BY Bounds DEF Init, PassTypes, Runs
  <2> QED
    BY <2>1, <2>2, <2>3
<1>2. AnswerTypes
  BY DEF Init, AnswerTypes, Answer, Unasked
<1>3. EndsOwed /\ AtHand /\ Gens /\ AnsweredOnce /\ PostedOnce /\ WakeKept
  BY DEF Init, EndsOwed, AtHand, Gens, AnsweredOnce, PostedOnce, WakeKept
<1> QED
  BY <1>1, <1>2, <1>3, TypeParts DEF IndInv

(* One run of the main conversation at a time: a message joins it while it is going. *)
LEMMA KeepsLane ==
  ASSUME IndInv, [Next]_vars PROVE LaneTypes'
<1> USE DEF Set, lane, ends, wakes, replies, work
<1>0. LaneTypes /\ AnswerTypes /\ PassTypes /\ AtHand
  BY TypeParts DEF IndInv
<1>1. CASE PassBegins
  BY <1>0, <1>1, Bounds DEF LaneTypes, AnswerTypes, PassTypes, AtHand, Runs, mainRun, PassBegins
<1>2. ASSUME NEW r \in Runs, Settles(r) PROVE LaneTypes'
  BY <1>0, <1>2, Bounds DEF LaneTypes, AnswerTypes, PassTypes, AtHand, Runs, mainRun, Settles
<1>3. CASE RecordEnd
  BY <1>0, <1>3, Bounds
  DEF LaneTypes, AnswerTypes, PassTypes, AtHand, Runs, mainRun, RecordEnd, recordTurnEnd, bindTurn
<1>4. CASE RecordFails
  BY <1>0, <1>4, Bounds DEF LaneTypes, AnswerTypes, PassTypes, AtHand, Runs, mainRun, RecordFails
<1>5. CASE HooksBegin
  BY <1>0, <1>5, Bounds DEF LaneTypes, AnswerTypes, PassTypes, AtHand, Runs, mainRun, HooksBegin
<1>6. ASSUME NEW r \in Runs, EndTold(r) PROVE LaneTypes'
  BY <1>0, <1>6, Bounds DEF LaneTypes, AnswerTypes, PassTypes, AtHand, Runs, mainRun, EndTold
<1>7. CASE EndAnswered
  BY <1>0, <1>7, Bounds
  DEF LaneTypes, AnswerTypes, PassTypes, AtHand, Runs, mainRun, EndAnswered, keepAnswer
<1>8. CASE WakesBegin
  BY <1>0, <1>8, Bounds DEF LaneTypes, AnswerTypes, PassTypes, AtHand, Runs, mainRun, WakesBegin
<1>9. ASSUME NEW m \in Mounts, WakeCalled(m) PROVE LaneTypes'
  BY <1>0, <1>9, Bounds DEF LaneTypes, AnswerTypes, PassTypes, AtHand, Runs, mainRun, WakeCalled
<1>10. CASE WakeAnswered
  BY <1>0, <1>10, Bounds
  DEF LaneTypes, AnswerTypes, PassTypes, AtHand, Runs, mainRun, WakeAnswered, keepAnswer, dropWake
<1>11. CASE AnswersBegin
  BY <1>0, <1>11, Bounds DEF LaneTypes, AnswerTypes, PassTypes, AtHand, Runs, mainRun, AnswersBegin
<1>12. ASSUME NEW k \in Answers, AnswerCut(k) PROVE LaneTypes'
  BY <1>0, <1>12, Bounds
  DEF LaneTypes, AnswerTypes, PassTypes, AtHand, Runs, mainRun, AnswerCut, Drop
<1>13. ASSUME NEW k \in Answers, AnswerTaken(k) PROVE LaneTypes'
  BY <1>0, <1>13, Bounds
  DEF LaneTypes, AnswerTypes, PassTypes, AtHand, Runs, mainRun, AnswerTaken, askWake, Route, Over,
      Drop, Waiting
<1>14. CASE CancelsNothing
  BY <1>0, <1>14, Bounds
  DEF LaneTypes, AnswerTypes, PassTypes, AtHand, Runs, mainRun, CancelsNothing, Route, Over, Drop,
      Waiting
<1>15. CASE CancelsRun
  BY <1>0, <1>15, Bounds DEF LaneTypes, AnswerTypes, PassTypes, AtHand, Runs, mainRun, CancelsRun
<1>16. CASE CancelsRecorded
  BY <1>0, <1>16, Bounds
  DEF LaneTypes, AnswerTypes, PassTypes, AtHand, Runs, mainRun, CancelsRecorded, recordTurnEnd,
      bindTurn, Route, Over, Drop, Waiting
<1>17. CASE PostFails
  BY <1>0, <1>17, Bounds
  DEF LaneTypes, AnswerTypes, PassTypes, AtHand, Runs, mainRun, PostFails, Drop, Over
<1>18. CASE PostMarks
  BY <1>0, <1>18, Bounds DEF LaneTypes, AnswerTypes, PassTypes, AtHand, Runs, mainRun, PostMarks
<1>19. CASE SayStarts
  <2>1. at \in Answers /\ starts + 1 \in Runs /\ starts \in Nat
    BY <1>0, <1>19, Bounds DEF SayStarts, PassTypes, LaneTypes, Runs
  <2>2. starts' = starts + 1 /\ open' = open \cup {starts + 1} /\ starts' \in 0..MaxRuns
    BY <1>19, <2>1, Bounds DEF SayStarts, Runs
  <2>3. open' \subseteq 1..starts' /\ short' \subseteq 1..starts'
    <3>1. 1..starts \subseteq 1..(starts + 1) /\ starts + 1 \in 1..(starts + 1)
      BY <2>1
    <3>2. open \subseteq 1..(starts + 1) /\ short \subseteq 1..(starts + 1)
      BY <1>0, <3>1 DEF LaneTypes
    <3>3. short' \subseteq short \cup {starts + 1}
      BY <1>19 DEF SayStarts
    <3> QED
      BY <2>2, <3>1, <3>2, <3>3
  <2>4. \A r, s \in mainRun' : r = s
    <3>1. CASE ans[at].body.turn = "alone"
      <4>1. mainRun' \subseteq mainRun
        BY <1>19, <3>1, <2>2 DEF SayStarts, mainRun
      <4> QED
        BY <1>0, <4>1 DEF LaneTypes
    <3>2. CASE ans[at].body.turn = "main"
      <4>1. mainRun' \subseteq {starts + 1}
        BY <1>19, <3>2, <2>2 DEF SayStarts, mainRun
      <4> QED
        BY <4>1
    <3> QED
      BY <1>0, <1>19, <3>1, <3>2 DEF SayStarts, AtHand
  <2>5. holds' \in [Runs -> SUBSET Answers]
    BY <1>0, <1>19, <2>1 DEF SayStarts, LaneTypes
  <2> QED
    BY <1>0, <1>19, <2>2, <2>3, <2>4, <2>5 DEF SayStarts, LaneTypes
<1>20. CASE SayJoins
  BY <1>0, <1>20, Bounds DEF LaneTypes, AnswerTypes, PassTypes, AtHand, Runs, mainRun, SayJoins
<1>21. CASE SayThrows
  BY <1>0, <1>21, Bounds
  DEF LaneTypes, AnswerTypes, PassTypes, AtHand, Runs, mainRun, SayThrows, Drop, Over
<1>22. CASE Bound
  BY <1>0, <1>22, Bounds
  DEF LaneTypes, AnswerTypes, PassTypes, AtHand, Runs, mainRun, Bound, bindTurn, Drop, Over
<1>23. CASE PassEnds
  BY <1>0, <1>23, Bounds DEF LaneTypes, AnswerTypes, PassTypes, AtHand, Runs, mainRun, PassEnds
<1>24. CASE Says
  BY <1>0, <1>24, Bounds DEF LaneTypes, AnswerTypes, PassTypes, AtHand, Runs, mainRun, Says
<1>25. CASE CancelAborts
  BY <1>0, <1>25, Bounds DEF LaneTypes, AnswerTypes, PassTypes, AtHand, Runs, mainRun, CancelAborts
<1>26. CASE CancelRecords
  BY <1>0, <1>26, Bounds
  DEF LaneTypes, AnswerTypes, PassTypes, AtHand, Runs, mainRun, CancelRecords, recordTurnEnd,
      bindTurn
<1>27. ASSUME NEW m \in Mounts, Push(m) PROVE LaneTypes'
  BY <1>0, <1>27, Bounds DEF LaneTypes, AnswerTypes, PassTypes, AtHand, Runs, mainRun, Push, askWake
<1>28. ASSUME NEW m \in Mounts, keepWake(m) PROVE LaneTypes'
  BY <1>0, <1>28, Bounds
  DEF LaneTypes, AnswerTypes, PassTypes, AtHand, Runs, mainRun, keepWake, askWake
<1>29. ASSUME NEW m \in Mounts, WakeComesDue(m) PROVE LaneTypes'
  BY <1>0, <1>29, Bounds DEF LaneTypes, AnswerTypes, PassTypes, AtHand, Runs, mainRun, WakeComesDue
<1>30. CASE PassThrows
  BY <1>0, <1>30, Bounds
  DEF LaneTypes, AnswerTypes, PassTypes, AtHand, Runs, mainRun, PassThrows, PassGone
<1>31. CASE Evicted
  BY <1>0, <1>31, Bounds
  DEF LaneTypes, AnswerTypes, PassTypes, AtHand, Runs, mainRun, Evicted, PassGone
<1>32. CASE UNCHANGED vars
  BY <1>0, <1>32 DEF LaneTypes, AnswerTypes, PassTypes, AtHand, Runs, mainRun, vars
<1> QED
  BY <1>1, <1>2, <1>3, <1>4, <1>5, <1>6, <1>7, <1>8, <1>9, <1>10, <1>11, <1>12, <1>13, <1>14,
     <1>15, <1>16, <1>17, <1>18, <1>19, <1>20, <1>21, <1>22, <1>23, <1>24, <1>25, <1>26, <1>27,
     <1>28, <1>29, <1>30, <1>31, <1>32
  DEF Next, PassStep, Around

(* The rows keep their types. *)
LEMMA KeepsTables ==
  ASSUME IndInv, [Next]_vars PROVE TableTypes'
<1> USE DEF Set, lane, ends, wakes, replies, work
<1>0. LaneTypes /\ TableTypes /\ PassTypes /\ AnswerTypes /\ AtHand
  BY TypeParts DEF IndInv
<1>1. CASE PassBegins
  BY <1>0, <1>1, Bounds DEF LaneTypes, TableTypes, PassTypes, AnswerTypes, AtHand, Runs, PassBegins
<1>2. ASSUME NEW r \in Runs, Settles(r) PROVE TableTypes'
  BY <1>0, <1>2, Bounds
  DEF LaneTypes, TableTypes, PassTypes, AnswerTypes, AtHand, Runs, Settles, mainRun
<1>3. CASE RecordEnd
  <2>1. at \in Runs
    BY <1>0, <1>3 DEF RecordEnd, PassTypes
  <2>2. CASE at \in short
    BY <1>0, <1>3, <2>1, <2>2 DEF RecordEnd, TableTypes
  <2>3. CASE at \notin short
    <3>1. recordTurnEnd(at) /\ UNCHANGED <<wake, due, owed, answered, posts, asks, cuts>>
      BY <1>3, <2>3 DEF RecordEnd
    <3> QED
      BY <1>0, <2>1, <3>1, RecordKeepsTypes DEF TableTypes
  <2> QED
    BY <2>2, <2>3
<1>4. CASE RecordFails
  BY <1>0, <1>4, Bounds DEF LaneTypes, TableTypes, PassTypes, AnswerTypes, AtHand, Runs, RecordFails
<1>5. CASE HooksBegin
  BY <1>0, <1>5, Bounds
  DEF LaneTypes, TableTypes, PassTypes, AnswerTypes, AtHand, Runs, HooksBegin, mainRun
<1>6. ASSUME NEW r \in Runs, EndTold(r) PROVE TableTypes'
  BY <1>0, <1>6, Bounds DEF LaneTypes, TableTypes, PassTypes, AnswerTypes, AtHand, Runs, EndTold
<1>7. CASE EndAnswered
  BY <1>0, <1>7, Bounds
  DEF LaneTypes, TableTypes, PassTypes, AnswerTypes, AtHand, Runs, EndAnswered, keepAnswer
<1>8. CASE WakesBegin
  BY <1>0, <1>8, Bounds DEF LaneTypes, TableTypes, PassTypes, AnswerTypes, AtHand, Runs, WakesBegin
<1>9. ASSUME NEW m \in Mounts, WakeCalled(m) PROVE TableTypes'
  BY <1>0, <1>9, Bounds DEF LaneTypes, TableTypes, PassTypes, AnswerTypes, AtHand, Runs, WakeCalled
<1>10. CASE WakeAnswered
  <2>1. at \in Mounts
    BY <1>0, <1>10 DEF WakeAnswered, PassTypes
  <2> QED
    <3>1. wake' \in [Mounts -> Nat] /\ due' \in [Mounts -> BOOLEAN]
      <4>1. dropWake(at, seen[at])
        BY <1>10 DEF WakeAnswered
      <4>2. CASE UNCHANGED <<wake, due>>
        BY <1>0, <4>2 DEF TableTypes
      <4>3. CASE wake' = [wake EXCEPT ![at] = 0] /\ due' = [due EXCEPT ![at] = FALSE]
        BY <1>0, <2>1, <4>3 DEF TableTypes
      <4> QED
        BY <4>1, <4>2, <4>3 DEF dropWake
    <3>2. UNCHANGED <<row, key, asked, owed, answered, posts, asks, cuts>>
      BY <1>10 DEF WakeAnswered
    <3> QED
      BY <1>0, <3>1, <3>2 DEF TableTypes
<1>11. CASE AnswersBegin
  BY <1>0, <1>11, Bounds
  DEF LaneTypes, TableTypes, PassTypes, AnswerTypes, AtHand, Runs, AnswersBegin
<1>12. ASSUME NEW k \in Answers, AnswerCut(k) PROVE TableTypes'
  BY <1>0, <1>12, Bounds
  DEF LaneTypes, TableTypes, PassTypes, AnswerTypes, AtHand, Runs, AnswerCut, Drop
<1>13. ASSUME NEW k \in Answers, AnswerTaken(k) PROVE TableTypes'
  <2>1. CASE ans[k].body.wakes
    <3>1. ans[k].by \in Mounts /\ askWake(ans[k].by, FALSE)
      BY <1>0, <1>13, <2>1 DEF AnswerTaken, AnswerTypes
    <3> QED
      BY <1>0, <1>13, <3>1, AskKeepsTypes DEF AnswerTaken, TableTypes
  <2>2. CASE ~ans[k].body.wakes
    BY <1>0, <1>13, <2>2 DEF AnswerTaken, TableTypes
  <2> QED
    BY <2>1, <2>2
<1>14. CASE CancelsNothing
  BY <1>0, <1>14, Bounds
  DEF LaneTypes, TableTypes, PassTypes, AnswerTypes, AtHand, Runs, CancelsNothing, Route, Over,
      Drop, Waiting
<1>15. CASE CancelsRun
  BY <1>0, <1>15, Bounds
  DEF LaneTypes, TableTypes, PassTypes, AnswerTypes, AtHand, Runs, CancelsRun, mainRun
<1>16. CASE CancelsRecorded
  <2>1. op \in Runs
    BY <1>0, <1>16, Bounds DEF CancelsRecorded, PassTypes, Runs
  <2>2. recordTurnEnd(op) /\ UNCHANGED <<wake, due, owed, answered, posts, asks, cuts>>
    BY <1>16 DEF CancelsRecorded
  <2> QED
    BY <1>0, <2>1, <2>2, RecordKeepsTypes DEF TableTypes
<1>17. CASE PostFails
  BY <1>0, <1>17, Bounds
  DEF LaneTypes, TableTypes, PassTypes, AnswerTypes, AtHand, Runs, PostFails, Drop, Over
<1>18. CASE PostMarks
  BY <1>0, <1>18, Bounds DEF LaneTypes, TableTypes, PassTypes, AnswerTypes, AtHand, Runs, PostMarks
<1>19. CASE SayStarts
  <2>1. at \in Answers /\ starts + 1 \in Runs
    BY <1>0, <1>19, Bounds DEF SayStarts, PassTypes, LaneTypes, Runs
  <2> QED
    <3>1. key' \in [Runs -> Answers \cup {None}]
      BY <1>0, <1>19, <2>1 DEF SayStarts, TableTypes
    <3>2. posts' \in [Answers -> Nat]
      BY <1>0, <1>19, <2>1 DEF SayStarts, TableTypes
    <3>3. UNCHANGED <<row, asked, wake, due, owed, answered, asks, cuts>>
      BY <1>19 DEF SayStarts
    <3> QED
      BY <1>0, <3>1, <3>2, <3>3 DEF TableTypes
<1>20. CASE SayJoins
  <2>1. at \in Answers
    BY <1>0, <1>20 DEF SayJoins, PassTypes
  <2> QED
    BY <1>0, <1>20, <2>1 DEF SayJoins, TableTypes
<1>21. CASE SayThrows
  BY <1>0, <1>21, Bounds
  DEF LaneTypes, TableTypes, PassTypes, AnswerTypes, AtHand, Runs, SayThrows, Drop, Over
<1>22. CASE Bound
  <2>1. at \in Answers /\ (op # 0 => op \in Runs)
    BY <1>0, <1>22, Bounds DEF Bound, PassTypes, Runs
  <2>2. UNCHANGED <<row, wake, due, owed, answered, posts, asks, cuts>>
    BY <1>22 DEF Bound
  <2>3. CASE op # 0
    BY <1>0, <1>22, <2>1, <2>2, <2>3, BindKeepsTypes DEF Bound, TableTypes
  <2>4. CASE op = 0
    BY <1>0, <1>22, <2>2, <2>4 DEF Bound, TableTypes
  <2> QED
    BY <2>3, <2>4
<1>23. CASE PassEnds
  BY <1>0, <1>23, Bounds DEF LaneTypes, TableTypes, PassTypes, AnswerTypes, AtHand, Runs, PassEnds
<1>24. CASE Says
  BY <1>0, <1>24, Bounds
  DEF LaneTypes, TableTypes, PassTypes, AnswerTypes, AtHand, Runs, Says, mainRun
<1>25. CASE CancelAborts
  BY <1>0, <1>25, Bounds
  DEF LaneTypes, TableTypes, PassTypes, AnswerTypes, AtHand, Runs, CancelAborts, mainRun
<1>26. CASE CancelRecords
  <2>1. stopping \in Runs
    BY <1>0, <1>26, Bounds DEF CancelRecords, LaneTypes, Runs
  <2>2. recordTurnEnd(stopping) /\ UNCHANGED <<wake, due, owed, answered, posts, asks, cuts>>
    BY <1>26 DEF CancelRecords
  <2> QED
    BY <1>0, <2>1, <2>2, RecordKeepsTypes DEF TableTypes
<1>27. ASSUME NEW m \in Mounts, Push(m) PROVE TableTypes'
  BY <1>0, <1>27, Bounds
  DEF LaneTypes, TableTypes, PassTypes, AnswerTypes, AtHand, Runs, Push, askWake
<1>28. ASSUME NEW m \in Mounts, keepWake(m) PROVE TableTypes'
  BY <1>0, <1>28, Bounds
  DEF LaneTypes, TableTypes, PassTypes, AnswerTypes, AtHand, Runs, keepWake, askWake
<1>29. ASSUME NEW m \in Mounts, WakeComesDue(m) PROVE TableTypes'
  BY <1>0, <1>29, Bounds
  DEF LaneTypes, TableTypes, PassTypes, AnswerTypes, AtHand, Runs, WakeComesDue
<1>30. CASE PassThrows
  BY <1>0, <1>30, Bounds
  DEF LaneTypes, TableTypes, PassTypes, AnswerTypes, AtHand, Runs, PassThrows, PassGone
<1>31. CASE Evicted
  BY <1>0, <1>31, Bounds
  DEF LaneTypes, TableTypes, PassTypes, AnswerTypes, AtHand, Runs, Evicted, PassGone
<1>32. CASE UNCHANGED vars
  BY <1>0, <1>32 DEF LaneTypes, TableTypes, PassTypes, AnswerTypes, AtHand, Runs, vars
<1> QED
  BY <1>1, <1>2, <1>3, <1>4, <1>5, <1>6, <1>7, <1>8, <1>9, <1>10, <1>11, <1>12, <1>13, <1>14,
     <1>15, <1>16, <1>17, <1>18, <1>19, <1>20, <1>21, <1>22, <1>23, <1>24, <1>25, <1>26, <1>27,
     <1>28, <1>29, <1>30, <1>31, <1>32
  DEF Next, PassStep, Around

(* What is kept of an answer is what a hook may ask for. *)
LEMMA KeepsAnswers ==
  ASSUME IndInv, [Next]_vars PROVE AnswerTypes'
<1> USE DEF Set, lane, ends, wakes, replies, work
<1>0. AnswerTypes /\ PassTypes /\ AtHand
  BY TypeParts DEF IndInv
<1>1. CASE PassBegins
  BY <1>0, <1>1 DEF AnswerTypes, PassTypes, AtHand, Answer, PassBegins
<1>2. ASSUME NEW r \in Runs, Settles(r) PROVE AnswerTypes'
  BY <1>0, <1>2 DEF AnswerTypes, PassTypes, AtHand, Answer, Settles, mainRun
<1>3. CASE RecordEnd
  BY <1>0, <1>3 DEF AnswerTypes, PassTypes, AtHand, Answer, RecordEnd, recordTurnEnd, bindTurn
<1>4. CASE RecordFails
  BY <1>0, <1>4 DEF AnswerTypes, PassTypes, AtHand, Answer, RecordFails
<1>5. CASE HooksBegin
  BY <1>0, <1>5 DEF AnswerTypes, PassTypes, AtHand, Answer, HooksBegin, mainRun
<1>6. ASSUME NEW r \in Runs, EndTold(r) PROVE AnswerTypes'
  BY <1>0, <1>6 DEF AnswerTypes, PassTypes, AtHand, Answer, EndTold
<1>7. CASE EndAnswered
  BY <1>0, <1>7 DEF AnswerTypes, PassTypes, AtHand, Answer, EndAnswered, keepAnswer
<1>8. CASE WakesBegin
  BY <1>0, <1>8 DEF AnswerTypes, PassTypes, AtHand, Answer, WakesBegin
<1>9. ASSUME NEW m \in Mounts, WakeCalled(m) PROVE AnswerTypes'
  BY <1>0, <1>9 DEF AnswerTypes, PassTypes, AtHand, Answer, WakeCalled
<1>10. CASE WakeAnswered
  BY <1>0, <1>10 DEF AnswerTypes, PassTypes, AtHand, Answer, WakeAnswered, keepAnswer, dropWake
<1>11. CASE AnswersBegin
  BY <1>0, <1>11 DEF AnswerTypes, PassTypes, AtHand, Answer, AnswersBegin
<1>12. ASSUME NEW k \in Answers, AnswerCut(k) PROVE AnswerTypes'
  BY <1>0, <1>12 DEF AnswerTypes, PassTypes, AtHand, Answer, AnswerCut, Drop
<1>13. ASSUME NEW k \in Answers, AnswerTaken(k) PROVE AnswerTypes'
  <2>1. CASE UNCHANGED ans
    BY <1>0, <2>1 DEF AnswerTypes
  <2>2. CASE Route(k, ans[k].body)
    BY <1>0, <1>13, <2>2, RouteKeepsTypes DEF AnswerTaken
  <2> QED
    BY <1>13, <2>1, <2>2 DEF AnswerTaken
<1>14. CASE CancelsNothing
  BY <1>0, <1>14, RouteKeepsTypes DEF CancelsNothing, PassTypes, AtHand
<1>15. CASE CancelsRun
  BY <1>0, <1>15 DEF AnswerTypes, PassTypes, AtHand, Answer, CancelsRun, mainRun
<1>16. CASE CancelsRecorded
  BY <1>0, <1>16, RouteKeepsTypes DEF CancelsRecorded, PassTypes, AtHand
<1>17. CASE PostFails
  BY <1>0, <1>17 DEF AnswerTypes, PassTypes, AtHand, Answer, PostFails, Drop, Over
<1>18. CASE PostMarks
  BY <1>0, <1>18 DEF AnswerTypes, PassTypes, AtHand, Answer, PostMarks
<1>19. CASE SayStarts
  BY <1>0, <1>19 DEF AnswerTypes, PassTypes, AtHand, Answer, SayStarts, mainRun
<1>20. CASE SayJoins
  BY <1>0, <1>20 DEF AnswerTypes, PassTypes, AtHand, Answer, SayJoins, mainRun
<1>21. CASE SayThrows
  BY <1>0, <1>21 DEF AnswerTypes, PassTypes, AtHand, Answer, SayThrows, Drop, Over
<1>22. CASE Bound
  BY <1>0, <1>22 DEF AnswerTypes, PassTypes, AtHand, Answer, Bound, bindTurn, Drop, Over
<1>23. CASE PassEnds
  BY <1>0, <1>23 DEF AnswerTypes, PassTypes, AtHand, Answer, PassEnds
<1>24. CASE Says
  BY <1>0, <1>24 DEF AnswerTypes, PassTypes, AtHand, Answer, Says, mainRun
<1>25. CASE CancelAborts
  BY <1>0, <1>25 DEF AnswerTypes, PassTypes, AtHand, Answer, CancelAborts, mainRun
<1>26. CASE CancelRecords
  BY <1>0, <1>26 DEF AnswerTypes, PassTypes, AtHand, Answer, CancelRecords, recordTurnEnd, bindTurn
<1>27. ASSUME NEW m \in Mounts, Push(m) PROVE AnswerTypes'
  BY <1>0, <1>27 DEF AnswerTypes, PassTypes, AtHand, Answer, Push, askWake
<1>28. ASSUME NEW m \in Mounts, keepWake(m) PROVE AnswerTypes'
  BY <1>0, <1>28 DEF AnswerTypes, PassTypes, AtHand, Answer, keepWake, askWake
<1>29. ASSUME NEW m \in Mounts, WakeComesDue(m) PROVE AnswerTypes'
  BY <1>0, <1>29 DEF AnswerTypes, PassTypes, AtHand, Answer, WakeComesDue
<1>30. CASE PassThrows
  BY <1>0, <1>30 DEF AnswerTypes, PassTypes, AtHand, Answer, PassThrows, PassGone
<1>31. CASE Evicted
  BY <1>0, <1>31 DEF AnswerTypes, PassTypes, AtHand, Answer, Evicted, PassGone
<1>32. CASE UNCHANGED vars
  BY <1>0, <1>32 DEF AnswerTypes, PassTypes, AtHand, Answer, vars
<1> QED
  BY <1>1, <1>2, <1>3, <1>4, <1>5, <1>6, <1>7, <1>8, <1>9, <1>10, <1>11, <1>12, <1>13, <1>14,
     <1>15, <1>16, <1>17, <1>18, <1>19, <1>20, <1>21, <1>22, <1>23, <1>24, <1>25, <1>26, <1>27,
     <1>28, <1>29, <1>30, <1>31, <1>32
  DEF Next, PassStep, Around

(* The pass is at a run, a mount or an answer. *)
LEMMA KeepsPass ==
  ASSUME IndInv, [Next]_vars PROVE PassTypes'
<1> USE DEF Set, lane, ends, wakes, replies, work
<1>0. LaneTypes /\ TableTypes /\ PassTypes /\ EndsOwed
  BY TypeParts DEF IndInv
<1>1. CASE PassBegins
  BY <1>0, <1>1, Bounds DEF LaneTypes, TableTypes, PassTypes, EndsOwed, Runs, PassBegins
<1>2. ASSUME NEW r \in Runs, Settles(r) PROVE PassTypes'
  BY <1>0, <1>2, Bounds DEF LaneTypes, TableTypes, PassTypes, EndsOwed, Runs, Settles, mainRun
<1>3. CASE RecordEnd
  BY <1>0, <1>3, Bounds
  DEF LaneTypes, TableTypes, PassTypes, EndsOwed, Runs, RecordEnd, recordTurnEnd, bindTurn
<1>4. CASE RecordFails
  BY <1>0, <1>4, Bounds DEF LaneTypes, TableTypes, PassTypes, EndsOwed, Runs, RecordFails
<1>5. CASE HooksBegin
  BY <1>0, <1>5, Bounds DEF LaneTypes, TableTypes, PassTypes, EndsOwed, Runs, HooksBegin, mainRun
<1>6. ASSUME NEW r \in Runs, EndTold(r) PROVE PassTypes'
  BY <1>0, <1>6, Bounds DEF LaneTypes, TableTypes, PassTypes, EndsOwed, Runs, EndTold
<1>7. CASE EndAnswered
  BY <1>0, <1>7, Bounds
  DEF LaneTypes, TableTypes, PassTypes, EndsOwed, Runs, EndAnswered, keepAnswer
<1>8. CASE WakesBegin
  <2>1. seen' \in [Mounts -> Nat]
    BY <1>0, <1>8 DEF WakesBegin, TableTypes
  <2> QED
    BY <1>0, <1>8, <2>1, Bounds DEF WakesBegin, PassTypes
<1>9. ASSUME NEW m \in Mounts, WakeCalled(m) PROVE PassTypes'
  BY <1>0, <1>9, Bounds DEF LaneTypes, TableTypes, PassTypes, EndsOwed, Runs, WakeCalled
<1>10. CASE WakeAnswered
  BY <1>0, <1>10, Bounds
  DEF LaneTypes, TableTypes, PassTypes, EndsOwed, Runs, WakeAnswered, keepAnswer, dropWake
<1>11. CASE AnswersBegin
  BY <1>0, <1>11, Bounds DEF LaneTypes, TableTypes, PassTypes, EndsOwed, Runs, AnswersBegin
<1>12. ASSUME NEW k \in Answers, AnswerCut(k) PROVE PassTypes'
  BY <1>0, <1>12, Bounds DEF LaneTypes, TableTypes, PassTypes, EndsOwed, Runs, AnswerCut, Drop
<1>13. ASSUME NEW k \in Answers, AnswerTaken(k) PROVE PassTypes'
  <2>1. todo' \subseteq Answers /\ UNCHANGED seen
    BY <1>0, <1>13 DEF AnswerTaken, PassTypes
  <2>2. CASE pass' = "cancel" /\ at' = k /\ UNCHANGED op
    BY <1>0, <2>1, <2>2 DEF PassTypes
  <2>3. CASE pass' = "answers" /\ at' = None /\ op' = 0
    BY <1>0, <2>1, <2>3, Bounds DEF PassTypes
  <2>4. CASE pass' = "post" /\ at' = k /\ op' = 0
    BY <1>0, <2>1, <2>4, Bounds DEF PassTypes
  <2> QED
    BY <1>13, <2>2, <2>3, <2>4 DEF AnswerTaken, Route, Over
<1>14. CASE CancelsNothing
  BY <1>0, <1>14, Bounds
  DEF LaneTypes, TableTypes, PassTypes, EndsOwed, Runs, CancelsNothing, Route, Over, Drop, Waiting
<1>15. CASE CancelsRun
  BY <1>0, <1>15, Bounds DEF LaneTypes, TableTypes, PassTypes, EndsOwed, Runs, CancelsRun, mainRun
<1>16. CASE CancelsRecorded
  BY <1>0, <1>16, Bounds
  DEF LaneTypes, TableTypes, PassTypes, EndsOwed, Runs, CancelsRecorded, recordTurnEnd, bindTurn,
      Route, Over, Drop, Waiting
<1>17. CASE PostFails
  BY <1>0, <1>17, Bounds DEF LaneTypes, TableTypes, PassTypes, EndsOwed, Runs, PostFails, Drop, Over
<1>18. CASE PostMarks
  BY <1>0, <1>18, Bounds DEF LaneTypes, TableTypes, PassTypes, EndsOwed, Runs, PostMarks
<1>19. CASE SayStarts
  BY <1>0, <1>19, Bounds DEF LaneTypes, TableTypes, PassTypes, EndsOwed, Runs, SayStarts, mainRun
<1>20. CASE SayJoins
  BY <1>0, <1>20, Bounds DEF LaneTypes, TableTypes, PassTypes, EndsOwed, Runs, SayJoins, mainRun
<1>21. CASE SayThrows
  BY <1>0, <1>21, Bounds DEF LaneTypes, TableTypes, PassTypes, EndsOwed, Runs, SayThrows, Drop, Over
<1>22. CASE Bound
  BY <1>0, <1>22, Bounds
  DEF LaneTypes, TableTypes, PassTypes, EndsOwed, Runs, Bound, bindTurn, Drop, Over
<1>23. CASE PassEnds
  BY <1>0, <1>23, Bounds DEF LaneTypes, TableTypes, PassTypes, EndsOwed, Runs, PassEnds
<1>24. CASE Says
  BY <1>0, <1>24, Bounds DEF LaneTypes, TableTypes, PassTypes, EndsOwed, Runs, Says, mainRun
<1>25. CASE CancelAborts
  BY <1>0, <1>25, Bounds DEF LaneTypes, TableTypes, PassTypes, EndsOwed, Runs, CancelAborts, mainRun
<1>26. CASE CancelRecords
  BY <1>0, <1>26, Bounds
  DEF LaneTypes, TableTypes, PassTypes, EndsOwed, Runs, CancelRecords, recordTurnEnd, bindTurn
<1>27. ASSUME NEW m \in Mounts, Push(m) PROVE PassTypes'
  BY <1>0, <1>27, Bounds DEF LaneTypes, TableTypes, PassTypes, EndsOwed, Runs, Push, askWake
<1>28. ASSUME NEW m \in Mounts, keepWake(m) PROVE PassTypes'
  BY <1>0, <1>28, Bounds DEF LaneTypes, TableTypes, PassTypes, EndsOwed, Runs, keepWake, askWake
<1>29. ASSUME NEW m \in Mounts, WakeComesDue(m) PROVE PassTypes'
  BY <1>0, <1>29, Bounds DEF LaneTypes, TableTypes, PassTypes, EndsOwed, Runs, WakeComesDue
<1>30. CASE PassThrows
  BY <1>0, <1>30, Bounds DEF LaneTypes, TableTypes, PassTypes, EndsOwed, Runs, PassThrows, PassGone
<1>31. CASE Evicted
  BY <1>0, <1>31, Bounds DEF LaneTypes, TableTypes, PassTypes, EndsOwed, Runs, Evicted, PassGone
<1>32. CASE UNCHANGED vars
  BY <1>0, <1>32 DEF LaneTypes, TableTypes, PassTypes, EndsOwed, Runs, vars
<1> QED
  BY <1>1, <1>2, <1>3, <1>4, <1>5, <1>6, <1>7, <1>8, <1>9, <1>10, <1>11, <1>12, <1>13, <1>14,
     <1>15, <1>16, <1>17, <1>18, <1>19, <1>20, <1>21, <1>22, <1>23, <1>24, <1>25, <1>26, <1>27,
     <1>28, <1>29, <1>30, <1>31, <1>32
  DEF Next, PassStep, Around

(* An end that the pass is to tell stays owed until it is answered. *)
LEMMA KeepsEndsOwed ==
  ASSUME IndInv, [Next]_vars PROVE EndsOwed'
<1> USE DEF Set, lane, ends, wakes, replies, work
<1>0. LaneTypes /\ TableTypes /\ PassTypes /\ EndsOwed
  BY TypeParts DEF IndInv
<1>1. CASE PassBegins
  BY <1>0, <1>1 DEF LaneTypes, TableTypes, PassTypes, EndsOwed, Runs, PassBegins
<1>2. ASSUME NEW r \in Runs, Settles(r) PROVE EndsOwed'
  BY <1>0, <1>2 DEF LaneTypes, TableTypes, PassTypes, EndsOwed, Runs, Settles, mainRun
<1>3. CASE RecordEnd
  BY <1>0, <1>3
  DEF LaneTypes, TableTypes, PassTypes, EndsOwed, Runs, RecordEnd, recordTurnEnd, bindTurn
<1>4. CASE RecordFails
  BY <1>0, <1>4 DEF LaneTypes, TableTypes, PassTypes, EndsOwed, Runs, RecordFails
<1>5. CASE HooksBegin
  BY <1>0, <1>5 DEF LaneTypes, TableTypes, PassTypes, EndsOwed, Runs, HooksBegin, mainRun
<1>6. ASSUME NEW r \in Runs, EndTold(r) PROVE EndsOwed'
  BY <1>0, <1>6 DEF LaneTypes, TableTypes, PassTypes, EndsOwed, Runs, EndTold
<1>7. CASE EndAnswered
  BY <1>0, <1>7 DEF LaneTypes, TableTypes, PassTypes, EndsOwed, Runs, EndAnswered, keepAnswer
<1>8. CASE WakesBegin
  BY <1>0, <1>8 DEF LaneTypes, TableTypes, PassTypes, EndsOwed, Runs, WakesBegin
<1>9. ASSUME NEW m \in Mounts, WakeCalled(m) PROVE EndsOwed'
  BY <1>0, <1>9 DEF LaneTypes, TableTypes, PassTypes, EndsOwed, Runs, WakeCalled
<1>10. CASE WakeAnswered
  BY <1>0, <1>10
  DEF LaneTypes, TableTypes, PassTypes, EndsOwed, Runs, WakeAnswered, keepAnswer, dropWake
<1>11. CASE AnswersBegin
  BY <1>0, <1>11 DEF LaneTypes, TableTypes, PassTypes, EndsOwed, Runs, AnswersBegin
<1>12. ASSUME NEW k \in Answers, AnswerCut(k) PROVE EndsOwed'
  BY <1>0, <1>12 DEF LaneTypes, TableTypes, PassTypes, EndsOwed, Runs, AnswerCut, Drop
<1>13. ASSUME NEW k \in Answers, AnswerTaken(k) PROVE EndsOwed'
  BY <1>0, <1>13
  DEF LaneTypes, TableTypes, PassTypes, EndsOwed, Runs, AnswerTaken, askWake, Route, Over, Drop,
      Waiting
<1>14. CASE CancelsNothing
  BY <1>0, <1>14
  DEF LaneTypes, TableTypes, PassTypes, EndsOwed, Runs, CancelsNothing, Route, Over, Drop, Waiting
<1>15. CASE CancelsRun
  BY <1>0, <1>15 DEF LaneTypes, TableTypes, PassTypes, EndsOwed, Runs, CancelsRun, mainRun
<1>16. CASE CancelsRecorded
  BY <1>0, <1>16
  DEF LaneTypes, TableTypes, PassTypes, EndsOwed, Runs, CancelsRecorded, recordTurnEnd, bindTurn,
      Route, Over, Drop, Waiting
<1>17. CASE PostFails
  BY <1>0, <1>17 DEF LaneTypes, TableTypes, PassTypes, EndsOwed, Runs, PostFails, Drop, Over
<1>18. CASE PostMarks
  BY <1>0, <1>18 DEF LaneTypes, TableTypes, PassTypes, EndsOwed, Runs, PostMarks
<1>19. CASE SayStarts
  BY <1>0, <1>19 DEF LaneTypes, TableTypes, PassTypes, EndsOwed, Runs, SayStarts, mainRun
<1>20. CASE SayJoins
  BY <1>0, <1>20 DEF LaneTypes, TableTypes, PassTypes, EndsOwed, Runs, SayJoins, mainRun
<1>21. CASE SayThrows
  BY <1>0, <1>21 DEF LaneTypes, TableTypes, PassTypes, EndsOwed, Runs, SayThrows, Drop, Over
<1>22. CASE Bound
  BY <1>0, <1>22 DEF LaneTypes, TableTypes, PassTypes, EndsOwed, Runs, Bound, bindTurn, Drop, Over
<1>23. CASE PassEnds
  BY <1>0, <1>23 DEF LaneTypes, TableTypes, PassTypes, EndsOwed, Runs, PassEnds
<1>24. CASE Says
  BY <1>0, <1>24 DEF LaneTypes, TableTypes, PassTypes, EndsOwed, Runs, Says, mainRun
<1>25. CASE CancelAborts
  BY <1>0, <1>25 DEF LaneTypes, TableTypes, PassTypes, EndsOwed, Runs, CancelAborts, mainRun
<1>26. CASE CancelRecords
  BY <1>0, <1>26
  DEF LaneTypes, TableTypes, PassTypes, EndsOwed, Runs, CancelRecords, recordTurnEnd, bindTurn
<1>27. ASSUME NEW m \in Mounts, Push(m) PROVE EndsOwed'
  BY <1>0, <1>27 DEF LaneTypes, TableTypes, PassTypes, EndsOwed, Runs, Push, askWake
<1>28. ASSUME NEW m \in Mounts, keepWake(m) PROVE EndsOwed'
  BY <1>0, <1>28 DEF LaneTypes, TableTypes, PassTypes, EndsOwed, Runs, keepWake, askWake
<1>29. ASSUME NEW m \in Mounts, WakeComesDue(m) PROVE EndsOwed'
  BY <1>0, <1>29 DEF LaneTypes, TableTypes, PassTypes, EndsOwed, Runs, WakeComesDue
<1>30. CASE PassThrows
  BY <1>0, <1>30 DEF LaneTypes, TableTypes, PassTypes, EndsOwed, Runs, PassThrows, PassGone
<1>31. CASE Evicted
  BY <1>0, <1>31 DEF LaneTypes, TableTypes, PassTypes, EndsOwed, Runs, Evicted, PassGone
<1>32. CASE UNCHANGED vars
  BY <1>0, <1>32 DEF LaneTypes, TableTypes, PassTypes, EndsOwed, Runs, vars
<1> QED
  BY <1>1, <1>2, <1>3, <1>4, <1>5, <1>6, <1>7, <1>8, <1>9, <1>10, <1>11, <1>12, <1>13, <1>14,
     <1>15, <1>16, <1>17, <1>18, <1>19, <1>20, <1>21, <1>22, <1>23, <1>24, <1>25, <1>26, <1>27,
     <1>28, <1>29, <1>30, <1>31, <1>32
  DEF Next, PassStep, Around

(* Only the pass moves the answer it is at. *)
LEMMA KeepsAtHand ==
  ASSUME IndInv, [Next]_vars PROVE AtHand'
<1> USE DEF Set, lane, ends, wakes, replies, work
<1>0. AnswerTypes /\ TableTypes /\ PassTypes /\ AtHand /\ PostedOnce
  BY TypeParts DEF IndInv
<1>1. CASE PassBegins
  BY <1>0, <1>1 DEF AnswerTypes, TableTypes, PassTypes, AtHand, PostedOnce, PassBegins
<1>2. ASSUME NEW r \in Runs, Settles(r) PROVE AtHand'
  BY <1>0, <1>2 DEF AnswerTypes, TableTypes, PassTypes, AtHand, PostedOnce, Settles, mainRun
<1>3. CASE RecordEnd
  BY <1>0, <1>3
  DEF AnswerTypes, TableTypes, PassTypes, AtHand, PostedOnce, RecordEnd, recordTurnEnd, bindTurn
<1>4. CASE RecordFails
  BY <1>0, <1>4 DEF AnswerTypes, TableTypes, PassTypes, AtHand, PostedOnce, RecordFails
<1>5. CASE HooksBegin
  BY <1>0, <1>5 DEF AnswerTypes, TableTypes, PassTypes, AtHand, PostedOnce, HooksBegin, mainRun
<1>6. ASSUME NEW r \in Runs, EndTold(r) PROVE AtHand'
  BY <1>0, <1>6 DEF AnswerTypes, TableTypes, PassTypes, AtHand, PostedOnce, EndTold
<1>7. CASE EndAnswered
  BY <1>0, <1>7 DEF AnswerTypes, TableTypes, PassTypes, AtHand, PostedOnce, EndAnswered, keepAnswer
<1>8. CASE WakesBegin
  BY <1>0, <1>8 DEF AnswerTypes, TableTypes, PassTypes, AtHand, PostedOnce, WakesBegin
<1>9. ASSUME NEW m \in Mounts, WakeCalled(m) PROVE AtHand'
  BY <1>0, <1>9 DEF AnswerTypes, TableTypes, PassTypes, AtHand, PostedOnce, WakeCalled
<1>10. CASE WakeAnswered
  BY <1>0, <1>10
  DEF AnswerTypes, TableTypes, PassTypes, AtHand, PostedOnce, WakeAnswered, keepAnswer, dropWake
<1>11. CASE AnswersBegin
  BY <1>0, <1>11 DEF AnswerTypes, TableTypes, PassTypes, AtHand, PostedOnce, AnswersBegin
<1>12. ASSUME NEW k \in Answers, AnswerCut(k) PROVE AtHand'
  BY <1>0, <1>12 DEF AnswerTypes, TableTypes, PassTypes, AtHand, PostedOnce, AnswerCut, Drop
<1>13. ASSUME NEW k \in Answers, AnswerTaken(k) PROVE AtHand'
  BY <1>0, <1>13
  DEF AnswerTypes, TableTypes, PassTypes, AtHand, PostedOnce, AnswerTaken, askWake, Route, Over,
      Drop, Waiting
<1>14. CASE CancelsNothing
  BY <1>0, <1>14
  DEF AnswerTypes, TableTypes, PassTypes, AtHand, PostedOnce, CancelsNothing, Route, Over, Drop,
      Waiting
<1>15. CASE CancelsRun
  BY <1>0, <1>15 DEF AnswerTypes, TableTypes, PassTypes, AtHand, PostedOnce, CancelsRun, mainRun
<1>16. CASE CancelsRecorded
  BY <1>0, <1>16
  DEF AnswerTypes, TableTypes, PassTypes, AtHand, PostedOnce, CancelsRecorded, recordTurnEnd,
      bindTurn, Route, Over, Drop, Waiting
<1>17. CASE PostFails
  BY <1>0, <1>17 DEF AnswerTypes, TableTypes, PassTypes, AtHand, PostedOnce, PostFails, Drop, Over
<1>18. CASE PostMarks
  <2>1. at \in Answers /\ ans[at].at = "kept" /\ posts[at] = 0
    BY <1>0, <1>18 DEF PostMarks, PassTypes, TableTypes, AtHand, PostedOnce
  <2>2. ans'[at].at = "posting" /\ ans'[at].body = ans[at].body
    BY <1>0, <2>1, <1>18 DEF PostMarks, AnswerTypes, Answer
  <2> QED
    BY <1>0, <1>18, <2>1, <2>2 DEF PostMarks, AtHand
<1>19. CASE SayStarts
  BY <1>0, <1>19 DEF AnswerTypes, TableTypes, PassTypes, AtHand, PostedOnce, SayStarts, mainRun
<1>20. CASE SayJoins
  BY <1>0, <1>20 DEF AnswerTypes, TableTypes, PassTypes, AtHand, PostedOnce, SayJoins, mainRun
<1>21. CASE SayThrows
  BY <1>0, <1>21 DEF AnswerTypes, TableTypes, PassTypes, AtHand, PostedOnce, SayThrows, Drop, Over
<1>22. CASE Bound
  BY <1>0, <1>22
  DEF AnswerTypes, TableTypes, PassTypes, AtHand, PostedOnce, Bound, bindTurn, Drop, Over
<1>23. CASE PassEnds
  BY <1>0, <1>23 DEF AnswerTypes, TableTypes, PassTypes, AtHand, PostedOnce, PassEnds
<1>24. CASE Says
  BY <1>0, <1>24 DEF AnswerTypes, TableTypes, PassTypes, AtHand, PostedOnce, Says, mainRun
<1>25. CASE CancelAborts
  BY <1>0, <1>25 DEF AnswerTypes, TableTypes, PassTypes, AtHand, PostedOnce, CancelAborts, mainRun
<1>26. CASE CancelRecords
  BY <1>0, <1>26
  DEF AnswerTypes, TableTypes, PassTypes, AtHand, PostedOnce, CancelRecords, recordTurnEnd,
      bindTurn
<1>27. ASSUME NEW m \in Mounts, Push(m) PROVE AtHand'
  BY <1>0, <1>27 DEF AnswerTypes, TableTypes, PassTypes, AtHand, PostedOnce, Push, askWake
<1>28. ASSUME NEW m \in Mounts, keepWake(m) PROVE AtHand'
  BY <1>0, <1>28 DEF AnswerTypes, TableTypes, PassTypes, AtHand, PostedOnce, keepWake, askWake
<1>29. ASSUME NEW m \in Mounts, WakeComesDue(m) PROVE AtHand'
  BY <1>0, <1>29 DEF AnswerTypes, TableTypes, PassTypes, AtHand, PostedOnce, WakeComesDue
<1>30. CASE PassThrows
  BY <1>0, <1>30 DEF AnswerTypes, TableTypes, PassTypes, AtHand, PostedOnce, PassThrows, PassGone
<1>31. CASE Evicted
  BY <1>0, <1>31 DEF AnswerTypes, TableTypes, PassTypes, AtHand, PostedOnce, Evicted, PassGone
<1>32. CASE UNCHANGED vars
  BY <1>0, <1>32 DEF AnswerTypes, TableTypes, PassTypes, AtHand, PostedOnce, vars
<1> QED
  BY <1>1, <1>2, <1>3, <1>4, <1>5, <1>6, <1>7, <1>8, <1>9, <1>10, <1>11, <1>12, <1>13, <1>14,
     <1>15, <1>16, <1>17, <1>18, <1>19, <1>20, <1>21, <1>22, <1>23, <1>24, <1>25, <1>26, <1>27,
     <1>28, <1>29, <1>30, <1>31, <1>32
  DEF Next, PassStep, Around

(* The gen moves with every ask, and falls only when the row that ran is dropped. *)
LEMMA KeepsGens ==
  ASSUME IndInv, [Next]_vars PROVE Gens'
<1> USE DEF Set, lane, ends, wakes, replies, work
<1>0. TableTypes /\ PassTypes /\ AnswerTypes /\ Gens
  BY TypeParts DEF IndInv
<1>1. CASE PassBegins
  BY <1>0, <1>1 DEF TableTypes, PassTypes, AnswerTypes, Gens, PassBegins
<1>2. ASSUME NEW r \in Runs, Settles(r) PROVE Gens'
  BY <1>0, <1>2 DEF TableTypes, PassTypes, AnswerTypes, Gens, Settles, mainRun
<1>3. CASE RecordEnd
  BY <1>0, <1>3 DEF TableTypes, PassTypes, AnswerTypes, Gens, RecordEnd, recordTurnEnd, bindTurn
<1>4. CASE RecordFails
  BY <1>0, <1>4 DEF TableTypes, PassTypes, AnswerTypes, Gens, RecordFails
<1>5. CASE HooksBegin
  BY <1>0, <1>5 DEF TableTypes, PassTypes, AnswerTypes, Gens, HooksBegin, mainRun
<1>6. ASSUME NEW r \in Runs, EndTold(r) PROVE Gens'
  BY <1>0, <1>6 DEF TableTypes, PassTypes, AnswerTypes, Gens, EndTold
<1>7. CASE EndAnswered
  BY <1>0, <1>7 DEF TableTypes, PassTypes, AnswerTypes, Gens, EndAnswered, keepAnswer
<1>8. CASE WakesBegin
  BY <1>0, <1>8 DEF TableTypes, PassTypes, AnswerTypes, Gens, WakesBegin
<1>9. ASSUME NEW m \in Mounts, WakeCalled(m) PROVE Gens'
  BY <1>0, <1>9 DEF TableTypes, PassTypes, AnswerTypes, Gens, WakeCalled
<1>10. CASE WakeAnswered
  BY <1>0, <1>10 DEF TableTypes, PassTypes, AnswerTypes, Gens, WakeAnswered, keepAnswer, dropWake
<1>11. CASE AnswersBegin
  BY <1>0, <1>11 DEF TableTypes, PassTypes, AnswerTypes, Gens, AnswersBegin
<1>12. ASSUME NEW k \in Answers, AnswerCut(k) PROVE Gens'
  BY <1>0, <1>12 DEF TableTypes, PassTypes, AnswerTypes, Gens, AnswerCut, Drop
<1>13. ASSUME NEW k \in Answers, AnswerTaken(k) PROVE Gens'
  BY <1>0, <1>13
  DEF TableTypes, PassTypes, AnswerTypes, Gens, AnswerTaken, askWake, Route, Over, Drop, Waiting
<1>14. CASE CancelsNothing
  BY <1>0, <1>14
  DEF TableTypes, PassTypes, AnswerTypes, Gens, CancelsNothing, Route, Over, Drop, Waiting
<1>15. CASE CancelsRun
  BY <1>0, <1>15 DEF TableTypes, PassTypes, AnswerTypes, Gens, CancelsRun, mainRun
<1>16. CASE CancelsRecorded
  BY <1>0, <1>16
  DEF TableTypes, PassTypes, AnswerTypes, Gens, CancelsRecorded, recordTurnEnd, bindTurn, Route,
      Over, Drop, Waiting
<1>17. CASE PostFails
  BY <1>0, <1>17 DEF TableTypes, PassTypes, AnswerTypes, Gens, PostFails, Drop, Over
<1>18. CASE PostMarks
  BY <1>0, <1>18 DEF TableTypes, PassTypes, AnswerTypes, Gens, PostMarks
<1>19. CASE SayStarts
  BY <1>0, <1>19 DEF TableTypes, PassTypes, AnswerTypes, Gens, SayStarts, mainRun
<1>20. CASE SayJoins
  BY <1>0, <1>20 DEF TableTypes, PassTypes, AnswerTypes, Gens, SayJoins, mainRun
<1>21. CASE SayThrows
  BY <1>0, <1>21 DEF TableTypes, PassTypes, AnswerTypes, Gens, SayThrows, Drop, Over
<1>22. CASE Bound
  BY <1>0, <1>22 DEF TableTypes, PassTypes, AnswerTypes, Gens, Bound, bindTurn, Drop, Over
<1>23. CASE PassEnds
  BY <1>0, <1>23 DEF TableTypes, PassTypes, AnswerTypes, Gens, PassEnds
<1>24. CASE Says
  BY <1>0, <1>24 DEF TableTypes, PassTypes, AnswerTypes, Gens, Says, mainRun
<1>25. CASE CancelAborts
  BY <1>0, <1>25 DEF TableTypes, PassTypes, AnswerTypes, Gens, CancelAborts, mainRun
<1>26. CASE CancelRecords
  BY <1>0, <1>26
  DEF TableTypes, PassTypes, AnswerTypes, Gens, CancelRecords, recordTurnEnd, bindTurn
<1>27. ASSUME NEW m \in Mounts, Push(m) PROVE Gens'
  BY <1>0, <1>27 DEF TableTypes, PassTypes, AnswerTypes, Gens, Push, askWake
<1>28. ASSUME NEW m \in Mounts, keepWake(m) PROVE Gens'
  BY <1>0, <1>28 DEF TableTypes, PassTypes, AnswerTypes, Gens, keepWake, askWake
<1>29. ASSUME NEW m \in Mounts, WakeComesDue(m) PROVE Gens'
  BY <1>0, <1>29 DEF TableTypes, PassTypes, AnswerTypes, Gens, WakeComesDue
<1>30. CASE PassThrows
  BY <1>0, <1>30 DEF TableTypes, PassTypes, AnswerTypes, Gens, PassThrows, PassGone
<1>31. CASE Evicted
  BY <1>0, <1>31 DEF TableTypes, PassTypes, AnswerTypes, Gens, Evicted, PassGone
<1>32. CASE UNCHANGED vars
  BY <1>0, <1>32 DEF TableTypes, PassTypes, AnswerTypes, Gens, vars
<1> QED
  BY <1>1, <1>2, <1>3, <1>4, <1>5, <1>6, <1>7, <1>8, <1>9, <1>10, <1>11, <1>12, <1>13, <1>14,
     <1>15, <1>16, <1>17, <1>18, <1>19, <1>20, <1>21, <1>22, <1>23, <1>24, <1>25, <1>26, <1>27,
     <1>28, <1>29, <1>30, <1>31, <1>32
  DEF Next, PassStep, Around

(* An end is answered in the step that marks it handled. *)
LEMMA KeepsAnsweredOnce ==
  ASSUME IndInv, [Next]_vars PROVE AnsweredOnce'
<1> USE DEF Set, lane, ends, wakes, replies, work
<1>0. LaneTypes /\ TableTypes /\ PassTypes /\ EndsOwed /\ AnsweredOnce
  BY TypeParts DEF IndInv
<1>1. CASE PassBegins
  BY <1>0, <1>1 DEF LaneTypes, TableTypes, PassTypes, EndsOwed, AnsweredOnce, Runs, PassBegins
<1>2. ASSUME NEW r \in Runs, Settles(r) PROVE AnsweredOnce'
  BY <1>0, <1>2 DEF LaneTypes, TableTypes, PassTypes, EndsOwed, AnsweredOnce, Runs, Settles, mainRun
<1>3. CASE RecordEnd
  <2>1. /\ at \in Runs /\ answered' = answered
        /\ row' = (IF row[at] = "none" THEN [row EXCEPT ![at] = "owed"] ELSE row)
    BY <1>0, <1>3 DEF RecordEnd, recordTurnEnd, PassTypes
  <2> QED
    BY <1>0, <2>1 DEF TableTypes, AnsweredOnce
<1>4. CASE RecordFails
  BY <1>0, <1>4 DEF LaneTypes, TableTypes, PassTypes, EndsOwed, AnsweredOnce, Runs, RecordFails
<1>5. CASE HooksBegin
  BY <1>0, <1>5
  DEF LaneTypes, TableTypes, PassTypes, EndsOwed, AnsweredOnce, Runs, HooksBegin, mainRun
<1>6. ASSUME NEW r \in Runs, EndTold(r) PROVE AnsweredOnce'
  BY <1>0, <1>6 DEF LaneTypes, TableTypes, PassTypes, EndsOwed, AnsweredOnce, Runs, EndTold
<1>7. CASE EndAnswered
  BY <1>0, <1>7
  DEF LaneTypes, TableTypes, PassTypes, EndsOwed, AnsweredOnce, Runs, EndAnswered, keepAnswer
<1>8. CASE WakesBegin
  BY <1>0, <1>8 DEF LaneTypes, TableTypes, PassTypes, EndsOwed, AnsweredOnce, Runs, WakesBegin
<1>9. ASSUME NEW m \in Mounts, WakeCalled(m) PROVE AnsweredOnce'
  BY <1>0, <1>9 DEF LaneTypes, TableTypes, PassTypes, EndsOwed, AnsweredOnce, Runs, WakeCalled
<1>10. CASE WakeAnswered
  BY <1>0, <1>10
  DEF LaneTypes, TableTypes, PassTypes, EndsOwed, AnsweredOnce, Runs, WakeAnswered, keepAnswer,
      dropWake
<1>11. CASE AnswersBegin
  BY <1>0, <1>11 DEF LaneTypes, TableTypes, PassTypes, EndsOwed, AnsweredOnce, Runs, AnswersBegin
<1>12. ASSUME NEW k \in Answers, AnswerCut(k) PROVE AnsweredOnce'
  BY <1>0, <1>12 DEF LaneTypes, TableTypes, PassTypes, EndsOwed, AnsweredOnce, Runs, AnswerCut, Drop
<1>13. ASSUME NEW k \in Answers, AnswerTaken(k) PROVE AnsweredOnce'
  BY <1>0, <1>13
  DEF LaneTypes, TableTypes, PassTypes, EndsOwed, AnsweredOnce, Runs, AnswerTaken, askWake, Route,
      Over, Drop, Waiting
<1>14. CASE CancelsNothing
  BY <1>0, <1>14
  DEF LaneTypes, TableTypes, PassTypes, EndsOwed, AnsweredOnce, Runs, CancelsNothing, Route, Over,
      Drop, Waiting
<1>15. CASE CancelsRun
  BY <1>0, <1>15
  DEF LaneTypes, TableTypes, PassTypes, EndsOwed, AnsweredOnce, Runs, CancelsRun, mainRun
<1>16. CASE CancelsRecorded
  BY <1>0, <1>16
  DEF LaneTypes, TableTypes, PassTypes, EndsOwed, AnsweredOnce, Runs, CancelsRecorded,
      recordTurnEnd, bindTurn, Route, Over, Drop, Waiting
<1>17. CASE PostFails
  BY <1>0, <1>17
  DEF LaneTypes, TableTypes, PassTypes, EndsOwed, AnsweredOnce, Runs, PostFails, Drop, Over
<1>18. CASE PostMarks
  BY <1>0, <1>18 DEF LaneTypes, TableTypes, PassTypes, EndsOwed, AnsweredOnce, Runs, PostMarks
<1>19. CASE SayStarts
  BY <1>0, <1>19
  DEF LaneTypes, TableTypes, PassTypes, EndsOwed, AnsweredOnce, Runs, SayStarts, mainRun
<1>20. CASE SayJoins
  BY <1>0, <1>20
  DEF LaneTypes, TableTypes, PassTypes, EndsOwed, AnsweredOnce, Runs, SayJoins, mainRun
<1>21. CASE SayThrows
  BY <1>0, <1>21
  DEF LaneTypes, TableTypes, PassTypes, EndsOwed, AnsweredOnce, Runs, SayThrows, Drop, Over
<1>22. CASE Bound
  BY <1>0, <1>22
  DEF LaneTypes, TableTypes, PassTypes, EndsOwed, AnsweredOnce, Runs, Bound, bindTurn, Drop, Over
<1>23. CASE PassEnds
  BY <1>0, <1>23 DEF LaneTypes, TableTypes, PassTypes, EndsOwed, AnsweredOnce, Runs, PassEnds
<1>24. CASE Says
  BY <1>0, <1>24 DEF LaneTypes, TableTypes, PassTypes, EndsOwed, AnsweredOnce, Runs, Says, mainRun
<1>25. CASE CancelAborts
  BY <1>0, <1>25
  DEF LaneTypes, TableTypes, PassTypes, EndsOwed, AnsweredOnce, Runs, CancelAborts, mainRun
<1>26. CASE CancelRecords
  BY <1>0, <1>26
  DEF LaneTypes, TableTypes, PassTypes, EndsOwed, AnsweredOnce, Runs, CancelRecords,
      recordTurnEnd, bindTurn
<1>27. ASSUME NEW m \in Mounts, Push(m) PROVE AnsweredOnce'
  BY <1>0, <1>27 DEF LaneTypes, TableTypes, PassTypes, EndsOwed, AnsweredOnce, Runs, Push, askWake
<1>28. ASSUME NEW m \in Mounts, keepWake(m) PROVE AnsweredOnce'
  BY <1>0, <1>28
  DEF LaneTypes, TableTypes, PassTypes, EndsOwed, AnsweredOnce, Runs, keepWake, askWake
<1>29. ASSUME NEW m \in Mounts, WakeComesDue(m) PROVE AnsweredOnce'
  BY <1>0, <1>29 DEF LaneTypes, TableTypes, PassTypes, EndsOwed, AnsweredOnce, Runs, WakeComesDue
<1>30. CASE PassThrows
  BY <1>0, <1>30
  DEF LaneTypes, TableTypes, PassTypes, EndsOwed, AnsweredOnce, Runs, PassThrows, PassGone
<1>31. CASE Evicted
  BY <1>0, <1>31
  DEF LaneTypes, TableTypes, PassTypes, EndsOwed, AnsweredOnce, Runs, Evicted, PassGone
<1>32. CASE UNCHANGED vars
  BY <1>0, <1>32 DEF LaneTypes, TableTypes, PassTypes, EndsOwed, AnsweredOnce, Runs, vars
<1> QED
  BY <1>1, <1>2, <1>3, <1>4, <1>5, <1>6, <1>7, <1>8, <1>9, <1>10, <1>11, <1>12, <1>13, <1>14,
     <1>15, <1>16, <1>17, <1>18, <1>19, <1>20, <1>21, <1>22, <1>23, <1>24, <1>25, <1>26, <1>27,
     <1>28, <1>29, <1>30, <1>31, <1>32
  DEF Next, PassStep, Around

(* An answer is marked before its turn is written. *)
LEMMA KeepsPostedOnce ==
  ASSUME IndInv, [Next]_vars PROVE PostedOnce'
<1> USE DEF Set, lane, ends, wakes, replies, work
<1>0. AnswerTypes /\ TableTypes /\ PassTypes /\ AtHand /\ PostedOnce
  BY TypeParts DEF IndInv
<1>1. CASE PassBegins
  BY <1>0, <1>1 DEF AnswerTypes, TableTypes, PassTypes, AtHand, PostedOnce, Answer, PassBegins
<1>2. ASSUME NEW r \in Runs, Settles(r) PROVE PostedOnce'
  BY <1>0, <1>2 DEF AnswerTypes, TableTypes, PassTypes, AtHand, PostedOnce, Answer, Settles, mainRun
<1>3. CASE RecordEnd
  BY <1>0, <1>3
  DEF AnswerTypes, TableTypes, PassTypes, AtHand, PostedOnce, Answer, RecordEnd, recordTurnEnd,
      bindTurn
<1>4. CASE RecordFails
  BY <1>0, <1>4 DEF AnswerTypes, TableTypes, PassTypes, AtHand, PostedOnce, Answer, RecordFails
<1>5. CASE HooksBegin
  BY <1>0, <1>5
  DEF AnswerTypes, TableTypes, PassTypes, AtHand, PostedOnce, Answer, HooksBegin, mainRun
<1>6. ASSUME NEW r \in Runs, EndTold(r) PROVE PostedOnce'
  BY <1>0, <1>6 DEF AnswerTypes, TableTypes, PassTypes, AtHand, PostedOnce, Answer, EndTold
<1>7. CASE EndAnswered
  BY <1>0, <1>7
  DEF AnswerTypes, TableTypes, PassTypes, AtHand, PostedOnce, Answer, EndAnswered, keepAnswer
<1>8. CASE WakesBegin
  BY <1>0, <1>8 DEF AnswerTypes, TableTypes, PassTypes, AtHand, PostedOnce, Answer, WakesBegin
<1>9. ASSUME NEW m \in Mounts, WakeCalled(m) PROVE PostedOnce'
  BY <1>0, <1>9 DEF AnswerTypes, TableTypes, PassTypes, AtHand, PostedOnce, Answer, WakeCalled
<1>10. CASE WakeAnswered
  BY <1>0, <1>10
  DEF AnswerTypes, TableTypes, PassTypes, AtHand, PostedOnce, Answer, WakeAnswered, keepAnswer,
      dropWake
<1>11. CASE AnswersBegin
  BY <1>0, <1>11 DEF AnswerTypes, TableTypes, PassTypes, AtHand, PostedOnce, Answer, AnswersBegin
<1>12. ASSUME NEW k \in Answers, AnswerCut(k) PROVE PostedOnce'
  BY <1>0, <1>12 DEF AnswerTypes, TableTypes, PassTypes, AtHand, PostedOnce, Answer, AnswerCut, Drop
<1>13. ASSUME NEW k \in Answers, AnswerTaken(k) PROVE PostedOnce'
  BY <1>0, <1>13
  DEF AnswerTypes, TableTypes, PassTypes, AtHand, PostedOnce, Answer, AnswerTaken, askWake, Route,
      Over, Drop, Waiting
<1>14. CASE CancelsNothing
  BY <1>0, <1>14
  DEF AnswerTypes, TableTypes, PassTypes, AtHand, PostedOnce, Answer, CancelsNothing, Route, Over,
      Drop, Waiting
<1>15. CASE CancelsRun
  BY <1>0, <1>15
  DEF AnswerTypes, TableTypes, PassTypes, AtHand, PostedOnce, Answer, CancelsRun, mainRun
<1>16. CASE CancelsRecorded
  BY <1>0, <1>16
  DEF AnswerTypes, TableTypes, PassTypes, AtHand, PostedOnce, Answer, CancelsRecorded,
      recordTurnEnd, bindTurn, Route, Over, Drop, Waiting
<1>17. CASE PostFails
  BY <1>0, <1>17
  DEF AnswerTypes, TableTypes, PassTypes, AtHand, PostedOnce, Answer, PostFails, Drop, Over
<1>18. CASE PostMarks
  BY <1>0, <1>18 DEF AnswerTypes, TableTypes, PassTypes, AtHand, PostedOnce, Answer, PostMarks
<1>19. CASE SayStarts
  BY <1>0, <1>19
  DEF AnswerTypes, TableTypes, PassTypes, AtHand, PostedOnce, Answer, SayStarts, mainRun
<1>20. CASE SayJoins
  BY <1>0, <1>20
  DEF AnswerTypes, TableTypes, PassTypes, AtHand, PostedOnce, Answer, SayJoins, mainRun
<1>21. CASE SayThrows
  BY <1>0, <1>21
  DEF AnswerTypes, TableTypes, PassTypes, AtHand, PostedOnce, Answer, SayThrows, Drop, Over
<1>22. CASE Bound
  BY <1>0, <1>22
  DEF AnswerTypes, TableTypes, PassTypes, AtHand, PostedOnce, Answer, Bound, bindTurn, Drop, Over
<1>23. CASE PassEnds
  BY <1>0, <1>23 DEF AnswerTypes, TableTypes, PassTypes, AtHand, PostedOnce, Answer, PassEnds
<1>24. CASE Says
  BY <1>0, <1>24 DEF AnswerTypes, TableTypes, PassTypes, AtHand, PostedOnce, Answer, Says, mainRun
<1>25. CASE CancelAborts
  BY <1>0, <1>25
  DEF AnswerTypes, TableTypes, PassTypes, AtHand, PostedOnce, Answer, CancelAborts, mainRun
<1>26. CASE CancelRecords
  BY <1>0, <1>26
  DEF AnswerTypes, TableTypes, PassTypes, AtHand, PostedOnce, Answer, CancelRecords,
      recordTurnEnd, bindTurn
<1>27. ASSUME NEW m \in Mounts, Push(m) PROVE PostedOnce'
  BY <1>0, <1>27 DEF AnswerTypes, TableTypes, PassTypes, AtHand, PostedOnce, Answer, Push, askWake
<1>28. ASSUME NEW m \in Mounts, keepWake(m) PROVE PostedOnce'
  BY <1>0, <1>28
  DEF AnswerTypes, TableTypes, PassTypes, AtHand, PostedOnce, Answer, keepWake, askWake
<1>29. ASSUME NEW m \in Mounts, WakeComesDue(m) PROVE PostedOnce'
  BY <1>0, <1>29 DEF AnswerTypes, TableTypes, PassTypes, AtHand, PostedOnce, Answer, WakeComesDue
<1>30. CASE PassThrows
  BY <1>0, <1>30
  DEF AnswerTypes, TableTypes, PassTypes, AtHand, PostedOnce, Answer, PassThrows, PassGone
<1>31. CASE Evicted
  BY <1>0, <1>31
  DEF AnswerTypes, TableTypes, PassTypes, AtHand, PostedOnce, Answer, Evicted, PassGone
<1>32. CASE UNCHANGED vars
  BY <1>0, <1>32 DEF AnswerTypes, TableTypes, PassTypes, AtHand, PostedOnce, Answer, vars
<1> QED
  BY <1>1, <1>2, <1>3, <1>4, <1>5, <1>6, <1>7, <1>8, <1>9, <1>10, <1>11, <1>12, <1>13, <1>14,
     <1>15, <1>16, <1>17, <1>18, <1>19, <1>20, <1>21, <1>22, <1>23, <1>24, <1>25, <1>26, <1>27,
     <1>28, <1>29, <1>30, <1>31, <1>32
  DEF Next, PassStep, Around

(* An ask that came during the call has moved the gen. *)
LEMMA KeepsWakeKept ==
  ASSUME IndInv, [Next]_vars PROVE WakeKept'
<1> USE DEF Set, lane, ends, wakes, replies, work
<1>0. TableTypes /\ PassTypes /\ AnswerTypes /\ Gens /\ WakeKept
  BY TypeParts DEF IndInv
<1>1. CASE PassBegins
  BY <1>0, <1>1 DEF TableTypes, PassTypes, AnswerTypes, Gens, WakeKept, PassBegins
<1>2. ASSUME NEW r \in Runs, Settles(r) PROVE WakeKept'
  BY <1>0, <1>2 DEF TableTypes, PassTypes, AnswerTypes, Gens, WakeKept, Settles, mainRun
<1>3. CASE RecordEnd
  BY <1>0, <1>3
  DEF TableTypes, PassTypes, AnswerTypes, Gens, WakeKept, RecordEnd, recordTurnEnd, bindTurn
<1>4. CASE RecordFails
  BY <1>0, <1>4 DEF TableTypes, PassTypes, AnswerTypes, Gens, WakeKept, RecordFails
<1>5. CASE HooksBegin
  BY <1>0, <1>5 DEF TableTypes, PassTypes, AnswerTypes, Gens, WakeKept, HooksBegin, mainRun
<1>6. ASSUME NEW r \in Runs, EndTold(r) PROVE WakeKept'
  BY <1>0, <1>6 DEF TableTypes, PassTypes, AnswerTypes, Gens, WakeKept, EndTold
<1>7. CASE EndAnswered
  BY <1>0, <1>7 DEF TableTypes, PassTypes, AnswerTypes, Gens, WakeKept, EndAnswered, keepAnswer
<1>8. CASE WakesBegin
  BY <1>0, <1>8 DEF TableTypes, PassTypes, AnswerTypes, Gens, WakeKept, WakesBegin
<1>9. ASSUME NEW m \in Mounts, WakeCalled(m) PROVE WakeKept'
  BY <1>0, <1>9 DEF TableTypes, PassTypes, AnswerTypes, Gens, WakeKept, WakeCalled
<1>10. CASE WakeAnswered
  BY <1>0, <1>10
  DEF TableTypes, PassTypes, AnswerTypes, Gens, WakeKept, WakeAnswered, keepAnswer, dropWake
<1>11. CASE AnswersBegin
  BY <1>0, <1>11 DEF TableTypes, PassTypes, AnswerTypes, Gens, WakeKept, AnswersBegin
<1>12. ASSUME NEW k \in Answers, AnswerCut(k) PROVE WakeKept'
  BY <1>0, <1>12 DEF TableTypes, PassTypes, AnswerTypes, Gens, WakeKept, AnswerCut, Drop
<1>13. ASSUME NEW k \in Answers, AnswerTaken(k) PROVE WakeKept'
  BY <1>0, <1>13
  DEF TableTypes, PassTypes, AnswerTypes, Gens, WakeKept, AnswerTaken, askWake, Route, Over, Drop,
      Waiting
<1>14. CASE CancelsNothing
  BY <1>0, <1>14
  DEF TableTypes, PassTypes, AnswerTypes, Gens, WakeKept, CancelsNothing, Route, Over, Drop,
      Waiting
<1>15. CASE CancelsRun
  BY <1>0, <1>15 DEF TableTypes, PassTypes, AnswerTypes, Gens, WakeKept, CancelsRun, mainRun
<1>16. CASE CancelsRecorded
  BY <1>0, <1>16
  DEF TableTypes, PassTypes, AnswerTypes, Gens, WakeKept, CancelsRecorded, recordTurnEnd,
      bindTurn, Route, Over, Drop, Waiting
<1>17. CASE PostFails
  BY <1>0, <1>17 DEF TableTypes, PassTypes, AnswerTypes, Gens, WakeKept, PostFails, Drop, Over
<1>18. CASE PostMarks
  BY <1>0, <1>18 DEF TableTypes, PassTypes, AnswerTypes, Gens, WakeKept, PostMarks
<1>19. CASE SayStarts
  BY <1>0, <1>19 DEF TableTypes, PassTypes, AnswerTypes, Gens, WakeKept, SayStarts, mainRun
<1>20. CASE SayJoins
  BY <1>0, <1>20 DEF TableTypes, PassTypes, AnswerTypes, Gens, WakeKept, SayJoins, mainRun
<1>21. CASE SayThrows
  BY <1>0, <1>21 DEF TableTypes, PassTypes, AnswerTypes, Gens, WakeKept, SayThrows, Drop, Over
<1>22. CASE Bound
  BY <1>0, <1>22 DEF TableTypes, PassTypes, AnswerTypes, Gens, WakeKept, Bound, bindTurn, Drop, Over
<1>23. CASE PassEnds
  BY <1>0, <1>23 DEF TableTypes, PassTypes, AnswerTypes, Gens, WakeKept, PassEnds
<1>24. CASE Says
  BY <1>0, <1>24 DEF TableTypes, PassTypes, AnswerTypes, Gens, WakeKept, Says, mainRun
<1>25. CASE CancelAborts
  BY <1>0, <1>25 DEF TableTypes, PassTypes, AnswerTypes, Gens, WakeKept, CancelAborts, mainRun
<1>26. CASE CancelRecords
  BY <1>0, <1>26
  DEF TableTypes, PassTypes, AnswerTypes, Gens, WakeKept, CancelRecords, recordTurnEnd, bindTurn
<1>27. ASSUME NEW m \in Mounts, Push(m) PROVE WakeKept'
  BY <1>0, <1>27, AskKeepsWake DEF Push
<1>28. ASSUME NEW m \in Mounts, keepWake(m) PROVE WakeKept'
  BY <1>0, <1>28, AskKeepsWake DEF keepWake
<1>29. ASSUME NEW m \in Mounts, WakeComesDue(m) PROVE WakeKept'
  BY <1>0, <1>29 DEF TableTypes, PassTypes, AnswerTypes, Gens, WakeKept, WakeComesDue
<1>30. CASE PassThrows
  BY <1>0, <1>30 DEF TableTypes, PassTypes, AnswerTypes, Gens, WakeKept, PassThrows, PassGone
<1>31. CASE Evicted
  BY <1>0, <1>31 DEF TableTypes, PassTypes, AnswerTypes, Gens, WakeKept, Evicted, PassGone
<1>32. CASE UNCHANGED vars
  BY <1>0, <1>32 DEF TableTypes, PassTypes, AnswerTypes, Gens, WakeKept, vars
<1> QED
  BY <1>1, <1>2, <1>3, <1>4, <1>5, <1>6, <1>7, <1>8, <1>9, <1>10, <1>11, <1>12, <1>13, <1>14,
     <1>15, <1>16, <1>17, <1>18, <1>19, <1>20, <1>21, <1>22, <1>23, <1>24, <1>25, <1>26, <1>27,
     <1>28, <1>29, <1>30, <1>31, <1>32
  DEF Next, PassStep, Around

(* Every step keeps every part. *)
LEMMA StepIndInv == IndInv /\ [Next]_vars => IndInv'
  BY KeepsLane, KeepsTables, KeepsAnswers, KeepsPass, TypePartsNext, KeepsEndsOwed,
     KeepsAtHand, KeepsGens, KeepsAnsweredOnce, KeepsPostedOnce, KeepsWakeKept DEF IndInv

(* The invariant holds throughout. *)
LEMMA Inductive == Spec => []IndInv
  BY InitIndInv, StepIndInv, PTL DEF Spec

-----------------------------------------------------------------------------

(* The rows and the pass keep their types, and one run of the main         *)
(* conversation is going at a time, however posts, cancels and passes      *)
(* interleave.                                                             *)
THEOREM TypeCorrect == Spec => []TypeOK
<1>1. IndInv => TypeOK
  BY DEF IndInv
<1> QED
  BY <1>1, Inductive, PTL

(* recordTurnEnd and turnEndHandled: a hook answers for a turn once.       *)
THEOREM EndAnsweredOnce == Spec => []AnsweredOnce
<1>1. IndInv => AnsweredOnce
  BY DEF IndInv
<1> QED
  BY <1>1, Inductive, PTL

(* beforeSay and dropAnswer: a turn asked for is given to the engine at    *)
(* most once, wherever the pass is cut.                                    *)
THEOREM TurnPostedOnce == Spec => []PostedOnce
<1>1. IndInv => PostedOnce
  BY DEF IndInv
<1> QED
  BY <1>1, Inductive, PTL

(* askWake and dropWake: a wake asked for while one runs keeps its row.    *)
THEOREM NoWakeLost == Spec => []WakeKept
<1>1. IndInv => WakeKept
  BY DEF IndInv
<1> QED
  BY <1>1, Inductive, PTL

-----------------------------------------------------------------------------
(* What a step may not undo *)

(* An end recorded stays, and one handled is never owed again. *)
EndForward(r) ==
  /\ row[r] # "none" => row'[r] # "none"
  /\ row[r] = "handled" => row'[r] = "handled"

(* An answer keeps its mount; one that is being posted is not kept again,  *)
(* one dropped stays dropped, and the engine is given one only while it is *)
(* marked.                                                                 *)
AnswerForward(k) ==
  /\ ans[k].at # "none" => ans'[k].at # "none" /\ ans'[k].by = ans[k].by
  /\ ans[k].at = "posting" => ans'[k].at # "kept"
  /\ ans[k].at = "gone" => ans'[k].at = "gone"
  /\ posts'[k] # posts[k] => ans[k].at = "posting"

Forward ==
  /\ \A r \in Runs : EndForward(r)
  /\ \A k \in Answers : AnswerForward(k)

(* What Drop, Route and keepAnswer do to the answers. *)
LEMMA DropForward ==
  ASSUME AnswerTypes, NEW k \in Answers, ans[k].at # "none", Drop(k), UNCHANGED posts
  PROVE  \A j \in Answers : AnswerForward(j)
  BY DEF AnswerTypes, Answer, Drop, AnswerForward

LEMMA RouteForward ==
  ASSUME AnswerTypes, NEW k \in Answers, ans[k].at = "kept", Route(k, ans[k].body),
         UNCHANGED posts
  PROVE  \A j \in Answers : AnswerForward(j)
<1>1. CASE ans' = [ans EXCEPT ![k].body = Waiting(ans[k].body)]
  BY <1>1 DEF AnswerTypes, Answer, AnswerForward
<1>2. CASE ans' = ans
  BY <1>2 DEF AnswerForward
<1>3. CASE Drop(k)
  BY <1>3, DropForward
<1> QED
  BY <1>1, <1>2, <1>3 DEF Route

LEMMA KeepForward ==
  ASSUME AnswerTypes, NEW ms, keepAnswer(ms), UNCHANGED posts
  PROVE  \A j \in Answers : AnswerForward(j)
<1> SUFFICES ASSUME NEW j \in Answers PROVE AnswerForward(j)
  OBVIOUS
<1>1. PICK K \in SUBSET {k \in Answers : ans[k].at = "none"} :
        \E by \in [K -> ms], body \in [K -> Bodies] :
          ans' = [k \in Answers |-> IF k \in K THEN [at |-> "kept", by |-> by[k], body |-> body[k]]
                                    ELSE ans[k]]
  BY DEF keepAnswer
<1>2. CASE j \in K
  BY <1>1, <1>2 DEF AnswerForward
<1>3. CASE j \notin K
  BY <1>1, <1>3 DEF AnswerForward
<1> QED
  BY <1>2, <1>3

(* An end recorded again is not told again. *)
LEMMA RecordForward ==
  ASSUME TableTypes, NEW r \in Runs, recordTurnEnd(r)
  PROVE  \A q \in Runs : EndForward(q)
  BY DEF TableTypes, recordTurnEnd, Set, EndForward

(* Every step goes forward. *)
LEMMA StepForward ==
  ASSUME IndInv, [Next]_vars PROVE Forward
<1> USE DEF Set, lane, ends, wakes, replies, work
<1>0. LaneTypes /\ TableTypes /\ AnswerTypes /\ PassTypes /\ EndsOwed /\ AtHand
  BY TypeParts DEF IndInv
<1>1. CASE PassBegins
  BY <1>0, <1>1
  DEF Forward, EndForward, AnswerForward, PassBegins
<1>2. ASSUME NEW r \in Runs, Settles(r) PROVE Forward
  BY <1>0, <1>2
  DEF Forward, EndForward, AnswerForward, Settles
<1>3. CASE RecordEnd
  <2>1. at \in Runs /\ UNCHANGED replies
    BY <1>0, <1>3 DEF RecordEnd, PassTypes
  <2>2. \A k \in Answers : AnswerForward(k)
    BY <2>1 DEF AnswerForward
  <2>3. CASE at \in short
    BY <1>0, <1>3, <2>1, <2>2, <2>3 DEF RecordEnd, TableTypes, Forward, EndForward
  <2>4. CASE at \notin short
    BY <1>0, <1>3, <2>1, <2>2, <2>4, RecordForward DEF RecordEnd, Forward
  <2> QED
    BY <2>3, <2>4
<1>4. CASE RecordFails
  BY <1>0, <1>4
  DEF Forward, EndForward, AnswerForward, RecordFails
<1>5. CASE HooksBegin
  BY <1>0, <1>5
  DEF Forward, EndForward, AnswerForward, HooksBegin
<1>6. ASSUME NEW r \in Runs, EndTold(r) PROVE Forward
  BY <1>0, <1>6
  DEF Forward, EndForward, AnswerForward, EndTold
<1>7. CASE EndAnswered
  <2>1. \A k \in Answers : AnswerForward(k)
    BY <1>0, <1>7, KeepForward DEF EndAnswered
  <2>2. \A r \in Runs : EndForward(r)
    BY <1>0, <1>7 DEF EndAnswered, TableTypes, EndForward
  <2> QED
    BY <2>1, <2>2 DEF Forward
<1>8. CASE WakesBegin
  BY <1>0, <1>8
  DEF Forward, EndForward, AnswerForward, WakesBegin
<1>9. ASSUME NEW m \in Mounts, WakeCalled(m) PROVE Forward
  BY <1>0, <1>9
  DEF Forward, EndForward, AnswerForward, WakeCalled
<1>10. CASE WakeAnswered
  <2>1. \A k \in Answers : AnswerForward(k)
    BY <1>0, <1>10, KeepForward DEF WakeAnswered
  <2> QED
    BY <1>10, <2>1 DEF WakeAnswered, Forward, EndForward
<1>11. CASE AnswersBegin
  BY <1>0, <1>11
  DEF Forward, EndForward, AnswerForward, AnswersBegin
<1>12. ASSUME NEW k \in Answers, AnswerCut(k) PROVE Forward
  BY <1>0, <1>12, DropForward DEF AnswerCut, Forward, EndForward
<1>13. ASSUME NEW k \in Answers, AnswerTaken(k) PROVE Forward
  <2>1. \A j \in Answers : AnswerForward(j)
    <3>1. CASE ans[k].body.cancels
      BY <1>13, <3>1 DEF AnswerTaken, AnswerForward
    <3>2. CASE ~ans[k].body.cancels
      BY <1>0, <1>13, <3>2, RouteForward DEF AnswerTaken
    <3> QED
      BY <3>1, <3>2
  <2> QED
    BY <1>13, <2>1 DEF AnswerTaken, Forward, EndForward
<1>14. CASE CancelsNothing
  <2>1. at \in Answers /\ ans[at].at = "kept"
    BY <1>0, <1>14 DEF CancelsNothing, PassTypes, AtHand
  <2>2. \A k \in Answers : AnswerForward(k)
    BY <1>0, <1>14, <2>1, RouteForward DEF CancelsNothing
  <2> QED
    BY <1>14, <2>2 DEF CancelsNothing, Forward, EndForward
<1>15. CASE CancelsRun
  BY <1>0, <1>15
  DEF Forward, EndForward, AnswerForward, CancelsRun
<1>16. CASE CancelsRecorded
  <2>1. at \in Answers /\ ans[at].at = "kept" /\ op \in Runs
    BY <1>0, <1>16, Bounds DEF CancelsRecorded, PassTypes, AtHand, Runs
  <2>2. \A k \in Answers : AnswerForward(k)
    BY <1>0, <1>16, <2>1, RouteForward DEF CancelsRecorded
  <2> QED
    BY <1>0, <1>16, <2>1, <2>2, RecordForward DEF CancelsRecorded, Forward
<1>17. CASE PostFails
  BY <1>0, <1>17, DropForward DEF PostFails, PassTypes, AtHand, Forward, EndForward
<1>18. CASE PostMarks
  <2>1. at \in Answers /\ ans[at].at = "kept"
    BY <1>0, <1>18 DEF PostMarks, PassTypes, AtHand
  <2> QED
    BY <1>0, <1>18, <2>1 DEF PostMarks, AnswerTypes, Answer, Forward, EndForward, AnswerForward
<1>19. CASE SayStarts
  <2>1. at \in Answers /\ ans[at].at = "posting"
    BY <1>0, <1>19 DEF SayStarts, PassTypes, AtHand
  <2> QED
    BY <1>0, <1>19, <2>1 DEF SayStarts, TableTypes, Forward, EndForward, AnswerForward
<1>20. CASE SayJoins
  <2>1. at \in Answers /\ ans[at].at = "posting"
    BY <1>0, <1>20 DEF SayJoins, PassTypes, AtHand
  <2> QED
    BY <1>0, <1>20, <2>1 DEF SayJoins, TableTypes, Forward, EndForward, AnswerForward
<1>21. CASE SayThrows
  BY <1>0, <1>21, DropForward DEF SayThrows, PassTypes, AtHand, Forward, EndForward
<1>22. CASE Bound
  BY <1>0, <1>22, DropForward DEF Bound, PassTypes, AtHand, Forward, EndForward
<1>23. CASE PassEnds
  BY <1>0, <1>23
  DEF Forward, EndForward, AnswerForward, PassEnds
<1>24. CASE Says
  BY <1>0, <1>24
  DEF Forward, EndForward, AnswerForward, Says
<1>25. CASE CancelAborts
  BY <1>0, <1>25
  DEF Forward, EndForward, AnswerForward, CancelAborts
<1>26. CASE CancelRecords
  <2>1. stopping \in Runs
    BY <1>0, <1>26, Bounds DEF CancelRecords, LaneTypes, Runs
  <2> QED
    BY <1>0, <1>26, <2>1, RecordForward DEF CancelRecords, Forward, AnswerForward
<1>27. ASSUME NEW m \in Mounts, Push(m) PROVE Forward
  BY <1>0, <1>27
  DEF Forward, EndForward, AnswerForward, Push, askWake
<1>28. ASSUME NEW m \in Mounts, keepWake(m) PROVE Forward
  BY <1>0, <1>28
  DEF Forward, EndForward, AnswerForward, keepWake, askWake
<1>29. ASSUME NEW m \in Mounts, WakeComesDue(m) PROVE Forward
  BY <1>0, <1>29
  DEF Forward, EndForward, AnswerForward, WakeComesDue
<1>30. CASE PassThrows
  BY <1>0, <1>30
  DEF Forward, EndForward, AnswerForward, PassThrows, PassGone
<1>31. CASE Evicted
  BY <1>0, <1>31
  DEF Forward, EndForward, AnswerForward, Evicted, PassGone
<1>32. CASE UNCHANGED vars
  BY <1>0, <1>32 DEF Forward, EndForward, AnswerForward, vars
<1> QED
  BY <1>1, <1>2, <1>3, <1>4, <1>5, <1>6, <1>7, <1>8, <1>9, <1>10, <1>11, <1>12, <1>13, <1>14,
     <1>15, <1>16, <1>17, <1>18, <1>19, <1>20, <1>21, <1>22, <1>23, <1>24, <1>25, <1>26, <1>27,
     <1>28, <1>29, <1>30, <1>31, <1>32
  DEF Next, PassStep, Around

(* plugin_turn_ends and plugin_answers only go forward: an end that was    *)
(* handled is never owed again, an answer dropped never comes back, and no *)
(* turn is given to the engine but from an answer marked before the write, *)
(* whoever records, cancels, throws or is evicted in between.              *)
THEOREM NothingUndone == Spec => [][Forward]_vars
<1>1. IndInv /\ [Next]_vars => [Forward]_vars
  BY StepForward
<1> QED
  BY <1>1, Inductive, PTL DEF Spec

-----------------------------------------------------------------------------
(* When a turn's key is its own *)

(* While a key waits for its run, the write does not throw, the object is  *)
(* not evicted and no cancel records the end of another run; and no turn   *)
(* that a hook asked for joins a run.                                      *)
KeyUndisturbed ==
  /\ SayThrows \/ Evicted => asked = None
  /\ CancelRecords => asked = None \/ stopping = op
  /\ ~SayJoins

(* A key waits between its mark and its binding, and the run it is bound   *)
(* to was given the answer's turn.                                         *)
KeyWaits ==
  /\ asked # None => pass \in {"say", "said"} /\ at = asked
  /\ pass \in {"post", "say"} => op = 0
  /\ pass = "say" /\ asked # None => ans[at].body.turn = "main"
  /\ pass = "said" => IF op = 0 THEN asked = None ELSE op \in 1..starts /\ at \in holds[op]

KeysOwn == \A r \in Runs : key[r] # None => r \in 1..starts /\ key[r] \in holds[r]

KeyInv == KeyWaits /\ KeysOwn

(* A run is given more turns, never fewer. *)
LEMMA KeysStay ==
  ASSUME KeysOwn, UNCHANGED <<key, starts, holds>>
  PROVE  KeysOwn'
  BY DEF KeysOwn

(* No end recorded takes a key when none waits. *)
LEMMA RecordsNoKey ==
  ASSUME asked = None, NEW r, recordTurnEnd(r)
  PROVE  UNCHANGED <<key, asked>>
  BY DEF recordTurnEnd

(* A key bound to a run that was given its turn. *)
LEMMA BindsOwn ==
  ASSUME TableTypes, KeysOwn, NEW r \in Runs, r \in 1..starts, NEW k \in Answers, k \in holds[r],
         key' = Set(key, r, k), UNCHANGED <<starts, holds>>
  PROVE  KeysOwn'
  BY DEF TableTypes, KeysOwn, Set

(* Every undisturbed step keeps the keys with their runs. *)
LEMMA KeepsKeyWaits ==
  ASSUME IndInv, KeyInv, Next, KeyUndisturbed PROVE KeyWaits'
<1> USE DEF Set, lane, ends, wakes, replies, work
<1>0. LaneTypes /\ TableTypes /\ AnswerTypes /\ PassTypes /\ AtHand /\ KeyWaits
  BY TypeParts DEF IndInv, KeyInv
<1>1. CASE PassBegins
  BY <1>0, <1>1
  DEF KeyWaits, PassBegins
<1>2. ASSUME NEW r \in Runs, Settles(r) PROVE KeyWaits'
  BY <1>0, <1>2
  DEF KeyWaits, Settles
<1>3. CASE RecordEnd
  <2>1. asked = None
    BY <1>0, <1>3 DEF RecordEnd, KeyWaits
  <2>2. asked' = None
    BY <1>3, <2>1, RecordsNoKey DEF RecordEnd
  <2> QED
    BY <1>3, <2>2 DEF RecordEnd, KeyWaits
<1>4. CASE RecordFails
  BY <1>0, <1>4
  DEF KeyWaits, RecordFails
<1>5. CASE HooksBegin
  BY <1>0, <1>5
  DEF KeyWaits, HooksBegin
<1>6. ASSUME NEW r \in Runs, EndTold(r) PROVE KeyWaits'
  BY <1>0, <1>6
  DEF KeyWaits, EndTold
<1>7. CASE EndAnswered
  BY <1>0, <1>7
  DEF KeyWaits, EndAnswered, keepAnswer
<1>8. CASE WakesBegin
  BY <1>0, <1>8
  DEF KeyWaits, WakesBegin
<1>9. ASSUME NEW m \in Mounts, WakeCalled(m) PROVE KeyWaits'
  BY <1>0, <1>9
  DEF KeyWaits, WakeCalled
<1>10. CASE WakeAnswered
  BY <1>0, <1>10
  DEF KeyWaits, WakeAnswered, keepAnswer, dropWake
<1>11. CASE AnswersBegin
  BY <1>0, <1>11
  DEF KeyWaits, AnswersBegin
<1>12. ASSUME NEW k \in Answers, AnswerCut(k) PROVE KeyWaits'
  BY <1>0, <1>12
  DEF KeyWaits, AnswerCut, Drop
<1>13. ASSUME NEW k \in Answers, AnswerTaken(k) PROVE KeyWaits'
  BY <1>0, <1>13
  DEF KeyWaits, AnswerTaken, askWake, Route, Over, Drop, Waiting
<1>14. CASE CancelsNothing
  BY <1>0, <1>14
  DEF KeyWaits, CancelsNothing, Route, Over, Drop, Waiting
<1>15. CASE CancelsRun
  BY <1>0, <1>15
  DEF KeyWaits, CancelsRun
<1>16. CASE CancelsRecorded
  <2>1. asked = None
    BY <1>0, <1>16 DEF CancelsRecorded, KeyWaits
  <2>2. asked' = None
    BY <1>16, <2>1, RecordsNoKey DEF CancelsRecorded
  <2>3. pass' \notin {"say", "said"} /\ op' = 0
    BY <1>16 DEF CancelsRecorded, Route, Over
  <2> QED
    BY <2>2, <2>3 DEF KeyWaits
<1>17. CASE PostFails
  <2>1. asked = None /\ UNCHANGED asked /\ pass' = "answers"
    BY <1>0, <1>17 DEF PostFails, Over, KeyWaits
  <2> QED
    BY <2>1 DEF KeyWaits
<1>18. CASE PostMarks
  <2>1. asked = None /\ op = 0 /\ pass' = "say" /\ UNCHANGED <<at, op>> /\ at \in Answers
    BY <1>0, <1>18 DEF PostMarks, KeyWaits, PassTypes
  <2>2. asked' # None => asked' = at /\ ans[at].body.turn = "main"
    BY <1>18, <2>1 DEF PostMarks
  <2>3. ans'[at].body = ans[at].body
    BY <1>0, <1>18, <2>1 DEF PostMarks, AnswerTypes, Answer
  <2> QED
    BY <2>1, <2>2, <2>3 DEF KeyWaits
<1>19. CASE SayStarts
  <2>1. at \in Answers /\ starts + 1 \in Runs /\ starts \in Nat
        /\ ans[at].body.turn \in {"main", "alone"}
    BY <1>0, <1>19, Bounds DEF SayStarts, PassTypes, LaneTypes, AtHand, Runs
  <2>2. pass' = "said" /\ UNCHANGED <<asked, at>> /\ (asked # None => at = asked)
    BY <1>0, <1>19 DEF SayStarts, KeyWaits
  <2>3. starts' = starts + 1 /\ at \in holds'[starts + 1]
    BY <1>0, <1>19, <2>1 DEF SayStarts, LaneTypes
  <2>4. starts + 1 \in 1..starts'
    BY <2>1, <2>3
  <2>5. CASE ans[at].body.turn = "main"
    <3>1. op' = starts + 1 /\ op' # 0
      BY <1>19, <2>1, <2>5 DEF SayStarts
    <3> QED
      BY <2>2, <2>3, <2>4, <3>1 DEF KeyWaits
  <2>6. CASE ans[at].body.turn = "alone"
    <3>1. op' = 0 /\ asked = None
      BY <1>0, <1>19, <2>6 DEF SayStarts, KeyWaits
    <3> QED
      BY <2>2, <3>1 DEF KeyWaits
  <2> QED
    BY <2>1, <2>5, <2>6
<1>20. CASE SayJoins
  BY <1>20 DEF KeyUndisturbed
<1>21. CASE SayThrows
  BY <1>21 DEF KeyUndisturbed, SayThrows, Over, KeyWaits
<1>22. CASE Bound
  BY <1>0, <1>22
  DEF KeyWaits, Bound, bindTurn, Drop, Over
<1>23. CASE PassEnds
  BY <1>0, <1>23
  DEF KeyWaits, PassEnds
<1>24. CASE Says
  <2>1. starts \in Nat /\ starts' = starts + 1 /\ UNCHANGED <<asked, holds, ans, pass, at, op>>
    BY <1>0, <1>24, Bounds DEF Says, LaneTypes
  <2>2. \A r \in 1..starts : r \in 1..starts'
    BY <2>1
  <2> QED
    BY <1>0, <2>1, <2>2 DEF KeyWaits
<1>25. CASE CancelAborts
  BY <1>0, <1>25
  DEF KeyWaits, CancelAborts
<1>26. CASE CancelRecords
  <2>1. CASE asked = None
    <3>1. asked' = None /\ UNCHANGED <<lane, work, replies>>
      BY <1>26, <2>1, RecordsNoKey DEF CancelRecords
    <3> QED
      BY <1>0, <3>1 DEF KeyWaits
  <2>2. CASE asked # None
    <3>1. UNCHANGED <<lane, work, replies>> /\ asked' \in {asked, None}
      BY <1>26 DEF CancelRecords, recordTurnEnd, bindTurn
    <3> QED
      BY <1>0, <3>1 DEF KeyWaits
  <2> QED
    BY <2>1, <2>2
<1>27. ASSUME NEW m \in Mounts, Push(m) PROVE KeyWaits'
  BY <1>0, <1>27
  DEF KeyWaits, Push, askWake
<1>28. ASSUME NEW m \in Mounts, keepWake(m) PROVE KeyWaits'
  BY <1>0, <1>28
  DEF KeyWaits, keepWake, askWake
<1>29. ASSUME NEW m \in Mounts, WakeComesDue(m) PROVE KeyWaits'
  BY <1>0, <1>29
  DEF KeyWaits, WakeComesDue
<1>30. CASE PassThrows
  BY <1>0, <1>30
  DEF KeyWaits, PassThrows, PassGone
<1>31. CASE Evicted
  BY <1>31 DEF KeyUndisturbed, Evicted, PassGone, KeyWaits
<1> QED
  BY <1>1, <1>2, <1>3, <1>4, <1>5, <1>6, <1>7, <1>8, <1>9, <1>10, <1>11, <1>12, <1>13, <1>14,
     <1>15, <1>16, <1>17, <1>18, <1>19, <1>20, <1>21, <1>22, <1>23, <1>24, <1>25, <1>26, <1>27,
     <1>28, <1>29, <1>30, <1>31
  DEF Next, PassStep, Around

LEMMA KeepsKeysOwn ==
  ASSUME IndInv, KeyInv, Next, KeyUndisturbed PROVE KeysOwn'
<1> USE DEF Set, lane, ends, wakes, replies, work
<1>0. LaneTypes /\ TableTypes /\ PassTypes /\ KeyWaits /\ KeysOwn
  BY TypeParts DEF IndInv, KeyInv
<1>1. CASE PassBegins
  BY <1>0, <1>1, KeysStay DEF PassBegins
<1>2. ASSUME NEW r \in Runs, Settles(r) PROVE KeysOwn'
  BY <1>0, <1>2, KeysStay DEF Settles
<1>3. CASE RecordEnd
  <2>1. asked = None
    BY <1>0, <1>3 DEF RecordEnd, KeyWaits
  <2>2. UNCHANGED <<key, starts, holds>>
    BY <1>3, <2>1, RecordsNoKey DEF RecordEnd
  <2> QED
    BY <1>0, <2>2, KeysStay
<1>4. CASE RecordFails
  BY <1>0, <1>4, KeysStay DEF RecordFails
<1>5. CASE HooksBegin
  BY <1>0, <1>5, KeysStay DEF HooksBegin
<1>6. ASSUME NEW r \in Runs, EndTold(r) PROVE KeysOwn'
  BY <1>0, <1>6, KeysStay DEF EndTold
<1>7. CASE EndAnswered
  BY <1>0, <1>7, KeysStay DEF EndAnswered
<1>8. CASE WakesBegin
  BY <1>0, <1>8, KeysStay DEF WakesBegin
<1>9. ASSUME NEW m \in Mounts, WakeCalled(m) PROVE KeysOwn'
  BY <1>0, <1>9, KeysStay DEF WakeCalled
<1>10. CASE WakeAnswered
  BY <1>0, <1>10, KeysStay DEF WakeAnswered
<1>11. CASE AnswersBegin
  BY <1>0, <1>11, KeysStay DEF AnswersBegin
<1>12. ASSUME NEW k \in Answers, AnswerCut(k) PROVE KeysOwn'
  BY <1>0, <1>12, KeysStay DEF AnswerCut
<1>13. ASSUME NEW k \in Answers, AnswerTaken(k) PROVE KeysOwn'
  BY <1>0, <1>13, KeysStay DEF AnswerTaken
<1>14. CASE CancelsNothing
  BY <1>0, <1>14, KeysStay DEF CancelsNothing
<1>15. CASE CancelsRun
  BY <1>0, <1>15, KeysStay DEF CancelsRun
<1>16. CASE CancelsRecorded
  <2>1. asked = None
    BY <1>0, <1>16 DEF CancelsRecorded, KeyWaits
  <2>2. UNCHANGED <<key, starts, holds>>
    BY <1>16, <2>1, RecordsNoKey DEF CancelsRecorded
  <2> QED
    BY <1>0, <2>2, KeysStay
<1>17. CASE PostFails
  BY <1>0, <1>17, KeysStay DEF PostFails
<1>18. CASE PostMarks
  BY <1>0, <1>18, KeysStay DEF PostMarks
<1>19. CASE SayStarts
  <2>1. at \in Answers /\ starts + 1 \in Runs /\ starts \in Nat
    BY <1>0, <1>19, Bounds DEF SayStarts, PassTypes, LaneTypes, Runs
  <2>2. starts' = starts + 1 /\ holds' = [holds EXCEPT ![starts + 1] = {at}]
    BY <1>19 DEF SayStarts
  <2>3. key' = key \/ key' = [key EXCEPT ![starts + 1] = at]
    BY <1>19 DEF SayStarts
  <2> SUFFICES ASSUME NEW r \in Runs, key'[r] # None
               PROVE  r \in 1..starts' /\ key'[r] \in holds'[r]
    BY DEF KeysOwn
  <2>4. CASE r = starts + 1
    <3>1. starts + 1 \notin 1..starts /\ starts + 1 \in 1..starts'
      BY <2>1, <2>2
    <3>2. key[r] = None
      BY <1>0, <2>4, <3>1 DEF KeysOwn
    <3>3. key'[r] = at
      BY <1>0, <2>1, <2>3, <2>4, <3>2 DEF TableTypes
    <3> QED
      BY <1>0, <2>1, <2>2, <2>4, <3>1, <3>3 DEF LaneTypes
  <2>5. CASE r # starts + 1
    <3>1. key'[r] = key[r] /\ holds'[r] = holds[r]
      BY <1>0, <2>2, <2>3, <2>5 DEF TableTypes, LaneTypes
    <3>2. r \in 1..starts
      BY <1>0, <3>1 DEF KeysOwn
    <3>3. r \in 1..starts'
      BY <2>1, <2>2, <3>2
    <3> QED
      BY <1>0, <3>1, <3>3 DEF KeysOwn
  <2> QED
    BY <2>4, <2>5
<1>20. CASE SayJoins
  BY <1>20 DEF KeyUndisturbed
<1>21. CASE SayThrows
  BY <1>0, <1>21, KeysStay DEF SayThrows
<1>22. CASE Bound
  <2>1. CASE op = 0
    BY <1>0, <1>22, <2>1, KeysStay DEF Bound
  <2>2. CASE op # 0
    <3>1. op \in 1..starts /\ at \in holds[op] /\ at \in Answers /\ op \in Runs
      BY <1>0, <1>22, <2>2, Bounds DEF Bound, KeyWaits, PassTypes, LaneTypes, Runs
    <3>2. key' = Set(key, op, at) /\ UNCHANGED <<starts, holds>>
      BY <1>22, <2>2 DEF Bound, bindTurn
    <3> QED
      BY <1>0, <3>1, <3>2, BindsOwn
  <2> QED
    BY <2>1, <2>2
<1>23. CASE PassEnds
  BY <1>0, <1>23, KeysStay DEF PassEnds
<1>24. CASE Says
  <2>1. starts \in Nat /\ starts' = starts + 1 /\ UNCHANGED <<key, holds>>
    BY <1>0, <1>24, Bounds DEF Says, LaneTypes
  <2>2. \A r \in 1..starts : r \in 1..starts'
    BY <2>1
  <2> QED
    BY <1>0, <2>1, <2>2 DEF KeysOwn
<1>25. CASE CancelAborts
  BY <1>0, <1>25, KeysStay DEF CancelAborts
<1>26. CASE CancelRecords
  <2>1. UNCHANGED <<starts, holds>>
    BY <1>26 DEF CancelRecords
  <2>2. CASE UNCHANGED key
    BY <1>0, <2>1, <2>2, KeysStay
  <2>3. CASE ~UNCHANGED key
    <3>1. asked # None /\ key' = Set(key, stopping, asked)
      BY <1>26, <2>3 DEF CancelRecords, recordTurnEnd, bindTurn
    <3>2. stopping = op /\ stopping # 0
      BY <1>26, <3>1 DEF KeyUndisturbed, CancelRecords
    <3>3. at = asked /\ at \in Answers /\ op \in 1..starts /\ at \in holds[op] /\ op \in Runs
      BY <1>0, <3>1, <3>2, Bounds DEF KeyWaits, PassTypes, LaneTypes, Runs
    <3> QED
      BY <1>0, <2>1, <3>1, <3>2, <3>3, BindsOwn
  <2> QED
    BY <2>2, <2>3
<1>27. ASSUME NEW m \in Mounts, Push(m) PROVE KeysOwn'
  BY <1>0, <1>27, KeysStay DEF Push
<1>28. ASSUME NEW m \in Mounts, keepWake(m) PROVE KeysOwn'
  BY <1>0, <1>28, KeysStay DEF keepWake
<1>29. ASSUME NEW m \in Mounts, WakeComesDue(m) PROVE KeysOwn'
  BY <1>0, <1>29, KeysStay DEF WakeComesDue
<1>30. CASE PassThrows
  BY <1>0, <1>30, KeysStay DEF PassThrows
<1>31. CASE Evicted
  BY <1>0, <1>31, KeysStay DEF Evicted
<1> QED
  BY <1>1, <1>2, <1>3, <1>4, <1>5, <1>6, <1>7, <1>8, <1>9, <1>10, <1>11, <1>12, <1>13, <1>14,
     <1>15, <1>16, <1>17, <1>18, <1>19, <1>20, <1>21, <1>22, <1>23, <1>24, <1>25, <1>26, <1>27,
     <1>28, <1>29, <1>30, <1>31
  DEF Next, PassStep, Around

(* A turn's end carries the key of a turn its run was given (types.ts,     *)
(* TurnEnd.turnKey), unless a post throws, or the object is evicted, while *)
(* the key waits, a cancel records another run's end meanwhile, or a turn  *)
(* a hook asked for joins a run that is going: the disagreement the run    *)
(* PluginHooksKey shows has these causes and no other.                     *)
THEOREM KeyForCause == Spec /\ [][KeyUndisturbed]_vars => []KeyIsItsOwn
<1>1. Init => KeyInv
  BY DEF Init, KeyInv, KeyWaits, KeysOwn
<1>2. IndInv /\ KeyInv /\ [Next]_vars /\ [KeyUndisturbed]_vars => KeyInv'
  <2>1. ASSUME KeyInv, UNCHANGED vars PROVE KeyInv'
    BY <2>1 DEF vars, lane, ends, replies, work, KeyInv, KeyWaits, KeysOwn
  <2>2. ASSUME IndInv, KeyInv, Next, KeyUndisturbed PROVE KeyInv'
    BY <2>2, KeepsKeyWaits, KeepsKeysOwn DEF KeyInv
  <2> QED
    BY <2>1, <2>2
<1>3. KeyInv => KeyIsItsOwn
  BY DEF KeyInv, KeysOwn, KeyIsItsOwn
<1> QED
  BY <1>1, <1>2, <1>3, Inductive, PTL DEF Spec
=============================================================================
