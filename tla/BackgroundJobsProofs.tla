------------------------ MODULE BackgroundJobsProofs ------------------------
(***************************************************************************)
(* That a job's end is told at most once and only after it is recorded,    *)
(* that no work runs untracked, and that the cap holds, for any number of  *)
(* calls, any cap and any number of evictions. Beside these the inductive  *)
(* invariant says that a call which has not answered has no row, so a job  *)
(* that starts, or is recorded, was never finished or told.                *)
(*                                                                         *)
(* From it also: that the three records of a job agree, that an end        *)
(* stands, and the only ways in which the agent is not told of one.        *)
(***************************************************************************)
EXTENDS BackgroundJobs, FiniteSetTheorems, TLAPS

(* A call that is not over has recorded nothing. *)
NotYet == \A j \in Jobs : call[j] \in {"none", "started", "lost"} => row[j] = "none"

IndInv == TypeOK /\ NotYet /\ ToldOnce /\ Tracked /\ BelowCap

(* Nothing has run before the first call. *)
LEMMA InitInv == Init => IndInv
<1> SUFFICES ASSUME Init PROVE IndInv
  OBVIOUS
<1>1. TypeOK
  BY BackgroundAssumption DEF Init, TypeOK
<1>2. NotYet /\ ToldOnce /\ Tracked
  BY DEF Init, NotYet, ToldOnce, Tracked
<1>3. runningBackgroundJobs \ over = {}
  BY DEF Init, runningBackgroundJobs
<1>4. BelowCap
  BY <1>3, FS_EmptySet, BackgroundAssumption DEF BelowCap
<1> QED BY <1>1, <1>2, <1>4 DEF IndInv

(* A step that adds no running job that was not refused keeps the cap. *)
LEMMA FewerBelowCap ==
  ASSUME BelowCap, runningBackgroundJobs' \ over' \subseteq runningBackgroundJobs \ over
  PROVE  BelowCap'
<1>1. IsFiniteSet(runningBackgroundJobs \ over)
  BY FS_Subset, BackgroundAssumption DEF runningBackgroundJobs
<1>2. /\ Cardinality(runningBackgroundJobs \ over) \in Nat
      /\ Cardinality(runningBackgroundJobs' \ over') \in Nat
      /\ Cardinality(runningBackgroundJobs' \ over') <= Cardinality(runningBackgroundJobs \ over)
  BY <1>1, FS_Subset, FS_CardinalityType
<1> QED BY <1>2, BackgroundAssumption DEF BelowCap

(* One more than fewer than the cap is not over it. *)
LEMMA OneMoreBelowCap ==
  ASSUME NEW j \in Jobs, Cardinality(runningBackgroundJobs) < Cap,
         runningBackgroundJobs' \ over' \subseteq runningBackgroundJobs \cup {j}
  PROVE  BelowCap'
<1>1. IsFiniteSet(runningBackgroundJobs)
  BY FS_Subset, BackgroundAssumption DEF runningBackgroundJobs
<1>2. Cardinality(runningBackgroundJobs) \in Nat
  BY <1>1, FS_CardinalityType
<1>3. /\ IsFiniteSet(runningBackgroundJobs \cup {j})
      /\ \/ Cardinality(runningBackgroundJobs \cup {j}) = Cardinality(runningBackgroundJobs)
         \/ Cardinality(runningBackgroundJobs \cup {j}) = Cardinality(runningBackgroundJobs) + 1
  BY <1>1, FS_AddElement
<1>4. Cardinality(runningBackgroundJobs' \ over') <= Cardinality(runningBackgroundJobs \cup {j})
  BY <1>3, FS_Subset
<1>5. Cardinality(runningBackgroundJobs' \ over') \in Nat
  BY <1>3, FS_Subset, FS_CardinalityType
<1> QED BY <1>2, <1>3, <1>4, <1>5, BackgroundAssumption DEF BelowCap

(* Every step keeps the types; a notice is counted once because of ToldOnce. *)
LEMMA KeepsTypes ==
  ASSUME IndInv, [Next]_vars PROVE TypeOK'
<1> USE DEF Put, calls, rows, clock, alarm, cancels, history
<1>1. ASSUME NEW j \in Jobs, Starts(j) PROVE TypeOK'
  BY <1>1 DEF IndInv, TypeOK, Starts
<1>2. ASSUME NEW j \in Jobs, Admits(j) PROVE TypeOK'
  BY <1>2 DEF IndInv, TypeOK, Admits
<1>3. ASSUME NEW j \in Jobs, RefusesOverCap(j) PROVE TypeOK'
  BY <1>3 DEF IndInv, TypeOK, RefusesOverCap
<1>4. ASSUME NEW j \in Jobs, RefusalAnswered(j) PROVE TypeOK'
  BY <1>4 DEF IndInv, TypeOK, RefusalAnswered, Stopped, NotStopped
<1>5. CASE PassBegins
  BY <1>5 DEF IndInv, TypeOK, PassBegins
<1>6. ASSUME NEW j \in Jobs, PassNext(j) PROVE TypeOK'
  BY <1>6 DEF IndInv, TypeOK, PassNext
<1>7. CASE PassEnds
  BY <1>7 DEF IndInv, TypeOK, PassEnds
<1>8. CASE PollsRunning
  BY <1>8 DEF IndInv, TypeOK, PollsRunning, markPolled, Continues
<1>9. CASE PollsDone
  BY <1>9 DEF IndInv, TypeOK, PollsDone, FinishedHere, finishBackgroundJob, completeOperation, Continues
<1>10. CASE CeilingStops
  BY <1>10 DEF IndInv, TypeOK, CeilingStops, Stopped, FinishedHere, finishBackgroundJob, completeOperation, Continues
<1>11. CASE CeilingRetries
  BY <1>11 DEF IndInv, TypeOK, CeilingRetries, NotStopped, markPolled, Continues
<1>12. CASE CeilingGivesUp
  BY <1>12 DEF IndInv, TypeOK, CeilingGivesUp, NotStopped, FinishedHere, finishBackgroundJob, completeOperation, Continues
<1>13. CASE Delivers
  BY <1>13 DEF IndInv, TypeOK, ToldOnce, Delivers, Continues
<1>14. CASE DeliversNothing
  BY <1>14 DEF IndInv, TypeOK, DeliversNothing, Continues
<1>15. CASE DeliverThrows
  BY <1>15 DEF IndInv, TypeOK, DeliverThrows
<1>16. ASSUME NEW j \in Jobs, ToolCancels(j) PROVE TypeOK'
  BY <1>16 DEF IndInv, TypeOK, ToolCancels
<1>17. CASE ToolStops
  BY <1>17 DEF IndInv, TypeOK, ToolStops, Stopped, finishBackgroundJob, completeOperation
<1>18. CASE ToolFails
  BY <1>18 DEF IndInv, TypeOK, ToolFails, NotStopped
<1>19. CASE StopBegins
  BY <1>19 DEF IndInv, TypeOK, StopBegins, runningBackgroundJobs
<1>20. ASSUME NEW j \in Jobs, StopStops(j) PROVE TypeOK'
  BY <1>20 DEF IndInv, TypeOK, StopStops, Stopped, finishBackgroundJob, completeOperation
<1>21. ASSUME NEW j \in Jobs, StopFails(j) PROVE TypeOK'
  BY <1>21 DEF IndInv, TypeOK, StopFails, NotStopped
<1>22. ASSUME NEW j \in Jobs, WorkEnds(j) PROVE TypeOK'
  BY <1>22 DEF IndInv, TypeOK, WorkEnds
<1>23. ASSUME NEW j \in Jobs, ComesDue(j) PROVE TypeOK'
  BY <1>23 DEF IndInv, TypeOK, ComesDue
<1>24. ASSUME NEW j \in Jobs, Ages(j) PROVE TypeOK'
  BY <1>24 DEF IndInv, TypeOK, Ages
<1>25. CASE Evicted
  <2>1. evicts' \in 0..MaxEvicts
    BY <1>25, BackgroundAssumption DEF IndInv, TypeOK, Evicted
  <2>2. call' \in [Jobs -> {"none", "started", "stopping", "over", "lost"}]
    BY <1>25 DEF IndInv, TypeOK, Evicted
  <2> QED BY <1>25, <2>1, <2>2 DEF IndInv, TypeOK, Evicted
<1>26. CASE UNCHANGED vars
  BY <1>26 DEF IndInv, TypeOK, vars
<1> QED
  BY <1>1, <1>2, <1>3, <1>4, <1>5, <1>6, <1>7, <1>8, <1>9, <1>10, <1>11, <1>12, <1>13, <1>14, <1>15, <1>16, <1>17, <1>18, <1>19, <1>20, <1>21, <1>22, <1>23, <1>24, <1>25, <1>26 DEF Next, PassStep, CallStep, CancelStep

(* Only a call that answers records a row. *)
LEMMA KeepsNotYet ==
  ASSUME IndInv, [Next]_vars PROVE NotYet'
<1> USE DEF Put, calls, rows, clock, alarm, cancels, history
<1>1. ASSUME NEW j \in Jobs, Starts(j) PROVE NotYet'
  BY <1>1 DEF IndInv, TypeOK, NotYet, Starts
<1>2. ASSUME NEW j \in Jobs, Admits(j) PROVE NotYet'
  BY <1>2 DEF IndInv, TypeOK, NotYet, Admits
<1>3. ASSUME NEW j \in Jobs, RefusesOverCap(j) PROVE NotYet'
  BY <1>3 DEF IndInv, TypeOK, NotYet, RefusesOverCap
<1>4. ASSUME NEW j \in Jobs, RefusalAnswered(j) PROVE NotYet'
  BY <1>4 DEF IndInv, TypeOK, NotYet, RefusalAnswered, Stopped, NotStopped
<1>5. CASE PassBegins
  BY <1>5 DEF IndInv, TypeOK, NotYet, PassBegins
<1>6. ASSUME NEW j \in Jobs, PassNext(j) PROVE NotYet'
  BY <1>6 DEF IndInv, TypeOK, NotYet, PassNext
<1>7. CASE PassEnds
  BY <1>7 DEF IndInv, TypeOK, NotYet, PassEnds
<1>8. CASE PollsRunning
  BY <1>8 DEF IndInv, TypeOK, NotYet, PollsRunning, markPolled, Continues
<1>9. CASE PollsDone
  BY <1>9 DEF IndInv, TypeOK, NotYet, PollsDone, FinishedHere, finishBackgroundJob, completeOperation, Continues
<1>10. CASE CeilingStops
  BY <1>10 DEF IndInv, TypeOK, NotYet, CeilingStops, Stopped, FinishedHere, finishBackgroundJob, completeOperation, Continues
<1>11. CASE CeilingRetries
  BY <1>11 DEF IndInv, TypeOK, NotYet, CeilingRetries, NotStopped, markPolled, Continues
<1>12. CASE CeilingGivesUp
  BY <1>12 DEF IndInv, TypeOK, NotYet, CeilingGivesUp, NotStopped, FinishedHere, finishBackgroundJob, completeOperation, Continues
<1>13. CASE Delivers
  BY <1>13 DEF IndInv, TypeOK, NotYet, Delivers, Continues
<1>14. CASE DeliversNothing
  BY <1>14 DEF IndInv, TypeOK, NotYet, DeliversNothing, Continues
<1>15. CASE DeliverThrows
  BY <1>15 DEF IndInv, TypeOK, NotYet, DeliverThrows
<1>16. ASSUME NEW j \in Jobs, ToolCancels(j) PROVE NotYet'
  BY <1>16 DEF IndInv, TypeOK, NotYet, ToolCancels
<1>17. CASE ToolStops
  BY <1>17 DEF IndInv, TypeOK, NotYet, ToolStops, Stopped, finishBackgroundJob, completeOperation
<1>18. CASE ToolFails
  BY <1>18 DEF IndInv, TypeOK, NotYet, ToolFails, NotStopped
<1>19. CASE StopBegins
  BY <1>19 DEF IndInv, TypeOK, NotYet, StopBegins, runningBackgroundJobs
<1>20. ASSUME NEW j \in Jobs, StopStops(j) PROVE NotYet'
  BY <1>20 DEF IndInv, TypeOK, NotYet, StopStops, Stopped, finishBackgroundJob, completeOperation
<1>21. ASSUME NEW j \in Jobs, StopFails(j) PROVE NotYet'
  BY <1>21 DEF IndInv, TypeOK, NotYet, StopFails, NotStopped
<1>22. ASSUME NEW j \in Jobs, WorkEnds(j) PROVE NotYet'
  BY <1>22 DEF IndInv, TypeOK, NotYet, WorkEnds
<1>23. ASSUME NEW j \in Jobs, ComesDue(j) PROVE NotYet'
  BY <1>23 DEF IndInv, TypeOK, NotYet, ComesDue
<1>24. ASSUME NEW j \in Jobs, Ages(j) PROVE NotYet'
  BY <1>24 DEF IndInv, TypeOK, NotYet, Ages
<1>25. CASE Evicted
  BY <1>25 DEF IndInv, TypeOK, NotYet, Evicted
<1>26. CASE UNCHANGED vars
  BY <1>26 DEF IndInv, TypeOK, NotYet, vars
<1> QED
  BY <1>1, <1>2, <1>3, <1>4, <1>5, <1>6, <1>7, <1>8, <1>9, <1>10, <1>11, <1>12, <1>13, <1>14, <1>15, <1>16, <1>17, <1>18, <1>19, <1>20, <1>21, <1>22, <1>23, <1>24, <1>25, <1>26 DEF Next, PassStep, CallStep, CancelStep

(* Only the step that ends a running job owes its notice. *)
LEMMA KeepsToldOnce ==
  ASSUME IndInv, [Next]_vars PROVE ToldOnce'
<1> USE DEF Put, calls, rows, clock, alarm, cancels, history
<1>1. ASSUME NEW j \in Jobs, Starts(j) PROVE ToldOnce'
  BY <1>1 DEF IndInv, TypeOK, NotYet, ToldOnce, Starts
<1>2. ASSUME NEW j \in Jobs, Admits(j) PROVE ToldOnce'
  BY <1>2 DEF IndInv, TypeOK, NotYet, ToldOnce, Admits
<1>3. ASSUME NEW j \in Jobs, RefusesOverCap(j) PROVE ToldOnce'
  BY <1>3 DEF IndInv, TypeOK, NotYet, ToldOnce, RefusesOverCap
<1>4. ASSUME NEW j \in Jobs, RefusalAnswered(j) PROVE ToldOnce'
  BY <1>4 DEF IndInv, TypeOK, NotYet, ToldOnce, RefusalAnswered, Stopped, NotStopped
<1>5. CASE PassBegins
  BY <1>5 DEF IndInv, TypeOK, NotYet, ToldOnce, PassBegins
<1>6. ASSUME NEW j \in Jobs, PassNext(j) PROVE ToldOnce'
  BY <1>6 DEF IndInv, TypeOK, NotYet, ToldOnce, PassNext
<1>7. CASE PassEnds
  BY <1>7 DEF IndInv, TypeOK, NotYet, ToldOnce, PassEnds
<1>8. CASE PollsRunning
  BY <1>8 DEF IndInv, TypeOK, NotYet, ToldOnce, PollsRunning, markPolled, Continues
<1>9. CASE PollsDone
  BY <1>9 DEF IndInv, TypeOK, NotYet, ToldOnce, PollsDone, FinishedHere, finishBackgroundJob, completeOperation, Continues
<1>10. CASE CeilingStops
  BY <1>10 DEF IndInv, TypeOK, NotYet, ToldOnce, CeilingStops, Stopped, FinishedHere, finishBackgroundJob, completeOperation, Continues
<1>11. CASE CeilingRetries
  BY <1>11 DEF IndInv, TypeOK, NotYet, ToldOnce, CeilingRetries, NotStopped, markPolled, Continues
<1>12. CASE CeilingGivesUp
  BY <1>12 DEF IndInv, TypeOK, NotYet, ToldOnce, CeilingGivesUp, NotStopped, FinishedHere, finishBackgroundJob, completeOperation, Continues
<1>13. CASE Delivers
  BY <1>13 DEF IndInv, TypeOK, NotYet, ToldOnce, Delivers, Continues
<1>14. CASE DeliversNothing
  BY <1>14 DEF IndInv, TypeOK, NotYet, ToldOnce, DeliversNothing, Continues
<1>15. CASE DeliverThrows
  BY <1>15 DEF IndInv, TypeOK, NotYet, ToldOnce, DeliverThrows
<1>16. ASSUME NEW j \in Jobs, ToolCancels(j) PROVE ToldOnce'
  BY <1>16 DEF IndInv, TypeOK, NotYet, ToldOnce, ToolCancels
<1>17. CASE ToolStops
  BY <1>17 DEF IndInv, TypeOK, NotYet, ToldOnce, ToolStops, Stopped, finishBackgroundJob, completeOperation
<1>18. CASE ToolFails
  BY <1>18 DEF IndInv, TypeOK, NotYet, ToldOnce, ToolFails, NotStopped
<1>19. CASE StopBegins
  BY <1>19 DEF IndInv, TypeOK, NotYet, ToldOnce, StopBegins, runningBackgroundJobs
<1>20. ASSUME NEW j \in Jobs, StopStops(j) PROVE ToldOnce'
  BY <1>20 DEF IndInv, TypeOK, NotYet, ToldOnce, StopStops, Stopped, finishBackgroundJob, completeOperation
<1>21. ASSUME NEW j \in Jobs, StopFails(j) PROVE ToldOnce'
  BY <1>21 DEF IndInv, TypeOK, NotYet, ToldOnce, StopFails, NotStopped
<1>22. ASSUME NEW j \in Jobs, WorkEnds(j) PROVE ToldOnce'
  BY <1>22 DEF IndInv, TypeOK, NotYet, ToldOnce, WorkEnds
<1>23. ASSUME NEW j \in Jobs, ComesDue(j) PROVE ToldOnce'
  BY <1>23 DEF IndInv, TypeOK, NotYet, ToldOnce, ComesDue
<1>24. ASSUME NEW j \in Jobs, Ages(j) PROVE ToldOnce'
  BY <1>24 DEF IndInv, TypeOK, NotYet, ToldOnce, Ages
<1>25. CASE Evicted
  BY <1>25 DEF IndInv, TypeOK, NotYet, ToldOnce, Evicted
<1>26. CASE UNCHANGED vars
  BY <1>26 DEF IndInv, TypeOK, NotYet, ToldOnce, vars
<1> QED
  BY <1>1, <1>2, <1>3, <1>4, <1>5, <1>6, <1>7, <1>8, <1>9, <1>10, <1>11, <1>12, <1>13, <1>14, <1>15, <1>16, <1>17, <1>18, <1>19, <1>20, <1>21, <1>22, <1>23, <1>24, <1>25, <1>26 DEF Next, PassStep, CallStep, CancelStep

(* A row stops running only with its work, or with a notice that the work  *)
(* may go on.                                                              *)
LEMMA KeepsTracked ==
  ASSUME IndInv, [Next]_vars PROVE Tracked'
<1> USE DEF Put, calls, rows, clock, alarm, cancels, history
<1>1. ASSUME NEW j \in Jobs, Starts(j) PROVE Tracked'
  BY <1>1 DEF IndInv, TypeOK, Tracked, Starts
<1>2. ASSUME NEW j \in Jobs, Admits(j) PROVE Tracked'
  BY <1>2 DEF IndInv, TypeOK, Tracked, Admits
<1>3. ASSUME NEW j \in Jobs, RefusesOverCap(j) PROVE Tracked'
  BY <1>3 DEF IndInv, TypeOK, Tracked, RefusesOverCap
<1>4. ASSUME NEW j \in Jobs, RefusalAnswered(j) PROVE Tracked'
  BY <1>4 DEF IndInv, TypeOK, Tracked, RefusalAnswered, Stopped, NotStopped
<1>5. CASE PassBegins
  BY <1>5 DEF IndInv, TypeOK, Tracked, PassBegins
<1>6. ASSUME NEW j \in Jobs, PassNext(j) PROVE Tracked'
  BY <1>6 DEF IndInv, TypeOK, Tracked, PassNext
<1>7. CASE PassEnds
  BY <1>7 DEF IndInv, TypeOK, Tracked, PassEnds
<1>8. CASE PollsRunning
  BY <1>8 DEF IndInv, TypeOK, Tracked, PollsRunning, markPolled, Continues
<1>9. CASE PollsDone
  BY <1>9 DEF IndInv, TypeOK, Tracked, PollsDone, FinishedHere, finishBackgroundJob, completeOperation, Continues
<1>10. CASE CeilingStops
  BY <1>10 DEF IndInv, TypeOK, Tracked, CeilingStops, Stopped, FinishedHere, finishBackgroundJob, completeOperation, Continues
<1>11. CASE CeilingRetries
  BY <1>11 DEF IndInv, TypeOK, Tracked, CeilingRetries, NotStopped, markPolled, Continues
<1>12. CASE CeilingGivesUp
  BY <1>12 DEF IndInv, TypeOK, Tracked, CeilingGivesUp, NotStopped, FinishedHere, finishBackgroundJob, completeOperation, Continues
<1>13. CASE Delivers
  BY <1>13 DEF IndInv, TypeOK, ToldOnce, Tracked, Delivers, Continues
<1>14. CASE DeliversNothing
  BY <1>14 DEF IndInv, TypeOK, Tracked, DeliversNothing, Continues
<1>15. CASE DeliverThrows
  BY <1>15 DEF IndInv, TypeOK, Tracked, DeliverThrows
<1>16. ASSUME NEW j \in Jobs, ToolCancels(j) PROVE Tracked'
  BY <1>16 DEF IndInv, TypeOK, Tracked, ToolCancels
<1>17. CASE ToolStops
  BY <1>17 DEF IndInv, TypeOK, Tracked, ToolStops, Stopped, finishBackgroundJob, completeOperation
<1>18. CASE ToolFails
  BY <1>18 DEF IndInv, TypeOK, Tracked, ToolFails, NotStopped
<1>19. CASE StopBegins
  BY <1>19 DEF IndInv, TypeOK, Tracked, StopBegins, runningBackgroundJobs
<1>20. ASSUME NEW j \in Jobs, StopStops(j) PROVE Tracked'
  BY <1>20 DEF IndInv, TypeOK, Tracked, StopStops, Stopped, finishBackgroundJob, completeOperation
<1>21. ASSUME NEW j \in Jobs, StopFails(j) PROVE Tracked'
  BY <1>21 DEF IndInv, TypeOK, Tracked, StopFails, NotStopped
<1>22. ASSUME NEW j \in Jobs, WorkEnds(j) PROVE Tracked'
  BY <1>22 DEF IndInv, TypeOK, Tracked, WorkEnds
<1>23. ASSUME NEW j \in Jobs, ComesDue(j) PROVE Tracked'
  BY <1>23 DEF IndInv, TypeOK, Tracked, ComesDue
<1>24. ASSUME NEW j \in Jobs, Ages(j) PROVE Tracked'
  BY <1>24 DEF IndInv, TypeOK, Tracked, Ages
<1>25. CASE Evicted
  BY <1>25 DEF IndInv, TypeOK, Tracked, Evicted
<1>26. CASE UNCHANGED vars
  BY <1>26 DEF IndInv, TypeOK, Tracked, vars
<1> QED
  BY <1>1, <1>2, <1>3, <1>4, <1>5, <1>6, <1>7, <1>8, <1>9, <1>10, <1>11, <1>12, <1>13, <1>14, <1>15, <1>16, <1>17, <1>18, <1>19, <1>20, <1>21, <1>22, <1>23, <1>24, <1>25, <1>26 DEF Next, PassStep, CallStep, CancelStep

(* Only an admission adds a job that was not refused. *)
LEMMA KeepsBelowCap ==
  ASSUME IndInv, [Next]_vars PROVE BelowCap'
<1> USE DEF Put, calls, rows, clock, alarm, cancels, history
<1>1. ASSUME NEW j \in Jobs, Starts(j) PROVE BelowCap'
  BY <1>1, FewerBelowCap DEF IndInv, TypeOK, runningBackgroundJobs, Starts
<1>2. ASSUME NEW j \in Jobs, Admits(j) PROVE BelowCap'
  <2>1. runningBackgroundJobs' \ over' \subseteq runningBackgroundJobs \cup {j}
    BY <1>2 DEF Admits, runningBackgroundJobs, IndInv, TypeOK
  <2> QED BY <1>2, <2>1, OneMoreBelowCap DEF Admits
<1>3. ASSUME NEW j \in Jobs, RefusesOverCap(j) PROVE BelowCap'
  BY <1>3, FewerBelowCap DEF IndInv, TypeOK, runningBackgroundJobs, RefusesOverCap
<1>4. ASSUME NEW j \in Jobs, RefusalAnswered(j) PROVE BelowCap'
  BY <1>4, FewerBelowCap DEF IndInv, TypeOK, runningBackgroundJobs, RefusalAnswered, Stopped, NotStopped
<1>5. CASE PassBegins
  BY <1>5, FewerBelowCap DEF IndInv, TypeOK, runningBackgroundJobs, PassBegins
<1>6. ASSUME NEW j \in Jobs, PassNext(j) PROVE BelowCap'
  BY <1>6, FewerBelowCap DEF IndInv, TypeOK, runningBackgroundJobs, PassNext
<1>7. CASE PassEnds
  BY <1>7, FewerBelowCap DEF IndInv, TypeOK, runningBackgroundJobs, PassEnds
<1>8. CASE PollsRunning
  BY <1>8, FewerBelowCap DEF IndInv, TypeOK, runningBackgroundJobs, PollsRunning, markPolled, Continues
<1>9. CASE PollsDone
  BY <1>9, FewerBelowCap DEF IndInv, TypeOK, runningBackgroundJobs, PollsDone, FinishedHere, finishBackgroundJob, completeOperation, Continues
<1>10. CASE CeilingStops
  BY <1>10, FewerBelowCap DEF IndInv, TypeOK, runningBackgroundJobs, CeilingStops, Stopped, FinishedHere, finishBackgroundJob, completeOperation, Continues
<1>11. CASE CeilingRetries
  BY <1>11, FewerBelowCap DEF IndInv, TypeOK, runningBackgroundJobs, CeilingRetries, NotStopped, markPolled, Continues
<1>12. CASE CeilingGivesUp
  BY <1>12, FewerBelowCap DEF IndInv, TypeOK, runningBackgroundJobs, CeilingGivesUp, NotStopped, FinishedHere, finishBackgroundJob, completeOperation, Continues
<1>13. CASE Delivers
  BY <1>13, FewerBelowCap DEF IndInv, TypeOK, runningBackgroundJobs, Delivers, Continues
<1>14. CASE DeliversNothing
  BY <1>14, FewerBelowCap DEF IndInv, TypeOK, runningBackgroundJobs, DeliversNothing, Continues
<1>15. CASE DeliverThrows
  BY <1>15, FewerBelowCap DEF IndInv, TypeOK, runningBackgroundJobs, DeliverThrows
<1>16. ASSUME NEW j \in Jobs, ToolCancels(j) PROVE BelowCap'
  BY <1>16, FewerBelowCap DEF IndInv, TypeOK, runningBackgroundJobs, ToolCancels
<1>17. CASE ToolStops
  BY <1>17, FewerBelowCap DEF IndInv, TypeOK, runningBackgroundJobs, ToolStops, Stopped, finishBackgroundJob, completeOperation
<1>18. CASE ToolFails
  BY <1>18, FewerBelowCap DEF IndInv, TypeOK, runningBackgroundJobs, ToolFails, NotStopped
<1>19. CASE StopBegins
  BY <1>19, FewerBelowCap DEF IndInv, TypeOK, runningBackgroundJobs, StopBegins
<1>20. ASSUME NEW j \in Jobs, StopStops(j) PROVE BelowCap'
  BY <1>20, FewerBelowCap DEF IndInv, TypeOK, runningBackgroundJobs, StopStops, Stopped, finishBackgroundJob, completeOperation
<1>21. ASSUME NEW j \in Jobs, StopFails(j) PROVE BelowCap'
  BY <1>21, FewerBelowCap DEF IndInv, TypeOK, runningBackgroundJobs, StopFails, NotStopped
<1>22. ASSUME NEW j \in Jobs, WorkEnds(j) PROVE BelowCap'
  BY <1>22, FewerBelowCap DEF IndInv, TypeOK, runningBackgroundJobs, WorkEnds
<1>23. ASSUME NEW j \in Jobs, ComesDue(j) PROVE BelowCap'
  BY <1>23, FewerBelowCap DEF IndInv, TypeOK, runningBackgroundJobs, ComesDue
<1>24. ASSUME NEW j \in Jobs, Ages(j) PROVE BelowCap'
  BY <1>24, FewerBelowCap DEF IndInv, TypeOK, runningBackgroundJobs, Ages
<1>25. CASE Evicted
  BY <1>25, FewerBelowCap DEF IndInv, TypeOK, runningBackgroundJobs, Evicted
<1>26. CASE UNCHANGED vars
  BY <1>26, FewerBelowCap DEF IndInv, runningBackgroundJobs, vars
<1> QED
  BY <1>1, <1>2, <1>3, <1>4, <1>5, <1>6, <1>7, <1>8, <1>9, <1>10, <1>11, <1>12, <1>13, <1>14, <1>15, <1>16, <1>17, <1>18, <1>19, <1>20, <1>21, <1>22, <1>23, <1>24, <1>25, <1>26 DEF Next, PassStep, CallStep, CancelStep

(* The invariant is inductive. *)
LEMMA Always == Spec => []IndInv
<1>1. IndInv /\ [Next]_vars => IndInv'
  BY KeepsTypes, KeepsNotYet, KeepsToldOnce, KeepsTracked, KeepsBelowCap DEF IndInv
<1> QED BY <1>1, InitInv, PTL DEF Spec

(* Every variable of the background jobs keeps its type. *)
THEOREM TypeCorrect == Spec => []TypeOK
BY Always, PTL DEF IndInv

(* finishBackgroundJob's answer is what keeps two actors that ended the    *)
(* same job from telling the agent twice, or of a cancelled one.           *)
THEOREM EndIsToldOnce == Spec => []ToldOnce
BY Always, PTL DEF IndInv

(* No work runs that jobs does not list and the ceiling does not reach,    *)
(* whichever actor dropped the row and wherever the object was evicted,    *)
(* unless the agent was told that it may, or the notice saying so was      *)
(* lost, or the object died before the work was recorded.                  *)
THEOREM NoWorkUntracked == Spec => []Tracked
BY Always, PTL DEF IndInv

(* The cap holds of the jobs that were not refused, however the calls that *)
(* start them interleave.                                                  *)
THEOREM CapHolds == Spec => []BelowCap
BY Always, PTL DEF IndInv

-----------------------------------------------------------------------------
(* The row, the operation and the work agree *)

Ends == {"done", "failed", "cancelled"}

(* The two tables agree with each other and with the plugin: a job listed  *)
(* as running has its operation open; done and cancelled are said only of  *)
(* work that ended, failed only of work that ended or that the grace gave  *)
(* up; and the operation's status is the row's, except that jobs.cancel,   *)
(* which looked at the row before it awaited the plugin, may write         *)
(* `cancelled' over another end.                                           *)
Agree(j) ==
  /\ row[j] = "none" => op[j] \in {"none", "running"}
  /\ row[j] = "running" => op[j] = "running"
  /\ row[j] = "done" => op[j] \in {"succeeded", "cancelled"} /\ work[j] = "ended"
  /\ row[j] = "failed" => op[j] \in {"failed", "cancelled"} /\ (work[j] = "ended" \/ j \in mayRun)
  /\ row[j] = "cancelled" => op[j] = "cancelled" /\ work[j] = "ended"

Ledger == \A j \in Jobs : Agree(j)

(* The pass and the cancels are at jobs they saw recorded. *)
Recorded(j) == row[j] # "none"

Seen ==
  /\ \A j \in left \cup stop : Recorded(j)
  /\ \A j \in {at, tool} : j # None => Recorded(j)

(* A call not made has no work, one that has not answered an open operation. *)
Opened ==
  \A j \in Jobs :
    /\ call[j] = "none" => work[j] = "none"
    /\ call[j] = "started" => op[j] = "running"

LedgerInv == IndInv /\ Ledger /\ Seen /\ Opened

(* An end is final: a job that ended keeps its state whoever answers late, *)
(* its work does not come back, and what the agent was told stays told;    *)
(* only jobs.cancel may still turn the operation, to `cancelled'.          *)
EndStands ==
  \A j \in Jobs :
    /\ row[j] \in Ends => row'[j] = row[j] /\ op'[j] \in {op[j], "cancelled"}
    /\ work[j] = "ended" => work'[j] = "ended"
    /\ told'[j] >= told[j]

(* A step that leaves the tables alone, in which work may end. *)
Apart ==
  /\ UNCHANGED <<row, op, told, mayRun>>
  /\ \A j \in Jobs : work'[j] \in {work[j], "ended"}

(* A step that finishes job j, if it is still running, with that status. *)
Finishes(j, state, status) ==
  /\ row' = IF row[j] = "running" THEN Put(row, j, state) ELSE row
  /\ op' = IF row[j] = "running" THEN Put(op, j, status) ELSE op
  /\ UNCHANGED told

(* The steps, by what they do to the tables. *)
LEMMA TableSteps ==
  ASSUME IndInv, [Next]_vars
  PROVE  \/ Apart
         \/ \E j \in Jobs : Starts(j) \/ Admits(j) \/ RefusesOverCap(j)
         \/ PollsDone /\ Finishes(at, "done", "succeeded")
         \/ CeilingStops /\ Finishes(at, "failed", "failed")
         \/ CeilingGivesUp /\ Finishes(at, "failed", "failed")
         \/ Delivers
         \/ ToolStops
         \/ \E j \in Jobs : StopStops(j) /\ Finishes(j, "cancelled", "cancelled")
<1> USE DEF Put, calls, rows, clock, alarm, cancels, history
<1>0. work \in [Jobs -> {"none", "running", "ended"}]
  BY DEF IndInv, TypeOK
<1>1. ASSUME NEW j \in Jobs, RefusalAnswered(j) \/ WorkEnds(j) \/ ComesDue(j) \/ Ages(j) PROVE Apart
  BY <1>0, <1>1 DEF RefusalAnswered, WorkEnds, ComesDue, Ages, Stopped, NotStopped, Apart
<1>2. ASSUME \/ PassBegins \/ (\E j \in Jobs : PassNext(j)) \/ PassEnds \/ PollsRunning
             \/ DeliversNothing \/ DeliverThrows
      PROVE  Apart
  BY <1>2 DEF PassBegins, PassNext, PassEnds, PollsRunning, DeliversNothing, DeliverThrows, Apart
<1>3. ASSUME CeilingRetries PROVE Apart
  BY <1>0, <1>3 DEF CeilingRetries, NotStopped, Apart
<1>4. ASSUME NEW j \in Jobs, ToolCancels(j) PROVE Apart
  BY <1>4 DEF ToolCancels, Apart
<1>5. ASSUME ToolFails PROVE Apart
  BY <1>0, <1>5 DEF ToolFails, NotStopped, Apart
<1>6. ASSUME StopBegins PROVE Apart
  BY <1>6 DEF StopBegins, Apart
<1>7. ASSUME NEW j \in Jobs, StopFails(j) PROVE Apart
  BY <1>0, <1>7 DEF StopFails, NotStopped, Apart
<1>8. ASSUME Evicted \/ UNCHANGED vars PROVE Apart
  BY <1>8 DEF Evicted, vars, Apart
<1>9. PollsDone => Finishes(at, "done", "succeeded")
  BY DEF PollsDone, FinishedHere, finishBackgroundJob, completeOperation, Finishes
<1>10. CeilingStops => Finishes(at, "failed", "failed")
  BY DEF CeilingStops, FinishedHere, finishBackgroundJob, completeOperation, Finishes
<1>11. CeilingGivesUp => Finishes(at, "failed", "failed")
  BY DEF CeilingGivesUp, FinishedHere, finishBackgroundJob, completeOperation, Finishes
<1>12. \A j \in Jobs : StopStops(j) => Finishes(j, "cancelled", "cancelled")
  BY DEF StopStops, finishBackgroundJob, completeOperation, Finishes
<1> QED
  BY <1>1, <1>2, <1>3, <1>4, <1>5, <1>6, <1>7, <1>8, <1>9, <1>10, <1>11, <1>12
  DEF Next, PassStep, CallStep, CancelStep

(* Finishing a job whose work ended, or was given up, keeps the tables in  *)
(* agreement.                                                              *)
LEMMA FinishAgrees ==
  ASSUME LedgerInv, NEW j \in Jobs,
         NEW state \in Ends, NEW status, Finishes(j, state, status),
         <<state, status>> \in {<<"done", "succeeded">>, <<"failed", "failed">>, <<"cancelled", "cancelled">>},
         \A i \in Jobs : work'[i] \in {work[i], "ended"},
         mayRun \subseteq mayRun',
         row[j] = "running" => work'[j] = "ended" \/ (state = "failed" /\ j \in mayRun')
  PROVE  Ledger'
<1> USE DEF LedgerInv, Put
<1>0. row \in [Jobs -> {"none", "running", "done", "failed", "cancelled"}] /\ op \in [Jobs -> {"none", "running", "succeeded", "failed", "cancelled"}]
  BY DEF IndInv, TypeOK
<1>1. \A i \in Jobs : i # j => row'[i] = row[i] /\ op'[i] = op[i]
  BY <1>0 DEF Finishes
<1>2. CASE row[j] = "running"
  <2>1. row'[j] = state /\ op'[j] = status
    BY <1>0, <1>2 DEF Finishes
  <2>2. Agree(j)'
    BY <1>2, <2>1 DEF Agree, Ends
  <2>3. \A i \in Jobs : i # j => Agree(i)'
    BY <1>1 DEF Ledger, Agree
  <2> QED BY <2>2, <2>3 DEF Ledger
<1>3. CASE row[j] # "running"
  <2>1. row' = row /\ op' = op
    BY <1>3 DEF Finishes
  <2> QED BY <2>1 DEF Ledger, Agree
<1> QED BY <1>2, <1>3

(* Every step keeps the tables in agreement. *)
LEMMA LedgerStep ==
  ASSUME LedgerInv, [Next]_vars PROVE Ledger'
<1> USE DEF LedgerInv, Put, calls, rows, clock, alarm, cancels, history
<1>0. /\ row \in [Jobs -> {"none", "running", "done", "failed", "cancelled"}]
      /\ op \in [Jobs -> {"none", "running", "succeeded", "failed", "cancelled"}]
      /\ work \in [Jobs -> {"none", "running", "ended"}]
      /\ tool \in Jobs \cup {None}
  BY DEF IndInv, TypeOK
<1>1. CASE Apart
  BY <1>1 DEF Ledger, Agree, Apart
<1>2. ASSUME NEW j \in Jobs, Starts(j) PROVE Ledger'
  <2>1. row[j] = "none" /\ row' = row /\ mayRun' = mayRun
    BY <1>2 DEF Starts, IndInv, NotYet
  <2>2. op'[j] = "running" /\ \A i \in Jobs : i # j => op'[i] = op[i] /\ work'[i] = work[i]
    BY <1>0, <1>2 DEF Starts
  <2> QED BY <2>1, <2>2 DEF Ledger, Agree
<1>3. ASSUME NEW j \in Jobs, Admits(j) \/ RefusesOverCap(j) PROVE Ledger'
  <2>1. /\ row'[j] = "running" /\ \A i \in Jobs : i # j => row'[i] = row[i]
        /\ UNCHANGED <<op, work, mayRun>>
    BY <1>0, <1>3 DEF Admits, RefusesOverCap
  <2>2. op[j] = "running"
    BY <1>3 DEF Admits, RefusesOverCap, Opened
  <2> QED BY <1>0, <2>1, <2>2 DEF Ledger, Agree
<1>4. CASE PollsDone /\ Finishes(at, "done", "succeeded")
  <2>1. at \in Jobs /\ work[at] = "ended" /\ work' = work /\ mayRun' = mayRun
    BY <1>4 DEF PollsDone, IndInv, TypeOK
  <2> QED BY <1>4, <2>1, FinishAgrees DEF Ends
<1>5. CASE CeilingStops /\ Finishes(at, "failed", "failed")
  <2>1. /\ at \in Jobs /\ work'[at] = "ended" /\ mayRun' = mayRun
        /\ \A i \in Jobs : work'[i] \in {work[i], "ended"}
    BY <1>0, <1>5 DEF CeilingStops, Stopped, IndInv, TypeOK
  <2> QED BY <1>5, <2>1, FinishAgrees DEF Ends
<1>6. CASE CeilingGivesUp /\ Finishes(at, "failed", "failed")
  <2>1. /\ at \in Jobs /\ mayRun \subseteq mayRun' /\ (row[at] = "running" => at \in mayRun')
        /\ \A i \in Jobs : work'[i] \in {work[i], "ended"}
    BY <1>0, <1>6 DEF CeilingGivesUp, NotStopped, IndInv, TypeOK
  <2> QED BY <1>6, <2>1, FinishAgrees DEF Ends
<1>7. CASE Delivers
  BY <1>7 DEF Delivers, Ledger, Agree
<1>8. CASE ToolStops
  <2>1. PICK t \in Jobs : t = tool
    BY <1>0, <1>8 DEF ToolStops
  <2>2. /\ row[t] # "none" /\ mayRun' = mayRun
        /\ work'[t] = "ended" /\ op'[t] = "cancelled"
        /\ row'[t] = IF row[t] = "running" THEN "cancelled" ELSE row[t]
        /\ \A i \in Jobs : i # t => row'[i] = row[i] /\ op'[i] = op[i] /\ work'[i] = work[i]
    BY <1>0, <1>8, <2>1 DEF ToolStops, Stopped, finishBackgroundJob, completeOperation, Seen, Recorded
  <2>3. row'[t] \in Ends
    BY <1>0, <2>2 DEF Ends
  <2>4. Agree(t)'
    BY <2>2, <2>3 DEF Agree, Ends
  <2>5. \A i \in Jobs : i # t => Agree(i)'
    BY <2>2 DEF Ledger, Agree
  <2> QED BY <2>4, <2>5 DEF Ledger
<1>9. ASSUME NEW j \in Jobs, StopStops(j), Finishes(j, "cancelled", "cancelled")
      PROVE  Ledger'
  <2>1. /\ work'[j] = "ended" /\ mayRun' = mayRun
        /\ \A i \in Jobs : work'[i] \in {work[i], "ended"}
    BY <1>0, <1>9 DEF StopStops, Stopped
  <2> QED BY <1>9, <2>1, FinishAgrees DEF Ends
<1> QED BY <1>1, <1>2, <1>3, <1>4, <1>5, <1>6, <1>7, <1>8, <1>9, TableSteps

(* A job once recorded stays so, and nobody turns to one that is not. *)
LEMMA SeenStep ==
  ASSUME LedgerInv, [Next]_vars PROVE Seen'
<1> USE DEF LedgerInv, Put, calls, rows, clock, alarm, cancels, history
<1>0. row \in [Jobs -> {"none", "running", "done", "failed", "cancelled"}]
  BY DEF IndInv, TypeOK
<1>1. \A j \in Jobs : Recorded(j) => Recorded(j)'
  <2>1. ASSUME NEW j \in Jobs, NEW state \in Ends, NEW status, Finishes(j, state, status)
        PROVE  \A i \in Jobs : row[i] # "none" => row'[i] # "none"
    BY <1>0, <2>1 DEF Finishes, Ends
  <2>2. ASSUME NEW j \in Jobs, Starts(j) \/ Admits(j) \/ RefusesOverCap(j)
        PROVE  \A i \in Jobs : row[i] # "none" => row'[i] # "none"
    BY <1>0, <2>2 DEF Starts, Admits, RefusesOverCap
  <2>3. CASE ToolStops
    BY <1>0, <2>3 DEF ToolStops, finishBackgroundJob, Recorded
  <2>4. CASE Apart \/ Delivers
    BY <2>4 DEF Apart, Delivers, Recorded
  <2>5. pass \in {"poll", "cancel"} => at \in Jobs
    BY DEF IndInv, TypeOK
  <2> QED
    BY <2>1, <2>2, <2>3, <2>4, <2>5, TableSteps DEF Recorded, Ends, PollsDone, CeilingStops, CeilingGivesUp
<1>2. \A j \in left' \cup stop' : j \in left \cup stop \/ (j \in Jobs /\ row[j] = "running")
  BY DEF Next, PassStep, CallStep, CancelStep, PassBegins, PassNext, PassEnds, PollsRunning, PollsDone,
     CeilingStops, CeilingRetries, CeilingGivesUp, FinishedHere, Continues, Delivers, DeliversNothing,
     DeliverThrows, Starts, Admits, RefusesOverCap, RefusalAnswered, ToolCancels, ToolStops, ToolFails,
     StopBegins, StopStops, StopFails, WorkEnds, ComesDue, Ages, Evicted, runningBackgroundJobs, vars
<1>3. at' \in {at, None} \cup left
  BY DEF Next, PassStep, CallStep, CancelStep, PassBegins, PassNext, PassEnds, PollsRunning, PollsDone,
     CeilingStops, CeilingRetries, CeilingGivesUp, FinishedHere, Continues, Delivers, DeliversNothing,
     DeliverThrows, Starts, Admits, RefusesOverCap, RefusalAnswered, ToolCancels, ToolStops, ToolFails,
     StopBegins, StopStops, StopFails, WorkEnds, ComesDue, Ages, Evicted, vars
<1>4. tool' \in {tool, None} \/ (tool' \in Jobs /\ row[tool'] = "running")
  BY DEF Next, PassStep, CallStep, CancelStep, PassBegins, PassNext, PassEnds, PollsRunning, PollsDone,
     CeilingStops, CeilingRetries, CeilingGivesUp, FinishedHere, Continues, Delivers, DeliversNothing,
     DeliverThrows, Starts, Admits, RefusesOverCap, RefusalAnswered, ToolCancels, ToolStops, ToolFails,
     StopBegins, StopStops, StopFails, WorkEnds, ComesDue, Ages, Evicted, vars
<1>5. left \cup stop \subseteq Jobs /\ at \in Jobs \cup {None} /\ tool \in Jobs \cup {None}
  BY DEF IndInv, TypeOK
<1>6. \A j \in Jobs : row[j] = "running" => Recorded(j)
  BY DEF Recorded
<1>7. \A j \in left' \cup stop' : j \in Jobs /\ Recorded(j)
  BY <1>2, <1>5, <1>6 DEF Seen
<1>8. \A j \in {at', tool'} : j # None => j \in Jobs /\ Recorded(j)
  BY <1>3, <1>4, <1>5, <1>6 DEF Seen
<1> QED BY <1>1, <1>7, <1>8 DEF Seen, Recorded

(* Nothing that has not begun is stopped, and no operation that a call has *)
(* yet to record is completed.                                             *)
LEMMA OpenedStep ==
  ASSUME LedgerInv, [Next]_vars PROVE Opened'
<1> USE DEF LedgerInv, Put, calls, rows, clock, alarm, cancels, history
<1>0. /\ op \in [Jobs -> {"none", "running", "succeeded", "failed", "cancelled"}]
      /\ work \in [Jobs -> {"none", "running", "ended"}]
      /\ call \in [Jobs -> {"none", "started", "stopping", "over", "lost"}]
  BY DEF IndInv, TypeOK
<1>1. \A j \in Jobs : Recorded(j) => call[j] \notin {"none", "started"}
  BY DEF IndInv, NotYet, Recorded
<1>2. ASSUME NEW k, k \in Jobs => call[k] \notin {"none", "started"},
             \A j \in Jobs : j # k => work'[j] = work[j] /\ op'[j] = op[j],
             \A j \in Jobs : call'[j] \in {"none", "started"} => call'[j] = call[j]
      PROVE  Opened'
  BY <1>2 DEF Opened
<1>3. ASSUME NEW j \in Jobs, Starts(j) PROVE Opened'
  BY <1>0, <1>3 DEF Starts, Opened
<1>4. ASSUME NEW j \in Jobs, Admits(j) \/ RefusesOverCap(j) PROVE Opened'
  BY <1>0, <1>4 DEF Admits, RefusesOverCap, Opened
<1>5. ASSUME NEW j \in Jobs, RefusalAnswered(j) PROVE Opened'
  BY <1>0, <1>5 DEF RefusalAnswered, Stopped, NotStopped, Opened
<1>6. ASSUME NEW j \in Jobs, WorkEnds(j) PROVE Opened'
  BY <1>0, <1>6 DEF WorkEnds, Opened
<1>7. CASE PollsDone \/ CeilingStops \/ CeilingRetries \/ CeilingGivesUp
  <2>1. at \in Jobs /\ call[at] \notin {"none", "started"} /\ call' = call
    BY <1>1, <1>7, BackgroundAssumption DEF PollsDone, CeilingStops, CeilingRetries, CeilingGivesUp,
       Seen, IndInv, TypeOK
  <2>2. \A j \in Jobs : j # at => work'[j] = work[j] /\ op'[j] = op[j]
    BY <1>0, <1>7 DEF PollsDone, CeilingStops, CeilingRetries, CeilingGivesUp, Stopped, NotStopped,
       FinishedHere, completeOperation
  <2> QED BY <1>2, <2>1, <2>2
<1>8. CASE ToolStops \/ ToolFails
  <2>1. tool \in Jobs /\ call[tool] \notin {"none", "started"} /\ call' = call
    BY <1>1, <1>8 DEF ToolStops, ToolFails, Seen, IndInv, TypeOK
  <2>2. \A j \in Jobs : j # tool => work'[j] = work[j] /\ op'[j] = op[j]
    BY <1>0, <1>8 DEF ToolStops, ToolFails, Stopped, NotStopped, completeOperation
  <2> QED BY <1>2, <2>1, <2>2
<1>9. ASSUME NEW j \in Jobs, StopStops(j) \/ StopFails(j) PROVE Opened'
  <2>1. call[j] \notin {"none", "started"} /\ call' = call
    BY <1>1, <1>9 DEF StopStops, StopFails, Seen
  <2>2. \A i \in Jobs : i # j => work'[i] = work[i] /\ op'[i] = op[i]
    BY <1>0, <1>9 DEF StopStops, StopFails, Stopped, NotStopped, completeOperation
  <2> QED BY <1>2, <2>1, <2>2
<1>10. CASE Evicted
  BY <1>0, <1>10 DEF Evicted, Opened
<1>11. ASSUME UNCHANGED <<call, work, op>> PROVE Opened'
  BY <1>11 DEF Opened
<1>12. CASE \/ PassBegins \/ (\E j \in Jobs : PassNext(j)) \/ PassEnds \/ PollsRunning
           \/ Delivers \/ DeliversNothing \/ DeliverThrows
           \/ (\E j \in Jobs : ToolCancels(j) \/ ComesDue(j) \/ Ages(j)) \/ StopBegins \/ UNCHANGED vars
  BY <1>11, <1>12 DEF PassBegins, PassNext, PassEnds, PollsRunning, Delivers, DeliversNothing,
     DeliverThrows, ToolCancels, ComesDue, Ages, StopBegins, vars
<1> QED
  BY <1>3, <1>4, <1>5, <1>6, <1>7, <1>8, <1>9, <1>10, <1>12
  DEF Next, PassStep, CallStep, CancelStep

LEMMA LedgerKeeps == LedgerInv /\ [Next]_vars => LedgerInv'
<1> SUFFICES ASSUME LedgerInv, [Next]_vars PROVE LedgerInv'
  OBVIOUS
<1>1. IndInv'
  BY KeepsTypes, KeepsNotYet, KeepsToldOnce, KeepsTracked, KeepsBelowCap DEF LedgerInv, IndInv
<1> QED BY <1>1, LedgerStep, SeenStep, OpenedStep DEF LedgerInv

LEMMA AlwaysLedger == Spec => []LedgerInv
<1>1. Init => LedgerInv
  BY InitInv DEF Init, LedgerInv, Ledger, Agree, Seen, Opened
<1> QED BY <1>1, LedgerKeeps, PTL DEF Spec

(* background_jobs, operations and the plugin never contradict each other, *)
(* however the pass, jobs.cancel and the session's cancel meet over a job. *)
THEOREM LedgerAgrees == Spec => []Ledger
<1>1. LedgerInv => Ledger
  BY DEF LedgerInv
<1> QED BY <1>1, AlwaysLedger, PTL

(* finishBackgroundJob's `only a running job finishes', over the whole     *)
(* life of a job: no late answer, cancel or pass reopens or renames an end.*)
THEOREM EndsFinal == Spec => [][EndStands]_vars
<1>1. LedgerInv /\ [Next]_vars => [EndStands]_vars
  <2> SUFFICES ASSUME LedgerInv, [Next]_vars PROVE EndStands
    OBVIOUS
  <2> USE DEF LedgerInv, Put, calls, rows, clock, alarm, cancels, history
  <2>0. /\ row \in [Jobs -> {"none", "running", "done", "failed", "cancelled"}]
        /\ op \in [Jobs -> {"none", "running", "succeeded", "failed", "cancelled"}]
        /\ work \in [Jobs -> {"none", "running", "ended"}]
        /\ \A j \in Jobs : told[j] \in Nat /\ told[j] >= told[j] /\ told[j] + 1 >= told[j]
    BY DEF IndInv, TypeOK
  <2>1. ASSUME NEW j \in Jobs, NEW state, NEW status, Finishes(j, state, status),
               \A i \in Jobs : work'[i] \in {work[i], "ended"}
        PROVE  EndStands
    BY <2>0, <2>1 DEF EndStands, Finishes, Ends
  <2>2. CASE Apart
    BY <2>0, <2>2 DEF EndStands, Apart
  <2>3. ASSUME NEW j \in Jobs, Starts(j) PROVE EndStands
    <3>1. row[j] = "none" /\ row' = row /\ told' = told
      BY <2>3 DEF Starts, IndInv, NotYet
    <3>2. work[j] # "ended"
      BY <2>3 DEF Starts, Opened
    <3>3. \A i \in Jobs : i # j => op'[i] = op[i] /\ work'[i] = work[i]
      BY <2>0, <2>3 DEF Starts
    <3> QED BY <2>0, <3>1, <3>2, <3>3 DEF EndStands, Ends
  <2>4. ASSUME NEW j \in Jobs, Admits(j) \/ RefusesOverCap(j) PROVE EndStands
    <3>1. row[j] = "none"
      BY <2>4 DEF Admits, RefusesOverCap, IndInv, NotYet
    <3>2. /\ \A i \in Jobs : i # j => row'[i] = row[i]
          /\ UNCHANGED <<op, work, told>>
      BY <2>0, <2>4 DEF Admits, RefusesOverCap
    <3> QED BY <2>0, <3>1, <3>2 DEF EndStands, Ends
  <2>5. CASE PollsDone /\ Finishes(at, "done", "succeeded")
    BY <2>1, <2>5 DEF PollsDone, IndInv, TypeOK
  <2>6. CASE CeilingStops /\ Finishes(at, "failed", "failed")
    <3>1. at \in Jobs /\ \A i \in Jobs : work'[i] \in {work[i], "ended"}
      BY <2>0, <2>6 DEF CeilingStops, Stopped, IndInv, TypeOK
    <3> QED BY <2>1, <2>6, <3>1
  <2>7. CASE CeilingGivesUp /\ Finishes(at, "failed", "failed")
    <3>1. at \in Jobs /\ \A i \in Jobs : work'[i] \in {work[i], "ended"}
      BY <2>0, <2>7 DEF CeilingGivesUp, NotStopped, IndInv, TypeOK
    <3> QED BY <2>1, <2>7, <3>1
  <2>8. CASE Delivers
    <3>1. \A j \in Jobs : told'[j] \in {told[j], told[j] + 1}
      BY <2>8 DEF Delivers, IndInv, TypeOK
    <3> QED BY <2>0, <2>8, <3>1 DEF EndStands, Delivers
  <2>9. CASE ToolStops
    <3>1. /\ \A i \in Jobs : row[i] \in Ends => row'[i] = row[i]
          /\ \A i \in Jobs : op'[i] \in {op[i], "cancelled"}
          /\ \A i \in Jobs : work'[i] \in {work[i], "ended"}
          /\ told' = told
      BY <2>0, <2>9 DEF ToolStops, Stopped, finishBackgroundJob, completeOperation, Ends
    <3> QED BY <2>0, <3>1 DEF EndStands
  <2>10. ASSUME NEW j \in Jobs, StopStops(j), Finishes(j, "cancelled", "cancelled") PROVE EndStands
    <3>1. \A i \in Jobs : work'[i] \in {work[i], "ended"}
      BY <2>0, <2>10 DEF StopStops, Stopped
    <3> QED BY <2>1, <2>10, <3>1
  <2> QED BY <2>2, <2>3, <2>4, <2>5, <2>6, <2>7, <2>8, <2>9, <2>10, TableSteps
<1> QED BY <1>1, AlwaysLedger, PTL DEF Spec

-----------------------------------------------------------------------------
(* When an end is not told *)

(* A step in which no notice is lost: the session takes it, the post does  *)
(* not throw, and the object is not evicted with the notice in hand.       *)
Heard ==
  /\ ~DeliversNothing /\ ~DeliverThrows
  /\ ~(Evicted /\ pass = "deliver")

(* Every end the pass found was told, or is about to be. *)
EndIsTold ==
  \A j \in Jobs : row[j] \in {"done", "failed"} => told[j] = 1 \/ (pass = "deliver" /\ at = j)

HeardInv == LedgerInv /\ EndIsTold

(* A notice in hand is kept until it is delivered. *)
LEMMA NoticeKept ==
  ASSUME IndInv, [Next]_vars, [Heard]_vars, pass = "deliver", ~Delivers
  PROVE  pass' = "deliver" /\ at' = at
<1> USE DEF calls, rows, clock, alarm, cancels, history
<1>1. CASE UNCHANGED vars
  BY <1>1 DEF vars
<1>2. CASE Heard
  BY <1>2 DEF Heard, Next, PassStep, CallStep, CancelStep, PassBegins, PassNext, PassEnds, PollsRunning,
     PollsDone, CeilingStops, CeilingRetries, CeilingGivesUp, Starts, Admits, RefusesOverCap,
     RefusalAnswered, ToolCancels, ToolStops, ToolFails, StopBegins, StopStops, StopFails, WorkEnds,
     ComesDue, Ages, Evicted, vars
<1> QED BY <1>1, <1>2

LEMMA HeardKeeps ==
  ASSUME HeardInv, [Next]_vars, [Heard]_vars
  PROVE  HeardInv'
<1> SUFFICES EndIsTold'
  BY LedgerKeeps DEF HeardInv
<1> USE DEF HeardInv, LedgerInv, Put, calls, rows, clock, alarm, cancels, history
<1>0. /\ row \in [Jobs -> {"none", "running", "done", "failed", "cancelled"}]
      /\ told \in [Jobs -> 0..1]
  BY DEF IndInv, TypeOK
<1>1. ASSUME \A j \in Jobs : row'[j] \in {"done", "failed"} => row[j] = row'[j], told' = told, ~Delivers
      PROVE  EndIsTold'
  BY <1>1, NoticeKept DEF EndIsTold
<1>2. ASSUME pass \in {"poll", "cancel"}, at \in Jobs, NEW state, NEW status, Finishes(at, state, status),
             row[at] = "running" => pass' = "deliver" /\ at' = at
      PROVE  EndIsTold'
  <2>1. \A j \in Jobs : row[j] \in {"done", "failed"} => told[j] = 1
    BY <1>2 DEF EndIsTold
  <2>2. told' = told /\ \A j \in Jobs : j # at => row'[j] = row[j]
    BY <1>0, <1>2 DEF Finishes
  <2>3. row[at] # "running" => row' = row
    BY <1>2 DEF Finishes
  <2> QED BY <1>2, <2>1, <2>2, <2>3 DEF EndIsTold
<1>3. CASE Apart
  <2>1. CASE Delivers
    <3>1. at \in Jobs /\ told'[at] = told[at] + 1
      BY <1>0, <2>1 DEF Delivers, IndInv, TypeOK
    <3>2. told'[at] # told[at]
      BY <1>0, <3>1
    <3> QED BY <1>3, <3>1, <3>2 DEF Apart
  <2>2. CASE ~Delivers
    BY <1>1, <1>3, <2>2 DEF Apart
  <2> QED BY <2>1, <2>2
<1>4. ASSUME NEW j \in Jobs, Starts(j) \/ Admits(j) \/ RefusesOverCap(j) PROVE EndIsTold'
  <2>1. told' = told /\ ~Delivers /\ \A i \in Jobs : row'[i] \in {row[i], "running"}
    BY <1>0, <1>4 DEF Starts, Admits, RefusesOverCap, Delivers, Continues
  <2> QED BY <1>1, <2>1
<1>5. CASE PollsDone /\ Finishes(at, "done", "succeeded")
  <2>1. at \in Jobs /\ pass = "poll" /\ (row[at] = "running" => pass' = "deliver" /\ at' = at)
    BY <1>5 DEF PollsDone, FinishedHere, IndInv, TypeOK
  <2> QED BY <1>2, <1>5, <2>1
<1>6. CASE CeilingStops /\ Finishes(at, "failed", "failed")
  <2>1. at \in Jobs /\ pass = "cancel" /\ (row[at] = "running" => pass' = "deliver" /\ at' = at)
    BY <1>6 DEF CeilingStops, FinishedHere, IndInv, TypeOK
  <2> QED BY <1>2, <1>6, <2>1
<1>7. CASE CeilingGivesUp /\ Finishes(at, "failed", "failed")
  <2>1. at \in Jobs /\ pass = "cancel" /\ (row[at] = "running" => pass' = "deliver" /\ at' = at)
    BY <1>7 DEF CeilingGivesUp, FinishedHere, IndInv, TypeOK
  <2> QED BY <1>2, <1>7, <2>1
<1>8. CASE Delivers
  <2>1. at \in Jobs /\ row' = row /\ told'[at] = told[at] + 1 /\ \A j \in Jobs : j # at => told'[j] = told[j]
    BY <1>0, <1>8 DEF Delivers, IndInv, TypeOK
  <2>2. told[at] = 0
    BY <1>0, <1>8, <2>1 DEF Delivers, IndInv, ToldOnce
  <2> QED BY <2>1, <2>2 DEF EndIsTold
<1>9. CASE ToolStops
  <2>1. told' = told /\ ~Delivers /\ \A i \in Jobs : row'[i] \in {row[i], "cancelled"}
    BY <1>0, <1>9 DEF ToolStops, finishBackgroundJob, Delivers, Continues
  <2> QED BY <1>1, <2>1
<1>10. ASSUME NEW j \in Jobs, StopStops(j), Finishes(j, "cancelled", "cancelled") PROVE EndIsTold'
  <2>1. told' = told /\ ~Delivers /\ \A i \in Jobs : row'[i] \in {row[i], "cancelled"}
    BY <1>0, <1>10 DEF StopStops, finishBackgroundJob, Delivers, Continues
  <2> QED BY <1>1, <2>1
<1> QED
  BY <1>3, <1>4, <1>5, <1>6, <1>7, <1>8, <1>9, <1>10, TableSteps

(* The agent is left without the news of a job's end only by a notice it   *)
(* may not have, a post that throws, or an eviction with the notice in     *)
(* hand: in a run without these every job the pass ended is told.          *)
THEOREM SilentForCause == Spec /\ [][Heard]_vars => []EndIsTold
<1>1. Init => HeardInv
  <2>1. Init => LedgerInv
    BY InitInv DEF Init, LedgerInv, Ledger, Agree, Seen, Opened
  <2>2. Init => EndIsTold
    BY DEF Init, EndIsTold
  <2> QED BY <2>1, <2>2 DEF HeardInv
<1>2. HeardInv /\ [Next]_vars /\ [Heard]_vars => HeardInv'
  BY HeardKeeps
<1>3. HeardInv => EndIsTold
  BY DEF HeardInv
<1> QED BY <1>1, <1>2, <1>3, PTL DEF Spec
=============================================================================
