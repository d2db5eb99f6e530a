---------------------------- MODULE MCModelJobs ----------------------------
(* ModelJobs for TLC: the symmetry of the attempts, which nothing orders,  *)
(* and, for the liveness run with its one job, the states before the       *)
(* answer: JobEnds holds of every state after it, since an answer is never *)
(* taken back.                                                             *)
EXTENDS ModelJobs, TLC

TakerSymmetry == Permutations(Takers)

Unanswered == \A j \in Jobs : row[j].answer = None
=============================================================================
