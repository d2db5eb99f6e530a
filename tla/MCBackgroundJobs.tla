-------------------------- MODULE MCBackgroundJobs --------------------------
(* BackgroundJobs for TLC. *)
EXTENDS BackgroundJobs, TLC
=============================================================================
