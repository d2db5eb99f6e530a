---------------------------- MODULE MCApprovals ----------------------------
(* Approvals for TLC. Operations that ask for the same are interchangeable. *)
EXTENDS Approvals, TLC

OpsSymmetry == Permutations(Ops)
=============================================================================
