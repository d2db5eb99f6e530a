----------------------------- MODULE Connection -----------------------------
(***************************************************************************)
(* What a shared GitHub connection promises the agents on it: the pair it  *)
(* keeps only ever moves on to a newer one GitHub handed out, and it says  *)
(* that a person must connect again only when the refresh token it keeps   *)
(* is of no use any more. No lease, no agents: GithubRefresh implements    *)
(* this.                                                                   *)
(***************************************************************************)
EXTENDS Naturals

VARIABLES
  kept,     (* the pair the connection keeps, by the order of issue        *)
  broken,   (* said to need its person                                     *)
  issued,   (* how many pairs GitHub has handed out                        *)
  unspent   (* those whose refresh token GitHub still takes                *)

cvars == <<kept, broken, issued, unspent>>

ConnInit ==
  /\ kept = 1 /\ broken = FALSE
  /\ issued = 1 /\ unspent = {1}

(* GitHub takes a refresh token, once, and hands out the next pair. *)
Spend ==
  /\ \E p \in unspent : unspent' = (unspent \ {p}) \cup {issued + 1}
  /\ issued' = issued + 1
  /\ UNCHANGED <<kept, broken>>

(* A newer pair is kept, which mends the connection. *)
KeepNewer ==
  /\ kept' \in (kept + 1)..issued
  /\ broken' = FALSE
  /\ UNCHANGED <<issued, unspent>>

Break ==
  /\ kept \notin unspent
  /\ broken' = TRUE
  /\ UNCHANGED <<kept, issued, unspent>>

(* The person connects again. *)
Authorize ==
  /\ issued' = issued + 1
  /\ unspent' = unspent \cup {issued + 1}
  /\ kept' = issued + 1
  /\ broken' = FALSE

Withdraw == unspent' = {} /\ UNCHANGED <<kept, broken, issued>>

ConnNext == Spend \/ KeepNewer \/ Break \/ Authorize \/ Withdraw

ConnSpec == ConnInit /\ [][ConnNext]_cvars
=============================================================================
