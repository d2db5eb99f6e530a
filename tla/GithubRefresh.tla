--------------------------- MODULE GithubRefresh ---------------------------
(***************************************************************************)
(* Renewing a GitHub connection that several agents share                  *)
(* (cf/src/github-refresh.ts; the connector's row in D1 by                 *)
(* cf/src/control-plane.ts d1ConnectorGrants). GitHub's refresh token is   *)
(* single-use and spends the old access token with it, so the agents'      *)
(* objects race for one trade: under a lease in D1 that may lapse, with    *)
(* writes that may fail or fail to answer, and with isolates that die at   *)
(* any await.                                                              *)
(*                                                                         *)
(* A pair is its number in GitHub's order of issue. One connector; each    *)
(* agent has one mount on it; a renewal is one run of #renew. No time is   *)
(* assumed of anything: whether a pair is still fresh, or was stored a     *)
(* moment ago, is open at every look at it; a lease may lapse under its    *)
(* holder at any step, and so may a mount's stored guard (LEASE_MS too,    *)
(* while a renewal may wait longer for the lease alone), so any number of  *)
(* renewals of one mount may run at once and nothing rests on the guard.   *)
(***************************************************************************)
EXTENDS Naturals

CONSTANTS
  Mounts,          (* the agents' mounts on the connector                  *)
  Renewals,        (* how many renewals may run at once, by name           *)
  None,            (* nobody, nothing                                      *)
  RotateAttempts,  (* ROTATE_ATTEMPTS                                      *)
  MaxPairs,        (* bound: pairs GitHub hands out                        *)
  MaxFaults        (* bound: calls that fail and renewals that die         *)

ASSUME RefreshAssumption ==
  /\ None \notin Renewals \cup Mounts
  /\ RotateAttempts \in Nat \ {0}
  /\ MaxPairs \in Nat \ {0}
  /\ MaxFaults \in Nat

VARIABLES
  issued, unspent,     (* GitHub: pairs handed out, and the live ones      *)
  stored, broken,      (* the connector's pair, broken_at                  *)
  there,               (* the connector exists                             *)
  leaseBy, leased,     (* refreshing_by; refreshing_until is ahead         *)
  pair, mbroken,       (* by mount: its pair, its broken mark              *)
  hand,                (* by mount: pairs a reconnect is handing it        *)
  told,                (* mounts another's renewal is being handed on to   *)
  ren,                 (* by renewal: where it is and what it knows        *)
  aged,                (* pairs up to this one were found near their expiry*)
  faults,              (* how many faults there were                       *)
  adrift               (* history: pairs possibly spent with no successor  *)
                       (* stored under the lease                           *)

github == <<issued, unspent>>
row == <<stored, broken, there>>
lock == <<leaseBy, leased>>
mounts == <<pair, mbroken, hand, told>>
past == <<aged, faults, adrift>>
vars == <<github, row, lock, mounts, ren, past>>

-----------------------------------------------------------------------------

Steps == {"idle", "read", "ask", "lease", "wait", "reread", "trade", "answered", "refused",
          "mark", "again", "keep", "write", "break"}

Whys == {"expiring", "rejected", "adopt"}

(* A renewal: its step, its mount, why it runs, the mount's pair and mark  *)
(* when it began, the pair it read, the one it goes on with, and the       *)
(* writes that failed. What a step no longer needs is reset.               *)
Idle == [pc |-> "idle", at |-> None, why |-> "adopt", cur |-> 0, hurt |-> FALSE,
         was |-> 0, got |-> 0, tries |-> 0]

Renewal ==
  [pc : Steps, at : Mounts \cup {None}, why : Whys, cur : 0..issued, hurt : BOOLEAN,
   was : 0..issued, got : 0..issued, tries : 0..RotateAttempts]

TypeOK ==
  /\ issued \in 1..MaxPairs /\ unspent \subseteq 1..issued
  /\ stored \in 1..issued /\ broken \in BOOLEAN /\ there \in BOOLEAN
  /\ leaseBy \in Renewals \cup {None} /\ leased \in BOOLEAN
  /\ pair \in [Mounts -> 1..issued] /\ mbroken \in [Mounts -> BOOLEAN]
  /\ hand \in [Mounts -> SUBSET (1..issued)] /\ told \subseteq Mounts
  /\ ren \in [Renewals -> Renewal]
  /\ aged \in 0..issued /\ faults \in 0..MaxFaults /\ adrift \subseteq 1..issued

(* A connector just made, its pair on every mount. *)
Init ==
  /\ issued = 1 /\ unspent = {1}
  /\ stored = 1 /\ broken = FALSE /\ there = TRUE
  /\ leaseBy = None /\ leased = FALSE
  /\ pair = [m \in Mounts |-> 1] /\ mbroken = [m \in Mounts |-> FALSE]
  /\ hand = [m \in Mounts |-> {}] /\ told = {}
  /\ ren = [r \in Renewals |-> Idle]
  /\ aged = 0 /\ faults = 0 /\ adrift = {}

Fault == faults < MaxFaults /\ faults' = faults + 1

-----------------------------------------------------------------------------
(* Steps of a renewal *)

Goto(r, step) == ren' = [ren EXCEPT ![r].pc = step]

(* It goes on with pair p in hand, ... *)
Holding(r, p) ==
  ren' = [ren EXCEPT ![r] =
    [Idle EXCEPT !.pc = "write", !.at = ren[r].at, !.cur = ren[r].cur, !.hurt = ren[r].hurt, !.got = p]]

(* ... or knows that only a person mends the connection, ... *)
Breaking(r) ==
  ren' = [ren EXCEPT ![r] =
    [Idle EXCEPT !.pc = "break", !.at = ren[r].at, !.hurt = ren[r].hurt]]

(* ... or is over. A lease it holds is left to lapse. *)
Over(r) ==
  /\ ren' = [ren EXCEPT ![r] = Idle]
  /\ leaseBy' = IF leaseBy = r THEN None ELSE leaseBy
  /\ leased' = leased

(* d1ConnectorGrants.release: only the holder's own lease. *)
release(r) ==
  /\ leaseBy' = IF leaseBy = r THEN None ELSE leaseBy
  /\ leased' = IF leaseBy = r THEN FALSE ELSE leased

(* A use of mount m before its pair expires, a 401 for that pair (whatever *)
(* the endpoint meant by it), or another agent's renewal handed on, soon   *)
(* or late: the mount is read.                                             *)
Begin(r, m, w) ==
  /\ ren[r].pc = "idle"
  /\ w = "expiring" => ~mbroken[m]
  /\ w = "adopt" => m \in told
  /\ ren' = [ren EXCEPT ![r] =
       [Idle EXCEPT !.pc = "read", !.at = m, !.why = w, !.cur = pair[m], !.hurt = mbroken[m]]]
  /\ UNCHANGED <<github, row, lock, mounts, past>>

(* renewConnector's first read, and the part of `needs' that asks nobody.  *)
(* One that is gone or broken ends it.                                     *)
ReadEnds(r) ==
  /\ ren[r].pc = "read"
  /\ ~there \/ broken
  /\ Breaking(r)
  /\ UNCHANGED <<github, row, lock, mounts, past>>

(* A pair that expires is renewed; older ones have expired before it. *)
ReadExpiring(r) ==
  /\ ren[r].pc = "read"
  /\ there /\ ~broken
  /\ ren[r].why # "adopt"
  /\ aged' = IF stored > aged THEN stored ELSE aged
  /\ ren' = [ren EXCEPT ![r].pc = "lease", ![r].why = Idle.why, ![r].was = stored]
  /\ UNCHANGED <<github, row, lock, mounts, faults, adrift>>

(* A fresh one is renewed for a 401 only if the connector still holds it   *)
(* and was not renewed moments ago, which is left open, and only if GitHub *)
(* confirms that it is dead.                                               *)
ReadRefused(r) ==
  /\ ren[r].pc = "read"
  /\ there /\ ~broken
  /\ ren[r].why = "rejected" /\ stored = ren[r].cur /\ stored > aged
  /\ ren' = [ren EXCEPT ![r].pc = "ask", ![r].why = Idle.why, ![r].was = stored]
  /\ UNCHANGED <<github, row, lock, mounts, past>>

(* Else it is taken as it is, by another agent's handing on whatever it is.*)
ReadFresh(r) ==
  /\ ren[r].pc = "read"
  /\ there /\ ~broken
  /\ ren[r].why = "adopt" \/ stored > aged
  /\ Holding(r, stored)
  /\ UNCHANGED <<github, row, lock, mounts, past>>

(* Fault: an answer of 401 is not taken for a confirmation either. *)
AskNever(r) ==
  /\ ren[r].pc = "ask"
  /\ Holding(r, ren[r].was) /\ faults' = faults
  /\ UNCHANGED <<github, row, lock, mounts, aged, adrift>>

(* tokenIsDead: GitHub confirms it, which it may do of an access token     *)
(* whose refresh token it still takes, denies it, or does not answer.      *)
Ask(r) ==
  /\ ren[r].pc = "ask"
  /\ \/ Goto(r, "lease") /\ faults' = faults
     \/ ren[r].was \in unspent /\ Holding(r, ren[r].was) /\ faults' = faults
     \/ ren[r].was \notin unspent /\ Holding(r, ren[r].was) /\ Fault
  /\ UNCHANGED <<github, row, lock, mounts, aged, adrift>>

(* The right to trade, taken when nobody has it. *)
lease(r) ==
  /\ ren[r].pc = "lease"
  /\ there /\ ~leased
  /\ leaseBy' = r /\ leased' = TRUE
  /\ Goto(r, "reread")
  /\ UNCHANGED <<github, row, mounts, past>>

(* Somebody has it, or the connector is gone: it waits, ... *)
LeaseHeld(r) ==
  /\ ren[r].pc = "lease"
  /\ leased \/ ~there
  /\ Goto(r, "wait")
  /\ UNCHANGED <<github, row, lock, mounts, past>>

(* ... looks at the connector, in case something came of it, and tries     *)
(* again, ...                                                              *)
LeaseLooks(r) ==
  /\ ren[r].pc = "wait"
  /\ \/ (~there \/ broken) /\ Breaking(r)
     \/ there /\ ~broken /\ stored # ren[r].was /\ Holding(r, stored)
     \/ there /\ ~broken /\ stored = ren[r].was /\ Goto(r, "lease")
  /\ UNCHANGED <<github, row, lock, mounts, past>>

(* ... until the time for it is over. *)
LeaseGivesUp(r) ==
  /\ ren[r].pc = "lease"
  /\ leased \/ ~there
  /\ Over(r)
  /\ UNCHANGED <<github, row, mounts, past>>

(* Fault: what was read before the lease is traded. *)
RereadTrusts(r) ==
  /\ ren[r].pc = "reread"
  /\ Goto(r, "trade")
  /\ UNCHANGED <<github, row, lock, mounts, past>>

(* Read again under the lease: a renewal that finished meanwhile is taken, *)
(* not repeated. The same pair needs renewing for the same reason still.   *)
Reread(r) ==
  /\ ren[r].pc = "reread"
  /\ \/ ~there /\ Breaking(r) /\ release(r)
     \/ there /\ stored # ren[r].was /\ Holding(r, stored) /\ release(r)
     \/ there /\ stored = ren[r].was /\ Goto(r, "trade") /\ UNCHANGED lock
  /\ UNCHANGED <<github, row, mounts, past>>

(* GitHub takes the refresh token: it is spent, and the next pair is out.  *)
Trade(r) ==
  /\ ren[r].pc = "trade"
  /\ ren[r].was \in unspent
  /\ issued < MaxPairs
  /\ issued' = issued + 1
  /\ unspent' = (unspent \ {ren[r].was}) \cup {issued + 1}
  /\ ren' = [ren EXCEPT ![r].pc = "answered", ![r].got = issued + 1]
  /\ UNCHANGED <<row, lock, mounts, past>>

(* GitHub refuses one that is spent, or whose authorization is withdrawn.  *)
Refuse(r) ==
  /\ ren[r].pc = "trade"
  /\ ren[r].was \notin unspent
  /\ Goto(r, "refused")
  /\ UNCHANGED <<github, row, lock, mounts, past>>

(* Nobody answered, before GitHub took the token or after it did, or it    *)
(* answered without a refresh token: no verdict.                           *)
Unavailable(r) ==
  /\ ren[r].pc \in {"trade", "answered"} /\ ren[r].tries = 0
  /\ Fault
  /\ release(r)
  /\ ren' = [ren EXCEPT ![r] = Idle]
  /\ adrift' = IF ren[r].pc = "answered" THEN adrift \cup {ren[r].was} ELSE adrift
  /\ UNCHANGED <<github, row, mounts, aged>>

(* Fault: the write does not look what it writes over. *)
rotateBlind(r) ==
  IF there
  THEN /\ stored' = ren[r].got /\ broken' = FALSE
       /\ release(r)
  ELSE UNCHANGED <<stored, broken, lock>>

(* d1ConnectorGrants.rotate: the new pair, only over the one it was traded *)
(* from; broken or not, the connector is mended.                           *)
rotate(r) ==
  IF there /\ stored = ren[r].was
  THEN /\ stored' = ren[r].got /\ broken' = FALSE
       /\ release(r)
  ELSE UNCHANGED <<stored, broken, lock>>

(* Landed or not, the pair just traded is GitHub's newest, and the other   *)
(* agents will be told.                                                    *)
Store(r) ==
  /\ ren[r].pc = "answered"
  /\ rotate(r)
  /\ Holding(r, ren[r].got)
  /\ told' = told \cup (Mounts \ {ren[r].at})
  /\ UNCHANGED <<github, there, pair, mbroken, hand, past>>

(* Fault: one attempt too many. *)
StoreThrowsOnceMore(r) ==
  /\ ren[r].pc = "answered"
  /\ rotate(r) \/ UNCHANGED <<stored, broken, lock>>
  /\ ren' = [ren EXCEPT ![r].tries = @ + 1,
       ![r].pc = IF ren[r].tries + 1 <= RotateAttempts THEN "answered" ELSE "keep"]
  /\ UNCHANGED <<github, there, mounts, past>>

(* The write throws, done or not, and is tried again; the last failure     *)
(* hands the pair back unstored, with the lease left held.                 *)
StoreThrows(r) ==
  /\ ren[r].pc = "answered"
  /\ rotate(r) \/ UNCHANGED <<stored, broken, lock>>
  /\ ren' = [ren EXCEPT ![r].tries = @ + 1,
       ![r].pc = IF ren[r].tries + 1 < RotateAttempts THEN "answered" ELSE "keep"]
  /\ UNCHANGED <<github, there, mounts, past>>

(* The mount keeps the pair D1 would not take. *)
Keep(r) ==
  /\ ren[r].pc = "keep"
  /\ pair' = [pair EXCEPT ![ren[r].at] = ren[r].got]
  /\ mbroken' = [mbroken EXCEPT ![ren[r].at] = FALSE]
  /\ Over(r)
  /\ adrift' = adrift \cup {ren[r].was}
  /\ UNCHANGED <<github, row, hand, told, aged, faults>>

(* Refused: somebody else's renewal that landed meanwhile is taken. *)
Recheck(r) ==
  /\ ren[r].pc = "refused"
  /\ IF there /\ stored # ren[r].was
     THEN Holding(r, stored) /\ release(r)
     ELSE Goto(r, "mark") /\ UNCHANGED lock
  /\ UNCHANGED <<github, row, mounts, past>>

(* Fault: whatever the connector holds by now is marked. *)
markBrokenBlind(r) ==
  /\ ren[r].pc = "mark"
  /\ IF there /\ ~broken
     THEN broken' = TRUE /\ release(r) /\ Breaking(r)
     ELSE UNCHANGED <<broken, lock>> /\ Goto(r, "again")
  /\ UNCHANGED <<github, stored, there, mounts, past>>

(* d1ConnectorGrants.markBroken: only over the refresh token GitHub        *)
(* refused, and only once.                                                 *)
markBroken(r) ==
  /\ ren[r].pc = "mark"
  /\ IF there /\ ~broken /\ stored = ren[r].was
     THEN broken' = TRUE /\ release(r) /\ Breaking(r)
     ELSE UNCHANGED <<broken, lock>> /\ Goto(r, "again")
  /\ UNCHANGED <<github, stored, there, mounts, past>>

(* Not marked here: a pair stored since is taken, anything else is broken. *)
LookAgain(r) ==
  /\ ren[r].pc = "again"
  /\ IF there /\ ~broken /\ stored # ren[r].was THEN Holding(r, stored) ELSE Breaking(r)
  /\ UNCHANGED <<github, row, lock, mounts, past>>

(* The mount has this pair already, and no mark: nothing to write. Else    *)
(* the connector is asked once more, in case the agent or it is gone, and  *)
(* the pair is put on the mount, its mark cleared.                         *)
Write(r) ==
  /\ ren[r].pc = "write"
  /\ IF (ren[r].got # ren[r].cur \/ ren[r].hurt) /\ there
     THEN /\ pair' = [pair EXCEPT ![ren[r].at] = ren[r].got]
          /\ mbroken' = [mbroken EXCEPT ![ren[r].at] = FALSE]
     ELSE UNCHANGED <<pair, mbroken>>
  /\ Over(r)
  /\ UNCHANGED <<github, row, hand, told, past>>

(* #broken: said on the mount, once. *)
Break(r) ==
  /\ ren[r].pc = "break"
  /\ mbroken' = IF ren[r].hurt THEN mbroken ELSE [mbroken EXCEPT ![ren[r].at] = TRUE]
  /\ Over(r)
  /\ UNCHANGED <<github, row, pair, hand, told, past>>

(* A call of the renewal throws, or its isolate dies. Before it has the    *)
(* lease that leaves nothing behind, as if it had not begun.               *)
Dies(r) ==
  /\ ren[r].pc \notin {"idle", "read", "ask", "lease", "wait"}
  /\ Fault
  /\ Over(r)
  /\ adrift' = IF ren[r].pc \in {"trade", "answered", "keep"} THEN adrift \cup {ren[r].was} ELSE adrift
  /\ UNCHANGED <<github, row, mounts, aged>>

-----------------------------------------------------------------------------
(* People, GitHub and time *)

(* connectors.reconnect: the person authorizes again, the new pair is put  *)
(* over the connector's, whoever holds its lease, and is on its way to     *)
(* every mount.                                                            *)
Reconnect ==
  /\ there
  /\ issued < MaxPairs
  /\ issued' = issued + 1 /\ unspent' = unspent \cup {issued + 1}
  /\ stored' = issued + 1 /\ broken' = FALSE
  /\ leaseBy' = None /\ leased' = FALSE
  /\ hand' = [m \in Mounts |-> hand[m] \cup {issued + 1}]
  /\ UNCHANGED <<there, pair, mbroken, told, ren, past>>

(* reconnectConnection puts it on one mount, outside the mount's chain, or *)
(* fails to.                                                               *)
Hand(m, p) ==
  /\ p \in hand[m]
  /\ hand' = [hand EXCEPT ![m] = @ \ {p}]
  /\ \/ /\ pair' = [pair EXCEPT ![m] = p]
        /\ mbroken' = [mbroken EXCEPT ![m] = FALSE]
     \/ UNCHANGED <<pair, mbroken>>
  /\ UNCHANGED <<github, row, lock, told, ren, past>>

(* The person withdraws the authorization at GitHub, or it runs out. *)
Revoke ==
  /\ unspent # {}
  /\ unspent' = {}
  /\ adrift' = adrift \cup unspent
  /\ UNCHANGED <<issued, row, lock, mounts, ren, aged, faults>>

(* The connector is disconnected; its mounts are not told yet. *)
Disconnect ==
  /\ there
  /\ there' = FALSE
  /\ UNCHANGED <<github, stored, broken, lock, mounts, ren, past>>

(* LEASE_MS is over: if its holder is still at work, what it holds may be  *)
(* spent by two.                                                           *)
LeaseLapses ==
  /\ leased
  /\ leased' = FALSE
  /\ adrift' = IF leaseBy = None THEN adrift ELSE adrift \cup {stored}
  /\ UNCHANGED <<github, row, leaseBy, mounts, ren, aged, faults>>

-----------------------------------------------------------------------------

Step(r) ==
  \/ ReadEnds(r) \/ ReadExpiring(r) \/ ReadRefused(r) \/ ReadFresh(r) \/ Ask(r)
  \/ lease(r) \/ LeaseHeld(r) \/ LeaseLooks(r) \/ LeaseGivesUp(r) \/ Reread(r)
  \/ Trade(r) \/ Refuse(r) \/ Store(r) \/ Keep(r)
  \/ Recheck(r) \/ markBroken(r) \/ LookAgain(r)
  \/ Write(r) \/ Break(r)

Fails(r) == Unavailable(r) \/ StoreThrows(r) \/ Dies(r)

Around ==
  \/ Reconnect \/ (\E m \in Mounts, p \in 1..issued : Hand(m, p))
  \/ Revoke \/ Disconnect \/ LeaseLapses

Next ==
  \/ \E r \in Renewals, m \in Mounts, w \in Whys : Begin(r, m, w)
  \/ \E r \in Renewals : Step(r) \/ Fails(r)
  \/ Around

Spec == Init /\ [][Next]_vars

(* The agent uses mount m, whose token GitHub refuses. *)
UseRefused(m) == pair[m] \notin unspent /\ \E r \in Renewals : Begin(r, m, "rejected")

(* A renewal that is not cut short goes on, a mount is used again and      *)
(* again and its turn in the chain comes, and time passes.                 *)
FairSpec ==
  /\ Spec
  /\ \A r \in Renewals : WF_vars(Step(r))
  /\ \A m \in Mounts : SF_vars(UseRefused(m))
  /\ SF_vars(\E r \in Renewals : ReadRefused(r))
  /\ WF_vars(LeaseLapses)

-----------------------------------------------------------------------------
(* Properties *)

(* A person is asked to connect again only when nothing else helps: while  *)
(* the connector is marked broken, GitHub takes its refresh token no more. *)
(* A refusal that comes late, after another renewal stored a good pair or  *)
(* the person reconnected, marks nothing (markBroken's `spent').           *)
BrokenIsDead == broken => stored \notin unspent

(* The token is not traded twice: a renewal about to trade under a lease   *)
(* that holds has a token GitHub still takes, unless an earlier trade of   *)
(* it outlived its lease, failed or died before its pair was stored, or    *)
(* the authorization is withdrawn.                                         *)
TradesLive ==
  \A r \in Renewals :
    (ren[r].pc = "trade" /\ leaseBy = r /\ leased) => ren[r].was \in unspent \cup adrift

(* The bound on pairs keeps GitHub from answering a trade. *)
AtBound == issued = MaxPairs /\ \E r \in Renewals : ren[r].pc = "trade" /\ ren[r].was \in unspent

(* A mount whose token is dead and that is still used gets a live one, or  *)
(* its person is asked to reconnect.                                       *)
DeadMountEnds ==
  \A m \in Mounts : (pair[m] \notin unspent) ~> (pair[m] \in unspent \/ mbroken[m] \/ AtBound)

C == INSTANCE Connection WITH kept <- stored

(* The lease, the conditional writes and the reconnect implement           *)
(* Connection: the pair kept only moves on, to one GitHub handed out, and  *)
(* the broken mark is put only on a dead one and lifted only by a new one. *)
ImplementsConnection == C!ConnSpec
=============================================================================
