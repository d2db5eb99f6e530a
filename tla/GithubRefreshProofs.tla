------------------------- MODULE GithubRefreshProofs -------------------------
(***************************************************************************)
(* That the connector is marked broken only over a dead refresh token,     *)
(* that no token is traded twice under a lease that holds, and that the    *)
(* connector's row implements Connection, for any number of agents,        *)
(* renewals, pairs and faults. The inductive invariant says what a renewal *)
(* may rely on after each await, with its lease and without it, and that   *)
(* the pair stored is live, is adrift, or is being replaced by the holder. *)
(*                                                                         *)
(* From it also: that one renewal at a time trades the stored pair, and    *)
(* the only ways in which a user is asked to connect again.                *)
(***************************************************************************)
EXTENDS GithubRefresh, TLAPS

(* Renewal r has the lease, and it has not run out. *)
Holds(r) == leaseBy = r /\ leased

(* The steps of a renewal that has read the connector. *)
Knows == {"ask", "lease", "wait", "reread", "trade", "answered", "refused", "mark", "again", "keep"}

(* What a renewal's record is good for, whatever the others did since. *)
Local(r) ==
  /\ ren[r].pc # "idle" => ren[r].at \in Mounts
  /\ ren[r].pc = "write" => ren[r].got \in 1..issued
  /\ ren[r].pc \in Knows => ren[r].was \in 1..stored
  /\ ren[r].pc \notin {"answered", "keep"} => ren[r].tries = 0
  /\ ren[r].pc = "answered" => ren[r].tries < RotateAttempts
  /\ ren[r].pc \in {"answered", "keep"} =>
       /\ ren[r].got > ren[r].was
       /\ stored = ren[r].was => ren[r].got \in unspent \cup adrift
  /\ ren[r].pc \in {"refused", "mark", "again"} => ren[r].was \notin unspent

(* What the lease is good for: without it the pair in hand may be spent by *)
(* another, which adrift knows; with it nobody else spends it.             *)
Leased(r) ==
  /\ ren[r].pc \in {"reread", "trade", "answered", "keep"} /\ ~Holds(r) /\ stored = ren[r].was
       => ren[r].was \in adrift
  /\ ren[r].pc = "trade" /\ Holds(r) =>
       /\ ren[r].was \in unspent \cup adrift
       /\ ren[r].was = stored \/ ren[r].was \in adrift

(* The holder is replacing the pair stored, which it has spent. *)
Replacing(r) == ren[r].pc \in {"answered", "keep"} /\ ren[r].was = stored /\ Holds(r)

StoredIsLive == there => stored \in unspent \cup adrift \/ \E r \in Renewals : Replacing(r)

IndInv ==
  /\ TypeOK /\ BrokenIsDead /\ StoredIsLive
  /\ \A r \in Renewals : Local(r) /\ Leased(r)

LEMMA IdleIsRenewal ==
  ASSUME TypeOK PROVE Idle \in Renewal
BY RefreshAssumption DEF TypeOK, Idle, Renewal, Steps, Whys

(* The invariant holds of a connector just made. *)
LEMMA InitInv == Init => IndInv
<1> SUFFICES ASSUME Init PROVE IndInv
  OBVIOUS
<1>1. Idle \in Renewal
  BY RefreshAssumption DEF Init, Idle, Renewal, Steps, Whys
<1>2. TypeOK
  <2>1. 1 \in 1..MaxPairs /\ 0 \in 0..MaxFaults /\ 0 \in 0..issued /\ issued = 1
    BY RefreshAssumption DEF Init
  <2>2. hand \in [Mounts -> SUBSET (1..issued)] /\ pair \in [Mounts -> 1..issued]
    BY DEF Init
  <2>3. ren \in [Renewals -> Renewal] /\ mbroken \in [Mounts -> BOOLEAN]
    BY <1>1 DEF Init
  <2>4. unspent \subseteq 1..issued /\ stored \in 1..issued /\ adrift \subseteq 1..issued
    BY DEF Init
  <2>5. broken \in BOOLEAN /\ there \in BOOLEAN /\ leased \in BOOLEAN /\ told \subseteq Mounts
    BY DEF Init
  <2>6. issued \in 1..MaxPairs /\ leaseBy \in Renewals \cup {None} /\ aged \in 0..issued /\ faults \in 0..MaxFaults
    BY <2>1 DEF Init
  <2> QED BY <2>2, <2>3, <2>4, <2>5, <2>6 DEF TypeOK
<1>3. \A r \in Renewals : ren[r].pc = "idle" /\ ren[r].tries = 0
  BY DEF Init, Idle
<1>4. \A r \in Renewals : Local(r) /\ Leased(r)
  BY <1>3 DEF Local, Leased, Knows
<1>5. BrokenIsDead /\ StoredIsLive
  BY DEF Init, BrokenIsDead, StoredIsLive
<1> QED BY <1>2, <1>4, <1>5 DEF IndInv

(* A step of renewal r that leaves GitHub and the connector's pair alone,  *)
(* and at most gives r's own lease up, keeps the invariant if it keeps     *)
(* what r may rely on.                                                     *)
LEMMA Quiet ==
  ASSUME IndInv, NEW r \in Renewals, NEW x \in Renewal,
         ren' = [ren EXCEPT ![r] = x],
         UNCHANGED <<github, row>>,
         \/ UNCHANGED lock
         \/ leaseBy = r /\ leaseBy' = None /\ leased' \in BOOLEAN,
         ren[r].pc \in {"answered", "keep"} => ren[r].was \in adrift',
         adrift \subseteq adrift', adrift' \subseteq 1..issued,
         Local(r)', Leased(r)',
         pair' \in [Mounts -> 1..issued], mbroken' \in [Mounts -> BOOLEAN],
         UNCHANGED hand, told' \subseteq Mounts,
         aged' \in 0..issued, faults' \in 0..MaxFaults
  PROVE  IndInv'
<1> USE DEF IndInv, github, row, lock
<1>1. /\ ren'[r] = x
      /\ \A q \in Renewals : q # r => ren'[q] = ren[q]
      /\ ren \in [Renewals -> Renewal]
  BY DEF TypeOK
<1>2. Renewal' = Renewal
  BY DEF Renewal
<1>3. TypeOK'
  <2>1. ren' \in [Renewals -> Renewal']
    BY <1>1, <1>2
  <2> QED BY <2>1 DEF TypeOK
<1>4. \A q \in Renewals : q # r => (Holds(q)' <=> Holds(q))
  BY RefreshAssumption DEF Holds
<1>5. \A q \in Renewals : Local(q)'
  <2> SUFFICES ASSUME NEW q \in Renewals, q # r PROVE Local(q)'
    OBVIOUS
  <2> QED BY <1>1 DEF Local
<1>6. \A q \in Renewals : Leased(q)'
  <2> SUFFICES ASSUME NEW q \in Renewals, q # r PROVE Leased(q)'
    OBVIOUS
  <2> QED BY <1>1, <1>4 DEF Leased
<1>7. BrokenIsDead'
  BY DEF BrokenIsDead
<1>8. StoredIsLive'
  <2> SUFFICES ASSUME there, stored \notin unspent \cup adrift' PROVE \E q \in Renewals : Replacing(q)'
    BY DEF StoredIsLive
  <2>1. PICK q \in Renewals : Replacing(q)
    BY DEF StoredIsLive
  <2>2. q # r
    BY <2>1 DEF Replacing
  <2> QED BY <2>1, <2>2, <1>1, <1>4 DEF Replacing
<1> QED BY <1>3, <1>5, <1>6, <1>7, <1>8

(* After a step that ends a renewal's use of its lease, nothing of it is   *)
(* left to rely on.                                                        *)
LEMMA AtRest ==
  ASSUME IndInv, NEW r \in Renewals, UNCHANGED <<github, row>>,
         ren'[r].pc \in {"idle", "read", "write", "break"}, ren'[r].tries = 0,
         ren'[r].pc # "idle" => ren'[r].at \in Mounts,
         ren'[r].pc = "write" => ren'[r].got \in 1..issued
  PROVE  Local(r)' /\ Leased(r)'
BY DEF IndInv, Local, Leased, Knows, github, row

(* A renewal that goes on with a pair, ... *)
LEMMA HoldingKeeps ==
  ASSUME IndInv, NEW r \in Renewals, NEW p \in 1..issued, ren[r].pc # "idle", Holding(r, p),
         UNCHANGED <<github, row>>
  PROVE  /\ \E x \in Renewal : ren' = [ren EXCEPT ![r] = x]
         /\ Local(r)' /\ Leased(r)'
<1> DEFINE x == [Idle EXCEPT !.pc = "write", !.at = ren[r].at, !.cur = ren[r].cur, !.hurt = ren[r].hurt, !.got = p]
<1>1. ren[r] \in Renewal /\ ren[r].at \in Mounts /\ ren \in [Renewals -> Renewal]
  BY DEF IndInv, TypeOK, Local
<1>a. p \in 0..issued
  BY DEF IndInv, TypeOK
<1>b. /\ ren[r].cur \in 0..issued /\ ren[r].hurt \in BOOLEAN
      /\ 0 \in 0..issued /\ 0 \in 0..RotateAttempts
  BY <1>1, RefreshAssumption DEF Renewal, IndInv, TypeOK
<1>2. x \in Renewal
  BY <1>1, <1>a, <1>b, IdleIsRenewal DEF IndInv, Renewal, Steps
<1>3. ren' = [ren EXCEPT ![r] = x]
  BY DEF Holding
<1>4. ren'[r] = x
  BY <1>1, <1>3
<1>5. x.pc = "write" /\ x.tries = 0 /\ x.at = ren[r].at /\ x.got = p
  BY DEF Idle
<1>6. Local(r)' /\ Leased(r)'
  BY <1>1, <1>4, <1>5, AtRest
<1> QED BY <1>2, <1>3, <1>6

(* ... one that knows the connection is broken, ... *)
LEMMA BreakingKeeps ==
  ASSUME IndInv, NEW r \in Renewals, ren[r].pc # "idle", Breaking(r), UNCHANGED <<github, row>>
  PROVE  /\ \E x \in Renewal : ren' = [ren EXCEPT ![r] = x]
         /\ Local(r)' /\ Leased(r)'
<1> DEFINE x == [Idle EXCEPT !.pc = "break", !.at = ren[r].at, !.hurt = ren[r].hurt]
<1>1. ren[r] \in Renewal /\ ren[r].at \in Mounts /\ ren \in [Renewals -> Renewal]
  BY DEF IndInv, TypeOK, Local
<1>2. x \in Renewal
  BY <1>1, IdleIsRenewal DEF IndInv, Renewal, Idle, Steps
<1>3. ren' = [ren EXCEPT ![r] = x]
  BY DEF Breaking
<1>4. ren'[r] = x
  BY <1>1, <1>3
<1>5. x.pc = "break" /\ x.tries = 0 /\ x.at = ren[r].at
  BY DEF Idle
<1>6. Local(r)' /\ Leased(r)'
  BY <1>1, <1>4, <1>5, AtRest
<1> QED BY <1>2, <1>3, <1>6

(* ... and one that is over. *)
LEMMA IdleKeeps ==
  ASSUME IndInv, NEW r \in Renewals, ren' = [ren EXCEPT ![r] = Idle], UNCHANGED <<github, row>>
  PROVE  /\ \E x \in Renewal : ren' = [ren EXCEPT ![r] = x]
         /\ Local(r)' /\ Leased(r)'
<1>1. ren \in [Renewals -> Renewal]
  BY DEF IndInv, TypeOK
<1>2. ren'[r] = Idle /\ Idle.pc = "idle" /\ Idle.tries = 0
  BY <1>1 DEF Idle
<1>3. Local(r)' /\ Leased(r)'
  BY <1>2, AtRest
<1> QED BY <1>3, IdleIsRenewal DEF IndInv

(* A renewal that takes a step with what it has. *)
LEMMA GotoKeeps ==
  ASSUME IndInv, NEW r \in Renewals, NEW step \in Steps, Goto(r, step)
  PROVE  /\ \E x \in Renewal : ren' = [ren EXCEPT ![r] = x]
         /\ ren'[r].pc = step
         /\ ren'[r].at = ren[r].at /\ ren'[r].was = ren[r].was /\ ren'[r].got = ren[r].got
         /\ ren'[r].tries = ren[r].tries
<1> DEFINE x == [ren[r] EXCEPT !.pc = step]
<1>1. ren[r] \in Renewal /\ ren \in [Renewals -> Renewal]
  BY DEF IndInv, TypeOK
<1>2. x \in Renewal
  BY <1>1 DEF Renewal
<1>3. ren' = [ren EXCEPT ![r] = x]
  BY DEF Goto
<1>4. ren'[r] = x
  BY <1>1, <1>3
<1>5. /\ x.pc = step /\ x.at = ren[r].at /\ x.was = ren[r].was /\ x.got = ren[r].got
      /\ x.tries = ren[r].tries
  BY <1>1 DEF Renewal
<1> QED BY <1>2, <1>3, <1>4, <1>5

-----------------------------------------------------------------------------
(* The steps before the lease *)

LEMMA BeginInv ==
  ASSUME IndInv, NEW r \in Renewals, NEW m \in Mounts, NEW w \in Whys, Begin(r, m, w)
  PROVE  IndInv'
<1> DEFINE x == [Idle EXCEPT !.pc = "read", !.at = m, !.why = w, !.cur = pair[m], !.hurt = mbroken[m]]
<1>1. ren \in [Renewals -> Renewal] /\ pair[m] \in 0..issued /\ mbroken[m] \in BOOLEAN
  BY DEF IndInv, TypeOK
<1>2. x \in Renewal
  BY <1>1, IdleIsRenewal DEF IndInv, Renewal, Idle, Steps
<1>3. ren' = [ren EXCEPT ![r] = x]
  BY DEF Begin
<1>4. ren'[r] = x
  BY <1>1, <1>3
<1>5. x.pc = "read" /\ x.tries = 0 /\ x.at = m
  BY DEF Idle
<1>6. Local(r)' /\ Leased(r)'
  BY <1>4, <1>5, AtRest DEF Begin
<1> QED BY <1>2, <1>3, <1>6, Quiet DEF Begin, IndInv, TypeOK, mounts, past

LEMMA ReadEndsInv ==
  ASSUME IndInv, NEW r \in Renewals, ReadEnds(r)
  PROVE  IndInv'
BY BreakingKeeps, Quiet DEF ReadEnds, IndInv, TypeOK, mounts, past

LEMMA ReadFreshInv ==
  ASSUME IndInv, NEW r \in Renewals, ReadFresh(r)
  PROVE  IndInv'
BY HoldingKeeps, Quiet DEF ReadFresh, IndInv, TypeOK, mounts, past

(* The first read of the connector's pair. *)
LEMMA ReadKeeps ==
  ASSUME IndInv, NEW r \in Renewals, NEW step \in {"ask", "lease"}, ren[r].pc = "read",
         ren' = [ren EXCEPT ![r].pc = step, ![r].why = Idle.why, ![r].was = stored],
         UNCHANGED <<github, row, lock, mounts, faults, adrift>>, aged' \in 0..issued
  PROVE  IndInv'
<1> DEFINE x == [ren[r] EXCEPT !.pc = step, !.why = Idle.why, !.was = stored]
<1>1. ren \in [Renewals -> Renewal] /\ ren[r] \in Renewal /\ stored \in 1..issued
  BY DEF IndInv, TypeOK
<1>a. stored \in 0..issued /\ Idle.why \in Whys
  BY DEF IndInv, TypeOK, Idle, Whys
<1>2. x \in Renewal
  BY <1>1, <1>a DEF Renewal, Steps
<1>3. ren' = [ren EXCEPT ![r] = x]
  OBVIOUS
<1>4. ren'[r] = x
  BY <1>1, <1>3
<1>5. x.pc = step /\ x.tries = ren[r].tries /\ x.at = ren[r].at /\ x.was = stored
  BY <1>1 DEF Renewal
<1>6. ren[r].tries = 0 /\ ren[r].at \in Mounts
  BY DEF IndInv, Local
<1>7. Local(r)' /\ Leased(r)'
  BY <1>1, <1>4, <1>5, <1>6 DEF Local, Leased, Knows, row
<1> QED BY <1>2, <1>3, <1>7, Quiet DEF IndInv, TypeOK, mounts

LEMMA ReadExpiringInv ==
  ASSUME IndInv, NEW r \in Renewals, ReadExpiring(r)
  PROVE  IndInv'
<1>1. aged' \in 0..issued
  BY DEF ReadExpiring, IndInv, TypeOK
<1> QED BY <1>1, ReadKeeps DEF ReadExpiring

LEMMA ReadRefusedInv ==
  ASSUME IndInv, NEW r \in Renewals, ReadRefused(r)
  PROVE  IndInv'
<1>1. aged' \in 0..issued
  BY DEF ReadRefused, IndInv, TypeOK, past
<1> QED BY <1>1, ReadKeeps DEF ReadRefused, past

(* Giving the lease up, at once or by leaving it to lapse. *)
LEMMA LockGiven ==
  ASSUME IndInv, NEW r \in Renewals, release(r) \/ Over(r)
  PROVE  \/ UNCHANGED lock
         \/ leaseBy = r /\ leaseBy' = None /\ leased' \in BOOLEAN
BY DEF IndInv, TypeOK, release, Over, lock

LEMMA AskInv ==
  ASSUME IndInv, NEW r \in Renewals, Ask(r)
  PROVE  IndInv'
<1>1. UNCHANGED <<github, row, lock, mounts, aged, adrift>> /\ ren[r].pc = "ask" /\ faults' \in 0..MaxFaults
  BY RefreshAssumption DEF Ask, Fault, IndInv, TypeOK
<1>2. ren[r].was \in 1..issued /\ ren[r].was \in 1..stored /\ ren[r].tries = 0 /\ ren[r].at \in Mounts
  BY <1>1 DEF IndInv, TypeOK, Local, Knows
<1>3. CASE Goto(r, "lease")
  <2>1. Local(r)' /\ Leased(r)'
    BY <1>1, <1>2, <1>3, GotoKeeps DEF Steps, Local, Leased, Knows, row
  <2> QED BY <1>1, <1>3, <2>1, GotoKeeps, Quiet DEF Steps, IndInv, TypeOK, mounts
<1>4. CASE Holding(r, ren[r].was)
  BY <1>1, <1>2, <1>4, HoldingKeeps, Quiet DEF IndInv, TypeOK, mounts
<1> QED BY <1>3, <1>4 DEF Ask

LEMMA LeaseHeldInv ==
  ASSUME IndInv, NEW r \in Renewals, LeaseHeld(r)
  PROVE  IndInv'
<1>1. ren[r].was \in 1..stored /\ ren[r].tries = 0 /\ ren[r].at \in Mounts
  BY DEF LeaseHeld, IndInv, Local, Knows
<1>2. Local(r)' /\ Leased(r)'
  BY <1>1, GotoKeeps DEF LeaseHeld, Steps, Local, Leased, Knows, row
<1> QED BY <1>2, GotoKeeps, Quiet DEF LeaseHeld, Steps, IndInv, TypeOK, mounts, past

LEMMA LeaseLooksInv ==
  ASSUME IndInv, NEW r \in Renewals, LeaseLooks(r)
  PROVE  IndInv'
<1>1. ren[r].was \in 1..stored /\ ren[r].tries = 0 /\ ren[r].at \in Mounts /\ ren[r].pc = "wait"
  BY DEF LeaseLooks, IndInv, Local, Knows
<1>2. CASE Goto(r, "lease")
  <2>1. Local(r)' /\ Leased(r)'
    BY <1>1, <1>2, GotoKeeps DEF LeaseLooks, Steps, Local, Leased, Knows, row
  <2> QED BY <1>1, <1>2, <2>1, GotoKeeps, Quiet DEF LeaseLooks, Steps, IndInv, TypeOK, mounts, past
<1>3. CASE Holding(r, stored)
  BY <1>1, <1>3, HoldingKeeps, Quiet DEF LeaseLooks, IndInv, TypeOK, mounts, past
<1>4. CASE Breaking(r)
  BY <1>1, <1>4, BreakingKeeps, Quiet DEF LeaseLooks, IndInv, TypeOK, mounts, past
<1> QED BY <1>2, <1>3, <1>4 DEF LeaseLooks

LEMMA LeaseGivesUpInv ==
  ASSUME IndInv, NEW r \in Renewals, LeaseGivesUp(r)
  PROVE  IndInv'
<1>1. ren' = [ren EXCEPT ![r] = Idle]
  BY DEF LeaseGivesUp, Over
<1> QED BY <1>1, IdleKeeps, LockGiven, Quiet DEF LeaseGivesUp, IndInv, TypeOK, mounts, past

(* The lease is only free when no pair is being replaced under it. *)
LEMMA leaseInv ==
  ASSUME IndInv, NEW r \in Renewals, lease(r)
  PROVE  IndInv'
<1> USE DEF IndInv
<1>1. /\ ren[r].was \in 1..stored /\ ren[r].tries = 0 /\ ren[r].at \in Mounts /\ ren[r].pc = "lease"
      /\ ~leased /\ leaseBy' = r /\ leased' = TRUE
      /\ UNCHANGED <<github, row, mounts, past>>
  BY DEF lease, Local, Knows
<1>2. PICK x \in Renewal : ren' = [ren EXCEPT ![r] = x]
  BY GotoKeeps DEF lease, Steps
<1>3. /\ ren'[r].pc = "reread" /\ ren'[r].at = ren[r].at /\ ren'[r].was = ren[r].was
      /\ ren'[r].tries = ren[r].tries
  BY GotoKeeps DEF lease, Steps
<1>4. \A q \in Renewals : q # r => ren'[q] = ren[q]
  BY <1>2 DEF TypeOK
<1>5. TypeOK'
  <2>1. Renewal' = Renewal /\ ren' \in [Renewals -> Renewal]
    BY <1>1, <1>2 DEF TypeOK, Renewal, github
  <2> QED BY <1>1, <2>1 DEF TypeOK, github, row, mounts, past
<1>6. \A q \in Renewals : ~Holds(q)
  BY <1>1 DEF Holds
<1>7. Local(r)' /\ Leased(r)'
  BY <1>1, <1>3 DEF Local, Leased, Knows, Holds, row
<1>8. \A q \in Renewals : Local(q)' /\ Leased(q)'
  <2> SUFFICES ASSUME NEW q \in Renewals, q # r PROVE Local(q)' /\ Leased(q)'
    BY <1>7
  <2>1. ~Holds(q)'
    BY <1>1 DEF Holds
  <2>2. Local(q)'
    BY <1>1, <1>4 DEF Local, github, row, past
  <2>3. Leased(q)'
    BY <1>1, <1>4, <1>6, <2>1 DEF Leased, github, row, past
  <2> QED BY <2>2, <2>3
<1>9. BrokenIsDead' /\ StoredIsLive'
  BY <1>1, <1>6 DEF BrokenIsDead, StoredIsLive, Replacing, github, row, past
<1> QED BY <1>5, <1>8, <1>9

-----------------------------------------------------------------------------
(* The steps under the lease *)

LEMMA RereadInv ==
  ASSUME IndInv, NEW r \in Renewals, Reread(r)
  PROVE  IndInv'
<1>1. /\ ren[r].was \in 1..stored /\ ren[r].tries = 0 /\ ren[r].at \in Mounts /\ ren[r].pc = "reread"
      /\ UNCHANGED <<github, row, mounts, past>>
  BY DEF Reread, IndInv, Local, Knows
<1>2. CASE there /\ stored = ren[r].was /\ Goto(r, "trade") /\ UNCHANGED lock
  <2>1. ~Holds(r) => ren[r].was \in adrift
    BY <1>1, <1>2 DEF IndInv, Leased
  <2>2. Holds(r) => ren[r].was \in unspent \cup adrift
    BY <1>1, <1>2 DEF IndInv, StoredIsLive, Replacing, Holds
  <2>3. Local(r)'
    BY <1>1, <1>2, GotoKeeps DEF Steps, Local, Knows, row
  <2>4. Leased(r)'
    BY <1>1, <1>2, <2>1, <2>2, GotoKeeps DEF Steps, Leased, Holds, lock, github, row, past
  <2> QED BY <1>1, <1>2, <2>3, <2>4, GotoKeeps, Quiet DEF Steps, IndInv, TypeOK, mounts, past
<1>3. CASE Holding(r, stored) /\ release(r)
  BY <1>1, <1>3, HoldingKeeps, LockGiven, Quiet DEF IndInv, TypeOK, mounts, past
<1>4. CASE Breaking(r) /\ release(r)
  BY <1>1, <1>4, BreakingKeeps, LockGiven, Quiet DEF IndInv, TypeOK, mounts, past
<1> QED BY <1>2, <1>3, <1>4 DEF Reread

LEMMA RefuseInv ==
  ASSUME IndInv, NEW r \in Renewals, Refuse(r)
  PROVE  IndInv'
<1>1. /\ ren[r].was \in 1..stored /\ ren[r].tries = 0 /\ ren[r].at \in Mounts /\ ren[r].pc = "trade"
      /\ ren[r].was \notin unspent
  BY DEF Refuse, IndInv, Local, Knows
<1>2. Local(r)' /\ Leased(r)'
  BY <1>1, GotoKeeps DEF Refuse, Steps, Local, Leased, Knows, row, github
<1> QED BY <1>1, <1>2, GotoKeeps, Quiet DEF Refuse, Steps, IndInv, TypeOK, mounts, past

LEMMA RecheckInv ==
  ASSUME IndInv, NEW r \in Renewals, Recheck(r)
  PROVE  IndInv'
<1>1. /\ ren[r].was \in 1..stored /\ ren[r].tries = 0 /\ ren[r].at \in Mounts /\ ren[r].pc = "refused"
      /\ ren[r].was \notin unspent /\ UNCHANGED <<github, row, mounts, past>>
  BY DEF Recheck, IndInv, Local, Knows
<1>2. CASE Goto(r, "mark") /\ UNCHANGED lock
  <2>1. Local(r)' /\ Leased(r)'
    BY <1>1, <1>2, GotoKeeps DEF Steps, Local, Leased, Knows, row, github
  <2> QED BY <1>1, <1>2, <2>1, GotoKeeps, Quiet DEF Steps, IndInv, TypeOK, mounts, past
<1>3. CASE Holding(r, stored) /\ release(r)
  BY <1>1, <1>3, HoldingKeeps, LockGiven, Quiet DEF IndInv, TypeOK, mounts, past
<1> QED BY <1>2, <1>3 DEF Recheck

LEMMA LookAgainInv ==
  ASSUME IndInv, NEW r \in Renewals, LookAgain(r)
  PROVE  IndInv'
<1>1. CASE Holding(r, stored)
  BY <1>1, HoldingKeeps, Quiet DEF LookAgain, IndInv, TypeOK, mounts, past
<1>2. CASE Breaking(r)
  BY <1>2, BreakingKeeps, Quiet DEF LookAgain, IndInv, TypeOK, mounts, past
<1> QED BY <1>1, <1>2 DEF LookAgain

LEMMA KeepInv ==
  ASSUME IndInv, NEW r \in Renewals, Keep(r)
  PROVE  IndInv'
<1>1. /\ ren[r].at \in Mounts /\ ren[r].got \in 1..issued /\ ren[r].was \in 1..issued
  BY DEF Keep, IndInv, TypeOK, Local, Knows, Renewal
<1>2. ren' = [ren EXCEPT ![r] = Idle]
  BY DEF Keep, Over
<1>3. pair' \in [Mounts -> 1..issued] /\ mbroken' \in [Mounts -> BOOLEAN]
  BY <1>1 DEF Keep, IndInv, TypeOK
<1>4. adrift' \subseteq 1..issued /\ adrift \subseteq adrift' /\ ren[r].was \in adrift'
  BY <1>1 DEF Keep, IndInv, TypeOK
<1> QED BY <1>2, <1>3, <1>4, IdleKeeps, LockGiven, Quiet DEF Keep, IndInv, TypeOK

LEMMA WriteInv ==
  ASSUME IndInv, NEW r \in Renewals, Write(r)
  PROVE  IndInv'
<1>1. ren[r].at \in Mounts /\ ren[r].got \in 1..issued
  BY DEF Write, IndInv, Local
<1>2. ren' = [ren EXCEPT ![r] = Idle]
  BY DEF Write, Over
<1>3. pair' \in [Mounts -> 1..issued] /\ mbroken' \in [Mounts -> BOOLEAN]
  BY <1>1 DEF Write, IndInv, TypeOK
<1> QED BY <1>2, <1>3, IdleKeeps, LockGiven, Quiet DEF Write, IndInv, TypeOK, past

LEMMA BreakInv ==
  ASSUME IndInv, NEW r \in Renewals, Break(r)
  PROVE  IndInv'
<1>1. ren' = [ren EXCEPT ![r] = Idle]
  BY DEF Break, Over
<1>2. mbroken' \in [Mounts -> BOOLEAN]
  BY DEF Break, IndInv, TypeOK
<1> QED BY <1>1, <1>2, IdleKeeps, LockGiven, Quiet DEF Break, IndInv, TypeOK, past

LEMMA UnavailableInv ==
  ASSUME IndInv, NEW r \in Renewals, Unavailable(r)
  PROVE  IndInv'
<1>1. ren[r].was \in 1..issued /\ ren[r].pc \in {"trade", "answered"}
  BY DEF Unavailable, IndInv, TypeOK, Local, Knows
<1>2. /\ adrift' \subseteq 1..issued /\ adrift \subseteq adrift'
      /\ ren[r].pc \in {"answered", "keep"} => ren[r].was \in adrift'
  BY <1>1 DEF Unavailable, IndInv, TypeOK
<1>3. faults' \in 0..MaxFaults
  BY RefreshAssumption DEF Unavailable, Fault, IndInv, TypeOK
<1> QED BY <1>2, <1>3, IdleKeeps, LockGiven, Quiet DEF Unavailable, IndInv, TypeOK, mounts

LEMMA DiesInv ==
  ASSUME IndInv, NEW r \in Renewals, Dies(r)
  PROVE  IndInv'
<1>1. ren[r].pc \in {"trade", "answered", "keep"} => ren[r].was \in 1..issued
  BY DEF Dies, IndInv, TypeOK, Local, Knows
<1>2. /\ adrift' \subseteq 1..issued /\ adrift \subseteq adrift'
      /\ ren[r].pc \in {"answered", "keep"} => ren[r].was \in adrift'
  BY <1>1 DEF Dies, IndInv, TypeOK
<1>3. faults' \in 0..MaxFaults
  BY RefreshAssumption DEF Dies, Fault, IndInv, TypeOK
<1>4. ren' = [ren EXCEPT ![r] = Idle]
  BY DEF Dies, Over
<1> QED BY <1>2, <1>3, <1>4, IdleKeeps, LockGiven, Quiet DEF Dies, IndInv, TypeOK, mounts

(* GitHub spends the token: another renewal's pair is not touched, unless  *)
(* the two had it in common, and then it was adrift.                       *)
LEMMA TradeInv ==
  ASSUME IndInv, NEW r \in Renewals, Trade(r)
  PROVE  IndInv'
<1> USE DEF IndInv
<1> DEFINE x == [ren[r] EXCEPT !.pc = "answered", !.got = issued + 1]
<1>1. /\ ren[r].was \in 1..stored /\ ren[r].tries = 0 /\ ren[r].at \in Mounts /\ ren[r].pc = "trade"
      /\ stored \in 1..issued /\ issued \in Nat /\ issued < MaxPairs /\ ren[r] \in Renewal
      /\ issued' = issued + 1 /\ unspent' = (unspent \ {ren[r].was}) \cup {issued + 1}
      /\ UNCHANGED <<row, lock, mounts, past>>
      /\ unspent \subseteq 1..issued /\ adrift \subseteq 1..issued
  BY DEF Trade, TypeOK, Local, Knows
<1>2. ren' = [ren EXCEPT ![r] = x]
  BY DEF Trade
<1>3. /\ ren'[r] = x
      /\ \A q \in Renewals : q # r => ren'[q] = ren[q]
  BY <1>2 DEF TypeOK
<1>4. x.pc = "answered" /\ x.got = issued + 1 /\ x.was = ren[r].was /\ x.at = ren[r].at /\ x.tries = ren[r].tries
  BY <1>1 DEF Renewal
<1>5. TypeOK'
  <2>1. Renewal \subseteq Renewal'
    BY <1>1 DEF Renewal
  <2>2. x \in Renewal'
    <3>1. issued + 1 \in 0..issued' /\ ren[r] \in Renewal'
      BY <1>1, <2>1
    <3> QED BY <3>1 DEF Renewal, Steps
  <2>3. ren' \in [Renewals -> Renewal']
    BY <1>2, <2>1, <2>2 DEF TypeOK
  <2>4. /\ issued' \in 1..MaxPairs /\ unspent' \subseteq 1..issued' /\ stored \in 1..issued'
        /\ adrift \subseteq 1..issued' /\ aged \in 0..issued'
    <3>1. MaxPairs \in Nat /\ aged \in 0..issued
      BY RefreshAssumption DEF TypeOK
    <3>2. issued' \in 1..MaxPairs
      BY <1>1, <3>1
    <3>3. 1..issued \subseteq 1..issued' /\ 0..issued \subseteq 0..issued' /\ issued + 1 \in 1..issued'
      BY <1>1
    <3> QED BY <1>1, <3>1, <3>2, <3>3
  <2>5. pair \in [Mounts -> 1..issued'] /\ hand \in [Mounts -> SUBSET (1..issued')]
    <3>1. 1..issued \subseteq 1..issued'
      BY <1>1
    <3> QED BY <3>1 DEF TypeOK
  <2> QED BY <1>1, <2>3, <2>4, <2>5 DEF TypeOK, row, lock, mounts, past
<1>6. \A q \in Renewals : Holds(q)' <=> Holds(q)
  BY <1>1 DEF Holds, lock
<1>7. RotateAttempts > 0
  BY RefreshAssumption
<1>8. Local(r)'
  BY <1>1, <1>3, <1>4, <1>7 DEF Local, Knows, row, past
<1>9. Leased(r)'
  BY <1>1, <1>3, <1>4, <1>6 DEF Leased, row, past
<1>10. ASSUME NEW q \in Renewals, q # r PROVE Local(q)'
  <2>1. ren[q].pc = "write" => ren[q].got \in 1..issued'
    BY <1>1 DEF Local
  <2>2. ren[q].pc \in {"answered", "keep"} /\ stored = ren[q].was => ren[q].got \in unspent' \cup adrift
    <3> SUFFICES ASSUME ren[q].pc \in {"answered", "keep"}, stored = ren[q].was, ren[q].got \notin adrift
                 PROVE  ren[q].got \in unspent'
      OBVIOUS
    <3>1. ren[q].got \in unspent /\ ren[q].got > stored
      BY DEF Local
    <3>2. ren[q].got # ren[r].was
      BY <1>1, <3>1
    <3> QED BY <1>1, <3>1, <3>2
  <2>3. ren[q].pc \in {"refused", "mark", "again"} => ren[q].was \notin unspent'
    BY <1>1 DEF Local, Knows
  <2> QED BY <1>1, <1>3, <1>10, <2>1, <2>2, <2>3 DEF Local, row, past
<1>11. ASSUME NEW q \in Renewals, q # r PROVE Leased(q)'
  <2>1. ren[q].pc = "trade" /\ Holds(q) => ren[q].was \in unspent' \cup adrift
    <3> SUFFICES ASSUME ren[q].pc = "trade", Holds(q), ren[q].was = ren[r].was
                 PROVE  ren[q].was \in adrift
      BY <1>1 DEF Leased
    <3>1. ~Holds(r)
      BY <1>11 DEF Holds
    <3> QED BY <1>1, <3>1 DEF Leased
  <2> QED BY <1>1, <1>3, <1>6, <1>11, <2>1 DEF Leased, row, past
<1>12. BrokenIsDead'
  BY <1>1 DEF BrokenIsDead, row
<1>13. StoredIsLive'
  <2> SUFFICES ASSUME there PROVE stored \in unspent' \cup adrift \/ \E q \in Renewals : Replacing(q)'
    BY <1>1 DEF StoredIsLive, row, past
  <2>1. CASE stored = ren[r].was /\ Holds(r)
    <3>1. Replacing(r)'
      BY <1>1, <1>3, <1>4, <1>6, <2>1 DEF Replacing, row
    <3> QED BY <3>1
  <2>2. CASE stored = ren[r].was /\ ~Holds(r)
    BY <1>1, <2>2 DEF Leased
  <2>3. CASE stored # ren[r].was /\ stored \in unspent \cup adrift
    BY <1>1, <2>3
  <2>4. CASE stored # ren[r].was /\ \E q \in Renewals : Replacing(q)
    <3>1. PICK q \in Renewals : Replacing(q)
      BY <2>4
    <3>2. q # r
      BY <1>1, <3>1 DEF Replacing
    <3>3. Replacing(q)'
      BY <1>1, <1>3, <1>6, <3>1, <3>2 DEF Replacing, row
    <3> QED BY <3>3
  <2> QED BY <2>1, <2>2, <2>3, <2>4 DEF StoredIsLive
<1> QED BY <1>5, <1>8, <1>9, <1>10, <1>11, <1>12, <1>13

(* The new pair lands on the connector: whoever else had the old one, with *)
(* the lease or without, had one that is adrift.                           *)
LEMMA Lands ==
  ASSUME IndInv, NEW r \in Renewals, NEW x \in Renewal,
         ren' = [ren EXCEPT ![r] = x],
         ren[r].pc = "answered", there, stored = ren[r].was,
         stored' = ren[r].got, broken' = FALSE, release(r),
         told' \subseteq Mounts,
         UNCHANGED <<github, there, pair, mbroken, hand, past>>,
         x.pc \in {"write", "answered", "keep"}, x.at = ren[r].at, x.got = ren[r].got,
         x.pc \in {"answered", "keep"} => x.was = ren[r].was,
         x.pc = "write" => x.tries = 0,
         x.pc = "answered" => x.tries < RotateAttempts
  PROVE  IndInv'
<1> USE DEF IndInv
<1>1. /\ ren[r].was \in 1..issued /\ ren[r].at \in Mounts /\ ren[r].got \in 1..issued
      /\ ren[r].got > ren[r].was /\ ren[r].got \in unspent \cup adrift
      /\ issued \in Nat
  BY DEF TypeOK, Local, Knows, Renewal
<1>2. /\ ren'[r] = x
      /\ \A q \in Renewals : q # r => ren'[q] = ren[q]
      /\ \A q \in Renewals : ren[q] \in Renewal
  BY DEF TypeOK
<1>3. TypeOK'
  <2>1. Renewal' = Renewal /\ ren' \in [Renewals -> Renewal]
    BY DEF TypeOK, Renewal, github
  <2> QED BY <1>1, <2>1 DEF TypeOK, github, past, release
<1>4. \A q \in Renewals : q # r => (Holds(q)' <=> Holds(q))
  BY RefreshAssumption DEF Holds, release
<1>5. Local(r)' /\ Leased(r)'
  BY <1>1, <1>2 DEF Local, Leased, Knows, github, past
<1>6. ASSUME NEW q \in Renewals, q # r PROVE Local(q)' /\ Leased(q)'
  <2>1. ren[q].pc \in Knows => ren[q].was \in 1..stored /\ ren[q].was < stored'
    BY <1>1, <1>2 DEF Local
  <2>2. Local(q)'
    BY <1>1, <1>2, <1>6, <2>1 DEF Local, github, past, Knows
  <2>3. ren[q].pc = "trade" /\ Holds(q) => ren[q].was \in adrift
    <3> SUFFICES ASSUME ren[q].pc = "trade", Holds(q), ren[q].was = stored PROVE ren[q].was \in adrift
      BY DEF Leased
    <3>1. ~Holds(r)
      BY <1>6 DEF Holds
    <3> QED BY <3>1 DEF Leased
  <2>4. Leased(q)'
    BY <1>1, <1>2, <1>4, <1>6, <2>1, <2>3 DEF Leased, github, past, Knows
  <2> QED BY <2>2, <2>4
<1>7. BrokenIsDead' /\ StoredIsLive'
  BY <1>1 DEF BrokenIsDead, StoredIsLive, github, past
<1> QED BY <1>3, <1>5, <1>6, <1>7

(* A write that does not land leaves the others what they have. *)
LEMMA Unlanded ==
  ASSUME IndInv, NEW r \in Renewals, NEW x \in Renewal,
         ren' = [ren EXCEPT ![r] = x],
         UNCHANGED <<github, row, lock, pair, mbroken, hand, past>>, told' \subseteq Mounts,
         Local(r)', Leased(r)',
         there => (Replacing(r) => Replacing(r)')
  PROVE  IndInv'
<1> USE DEF IndInv, github, row, lock, past
<1>1. /\ ren'[r] = x
      /\ \A q \in Renewals : q # r => ren'[q] = ren[q]
  BY DEF TypeOK
<1>2. TypeOK'
  <2>1. Renewal' = Renewal /\ ren' \in [Renewals -> Renewal]
    BY DEF TypeOK, Renewal
  <2> QED BY <2>1 DEF TypeOK
<1>3. \A q \in Renewals : Holds(q)' <=> Holds(q)
  BY DEF Holds
<1>4. ASSUME NEW q \in Renewals, q # r PROVE Local(q)' /\ Leased(q)' /\ (Replacing(q) => Replacing(q)')
  BY <1>1, <1>3, <1>4 DEF Local, Leased, Replacing
<1>5. BrokenIsDead' /\ StoredIsLive'
  <2>1. \A q \in Renewals : there /\ Replacing(q) => Replacing(q)'
    BY <1>4
  <2> QED BY <2>1 DEF BrokenIsDead, StoredIsLive
<1> QED BY <1>2, <1>4, <1>5

LEMMA StoreInv ==
  ASSUME IndInv, NEW r \in Renewals, Store(r)
  PROVE  IndInv'
<1>1. /\ ren[r].at \in Mounts /\ ren[r].got \in 1..issued /\ ren[r].pc = "answered"
      /\ ren \in [Renewals -> Renewal] /\ told' \subseteq Mounts
  BY DEF Store, IndInv, TypeOK, Local, Knows, Renewal
<1>2. CASE there /\ stored = ren[r].was
  <2> DEFINE x == [Idle EXCEPT !.pc = "write", !.at = ren[r].at, !.cur = ren[r].cur,
                               !.hurt = ren[r].hurt, !.got = ren[r].got]
  <2>1. ren[r].cur \in 0..issued /\ ren[r].hurt \in BOOLEAN /\ ren[r].got \in 0..issued
    BY <1>1 DEF Renewal
  <2>2. x \in Renewal
    BY <1>1, <2>1, IdleIsRenewal DEF IndInv, Renewal, Steps
  <2>3. x.pc = "write" /\ x.at = ren[r].at /\ x.got = ren[r].got /\ x.tries = 0
    BY DEF Idle
  <2>4. ren' = [ren EXCEPT ![r] = x]
    BY DEF Store, Holding
  <2>5. stored' = ren[r].got /\ broken' = FALSE /\ release(r)
    BY <1>2 DEF Store, rotate
  <2> QED BY <1>1, <1>2, <2>2, <2>3, <2>4, <2>5, Lands DEF Store
<1>3. CASE ~(there /\ stored = ren[r].was)
  <2>1. UNCHANGED <<github, row, lock>>
    BY <1>3 DEF Store, rotate, row
  <2>2. PICK x \in Renewal : ren' = [ren EXCEPT ![r] = x]
    BY <1>1, <2>1, HoldingKeeps DEF Store
  <2>3. Local(r)' /\ Leased(r)'
    BY <1>1, <2>1, HoldingKeeps DEF Store
  <2>4. there => ~Replacing(r)
    BY <1>3 DEF Replacing
  <2> QED BY <1>1, <2>1, <2>2, <2>3, <2>4, Unlanded DEF Store
<1> QED BY <1>2, <1>3

LEMMA StoreThrowsInv ==
  ASSUME IndInv, NEW r \in Renewals, StoreThrows(r)
  PROVE  IndInv'
<1> DEFINE step == IF ren[r].tries + 1 < RotateAttempts THEN "answered" ELSE "keep"
<1> DEFINE x == [ren[r] EXCEPT !.tries = @ + 1, !.pc = step]
<1>1. /\ ren[r] \in Renewal /\ ren[r].at \in Mounts /\ ren[r].pc = "answered"
      /\ ren[r].tries \in Nat /\ ren[r].tries < RotateAttempts /\ ren[r].was \in 1..stored
      /\ ren \in [Renewals -> Renewal] /\ RotateAttempts \in Nat
  BY RefreshAssumption DEF StoreThrows, IndInv, TypeOK, Local, Knows, Renewal
<1>2. x \in Renewal
  <2>1. ren[r].tries + 1 \in 0..RotateAttempts /\ step \in Steps
    BY <1>1 DEF Steps
  <2> QED BY <1>1, <2>1 DEF Renewal
<1>3. ren' = [ren EXCEPT ![r] = x]
  BY DEF StoreThrows
<1>4. /\ x.pc = step /\ x.at = ren[r].at /\ x.got = ren[r].got /\ x.was = ren[r].was
      /\ x.tries = ren[r].tries + 1
  BY <1>1 DEF Renewal
<1>5. ren'[r] = x
  BY <1>1, <1>3
<1>6. step \in {"answered", "keep"} /\ (step = "answered" => ren[r].tries + 1 < RotateAttempts)
  OBVIOUS
<1> HIDE DEF x, step
<1>7. CASE there /\ stored = ren[r].was /\ rotate(r)
  <2>1. stored' = ren[r].got /\ broken' = FALSE /\ release(r)
    BY <1>7 DEF rotate
  <2>2. told' \subseteq Mounts /\ UNCHANGED <<github, there, pair, mbroken, hand, past>>
    BY DEF StoreThrows, mounts, IndInv, TypeOK
  <2> QED BY <1>1, <1>2, <1>3, <1>4, <1>6, <1>7, <2>1, <2>2, Lands
<1>8. CASE UNCHANGED <<stored, broken, lock>>
  <2>1. UNCHANGED <<github, row, lock, pair, mbroken, hand, past>> /\ told' \subseteq Mounts
    BY <1>8 DEF StoreThrows, mounts, row, IndInv, TypeOK
  <2>2. Holds(r)' <=> Holds(r)
    BY <2>1 DEF Holds, lock
  <2>3. Local(r)'
    BY <1>1, <1>4, <1>5, <1>6, <2>1 DEF IndInv, Local, Knows, github, row, past
  <2>4. Leased(r)'
    BY <1>1, <1>4, <1>5, <1>6, <2>1, <2>2 DEF IndInv, Leased, row, past
  <2>5. Replacing(r) => Replacing(r)'
    BY <1>4, <1>5, <1>6, <2>1, <2>2 DEF Replacing, row
  <2> QED BY <1>2, <1>3, <2>1, <2>3, <2>4, <2>5, Unlanded
<1> QED BY <1>7, <1>8 DEF StoreThrows, rotate

(* The mark is put on the token GitHub refused, which is dead. *)
LEMMA markBrokenInv ==
  ASSUME IndInv, NEW r \in Renewals, markBroken(r)
  PROVE  IndInv'
<1>1. /\ ren[r].was \in 1..stored /\ ren[r].tries = 0 /\ ren[r].at \in Mounts /\ ren[r].pc = "mark"
      /\ ren[r].was \notin unspent /\ UNCHANGED <<github, stored, there, mounts, past>>
      /\ ren[r] \in Renewal /\ ren \in [Renewals -> Renewal]
  BY DEF markBroken, IndInv, TypeOK, Local, Knows
<1>2. CASE Goto(r, "again") /\ UNCHANGED <<broken, lock>>
  <2>1. UNCHANGED <<github, row>>
    BY <1>1, <1>2 DEF row
  <2>2. Local(r)' /\ Leased(r)'
    BY <1>1, <1>2, <2>1, GotoKeeps DEF Steps, Local, Leased, Knows, row, github
  <2> QED BY <1>1, <1>2, <2>1, <2>2, GotoKeeps, Quiet DEF Steps, IndInv, TypeOK, mounts, past
<1>3. CASE stored = ren[r].was /\ broken' = TRUE /\ release(r) /\ Breaking(r)
  <2> USE DEF IndInv
  <2> DEFINE x == [Idle EXCEPT !.pc = "break", !.at = ren[r].at, !.hurt = ren[r].hurt]
  <2>1. x \in Renewal
    BY <1>1, IdleIsRenewal, ZenonT(60) DEF Renewal, Idle, Steps
  <2>2. /\ ren' = [ren EXCEPT ![r] = x] /\ ren'[r] = x
        /\ \A q \in Renewals : q # r => ren'[q] = ren[q]
    BY <1>1, <1>3 DEF Breaking
  <2>3. x.pc = "break" /\ x.at = ren[r].at /\ x.tries = 0
    BY DEF Idle
  <2> HIDE DEF x
  <2>4. TypeOK'
    <3>1. Renewal' = Renewal /\ ren' \in [Renewals -> Renewal]
      BY <1>1, <2>1, <2>2 DEF Renewal, github
    <3> QED BY <1>1, <1>3, <3>1 DEF TypeOK, github, mounts, past, release
  <2>5. \A q \in Renewals : q # r => (Holds(q)' <=> Holds(q))
    BY <1>3, RefreshAssumption DEF Holds, release
  <2>6. Local(r)' /\ Leased(r)'
    BY <1>1, <2>2, <2>3 DEF Local, Leased, Knows
  <2>7. ASSUME NEW q \in Renewals, q # r PROVE Local(q)' /\ Leased(q)' /\ (Replacing(q) => Replacing(q)')
    BY <1>1, <2>2, <2>5, <2>7 DEF Local, Leased, Replacing, github, past
  <2>8. BrokenIsDead'
    BY <1>1, <1>3 DEF BrokenIsDead, github
  <2>9. StoredIsLive'
    <3>1. ~Replacing(r)
      BY <1>1 DEF Replacing
    <3> QED BY <1>1, <2>7, <3>1 DEF StoredIsLive, github, past
  <2> QED BY <2>4, <2>6, <2>7, <2>8, <2>9
<1> QED BY <1>2, <1>3 DEF markBroken

-----------------------------------------------------------------------------
(* People, GitHub and time *)

LEMMA ReconnectInv ==
  ASSUME IndInv, Reconnect
  PROVE  IndInv'
<1> USE DEF IndInv
<1>1. /\ issued \in Nat /\ issued' = issued + 1 /\ issued < MaxPairs /\ MaxPairs \in Nat
      /\ unspent' = unspent \cup {issued + 1} /\ stored' = issued + 1 /\ broken' = FALSE
      /\ leaseBy' = None /\ leased' = FALSE
      /\ UNCHANGED <<there, pair, mbroken, told, ren, past>>
      /\ stored \in 1..issued /\ 1..issued \subseteq 1..issued' /\ 0..issued \subseteq 0..issued'
  BY RefreshAssumption DEF Reconnect, TypeOK
<1>2. TypeOK'
  <2>1. Renewal \subseteq Renewal'
    BY <1>1 DEF Renewal
  <2>2. ren' \in [Renewals -> Renewal']
    BY <1>1, <2>1 DEF TypeOK
  <2>3. /\ issued' \in 1..MaxPairs /\ stored' \in 1..issued' /\ unspent' \subseteq 1..issued'
        /\ adrift' \subseteq 1..issued' /\ aged' \in 0..issued' /\ faults' \in 0..MaxFaults
    BY <1>1 DEF TypeOK, past
  <2>4. pair' \in [Mounts -> 1..issued']
    BY <1>1 DEF TypeOK
  <2>5. hand' \in [Mounts -> SUBSET (1..issued')]
    <3>1. hand \in [Mounts -> SUBSET (1..issued)] /\ issued + 1 \in 1..issued'
      BY <1>1 DEF TypeOK
    <3> QED BY <1>1, <3>1 DEF Reconnect
  <2> QED BY <1>1, <2>2, <2>3, <2>4, <2>5 DEF TypeOK
<1>3. ASSUME NEW r \in Renewals PROVE Local(r)' /\ Leased(r)'
  <2>1. ren[r].pc \in Knows => ren[r].was \in 1..stored /\ ren[r].was # stored'
    BY <1>1 DEF Local
  <2>2. ~Holds(r)'
    BY <1>1 DEF Holds
  <2>3. Local(r)'
    BY <1>1, <2>1 DEF Local, Knows
  <2>4. Leased(r)'
    BY <1>1, <2>1, <2>2 DEF Leased, Knows
  <2> QED BY <2>3, <2>4
<1>4. BrokenIsDead' /\ StoredIsLive'
  BY <1>1 DEF BrokenIsDead, StoredIsLive
<1> QED BY <1>2, <1>3, <1>4

LEMMA HandInv ==
  ASSUME IndInv, NEW m \in Mounts, NEW p \in 1..issued, Hand(m, p)
  PROVE  IndInv'
<1> USE DEF IndInv
<1>1. UNCHANGED <<github, row, lock, ren, past>> /\ told' = told
  BY DEF Hand
<1>2. TypeOK'
  <2>1. Renewal' = Renewal
    BY <1>1 DEF Renewal, github
  <2>2. pair' \in [Mounts -> 1..issued] /\ mbroken' \in [Mounts -> BOOLEAN]
    BY DEF Hand, TypeOK
  <2>3. hand' \in [Mounts -> SUBSET (1..issued)]
    BY DEF Hand, TypeOK
  <2> QED BY <1>1, <2>1, <2>2, <2>3 DEF TypeOK, github, row, lock, past
<1>3. \A r \in Renewals : Local(r)' /\ Leased(r)' /\ (Replacing(r)' <=> Replacing(r))
  BY <1>1 DEF Local, Leased, Holds, Replacing, github, row, lock, past
<1> QED BY <1>1, <1>2, <1>3 DEF BrokenIsDead, StoredIsLive, github, row, past

LEMMA RevokeInv ==
  ASSUME IndInv, Revoke
  PROVE  IndInv'
<1> USE DEF IndInv
<1>1. /\ UNCHANGED <<issued, row, lock, mounts, ren, aged, faults>>
      /\ unspent' = {} /\ adrift' = adrift \cup unspent
  BY DEF Revoke
<1>2. TypeOK'
  <2>1. Renewal' = Renewal
    BY <1>1 DEF Renewal
  <2> QED BY <1>1, <2>1 DEF TypeOK, row, lock, mounts
<1>3. \A r \in Renewals : Local(r)' /\ Leased(r)' /\ (Replacing(r)' <=> Replacing(r))
  BY <1>1 DEF Local, Leased, Holds, Replacing, row, lock
<1> QED BY <1>1, <1>2, <1>3 DEF BrokenIsDead, StoredIsLive, row

LEMMA DisconnectInv ==
  ASSUME IndInv, Disconnect
  PROVE  IndInv'
<1> USE DEF IndInv
<1>1. UNCHANGED <<github, stored, broken, lock, mounts, ren, past>> /\ there' = FALSE
  BY DEF Disconnect
<1>2. TypeOK'
  <2>1. Renewal' = Renewal
    BY <1>1 DEF Renewal, github
  <2> QED BY <1>1, <2>1 DEF TypeOK, github, lock, mounts, past
<1>3. \A r \in Renewals : Local(r)' /\ Leased(r)'
  BY <1>1 DEF Local, Leased, Holds, github, lock, past
<1> QED BY <1>1, <1>2, <1>3 DEF BrokenIsDead, StoredIsLive, github, past

(* What was held when the lease ran out is adrift. *)
LEMMA LeaseLapsesInv ==
  ASSUME IndInv, LeaseLapses
  PROVE  IndInv'
<1> USE DEF IndInv
<1>1. /\ UNCHANGED <<github, row, leaseBy, mounts, ren, aged, faults>>
      /\ leased' = FALSE /\ adrift \subseteq adrift'
      /\ \A r \in Renewals : leaseBy = r => stored \in adrift'
      /\ adrift' \subseteq 1..issued
  BY RefreshAssumption DEF LeaseLapses, TypeOK
<1>2. TypeOK'
  <2>1. Renewal' = Renewal
    BY <1>1 DEF Renewal, github
  <2> QED BY <1>1, <2>1 DEF TypeOK, github, row, mounts
<1>3. \A r \in Renewals : Local(r)' /\ Leased(r)'
  BY <1>1 DEF Local, Leased, Holds, github, row
<1>4. StoredIsLive'
  BY <1>1 DEF StoredIsLive, Replacing, Holds, github, row
<1> QED BY <1>1, <1>2, <1>3, <1>4 DEF BrokenIsDead, github, row

LEMMA NextInv == IndInv /\ [Next]_vars => IndInv'
<1> SUFFICES ASSUME IndInv, [Next]_vars PROVE IndInv'
  OBVIOUS
<1>1. ASSUME NEW r \in Renewals, NEW m \in Mounts, NEW w \in Whys, Begin(r, m, w) PROVE IndInv'
  BY <1>1, BeginInv
<1>2. ASSUME NEW r \in Renewals, Step(r) PROVE IndInv'
  BY <1>2, ReadEndsInv, ReadExpiringInv, ReadRefusedInv, ReadFreshInv, AskInv, leaseInv, LeaseHeldInv,
     LeaseLooksInv, LeaseGivesUpInv, RereadInv, TradeInv, RefuseInv, StoreInv, KeepInv, RecheckInv,
     markBrokenInv, LookAgainInv, WriteInv, BreakInv DEF Step
<1>3. ASSUME NEW r \in Renewals, Fails(r) PROVE IndInv'
  BY <1>3, UnavailableInv, StoreThrowsInv, DiesInv DEF Fails
<1>4. CASE Around
  BY <1>4, ReconnectInv, HandInv, RevokeInv, DisconnectInv, LeaseLapsesInv DEF Around
<1>5. CASE UNCHANGED vars
  <2> USE DEF vars, github, row, lock, mounts, past
  <2>1. Renewal' = Renewal
    BY <1>5 DEF Renewal
  <2>2. TypeOK'
    BY <1>5, <2>1 DEF IndInv, TypeOK
  <2>3. \A r \in Renewals : Local(r)' /\ Leased(r)' /\ (Replacing(r)' <=> Replacing(r))
    BY <1>5 DEF IndInv, Local, Leased, Holds, Replacing
  <2> QED BY <1>5, <2>2, <2>3 DEF IndInv, BrokenIsDead, StoredIsLive
<1> QED BY <1>1, <1>2, <1>3, <1>4, <1>5 DEF Next

LEMMA Inductive == Spec => []IndInv
BY InitInv, NextInv, PTL DEF Spec

-----------------------------------------------------------------------------
(* The theorems *)

(* Every reachable state is well typed, the attempts to store a pair       *)
(* within ROTATE_ATTEMPTS.                                                 *)
THEOREM TypeCorrect == Spec => []TypeOK
<1>1. IndInv => TypeOK
  BY DEF IndInv
<1> QED BY <1>1, Inductive, PTL

(* The connector is marked broken only over a refresh token that GitHub    *)
(* takes no more (markBroken's `spent').                                   *)
THEOREM MarkedWhenDead == Spec => []BrokenIsDead
<1>1. IndInv => BrokenIsDead
  BY DEF IndInv
<1> QED BY <1>1, Inductive, PTL

(* No renewal under a lease that holds trades a token already traded,      *)
(* unless that trade outlived its lease or died (renewConnector's lease    *)
(* and its second read).                                                   *)
THEOREM NeverTradedTwice == Spec => []TradesLive
<1>1. IndInv => TradesLive
  BY DEF IndInv, TradesLive, Leased, Holds
<1> QED BY <1>1, Inductive, PTL

(* Every step of the renewals is a step of Connection, or none. *)
LEMMA ConnStep == IndInv /\ [Next]_vars => [C!ConnNext]_C!cvars
<1> SUFFICES ASSUME IndInv, [Next]_vars PROVE C!ConnNext \/ UNCHANGED <<stored, broken, issued, unspent>>
  BY DEF C!cvars
<1> USE DEF github, row
<1>1. ASSUME NEW r \in Renewals, rotate(r), UNCHANGED github, ren[r].pc = "answered"
      PROVE  C!ConnNext \/ UNCHANGED <<stored, broken, issued, unspent>>
  <2>1. CASE there /\ stored = ren[r].was
    <3>1. ren[r].got \in 1..issued /\ ren[r].got > stored /\ stored \in 1..issued /\ issued \in Nat
      BY <1>1, <2>1 DEF IndInv, TypeOK, Local, Renewal
    <3>2. stored' \in (stored + 1)..issued /\ broken' = FALSE /\ issued' = issued /\ unspent' = unspent
      BY <1>1, <2>1, <3>1 DEF rotate
    <3> QED BY <3>2 DEF C!ConnNext, C!KeepNewer
  <2>2. CASE ~(there /\ stored = ren[r].was)
    BY <1>1, <2>2 DEF rotate
  <2> QED BY <2>1, <2>2
<1>2. ASSUME NEW r \in Renewals, Trade(r) PROVE C!ConnNext
  BY <1>2 DEF Trade, C!ConnNext, C!Spend
<1>3. ASSUME NEW r \in Renewals, Store(r) PROVE C!ConnNext \/ UNCHANGED <<stored, broken, issued, unspent>>
  BY <1>1, <1>3 DEF Store
<1>4. ASSUME NEW r \in Renewals, StoreThrows(r) PROVE C!ConnNext \/ UNCHANGED <<stored, broken, issued, unspent>>
  BY <1>1, <1>4 DEF StoreThrows
<1>5. ASSUME NEW r \in Renewals, markBroken(r) PROVE C!ConnNext \/ UNCHANGED <<stored, broken, issued, unspent>>
  BY <1>5 DEF markBroken, IndInv, Local, C!ConnNext, C!Break
<1>6. CASE Reconnect
  BY <1>6 DEF Reconnect, C!ConnNext, C!Authorize
<1>7. CASE Revoke
  BY <1>7 DEF Revoke, C!ConnNext, C!Withdraw
<1>8. ASSUME NEW r \in Renewals, NEW m \in Mounts, NEW w \in Whys, Begin(r, m, w)
      PROVE  UNCHANGED <<stored, broken, issued, unspent>>
  BY <1>8 DEF Begin
<1>9. ASSUME NEW r \in Renewals,
             \/ ReadEnds(r) \/ ReadExpiring(r) \/ ReadRefused(r) \/ ReadFresh(r) \/ Ask(r)
             \/ lease(r) \/ LeaseHeld(r) \/ LeaseLooks(r) \/ LeaseGivesUp(r) \/ Reread(r)
             \/ Refuse(r) \/ Keep(r) \/ Recheck(r) \/ LookAgain(r) \/ Write(r) \/ Break(r)
             \/ Unavailable(r) \/ Dies(r)
      PROVE  UNCHANGED <<stored, broken, issued, unspent>>
  BY <1>9 DEF ReadEnds, ReadExpiring, ReadRefused, ReadFresh, Ask, lease, LeaseHeld, LeaseLooks,
     LeaseGivesUp, Reread, Refuse, Keep, Recheck, LookAgain, Write, Break, Unavailable, Dies
<1>10. CASE Disconnect \/ LeaseLapses \/ \E m \in Mounts, p \in 1..issued : Hand(m, p)
  BY <1>10 DEF Disconnect, LeaseLapses, Hand
<1>11. CASE UNCHANGED vars
  BY <1>11 DEF vars
<1>12. ASSUME NEW r \in Renewals, Step(r) \/ Fails(r)
       PROVE  C!ConnNext \/ UNCHANGED <<stored, broken, issued, unspent>>
  BY <1>2, <1>3, <1>4, <1>5, <1>9, <1>12 DEF Step, Fails
<1>13. CASE Around
  BY <1>6, <1>7, <1>10, <1>13 DEF Around
<1> QED BY <1>8, <1>11, <1>12, <1>13 DEF Next

(* The connector's row, with its lease, its conditional writes and the     *)
(* agents that race for it, implements Connection (d1ConnectorGrants).     *)
THEOREM Refinement == Spec => ImplementsConnection
<1>1. Init => C!ConnInit
  BY DEF Init, C!ConnInit
<1> QED BY <1>1, ConnStep, Inductive, PTL DEF Spec, ImplementsConnection, C!ConnSpec

-----------------------------------------------------------------------------
(* Who trades, and who is asked *)

(* A renewal that has read the connector under its lease and has yet to    *)
(* store what it trades, or is storing it.                                 *)
Trading(r) == ren[r].pc \in {"trade", "answered", "keep"}

(* Of the renewals that race for one pair, one at most trades it, unless   *)
(* an earlier trade of it was cut short or outlived its lease.             *)
OneTrader ==
  \A r, s \in Renewals :
    (Trading(r) /\ Trading(s) /\ ren[r].was = stored /\ ren[s].was = stored /\ stored \notin adrift)
      => r = s

(* While the connector exists, the pair it keeps is one GitHub takes, or   *)
(* the renewal that spent it still holds the lease and its successor; else *)
(* a trade of it was cut short. Of the renewals that race for it, one at   *)
(* most trades it: renewConnector's lease, its second read and rotate.     *)
THEOREM Succession == Spec => [](StoredIsLive /\ OneTrader)
<1>1. IndInv => StoredIsLive /\ OneTrader
  <2> SUFFICES ASSUME IndInv PROVE OneTrader
    BY DEF IndInv
  <2>1. \A r \in Renewals : Trading(r) /\ ren[r].was = stored /\ stored \notin adrift => leaseBy = r
    BY DEF IndInv, Leased, Trading, Holds
  <2> QED BY <2>1 DEF OneTrader
<1> QED BY <1>1, Inductive, PTL

(* A step in which nothing is lost between GitHub and D1: the person does  *)
(* not withdraw the authorization, no lease lapses under its holder, and a *)
(* renewal that may have spent the pair neither dies, nor goes without an  *)
(* answer, nor fails all its attempts to store the next. Everything else   *)
(* may still go wrong: reads and questions that fail, writes that throw    *)
(* and are tried again, deaths before the trade, 401s for good tokens,     *)
(* disconnects, and any race.                                              *)
Lossless ==
  /\ ~Revoke
  /\ ~(LeaseLapses /\ leaseBy # None)
  /\ \A r \in Renewals :
       /\ ~Keep(r)
       /\ ~(ren[r].pc = "answered" /\ Unavailable(r))
       /\ ~(Trading(r) /\ Dies(r))

(* What a refused renewal knows by now: its pair is no longer the one      *)
(* kept. One that gives up has met a disconnected connector.               *)
Superseded(r) ==
  /\ ren[r].pc \in {"refused", "mark", "again"} => ren[r].was # stored
  /\ ren[r].pc = "break" => ~there

(* Nobody is asked to connect again: neither the connector's mark nor, of  *)
(* a connector that exists, a mount's is up.                               *)
NobodyAsked == ~broken /\ (there => \A m \in Mounts : ~mbroken[m])

Undisturbed == adrift = {} /\ NobodyAsked /\ \A r \in Renewals : Superseded(r)

FineInv == IndInv /\ Undisturbed

(* A lossless step sets nothing adrift. *)
LEMMA NothingLost ==
  ASSUME IndInv, [Next]_vars, Lossless
  PROVE  adrift' = adrift
<1>1. ASSUME NEW r \in Renewals, Step(r) \/ Fails(r) PROVE adrift' = adrift
  <2>1. CASE Unavailable(r)
    BY <2>1 DEF Unavailable, Lossless
  <2>2. CASE Dies(r)
    BY <2>2 DEF Dies, Lossless, Trading
  <2>3. CASE Keep(r)
    BY <2>3 DEF Lossless
  <2> QED
    BY <1>1, <2>1, <2>2, <2>3 DEF Step, Fails, ReadEnds, ReadExpiring, ReadRefused, ReadFresh, Ask,
       lease, LeaseHeld, LeaseLooks, LeaseGivesUp, Reread, Trade, Refuse, Store, StoreThrows, Recheck,
       markBroken, LookAgain, Write, Break, past
<1>2. CASE Around
  BY <1>2 DEF Around, Reconnect, Hand, Disconnect, LeaseLapses, Lossless, past
<1>3. ASSUME NEW r \in Renewals, NEW m \in Mounts, NEW w \in Whys, Begin(r, m, w) PROVE adrift' = adrift
  BY <1>3 DEF Begin, past
<1> QED BY <1>1, <1>2, <1>3 DEF Next, vars, past

(* The connector's pair only moves on, and a connector that is gone stays  *)
(* gone.                                                                   *)
LEMMA MovesOn ==
  ASSUME IndInv, [Next]_vars
  PROVE  /\ stored \in Nat /\ stored' \in Nat /\ stored' >= stored
         /\ there' => there
<1>1. stored \in Nat /\ stored' \in Nat /\ issued \in Nat /\ stored <= issued
  BY NextInv DEF IndInv, TypeOK
<1>2. stored' >= stored
  <2>1. [C!ConnNext]_C!cvars
    BY ConnStep
  <2> QED BY <1>1, <2>1 DEF C!ConnNext, C!Spend, C!KeepNewer, C!Break, C!Authorize, C!Withdraw, C!cvars
<1>3. ASSUME NEW r \in Renewals, Step(r) \/ Fails(r) PROVE there' = there
  BY <1>3 DEF Step, Fails, ReadEnds, ReadExpiring, ReadRefused, ReadFresh, Ask,
     lease, LeaseHeld, LeaseLooks, LeaseGivesUp, Reread, Trade, Refuse, Store, StoreThrows, Keep, Recheck,
     markBroken, LookAgain, Write, Break, Unavailable, Dies, row
<1>4. ASSUME Around PROVE there' => there
  <2>1. CASE Disconnect
    BY <2>1 DEF Disconnect
  <2>2. CASE ~Disconnect
    <3>1. there' = there
      BY <1>4, <2>2 DEF Around, Reconnect, Hand, Revoke, LeaseLapses, row
    <3> QED BY <3>1
  <2> QED BY <2>1, <2>2
<1>5. ASSUME NEW r \in Renewals, NEW m \in Mounts, NEW w \in Whys, Begin(r, m, w) PROVE there' = there
  BY <1>5 DEF Begin, row
<1>6. there' => there
  BY <1>3, <1>4, <1>5 DEF Next, vars, row
<1> QED BY <1>1, <1>2, <1>6

(* A step is one renewal's, and the others are where they were. *)
LEMMA OthersStand ==
  ASSUME IndInv, NEW r \in Renewals,
         Step(r) \/ Fails(r) \/ \E m \in Mounts, w \in Whys : Begin(r, m, w)
  PROVE  \A s \in Renewals : s # r => ren'[s] = ren[s]
<1>1. \E x : ren' = [ren EXCEPT ![r] = x]
  <2>1. CASE \E m \in Mounts, w \in Whys : Begin(r, m, w)
    BY <2>1 DEF Begin
  <2>2. CASE Step(r)
    BY <2>2 DEF Step, ReadEnds, ReadExpiring, ReadRefused, ReadFresh, Ask, lease, LeaseHeld, LeaseLooks,
       LeaseGivesUp, Reread, Trade, Refuse, Store, Keep, Recheck, markBroken, LookAgain, Write, Break,
       Goto, Holding, Breaking, Over
  <2>3. CASE Fails(r)
    BY <2>3 DEF Fails, Unavailable, StoreThrows, Dies, Over
  <2> QED BY <2>1, <2>2, <2>3
<1> QED BY <1>1 DEF IndInv, TypeOK

(* Where the ways on leave a renewal. *)
LEMMA WaysOn ==
  ASSUME IndInv, NEW r \in Renewals
  PROVE  /\ \A p : Holding(r, p) => ren'[r].pc = "write"
         /\ Breaking(r) => ren'[r].pc = "break"
         /\ ren' = [ren EXCEPT ![r] = Idle] => ren'[r].pc = "idle"
         /\ \A step : Goto(r, step) => ren'[r].pc = step /\ ren'[r].was = ren[r].was
<1>1. ren \in [Renewals -> Renewal] /\ ren[r] \in Renewal
  BY DEF IndInv, TypeOK
<1>2. \A p : Holding(r, p) => ren'[r].pc = "write"
  BY <1>1 DEF Holding, Idle
<1>3. Breaking(r) => ren'[r].pc = "break"
  BY <1>1 DEF Breaking, Idle
<1>4. ren' = [ren EXCEPT ![r] = Idle] => ren'[r].pc = "idle"
  BY <1>1 DEF Idle
<1>5. \A step : Goto(r, step) => ren'[r].pc = step /\ ren'[r].was = ren[r].was
  BY <1>1 DEF Goto, Renewal
<1> QED BY <1>2, <1>3, <1>4, <1>5

(* While nothing is lost a renewal is refused only over a pair that was    *)
(* replaced under it, and marks and breaks nothing.                        *)
LEMMA SupersededStep ==
  ASSUME FineInv, NEW r \in Renewals,
         Step(r) \/ Fails(r) \/ \E m \in Mounts, w \in Whys : Begin(r, m, w)
  PROVE  /\ Superseded(r)'
         /\ ~broken'
         /\ \A m \in Mounts : mbroken'[m] => mbroken[m] \/ ~there
<1> USE DEF FineInv, Undisturbed, NobodyAsked
<1>0. [Next]_vars /\ stored' >= stored /\ stored' \in Nat /\ stored \in Nat /\ (there' => there)
  <2>1. Next
    BY DEF Next
  <2> QED BY <2>1, MovesOn
<1>1. ren \in [Renewals -> Renewal] /\ ren[r] \in Renewal
  BY DEF IndInv, TypeOK
<1>2. ren[r].pc \in Knows => ren[r].was \in Nat /\ ren[r].was <= stored
  BY <1>0 DEF IndInv, Local
<1>3. ASSUME ren'[r].pc \notin {"refused", "mark", "again", "break"} PROVE Superseded(r)'
  BY <1>3 DEF Superseded
<1>4. ASSUME ren'[r].pc = "break", ~there PROVE Superseded(r)'
  BY <1>0, <1>4 DEF Superseded
<1>5. ASSUME ren[r].pc \in Knows, ren[r].was # stored, ren'[r].was = ren[r].was, ren'[r].pc # "break"
      PROVE  Superseded(r)'
  BY <1>0, <1>2, <1>5 DEF Superseded
<1>6. CASE \E m \in Mounts, w \in Whys : Begin(r, m, w)
  <2>1. ren'[r].pc = "read" /\ broken' = broken /\ mbroken' = mbroken
    BY <1>1, <1>6 DEF Begin, Idle, row, mounts
  <2> QED BY <1>3, <2>1
<1>7. CASE ReadEnds(r)
  BY <1>4, <1>7, WaysOn DEF ReadEnds, row, mounts
<1>8. CASE ReadExpiring(r) \/ ReadRefused(r)
  <2>1. ren'[r].pc \in {"lease", "ask"}
    BY <1>1, <1>8 DEF ReadExpiring, ReadRefused, Renewal
  <2> QED BY <1>3, <1>8, <2>1 DEF ReadExpiring, ReadRefused, row, mounts
<1>9. CASE ReadFresh(r) \/ Ask(r) \/ lease(r) \/ LeaseHeld(r)
  BY <1>3, <1>9, WaysOn DEF ReadFresh, Ask, lease, LeaseHeld, row, mounts
<1>10. CASE LeaseLooks(r)
  BY <1>3, <1>4, <1>10, WaysOn DEF LeaseLooks, row, mounts
<1>11. CASE LeaseGivesUp(r)
  BY <1>3, <1>11, WaysOn DEF LeaseGivesUp, Over, row, mounts
<1>12. CASE Reread(r)
  BY <1>3, <1>4, <1>12, WaysOn DEF Reread, row, mounts
<1>13. CASE Trade(r)
  <2>1. ren'[r].pc = "answered"
    BY <1>1, <1>13 DEF Trade, Renewal
  <2> QED BY <1>3, <1>13, <2>1 DEF Trade, row, mounts
<1>14. CASE Refuse(r)
  <2>1. ren[r].was # stored
    BY <1>14 DEF Refuse, IndInv, Leased, Holds
  <2>2. ren'[r].pc = "refused" /\ ren'[r].was = ren[r].was
    BY <1>14, WaysOn DEF Refuse
  <2>3. Superseded(r)'
    BY <1>5, <1>14, <2>1, <2>2 DEF Refuse, Knows
  <2> QED BY <1>14, <2>3 DEF Refuse, row, mounts
<1>15. CASE Recheck(r)
  <2>1. ren[r].was # stored
    BY <1>15 DEF Recheck, Superseded
  <2>2. Superseded(r)'
    BY <1>3, <1>5, <1>15, <2>1, WaysOn DEF Recheck, Knows
  <2> QED BY <1>15, <2>2 DEF Recheck, row, mounts
<1>16. CASE markBroken(r)
  <2>1. ren[r].was # stored
    BY <1>16 DEF markBroken, Superseded
  <2>2. Goto(r, "again") /\ broken' = broken
    BY <1>16, <2>1 DEF markBroken
  <2>3. Superseded(r)'
    BY <1>5, <1>16, <2>1, <2>2, WaysOn DEF markBroken, Knows
  <2> QED BY <1>16, <2>2, <2>3 DEF markBroken, mounts
<1>17. CASE LookAgain(r)
  <2>1. ren[r].was # stored
    BY <1>17 DEF LookAgain, Superseded
  <2>2. Superseded(r)'
    BY <1>3, <1>4, <1>17, <2>1, WaysOn DEF LookAgain
  <2> QED BY <1>17, <2>2 DEF LookAgain, row, mounts
<1>18. CASE Store(r)
  <2>1. Superseded(r)'
    BY <1>3, <1>18, WaysOn DEF Store
  <2> QED BY <1>18, <2>1 DEF Store, rotate
<1>19. CASE StoreThrows(r)
  <2>1. ren'[r].pc \in {"answered", "keep"}
    BY <1>1, <1>19 DEF StoreThrows, Renewal
  <2> QED BY <1>3, <1>19, <2>1 DEF StoreThrows, rotate, mounts
<1>20. CASE Write(r) \/ Keep(r)
  <2>1. Superseded(r)' /\ broken' = broken
    BY <1>3, <1>20, WaysOn DEF Write, Keep, Over, row
  <2>2. \A m \in Mounts : mbroken'[m] => mbroken[m]
    BY <1>20 DEF Write, Keep, IndInv, TypeOK
  <2> QED BY <2>1, <2>2
<1>21. CASE Break(r)
  <2>1. ~there
    BY <1>21 DEF Break, Superseded
  <2> QED BY <1>3, <1>21, <2>1, WaysOn DEF Break, Over, row
<1>22. CASE Unavailable(r) \/ Dies(r)
  BY <1>3, <1>22, WaysOn DEF Unavailable, Dies, Over, row, mounts
<1> QED
  BY <1>6, <1>7, <1>8, <1>9, <1>10, <1>11, <1>12, <1>13, <1>14, <1>15, <1>16, <1>17, <1>18, <1>19,
     <1>20, <1>21, <1>22 DEF Step, Fails

LEMMA FineKeeps ==
  ASSUME FineInv, [Next]_vars, [Lossless]_vars
  PROVE  FineInv'
<1> USE DEF FineInv, Undisturbed
<1>1. IndInv'
  BY NextInv
<1>2. /\ stored \in Nat /\ stored' \in Nat /\ stored' >= stored
      /\ there' => there
  BY MovesOn
<1>3. adrift' = {}
  BY NothingLost DEF vars, past
<1>4. ASSUME NEW s \in Renewals, ren'[s] = ren[s] PROVE Superseded(s)'
  <2>1. ren[s].pc \in {"refused", "mark", "again"} => ren[s].was \in Nat /\ ren[s].was < stored
    BY <1>2 DEF IndInv, Local, Knows, Superseded
  <2> QED BY <1>2, <1>4, <2>1 DEF Superseded
<1>5. ASSUME NEW r \in Renewals,
             Step(r) \/ Fails(r) \/ \E m \in Mounts, w \in Whys : Begin(r, m, w)
      PROVE  NobodyAsked' /\ \A s \in Renewals : Superseded(s)'
  <2>1. \A s \in Renewals : Superseded(s)'
    BY <1>4, <1>5, OthersStand, SupersededStep
  <2> QED BY <1>2, <1>5, <2>1, SupersededStep DEF NobodyAsked
<1>6. CASE Around
  <2>1. ren' = ren /\ ~broken'
    BY <1>6 DEF Around, Reconnect, Hand, Revoke, Disconnect, LeaseLapses, row, NobodyAsked
  <2>2. \A m \in Mounts : mbroken'[m] => mbroken[m]
    BY <1>6 DEF Around, Reconnect, Hand, Revoke, Disconnect, LeaseLapses, mounts, IndInv, TypeOK
  <2> QED BY <1>1, <1>2, <1>3, <1>4, <2>1, <2>2 DEF NobodyAsked
<1>7. CASE UNCHANGED vars
  BY <1>1, <1>3, <1>7 DEF vars, row, mounts, NobodyAsked, Superseded
<1> QED BY <1>1, <1>3, <1>5, <1>6, <1>7 DEF Next

(* Nobody is asked to connect again without a loss to blame: as long as no *)
(* authorization is withdrawn, no lease lapses under its holder and no     *)
(* renewal is cut off between GitHub's answer and D1's, neither the        *)
(* connector nor a mount of it is ever marked broken, however many agents  *)
(* race, however old the pairs they hold, and whatever else fails.         *)
THEOREM AskedForCause == Spec /\ [][Lossless]_vars => []NobodyAsked
<1>1. Init => FineInv
  <2>1. Init => Undisturbed
    BY DEF Init, Undisturbed, NobodyAsked, Superseded, Idle
  <2> QED BY <2>1, InitInv DEF FineInv
<1>2. FineInv /\ [Next]_vars /\ [Lossless]_vars => FineInv'
  BY FineKeeps
<1>3. FineInv => NobodyAsked
  BY DEF FineInv, Undisturbed
<1> QED BY <1>1, <1>2, <1>3, PTL DEF Spec
=============================================================================
