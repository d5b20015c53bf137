----------------------------- MODULE SiteProofs -----------------------------
(***************************************************************************)
(* Proofs about what a site keeps, SiteState: first the outbox of          *)
(* AlertDeliveryWorker, for every number of processes, slots, targets and  *)
(* alerts and every value of the bounds; then the image files of           *)
(* AlertEvidence, for any alerts, images and contents, any length of the   *)
(* cache and of the grace window, any number of attempts and failures.     *)
(*                                                                         *)
(* The transactions of AlertDeliveryStore fall into a few kinds of change  *)
(* of a row; each kind is shown once to preserve the inductive invariant,  *)
(* and each transaction is shown to be of its kind.                        *)
(***************************************************************************)
EXTENDS SiteState, FiniteSetTheorems, SequenceTheorems, TLAPS

(* The longest useful wait is a natural number. *)
LEMMA AgeCapNat == AgeCap \in Nat
<1>1. LowestPriority - 1 \in Nat /\ AgingTicks \in Nat
  BY StoreAssumption
<1>2. \A m, n \in Nat : m * n \in Nat
  OBVIOUS
<1> QED BY <1>1, <1>2 DEF AgeCap

LEMMA Constants ==
    /\ MaxAttempts \in Nat /\ MaxAttempts > 0
    /\ LeaseTicks \in Nat /\ LeaseTicks > 0
    /\ Lifetime \in Nat /\ Lifetime > 0
    /\ MaxDelay \in Nat
    /\ LeaseTicks \in 0 .. LeaseTicks
<1>1. LeaseTicks \in Nat
  BY StoreAssumption
<1> QED BY <1>1, StoreAssumption

(* Setting one column to a value of its type keeps a row well-formed. *)
LEMMA SetColumn ==
    ASSUME NEW r \in Row(Slot)
    PROVE  /\ \A x \in RowState : [r EXCEPT !.state = x] \in Row(Slot)
           /\ \A x \in -AgeCap .. MaxDelay : [r EXCEPT !.next = x] \in Row(Slot)
           /\ \A x \in 0 .. (MaxDelay + Lifetime) : [r EXCEPT !.expire = x] \in Row(Slot)
           /\ \A x \in 0 .. LeaseTicks : [r EXCEPT !.lease = x] \in Row(Slot)
           /\ \A x \in Slot \cup {NoToken} : [r EXCEPT !.token = x] \in Row(Slot)
           /\ \A x \in 0 .. MaxAttempts : [r EXCEPT !.attempts = x] \in Row(Slot)
           /\ \A x \in 0 .. MaxAttempts : [r EXCEPT !.failures = x] \in Row(Slot)
           /\ \A x \in BOOLEAN : [r EXCEPT !.inFlight = x] \in Row(Slot)
           /\ \A x \in BOOLEAN : [r EXCEPT !.everUnknown = x] \in Row(Slot)
<1>1. \A x \in RowState : [r EXCEPT !.state = x] \in Row(Slot)
  BY DEF Row
<1>2. \A x \in -AgeCap .. MaxDelay : [r EXCEPT !.next = x] \in Row(Slot)
  BY DEF Row
<1>3. \A x \in 0 .. (MaxDelay + Lifetime) : [r EXCEPT !.expire = x] \in Row(Slot)
  BY DEF Row
<1>4. \A x \in 0 .. LeaseTicks : [r EXCEPT !.lease = x] \in Row(Slot)
  BY DEF Row
<1>5. \A x \in Slot \cup {NoToken} : [r EXCEPT !.token = x] \in Row(Slot)
  BY DEF Row
<1>6. \A x \in 0 .. MaxAttempts : [r EXCEPT !.attempts = x] \in Row(Slot)
  BY DEF Row
<1>7. \A x \in 0 .. MaxAttempts : [r EXCEPT !.failures = x] \in Row(Slot)
  BY DEF Row
<1>8. \A x \in BOOLEAN : [r EXCEPT !.inFlight = x] \in Row(Slot)
  BY DEF Row
<1>9. \A x \in BOOLEAN : [r EXCEPT !.everUnknown = x] \in Row(Slot)
  BY DEF Row
<1> QED BY <1>1, <1>2, <1>3, <1>4, <1>5, <1>6, <1>7, <1>8, <1>9

(* The pieces the transactions share. *)
LEMMA UnleaseTyped ==
    ASSUME NEW r \in Row(Slot)
    PROVE  Unlease(r) \in Row(Slot)
<1>1. 0 \in 0 .. LeaseTicks /\ FALSE \in BOOLEAN /\ NoToken \in Slot \cup {NoToken}
  BY Constants
<1> DEFINE q == [r EXCEPT !.token = NoToken]
           w == [q EXCEPT !.lease = 0]
<1>2. q \in Row(Slot)
  BY <1>1, SetColumn
<1>3. w \in Row(Slot)
  BY <1>1, <1>2, SetColumn
<1>4. [w EXCEPT !.inFlight = FALSE] \in Row(Slot)
  BY <1>3, SetColumn
<1> QED BY <1>4 DEF Unlease

LEMMA SettleTyped ==
    ASSUME NEW r \in Row(Slot), NEW x \in Settled
    PROVE  Settle(r, x) \in Row(Slot)
<1>1. 0 \in 0 .. (MaxDelay + Lifetime) /\ 0 \in -AgeCap .. MaxDelay /\ x \in RowState
  BY Constants, AgeCapNat DEF RowState
<1> DEFINE u == Unlease(r)
           q == [u EXCEPT !.state = x]
           w == [q EXCEPT !.next = 0]
<1>2. q \in Row(Slot)
  BY <1>1, SetColumn, UnleaseTyped
<1>3. w \in Row(Slot)
  BY <1>1, <1>2, SetColumn
<1>4. [w EXCEPT !.expire = 0] \in Row(Slot)
  BY <1>1, <1>3, SetColumn
<1> QED BY <1>4 DEF Settle

LEMMA DiscloseTyped ==
    ASSUME NEW r \in Row(Slot)
    PROVE  Disclose(r) \in Row(Slot)
<1> DEFINE q == [r EXCEPT !.everUnknown = r.everUnknown \/ r.inFlight]
<1>1. (r.everUnknown \/ r.inFlight) \in BOOLEAN /\ FALSE \in BOOLEAN
  OBVIOUS
<1>2. q \in Row(Slot)
  BY <1>1, SetColumn
<1>3. [q EXCEPT !.inFlight = FALSE] \in Row(Slot)
  BY <1>1, <1>2, SetColumn
<1> QED BY <1>3 DEF Disclose

LEMMA PostponeTyped ==
    ASSUME NEW r \in Row(Slot), NEW delay \in 0 .. MaxDelay
    PROVE  Postpone(r, delay) \in Row(Slot)
<1>1. delay \in -AgeCap .. MaxDelay
  BY Constants, AgeCapNat
<1> QED BY <1>1, UnleaseTyped, SetColumn DEF Postpone

(* Every transaction takes a well-formed row to a well-formed row. *)
LEMMA InsertTyped ==
    ASSUME NEW r \in Row(Slot), NEW due \in 0 .. MaxDelay
    PROVE  InsertTarget(r, due) \in Row(Slot)
<1>1. Absent(due) \in Row(Slot)
  BY Constants, AgeCapNat DEF Absent, Row, RowState
<1> DEFINE q == [Absent(due) EXCEPT !.state = "pending"]
<1>2. q \in Row(Slot)
  BY <1>1, SetColumn DEF RowState
<1>3. due + Lifetime \in 0 .. (MaxDelay + Lifetime)
  BY Constants
<1>4. [q EXCEPT !.expire = due + Lifetime] \in Row(Slot)
  BY <1>2, <1>3, SetColumn
<1> QED BY <1>4 DEF InsertTarget

LEMMA ExpireTyped ==
    ASSUME NEW r \in Row(Slot)
    PROVE  ExpireStale(r) \in Row(Slot)
BY DiscloseTyped, SettleTyped DEF ExpireStale, Settled

LEMMA ClaimTyped ==
    ASSUME NEW r \in Row(Slot), NEW s \in Slot
    PROVE  Claim(r, s) \in Row(Slot)
<1> DEFINE d == Disclose(r)
           q == [d EXCEPT !.token = s]
<1>1. q \in Row(Slot)
  BY DiscloseTyped, SetColumn
<1>2. [q EXCEPT !.lease = LeaseTicks] \in Row(Slot)
  BY <1>1, Constants, SetColumn
<1> QED BY <1>2 DEF Claim

LEMMA BeginTyped ==
    ASSUME NEW r \in Row(Slot), NEW s \in Slot, NEW o \in BOOLEAN
    PROVE  BeginSend(r, s, o) \in Row(Slot)
<1>1. CASE Begins(r, s, o)
  <2> DEFINE q == [r EXCEPT !.attempts = r.attempts + 1]
             w == [q EXCEPT !.inFlight = TRUE]
  <2>1. r.attempts + 1 \in 0 .. MaxAttempts
    BY <1>1, Constants DEF Begins, Row
  <2>2. q \in Row(Slot)
    BY <2>1, SetColumn
  <2>3. w \in Row(Slot)
    BY <2>2, SetColumn
  <2>4. [w EXCEPT !.lease = LeaseTicks] \in Row(Slot)
    BY <2>3, Constants, SetColumn
  <2>5. BeginSend(r, s, o) = [w EXCEPT !.lease = LeaseTicks]
    BY <1>1 DEF BeginSend, Begins
  <2> QED BY <2>4, <2>5
<1>2. Settle(r, "cancelled") \in Row(Slot) /\ Settle(r, "terminal") \in Row(Slot)
  BY SettleTyped DEF Settled
<1>3. CASE ~Begins(r, s, o)
  BY <1>2, <1>3, UnleaseTyped DEF BeginSend
<1> QED BY <1>1, <1>3

LEMMA RetryTyped ==
    ASSUME NEW r \in Row(Slot), NEW s \in Slot, NEW delay \in 0 .. MaxDelay,
           NEW unknown \in BOOLEAN, NEW o \in BOOLEAN
    PROVE  ScheduleRetry(r, s, delay, unknown, o) \in Row(Slot)
<1> DEFINE told == [r EXCEPT !.everUnknown = r.everUnknown \/ unknown]
<1>1. told \in Row(Slot)
  BY SetColumn
<1>2. Settle(told, "cancelled") \in Row(Slot) /\ Settle(told, "terminal") \in Row(Slot)
  BY <1>1, SettleTyped DEF Settled
<1>3. Postpone(told, delay) \in Row(Slot)
  BY <1>1, PostponeTyped
<1> QED BY <1>2, <1>3 DEF ScheduleRetry

LEMMA InternalTyped ==
    ASSUME NEW r \in Row(Slot), NEW s \in Slot, NEW delay \in 0 .. MaxDelay,
           r.state = "pending" => r.failures < MaxAttempts
    PROVE  ScheduleInternalRetry(r, s, delay) \in Row(Slot)
<1> DEFINE failed == [r EXCEPT !.failures = r.failures + 1]
<1>1. CASE Holds(r, s)
  <2>1. r.failures + 1 \in 0 .. MaxAttempts
    BY <1>1, Constants DEF Holds, Row
  <2>2. failed \in Row(Slot)
    BY <2>1, SetColumn
  <2>3. Settle(failed, "terminal") \in Row(Slot) /\ Postpone(failed, delay) \in Row(Slot)
    BY <2>2, SettleTyped, PostponeTyped DEF Settled
  <2> QED BY <1>1, <2>3 DEF ScheduleInternalRetry
<1>2. CASE ~Holds(r, s)
  BY <1>2 DEF ScheduleInternalRetry
<1> QED BY <1>1, <1>2

LEMMA SmallTyped ==
    ASSUME NEW r \in Row(Slot), NEW s \in Slot
    PROVE  /\ RenewLease(r, s) \in Row(Slot)
           /\ MarkDelivered(r, s) \in Row(Slot)
           /\ MarkTerminal(r, s) \in Row(Slot)
           /\ ReleaseUnstartedClaim(r, s) \in Row(Slot)
<1>1. RenewLease(r, s) \in Row(Slot)
  BY Constants, SetColumn DEF RenewLease
<1>2. MarkDelivered(r, s) \in Row(Slot) /\ MarkTerminal(r, s) \in Row(Slot)
  BY SettleTyped DEF MarkDelivered, MarkTerminal, Settled
<1>3. ReleaseUnstartedClaim(r, s) \in Row(Slot)
  BY Constants, PostponeTyped DEF ReleaseUnstartedClaim
<1> QED BY <1>1, <1>2, <1>3

LEMMA CancelTyped ==
    ASSUME NEW r \in Row(Slot)
    PROVE  CancelEscalation(r) \in Row(Slot)
BY DiscloseTyped, SettleTyped DEF CancelEscalation, Settled

LEMMA RequeueTyped ==
    ASSUME NEW r \in Row(Slot)
    PROVE  RequeueTerminal(r) \in Row(Slot)
<1>1. Absent(0) \in Row(Slot) /\ 0 \in 0 .. MaxDelay
  BY Constants, AgeCapNat DEF Absent, Row, RowState
<1>2. InsertTarget(Absent(0), 0) \in Row(Slot)
  BY <1>1, InsertTyped
<1>3. r.everUnknown \in BOOLEAN
  BY DEF Row
<1> QED BY <1>2, <1>3, SetColumn DEF RequeueTerminal

LEMMA PurgeTyped ==
    ASSUME NEW r \in Row(Slot)
    PROVE  Purge(r) \in Row(Slot)
BY SetColumn DEF Purge, RowState

LEMMA TickTyped ==
    ASSUME NEW r \in Row(Slot)
    PROVE  Ticked(r) \in Row(Slot)
<1>1. CASE r.state = "pending"
  <2> DEFINE n == IF r.next > -AgeCap THEN r.next - 1 ELSE r.next
             e == IF r.expire > 0 THEN r.expire - 1 ELSE r.expire
             l == IF r.lease > 0 THEN r.lease - 1 ELSE r.lease
             q == [r EXCEPT !.next = n]
             w == [q EXCEPT !.expire = e]
  <2>1. n \in -AgeCap .. MaxDelay /\ e \in 0 .. (MaxDelay + Lifetime) /\ l \in 0 .. LeaseTicks
    BY Constants, AgeCapNat DEF Row
  <2>2. q \in Row(Slot)
    BY <2>1, SetColumn
  <2>3. w \in Row(Slot)
    BY <2>1, <2>2, SetColumn
  <2>4. [w EXCEPT !.lease = l] \in Row(Slot)
    BY <2>1, <2>3, SetColumn
  <2> QED BY <1>1, <2>4 DEF Ticked
<1>2. CASE r.state = "absent"
  <2>1. (IF r.next > 0 THEN r.next - 1 ELSE r.next) \in -AgeCap .. MaxDelay
    BY Constants, AgeCapNat DEF Row
  <2> QED BY <1>2, <2>1, SetColumn DEF Ticked
<1>3. CASE r.state \notin {"pending", "absent"}
  BY <1>3 DEF Ticked
<1> QED BY <1>1, <1>2, <1>3

-----------------------------------------------------------------------------
(* Kinds of change of a row.                                               *)

\* The holder s of the row ends its hold, or the write was fenced off; acc says
\* that its attempt was accepted.
Ended(r, q, s, acc) ==
    \/ q = r
    \/ /\ Holds(r, s)
       /\ q.state \in {"pending"} \cup Settled
       /\ q.state = "pending" => q.failures < MaxAttempts
       /\ q.state = "delivered" => acc
       /\ acc => q.state = "delivered" \/ q.everUnknown
       /\ q.token = NoToken
       /\ ~q.inFlight
       /\ r.everUnknown => q.everUnknown
       /\ q.attempts = r.attempts

\* Somebody else takes the row from its holder and discloses the attempt.
Disclosed(r, q) ==
    /\ r.state = "pending"
    /\ q.everUnknown = (r.everUnknown \/ r.inFlight)
    /\ ~q.inFlight
    /\ q.attempts = r.attempts
    /\ \/ q.state = "pending" /\ q.failures = r.failures /\ q.next <= 0
       \/ q.state \in {"terminal", "cancelled"} /\ q.token = NoToken

\* The row becomes open work.
Opened(r, q) ==
    /\ r.state \in {"absent", "terminal"}
    /\ q.state = "pending"
    /\ q.failures < MaxAttempts
    /\ q.token = NoToken
    /\ ~q.inFlight
    /\ q.everUnknown = r.everUnknown
    /\ q.attempts = 0

\* Nothing but deadlines changes, or retention removes the row.
Retimed(r, q) ==
    /\ q.state = r.state \/ (r.state \in Settled /\ q.state = "purged")
    /\ q.failures = r.failures
    /\ q.token = r.token
    /\ q.inFlight = r.inFlight
    /\ q.everUnknown = r.everUnknown
    /\ q.attempts = r.attempts
    /\ q.state = "absent" /\ r.next >= 0 => q.next >= 0
    /\ q.next <= r.next

Foreign(r, q) == Disclosed(r, q) \/ Opened(r, q) \/ Retimed(r, q)

(* The transactions of a holder end its hold. *)
LEMMA HolderEnds ==
    ASSUME NEW r \in Row(Slot), NEW s \in Slot,
           r.state = "pending" => r.failures < MaxAttempts
    PROVE  /\ Ended(r, MarkDelivered(r, s), s, TRUE)
           /\ Ended(r, MarkTerminal(r, s), s, FALSE)
           /\ Ended(r, ReleaseUnstartedClaim(r, s), s, FALSE)
           /\ \A delay \in 0 .. MaxDelay : Ended(r, ScheduleInternalRetry(r, s, delay), s, FALSE)
           /\ \A delay \in 0 .. MaxDelay, unknown, o, acc \in BOOLEAN :
                    (acc => unknown) => Ended(r, ScheduleRetry(r, s, delay, unknown, o), s, acc)
           /\ \A o \in BOOLEAN : ~Begins(r, s, o) => Ended(r, BeginSend(r, s, o), s, FALSE)
<1>1. Ended(r, MarkDelivered(r, s), s, TRUE) /\ Ended(r, MarkTerminal(r, s), s, FALSE)
  BY DEF Ended, Holds, MarkDelivered, MarkTerminal, Settle, Unlease, Row, Settled
<1>2. ASSUME NEW delay \in 0 .. MaxDelay, NEW unknown \in BOOLEAN, NEW o \in BOOLEAN,
             NEW acc \in BOOLEAN, acc => unknown
      PROVE  Ended(r, ScheduleRetry(r, s, delay, unknown, o), s, acc)
  BY <1>2 DEF Ended, Holds, ScheduleRetry, Postpone, Settle, Unlease, Row, Settled
<1>3. \A delay \in 0 .. MaxDelay : Ended(r, ScheduleInternalRetry(r, s, delay), s, FALSE)
  BY Constants DEF Ended, Holds, ScheduleInternalRetry, Postpone, Settle, Unlease, Row, Settled
<1>4. Ended(r, ReleaseUnstartedClaim(r, s), s, FALSE)
  BY DEF Ended, Holds, ReleaseUnstartedClaim, Postpone, Unlease, Row, Settled
<1>5. \A o \in BOOLEAN : ~Begins(r, s, o) => Ended(r, BeginSend(r, s, o), s, FALSE)
  BY DEF Ended, Holds, Begins, BeginSend, Settle, Unlease, Row, Settled
<1> QED BY <1>1, <1>2, <1>3, <1>4, <1>5

(* The transactions that hold no lease. *)
LEMMA OthersDisclose ==
    ASSUME NEW r \in Row(Slot)
    PROVE  /\ \A s \in Slot :
                r.state = "pending" /\ r.next <= 0 => Disclosed(r, Claim(r, s))
           /\ IsStale(r) => Disclosed(r, ExpireStale(r))
           /\ ~IsStale(r) => ExpireStale(r) = r
           /\ r.state = "pending" => Disclosed(r, CancelEscalation(r))
           /\ r.state # "pending" => CancelEscalation(r) = r
           /\ Retimed(r, r) /\ Retimed(r, Ticked(r))
           /\ \A s \in Slot : Retimed(r, RenewLease(r, s))
           /\ Purgeable(r) => Retimed(r, Purge(r))
<1>1. \A s \in Slot :
                r.state = "pending" /\ r.next <= 0 => Disclosed(r, Claim(r, s))
  BY DEF Disclosed, Claim, Disclose, Row
<1>2. IsStale(r) => Disclosed(r, ExpireStale(r))
  BY DEF IsStale, ExpireStale, Disclosed, Disclose, Settle, Unlease, Row, Settled
<1>3. ~IsStale(r) => ExpireStale(r) = r
  BY DEF ExpireStale
<1>4. /\ r.state = "pending" => Disclosed(r, CancelEscalation(r))
      /\ r.state # "pending" => CancelEscalation(r) = r
  BY DEF CancelEscalation, Disclosed, Disclose, Settle, Unlease, Row, Settled
<1>5. Retimed(r, r) /\ \A s \in Slot : Retimed(r, RenewLease(r, s))
  BY DEF Retimed, RenewLease, Row
<1>6. Retimed(r, Ticked(r))
  BY AgeCapNat DEF Retimed, Ticked, Row
<1>7. Purgeable(r) => Retimed(r, Purge(r))
  BY DEF Retimed, Purgeable, Purge, Settled, Row
<1> QED BY <1>1, <1>2, <1>3, <1>4, <1>5, <1>6, <1>7

LEMMA OthersOpen ==
    ASSUME NEW r \in Row(Slot), r.state = "absent" => ~r.everUnknown
    PROVE  /\ \A due \in 0 .. MaxDelay :
                IF r.state = "absent" THEN Opened(r, InsertTarget(r, due))
                ELSE InsertTarget(r, due) = r
           /\ \A ambiguous \in BOOLEAN :
                Requeueable(r, ambiguous) => Opened(r, RequeueTerminal(r))
<1>1. \A due \in 0 .. MaxDelay :
          IF r.state = "absent" THEN Opened(r, InsertTarget(r, due))
          ELSE InsertTarget(r, due) = r
  BY Constants DEF Opened, InsertTarget, Absent, Row
<1>2. \A ambiguous \in BOOLEAN : Requeueable(r, ambiguous) => Opened(r, RequeueTerminal(r))
  BY Constants DEF Opened, Requeueable, RequeueTerminal, InsertTarget, Absent, Row
<1> QED BY <1>1, <1>2

(* ... as changes made by somebody else. *)
LEMMA Foreigners ==
    ASSUME NEW r \in Row(Slot),
           r.state = "absent" => ~r.everUnknown,
           r.state # "pending" => ~r.inFlight
    PROVE  /\ Foreign(r, r)
           /\ \A due \in 0 .. MaxDelay : Foreign(r, InsertTarget(r, due))
           /\ Foreign(r, CancelEscalation(r)) /\ ~CancelEscalation(r).inFlight
           /\ Foreign(r, ExpireStale(r))
           /\ \A s \in Slot : Foreign(r, RenewLease(r, s))
           /\ Foreign(r, Ticked(r))
           /\ \A ambiguous \in BOOLEAN :
                Requeueable(r, ambiguous) => Foreign(r, RequeueTerminal(r))
           /\ Purgeable(r) => Foreign(r, Purge(r))
<1>1. /\ Foreign(r, r) /\ Foreign(r, Ticked(r))
      /\ \A s \in Slot : Foreign(r, RenewLease(r, s))
  BY OthersDisclose DEF Foreign
<1>2. ASSUME NEW due \in 0 .. MaxDelay
      PROVE  Foreign(r, InsertTarget(r, due))
  <2>1. \/ Opened(r, InsertTarget(r, due))
        \/ InsertTarget(r, due) = r
    BY OthersOpen
  <2>2. CASE InsertTarget(r, due) = r
    BY <1>1, <2>2
  <2> QED BY <2>1, <2>2 DEF Foreign
<1>3. Foreign(r, CancelEscalation(r)) /\ ~CancelEscalation(r).inFlight
  <2>1. CASE r.state = "pending"
    BY <2>1, OthersDisclose DEF Foreign, Disclosed
  <2>2. CASE r.state # "pending"
    BY <2>2, <1>1, OthersDisclose
  <2> QED BY <2>1, <2>2
<1>4. Foreign(r, ExpireStale(r))
  <2>1. CASE IsStale(r)
    BY <2>1, OthersDisclose DEF Foreign
  <2>2. CASE ~IsStale(r)
    BY <2>2, <1>1, OthersDisclose
  <2> QED BY <2>1, <2>2
<1>5. /\ \A ambiguous \in BOOLEAN :
            Requeueable(r, ambiguous) => Foreign(r, RequeueTerminal(r))
      /\ Purgeable(r) => Foreign(r, Purge(r))
  BY OthersOpen, OthersDisclose DEF Foreign
<1> QED BY <1>1, <1>2, <1>3, <1>4, <1>5

-----------------------------------------------------------------------------
(* What each kind of change preserves.                                     *)

Core == RowOK /\ SendOK /\ AcceptanceOK

\* A delivery keeps its place with respect to the row, or has left it.
Steady(s) ==
    \/ job'[s] = job[s]
    \/ job'[s].pc = "idle"
    \/ /\ job'[s].pc \notin {"begun", "sending"}
       /\ job'[s].target = job[s].target
       /\ job[s].pc # "idle"
       /\ job[s].pc \in Started => job'[s].pc \in Started
       /\ job'[s].acc = job[s].acc

(* Writes of others, while no delivery starts. *)
LEMMA ForeignKeeps ==
    ASSUME TypeOK, TypeOK', Core, accepted' = accepted,
           \A t \in Target : Foreign(outbox[t], outbox'[t]),
           \A s \in Slot :
              \/ Steady(s)
              \/ job'[s].pc = "claimed" /\ Disclosed(outbox[job'[s].target], outbox'[job'[s].target])
    PROVE  Core'
<1> USE DEF Core
<1>1. RowOK'
  <2> SUFFICES ASSUME NEW t \in Target
               PROVE  /\ outbox'[t].state # "pending" => outbox'[t].token = NoToken /\ ~outbox'[t].inFlight
                      /\ outbox'[t].state = "pending" => outbox'[t].failures < MaxAttempts
                      /\ outbox'[t].state = "absent" => ~outbox'[t].everUnknown /\ outbox'[t].next >= 0
                      /\ outbox'[t].token # NoToken => outbox'[t].next <= 0
    BY DEF RowOK
  <2>1. Foreign(outbox[t], outbox'[t]) /\ outbox[t].next \in Int /\ outbox'[t].next \in Int
    BY DEF TypeOK, Row
  <2> QED BY <2>1 DEF RowOK, Foreign, Disclosed, Opened, Retimed, Settled
<1>2. SendOK'
  <2> SUFFICES ASSUME NEW s \in Slot, job'[s].pc \in {"begun", "sending"}
               PROVE  \/ Holds(outbox'[job'[s].target], s) /\ outbox'[job'[s].target].inFlight
                      \/ outbox'[job'[s].target].everUnknown
    BY DEF SendOK, RowOf, Holds
  <2>1. job'[s] = job[s]
    BY DEF Steady
  <2> DEFINE t == job[s].target
  <2>2. t \in Target /\ Foreign(outbox[t], outbox'[t])
    BY <2>1 DEF TypeOK
  <2>3. \/ Holds(outbox[t], s) /\ outbox[t].inFlight
        \/ outbox[t].everUnknown
    BY <2>1 DEF SendOK, RowOf
  <2> QED BY <2>1, <2>2, <2>3 DEF Foreign, Disclosed, Opened, Retimed, Holds, Settled
<1>3. AcceptanceOK'
  <2> SUFFICES ASSUME NEW t \in accepted,
                      outbox'[t].state \notin {"delivered", "purged"},
                      ~outbox'[t].everUnknown
               PROVE  AcceptanceHeld(t)'
    BY DEF AcceptanceOK
  <2>1. t \in Target /\ Foreign(outbox[t], outbox'[t])
    BY DEF TypeOK
  <2>2. CASE Disclosed(outbox[t], outbox'[t])
    BY <2>1, <2>2 DEF Disclosed, AcceptanceOK, AcceptanceHeld
  <2>3. CASE Opened(outbox[t], outbox'[t])
    BY <2>1, <2>3 DEF Opened, AcceptanceOK, AcceptanceHeld
  <2>4. CASE Retimed(outbox[t], outbox'[t]) /\ ~Disclosed(outbox[t], outbox'[t])
    <3>1. AcceptanceHeld(t)
      BY <2>1, <2>4 DEF Retimed, AcceptanceOK, AcceptanceHeld, Settled
    <3>2. outbox'[t].state = "pending" /\ outbox'[t].inFlight
      BY <2>4, <3>1 DEF Retimed, AcceptanceHeld, Settled
    <3>3. ASSUME NEW s \in Slot, job'[s].pc # "idle", job'[s].target = t, outbox'[t].token = s
          PROVE  job'[s].pc \in Started /\ job'[s].acc
      BY <2>4, <3>1, <3>3 DEF Retimed, AcceptanceHeld, Steady
    <3> QED BY <3>2, <3>3 DEF AcceptanceHeld
  <2> QED BY <2>1, <2>2, <2>3, <2>4 DEF Foreign
<1> QED BY <1>1, <1>2, <1>3

(* The write of a holder, after which its delivery reaches no provider. *)
LEMMA HolderKeeps ==
    ASSUME TypeOK, TypeOK', Core, accepted' = accepted,
           NEW s \in Slot, job[s].pc # "idle",
           NEW q, Write(s, q), Ended(RowOf(s), q, s, job[s].acc),
           job[s].acc => job[s].pc \in Started,
           Steady(s), job'[s].pc \notin {"begun", "sending"},
           \A u \in Slot \ {s} : job'[u] = job[u]
    PROVE  Core'
<1> USE DEF Core
<1> DEFINE t == job[s].target
<1>t. /\ t \in Target
      /\ outbox'[t] = q
      /\ \A v \in Target \ {t} : outbox'[v] = outbox[v]
  BY DEF TypeOK, Write
<1>e. Ended(outbox[t], q, s, job[s].acc)
  BY DEF RowOf
<1>1. RowOK'
  BY <1>t, <1>e DEF RowOK, Ended, Holds, Settled
<1>2. SendOK'
  <2> SUFFICES ASSUME NEW u \in Slot, job'[u].pc \in {"begun", "sending"}
               PROVE  \/ Holds(outbox'[job'[u].target], u) /\ outbox'[job'[u].target].inFlight
                      \/ outbox'[job'[u].target].everUnknown
    BY DEF SendOK, RowOf, Holds
  <2>1. u # s /\ job'[u] = job[u]
    OBVIOUS
  <2>2. /\ job[u].target \in Target
        /\ \/ Holds(outbox[job[u].target], u) /\ outbox[job[u].target].inFlight
           \/ outbox[job[u].target].everUnknown
    BY <2>1 DEF SendOK, RowOf, TypeOK
  <2> QED BY <2>1, <2>2, <1>t, <1>e DEF Ended, Holds
<1>3. AcceptanceOK'
  <2> SUFFICES ASSUME NEW v \in accepted,
                      outbox'[v].state \notin {"delivered", "purged"},
                      ~outbox'[v].everUnknown
               PROVE  AcceptanceHeld(v)'
    BY DEF AcceptanceOK
  <2>0. v \in Target
    BY DEF TypeOK
  <2>1. CASE outbox'[v] = outbox[v]
    <3>1. AcceptanceHeld(v)
      BY <2>1 DEF AcceptanceOK
    <3>2. ASSUME NEW u \in Slot, job'[u].pc # "idle", job'[u].target = v, outbox'[v].token = u
          PROVE  job'[u].pc \in Started /\ job'[u].acc
      BY <2>1, <3>1, <3>2 DEF AcceptanceHeld, Steady
    <3> QED BY <2>1, <3>1, <3>2 DEF AcceptanceHeld
  <2>2. CASE outbox'[v] # outbox[v]
    <3>1. v = t /\ Holds(outbox[t], s) /\ ~outbox[t].everUnknown
      BY <2>0, <2>2, <1>t, <1>e DEF Ended
    <3>2. AcceptanceHeld(t)
      BY <3>1 DEF AcceptanceOK, Holds
    <3>3. job[s].acc
      BY <3>1, <3>2 DEF AcceptanceHeld, Holds
    <3> QED BY <2>2, <3>1, <3>3, <1>t, <1>e DEF Ended
  <2> QED BY <2>1, <2>2
<1> QED BY <1>1, <1>2, <1>3

-----------------------------------------------------------------------------
(* Type correctness, step by step.                                         *)

LEMMA WorkerConstants ==
    /\ Owner \in [Slot -> Proc]
    /\ AlertOf \in [Target -> Alert]
    /\ ChannelOf \in [Target -> Channel]
    /\ DelayOf \in [Target -> 0 .. MaxDelay]
    /\ RetryDelays \subseteq 0 .. MaxDelay
    /\ RetryAfters \subseteq 0 .. MaxDelay
    /\ RetryBase \in 0 .. MaxDelay
    /\ Workers \in Nat \ {0}
    /\ NoToken \notin Slot
    /\ MaxOutages \in Nat /\ MaxReplays \in Nat
BY WorkerAssumption

\* TypeOK in two halves: the database, and the memory of the processes.
StoreTyped ==
    /\ alert \in [Alert -> Status]
    /\ outbox \in [Target -> Row(Slot)]
    /\ backfill \subseteq Target
    /\ accepted \subseteq Target
    /\ replays \in 0 .. MaxReplays

JobTyped ==
    /\ job \in [Slot -> Job]
    /\ \A s \in Slot : job[s].pc # "idle" => job[s].target \in Target

ProcTyped ==
    /\ up \in [Proc -> {"running", "stopping", "down"}]
    /\ claimer \in [Proc -> {"looping", "late", "gone"}]
    /\ workers \in [Proc -> 0 .. Workers]
    /\ dispatch \in [Proc -> Seq(Slot)]
    /\ inflight \in [Proc -> [Channel -> Nat]]
    /\ outages \in 0 .. MaxOutages

LEMMA TypeHalves ==
    /\ TypeOK <=> StoreTyped /\ JobTyped /\ ProcTyped
    /\ TypeOK' <=> StoreTyped' /\ JobTyped' /\ ProcTyped'
BY DEF TypeOK, StoreTyped, JobTyped, ProcTyped

(* Writing one row, moving one delivery on, finishing one. *)
LEMMA WriteTyped ==
    ASSUME StoreTyped, UNCHANGED storeVars,
           NEW s \in Slot, NEW q \in Row(Slot), Write(s, q)
    PROVE  StoreTyped'
BY DEF StoreTyped, storeVars, Write

LEMMA GotoTyped ==
    ASSUME JobTyped, NEW s \in Slot, job[s].pc # "idle",
           NEW pc \in {"claimed", "handing", "queued"} \cup Working, Goto(s, pc)
    PROVE  JobTyped'
<1>1. job' = [job EXCEPT ![s] = [job[s] EXCEPT !.pc = pc]]
  BY DEF Goto, JobTyped
<1>2. [job[s] EXCEPT !.pc = pc] \in Job /\ [job[s] EXCEPT !.pc = pc].target \in Target
  BY DEF JobTyped, Job
<1> QED BY <1>1, <1>2 DEF JobTyped

LEMMA CompleteTyped ==
    ASSUME JobTyped, ProcTyped, NEW s \in Slot, job[s].pc # "idle", Complete(s),
           UNCHANGED <<lifeVars, claimer, dispatch>>
    PROVE  JobTyped' /\ ProcTyped'
<1>1. Idle \in Job
  BY DEF Idle, Job
<1>2. JobTyped'
  BY <1>1 DEF JobTyped, Complete, Idle
<1>3. inflight' \in [Proc -> [Channel -> Nat]]
  <2> DEFINE c == ChannelOf[job[s].target]
             p == Owner[s]
             n == IF inflight[p][c] > 0 THEN inflight[p][c] - 1 ELSE 0
  <2>1. p \in Proc /\ inflight[p] \in [Channel -> Nat]
    BY WorkerConstants DEF ProcTyped
  <2>n. c \in Channel /\ inflight[p][c] \in Nat /\ n \in Nat
    BY <2>1, WorkerConstants DEF JobTyped
  <2>2. inflight' = [inflight EXCEPT ![p] = [inflight[p] EXCEPT ![c] = n]]
    BY DEF Complete
  <2>3. [inflight[p] EXCEPT ![c] = n] \in [Channel -> Nat]
    BY <2>1, <2>n
  <2> QED BY <2>1, <2>2, <2>3 DEF ProcTyped
<1> QED BY <1>2, <1>3 DEF ProcTyped, lifeVars

LEMMA RowOfTyped ==
    ASSUME StoreTyped, JobTyped, NEW s \in Slot, job[s].pc # "idle"
    PROVE  /\ job[s].target \in Target
           /\ RowOf(s) \in Row(Slot)
           /\ Obsolete(job[s].target) \in BOOLEAN
BY DEF StoreTyped, JobTyped, RowOf, Obsolete, IsEscalation

LEMMA AlertTyped ==
    ASSUME TypeOK, RowOK, AlertStep
    PROVE  TypeOK'
<1> USE TypeHalves
<1>1. ASSUME NEW a \in Alert, CreateAlert(a)
      PROVE  TypeOK'
  <2>1. outbox' \in [Target -> Row(Slot)]
    BY <1>1, InsertTyped, WorkerConstants DEF CreateAlert, StoreTyped
  <2> QED BY <1>1, <2>1 DEF CreateAlert, StoreTyped, JobTyped, ProcTyped, procVars, lifeVars, Status
<1>2. ASSUME NEW a \in Alert, NEW from, NEW to \in Status, CloseAlert(a, from, to)
      PROVE  TypeOK'
  <2>1. outbox' \in [Target -> Row(Slot)]
    BY <1>2, CancelTyped DEF CloseAlert, StoreTyped
  <2> QED BY <1>2, <2>1 DEF CloseAlert, StoreTyped, JobTyped, ProcTyped, procVars, lifeVars, Status
<1>3. CASE ReadBackfill
  BY <1>3 DEF ReadBackfill, StoreTyped, JobTyped, ProcTyped, procVars, lifeVars
<1>4. CASE CommitBackfill
  <2>1. ASSUME NEW t \in Target
        PROVE  InsertTarget(outbox[t], outbox[t].next) \in Row(Slot)
    <3>1. CASE outbox[t].state = "absent"
      <4>1. outbox[t] \in Row(Slot) /\ outbox[t].next \in 0 .. MaxDelay
        BY <3>1, Constants, AgeCapNat DEF RowOK, StoreTyped, Row
      <4> QED BY <4>1, InsertTyped
    <3>2. CASE outbox[t].state # "absent"
      BY <3>2 DEF InsertTarget, StoreTyped
    <3> QED BY <3>1, <3>2
  <2>2. outbox' \in [Target -> Row(Slot)]
    BY <1>4, <2>1 DEF CommitBackfill, StoreTyped
  <2> QED BY <1>4, <2>2 DEF CommitBackfill, StoreTyped, JobTyped, ProcTyped, procVars, lifeVars
<1>5. ASSUME NEW t \in Target, NEW ambiguous \in BOOLEAN, Replay(t, ambiguous)
      PROVE  TypeOK'
  <2>1. RequeueTerminal(outbox[t]) \in Row(Slot)
    BY RequeueTyped DEF StoreTyped
  <2>2. replays + 1 \in 0 .. MaxReplays
    BY <1>5, WorkerConstants DEF Replay, StoreTyped
  <2> QED BY <1>5, <2>1, <2>2 DEF Replay, StoreTyped, JobTyped, ProcTyped, procVars, lifeVars
<1>6. ASSUME NEW t \in Target, CleanupCompleted(t)
      PROVE  TypeOK'
  <2>1. Purge(outbox[t]) \in Row(Slot)
    BY PurgeTyped DEF StoreTyped
  <2> QED BY <1>6, <2>1 DEF CleanupCompleted, StoreTyped, JobTyped, ProcTyped, procVars, lifeVars, storeVars
<1>7. {"acknowledged", "closed"} \subseteq Status
  BY DEF Status
<1> QED
  BY <1>1, <1>2, <1>3, <1>4, <1>5, <1>6, <1>7
     DEF AlertStep, AcknowledgeAlert, ResolveAlert, MarkFalsePositive

LEMMA CleanedTyped ==
    ASSUME StoreTyped
    PROVE  Cleaned \in [Target -> Row(Slot)]
BY ExpireTyped DEF StoreTyped, Cleaned

LEMMA LeasesTyped ==
    ASSUME StoreTyped, NEW p \in Proc, NEW s \in Slot, NEW t \in Target, Leases(p, s, t)
    PROVE  outbox' \in [Target -> Row(Slot)]
<1>1. Cleaned[t] \in Row(Slot) /\ Claim(Cleaned[t], s) \in Row(Slot)
  BY CleanedTyped, ClaimTyped
<1> QED BY <1>1, CleanedTyped DEF Leases

LEMMA ClaimsTyped ==
    ASSUME ProcTyped, NEW p \in Proc, Claims(p)
    PROVE  claimer' \in [Proc -> {"looping", "late", "gone"}]
BY DEF ProcTyped, Claims

LEMMA ClaimStepTyped ==
    ASSUME TypeOK, NEW p \in Proc, ClaimStep(p)
    PROVE  TypeOK'
<1> USE TypeHalves
<1>c. ASSUME Claims(p)
      PROVE  claimer' \in [Proc -> {"looping", "late", "gone"}]
  BY <1>c, ClaimsTyped
<1>1. ASSUME NEW s \in Slot, NEW t \in Target, ClaimDue(p, s, t)
      PROVE  TypeOK'
  <2>1. outbox' \in [Target -> Row(Slot)]
    BY <1>1, LeasesTyped DEF ClaimDue
  <2>2. StoreTyped'
    BY <1>1, <2>1 DEF ClaimDue, StoreTyped, storeVars
  <2>3. JobTyped'
    <3>1. [Idle EXCEPT !.pc = "claimed", !.target = t] \in Job
      BY DEF Idle, Job
    <3>2. [Idle EXCEPT !.pc = "claimed", !.target = t].target = t
      BY DEF Idle
    <3> QED BY <1>1, <3>1, <3>2 DEF ClaimDue, JobTyped
  <2>4. ProcTyped'
    <3> DEFINE c == ChannelOf[t]
    <3>1. c \in Channel /\ inflight[p] \in [Channel -> Nat] /\ inflight[p][c] + 1 \in Nat
      BY WorkerConstants DEF ProcTyped
    <3>2. inflight' = [inflight EXCEPT ![p] = [inflight[p] EXCEPT ![c] = inflight[p][c] + 1]]
      BY <1>1 DEF ClaimDue
    <3>3. [inflight[p] EXCEPT ![c] = inflight[p][c] + 1] \in [Channel -> Nat]
      BY <3>1
    <3> QED BY <1>1, <1>c, <3>2, <3>3 DEF ClaimDue, Leases, ProcTyped, lifeVars
  <2> QED BY <2>2, <2>3, <2>4
<1>2. ASSUME NEW s \in Slot, NEW t \in Target, ClaimReplyLost(p, s, t)
      PROVE  TypeOK'
  <2>1. outbox' \in [Target -> Row(Slot)]
    BY <1>2, LeasesTyped DEF ClaimReplyLost
  <2> QED
    BY <1>2, <1>c, <2>1
       DEF ClaimReplyLost, Leases, StoreTyped, JobTyped, ProcTyped, storeVars, lifeVars
<1>3. CASE ClaimNothing(p)
  BY <1>3, <1>c, CleanedTyped
     DEF ClaimNothing, StoreTyped, JobTyped, ProcTyped, storeVars, lifeVars
<1>4. CASE ClaimFails(p)
  BY <1>4, <1>c DEF ClaimFails, StoreTyped, JobTyped, ProcTyped, storeVars, lifeVars
<1> QED BY <1>1, <1>2, <1>3, <1>4 DEF ClaimStep

(* The shapes of a delivery's steps: a write with the delivery moving on, a *)
(* write that ends it, and a move without a write.                          *)
LEMMA WriteGotoTyped ==
    ASSUME TypeOK, UNCHANGED <<storeVars, procVars>>,
           NEW s \in Slot, job[s].pc # "idle",
           NEW q \in Row(Slot), Write(s, q), NEW pc \in Working, Goto(s, pc)
    PROVE  TypeOK'
<1>1. StoreTyped'
  BY WriteTyped, TypeHalves
<1>2. JobTyped'
  BY GotoTyped, TypeHalves
<1> QED BY <1>1, <1>2, TypeHalves DEF ProcTyped, procVars, lifeVars

LEMMA WriteCompleteTyped ==
    ASSUME TypeOK, UNCHANGED <<storeVars, lifeVars, claimer, dispatch>>,
           NEW s \in Slot, job[s].pc # "idle",
           NEW q \in Row(Slot), Write(s, q), Complete(s)
    PROVE  TypeOK'
<1>1. StoreTyped'
  BY WriteTyped, TypeHalves
<1> QED BY <1>1, CompleteTyped, TypeHalves

LEMMA GotoOnlyTyped ==
    ASSUME TypeOK, UNCHANGED <<outbox, storeVars, procVars>>,
           NEW s \in Slot, job[s].pc # "idle",
           NEW pc \in {"claimed", "handing"} \cup Working, Goto(s, pc)
    PROVE  TypeOK'
<1>1. JobTyped'
  BY GotoTyped, TypeHalves
<1> QED BY <1>1, TypeHalves DEF StoreTyped, ProcTyped, storeVars, procVars, lifeVars

LEMMA RecordedTyped ==
    ASSUME TypeOK, NEW s \in Slot, job[s].pc # "idle", NEW delay \in RetryDelays
    PROVE  Recorded(s, delay) \in Row(Slot)
<1> DEFINE wait == IF delay > job[s].after THEN delay ELSE job[s].after
<1>1. /\ RowOf(s) \in Row(Slot)
      /\ Obsolete(job[s].target) \in BOOLEAN
  BY RowOfTyped, TypeHalves
<1>2. wait \in 0 .. MaxDelay
  <2>1. delay \in 0 .. MaxDelay
    BY WorkerConstants
  <2>2. job[s] \in Job
    BY DEF TypeOK
  <2>3. job[s].after \in RetryAfters \cup {0}
    BY <2>2 DEF Job
  <2>4. RetryAfters \cup {0} \subseteq 0 .. MaxDelay
    <3>1. RetryAfters \subseteq 0 .. MaxDelay
      BY WorkerConstants
    <3>2. 0 \in 0 .. MaxDelay
      BY Constants
    <3> QED BY <3>1, <3>2
  <2>5. job[s].after \in 0 .. MaxDelay
    BY <2>3, <2>4
  <2> QED BY <2>1, <2>5
<1>3. (job[s].answer = "ambiguous") \in BOOLEAN
  OBVIOUS
<1>4. ScheduleRetry(RowOf(s), s, wait, job[s].answer = "ambiguous", Obsolete(job[s].target)) \in Row(Slot)
  BY <1>1, <1>2, <1>3, RetryTyped
<1>5. MarkDelivered(RowOf(s), s) \in Row(Slot) /\ MarkTerminal(RowOf(s), s) \in Row(Slot)
  BY <1>1, SmallTyped
<1> QED BY <1>4, <1>5 DEF Recorded

LEMMA SlotStepTyped ==
    ASSUME TypeOK, RowOK, NEW s \in Slot, SlotStep(s)
    PROVE  TypeOK'
<1> DEFINE o == Obsolete(job[s].target)
<1> USE TypeHalves
<1>i. ASSUME job[s].pc # "idle"
      PROVE  /\ RowOf(s) \in Row(Slot) /\ o \in BOOLEAN
             /\ RowOf(s).state = "pending" => RowOf(s).failures < MaxAttempts
             /\ BeginSend(RowOf(s), s, o) \in Row(Slot)
             /\ ScheduleInternalRetry(RowOf(s), s, RetryBase) \in Row(Slot)
             /\ ScheduleRetry(RowOf(s), s, RetryBase, TRUE, o) \in Row(Slot)
             /\ ReleaseUnstartedClaim(RowOf(s), s) \in Row(Slot)
             /\ RenewLease(RowOf(s), s) \in Row(Slot)
  <2>1. RowOf(s) \in Row(Slot) /\ o \in BOOLEAN /\ job[s].target \in Target
    BY <1>i, RowOfTyped
  <2>2. RowOf(s).state = "pending" => RowOf(s).failures < MaxAttempts
    BY <2>1 DEF RowOK, RowOf
  <2>3. RetryBase \in 0 .. MaxDelay /\ TRUE \in BOOLEAN
    BY WorkerConstants
  <2> QED BY <2>1, <2>2, <2>3, BeginTyped, InternalTyped, RetryTyped, SmallTyped
<1>w. {"unsent", "taken", "begun", "sending", "answered", "failed"} \subseteq Working
  BY DEF Working, Started
<1>1. CASE Handoff(s)
  <2>1. Owner[s] \in Proc /\ dispatch[Owner[s]] \in Seq(Slot)
    BY WorkerConstants DEF ProcTyped
  <2>2. Append(dispatch[Owner[s]], s) \in Seq(Slot)
    BY <2>1
  <2>3. ProcTyped'
    BY <1>1, <2>1, <2>2 DEF Handoff, ProcTyped, lifeVars
  <2>4. JobTyped'
    BY <1>1, GotoTyped DEF Handoff
  <2> QED BY <1>1, <2>3, <2>4 DEF Handoff, StoreTyped, storeVars
<1>1a. CASE Offer(s)
  BY <1>1a, GotoOnlyTyped DEF Offer
<1>2. CASE HandoffFails(s)
  BY <1>2, <1>i, WriteCompleteTyped DEF HandoffFails
<1>3. CASE ReleaseOnStop(s)
  BY <1>3, <1>i, WriteCompleteTyped DEF ReleaseOnStop
<1>4. CASE LoadFails(s)
  BY <1>4, <1>w, GotoOnlyTyped DEF LoadFails
<1>5. CASE BeginAttempt(s)
  BY <1>5, <1>i, <1>w, WriteGotoTyped DEF BeginAttempt
<1>6. CASE RefuseAttempt(s)
  BY <1>6, <1>i, WriteCompleteTyped DEF RefuseAttempt
<1>7. CASE BeginReplyLost(s)
  BY <1>7, <1>i, <1>w, WriteGotoTyped DEF BeginReplyLost
<1>8. CASE CallProvider(s)
  BY <1>8, <1>w, GotoOnlyTyped DEF CallProvider
<1>9. CASE RefuseRoute(s)
  <2> DEFINE j == [job[s] EXCEPT !.pc = "answered", !.answer = "terminal"]
  <2>1. job' = [job EXCEPT ![s] = j]
    BY <1>9 DEF RefuseRoute
  <2>2. job[s] \in Job /\ job[s].target \in Target
    BY <1>9 DEF RefuseRoute, JobTyped
  <2>3. j \in Job /\ j.target \in Target
    BY <2>2, <1>w DEF Job, Answers
  <2>4. JobTyped'
    <3> HIDE DEF j
    <3> QED BY <2>1, <2>3 DEF JobTyped
  <2>5. StoreTyped'
    BY <1>9 DEF RefuseRoute, StoreTyped, storeVars
  <2>6. ProcTyped'
    BY <1>9 DEF RefuseRoute, ProcTyped, procVars, lifeVars
  <2> QED BY <2>4, <2>5, <2>6
<1>10. CASE ProviderAccepts(s)
  <2>1. JobTyped'
    BY <1>10 DEF ProviderAccepts, JobTyped, Job
  <2>2. job[s].target \in Target
    BY <1>10, RowOfTyped DEF ProviderAccepts
  <2> QED BY <1>10, <2>1, <2>2 DEF ProviderAccepts, StoreTyped, ProcTyped, procVars, lifeVars
<1>11. ASSUME NEW answer \in Answers, NEW after \in RetryAfters \cup {0},
              ProviderAnswers(s, answer, after)
       PROVE  TypeOK'
  <2> DEFINE j == [job[s] EXCEPT !.pc = "answered"]
             k == [j EXCEPT !.answer = answer]
             l == [k EXCEPT !.after = after]
  <2>1. JobTyped'
    <3>1. job[s] \in Job /\ job[s].target \in Target
      BY <1>11 DEF ProviderAnswers, JobTyped
    <3>2. j \in Job /\ j.target = job[s].target
      BY <3>1, <1>w DEF Job
    <3>3. k \in Job /\ k.target = j.target
      BY <3>2 DEF Job
    <3>4. l \in Job /\ l.target = k.target
      BY <3>3 DEF Job
    <3>5. job' = [job EXCEPT ![s] = l]
      BY <1>11 DEF ProviderAnswers, JobTyped
    <3> QED BY <3>1, <3>2, <3>3, <3>4, <3>5 DEF JobTyped
  <2> QED BY <1>11, <2>1 DEF ProviderAnswers, StoreTyped, ProcTyped, storeVars, procVars, lifeVars
<1>12. CASE DeliveryRaises(s)
  BY <1>12, <1>w, GotoOnlyTyped DEF DeliveryRaises
<1>13. ASSUME NEW delay \in RetryDelays, RecordResult(s, delay)
       PROVE  TypeOK'
  BY <1>13, RecordedTyped, WriteCompleteTyped DEF RecordResult
<1>14. ASSUME NEW delay \in RetryDelays, RecordReplyLost(s, delay)
       PROVE  TypeOK'
  BY <1>14, <1>w, RecordedTyped, WriteGotoTyped DEF RecordReplyLost
<1>15. CASE RecoverStarted(s)
  BY <1>15, <1>i, WriteCompleteTyped DEF RecoverStarted
<1>16. CASE RecoverUnsent(s)
  BY <1>16, <1>i, WriteCompleteTyped DEF RecoverUnsent
<1>17. CASE RecoveryFails(s)
  <2>1. JobTyped' /\ ProcTyped'
    BY <1>17, CompleteTyped DEF RecoveryFails
  <2> QED BY <1>17, <2>1 DEF RecoveryFails, StoreTyped, storeVars
<1>18. CASE Renew(s)
  <2>1. StoreTyped'
    BY <1>18, <1>i, WriteTyped DEF Renew
  <2> QED BY <1>18, <2>1 DEF Renew, JobTyped, ProcTyped, procVars, lifeVars
<1> QED
  BY <1>1, <1>1a, <1>2, <1>3, <1>4, <1>5, <1>6, <1>7, <1>8, <1>9, <1>10, <1>11, <1>12,
     <1>13, <1>14, <1>15, <1>16, <1>17, <1>18 DEF SlotStep

(* A worker takes a delivery from the queue of its process. *)
LEMMA DequeueHead ==
    ASSUME TypeOK, QueueOK, NEW p \in Proc, dispatch[p] # <<>>
    PROVE  /\ Head(dispatch[p]) \in Slot
           /\ job[Head(dispatch[p])].pc = "queued"
           /\ Tail(dispatch[p]) \in Seq(Slot)
<1>1. dispatch[p] \in Seq(Slot)
  BY DEF TypeOK
<1>2. /\ Head(dispatch[p]) = dispatch[p][1]
      /\ Head(dispatch[p]) \in Slot
      /\ Tail(dispatch[p]) \in Seq(Slot)
      /\ 1 \in 1 .. Len(dispatch[p])
  BY <1>1
<1> QED BY <1>2 DEF QueueOK

LEMMA ProcStepTyped ==
    ASSUME TypeOK, QueueOK, NEW p \in Proc, ProcStep(p)
    PROVE  TypeOK'
<1> USE TypeHalves
<1>1. CASE Dequeue(p)
  <2>1. /\ Head(dispatch[p]) \in Slot
        /\ job[Head(dispatch[p])].pc = "queued"
        /\ Tail(dispatch[p]) \in Seq(Slot)
    BY <1>1, DequeueHead DEF Dequeue
  <2>2. JobTyped'
    BY <1>1, <2>1, GotoTyped DEF Dequeue, Working
  <2>3. ProcTyped'
    BY <1>1, <2>1 DEF Dequeue, ProcTyped, lifeVars
  <2> QED BY <1>1, <2>2, <2>3 DEF Dequeue, StoreTyped, storeVars
<1>2. CASE WorkerReturns(p)
  <2>1. workers' \in [Proc -> 0 .. Workers]
    BY <1>2, WorkerConstants DEF WorkerReturns, ProcTyped
  <2> QED BY <1>2, <2>1 DEF WorkerReturns, StoreTyped, JobTyped, ProcTyped, storeVars
<1>3. CASE ClaimerReturns(p)
  BY <1>3 DEF ClaimerReturns, StoreTyped, JobTyped, ProcTyped, storeVars, lifeVars
<1>4. ASSUME Lost(p), outages' \in 0 .. MaxOutages
      PROVE  TypeOK'
  <2>1. Idle \in Job /\ Idle.pc = "idle"
    BY DEF Idle, Job
  <2>2. JobTyped'
    BY <1>4, <2>1 DEF Lost, JobTyped
  <2>3. <<>> \in Seq(Slot) /\ [c \in Channel |-> 0] \in [Channel -> Nat] /\ 0 \in 0 .. Workers
    BY WorkerConstants
  <2>4. ProcTyped'
    BY <1>4, <2>3 DEF Lost, ProcTyped
  <2> QED BY <1>4, <2>2, <2>4 DEF Lost, StoreTyped, storeVars
<1>5. CASE Crash(p)
  <2>1. outages + 1 \in 0 .. MaxOutages
    BY <1>5, WorkerConstants DEF Crash, ProcTyped
  <2> QED BY <1>4, <1>5, <2>1 DEF Crash
<1>6. CASE Exit(p)
  BY <1>4, <1>6 DEF Exit, ProcTyped
<1>7. CASE Stop(p)
  <2>1. outages + 1 \in 0 .. MaxOutages
    BY <1>7, WorkerConstants DEF Stop, ProcTyped
  <2>2. claimer' \in [Proc -> {"looping", "late", "gone"}]
    BY <1>7 DEF Stop, ProcTyped
  <2> QED BY <1>7, <2>1, <2>2 DEF Stop, StoreTyped, JobTyped, ProcTyped, storeVars
<1>8. CASE Stopped(p)
  BY <1>8 DEF Stopped, StoreTyped, JobTyped, ProcTyped, storeVars
<1>9. CASE Start(p)
  <2>1. Workers \in 0 .. Workers
    BY WorkerConstants
  <2> QED BY <1>9, <2>1 DEF Start, StoreTyped, JobTyped, ProcTyped, storeVars
<1> QED
  BY <1>1, <1>2, <1>3, <1>5, <1>6, <1>7, <1>8, <1>9, ClaimStepTyped
     DEF ProcStep, ClaimerStep, WorkerStep

LEMMA NextTyped ==
    ASSUME TypeOK, RowOK, QueueOK, [Next]_vars
    PROVE  TypeOK'
<1>1. CASE Tick
  <2>1. outbox' \in [Target -> Row(Slot)]
    BY <1>1, TickTyped DEF Tick, TypeOK
  <2> QED
    BY <1>1, <2>1, TypeHalves DEF Tick, StoreTyped, JobTyped, ProcTyped, storeVars, procVars, lifeVars
<1>2. CASE UNCHANGED vars
  BY <1>2 DEF vars, storeVars, procVars, lifeVars, TypeOK
<1> QED BY <1>1, <1>2, AlertTyped, SlotStepTyped, ProcStepTyped DEF Next, Step

-----------------------------------------------------------------------------
(* The inductive invariant, kind of step by kind of step.                  *)

\* A delivery stays, leaves, stays with the claimer, or moves on to a recovery.
Moves(s) ==
    \/ job'[s] = job[s]
    \/ job'[s] = Idle /\ job[s].pc # "queued"
    \/ job'[s] = [job[s] EXCEPT !.pc = "handing"] /\ job[s].pc = "claimed"
    \/ job'[s] = [job[s] EXCEPT !.pc = "claimed"] /\ job[s].pc = "handing"
    \/ job'[s] = [job[s] EXCEPT !.pc = "failed"] /\ job[s].pc \in Started
    \/ job'[s] = [job[s] EXCEPT !.pc = "unsent"] /\ job[s].pc = "taken"

LEMMA MovesSteady ==
    ASSUME TypeOK, NEW s \in Slot, Moves(s)
    PROVE  Steady(s)
<1>1. job[s] \in Job
  BY DEF TypeOK
<1> QED BY <1>1 DEF Moves, Steady, Idle, Job, Started

LEMMA QueueKept ==
    ASSUME TypeOK, QueueOK, dispatch' = dispatch,
           \A s \in Slot : job[s].pc = "queued" => job'[s].pc = "queued"
    PROVE  QueueOK'
<1> SUFFICES ASSUME NEW p \in Proc, NEW i \in 1 .. Len(dispatch[p])
             PROVE  /\ job'[dispatch[p][i]].pc = "queued"
                    /\ Owner[dispatch[p][i]] = p
                    /\ \A k \in 1 .. Len(dispatch[p]) : dispatch[p][k] = dispatch[p][i] => k = i
  BY DEF QueueOK
<1>1. dispatch[p] \in Seq(Slot)
  BY DEF TypeOK
<1>2. dispatch[p][i] \in Slot
  BY <1>1
<1> QED BY <1>2 DEF QueueOK

LEMMA JobKept ==
    ASSUME TypeOK, JobOK, accepted' = accepted, NEW s \in Slot, Moves(s)
    PROVE  /\ job'[s].acc => job'[s].pc \in Started \ {"begun"} /\ job'[s].target \in accepted'
           /\ job'[s].pc = "answered" /\ job'[s].acc => job'[s].answer \in {"delivered", "ambiguous"}
           /\ job'[s].pc = "answered" /\ job'[s].answer = "delivered" => job'[s].acc
<1>1. job[s] \in Job
  BY DEF TypeOK
<1> QED BY <1>1 DEF Moves, JobOK, Idle, Job, Started

LEMMA FlightKept ==
    ASSUME ObsoleteNotInFlight, alert' = alert,
           \A t \in Target : outbox'[t].inFlight => outbox[t].inFlight
    PROVE  ObsoleteNotInFlight'
BY DEF ObsoleteNotInFlight, Obsolete

LEMMA MovesKeep ==
    ASSUME TypeOK, QueueOK, JobOK, dispatch' = dispatch, accepted' = accepted,
           \A s \in Slot : Moves(s)
    PROVE  /\ QueueOK' /\ JobOK'
           /\ \A s \in Slot : Steady(s)
<1>1. \A s \in Slot : job[s].pc = "queued" => job'[s].pc = "queued"
  BY DEF Moves, Started
<1>2. QueueOK'
  BY <1>1, QueueKept
<1>3. JobOK'
  BY JobKept DEF JobOK
<1> QED BY <1>2, <1>3, MovesSteady

(* The row of a target. *)
LEMMA RowFacts ==
    ASSUME IInv, NEW t \in Target
    PROVE  /\ outbox[t] \in Row(Slot)
           /\ outbox[t].state = "absent" => ~outbox[t].everUnknown
           /\ outbox[t].state # "pending" => ~outbox[t].inFlight
           /\ Foreign(outbox[t], outbox[t])
<1>1. outbox[t] \in Row(Slot)
  BY DEF IInv, TypeOK
<1>2. /\ outbox[t].state = "absent" => ~outbox[t].everUnknown
      /\ outbox[t].state # "pending" => ~outbox[t].inFlight
  BY DEF IInv, RowOK
<1> QED BY <1>1, <1>2, Foreigners

\* What one step may do to the row of t: an attempt begins only on a due row,
\* and on one that discloses an earlier acceptance; delivered and cancelled are
\* final; and the promise of AlertObligation is kept.
RowStepOK(t) ==
    /\ outbox'[t].attempts > outbox[t].attempts =>
            /\ t \in accepted => outbox[t].everUnknown
            /\ outbox[t].next <= 0
    /\ outbox[t].state \in {"delivered", "cancelled"} =>
            outbox'[t].state \in {outbox[t].state, "purged"}

Promise(t) ==
    \/ Obligation!Oblige(t) \/ Obligation!Admit(t) \/ Obligation!Accept(t)
    \/ Obligation!TakeBack(t) \/ Obligation!Deliver(t) \/ Obligation!GiveUp(t)
    \/ Obligation!Reopen(t) \/ Obligation!Forget(t) \/ Obligation!Rest(t)

StepOK == \A t \in Target : RowStepOK(t) /\ Promise(t)

\* The state of a row as the obligation sees it.
StatusOf(r) ==
    CASE r.state = "absent"  -> "none"
      [] r.state = "pending" -> "open"
      [] r.state = "purged"  -> "forgotten"
      [] OTHER               -> r.state

LEMMA Seen ==
    ASSUME NEW t \in Target
    PROVE  /\ ObligationStatus[t] = StatusOf(outbox[t])
           /\ ObligationStatus'[t] = StatusOf(outbox'[t])
           /\ t \in Doubt <=> outbox[t].everUnknown \/ outbox[t].inFlight
           /\ t \in Doubt' <=> outbox'[t].everUnknown \/ outbox'[t].inFlight
BY DEF ObligationStatus, StatusOf, Doubt

LEMMA ForeignPromise ==
    ASSUME IInv, TypeOK', accepted' = accepted,
           \A t \in Target : Foreign(outbox[t], outbox'[t])
    PROVE  StepOK
<1> SUFFICES ASSUME NEW t \in Target PROVE RowStepOK(t) /\ Promise(t)
  BY DEF StepOK
<1> DEFINE r == outbox[t]
           q == outbox'[t]
<1>1. /\ r \in Row(Slot) /\ q \in Row(Slot) /\ Foreign(r, q)
      /\ r.state # "pending" => ~r.inFlight
      /\ r.state = "absent" => ~r.everUnknown
      /\ q.state # "pending" => ~q.inFlight \/ r.inFlight
  BY RowFacts DEF TypeOK, Foreign, Disclosed, Opened, Retimed
<1>2. RowStepOK(t)
  BY <1>1 DEF RowStepOK, Foreign, Disclosed, Opened, Retimed, Row, Settled
<1>3. /\ ObligationStatus[t] = StatusOf(r) /\ ObligationStatus'[t] = StatusOf(q)
      /\ t \in Doubt <=> r.everUnknown \/ r.inFlight
      /\ t \in Doubt' <=> q.everUnknown \/ q.inFlight
  BY Seen
<1>4. Obligation!Unheard(t)
  BY DEF Obligation!Unheard
<1>5. CASE Disclosed(r, q)
  <2>1. Obligation!SameDoubt(t)
    BY <1>3, <1>5 DEF Disclosed, Obligation!SameDoubt
  <2>2. CASE q.state = "pending"
    <3>1. Obligation!Rest(t)
      BY <1>3, <1>4, <1>5, <2>1, <2>2 DEF Disclosed, StatusOf, Obligation!Rest, Obligation!Keeps
    <3> QED BY <1>2, <3>1 DEF Promise
  <2>3. CASE q.state \in {"terminal", "cancelled"}
    <3>1. t \in accepted => t \in Doubt'
      BY <1>3, <1>5 DEF Disclosed, IInv, AcceptanceOK, AcceptanceHeld
    <3>2. ObligationStatus[t] = "open" /\ ObligationStatus'[t] \in {"terminal", "cancelled"}
      BY <1>3, <1>5, <2>3 DEF Disclosed, StatusOf
    <3>3. Obligation!GiveUp(t)
      BY <1>4, <3>1, <3>2 DEF Obligation!GiveUp
    <3> QED BY <1>2, <3>3 DEF Promise
  <2> QED BY <1>5, <2>2, <2>3 DEF Disclosed
<1>6. CASE Opened(r, q)
  <2>1. Obligation!SameDoubt(t)
    BY <1>1, <1>3, <1>6 DEF Opened, Obligation!SameDoubt
  <2>2. ObligationStatus[t] \in {"none", "terminal"} /\ ObligationStatus'[t] = "open"
    BY <1>3, <1>6 DEF Opened, StatusOf
  <2>3. Obligation!Oblige(t) \/ Obligation!Reopen(t)
    BY <1>4, <2>1, <2>2 DEF Obligation!Oblige, Obligation!Reopen
  <2> QED BY <1>2, <2>3 DEF Promise
<1>7. CASE Retimed(r, q)
  <2>1. Obligation!SameDoubt(t)
    BY <1>3, <1>7 DEF Retimed, Obligation!SameDoubt
  <2>2. CASE q.state = r.state
    <3>1. ObligationStatus'[t] = ObligationStatus[t]
      BY <1>3, <2>2 DEF StatusOf
    <3>2. Obligation!Rest(t)
      BY <1>4, <2>1, <3>1 DEF Obligation!Rest, Obligation!Keeps
    <3> QED BY <1>2, <3>2 DEF Promise
  <2>3. CASE r.state \in Settled /\ q.state = "purged"
    <3>1. ObligationStatus[t] \in Obligation!Ended /\ ObligationStatus'[t] = "forgotten"
      BY <1>3, <2>3 DEF StatusOf, Settled, Obligation!Ended
    <3>2. Obligation!Forget(t)
      BY <1>4, <2>1, <3>1 DEF Obligation!Forget
    <3> QED BY <1>2, <3>2 DEF Promise
  <2> QED BY <1>7, <2>2, <2>3 DEF Retimed
<1> QED BY <1>1, <1>5, <1>6, <1>7 DEF Foreign

LEMMA RestPromise ==
    ASSUME IInv, accepted' = accepted, NEW t \in Target, outbox'[t] = outbox[t]
    PROVE  RowStepOK(t) /\ Promise(t)
<1>1. RowStepOK(t)
  BY RowFacts DEF RowStepOK, Row
<1>2. Obligation!Rest(t)
  BY Seen DEF Obligation!Rest, Obligation!Keeps, Obligation!Unheard, Obligation!SameDoubt
<1> QED BY <1>1, <1>2 DEF Promise

LEMMA HolderPromise ==
    ASSUME IInv, TypeOK', accepted' = accepted,
           NEW s \in Slot, job[s].pc # "idle",
           NEW q, Write(s, q), Ended(RowOf(s), q, s, job[s].acc)
    PROVE  StepOK
<1> DEFINE v == job[s].target
           r == outbox[v]
<1>1. /\ v \in Target /\ r \in Row(Slot) /\ q \in Row(Slot) /\ outbox'[v] = q
      /\ \A t \in Target \ {v} : outbox'[t] = outbox[t]
      /\ Ended(r, q, s, job[s].acc)
  BY DEF IInv, TypeOK, Write, RowOf
<1>2. ASSUME NEW t \in Target, outbox'[t] = outbox[t]
      PROVE  RowStepOK(t) /\ Promise(t)
  BY <1>2, RestPromise
<1>3. ASSUME q # r
      PROVE  RowStepOK(v) /\ Promise(v)
  <2>1. /\ Holds(r, s)
        /\ q.state \in {"pending"} \cup Settled
        /\ q.state = "delivered" => job[s].acc
        /\ job[s].acc => q.state = "delivered" \/ q.everUnknown
        /\ ~q.inFlight
        /\ r.everUnknown => q.everUnknown
        /\ q.attempts = r.attempts
    BY <1>1, <1>3 DEF Ended
  <2>2. RowStepOK(v)
    BY <1>1, <2>1 DEF RowStepOK, Holds, Row
  <2>3. /\ ObligationStatus[v] = "open" /\ ObligationStatus'[v] = StatusOf(q)
        /\ v \in Doubt' <=> q.everUnknown
        /\ Obligation!Unheard(v)
    BY <1>1, <2>1, Seen DEF Holds, StatusOf, Obligation!Unheard
  <2>4. v \in accepted => q.everUnknown \/ q.state = "delivered"
    <3>1. CASE r.everUnknown
      BY <2>1, <3>1
    <3>2. CASE ~r.everUnknown /\ v \in accepted
      <4>1. AcceptanceHeld(v)
        BY <1>1, <2>1, <3>2 DEF IInv, AcceptanceOK, Holds
      <4>2. job[s].acc
        BY <2>1, <4>1 DEF AcceptanceHeld, Holds
      <4> QED BY <2>1, <4>2
    <3> QED BY <3>1, <3>2
  <2>5. CASE q.state = "pending"
    <3>1. Obligation!Admit(v) \/ Obligation!TakeBack(v)
      BY <2>3, <2>4, <2>5
         DEF StatusOf, Obligation!Admit, Obligation!TakeBack, Obligation!Keeps, Obligation!Clear
    <3> QED BY <2>2, <3>1 DEF Promise
  <2>6. CASE q.state = "delivered"
    <3>1. v \in accepted
      BY <2>1, <2>6 DEF IInv, JobOK
    <3>2. Obligation!Deliver(v)
      BY <2>3, <2>6, <3>1 DEF StatusOf, Obligation!Deliver
    <3> QED BY <2>2, <3>2 DEF Promise
  <2>7. CASE q.state \in {"terminal", "cancelled"}
    <3>1. Obligation!GiveUp(v)
      BY <2>3, <2>4, <2>7 DEF StatusOf, Obligation!GiveUp
    <3> QED BY <2>2, <3>1 DEF Promise
  <2> QED BY <2>1, <2>5, <2>6, <2>7 DEF Settled
<1>4. ASSUME NEW t \in Target
      PROVE  RowStepOK(t) /\ Promise(t)
  BY <1>1, <1>2, <1>3
<1> QED BY <1>4 DEF StepOK

LEMMA ForeignStep ==
    ASSUME IInv, TypeOK', ObsoleteNotInFlight', dispatch' = dispatch, accepted' = accepted,
           \A t \in Target : Foreign(outbox[t], outbox'[t]),
           \A s \in Slot : Moves(s)
    PROVE  IInv' /\ StepOK
<1>1. QueueOK' /\ JobOK' /\ \A s \in Slot : Steady(s)
  BY MovesKeep DEF IInv
<1>2. Core'
  BY <1>1, ForeignKeeps DEF IInv, Core
<1>3. StepOK
  BY ForeignPromise
<1> QED BY <1>1, <1>2, <1>3 DEF IInv, Core

LEMMA ForeignFlight ==
    ASSUME ObsoleteNotInFlight, alert' = alert,
           \A t \in Target : Foreign(outbox[t], outbox'[t])
    PROVE  ObsoleteNotInFlight'
<1>1. \A t \in Target : outbox'[t].inFlight => outbox[t].inFlight
  BY DEF Foreign, Disclosed, Opened, Retimed
<1> QED BY <1>1, FlightKept

LEMMA HolderStep ==
    ASSUME IInv, TypeOK', alert' = alert, dispatch' = dispatch, accepted' = accepted,
           NEW s \in Slot, job[s].pc # "idle",
           NEW q, Write(s, q), Ended(RowOf(s), q, s, job[s].acc),
           Moves(s), job'[s].pc \notin {"begun", "sending"},
           \A u \in Slot \ {s} : job'[u] = job[u]
    PROVE  IInv' /\ StepOK
<1>1. QueueOK' /\ JobOK' /\ Steady(s)
  <2>1. \A u \in Slot : Moves(u)
    BY DEF Moves
  <2> QED BY <2>1, MovesKeep DEF IInv
<1>2. job[s].acc => job[s].pc \in Started
  BY DEF IInv, JobOK
<1>3. Core'
  BY <1>1, <1>2, HolderKeeps DEF IInv, Core
<1>4. ObsoleteNotInFlight'
  <2>1. job[s].target \in Target /\ outbox \in [Target -> Row(Slot)]
    BY DEF IInv, TypeOK
  <2>2. \A t \in Target : outbox'[t].inFlight => outbox[t].inFlight
    BY <2>1 DEF Write, Ended, RowOf
  <2> QED BY <2>2, FlightKept DEF IInv
<1>5. StepOK
  BY HolderPromise
<1> QED BY <1>1, <1>3, <1>4, <1>5 DEF IInv, Core

(* The alert store, the upgrade scan, the operator and retention. *)
LEMMA StayMoves ==
    ASSUME job' = job
    PROVE  \A s \in Slot : Moves(s)
BY DEF Moves

LEMMA AlertKeeps ==
    ASSUME IInv, AlertStep
    PROVE  IInv' /\ StepOK
<1>t. TypeOK'
  BY AlertTyped DEF IInv
<1>1. ASSUME NEW a \in Alert, CreateAlert(a)
      PROVE  IInv' /\ StepOK
  <2>1. ASSUME NEW t \in Target
        PROVE  Foreign(outbox[t], outbox'[t])
    <3>1. outbox'[t] \in {outbox[t], InsertTarget(outbox[t], DelayOf[t])}
      BY <1>1 DEF CreateAlert
    <3>2. DelayOf[t] \in 0 .. MaxDelay
      BY WorkerConstants
    <3>3. Foreign(outbox[t], InsertTarget(outbox[t], DelayOf[t]))
      BY <3>2, RowFacts, Foreigners
    <3> QED BY <3>1, <3>3, RowFacts
  <2>2. ObsoleteNotInFlight'
    <3>1. ASSUME NEW t \in Target, Obsolete(t)'
          PROVE  Obsolete(t)
      <4>1. AlertOf[t] \in Alert /\ alert \in [Alert -> Status]
        BY WorkerConstants DEF IInv, TypeOK
      <4> QED BY <1>1, <3>1, <4>1 DEF Obsolete, CreateAlert
    <3>2. \A t \in Target : outbox'[t].inFlight => outbox[t].inFlight
      BY <2>1 DEF Foreign, Disclosed, Opened, Retimed
    <3> QED BY <3>1, <3>2 DEF ObsoleteNotInFlight, IInv
  <2>3. dispatch' = dispatch /\ accepted' = accepted /\ job' = job
    BY <1>1 DEF CreateAlert, procVars
  <2> QED BY <1>t, <2>1, <2>2, <2>3, ForeignStep, StayMoves
<1>2. ASSUME NEW a \in Alert, NEW from, NEW to \in Status, CloseAlert(a, from, to)
      PROVE  IInv' /\ StepOK
  <2>1. ASSUME NEW t \in Target
        PROVE  /\ Foreign(outbox[t], outbox'[t])
               /\ AlertOf[t] = a /\ IsEscalation(t) => ~outbox'[t].inFlight
    <3>1. /\ Foreign(outbox[t], CancelEscalation(outbox[t]))
          /\ ~CancelEscalation(outbox[t]).inFlight
      BY RowFacts, Foreigners, Constants
    <3>2. /\ AlertOf[t] = a /\ IsEscalation(t) => outbox'[t] = CancelEscalation(outbox[t])
          /\ ~(AlertOf[t] = a /\ IsEscalation(t)) => outbox'[t] = outbox[t]
      BY <1>2 DEF CloseAlert
    <3>3. Foreign(outbox[t], outbox[t])
      BY RowFacts
    <3> QED BY <3>1, <3>2, <3>3
  <2>2. ObsoleteNotInFlight'
    <3> SUFFICES ASSUME NEW t \in Target, Obsolete(t)'
                 PROVE  ~outbox'[t].inFlight
      BY DEF ObsoleteNotInFlight
    <3>1. CASE AlertOf[t] = a
      BY <3>1, <2>1 DEF Obsolete
    <3>2. CASE AlertOf[t] # a
      <4>1. AlertOf[t] \in Alert /\ alert \in [Alert -> Status]
        BY WorkerConstants DEF IInv, TypeOK
      <4>2. outbox'[t] = outbox[t] /\ alert'[AlertOf[t]] = alert[AlertOf[t]]
        BY <1>2, <3>2, <4>1 DEF CloseAlert
      <4> QED BY <4>2 DEF Obsolete, ObsoleteNotInFlight, IInv
    <3> QED BY <3>1, <3>2
  <2>3. dispatch' = dispatch /\ accepted' = accepted /\ job' = job
    BY <1>2 DEF CloseAlert, procVars
  <2> QED BY <1>t, <2>1, <2>2, <2>3, ForeignStep, StayMoves
<1>3. CASE ReadBackfill
  <2>1. \A t \in Target : Foreign(outbox[t], outbox'[t])
    BY <1>3, RowFacts DEF ReadBackfill
  <2>2. /\ alert' = alert /\ dispatch' = dispatch
        /\ accepted' = accepted /\ job' = job
    BY <1>3 DEF ReadBackfill, procVars
  <2>3. ObsoleteNotInFlight'
    BY <2>1, <2>2, ForeignFlight DEF IInv
  <2> QED BY <1>t, <2>1, <2>2, <2>3, ForeignStep, StayMoves
<1>4. CASE CommitBackfill
  <2>1. ASSUME NEW t \in Target
        PROVE  Foreign(outbox[t], outbox'[t])
    <3>1. outbox'[t] \in {outbox[t], InsertTarget(outbox[t], outbox[t].next)}
      BY <1>4 DEF CommitBackfill
    <3>2. CASE outbox[t].state = "absent"
      <4>1. outbox[t].next \in -AgeCap .. MaxDelay /\ outbox[t].next >= 0
        BY <3>2, RowFacts DEF IInv, RowOK, Row
      <4>2. outbox[t].next \in 0 .. MaxDelay
        BY <4>1, Constants, AgeCapNat
      <4>3. Foreign(outbox[t], InsertTarget(outbox[t], outbox[t].next))
        BY <4>2, RowFacts, Foreigners
      <4> QED BY <3>1, <4>3, RowFacts
    <3>3. CASE outbox[t].state # "absent"
      BY <3>1, <3>3, RowFacts DEF InsertTarget
    <3> QED BY <3>2, <3>3
  <2>2. /\ alert' = alert /\ dispatch' = dispatch
        /\ accepted' = accepted /\ job' = job
    BY <1>4 DEF CommitBackfill, procVars
  <2>3. ObsoleteNotInFlight'
    BY <2>1, <2>2, ForeignFlight DEF IInv
  <2> QED BY <1>t, <2>1, <2>2, <2>3, ForeignStep, StayMoves
<1>5. ASSUME NEW t \in Target, NEW ambiguous \in BOOLEAN, Replay(t, ambiguous)
      PROVE  IInv' /\ StepOK
  <2>1. Foreign(outbox[t], RequeueTerminal(outbox[t]))
    BY <1>5, RowFacts, Foreigners, Constants DEF Replay
  <2>2. ASSUME NEW u \in Target
        PROVE  Foreign(outbox[u], outbox'[u])
    <3>1. outbox'[u] = IF u = t THEN RequeueTerminal(outbox[t]) ELSE outbox[u]
      BY <1>5 DEF Replay, IInv, TypeOK
    <3> QED BY <2>1, <3>1, RowFacts
  <2>3. /\ alert' = alert /\ dispatch' = dispatch
        /\ accepted' = accepted /\ job' = job
    BY <1>5 DEF Replay, procVars
  <2>4. ObsoleteNotInFlight'
    BY <2>2, <2>3, ForeignFlight DEF IInv
  <2> QED BY <1>t, <2>2, <2>3, <2>4, ForeignStep, StayMoves
<1>6. ASSUME NEW t \in Target, CleanupCompleted(t)
      PROVE  IInv' /\ StepOK
  <2>1. Foreign(outbox[t], Purge(outbox[t]))
    BY <1>6, RowFacts, Foreigners, Constants DEF CleanupCompleted
  <2>2. ASSUME NEW u \in Target
        PROVE  Foreign(outbox[u], outbox'[u])
    <3>1. outbox'[u] = IF u = t THEN Purge(outbox[t]) ELSE outbox[u]
      BY <1>6 DEF CleanupCompleted, IInv, TypeOK
    <3> QED BY <2>1, <3>1, RowFacts
  <2>3. /\ alert' = alert /\ dispatch' = dispatch
        /\ accepted' = accepted /\ job' = job
    BY <1>6 DEF CleanupCompleted, procVars, storeVars
  <2>4. ObsoleteNotInFlight'
    BY <2>2, <2>3, ForeignFlight DEF IInv
  <2> QED BY <1>t, <2>2, <2>3, <2>4, ForeignStep, StayMoves
<1>7. {"acknowledged", "closed"} \subseteq Status
  BY DEF Status
<1> QED
  BY <1>1, <1>2, <1>3, <1>4, <1>5, <1>6, <1>7
     DEF AlertStep, AcknowledgeAlert, ResolveAlert, MarkFalsePositive

(* The claimer. *)
LEMMA LeasesForeign ==
    ASSUME IInv, NEW p \in Proc, NEW s \in Slot, NEW t \in Target, Leases(p, s, t)
    PROVE  /\ Disclosed(outbox[t], outbox'[t])
           /\ \A u \in Target : Foreign(outbox[u], outbox'[u])
<1>1. outbox[t].state = "pending" /\ outbox[t].next <= 0 /\ ~IsStale(outbox[t])
  BY DEF Leases, Candidates, IsDue, IsStale
<1>2. Cleaned[t] = outbox[t]
  BY <1>1, OthersDisclose, RowFacts DEF Cleaned
<1>3. outbox'[t] = Claim(outbox[t], s)
  BY <1>2 DEF Leases, Cleaned
<1>4. Disclosed(outbox[t], outbox'[t])
  BY <1>1, <1>3, OthersDisclose, RowFacts
<1>5. ASSUME NEW u \in Target, u # t
      PROVE  Foreign(outbox[u], outbox'[u])
  <2>1. outbox'[u] = ExpireStale(outbox[u])
    BY <1>5 DEF Leases, Cleaned
  <2> QED BY <2>1, Foreigners, RowFacts
<1> QED BY <1>4, <1>5 DEF Foreign

LEMMA ClaimKeeps ==
    ASSUME IInv, NEW p \in Proc, ClaimStep(p)
    PROVE  IInv' /\ StepOK
<1>t. TypeOK'
  BY ClaimStepTyped DEF IInv
<1>1. ASSUME NEW s \in Slot, NEW t \in Target, ClaimDue(p, s, t)
      PROVE  IInv' /\ StepOK
  <2>1. /\ Disclosed(outbox[t], outbox'[t])
        /\ \A u \in Target : Foreign(outbox[u], outbox'[u])
    BY <1>1, LeasesForeign DEF ClaimDue
  <2>2. /\ alert' = alert /\ dispatch' = dispatch /\ accepted' = accepted
    BY <1>1 DEF ClaimDue, storeVars
  <2>3. /\ job[s].pc = "idle"
        /\ job'[s].pc = "claimed" /\ job'[s].target = t /\ ~job'[s].acc
        /\ \A u \in Slot \ {s} : job'[u] = job[u]
    BY <1>1 DEF ClaimDue, Leases, IInv, TypeOK, Idle
  <2>4. ObsoleteNotInFlight'
    BY <2>1, <2>2, ForeignFlight DEF IInv
  <2>5. QueueOK'
    BY <2>2, <2>3, QueueKept DEF IInv
  <2>6. JobOK'
    <3>1. ASSUME NEW u \in Slot, u # s
          PROVE  Moves(u)
      BY <2>3, <3>1 DEF Moves
    <3> QED BY <2>2, <2>3, <3>1, JobKept DEF IInv, JobOK
  <2>7. Core'
    <3>1. ASSUME NEW u \in Slot
          PROVE  \/ Steady(u)
                 \/ job'[u].pc = "claimed" /\ Disclosed(outbox[job'[u].target], outbox'[job'[u].target])
      BY <2>1, <2>3 DEF Steady
    <3> QED BY <1>t, <2>1, <2>2, <3>1, ForeignKeeps DEF IInv, Core
  <2>8. StepOK
    BY <1>t, <2>1, <2>2, ForeignPromise
  <2> QED BY <1>t, <2>4, <2>5, <2>6, <2>7, <2>8 DEF IInv, Core
<1>2. ASSUME NEW s \in Slot, NEW t \in Target, ClaimReplyLost(p, s, t)
      PROVE  IInv' /\ StepOK
  <2>1. \A u \in Target : Foreign(outbox[u], outbox'[u])
    BY <1>2, LeasesForeign DEF ClaimReplyLost
  <2>2. /\ alert' = alert /\ dispatch' = dispatch
        /\ accepted' = accepted /\ job' = job
    BY <1>2 DEF ClaimReplyLost, storeVars, procVars
  <2>3. ObsoleteNotInFlight'
    BY <2>1, <2>2, ForeignFlight DEF IInv
  <2> QED BY <1>t, <2>1, <2>2, <2>3, ForeignStep, StayMoves
<1>3. CASE ClaimNothing(p)
  <2>1. ASSUME NEW u \in Target
        PROVE  Foreign(outbox[u], outbox'[u])
    BY <1>3, Foreigners, RowFacts DEF ClaimNothing, Cleaned
  <2>2. /\ alert' = alert /\ dispatch' = dispatch
        /\ accepted' = accepted /\ job' = job
    BY <1>3 DEF ClaimNothing, storeVars, procVars
  <2>3. ObsoleteNotInFlight'
    BY <2>1, <2>2, ForeignFlight DEF IInv
  <2> QED BY <1>t, <2>1, <2>2, <2>3, ForeignStep, StayMoves
<1>4. CASE ClaimFails(p)
  <2>1. /\ outbox' = outbox /\ alert' = alert /\ dispatch' = dispatch
        /\ accepted' = accepted /\ job' = job
    BY <1>4 DEF ClaimFails, storeVars
  <2>2. \A t \in Target : Foreign(outbox[t], outbox'[t])
    BY <2>1, RowFacts
  <2>3. ObsoleteNotInFlight'
    BY <2>1, <2>2, ForeignFlight DEF IInv
  <2> QED BY <1>t, <2>1, <2>2, <2>3, ForeignStep, StayMoves
<1> QED BY <1>1, <1>2, <1>3, <1>4 DEF ClaimStep

(* The process: its queue, its end and its restart; the clock. *)
LEMMA TailFacts ==
    ASSUME NEW S, NEW q \in Seq(S), q # <<>>
    PROVE  /\ Len(q) \in Nat /\ Len(Tail(q)) = Len(q) - 1
           /\ \A k \in 1 .. Len(Tail(q)) :
                /\ Tail(q)[k] = q[k + 1]
                /\ k + 1 \in 1 .. Len(q)
                /\ k + 1 # 1
                /\ q[k + 1] \in S
<1>1. Len(q) \in Nat /\ Len(q) > 0 /\ Len(Tail(q)) = Len(q) - 1
  OBVIOUS
<1>2. ASSUME NEW k \in 1 .. Len(Tail(q))
      PROVE  /\ Tail(q)[k] = q[k + 1]
             /\ k + 1 \in 1 .. Len(q)
             /\ k + 1 # 1
             /\ q[k + 1] \in S
  BY <1>1, <1>2
<1> QED BY <1>1, <1>2

LEMMA UnwrittenFlight ==
    ASSUME ObsoleteNotInFlight, outbox' = outbox, alert' = alert
    PROVE  ObsoleteNotInFlight'
BY DEF ObsoleteNotInFlight, Obsolete

LEMMA UnwrittenForeign ==
    ASSUME IInv, outbox' = outbox
    PROVE  \A t \in Target : Foreign(outbox[t], outbox'[t])
BY RowFacts

LEMMA ProcKeeps ==
    ASSUME IInv, NEW p \in Proc, ProcStep(p)
    PROVE  IInv' /\ StepOK
<1>t. TypeOK'
  BY ProcStepTyped DEF IInv
<1>1. CASE Dequeue(p)
  <2> DEFINE h == Head(dispatch[p])
  <2>1. /\ h \in Slot /\ job[h].pc = "queued" /\ ~job[h].acc
        /\ dispatch[p] \in Seq(Slot)
    BY <1>1, DequeueHead DEF Dequeue, IInv, JobOK, TypeOK, Started
  <2>2. /\ outbox' = outbox /\ alert' = alert /\ accepted' = accepted
    BY <1>1 DEF Dequeue, storeVars
  <2>3. /\ job'[h] = [job[h] EXCEPT !.pc = "taken"]
        /\ \A u \in Slot \ {h} : job'[u] = job[u]
    BY <1>1, <2>1 DEF Dequeue, Goto, IInv, TypeOK
  <2>4. job'[h].pc = "taken" /\ job'[h].target = job[h].target /\ job'[h].acc = job[h].acc
    BY <2>1, <2>3 DEF IInv, TypeOK, Job
  <2>5. ObsoleteNotInFlight'
    BY <2>2, UnwrittenFlight DEF IInv
  <2>6. QueueOK'
    <3> SUFFICES ASSUME NEW q \in Proc, NEW i \in 1 .. Len(dispatch'[q])
                 PROVE  /\ job'[dispatch'[q][i]].pc = "queued"
                        /\ Owner[dispatch'[q][i]] = q
                        /\ \A k \in 1 .. Len(dispatch'[q]) :
                                dispatch'[q][k] = dispatch'[q][i] => k = i
      BY DEF QueueOK
    <3>1. dispatch'[q] = IF q = p THEN Tail(dispatch[p]) ELSE dispatch[q]
      BY <1>1 DEF Dequeue, IInv, TypeOK
    <3>2. h = dispatch[p][1] /\ 1 \in 1 .. Len(dispatch[p])
      BY <1>1, <2>1 DEF Dequeue
    <3>3. CASE q = p
      <4> DEFINE old == dispatch[p]
                 new == dispatch'[p]
      <4>1. /\ Len(old) \in Nat /\ Len(new) = Len(old) - 1
            /\ \A k \in 1 .. Len(new) :
                    /\ new[k] = old[k + 1]
                    /\ k + 1 \in 1 .. Len(old)
                    /\ k + 1 # 1
                    /\ old[k + 1] \in Slot
        <5>1. old \in Seq(Slot) /\ new = Tail(old)
          BY <2>1, <3>1, <3>3
        <5>2. old # <<>>
          BY <1>1 DEF Dequeue
        <5> HIDE DEF old, new
        <5> QED BY <5>1, <5>2, TailFacts
      <4>2. \A m \in 1 .. Len(old) :
                /\ job[old[m]].pc = "queued" /\ Owner[old[m]] = p
                /\ \A k \in 1 .. Len(old) : old[k] = old[m] => k = m
        BY DEF IInv, QueueOK
      <4>3. i \in 1 .. Len(new)
        BY <3>3
      <4>4. old[i + 1] \in Slot \ {h}
        BY <3>2, <4>1, <4>2, <4>3
      <4>5. job'[new[i]].pc = "queued" /\ Owner[new[i]] = p
        BY <2>3, <4>1, <4>2, <4>3, <4>4
      <4>6. ASSUME NEW k \in 1 .. Len(new), new[k] = new[i]
            PROVE  k = i
        <5>1. old[k + 1] = old[i + 1] /\ k + 1 \in 1 .. Len(old) /\ i + 1 \in 1 .. Len(old)
          BY <4>1, <4>3, <4>6
        <5>2. k + 1 = i + 1
          BY <4>2, <5>1
        <5> QED BY <4>1, <4>3, <5>2
      <4> QED BY <3>3, <4>5, <4>6
    <3>4. CASE q # p
      <4>1. dispatch'[q] = dispatch[q] /\ dispatch[q][i] \in Slot
        BY <3>1, <3>4 DEF IInv, TypeOK
      <4>2. Owner[dispatch[q][i]] = q /\ Owner[h] = p
        BY <3>2, <4>1 DEF IInv, QueueOK
      <4> QED BY <2>3, <3>4, <4>1, <4>2 DEF IInv, QueueOK
    <3> QED BY <3>3, <3>4
  <2>7. JobOK'
    <3>1. ASSUME NEW u \in Slot, u # h
          PROVE  Moves(u)
      BY <2>3, <3>1 DEF Moves
    <3> QED BY <2>1, <2>2, <2>4, <3>1, JobKept DEF IInv, JobOK
  <2>8. Core'
    <3>1. \A u \in Slot : Steady(u)
      BY <2>1, <2>3, <2>4 DEF Steady, Started
    <3> QED BY <1>t, <2>2, <3>1, UnwrittenForeign, ForeignKeeps DEF IInv, Core
  <2>9. StepOK
    BY <1>t, <2>2, UnwrittenForeign, ForeignPromise
  <2> QED BY <1>t, <2>5, <2>6, <2>7, <2>8, <2>9 DEF IInv, Core
<1>2. CASE Lost(p)
  <2>1. /\ outbox' = outbox /\ alert' = alert /\ accepted' = accepted
        /\ \A u \in Slot : job'[u] = IF Owner[u] = p THEN Idle ELSE job[u]
        /\ \A q \in Proc : dispatch'[q] = IF q = p THEN <<>> ELSE dispatch[q]
    BY <1>2 DEF Lost, storeVars, IInv, TypeOK
  <2>2. ObsoleteNotInFlight'
    BY <2>1, UnwrittenFlight DEF IInv
  <2>3. QueueOK'
    <3> SUFFICES ASSUME NEW q \in Proc, NEW i \in 1 .. Len(dispatch'[q])
                 PROVE  /\ job'[dispatch'[q][i]].pc = "queued"
                        /\ Owner[dispatch'[q][i]] = q
                        /\ \A k \in 1 .. Len(dispatch'[q]) :
                                dispatch'[q][k] = dispatch'[q][i] => k = i
      BY DEF QueueOK
    <3>1. q # p
      BY <2>1
    <3>2. dispatch'[q] = dispatch[q] /\ dispatch[q][i] \in Slot
      BY <2>1, <3>1 DEF IInv, TypeOK
    <3> QED BY <2>1, <3>1, <3>2 DEF IInv, QueueOK
  <2>4. JobOK'
    BY <2>1 DEF IInv, JobOK, Idle
  <2>5. Core'
    <3>1. \A u \in Slot : Steady(u)
      BY <2>1 DEF Steady, Idle
    <3> QED BY <1>t, <2>1, <3>1, UnwrittenForeign, ForeignKeeps DEF IInv, Core
  <2>6. StepOK
    BY <1>t, <2>1, UnwrittenForeign, ForeignPromise
  <2> QED BY <1>t, <2>2, <2>3, <2>4, <2>5, <2>6 DEF IInv, Core
<1>3. CASE ClaimerReturns(p) \/ WorkerReturns(p) \/ Stop(p) \/ Stopped(p) \/ Start(p)
  <2>1. /\ outbox' = outbox /\ alert' = alert /\ dispatch' = dispatch
        /\ accepted' = accepted /\ job' = job
    BY <1>3 DEF ClaimerReturns, WorkerReturns, Stop, Stopped, Start, storeVars, lifeVars
  <2>2. ObsoleteNotInFlight'
    BY <2>1, UnwrittenFlight DEF IInv
  <2> QED BY <1>t, <2>1, <2>2, UnwrittenForeign, ForeignStep, StayMoves
<1> QED
  BY <1>1, <1>2, <1>3, ClaimKeeps DEF ProcStep, ClaimerStep, WorkerStep, Crash, Exit

LEMMA TickKeeps ==
    ASSUME IInv, Tick
    PROVE  IInv' /\ StepOK
<1>1. TypeOK'
  BY NextTyped DEF IInv, Next
<1>2. \A t \in Target : Foreign(outbox[t], outbox'[t])
  BY RowFacts, Foreigners DEF Tick
<1>3. /\ alert' = alert /\ dispatch' = dispatch
      /\ accepted' = accepted /\ job' = job
  BY DEF Tick, storeVars, procVars
<1>4. ObsoleteNotInFlight'
  BY <1>2, <1>3, ForeignFlight DEF IInv
<1> QED BY <1>1, <1>2, <1>3, <1>4, ForeignStep, StayMoves

-----------------------------------------------------------------------------
(* A provider worker.                                                      *)

(* begin_send starts an attempt: the row is now known to be in flight. *)
LEMMA BeginKeeps ==
    ASSUME IInv, TypeOK', alert' = alert, dispatch' = dispatch, accepted' = accepted,
           NEW s \in Slot, job[s].pc = "taken",
           Begins(RowOf(s), s, Obsolete(job[s].target)),
           Write(s, BeginSend(RowOf(s), s, Obsolete(job[s].target))),
           NEW pc \in {"begun", "unsent"}, Goto(s, pc)
    PROVE  IInv' /\ StepOK
<1> DEFINE t == job[s].target
           r == outbox[t]
           q == outbox'[t]
<1>1. /\ t \in Target /\ r \in Row(Slot) /\ job[s] \in Job
      /\ Holds(r, s) /\ ~Obsolete(t)
      /\ \A v \in Target \ {t} : outbox'[v] = outbox[v]
  BY DEF IInv, TypeOK, Begins, RowOf, Write
<1>b. BeginSend(r, s, Obsolete(t)) =
         [r EXCEPT !.attempts = r.attempts + 1, !.inFlight = TRUE, !.lease = LeaseTicks]
  <2>1. Holds(r, s) /\ Begins(r, s, Obsolete(t))
    BY <1>1 DEF RowOf
  <2>2. r.expire > 0 /\ r.lease > 0 /\ ~Obsolete(t)
    BY <2>1 DEF Begins
  <2>3. r.lease # 0
    BY <1>1, <2>2 DEF Row
  <2> HIDE DEF r, t
  <2> QED BY <2>1, <2>2, <2>3 DEF BeginSend
<1>2. q = [r EXCEPT !.attempts = r.attempts + 1, !.inFlight = TRUE, !.lease = LeaseTicks]
  BY <1>1, <1>b DEF IInv, TypeOK, Write, RowOf
<1>3. /\ q.state = "pending" /\ q.token = s /\ q.inFlight
      /\ q.everUnknown = r.everUnknown /\ q.failures = r.failures /\ q.next = r.next
  BY <1>1, <1>2 DEF Holds, Row
<1>4. ~job[s].acc
  BY DEF IInv, JobOK, Started
<1>5. /\ job'[s].pc = pc /\ job'[s].target = t /\ ~job'[s].acc
      /\ \A u \in Slot \ {s} : job'[u] = job[u]
  BY <1>1, <1>4 DEF Goto, IInv, TypeOK, Job
<1>6. RowOK'
  <2>1. NoToken # s /\ r.failures < MaxAttempts /\ r.next <= 0
    BY <1>1, WorkerConstants DEF IInv, RowOK, Holds
  <2> QED BY <1>1, <1>3, <2>1 DEF IInv, RowOK
<1>7. QueueOK'
  BY <1>5, QueueKept DEF IInv
<1>8. JobOK'
  <2>1. ASSUME NEW u \in Slot, u # s
        PROVE  Moves(u)
    BY <1>5, <2>1 DEF Moves
  <2> QED BY <1>5, <2>1, JobKept DEF IInv, JobOK
<1>9. SendOK'
  <2> SUFFICES ASSUME NEW u \in Slot, job'[u].pc \in {"begun", "sending"}
               PROVE  \/ Holds(outbox'[job'[u].target], u) /\ outbox'[job'[u].target].inFlight
                      \/ outbox'[job'[u].target].everUnknown
    BY DEF SendOK, RowOf, Holds
  <2>1. CASE u = s
    BY <2>1, <1>3, <1>5 DEF Holds
  <2>2. CASE u # s
    <3>1. /\ job'[u] = job[u] /\ job[u].target \in Target
          /\ \/ Holds(outbox[job[u].target], u)  /\ outbox[job[u].target].inFlight
             \/ outbox[job[u].target].everUnknown
      BY <2>2, <1>5 DEF IInv, SendOK, RowOf, TypeOK
    <3> QED BY <2>2, <3>1, <1>1, <1>3 DEF Holds
  <2> QED BY <2>1, <2>2
<1>10. AcceptanceOK'
  <2> SUFFICES ASSUME NEW v \in accepted,
                      outbox'[v].state \notin {"delivered", "purged"},
                      ~outbox'[v].everUnknown
               PROVE  AcceptanceHeld(v)'
    BY DEF AcceptanceOK
  <2>0. v \in Target
    BY DEF IInv, TypeOK
  <2>1. CASE v = t
    <3>1. AcceptanceHeld(t)
      BY <2>1, <1>1, <1>3 DEF IInv, AcceptanceOK, Holds
    <3>2. job[s].pc \in Started
      BY <3>1, <1>1 DEF AcceptanceHeld, Holds
    <3> QED BY <3>2 DEF Started
  <2>2. CASE v # t
    <3>1. outbox'[v] = outbox[v] /\ AcceptanceHeld(v)
      BY <2>0, <2>2, <1>1 DEF IInv, AcceptanceOK
    <3> QED BY <2>2, <3>1, <1>5 DEF AcceptanceHeld
  <2> QED BY <2>1, <2>2
<1>11. ObsoleteNotInFlight'
  BY <1>1 DEF IInv, ObsoleteNotInFlight, Obsolete
<1>12. StepOK
  <2>1. ASSUME NEW v \in Target, v # t
        PROVE  RowStepOK(v) /\ Promise(v)
    <3>1. outbox'[v] = outbox[v]
      BY <1>1, <2>1
    <3> QED BY <3>1, RestPromise
  <2>2. RowStepOK(t)
    <3>1. r.next <= 0
      BY <1>1, WorkerConstants DEF IInv, RowOK, Holds
    <3>2. t \in accepted => r.everUnknown
      <4>1. AcceptanceHeld(t) => job[s].pc \in Started
        BY <1>1 DEF AcceptanceHeld, Holds
      <4> QED BY <1>1, <4>1 DEF IInv, AcceptanceOK, Holds, Started
    <3> QED BY <1>1, <3>1, <3>2 DEF RowStepOK, Holds
  <2>3. Obligation!Admit(t)
    BY <1>1, <1>3, Seen DEF StatusOf, Holds, Obligation!Admit, Obligation!Keeps, Obligation!Unheard
  <2> QED BY <2>1, <2>2, <2>3 DEF StepOK, Promise
<1> QED BY <1>6, <1>7, <1>8, <1>9, <1>10, <1>11, <1>12 DEF IInv

(* A delivery whose attempt began moves on, its row unwritten. *)
LEMMA AttemptMoves ==
    ASSUME IInv, TypeOK', outbox' = outbox, alert' = alert, dispatch' = dispatch,
           NEW s \in Slot, job[s].pc \in {"begun", "sending"},
           job'[s].pc \in Started \ {"begun"},
           job'[s].pc = "sending" \/ accepted' = accepted,
           job'[s].target = job[s].target,
           job[s].acc => job'[s].acc,
           accepted' = accepted \cup (IF job'[s].acc THEN {job[s].target} ELSE {}),
           job'[s].pc = "answered" =>
              /\ job'[s].acc => job'[s].answer \in {"delivered", "ambiguous"}
              /\ job'[s].answer = "delivered" => job'[s].acc,
           \A u \in Slot \ {s} : job'[u] = job[u]
    PROVE  IInv' /\ StepOK
<1> DEFINE t == job[s].target
<1>1. RowOK'
  BY DEF IInv, RowOK
<1>2. QueueOK'
  BY QueueKept DEF IInv
<1>3. JobOK'
  BY DEF IInv, JobOK
<1>4. SendOK'
  <2>1. \/ Holds(outbox[t], s) /\ outbox[t].inFlight
        \/ outbox[t].everUnknown
    BY DEF IInv, SendOK, RowOf
  <2> SUFFICES ASSUME NEW u \in Slot, job'[u].pc \in {"begun", "sending"}
               PROVE  \/ Holds(outbox[job'[u].target], u) /\ outbox[job'[u].target].inFlight
                      \/ outbox[job'[u].target].everUnknown
    BY DEF SendOK, RowOf, Holds
  <2> QED BY <2>1 DEF IInv, SendOK, RowOf
<1>5. AcceptanceOK'
  <2> SUFFICES ASSUME NEW v \in accepted',
                      outbox[v].state \notin {"delivered", "purged"},
                      ~outbox[v].everUnknown
               PROVE  AcceptanceHeld(v)'
    BY DEF AcceptanceOK
  <2>1. CASE v \in accepted
    <3>1. AcceptanceHeld(v)
      BY <2>1 DEF IInv, AcceptanceOK
    <3> QED BY <3>1 DEF AcceptanceHeld
  <2>2. CASE v \notin accepted
    <3>1. v = t /\ job'[s].acc
      BY <2>2
    <3>2. Holds(outbox[t], s) /\ outbox[t].inFlight
      BY <3>1 DEF IInv, SendOK, RowOf
    <3> QED BY <3>1, <3>2 DEF AcceptanceHeld, Holds
  <2> QED BY <2>1, <2>2
<1>6. ObsoleteNotInFlight'
  BY UnwrittenFlight DEF IInv
<1>7. StepOK
  <2> SUFFICES ASSUME NEW v \in Target PROVE RowStepOK(v) /\ Promise(v)
    BY DEF StepOK
  <2>1. RowStepOK(v)
    BY RowFacts DEF RowStepOK, Row
  <2>2. CASE v \in accepted' <=> v \in accepted
    <3>1. Obligation!Rest(v)
      BY <2>2, Seen DEF Obligation!Rest, Obligation!Keeps, Obligation!Unheard, Obligation!SameDoubt
    <3> QED BY <2>1, <3>1 DEF Promise
  <2>3. CASE ~(v \in accepted' <=> v \in accepted)
    <3>1. v = t /\ v \in accepted'
      BY <2>3
    <3>2. outbox[v].everUnknown \/ outbox[v].inFlight
      BY <3>1 DEF IInv, SendOK, RowOf
    <3>3. Obligation!Accept(v)
      BY <3>1, <3>2, Seen DEF Obligation!Accept, Obligation!Keeps
    <3> QED BY <2>1, <3>3 DEF Promise
  <2> QED BY <2>2, <2>3
<1> QED BY <1>1, <1>2, <1>3, <1>4, <1>5, <1>6, <1>7 DEF IInv

(* What a delivery writes when its worker is done with it. *)
LEMMA JobFacts ==
    ASSUME IInv, NEW s \in Slot
    PROVE  /\ job[s] \in Job
           /\ job[s].pc # "idle" => /\ job[s].target \in Target
                                    /\ RowOf(s) \in Row(Slot)
                                    /\ Obsolete(job[s].target) \in BOOLEAN
                                    /\ RowOf(s).state = "pending" => RowOf(s).failures < MaxAttempts
           /\ job[s].pc \in {"claimed", "handing", "queued", "taken", "unsent", "begun"} => ~job[s].acc
<1>1. job[s] \in Job
  BY DEF IInv, TypeOK
<1>2. ASSUME job[s].pc # "idle"
      PROVE  /\ job[s].target \in Target
             /\ RowOf(s) \in Row(Slot)
             /\ Obsolete(job[s].target) \in BOOLEAN
             /\ RowOf(s).state = "pending" => RowOf(s).failures < MaxAttempts
  <2>1. /\ job[s].target \in Target
        /\ RowOf(s) \in Row(Slot)
        /\ Obsolete(job[s].target) \in BOOLEAN
    BY <1>2, RowOfTyped, TypeHalves DEF IInv
  <2> QED BY <2>1 DEF IInv, RowOK, RowOf
<1>3. job[s].pc \in {"claimed", "handing", "queued", "taken", "unsent", "begun"} => ~job[s].acc
  BY DEF IInv, JobOK, Started
<1> QED BY <1>1, <1>2, <1>3

LEMMA RecordedEnds ==
    ASSUME IInv, NEW s \in Slot, job[s].pc = "answered", NEW delay \in RetryDelays
    PROVE  Ended(RowOf(s), Recorded(s, delay), s, job[s].acc)
<1> DEFINE r == RowOf(s)
           o == Obsolete(job[s].target)
           wait == IF delay > job[s].after THEN delay ELSE job[s].after
<1>1. /\ r \in Row(Slot) /\ o \in BOOLEAN
      /\ r.state = "pending" => r.failures < MaxAttempts
      /\ job[s] \in Job
  BY JobFacts
<1>2. wait \in 0 .. MaxDelay
  <2>1. delay \in 0 .. MaxDelay /\ RetryAfters \subseteq 0 .. MaxDelay
    BY WorkerConstants
  <2>2. 0 \in 0 .. MaxDelay /\ job[s].after \in RetryAfters \cup {0}
    BY <1>1, Constants DEF Job
  <2> QED BY <2>1, <2>2
<1>3. (job[s].answer = "ambiguous") \in BOOLEAN
  OBVIOUS
<1>a. job[s].acc \in BOOLEAN
  BY <1>1 DEF Job
<1>4. CASE job[s].answer = "delivered"
  <2>1. Recorded(s, delay) = MarkDelivered(r, s) /\ job[s].acc = TRUE
    BY <1>4, <1>a DEF Recorded, IInv, JobOK
  <2>2. Ended(r, MarkDelivered(r, s), s, TRUE)
    BY <1>1, HolderEnds
  <2> QED BY <2>1, <2>2
<1>5. CASE job[s].answer = "terminal"
  <2>1. Recorded(s, delay) = MarkTerminal(r, s) /\ job[s].acc = FALSE
    BY <1>5, <1>a DEF Recorded, IInv, JobOK
  <2>2. Ended(r, MarkTerminal(r, s), s, FALSE)
    BY <1>1, HolderEnds
  <2> QED BY <2>1, <2>2
<1>6. CASE job[s].answer \notin {"delivered", "terminal"}
  <2>1. Recorded(s, delay) = ScheduleRetry(r, s, wait, job[s].answer = "ambiguous", o)
    BY <1>6 DEF Recorded
  <2>2. job[s].acc => job[s].answer = "ambiguous"
    BY <1>6 DEF IInv, JobOK
  <2>3. \A unknown \in BOOLEAN : (job[s].acc => unknown) =>
            Ended(r, ScheduleRetry(r, s, wait, unknown, o), s, job[s].acc)
    BY <1>1, <1>2, <1>a, HolderEnds
  <2> QED BY <1>3, <2>1, <2>2, <2>3
<1> QED BY <1>4, <1>5, <1>6

LEMMA CompleteMoves ==
    ASSUME IInv, NEW s \in Slot, Complete(s)
    PROVE  /\ job'[s] = Idle /\ job'[s].pc = "idle"
           /\ \A u \in Slot \ {s} : job'[u] = job[u]
           /\ job[s].pc # "queued" => Moves(s)
BY DEF Complete, IInv, TypeOK, Moves, Idle

LEMMA GotoMoves ==
    ASSUME IInv, NEW s \in Slot, NEW pc, Goto(s, pc)
    PROVE  /\ job'[s] = [job[s] EXCEPT !.pc = pc]
           /\ job'[s].pc = pc /\ job'[s].target = job[s].target
           /\ job'[s].acc = job[s].acc /\ job'[s].answer = job[s].answer
           /\ \A u \in Slot \ {s} : job'[u] = job[u]
BY JobFacts DEF Goto, IInv, TypeOK, Job

(* A delivery ends, or goes to its recovery, with a write it made as holder. *)
LEMMA EndingStep ==
    ASSUME IInv, TypeOK', UNCHANGED <<storeVars, dispatch>>,
           NEW s \in Slot, job[s].pc \notin {"idle", "queued"},
           NEW q, Write(s, q), Ended(RowOf(s), q, s, job[s].acc),
           \/ Complete(s)
           \/ Goto(s, "failed") /\ job[s].pc \in Started
           \/ Goto(s, "unsent") /\ job[s].pc = "taken"
    PROVE  IInv' /\ StepOK
<1>1. alert' = alert /\ dispatch' = dispatch /\ accepted' = accepted
  BY DEF storeVars
<1>2. /\ Moves(s)
      /\ job'[s].pc \notin {"begun", "sending"}
      /\ \A u \in Slot \ {s} : job'[u] = job[u]
  BY CompleteMoves, GotoMoves DEF Moves
<1> QED BY <1>1, <1>2, HolderStep

(* A delivery moves on or ends, its row unwritten. *)
LEMMA SilentStep ==
    ASSUME IInv, TypeOK', UNCHANGED <<outbox, storeVars, dispatch>>,
           NEW s \in Slot, Moves(s),
           \A u \in Slot \ {s} : job'[u] = job[u]
    PROVE  IInv' /\ StepOK
<1>1. /\ outbox' = outbox /\ alert' = alert
      /\ dispatch' = dispatch /\ accepted' = accepted
  BY DEF storeVars
<1>2. \A u \in Slot : Moves(u)
  BY DEF Moves
<1>3. ObsoleteNotInFlight'
  BY <1>1, UnwrittenFlight DEF IInv
<1> QED BY <1>1, <1>2, <1>3, UnwrittenForeign, ForeignStep

LEMMA SlotKeeps ==
    ASSUME IInv, NEW s \in Slot, SlotStep(s)
    PROVE  IInv' /\ StepOK
<1> DEFINE r == RowOf(s)
           o == Obsolete(job[s].target)
<1>t. TypeOK'
  BY SlotStepTyped DEF IInv
<1>i. ASSUME job[s].pc # "idle"
      PROVE  /\ r \in Row(Slot) /\ o \in BOOLEAN
             /\ Ended(r, ReleaseUnstartedClaim(r, s), s, FALSE)
             /\ Ended(r, ScheduleInternalRetry(r, s, RetryBase), s, FALSE)
             /\ Ended(r, ScheduleRetry(r, s, RetryBase, TRUE, o), s, job[s].acc)
             /\ ~Begins(r, s, o) => Ended(r, BeginSend(r, s, o), s, FALSE)
  <2>1. /\ r \in Row(Slot) /\ o \in BOOLEAN
        /\ r.state = "pending" => r.failures < MaxAttempts
    BY <1>i, JobFacts
  <2>2. RetryBase \in 0 .. MaxDelay
    BY WorkerConstants
  <2>3. job[s].acc \in BOOLEAN
    BY JobFacts DEF Job
  <2> QED BY <2>1, <2>2, <2>3, HolderEnds
<1>n. job[s].pc \in {"claimed", "handing", "queued", "taken", "unsent", "begun"} => job[s].acc = FALSE
  BY JobFacts DEF Job
<1>1. CASE Handoff(s)
  <2> DEFINE p == Owner[s]
             old == dispatch[p]
             new == Append(old, s)
  <2>1. /\ p \in Proc /\ old \in Seq(Slot) /\ job[s].pc = "handing"
        /\ outbox' = outbox /\ alert' = alert /\ accepted' = accepted
        /\ \A q \in Proc : dispatch'[q] = IF q = p THEN new ELSE dispatch[q]
    BY <1>1, WorkerConstants DEF Handoff, storeVars, IInv, TypeOK
  <2>2. /\ job'[s].pc = "queued" /\ job'[s].target = job[s].target /\ job'[s].acc = job[s].acc
        /\ \A u \in Slot \ {s} : job'[u] = job[u]
    BY <1>1, GotoMoves DEF Handoff
  <2>3. ObsoleteNotInFlight'
    BY <2>1, UnwrittenFlight DEF IInv
  <2>4. QueueOK'
    <3> SUFFICES ASSUME NEW q \in Proc, NEW k \in 1 .. Len(dispatch'[q])
                 PROVE  /\ job'[dispatch'[q][k]].pc = "queued"
                        /\ Owner[dispatch'[q][k]] = q
                        /\ \A m \in 1 .. Len(dispatch'[q]) :
                                dispatch'[q][m] = dispatch'[q][k] => m = k
      BY DEF QueueOK
    <3>1. \A m \in 1 .. Len(dispatch[q]) :
              /\ dispatch[q][m] \in Slot \ {s}
              /\ job[dispatch[q][m]].pc = "queued" /\ Owner[dispatch[q][m]] = q
              /\ \A n \in 1 .. Len(dispatch[q]) : dispatch[q][n] = dispatch[q][m] => n = m
      BY <2>1 DEF IInv, QueueOK, TypeOK
    <3>2. CASE q # p
      BY <2>1, <2>2, <3>1, <3>2
    <3>3. CASE q = p
      <4>1. /\ Len(new) = Len(old) + 1 /\ Len(old) \in Nat /\ new[Len(old) + 1] = s
            /\ \A m \in 1 .. Len(old) : new[m] = old[m]
        BY <2>1
      <4>2. \A m \in 1 .. Len(new) : m \in 1 .. Len(old) \/ m = Len(old) + 1
        BY <4>1
      <4>3. dispatch'[q] = new
        BY <2>1, <3>3
      <4>4. CASE k = Len(old) + 1
        <5>1. \A m \in 1 .. Len(old) : new[m] # s
          BY <3>1, <3>3, <4>1
        <5> QED BY <2>2, <3>3, <4>1, <4>2, <4>3, <4>4, <5>1
      <4>5. CASE k \in 1 .. Len(old)
        <5>1. new[k] = old[k] /\ old[k] # s
          BY <3>1, <3>3, <4>1, <4>5
        <5>2. job'[new[k]].pc = "queued" /\ Owner[new[k]] = p
          BY <2>2, <3>1, <3>3, <4>5, <5>1
        <5>3. ASSUME NEW m \in 1 .. Len(new), new[m] = new[k]
              PROVE  m = k
          <6>1. m \in 1 .. Len(old) /\ old[m] = old[k]
            BY <4>1, <4>2, <5>1, <5>3
          <6> QED BY <3>1, <3>3, <4>5, <6>1
        <5> QED BY <3>3, <4>3, <5>2, <5>3
      <4> QED BY <4>2, <4>3, <4>4, <4>5
    <3> QED BY <3>2, <3>3
  <2>5. JobOK'
    <3>1. ASSUME NEW u \in Slot, u # s
          PROVE  Moves(u)
      BY <2>2, <3>1 DEF Moves
    <3> QED BY <1>n, <2>1, <2>2, <3>1, JobKept DEF IInv, JobOK
  <2>6. Core'
    <3>1. \A u \in Slot : Steady(u)
      BY <2>1, <2>2 DEF Steady, Started
    <3> QED BY <1>t, <2>1, <3>1, UnwrittenForeign, ForeignKeeps DEF IInv, Core
  <2>7. StepOK
    BY <1>t, <2>1, UnwrittenForeign, ForeignPromise
  <2> QED BY <1>t, <2>3, <2>4, <2>5, <2>6, <2>7 DEF IInv, Core
<1>1a. CASE Offer(s)
  BY <1>1a, <1>t, GotoMoves, SilentStep DEF Offer, procVars, Moves
<1>2. CASE HandoffFails(s)
  BY <1>2, <1>t, <1>i, <1>n, EndingStep DEF HandoffFails
<1>3. CASE ReleaseOnStop(s)
  BY <1>3, <1>t, <1>i, <1>n, EndingStep DEF ReleaseOnStop
<1>4. CASE LoadFails(s)
  BY <1>4, <1>t, GotoMoves, SilentStep DEF LoadFails, procVars, Moves
<1>5. CASE BeginAttempt(s)
  BY <1>5, <1>t, BeginKeeps DEF BeginAttempt, storeVars, procVars
<1>6. CASE RefuseAttempt(s)
  BY <1>6, <1>t, <1>i, <1>n, EndingStep DEF RefuseAttempt
<1>7. CASE BeginReplyLost(s)
  <2>1. CASE Begins(r, s, o)
    BY <1>7, <2>1, <1>t, BeginKeeps DEF BeginReplyLost, storeVars, procVars
  <2>2. CASE ~Begins(r, s, o)
    BY <1>7, <2>2, <1>t, <1>i, <1>n, EndingStep DEF BeginReplyLost, procVars
  <2> QED BY <2>1, <2>2
<1>8. CASE CallProvider(s)
  <2>1. job'[s].pc = "sending" /\ "sending" \in Started
    BY <1>8, GotoMoves DEF CallProvider, Started
  <2> QED BY <1>8, <1>t, <1>n, <2>1, GotoMoves, AttemptMoves DEF CallProvider, storeVars, procVars
<1>9. CASE RefuseRoute(s)
  <2>1. /\ job'[s].pc = "answered" /\ job'[s].answer = "terminal"
        /\ job'[s].target = job[s].target /\ ~job'[s].acc /\ "answered" \in Started
        /\ \A u \in Slot \ {s} : job'[u] = job[u]
    BY <1>9, <1>n, JobFacts DEF RefuseRoute, IInv, TypeOK, Job, Started
  <2> QED BY <1>9, <1>t, <1>n, <2>1, AttemptMoves DEF RefuseRoute, storeVars, procVars
<1>10. CASE ProviderAccepts(s)
  <2>1. /\ job'[s].pc = "sending" /\ job'[s].acc
        /\ job'[s].target = job[s].target /\ "sending" \in Started
        /\ \A u \in Slot \ {s} : job'[u] = job[u]
    BY <1>10, JobFacts DEF ProviderAccepts, IInv, TypeOK, Job, Started
  <2> QED BY <1>10, <1>t, <2>1, AttemptMoves DEF ProviderAccepts, procVars
<1>11. ASSUME NEW answer \in Answers, NEW after \in RetryAfters \cup {0},
              ProviderAnswers(s, answer, after)
       PROVE  IInv' /\ StepOK
  <2>1. /\ job'[s].pc = "answered" /\ job'[s].answer = answer /\ job'[s].acc = job[s].acc
        /\ job'[s].target = job[s].target /\ "answered" \in Started
        /\ \A u \in Slot \ {s} : job'[u] = job[u]
    BY <1>11, JobFacts DEF ProviderAnswers, IInv, TypeOK, Job, Started
  <2>2. /\ job'[s].acc => job'[s].answer \in {"delivered", "ambiguous"}
        /\ job'[s].answer = "delivered" => job'[s].acc
    BY <1>11, <2>1 DEF ProviderAnswers, Answers
  <2>3. job[s].acc => job[s].target \in accepted
    BY DEF IInv, JobOK
  <2> QED BY <1>11, <1>t, <2>1, <2>2, <2>3, AttemptMoves DEF ProviderAnswers, storeVars, procVars
<1>12. CASE DeliveryRaises(s)
  <2>1. job[s].pc \in Started
    BY <1>12 DEF DeliveryRaises, Started
  <2> QED BY <1>12, <2>1, <1>t, GotoMoves, SilentStep DEF DeliveryRaises, procVars, Moves
<1>13. ASSUME NEW delay \in RetryDelays, RecordResult(s, delay)
       PROVE  IInv' /\ StepOK
  BY <1>13, <1>t, RecordedEnds, EndingStep DEF RecordResult
<1>14. ASSUME NEW delay \in RetryDelays, RecordReplyLost(s, delay)
       PROVE  IInv' /\ StepOK
  <2>1. job[s].pc \in Started
    BY <1>14 DEF RecordReplyLost, Started
  <2> QED BY <1>14, <2>1, <1>t, RecordedEnds, EndingStep DEF RecordReplyLost, procVars
<1>15. CASE RecoverStarted(s)
  BY <1>15, <1>t, <1>i, EndingStep DEF RecoverStarted
<1>16. CASE RecoverUnsent(s)
  BY <1>16, <1>t, <1>i, <1>n, EndingStep DEF RecoverUnsent
<1>17. CASE RecoveryFails(s)
  BY <1>17, <1>t, CompleteMoves, SilentStep DEF RecoveryFails
<1>18. CASE Renew(s)
  <2>1. /\ alert' = alert /\ dispatch' = dispatch
        /\ accepted' = accepted /\ job' = job
    BY <1>18 DEF Renew, storeVars, procVars
  <2>2. ASSUME NEW t \in Target
        PROVE  Foreign(outbox[t], outbox'[t])
    <3>1. outbox'[t] = IF t = job[s].target THEN RenewLease(outbox[t], s) ELSE outbox[t]
      BY <1>18 DEF Renew, Write, RowOf, IInv, TypeOK
    <3>2. Foreign(outbox[t], RenewLease(outbox[t], s)) /\ Foreign(outbox[t], outbox[t])
      BY RowFacts, Foreigners
    <3> QED BY <3>1, <3>2
  <2>3. ObsoleteNotInFlight'
    BY <2>1, <2>2, ForeignFlight DEF IInv
  <2> QED BY <1>t, <2>1, <2>2, <2>3, ForeignStep, StayMoves
<1> QED
  BY <1>1, <1>1a, <1>2, <1>3, <1>4, <1>5, <1>6, <1>7, <1>8, <1>9, <1>10, <1>11, <1>12,
     <1>13, <1>14, <1>15, <1>16, <1>17, <1>18 DEF SlotStep

-----------------------------------------------------------------------------
(* The theorems.                                                           *)

LEMMA InitHolds == Init => IInv
<1> SUFFICES ASSUME Init PROVE IInv
  OBVIOUS
<1>a. PICK old \in SUBSET Legacy :
        /\ alert = [a \in Alert |-> IF a \in old THEN "active" ELSE "absent"]
        /\ outbox = [t \in Target |-> Absent(IF AlertOf[t] \in old THEN DelayOf[t] ELSE 0)]
  BY DEF Init
<1>1. \A t \in Target : /\ (IF AlertOf[t] \in old THEN DelayOf[t] ELSE 0) \in 0 .. MaxDelay
                       /\ (IF AlertOf[t] \in old THEN DelayOf[t] ELSE 0) \in -AgeCap .. MaxDelay
  BY Constants, AgeCapNat, WorkerConstants
<1>2. \A n \in -AgeCap .. MaxDelay : Absent(n) \in Row(Slot)
  BY Constants DEF Absent, Row, RowState
<1>3. StoreTyped
  <2>1. alert \in [Alert -> Status]
    BY <1>a DEF Status
  <2>2. outbox \in [Target -> Row(Slot)]
    BY <1>a, <1>1, <1>2
  <2>3. backfill \subseteq Target /\ accepted \subseteq Target /\ replays \in 0 .. MaxReplays
    BY WorkerConstants DEF Init
  <2> QED BY <2>1, <2>2, <2>3 DEF StoreTyped
<1>4. JobTyped
  BY DEF Init, JobTyped, Job, Idle
<1>5. ProcTyped
  BY WorkerConstants DEF Init, ProcTyped
<1>6. \A t \in Target : /\ outbox[t].state = "absent" /\ outbox[t].token = NoToken
                       /\ ~outbox[t].inFlight /\ ~outbox[t].everUnknown
                       /\ outbox[t].next >= 0
  BY <1>a, <1>1 DEF Absent
<1>7. QueueOK /\ JobOK /\ SendOK /\ AcceptanceOK
  BY DEF Init, QueueOK, JobOK, SendOK, AcceptanceOK, Idle
<1>8. RowOK /\ ObsoleteNotInFlight
  BY <1>6 DEF RowOK, ObsoleteNotInFlight
<1> QED BY <1>3, <1>4, <1>5, <1>7, <1>8, TypeHalves DEF IInv

LEMMA NextHolds ==
    ASSUME IInv, Next
    PROVE  IInv' /\ StepOK
BY AlertKeeps, SlotKeeps, ProcKeeps, TickKeeps DEF Next, Step

LEMMA StutterHolds ==
    ASSUME IInv, UNCHANGED vars
    PROVE  IInv'
<1>1. TypeOK'
  BY DEF vars, storeVars, procVars, lifeVars, IInv, TypeOK
<1>2. QueueOK'
  BY DEF vars, storeVars, procVars, IInv, QueueOK
<1>3. RowOK'
  BY DEF vars, storeVars, procVars, IInv, RowOK
<1>4. JobOK'
  BY DEF vars, storeVars, procVars, IInv, JobOK
<1>5. SendOK'
  BY DEF vars, storeVars, procVars, IInv, SendOK, RowOf
<1>6. AcceptanceOK'
  BY DEF vars, storeVars, procVars, IInv, AcceptanceOK, AcceptanceHeld
<1>7. ObsoleteNotInFlight'
  BY DEF vars, storeVars, procVars, IInv, ObsoleteNotInFlight, Obsolete
<1> QED BY <1>1, <1>2, <1>3, <1>4, <1>5, <1>6, <1>7 DEF IInv

(* The inductive invariant holds of every state the outbox can reach,      *)
(* however many processes, slots and targets there are and whatever        *)
(* crashes, stops, lost replies, closed alerts and replays come.           *)
THEOREM Invariance == Spec => []IInv
<1>1. Init => IInv
  BY InitHolds
<1>2. IInv /\ [Next]_vars => IInv'
  BY NextHolds, StutterHolds
<1> QED BY <1>1, <1>2, PTL DEF Spec

(* Every variable keeps its type: in particular a row is never charged     *)
(* more than MaxAttempts attempts or internal failures.                    *)
THEOREM TypeCorrect == Spec => []TypeOK
<1>1. IInv => TypeOK
  BY DEF IInv
<1> QED BY <1>1, Invariance, PTL

(* No acceptance by a provider is forgotten silently.                      *)
THEOREM AcceptanceNeverForgotten == Spec => []AcceptanceAccounted
<1>1. IInv => AcceptanceAccounted
  BY DEF IInv, AcceptanceOK, AcceptanceHeld, AcceptanceAccounted
<1> QED BY <1>1, Invariance, PTL

(* Two provider calls for one target overlap only on a disclosing row.     *)
THEOREM OverlapDisclosed == Spec => []ConcurrentSendsDisclosed
<1>1. IInv => ConcurrentSendsDisclosed
  <2> SUFFICES ASSUME IInv, NEW s \in Slot, NEW u \in Slot, s # u,
                      job[s].pc = "sending", job[u].pc = "sending",
                      job[s].target = job[u].target
               PROVE  RowOf(s).everUnknown
    BY DEF ConcurrentSendsDisclosed
  <2>1. \/ Holds(RowOf(s), s) /\ Holds(RowOf(s), u)
        \/ RowOf(s).everUnknown
    BY DEF IInv, SendOK, RowOf
  <2> QED BY <2>1 DEF Holds
<1> QED BY <1>1, Invariance, PTL

(* Closing an alert fences the attempts of its escalations.                *)
THEOREM ClosedAlertFenced == Spec => []ObsoleteNotInFlight
<1>1. IInv => ObsoleteNotInFlight
  BY DEF IInv
<1> QED BY <1>1, Invariance, PTL

(* A target that was accepted is attempted again only on a disclosing row. *)
THEOREM ResendsDisclosed == Spec => ResendDisclosed
<1>1. IInv /\ [Next]_vars =>
        [\A t \in accepted :
            outbox'[t].attempts > outbox[t].attempts => outbox[t].everUnknown]_vars
  <2>1. ASSUME IInv, Next
        PROVE  \A t \in accepted :
                  outbox'[t].attempts > outbox[t].attempts => outbox[t].everUnknown
    <3>1. StepOK /\ accepted \subseteq Target
      BY <2>1, NextHolds DEF IInv, TypeOK
    <3> QED BY <3>1 DEF StepOK, RowStepOK
  <2> QED BY <2>1
<1> QED BY <1>1, Invariance, PTL DEF Spec, ResendDisclosed

(* No attempt begins before the retry deadline on the row.                 *)
THEOREM DeadlinesRespected == Spec => RetryDeadlineRespected
<1>1. IInv /\ [Next]_vars =>
        [\A t \in Target :
            outbox'[t].attempts > outbox[t].attempts => outbox[t].next <= 0]_vars
  <2>1. ASSUME IInv, Next
        PROVE  \A t \in Target :
                  outbox'[t].attempts > outbox[t].attempts => outbox[t].next <= 0
    BY <2>1, NextHolds DEF StepOK, RowStepOK
  <2> QED BY <2>1
<1> QED BY <1>1, Invariance, PTL DEF Spec, RetryDeadlineRespected

(* Delivered and cancelled rows are final.                                 *)
THEOREM FinalStatesFinal == Spec => SettledFinal
<1>1. IInv /\ [Next]_vars =>
        [\A t \in Target :
            outbox[t].state \in {"delivered", "cancelled"}
                => outbox'[t].state \in {outbox[t].state, "purged"}]_vars
  <2>1. ASSUME IInv, Next
        PROVE  \A t \in Target :
                  outbox[t].state \in {"delivered", "cancelled"}
                      => outbox'[t].state \in {outbox[t].state, "purged"}
    BY <2>1, NextHolds DEF StepOK, RowStepOK
  <2> QED BY <2>1
<1> QED BY <1>1, Invariance, PTL DEF Spec, SettledFinal

(* The worker implements the promise: its first state is one of            *)
(* AlertObligation, and each of its steps is a step of AlertObligation or  *)
(* leaves the obligations alone.                                           *)
THEOREM ObligationKept == Spec => KeepsObligation
<1>1. Init => Obligation!OInit
  BY DEF Init, Absent, Obligation!OInit, ObligationStatus, Doubt
<1>2. IInv /\ [Next]_vars => [Obligation!ONext]_<<ObligationStatus, accepted, Doubt>>
  <2>1. ASSUME IInv, Next
        PROVE  Obligation!ONext
    <3>1. IInv' /\ StepOK
      BY <2>1, NextHolds
    <3>2. accepted' \subseteq Target /\ Doubt' \subseteq Target
      BY <3>1 DEF IInv, TypeOK, Doubt
    <3>3. ObligationStatus' \in [Target -> Obligation!OStatus]
      <4>1. ASSUME NEW r \in Row(Slot)
            PROVE  StatusOf(r) \in Obligation!OStatus
        BY DEF Row, RowState, Settled, StatusOf, Obligation!OStatus, Obligation!Ended
      <4>2. \A t \in Target : outbox'[t] \in Row(Slot)
        BY <3>1 DEF IInv, TypeOK
      <4>3. ObligationStatus' = [t \in Target |-> StatusOf(outbox'[t])]
        BY DEF ObligationStatus, StatusOf
      <4> QED BY <4>1, <4>2, <4>3
    <3> QED BY <3>1, <3>2, <3>3 DEF StepOK, Promise, Obligation!ONext
  <2>2. ASSUME UNCHANGED vars
        PROVE  UNCHANGED <<ObligationStatus, accepted, Doubt>>
    BY <2>2 DEF vars, storeVars, ObligationStatus, Doubt
  <2> QED BY <2>1, <2>2
<1> QED BY <1>1, <1>2, Invariance, PTL DEF Spec, KeepsObligation, Obligation!OSpec, Obligation!ovars

-----------------------------------------------------------------------------
(* The channel reservations.                                               *)

\* The deliveries of channel c that process p holds.
Held(p, c) == {s \in Active(p) : ChannelOf[job[s].target] = c}

\* ChannelReserved does not say that a process holds finitely many deliveries,
\* and only of finite sets is one more counted as one more.
Reserved == ChannelReserved /\ \A p \in Proc, c \in Channel : IsFiniteSet(Held(p, c))

\* Which deliveries are held stays as it is.
HoldsSame(s) ==
    /\ job[s].pc = "idle" <=> job'[s].pc = "idle"
    /\ job[s].pc # "idle" => job'[s].target = job[s].target

LEMMA ReservedFacts ==
    ASSUME Reserved, NEW p \in Proc, NEW c \in Channel
    PROVE  /\ IsFiniteSet(Held(p, c))
           /\ inflight[p][c] = Cardinality(Held(p, c))
           /\ inflight[p][c] <= ChannelLimit[c]
BY DEF Reserved, ChannelReserved, Held

LEMMA HeldMember ==
    ASSUME NEW p \in Proc, NEW c \in Channel, NEW s \in Slot
    PROVE  /\ s \in Held(p, c) <=> Owner[s] = p /\ job[s].pc # "idle" /\ ChannelOf[job[s].target] = c
           /\ s \in Held(p, c)' <=> Owner[s] = p /\ job'[s].pc # "idle" /\ ChannelOf[job'[s].target] = c
BY DEF Held, Active, SlotsOf

LEMMA HeldSlots ==
    ASSUME NEW p \in Proc, NEW c \in Channel
    PROVE  Held(p, c) \subseteq Slot /\ Held(p, c)' \subseteq Slot
BY DEF Held, Active, SlotsOf

\* A step that changes the count of every channel by what it changes of the
\* deliveries held keeps the reservations.
LEMMA ReservedBy ==
    ASSUME \A p \in Proc, c \in Channel :
                /\ IsFiniteSet(Held(p, c)')
                /\ inflight'[p][c] = Cardinality(Held(p, c)')
                /\ inflight'[p][c] <= ChannelLimit[c]
    PROVE  Reserved'
BY DEF Reserved, ChannelReserved, Held

LEMMA SameReserved ==
    ASSUME Reserved, inflight' = inflight, \A s \in Slot : HoldsSame(s)
    PROVE  Reserved'
<1>1. ASSUME NEW p \in Proc, NEW c \in Channel
      PROVE  Held(p, c)' = Held(p, c)
  <2>1. \A s \in Slot : s \in Held(p, c)' <=> s \in Held(p, c)
    BY HeldMember DEF HoldsSame
  <2>2. Held(p, c) \subseteq Slot /\ Held(p, c)' \subseteq Slot
    BY HeldSlots
  <2> QED BY <2>1, <2>2
<1> QED BY <1>1, ReservedFacts, ReservedBy

\* A delivery that ends gives its place back.
LEMMA CompleteReserved ==
    ASSUME TypeOK, Reserved, NEW s \in Slot, job[s].pc # "idle", Complete(s)
    PROVE  Reserved'
<1> DEFINE o == Owner[s]
           d == ChannelOf[job[s].target]
<1>1. /\ o \in Proc /\ d \in Channel
      /\ inflight[o][d] \in Nat
  BY WorkerConstants DEF TypeOK
<1>2. /\ job'[s] = Idle
      /\ \A u \in Slot : u # s => job'[u] = job[u]
  BY DEF Complete, TypeOK
<1>3. \A p \in Proc, c \in Channel :
        inflight'[p][c] = IF p = o /\ c = d
                          THEN IF inflight[o][d] > 0 THEN inflight[o][d] - 1 ELSE 0
                          ELSE inflight[p][c]
  BY <1>1 DEF Complete, TypeOK
<1>4. s \in Held(o, d)
  BY <1>1, HeldMember
<1> HIDE DEF o, d
<1>5. ASSUME NEW p \in Proc, NEW c \in Channel
      PROVE  Held(p, c)' = IF p = o /\ c = d THEN Held(p, c) \ {s} ELSE Held(p, c)
  <2>1. s \notin Held(p, c)'
    BY <1>2, HeldMember DEF Idle
  <2>2. s \in Held(p, c) <=> p = o /\ c = d
    BY HeldMember DEF o, d
  <2>3. \A u \in Slot : u # s => (u \in Held(p, c)' <=> u \in Held(p, c))
    BY <1>2, HeldMember
  <2>4. Held(p, c) \subseteq Slot /\ Held(p, c)' \subseteq Slot
    BY HeldSlots
  <2> QED BY <2>1, <2>2, <2>3, <2>4
<1>6. /\ IsFiniteSet(Held(o, d))
      /\ inflight[o][d] = Cardinality(Held(o, d))
      /\ inflight[o][d] <= ChannelLimit[d]
  BY <1>1, ReservedFacts
<1>7. /\ IsFiniteSet(Held(o, d) \ {s})
      /\ Cardinality(Held(o, d) \ {s}) = Cardinality(Held(o, d)) - 1
  BY <1>4, <1>6, FS_RemoveElement
<1>8. Cardinality(Held(o, d)) # 0
  BY <1>4, <1>6, FS_EmptySet
<1>9. ChannelLimit[d] \in Nat
  BY <1>1, WorkerAssumption
<1>10. /\ inflight'[o][d] = Cardinality(Held(o, d) \ {s})
       /\ inflight'[o][d] <= ChannelLimit[d]
  <2>1. inflight[o][d] > 0
    BY <1>1, <1>6, <1>8
  <2>2. inflight'[o][d] = inflight[o][d] - 1
    BY <1>1, <1>3, <2>1
  <2> QED BY <1>1, <1>6, <1>7, <1>9, <2>2
<1>11. ASSUME NEW p \in Proc, NEW c \in Channel
       PROVE  /\ IsFiniteSet(Held(p, c)')
              /\ inflight'[p][c] = Cardinality(Held(p, c)')
              /\ inflight'[p][c] <= ChannelLimit[c]
  <2>1. CASE p = o /\ c = d
    <3>1. Held(p, c)' = Held(o, d) \ {s}
      BY <1>5, <2>1
    <3> QED BY <1>7, <1>10, <2>1, <3>1
  <2>2. CASE ~(p = o /\ c = d)
    <3>1. Held(p, c)' = Held(p, c) /\ inflight'[p][c] = inflight[p][c]
      BY <1>3, <1>5, <2>2
    <3> QED BY <3>1, ReservedFacts
  <2> QED BY <2>1, <2>2
<1> QED BY <1>11, ReservedBy

\* A claim takes a place its channel has left.
LEMMA ClaimReserved ==
    ASSUME TypeOK, Reserved, NEW p \in Proc, NEW s \in Slot, NEW t \in Target, ClaimDue(p, s, t)
    PROVE  Reserved'
<1> DEFINE d == ChannelOf[t]
<1>1. /\ d \in Channel /\ inflight[p][d] \in Nat
      /\ Owner[s] = p /\ job[s].pc = "idle"
      /\ inflight[p][d] < ChannelLimit[d]
      /\ ChannelLimit[d] \in Nat
  BY WorkerAssumption DEF TypeOK, ClaimDue, Leases, Candidates, SlotsOf
<1>2. /\ job'[s].pc = "claimed" /\ job'[s].target = t
      /\ \A u \in Slot : u # s => job'[u] = job[u]
  BY DEF ClaimDue, TypeOK, Idle
<1>3. \A q \in Proc, c \in Channel :
        inflight'[q][c] = IF q = p /\ c = d THEN inflight[p][d] + 1 ELSE inflight[q][c]
  BY <1>1 DEF ClaimDue, TypeOK
<1>4. s \notin Held(p, d)
  BY <1>1, HeldMember
<1>5. ASSUME NEW q \in Proc, NEW c \in Channel
      PROVE  Held(q, c)' = IF q = p /\ c = d THEN Held(q, c) \cup {s} ELSE Held(q, c)
  <2>1. s \notin Held(q, c)
    BY <1>1, HeldMember
  <2>2. s \in Held(q, c)' <=> q = p /\ c = d
    BY <1>1, <1>2, HeldMember
  <2>3. \A u \in Slot : u # s => (u \in Held(q, c)' <=> u \in Held(q, c))
    BY <1>2, HeldMember
  <2>4. Held(q, c) \subseteq Slot /\ Held(q, c)' \subseteq Slot
    BY HeldSlots
  <2> QED BY <2>1, <2>2, <2>3, <2>4
<1> HIDE DEF d
<1>6. /\ IsFiniteSet(Held(p, d))
      /\ inflight[p][d] = Cardinality(Held(p, d))
  BY <1>1, ReservedFacts
<1>7. /\ IsFiniteSet(Held(p, d) \cup {s})
      /\ Cardinality(Held(p, d) \cup {s}) = Cardinality(Held(p, d)) + 1
  BY <1>4, <1>6, FS_AddElement
<1>8. /\ inflight'[p][d] = Cardinality(Held(p, d) \cup {s})
      /\ inflight'[p][d] <= ChannelLimit[d]
  <2>1. inflight'[p][d] = inflight[p][d] + 1
    BY <1>1, <1>3
  <2> QED BY <1>1, <1>6, <1>7, <2>1
<1>9. ASSUME NEW q \in Proc, NEW c \in Channel
      PROVE  /\ IsFiniteSet(Held(q, c)')
             /\ inflight'[q][c] = Cardinality(Held(q, c)')
             /\ inflight'[q][c] <= ChannelLimit[c]
  <2>1. CASE q = p /\ c = d
    <3>1. Held(q, c)' = Held(p, d) \cup {s}
      BY <1>5, <2>1
    <3> QED BY <1>7, <1>8, <2>1, <3>1
  <2>2. CASE ~(q = p /\ c = d)
    <3>1. Held(q, c)' = Held(q, c) /\ inflight'[q][c] = inflight[q][c]
      BY <1>3, <1>5, <2>2
    <3> QED BY <3>1, ReservedFacts
  <2> QED BY <2>1, <2>2
<1> QED BY <1>9, ReservedBy

\* A process that dies holds nothing and counts nothing.
LEMMA LostReserved ==
    ASSUME TypeOK, Reserved, NEW p \in Proc, Lost(p)
    PROVE  Reserved'
<1>1. \A u \in Slot : job'[u] = IF Owner[u] = p THEN Idle ELSE job[u]
  BY DEF Lost
<1>2. \A q \in Proc, c \in Channel : inflight'[q][c] = IF q = p THEN 0 ELSE inflight[q][c]
  BY DEF Lost, TypeOK
<1>3. ASSUME NEW q \in Proc, NEW c \in Channel
      PROVE  /\ IsFiniteSet(Held(q, c)')
             /\ inflight'[q][c] = Cardinality(Held(q, c)')
             /\ inflight'[q][c] <= ChannelLimit[c]
  <2>1. CASE q = p
    <3>1. \A u \in Slot : u \notin Held(q, c)'
      BY <1>1, <2>1, HeldMember DEF Idle
    <3>2. Held(q, c)' \subseteq Slot
      BY HeldSlots
    <3>3. Held(q, c)' = {}
      BY <3>1, <3>2
    <3>4. inflight'[q][c] = 0 /\ 0 <= ChannelLimit[c]
      BY <1>2, <2>1, WorkerAssumption
    <3> QED BY <3>3, <3>4, FS_EmptySet
  <2>2. CASE q # p
    <3>1. \A u \in Slot : u \in Held(q, c)' <=> u \in Held(q, c)
      BY <1>1, <2>2, HeldMember
    <3>2. Held(q, c) \subseteq Slot /\ Held(q, c)' \subseteq Slot
      BY HeldSlots
    <3>3. Held(q, c)' = Held(q, c)
      BY <3>1, <3>2
    <3> QED BY <1>2, <2>2, <3>3, ReservedFacts
  <2> QED BY <2>1, <2>2
<1> QED BY <1>3, ReservedBy

LEMMA GotoSame ==
    ASSUME TypeOK, NEW s \in Slot, job[s].pc # "idle",
           NEW pc, pc # "idle", Goto(s, pc)
    PROVE  \A u \in Slot : HoldsSame(u)
<1>1. /\ job'[s].pc = pc /\ job'[s].target = job[s].target
      /\ \A u \in Slot : u # s => job'[u] = job[u]
  BY DEF Goto, TypeOK, Job
<1> QED BY <1>1 DEF HoldsSame

LEMMA SlotReserved ==
    ASSUME TypeOK, Reserved, NEW s \in Slot, SlotStep(s)
    PROVE  Reserved'
<1>1. CASE \/ HandoffFails(s) \/ ReleaseOnStop(s) \/ RefuseAttempt(s)
           \/ \E delay \in RetryDelays : RecordResult(s, delay)
           \/ RecoverStarted(s) \/ RecoverUnsent(s) \/ RecoveryFails(s)
  <2>1. job[s].pc # "idle" /\ Complete(s)
    BY <1>1 DEF HandoffFails, ReleaseOnStop, RefuseAttempt, RecordResult,
                RecoverStarted, RecoverUnsent, RecoveryFails
  <2> QED BY <2>1, CompleteReserved
<1>2. CASE \/ Offer(s) \/ Handoff(s) \/ LoadFails(s) \/ BeginAttempt(s) \/ BeginReplyLost(s)
           \/ CallProvider(s) \/ DeliveryRaises(s)
           \/ \E delay \in RetryDelays : RecordReplyLost(s, delay)
  <2>1. /\ job[s].pc # "idle" /\ inflight' = inflight
        /\ \E pc \in {"claimed", "handing", "queued", "unsent", "begun", "sending", "failed"} :
                Goto(s, pc)
    BY <1>2 DEF Offer, Handoff, LoadFails, BeginAttempt, BeginReplyLost, CallProvider,
                DeliveryRaises, RecordReplyLost, procVars
  <2>2. \A u \in Slot : HoldsSame(u)
    BY <2>1, GotoSame
  <2> QED BY <2>1, <2>2, SameReserved
<1>3. CASE \/ RefuseRoute(s) \/ ProviderAccepts(s) \/ Renew(s)
           \/ \E answer \in Answers, after \in RetryAfters \cup {0} :
                ProviderAnswers(s, answer, after)
  <2> DEFINE Kept == /\ job'[s].target = job[s].target
                     /\ job[s].pc # "idle" /\ job'[s].pc # "idle"
                     /\ \A u \in Slot : u # s => job'[u] = job[u]
  <2>1. ASSUME RefuseRoute(s) PROVE Kept
    BY <2>1 DEF RefuseRoute, TypeOK, Job
  <2>2. ASSUME ProviderAccepts(s) PROVE Kept
    BY <2>2 DEF ProviderAccepts, TypeOK, Job
  <2>3. ASSUME Renew(s) PROVE Kept
    BY <2>3 DEF Renew
  <2>4. ASSUME NEW answer \in Answers, NEW after \in RetryAfters \cup {0},
               ProviderAnswers(s, answer, after)
        PROVE  Kept
    BY <2>4 DEF ProviderAnswers, TypeOK, Job
  <2>5. Kept
    BY <1>3, <2>1, <2>2, <2>3, <2>4
  <2>6. inflight' = inflight
    BY <1>3 DEF RefuseRoute, ProviderAccepts, Renew, ProviderAnswers, procVars
  <2>7. \A u \in Slot : HoldsSame(u)
    BY <2>5 DEF HoldsSame
  <2> QED BY <2>6, <2>7, SameReserved
<1> QED BY <1>1, <1>2, <1>3 DEF SlotStep

LEMMA UnheldReserved ==
    ASSUME Reserved, UNCHANGED <<job, inflight>>
    PROVE  Reserved'
BY SameReserved DEF HoldsSame

LEMMA ProcReserved ==
    ASSUME IInv, Reserved, NEW p \in Proc, ProcStep(p)
    PROVE  Reserved'
<1>1. ASSUME NEW s \in Slot, NEW t \in Target, ClaimDue(p, s, t)
      PROVE  Reserved'
  BY <1>1, ClaimReserved DEF IInv
<1>2. CASE Dequeue(p)
  <2>1. Head(dispatch[p]) \in Slot /\ job[Head(dispatch[p])].pc = "queued"
    BY <1>2, DequeueHead DEF Dequeue, IInv
  <2>2. \A u \in Slot : HoldsSame(u)
    BY <1>2, <2>1, GotoSame DEF Dequeue, IInv
  <2> QED BY <1>2, <2>2, SameReserved DEF Dequeue
<1>3. CASE Crash(p) \/ Exit(p)
  BY <1>3, LostReserved DEF IInv, Crash, Exit
<1>4. CASE \/ \E s \in Slot, t \in Target : ClaimReplyLost(p, s, t)
           \/ ClaimNothing(p) \/ ClaimFails(p) \/ ClaimerReturns(p) \/ WorkerReturns(p)
           \/ Stop(p) \/ Stopped(p) \/ Start(p)
  BY <1>4, UnheldReserved
     DEF ClaimReplyLost, ClaimNothing, ClaimFails, ClaimerReturns, WorkerReturns,
         Stop, Stopped, Start
<1> QED BY <1>1, <1>2, <1>3, <1>4 DEF ProcStep, ClaimerStep, WorkerStep, ClaimStep

LEMMA AlertReserved ==
    ASSUME Reserved, AlertStep
    PROVE  Reserved'
<1>1. UNCHANGED <<job, inflight>>
  BY DEF AlertStep, CreateAlert, AcknowledgeAlert, ResolveAlert, MarkFalsePositive, CloseAlert,
         ReadBackfill, CommitBackfill, Replay, CleanupCompleted, procVars
<1> QED BY <1>1, UnheldReserved

LEMMA InitReserved == Init => Reserved
<1> SUFFICES ASSUME Init PROVE Reserved
  OBVIOUS
<1>1. ASSUME NEW p \in Proc, NEW c \in Channel
      PROVE  /\ Held(p, c) = {}
             /\ inflight[p][c] = 0
             /\ 0 <= ChannelLimit[c]
  BY WorkerAssumption DEF Init, Held, Active, SlotsOf, Idle
<1> QED BY <1>1, FS_EmptySet DEF Reserved, ChannelReserved, Held

(* The number of deliveries of a channel a process believes to hold is the  *)
(* number it does hold, and no more than the channel may have, on every     *)
(* path by which a delivery ends.                                           *)
THEOREM ChannelsAreReserved == Spec => []ChannelReserved
<1>1. Init => IInv /\ Reserved
  BY InitHolds, InitReserved
<1>2. IInv /\ Reserved /\ [Next]_vars => (IInv /\ Reserved)'
  <2>1. ASSUME IInv, Reserved, Next
        PROVE  IInv' /\ Reserved'
    <3>1. ASSUME Tick PROVE Reserved'
      BY <2>1, <3>1, UnheldReserved DEF Tick, procVars
    <3>2. Reserved'
      BY <2>1, <3>1, AlertReserved, SlotReserved, ProcReserved DEF Next, Step, IInv
    <3> QED BY <2>1, <3>2, NextHolds
  <2>2. ASSUME IInv, Reserved, UNCHANGED vars
        PROVE  IInv' /\ Reserved'
    BY <2>2, StutterHolds, UnheldReserved DEF vars, procVars
  <2> QED BY <2>1, <2>2
<1>3. IInv /\ Reserved => ChannelReserved
  BY DEF Reserved
<1> QED BY <1>1, <1>2, <1>3, PTL DEF Spec

-----------------------------------------------------------------------------
(* The order of claims.                                                    *)

\* A wait with at most k whole aging periods is shorter than k + 1 of them.
LEMMA WaitBelow ==
    ASSUME NEW n \in Nat, NEW a \in Nat \ {0}, NEW k \in Int, n \div a <= k
    PROVE  n < (k + 1) * a
<1> DEFINE d == n \div a
<1>1. d \in Int /\ n % a \in 0 .. (a - 1) /\ n = a * d + (n % a)
  OBVIOUS
<1> HIDE DEF d
<1>2. a * d <= a * k
  <2>1. d <= k
    BY DEF d
  <2> QED BY <1>1, <2>1
<1>3. (k + 1) * a = a * k + a /\ a * k \in Int /\ a * d \in Int
  BY <1>1
<1> QED BY <1>1, <1>2, <1>3

\* A due row whose band is not the first has waited less than AgeCap.
LEMMA NotYetFirst ==
    ASSUME NEW r \in Row(Slot), r.next <= 0, NEW p \in 1 .. LowestPriority, Band(r, p) > 1
    PROVE  r.next > -AgeCap
<1>1. /\ AgingTicks \in Nat \ {0} /\ LowestPriority \in Nat \ {0}
      /\ r.next \in Int /\ -r.next \in Nat
  BY StoreAssumption, AgeCapNat DEF Row
<1> DEFINE d == (-r.next) \div AgingTicks
           k == LowestPriority - 2
<1>2. d \in Int
  BY <1>1
<1>3. p - d > 1
  <2> HIDE DEF d
  <2>1. Band(r, p) = IF p - d < 1 THEN 1 ELSE p - d
    BY DEF Band, d
  <2> QED BY <1>2, <2>1
<1>4. d <= k /\ k \in Int
  <2> HIDE DEF d
  <2> QED BY <1>1, <1>2, <1>3
<1>5. -r.next < (k + 1) * AgingTicks
  <2> HIDE DEF k
  <2> QED BY <1>1, <1>4, WaitBelow
<1>6. (k + 1) * AgingTicks = AgeCap
  <2>1. k + 1 = LowestPriority - 1
    BY <1>1
  <2> HIDE DEF k
  <2> QED BY <2>1 DEF AgeCap
<1> QED BY <1>1, <1>5, <1>6, AgeCapNat

LEMMA BandType ==
    ASSUME NEW r \in Row(Slot), NEW p \in 1 .. LowestPriority
    PROVE  Band(r, p) \in Int /\ Band(r, p) >= 1
<1>1. AgingTicks \in Nat \ {0} /\ r.next \in Int /\ p \in Int
  BY StoreAssumption, AgeCapNat DEF Row
<1>2. (-r.next) \div AgingTicks \in Int
  BY <1>1
<1> QED BY <1>1, <1>2 DEF Band

(* No claim prefers a row to one that became due AgeCap ticks earlier: the  *)
(* row passed over would have been promoted to the first band.             *)
THEOREM OvertakingIsBounded == Spec => OvertakingBounded
<1>1. IInv => OvertakesBounded
  <2> SUFFICES ASSUME IInv,
                      NEW p \in Proc, NEW s \in Slot, NEW t \in Target, ClaimDue(p, s, t),
                      NEW u \in Candidates(p), AgeCap # 0
               PROVE  outbox[u].next > outbox[t].next - AgeCap
    BY DEF OvertakesBounded
  <2>1. /\ u \in Target /\ IsDue(outbox[u]) /\ IsDue(outbox[t])
        /\ ClaimedBefore(outbox[t], PriorityOf[t], outbox[u], PriorityOf[u])
    BY DEF ClaimDue, Leases, Candidates
  <2>2. /\ outbox[t] \in Row(Slot) /\ outbox[u] \in Row(Slot)
        /\ PriorityOf[t] \in 1 .. LowestPriority /\ PriorityOf[u] \in 1 .. LowestPriority
    BY <2>1, WorkerAssumption DEF IInv, TypeOK
  <2>3. /\ outbox[t].next \in Int /\ outbox[u].next \in Int
        /\ outbox[t].next <= 0 /\ outbox[u].next <= 0
        /\ AgeCap \in Nat
    BY <2>1, <2>2, AgeCapNat DEF Row, IsDue
  <2>4. CASE Band(outbox[t], PriorityOf[t]) < Band(outbox[u], PriorityOf[u])
    <3>1. Band(outbox[u], PriorityOf[u]) > 1
      BY <2>2, <2>4, BandType
    <3>2. outbox[u].next > -AgeCap
      BY <2>2, <2>3, <3>1, NotYetFirst
    <3> QED BY <2>3, <3>2
  <2>5. CASE outbox[t].next <= outbox[u].next
    BY <2>3, <2>5
  <2> QED BY <2>1, <2>4, <2>5 DEF ClaimedBefore
<1>2. IInv /\ [Next]_vars => [OvertakesBounded]_vars
  BY <1>1
<1> QED BY <1>2, Invariance, PTL DEF Spec, OvertakingBounded

-----------------------------------------------------------------------------
(* AlertEvidence.                                                          *)

EvidenceConstants ==
    /\ CacheMax \in Nat \ {0}
    /\ Attempts \in Nat \ {0}
    /\ Grace \in Nat
    /\ MaxFaults \in Nat
    /\ NoAlert \notin Pictured

(* The types, by the component they are of.                                *)
Contents(c) == \A i, j \in DOMAIN c : ContentOf[c[i]] = ContentOf[c[j]] => i = j
CacheTyped == cache \in Seq(Evidence!Name) /\ Len(cache) <= CacheMax /\ Contents(cache)

FilesTyped ==
    /\ files \subseteq Evidence!Name
    /\ age \in [Evidence!Name -> 0 .. Grace + 1]
    /\ origin \in [Evidence!Name -> {"none", "written", "linked", "failed"}]
    /\ faults \in 0 .. MaxFaults

RowsTyped ==
    /\ rows \in [Pictured -> [status : {"absent", "open", "resolved"}, refs : SUBSET Evidence!Name]]
    /\ \A a \in Pictured : rows[a].refs \subseteq Evidence!NamesOf(a)
    /\ late \in [Pictured -> SUBSET SUBSET Evidence!Name]
    /\ result \in [Pictured -> {"none", "trying", "persisted", "failed", "lost"}]

Creator ==
    [pc : {"idle", "files", "check", "undo"}, alert : Pictured \cup {NoAlert},
     left : SUBSET Kind, refs : SUBSET Evidence!Name, created : SUBSET Evidence!Name,
     attempt : 0 .. Attempts, spent : 0 .. Grace]
Cleaner ==
    [pc : {"idle", "age", "usage", "capacity", "select", "list", "sweep", "dead"},
     first : BOOLEAN, rows : SUBSET Pictured, detach : SUBSET Pictured,
     referenced : SUBSET Evidence!Name, names : SUBSET Evidence!Name, old : SUBSET Evidence!Name]
ThreadsTyped == creator \in Creator /\ cleaner \in Cleaner

(* What the server may still commit are images of that alert, and only     *)
(* while nothing is durable; what was reported as persisted is durable.    *)
RowsInOrder ==
    \A a \in Pictured :
        /\ \A refs \in late[a] : refs \subseteq Evidence!NamesOf(a)
        /\ late[a] # {} => ~Evidence!Durable(a)
        /\ result[a] = "persisted" => Evidence!Durable(a)
        /\ result[a] = "none" => Evidence!NamesOf(a) \cap files = {}

Resolved(a) == rows[a].status = "resolved"
Written(n) == n \in files /\ origin[n] = "written"

(* What the persistence thread has written for its alert is there when it  *)
(* inserts the row, as young as the attempts are, and not of the files     *)
(* that a cleanup may delete.                                              *)
CreatorInOrder ==
    creator.pc # "idle" =>
        /\ creator.alert \in Pictured
        /\ result[creator.alert] = "trying"
        /\ creator.refs \subseteq Evidence!NamesOf(creator.alert)
        /\ creator.created \subseteq Evidence!NamesOf(creator.alert)
        /\ creator.pc # "files" => creator.left = {}
        /\ \A n \in Evidence!NamesOf(creator.alert) :
             Written(n) => n \notin cleaner.old /\ age[n] <= creator.spent
        /\ ~Resolved(creator.alert) /\ creator.pc # "undo" =>
             \A k \in Kind \ creator.left :
                origin[<<creator.alert, k>>] = "written" => <<creator.alert, k>> \in files

(* The cleanup prunes resolved alerts and lists files once, at the end.    *)
CleanerInOrder ==
    /\ \A a \in cleaner.rows \cup cleaner.detach : Resolved(a)
    /\ cleaner.pc # "sweep" => cleaner.names = {}

(* A file that is kept is neither on the list nor about to be: it was      *)
(* named when the cleanup read the rows, or was young when it began.       *)
KeptInOrder ==
    \A a \in Pictured : Evidence!Kept(a) =>
        \A n \in Evidence!Named(a, {"written"}) :
            /\ n \in files
            /\ n \in cleaner.old => /\ n \notin cleaner.names
                                    /\ cleaner.pc = "list" => n \in cleaner.referenced

Typed == CacheTyped /\ FilesTyped /\ RowsTyped /\ ThreadsTyped
EvidenceInv == Typed /\ RowsInOrder /\ CreatorInOrder /\ CleanerInOrder /\ KeptInOrder

LEMMA TypedIsOK == ASSUME Typed PROVE Evidence!TypeOK
<1>1. DOMAIN cache = 1 .. Len(cache)
  BY LenProperties DEF Typed, CacheTyped
<1>2. \A i \in DOMAIN cache : cache[i] \in Evidence!Name
  BY <1>1, ElementOfSeq DEF Typed, CacheTyped
<1> QED BY <1>2 DEF Typed, CacheTyped, Contents, FilesTyped, RowsTyped, ThreadsTyped, Creator, Cleaner, Evidence!TypeOK

-----------------------------------------------------------------------------
(* The cache.                                                              *)

LEMMA Removed ==
    ASSUME NEW S, NEW s \in Seq(S), NEW i \in 1 .. Len(s)
    PROVE  /\ Evidence!RemoveAt(s, i) \in Seq(S)
           /\ Len(Evidence!RemoveAt(s, i)) = Len(s) - 1
           /\ \A j \in 1 .. Len(s) - 1 : Evidence!RemoveAt(s, i)[j] = IF j < i THEN s[j] ELSE s[j + 1]
<1> DEFINE front == SubSeq(s, 1, i - 1)
           back == SubSeq(s, i + 1, Len(s))
<1>1. Len(s) \in Nat /\ \A j \in 1 .. Len(s) : s[j] \in S
  BY LenProperties, ElementOfSeq
<1>2. /\ front \in Seq(S) /\ Len(front) = i - 1
      /\ \A j \in 1 .. i - 1 : front[j] = s[j]
  <2>1. \A j \in 1 .. i - 1 : s[j] \in S
    BY <1>1
  <2>2. /\ front \in Seq(S) /\ Len(front) = IF 1 <= i - 1 THEN i - 1 - 1 + 1 ELSE 0
        /\ \A j \in 1 .. i - 1 - 1 + 1 : front[j] = s[1 + j - 1]
    BY <1>1, <2>1, SubSeqProperties
  <2> QED BY <1>1, <2>2
<1>3. /\ back \in Seq(S) /\ Len(back) = Len(s) - i
      /\ \A j \in 1 .. Len(s) - i : back[j] = s[i + j]
  <2>1. \A j \in i + 1 .. Len(s) : s[j] \in S
    BY <1>1
  <2>2. /\ back \in Seq(S) /\ Len(back) = IF i + 1 <= Len(s) THEN Len(s) - (i + 1) + 1 ELSE 0
        /\ \A j \in 1 .. Len(s) - (i + 1) + 1 : back[j] = s[i + 1 + j - 1]
    BY <1>1, <2>1, SubSeqProperties
  <2> QED BY <1>1, <2>2
<1> HIDE DEF front, back
<1>4. /\ front \o back \in Seq(S)
      /\ Len(front \o back) = Len(front) + Len(back)
      /\ \A j \in 1 .. Len(front) + Len(back) :
            (front \o back)[j] = IF j <= Len(front) THEN front[j] ELSE back[j - Len(front)]
  BY <1>2, <1>3, ConcatProperties
<1>5. Evidence!RemoveAt(s, i) = front \o back
  BY DEF Evidence!RemoveAt, front, back
<1>6. ASSUME NEW j \in 1 .. Len(s) - 1
      PROVE  (front \o back)[j] = IF j < i THEN s[j] ELSE s[j + 1]
  <2>1. j \in 1 .. Len(front) + Len(back)
    BY <1>1, <1>2, <1>3
  <2>2. CASE j < i
    BY <1>2, <1>4, <2>1, <2>2
  <2>3. CASE ~(j < i)
    <3>1. j - Len(front) \in 1 .. Len(s) - i /\ i + (j - Len(front)) = j + 1
      BY <1>1, <1>2, <2>3
    <3>2. back[j - Len(front)] = s[j + 1]
      BY <1>3, <3>1
    <3> QED BY <1>2, <1>4, <2>1, <2>3, <3>2
  <2> QED BY <2>2, <2>3
<1>7. Len(front) + Len(back) = Len(s) - 1
  BY <1>1, <1>2, <1>3
<1> QED BY <1>4, <1>5, <1>6, <1>7

(* Without its entry for the content of n the cache has room for one.      *)
LEMMA OthersTyped ==
    ASSUME EvidenceConstants, CacheTyped, NEW n \in Evidence!Name
    PROVE  /\ Evidence!OtherEntries(n) \in Seq(Evidence!Name)
           /\ Len(Evidence!OtherEntries(n)) <= CacheMax
           /\ Contents(Evidence!OtherEntries(n))
           /\ \A i \in DOMAIN Evidence!OtherEntries(n) : ContentOf[Evidence!OtherEntries(n)[i]] # ContentOf[n]
<1>1. cache \in Seq(Evidence!Name) /\ Len(cache) \in Nat /\ DOMAIN cache = 1 .. Len(cache)
  BY LenProperties DEF CacheTyped
<1>2. CASE \E i \in DOMAIN cache : Evidence!SameContent(i, n)
  <2> DEFINE i == CHOOSE i \in DOMAIN cache : Evidence!SameContent(i, n)
             c == Evidence!RemoveAt(cache, i)
  <2>1. i \in 1 .. Len(cache) /\ ContentOf[cache[i]] = ContentOf[n]
    BY <1>1, <1>2 DEF Evidence!SameContent
  <2>2. Evidence!OtherEntries(n) = c
    BY <1>2 DEF Evidence!OtherEntries
  <2> HIDE DEF i
  <2>3. /\ c \in Seq(Evidence!Name) /\ Len(c) = Len(cache) - 1
        /\ \A j \in 1 .. Len(cache) - 1 : c[j] = IF j < i THEN cache[j] ELSE cache[j + 1]
    BY <1>1, <2>1, Removed
  <2>4. DOMAIN c = 1 .. Len(cache) - 1
    BY <2>3, LenProperties
  <2> HIDE DEF c
  <2>5. ASSUME NEW j \in DOMAIN c
        PROVE  \E m \in DOMAIN cache : m # i /\ c[j] = cache[m] /\ m = IF j < i THEN j ELSE j + 1
    BY <1>1, <2>1, <2>3, <2>4
  <2>6. ASSUME NEW j \in DOMAIN c PROVE ContentOf[c[j]] # ContentOf[n]
    BY <1>1, <2>1, <2>5 DEF CacheTyped, Contents
  <2>7. ASSUME NEW j \in DOMAIN c, NEW l \in DOMAIN c, ContentOf[c[j]] = ContentOf[c[l]]
        PROVE  j = l
    <3>1. PICK m \in DOMAIN cache : c[j] = cache[m] /\ m = IF j < i THEN j ELSE j + 1
      BY <2>5
    <3>2. PICK k \in DOMAIN cache : c[l] = cache[k] /\ k = IF l < i THEN l ELSE l + 1
      BY <2>5
    <3>3. m = k
      BY <2>7, <3>1, <3>2 DEF CacheTyped, Contents
    <3> QED BY <2>1, <2>4, <3>1, <3>2, <3>3, <1>1
  <2>8. Len(c) <= CacheMax
    BY <1>1, <2>1, <2>3 DEF CacheTyped, EvidenceConstants
  <2> QED BY <2>2, <2>3, <2>6, <2>7, <2>8 DEF Contents
<1>3. CASE ~\E i \in DOMAIN cache : Evidence!SameContent(i, n)
  BY <1>1, <1>3 DEF Evidence!OtherEntries, Evidence!SameContent, CacheTyped
<1> QED BY <1>2, <1>3

LEMMA RememberTyped ==
    ASSUME EvidenceConstants, CacheTyped, NEW n \in Evidence!Name, Evidence!Remember(n)
    PROVE  CacheTyped'
<1> DEFINE others == Evidence!OtherEntries(n)
           entries == Append(others, n)
<1>1. /\ others \in Seq(Evidence!Name) /\ Contents(others)
      /\ \A i \in DOMAIN others : ContentOf[others[i]] # ContentOf[n]
      /\ Len(others) <= CacheMax
  BY OthersTyped
<1>2. cache' = IF Len(entries) > CacheMax THEN Tail(entries) ELSE entries
  BY DEF Evidence!Remember
<1> HIDE DEF others
<1>3. /\ entries \in Seq(Evidence!Name) /\ entries # <<>> /\ Len(entries) = Len(others) + 1
      /\ \A i \in 1 .. Len(others) : entries[i] = others[i]
      /\ entries[Len(others) + 1] = n
  BY <1>1, AppendProperties
<1>4. Len(others) \in Nat /\ DOMAIN others = 1 .. Len(others)
  BY <1>1, LenProperties
<1>5. DOMAIN entries = 1 .. Len(others) + 1
  BY <1>3, LenProperties
<1> HIDE DEF entries
<1>6. Contents(entries)
  <2> SUFFICES ASSUME NEW i \in DOMAIN entries, NEW j \in DOMAIN entries,
                      ContentOf[entries[i]] = ContentOf[entries[j]]
               PROVE  i = j
    BY DEF Contents
  <2>1. CASE i \in 1 .. Len(others) /\ j \in 1 .. Len(others)
    BY <1>1, <1>3, <1>4, <2>1 DEF Contents
  <2>2. CASE i = Len(others) + 1 /\ j \in 1 .. Len(others)
    BY <1>1, <1>3, <1>4, <2>2
  <2>3. CASE j = Len(others) + 1 /\ i \in 1 .. Len(others)
    BY <1>1, <1>3, <1>4, <2>3
  <2> QED BY <1>4, <1>5, <2>1, <2>2, <2>3
<1>7. CASE Len(entries) > CacheMax
  <2>1. /\ Tail(entries) \in Seq(Evidence!Name) /\ Len(Tail(entries)) = Len(entries) - 1
        /\ \A i \in 1 .. Len(Tail(entries)) : Tail(entries)[i] = entries[i + 1]
    BY <1>3, HeadTailProperties
  <2>2. DOMAIN Tail(entries) = 1 .. Len(others)
    BY <1>3, <1>4, <2>1, LenProperties
  <2>3. Contents(Tail(entries))
    <3> SUFFICES ASSUME NEW i \in 1 .. Len(others), NEW j \in 1 .. Len(others),
                        ContentOf[Tail(entries)[i]] = ContentOf[Tail(entries)[j]]
                 PROVE  i = j
      BY <2>2 DEF Contents
    <3>1. ContentOf[entries[i + 1]] = ContentOf[entries[j + 1]]
      BY <1>3, <1>4, <2>1
    <3>2. i + 1 = j + 1
      BY <1>4, <1>5, <1>6, <3>1 DEF Contents
    <3> QED BY <1>4, <3>2
  <2>4. cache' = Tail(entries)
    BY <1>2, <1>7
  <2>5. Len(Tail(entries)) <= CacheMax
    BY <1>1, <1>3, <1>4, <2>1
  <2> QED BY <2>1, <2>3, <2>4, <2>5 DEF CacheTyped, Contents
<1>8. CASE ~(Len(entries) > CacheMax)
  <2>1. cache' = entries
    BY <1>2, <1>8
  <2>2. Len(entries) <= CacheMax
    BY <1>3, <1>4, <1>8 DEF EvidenceConstants
  <2> QED BY <1>3, <1>6, <2>1, <2>2 DEF CacheTyped, Contents
<1> QED BY <1>7, <1>8

-----------------------------------------------------------------------------
(* Names.                                                                  *)

LEMMA Names ==
    /\ \A a \in Pictured : Evidence!NamesOf(a) \subseteq Evidence!Name
    /\ \A a \in Pictured, k \in Kind : <<a, k>> \in Evidence!NamesOf(a)
    /\ \A a \in Pictured : \A n \in Evidence!NamesOf(a) : \E k \in Kind : n = <<a, k>>
    /\ \A a, b \in Pictured : a # b => Evidence!NamesOf(a) \cap Evidence!NamesOf(b) = {}
BY DEF Evidence!NamesOf, Evidence!Name

-----------------------------------------------------------------------------
(* The persistence thread makes files.                                     *)

(* The attempt is done with the image of kind k: the file n is there, or   *)
(* not; if it was written, it is there and too young to be deleted.        *)
ImageIs(k, n, age1, how, R, C, Old) ==
    /\ creator.pc = "files" /\ k \in creator.left /\ n = <<creator.alert, k>>
    /\ files' = files \/ files' = files \cup {n}
    /\ age1 \in 0 .. Grace + 1 /\ age' = [age EXCEPT ![n] = age1]
    /\ how \in {"none", "written", "linked", "failed"} /\ origin' = [origin EXCEPT ![n] = how]
    /\ R \subseteq creator.refs \cup {n} /\ C \subseteq creator.created \cup {n}
    /\ creator' = [creator EXCEPT !.left = creator.left \ {k}, !.refs = R, !.created = C]
    /\ Old \in SUBSET Evidence!Name /\ Old \ {n} = cleaner.old \ {n}
    /\ cleaner' = [cleaner EXCEPT !.old = Old]
    /\ how = "written" => n \in files' /\ n \notin Old /\ age1 <= creator.spent
    /\ UNCHANGED <<Evidence!dbVars, result>>

LEMMA ImageDone ==
    ASSUME EvidenceConstants, EvidenceInv, NEW k, NEW n \in Evidence!Name, NEW age1, NEW how, NEW R, NEW C, NEW Old,
           ImageIs(k, n, age1, how, R, C, Old), CacheTyped', faults' \in 0 .. MaxFaults
    PROVE  EvidenceInv'
<1> USE DEF ImageIs
<1> DEFINE a == creator.alert
<1>1. a \in Pictured /\ result[a] = "trying" /\ n \in Evidence!NamesOf(a) /\ k \in Kind
  <2>1. a \in Pictured /\ result[a] = "trying"
    BY DEF EvidenceInv, CreatorInOrder
  <2>2. k \in Kind
    BY DEF EvidenceInv, Typed, ThreadsTyped, Creator
  <2> QED BY <2>1, <2>2, Names
<1>2. \A b \in Pictured : b # a => n \notin Evidence!NamesOf(b)
  BY <1>1, Names
<1>3. rows' = rows /\ late' = late /\ result' = result
  BY DEF Evidence!dbVars
<1>4. /\ creator'.pc = "files" /\ creator'.alert = a /\ creator'.left = creator.left \ {k}
      /\ creator'.refs = R /\ creator'.created = C /\ creator'.spent = creator.spent
      /\ creator' \in Creator
  <2>1. R \subseteq Evidence!Name /\ C \subseteq Evidence!Name
    BY DEF EvidenceInv, Typed, ThreadsTyped, Creator
  <2> QED BY <2>1 DEF EvidenceInv, Typed, ThreadsTyped, Creator
<1>5. /\ cleaner' \in Cleaner /\ cleaner'.old = Old
      /\ cleaner'.pc = cleaner.pc /\ cleaner'.rows = cleaner.rows /\ cleaner'.detach = cleaner.detach
      /\ cleaner'.referenced = cleaner.referenced /\ cleaner'.names = cleaner.names
  BY DEF EvidenceInv, Typed, ThreadsTyped, Cleaner
<1>6. /\ \A m \in Evidence!Name : m # n => age'[m] = age[m] /\ origin'[m] = origin[m]
      /\ age'[n] = age1 /\ origin'[n] = how
  BY DEF EvidenceInv, Typed, FilesTyped
<1>7. \A m : m # n => (m \in files' <=> m \in files) /\ (m \in Old <=> m \in cleaner.old)
  OBVIOUS
<1> HIDE DEF a
<1>8. Typed'
  <2>1. FilesTyped'
    BY DEF EvidenceInv, Typed, FilesTyped
  <2>2. RowsTyped'
    BY <1>3 DEF EvidenceInv, Typed, RowsTyped
  <2> QED BY <1>4, <1>5, <2>1, <2>2 DEF Typed, ThreadsTyped, Creator, Cleaner
<1>9. RowsInOrder'
  <2>1. ASSUME NEW b \in Pictured, result[b] = "none" PROVE Evidence!NamesOf(b) \cap files' = {}
    <3>1. b # a
      BY <1>1, <2>1
    <3> QED BY <1>2, <1>7, <2>1, <3>1 DEF EvidenceInv, RowsInOrder
  <2> QED BY <1>3, <2>1 DEF EvidenceInv, RowsInOrder, Evidence!Durable
<1>10. CreatorInOrder'
  <2>1. R \subseteq Evidence!NamesOf(a) /\ C \subseteq Evidence!NamesOf(a)
    BY <1>1 DEF EvidenceInv, CreatorInOrder, a
  <2>2. ASSUME NEW m \in Evidence!NamesOf(a), m \in files', origin'[m] = "written"
        PROVE  m \notin Old /\ age'[m] <= creator.spent
    <3>1. CASE m = n
      BY <1>6, <2>2, <3>1
    <3>2. CASE m # n
      <4>1. m \in Evidence!Name
        BY <1>1, Names
      <4>2. m \notin cleaner.old /\ age[m] <= creator.spent
        BY <1>6, <1>7, <2>2, <3>2, <4>1 DEF EvidenceInv, CreatorInOrder, Written, a
      <4> QED BY <1>6, <1>7, <3>2, <4>1, <4>2
    <3> QED BY <3>1, <3>2
  <2>3. ASSUME NEW l \in Kind \ (creator.left \ {k}), ~Resolved(a), origin'[<<a, l>>] = "written"
        PROVE  <<a, l>> \in files'
    <3>1. CASE l = k
      BY <1>6, <2>3, <3>1 DEF a
    <3>2. CASE l # k
      <4>1. <<a, l>> \in Evidence!Name /\ <<a, l>> # n
        BY <1>1, <3>2, Names DEF a
      <4>2. <<a, l>> \in files
        BY <1>6, <2>3, <3>2, <4>1 DEF EvidenceInv, CreatorInOrder, a
      <4> QED BY <4>2
    <3> QED BY <3>1, <3>2
  <2> QED BY <1>1, <1>3, <1>4, <1>5, <2>1, <2>2, <2>3 DEF CreatorInOrder, Written, Resolved
<1>11. CleanerInOrder'
  BY <1>3, <1>5 DEF EvidenceInv, CleanerInOrder, Resolved
<1>12. KeptInOrder'
  <2> SUFFICES ASSUME NEW b \in Pictured, Evidence!Kept(b), NEW m \in rows[b].refs, origin'[m] = "written"
               PROVE  /\ m \in files'
                      /\ m \in Old => /\ m \notin cleaner.names
                                      /\ cleaner.pc = "list" => m \in cleaner.referenced
    BY <1>3, <1>5 DEF KeptInOrder, Evidence!Kept, Evidence!Named
  <2>1. b # a
    BY <1>1 DEF Evidence!Kept
  <2>2. m \in Evidence!Name /\ m # n
    BY <1>2, <2>1, Names DEF EvidenceInv, Typed, RowsTyped
  <2>3. m \in Evidence!Named(b, {"written"})
    BY <1>6, <2>2 DEF Evidence!Named
  <2> QED BY <1>7, <2>2, <2>3 DEF EvidenceInv, KeptInOrder
<1> QED BY <1>8, <1>9, <1>10, <1>11, <1>12 DEF EvidenceInv

LEMMA ImageSteps ==
    ASSUME EvidenceConstants, EvidenceInv, NEW k \in Kind,
           Evidence!KeepSnapshot(k) \/ Evidence!LinkSnapshot(k) \/ Evidence!WriteSnapshot(k) \/ Evidence!WriteFails(k)
    PROVE  EvidenceInv'
<1> DEFINE n == <<creator.alert, k>>
<1>1. creator.pc = "files" /\ k \in creator.left
  BY DEF Evidence!KeepSnapshot, Evidence!LinkSnapshot, Evidence!WriteSnapshot, Evidence!WriteFails, Evidence!Creates
<1>2. n \in Evidence!NamesOf(creator.alert) /\ n \in Evidence!Name
  BY <1>1, Names DEF EvidenceInv, CreatorInOrder
<1>3. n[2] = k
  OBVIOUS
<1>4. /\ age \in [Evidence!Name -> 0 .. Grace + 1] /\ faults \in 0 .. MaxFaults
      /\ origin \in [Evidence!Name -> {"none", "written", "linked", "failed"}]
      /\ cleaner \in Cleaner /\ creator \in Creator /\ CacheTyped
  BY DEF EvidenceInv, Typed, FilesTyped, ThreadsTyped
<1>5. Written(n) => n \notin cleaner.old /\ age[n] <= creator.spent
  BY <1>1, <1>2 DEF EvidenceInv, CreatorInOrder
<1> HIDE DEF n
<1>6. age[n] \in 0 .. Grace + 1 /\ origin[n] \in {"none", "written", "linked", "failed"}
  BY <1>2, <1>4
<1>7. /\ age = [age EXCEPT ![n] = age[n]] /\ origin = [origin EXCEPT ![n] = origin[n]]
      /\ cleaner = [cleaner EXCEPT !.old = cleaner.old] /\ cleaner.old \in SUBSET Evidence!Name
      /\ creator.refs \subseteq creator.refs \cup {n} /\ creator.created \subseteq creator.created \cup {n}
      /\ creator.created \cup {} \subseteq creator.created \cup {n}
  BY <1>4 DEF Cleaner
<1>8. UNCHANGED cache => CacheTyped'
  BY <1>4 DEF CacheTyped, Contents
<1>9. CASE Evidence!KeepSnapshot(k)
  <2>1. /\ n \in files /\ Evidence!Refer(n, {}) /\ files' = files /\ age' = age /\ origin' = origin
        /\ cleaner' = cleaner /\ cache' = cache /\ faults' = faults /\ UNCHANGED <<Evidence!dbVars, result>>
    BY <1>9 DEF Evidence!KeepSnapshot, n
  <2>2. creator' = [creator EXCEPT !.left = creator.left \ {k}, !.refs = creator.refs \cup {n},
                                   !.created = creator.created \cup {}]
    BY <1>3, <2>1 DEF Evidence!Refer, n
  <2>3. origin[n] = "written" => n \in files' /\ n \notin cleaner.old /\ age[n] <= creator.spent
    BY <1>5, <2>1 DEF Written
  <2>4. /\ age' = [age EXCEPT ![n] = age[n]] /\ origin' = [origin EXCEPT ![n] = origin[n]]
        /\ cleaner' = [cleaner EXCEPT !.old = cleaner.old]
    BY <1>7, <2>1
  <2>5. CacheTyped' /\ faults' \in 0 .. MaxFaults /\ cleaner.old \ {n} = cleaner.old \ {n}
    BY <1>4, <1>8, <2>1
  <2>6. n = <<creator.alert, k>>
    BY DEF n
  <2>7. ImageIs(k, n, age[n], origin[n], creator.refs \cup {n}, creator.created \cup {}, cleaner.old)
    BY <1>1, <1>6, <1>7, <2>1, <2>2, <2>3, <2>4, <2>5, <2>6 DEF ImageIs
  <2> QED BY <1>2, <2>5, <2>7, ImageDone
<1>10. ASSUME NEW v \in 0 .. Grace + 1, NEW how \in {"written", "linked"},
              NEW Old \in SUBSET Evidence!Name, Old \ {n} = cleaner.old \ {n},
              how = "written" => v = 0 /\ n \notin Old,
              files' = files \cup {n}, age' = [age EXCEPT ![n] = v],
              cleaner' = [cleaner EXCEPT !.old = Old],
              Evidence!Remember(n), Evidence!Refer(n, {n}), origin' = [origin EXCEPT ![n] = how],
              UNCHANGED <<Evidence!dbVars, result, faults>>
       PROVE  EvidenceInv'
  <2>1. creator' = [creator EXCEPT !.left = creator.left \ {k}, !.refs = creator.refs \cup {n},
                                   !.created = creator.created \cup {n}]
    BY <1>3, <1>10 DEF Evidence!Refer, n
  <2>2. CacheTyped' /\ faults' \in 0 .. MaxFaults
    BY <1>2, <1>4, <1>10, RememberTyped
  <2>3. n = <<creator.alert, k>>
    BY DEF n
  <2>4. how = "written" => n \in files' /\ n \notin Old /\ v <= creator.spent
    BY <1>4, <1>10 DEF Creator, EvidenceConstants
  <2>5. creator.refs \cup {n} \subseteq creator.refs \cup {n}
        /\ creator.created \cup {n} \subseteq creator.created \cup {n}
    OBVIOUS
  <2>6. ImageIs(k, n, v, how, creator.refs \cup {n}, creator.created \cup {n}, Old)
    BY <1>1, <1>10, <2>1, <2>3, <2>4, <2>5 DEF ImageIs
  <2> QED BY <1>2, <2>2, <2>6, ImageDone
<1>11. CASE Evidence!LinkSnapshot(k)
  <2>1. PICK s \in Evidence!Source(n) \cap files :
            /\ age' = [age EXCEPT ![n] = age[s]]
            /\ cleaner' = [cleaner EXCEPT !.old = IF s \in @ THEN @ \cup {n} ELSE @ \ {n}]
    BY <1>11 DEF Evidence!LinkSnapshot, n
  <2>2. age[s] \in 0 .. Grace + 1
    BY <1>4, <2>1 DEF EvidenceInv, Typed, FilesTyped
  <2>3. PICK Old \in SUBSET Evidence!Name : /\ cleaner' = [cleaner EXCEPT !.old = Old]
                                            /\ Old \ {n} = cleaner.old \ {n}
    <3>1. cleaner.old \cup {n} \in SUBSET Evidence!Name /\ cleaner.old \ {n} \in SUBSET Evidence!Name
      BY <1>2, <1>7
    <3>2. /\ (cleaner.old \cup {n}) \ {n} = cleaner.old \ {n}
          /\ (cleaner.old \ {n}) \ {n} = cleaner.old \ {n}
      OBVIOUS
    <3> QED BY <2>1, <3>1, <3>2
  <2>4. /\ files' = files \cup {n} /\ Evidence!Remember(n) /\ Evidence!Refer(n, {n})
        /\ origin' = [origin EXCEPT ![n] = "linked"] /\ UNCHANGED <<Evidence!dbVars, result, faults>>
    BY <1>11 DEF Evidence!LinkSnapshot, n
  <2> QED BY <1>10, <2>1, <2>2, <2>3, <2>4
<1>12. CASE Evidence!WriteSnapshot(k)
  <2>1. /\ files' = files \cup {n} /\ Evidence!Remember(n) /\ Evidence!Refer(n, {n}) /\ age' = [age EXCEPT ![n] = 0]
        /\ cleaner' = [cleaner EXCEPT !.old = cleaner.old \ {n}]
        /\ origin' = [origin EXCEPT ![n] = "written"] /\ UNCHANGED <<Evidence!dbVars, result, faults>>
    BY <1>12 DEF Evidence!WriteSnapshot, n
  <2>2. /\ cleaner.old \ {n} \in SUBSET Evidence!Name /\ n \notin cleaner.old \ {n}
        /\ (cleaner.old \ {n}) \ {n} = cleaner.old \ {n}
    BY <1>7
  <2>3. 0 \in 0 .. Grace + 1
    BY DEF EvidenceConstants
  <2> QED BY <1>10, <2>1, <2>2, <2>3
<1>13. CASE Evidence!WriteFails(k)
  <2>1. /\ files' = files /\ age' = age /\ cleaner' = cleaner /\ UNCHANGED <<Evidence!dbVars, result>>
        /\ creator' = [creator EXCEPT !.left = creator.left \ {k}]
        /\ origin' = [origin EXCEPT ![n] = "failed"] /\ Evidence!Fault
        /\ cache' = Evidence!OtherEntries(n) \/ cache' = cache
    BY <1>13 DEF Evidence!WriteFails, n
  <2>2. creator' = [creator EXCEPT !.left = creator.left \ {k}, !.refs = creator.refs,
                                   !.created = creator.created]
    BY <1>4, <2>1 DEF Creator
  <2>3. CacheTyped'
    BY <1>2, <1>4, <1>8, <2>1, OthersTyped DEF CacheTyped, Contents
  <2>4. faults' \in 0 .. MaxFaults
    BY <1>4, <2>1 DEF Evidence!Fault, EvidenceConstants
  <2>5. n = <<creator.alert, k>>
    BY DEF n
  <2>6. /\ age' = [age EXCEPT ![n] = age[n]]
        /\ cleaner' = [cleaner EXCEPT !.old = cleaner.old]
    BY <1>7, <2>1
  <2>7. ImageIs(k, n, age[n], "failed", creator.refs, creator.created, cleaner.old)
    BY <1>1, <1>6, <1>7, <2>1, <2>2, <2>5, <2>6 DEF ImageIs
  <2> QED BY <1>2, <2>3, <2>4, <2>7, ImageDone
<1> QED BY <1>9, <1>11, <1>12, <1>13

-----------------------------------------------------------------------------
(* An attempt ends.                                                        *)

(* The row names refs: what was written of them is there, and stays.       *)
LEMMA PersistedKeeps ==
    ASSUME EvidenceConstants, EvidenceInv, creator.pc \in {"files", "check"}, creator.left = {},
           late[creator.alert] = {},
           NEW row \in [status : {"absent", "open", "resolved"}, refs : SUBSET Evidence!Name],
           row.status # "absent", row.refs \subseteq Evidence!NamesOf(creator.alert),
           rows[creator.alert].status = "resolved" => row.status = "resolved",
           rows' = [rows EXCEPT ![creator.alert] = row], Evidence!Persisted(row.refs),
           row.status = "open" => ~Resolved(creator.alert),
           UNCHANGED <<age, cache, late, cleaner, origin, faults>>
    PROVE  EvidenceInv'
<1> DEFINE a == creator.alert
<1>1. /\ a \in Pictured /\ result[a] = "trying" /\ creator.created \subseteq Evidence!NamesOf(a)
      /\ \A n \in Evidence!NamesOf(a) : Written(n) => n \notin cleaner.old
      /\ ~Resolved(a) => \A n \in Evidence!NamesOf(a) : origin[n] = "written" => n \in files
  <2>1. /\ a \in Pictured /\ result[a] = "trying" /\ creator.created \subseteq Evidence!NamesOf(a)
        /\ \A n \in Evidence!NamesOf(a) : Written(n) => n \notin cleaner.old
    BY DEF EvidenceInv, CreatorInOrder
  <2>2. ASSUME ~Resolved(a), NEW n \in Evidence!NamesOf(a), origin[n] = "written" PROVE n \in files
    <3>1. PICK k \in Kind : n = <<a, k>>
      BY <2>1, Names
    <3> QED BY <2>2, <3>1 DEF EvidenceInv, CreatorInOrder
  <2> QED BY <2>1, <2>2
<1>2. /\ files' = files \ (creator.created \ row.refs)
      /\ result' = [result EXCEPT ![a] = "persisted"]
      /\ creator' = Evidence!Resting
  BY DEF Evidence!Persisted
<1>3. \A b \in Pictured : /\ b # a => rows'[b] = rows[b] /\ result'[b] = result[b]
                          /\ b = a => rows'[b] = row /\ result'[b] = "persisted"
  BY <1>1, <1>2 DEF EvidenceInv, Typed, RowsTyped
<1>4. \A b \in Pictured : b # a => \A n \in Evidence!NamesOf(b) : n \in files' <=> n \in files
  BY <1>1, <1>2, Names
<1> HIDE DEF a
<1>5. Typed'
  <2>1. CacheTyped'
    BY DEF EvidenceInv, Typed, CacheTyped, Contents
  <2>2. FilesTyped'
    BY <1>2 DEF EvidenceInv, Typed, FilesTyped
  <2>3. RowsTyped'
    <3>1. rows' \in [Pictured -> [status : {"absent", "open", "resolved"}, refs : SUBSET Evidence!Name]]
      BY DEF EvidenceInv, Typed, RowsTyped
    <3>2. \A b \in Pictured : rows'[b].refs \subseteq Evidence!NamesOf(b)
      BY <1>3 DEF EvidenceInv, Typed, RowsTyped, a
    <3>3. result' \in [Pictured -> {"none", "trying", "persisted", "failed", "lost"}]
      BY <1>2 DEF EvidenceInv, Typed, RowsTyped
    <3> QED BY <3>1, <3>2, <3>3 DEF EvidenceInv, Typed, RowsTyped
  <2>4. ThreadsTyped'
    BY <1>2 DEF EvidenceInv, Typed, ThreadsTyped, Creator, Evidence!Resting, EvidenceConstants
  <2> QED BY <2>1, <2>2, <2>3, <2>4 DEF Typed
<1>6. RowsInOrder'
  BY <1>3, <1>4 DEF EvidenceInv, RowsInOrder, Evidence!Durable, a
<1>7. CreatorInOrder'
  BY <1>2 DEF CreatorInOrder, Evidence!Resting
<1>8. CleanerInOrder'
  BY <1>3 DEF EvidenceInv, CleanerInOrder, Resolved, Typed, ThreadsTyped, Cleaner, a
<1>9. KeptInOrder'
  <2> SUFFICES ASSUME NEW b \in Pictured, Evidence!Kept(b)', NEW n \in rows'[b].refs, origin[n] = "written"
               PROVE  /\ n \in files'
                      /\ n \in cleaner.old => /\ n \notin cleaner.names
                                              /\ cleaner.pc = "list" => n \in cleaner.referenced
    BY DEF KeptInOrder, Evidence!Named
  <2>1. CASE b # a
    <3>1. Evidence!Kept(b) /\ n \in Evidence!Named(b, {"written"})
      BY <1>3, <2>1 DEF Evidence!Kept, Evidence!Named
    <3>2. n \in Evidence!NamesOf(b)
      BY <3>1 DEF Evidence!Named, EvidenceInv, Typed, RowsTyped
    <3> QED BY <1>4, <2>1, <3>1, <3>2 DEF EvidenceInv, KeptInOrder
  <2>2. CASE b = a
    <3>1. n \in row.refs /\ n \in Evidence!NamesOf(a) /\ row.status = "open"
      BY <1>3, <2>2 DEF Evidence!Kept, a
    <3>2. n \in files /\ n \notin cleaner.old
      BY <1>1, <3>1 DEF Written, a
    <3> QED BY <1>2, <3>1, <3>2
  <2> QED BY <2>1, <2>2
<1> QED BY <1>5, <1>6, <1>7, <1>8, <1>9 DEF EvidenceInv

LEMMA RowSteps ==
    ASSUME EvidenceConstants, EvidenceInv, Evidence!Commit \/ Evidence!CommitReplay \/ Evidence!FindsRow
    PROVE  EvidenceInv'
<1> DEFINE a == creator.alert
<1>1. /\ creator.pc \in {"files", "check"} /\ creator.left = {} /\ a \in Pictured
      /\ creator.refs \subseteq Evidence!NamesOf(a) /\ creator.refs \in SUBSET Evidence!Name
  BY DEF Evidence!Commit, Evidence!CommitReplay, Evidence!FindsRow, Evidence!Inserts, EvidenceInv, CreatorInOrder, Typed, ThreadsTyped, Creator
<1>2. late[a] = {}
  BY <1>1 DEF Evidence!Commit, Evidence!CommitReplay, Evidence!FindsRow, Evidence!Inserts, EvidenceInv, RowsInOrder
<1>3. /\ rows \in [Pictured -> [status : {"absent", "open", "resolved"}, refs : SUBSET Evidence!Name]]
      /\ rows[a].refs \subseteq Evidence!NamesOf(a)
  BY <1>1 DEF EvidenceInv, Typed, RowsTyped
<1>4. CASE Evidence!Commit
  <2> DEFINE row == [status |-> "open", refs |-> creator.refs]
  <2>1. row \in [status : {"absent", "open", "resolved"}, refs : SUBSET Evidence!Name]
    BY <1>1
  <2>2. rows' = [rows EXCEPT ![a] = row] /\ Evidence!Persisted(row.refs) /\ ~Evidence!Durable(a)
    BY <1>4 DEF Evidence!Commit, Evidence!NewRow
  <2>3. UNCHANGED <<age, cache, late, cleaner, origin, faults>>
    BY <1>4 DEF Evidence!Commit
  <2>4. rows[a].status # "resolved" /\ row.status = "open" /\ row.refs = creator.refs
    BY <2>2 DEF Evidence!Durable
  <2> HIDE DEF row
  <2> QED BY <1>1, <1>2, <2>1, <2>2, <2>3, <2>4, PersistedKeeps DEF Resolved
<1>5. CASE Evidence!CommitReplay \/ Evidence!FindsRow
  <2>1. /\ Evidence!Durable(a) /\ rows' = rows /\ Evidence!Persisted(rows[a].refs)
        /\ UNCHANGED <<age, cache, late, cleaner, origin, faults>>
    BY <1>5 DEF Evidence!CommitReplay, Evidence!FindsRow, Evidence!dbVars
  <2>2. rows' = [rows EXCEPT ![a] = rows[a]]
    BY <1>3, <2>1
  <2>3. /\ rows[a] \in [status : {"absent", "open", "resolved"}, refs : SUBSET Evidence!Name]
        /\ rows[a].status # "absent"
    BY <1>1, <1>3, <2>1 DEF Evidence!Durable
  <2> QED BY <1>1, <1>2, <1>3, <2>1, <2>2, <2>3, PersistedKeeps DEF Resolved
<1> QED BY <1>4, <1>5

LEMMA AttemptKeeps ==
    ASSUME EvidenceConstants, EvidenceInv, creator.pc # "idle", Evidence!AttemptEnds,
           files' = files \/ files' = files \ creator.created,
           UNCHANGED <<age, cache, Evidence!dbVars, cleaner, origin>>, faults' \in 0 .. MaxFaults
    PROVE  EvidenceInv'
<1> DEFINE a == creator.alert
<1>1. /\ a \in Pictured /\ result[a] = "trying" /\ creator.created \subseteq Evidence!NamesOf(a)
      /\ \A n \in Evidence!NamesOf(a) : Written(n) => n \notin cleaner.old /\ age[n] <= creator.spent
      /\ creator \in Creator
  BY DEF EvidenceInv, CreatorInOrder, Typed, ThreadsTyped
<1>2. /\ \A b \in Pictured : b # a => \A n \in Evidence!NamesOf(b) : n \in files' <=> n \in files
      /\ files' \subseteq files
  BY <1>1, Names
<1>3. \/ /\ creator' \in Creator /\ creator'.pc = "files" /\ creator'.alert = a
         /\ creator'.left = Kind /\ creator'.refs = {} /\ creator'.created = {}
         /\ creator'.spent = creator.spent /\ result' = result
      \/ /\ creator' = Evidence!Resting /\ result' = [result EXCEPT ![a] = "failed"]
  <2>1. CASE creator.attempt < Attempts
    <3>1. creator.attempt + 1 \in 0 .. Attempts
      BY <1>1, <2>1 DEF Creator, EvidenceConstants
    <3> QED BY <1>1, <2>1, <3>1 DEF Evidence!AttemptEnds, Creator
  <2>2. CASE ~(creator.attempt < Attempts)
    BY <2>2 DEF Evidence!AttemptEnds
  <2> QED BY <2>1, <2>2
<1>4. rows' = rows /\ late' = late
  BY DEF Evidence!dbVars
<1>5. \A b \in Pictured : /\ result'[b] = "none" => result[b] = "none" /\ b # a
                          /\ result'[b] = "persisted" => result[b] = "persisted" /\ b # a
  BY <1>1, <1>3 DEF EvidenceInv, Typed, RowsTyped
<1> HIDE DEF a
<1>6. Typed'
  <2>1. CacheTyped'
    BY DEF EvidenceInv, Typed, CacheTyped, Contents
  <2>2. FilesTyped'
    BY <1>2 DEF EvidenceInv, Typed, FilesTyped
  <2>3. RowsTyped'
    BY <1>3, <1>4 DEF EvidenceInv, Typed, RowsTyped
  <2>4. ThreadsTyped'
    BY <1>3 DEF EvidenceInv, Typed, ThreadsTyped, Creator, Evidence!Resting, EvidenceConstants
  <2> QED BY <2>1, <2>2, <2>3, <2>4 DEF Typed
<1>7. RowsInOrder'
  BY <1>2, <1>4, <1>5 DEF EvidenceInv, RowsInOrder, Evidence!Durable
<1>8. CreatorInOrder'
  <2>1. CASE creator' = Evidence!Resting
    BY <2>1 DEF CreatorInOrder, Evidence!Resting
  <2>2. CASE creator'.pc = "files" /\ creator'.alert = a /\ creator'.left = Kind
             /\ creator'.refs = {} /\ creator'.created = {}
             /\ creator'.spent = creator.spent /\ result' = result
    BY <1>1, <1>2, <2>2 DEF CreatorInOrder, Written, a
  <2> QED BY <1>3, <2>1, <2>2
<1>9. CleanerInOrder'
  BY <1>4 DEF EvidenceInv, CleanerInOrder, Resolved
<1>10. KeptInOrder'
  <2> SUFFICES ASSUME NEW b \in Pictured, Evidence!Kept(b)', NEW n \in rows[b].refs, origin[n] = "written"
               PROVE  /\ n \in files'
                      /\ n \in cleaner.old => /\ n \notin cleaner.names
                                              /\ cleaner.pc = "list" => n \in cleaner.referenced
    BY <1>4 DEF KeptInOrder, Evidence!Named
  <2>1. Evidence!Kept(b) /\ b # a /\ n \in Evidence!Named(b, {"written"})
    BY <1>4, <1>5 DEF Evidence!Kept, Evidence!Named
  <2>2. n \in Evidence!NamesOf(b)
    BY DEF EvidenceInv, Typed, RowsTyped
  <2> QED BY <1>2, <2>1, <2>2 DEF EvidenceInv, KeptInOrder
<1> QED BY <1>6, <1>7, <1>8, <1>9, <1>10 DEF EvidenceInv

LEMMA FaultTyped == ASSUME EvidenceConstants, Typed, Evidence!Fault PROVE faults' \in 0 .. MaxFaults
BY DEF EvidenceConstants, Typed, FilesTyped, Evidence!Fault

LEMMA AttemptSteps ==
    ASSUME EvidenceConstants, EvidenceInv, Evidence!ReplayUnread \/ Evidence!CheckRaises \/ Evidence!Undo
    PROVE  EvidenceInv'
<1>1. /\ creator.pc # "idle" /\ Evidence!AttemptEnds
      /\ files' = files \/ files' = files \ creator.created
      /\ UNCHANGED <<age, cache, Evidence!dbVars, cleaner, origin>>
  BY DEF Evidence!ReplayUnread, Evidence!CheckRaises, Evidence!Undo, Evidence!Inserts
<1>2. faults' \in 0 .. MaxFaults
  BY FaultTyped DEF Evidence!ReplayUnread, Evidence!CheckRaises, Evidence!Undo, EvidenceInv, Typed, FilesTyped
<1> QED BY <1>1, <1>2, AttemptKeeps

-----------------------------------------------------------------------------
(* The rows of the server.                                                 *)

(* A row appears, or is resolved.                                          *)
LEMMA RowKeeps ==
    ASSUME EvidenceConstants, EvidenceInv, NEW a \in Pictured,
           NEW row \in [status : {"absent", "open", "resolved"}, refs : SUBSET Evidence!Name],
           row.status # "absent", row.refs \subseteq Evidence!NamesOf(a), ~Evidence!Durable(a) \/ row.status = "resolved",
           rows' = [rows EXCEPT ![a] = row], late' = [late EXCEPT ![a] = {}],
           \/ creator' = creator
           \/ /\ creator.pc = "files" /\ creator.left = {}
              /\ creator' = [creator EXCEPT !.pc = "check"],
           UNCHANGED <<files, age, cache, result, cleaner, origin>>, faults' \in 0 .. MaxFaults
    PROVE  EvidenceInv'
<1>1. \A b \in Pictured : /\ b # a => rows'[b] = rows[b] /\ late'[b] = late[b]
                          /\ b = a => rows'[b] = row /\ late'[b] = {}
  BY DEF EvidenceInv, Typed, RowsTyped
<1>2. /\ creator' \in Creator /\ creator'.alert = creator.alert /\ creator'.left = creator.left
      /\ creator'.refs = creator.refs /\ creator'.created = creator.created
      /\ creator'.spent = creator.spent
      /\ creator'.pc # creator.pc => creator.pc = "files" /\ creator'.pc = "check" /\ creator.left = {}
  BY DEF EvidenceInv, Typed, ThreadsTyped, Creator
<1>3. \A b \in Pictured : Resolved(b) => rows'[b].status = "resolved"
  BY <1>1 DEF Resolved, Evidence!Durable
<1>4. Typed'
  <2>1. CacheTyped'
    BY DEF EvidenceInv, Typed, CacheTyped, Contents
  <2>2. FilesTyped'
    BY DEF EvidenceInv, Typed, FilesTyped
  <2>3. RowsTyped'
    <3>1. rows' \in [Pictured -> [status : {"absent", "open", "resolved"}, refs : SUBSET Evidence!Name]]
      BY DEF EvidenceInv, Typed, RowsTyped
    <3>2. \A b \in Pictured : rows'[b].refs \subseteq Evidence!NamesOf(b)
      BY <1>1 DEF EvidenceInv, Typed, RowsTyped
    <3> QED BY <3>1, <3>2 DEF EvidenceInv, Typed, RowsTyped
  <2>4. ThreadsTyped'
    BY <1>2 DEF EvidenceInv, Typed, ThreadsTyped, Creator, Cleaner
  <2> QED BY <2>1, <2>2, <2>3, <2>4 DEF Typed
<1>5. RowsInOrder'
  BY <1>1 DEF EvidenceInv, RowsInOrder, Evidence!Durable
<1>6. CreatorInOrder'
  BY <1>2, <1>3 DEF EvidenceInv, CreatorInOrder, Resolved, Written
<1>7. CleanerInOrder'
  BY <1>3 DEF EvidenceInv, CleanerInOrder, Resolved, Typed, ThreadsTyped, Cleaner
<1>8. KeptInOrder'
  <2> SUFFICES ASSUME NEW b \in Pictured, Evidence!Kept(b)', NEW n \in rows'[b].refs, origin[n] = "written"
               PROVE  /\ n \in files
                      /\ n \in cleaner.old => /\ n \notin cleaner.names
                                              /\ cleaner.pc = "list" => n \in cleaner.referenced
    BY DEF KeptInOrder, Evidence!Named
  <2>1. b # a
    BY <1>1 DEF Evidence!Kept, EvidenceInv, RowsInOrder
  <2>2. Evidence!Kept(b) /\ n \in Evidence!Named(b, {"written"})
    BY <1>1, <2>1 DEF Evidence!Kept, Evidence!Named
  <2> QED BY <2>2 DEF EvidenceInv, KeptInOrder
<1> QED BY <1>4, <1>5, <1>6, <1>7, <1>8 DEF EvidenceInv

(* Steps of the persistence thread and the server that change no file, no  *)
(* row and no file that is old: what may still be committed shrinks or is  *)
(* of a transaction in doubt.                                              *)
LEMMA NothingMoves ==
    ASSUME EvidenceConstants, EvidenceInv, UNCHANGED <<files, age, cache, rows, cleaner, origin>>,
           late' \in [Pictured -> SUBSET SUBSET Evidence!Name], result' = result, faults' \in 0 .. MaxFaults,
           \A a \in Pictured : late'[a] # {} => ~Evidence!Durable(a) /\ \A refs \in late'[a] : refs \subseteq Evidence!NamesOf(a),
           \/ creator' = creator
           \/ /\ creator.pc = "files" /\ creator.left = {}
              /\ creator' = [creator EXCEPT !.pc = "check"]
           \/ /\ creator.pc = "check"
              /\ creator' = [creator EXCEPT !.pc = "undo"]
    PROVE  EvidenceInv'
<1>1. /\ creator' \in Creator /\ creator'.alert = creator.alert /\ creator'.left = creator.left
      /\ creator'.refs = creator.refs /\ creator'.created = creator.created
      /\ creator'.spent = creator.spent
      /\ creator'.pc # creator.pc => /\ creator.pc \in {"files", "check"} /\ creator'.pc \in {"check", "undo"}
                                     /\ creator.left = {}
  BY DEF EvidenceInv, Typed, ThreadsTyped, Creator, CreatorInOrder
<1>2. Typed'
  <2>1. CacheTyped'
    BY DEF EvidenceInv, Typed, CacheTyped, Contents
  <2>2. FilesTyped'
    BY DEF EvidenceInv, Typed, FilesTyped
  <2>3. RowsTyped'
    BY DEF EvidenceInv, Typed, RowsTyped
  <2>4. ThreadsTyped'
    BY <1>1 DEF EvidenceInv, Typed, ThreadsTyped, Creator, Cleaner
  <2> QED BY <2>1, <2>2, <2>3, <2>4 DEF Typed
<1>3. RowsInOrder'
  BY DEF EvidenceInv, RowsInOrder, Evidence!Durable
<1>4. CreatorInOrder'
  BY <1>1 DEF EvidenceInv, CreatorInOrder, Resolved, Written
<1>5. CleanerInOrder'
  BY DEF EvidenceInv, CleanerInOrder, Resolved
<1>6. KeptInOrder'
  BY DEF EvidenceInv, KeptInOrder, Evidence!Kept, Evidence!Named
<1> QED BY <1>2, <1>3, <1>4, <1>5, <1>6 DEF EvidenceInv

LEMMA RaisesSteps ==
    ASSUME EvidenceConstants, EvidenceInv, NEW fate \in {"nothing", "durable", "late"}, Evidence!CommitRaises(fate)
    PROVE  EvidenceInv'
<1> DEFINE a == creator.alert
           row == [status |-> "open", refs |-> creator.refs]
<1>1. /\ creator.pc = "files" /\ creator.left = {} /\ a \in Pictured
      /\ creator.refs \subseteq Evidence!NamesOf(a) /\ creator.refs \in SUBSET Evidence!Name /\ late[a] = {}
  BY DEF Evidence!CommitRaises, Evidence!Inserts, EvidenceInv, CreatorInOrder, Typed, ThreadsTyped, Creator
<1>2. /\ creator' = [creator EXCEPT !.pc = "check"] /\ faults' \in 0 .. MaxFaults
      /\ UNCHANGED <<files, age, cache, result, cleaner, origin>>
      /\ fate # "nothing" => ~Evidence!Durable(a)
  BY FaultTyped DEF Evidence!CommitRaises, EvidenceInv
<1>3. late \in [Pictured -> SUBSET SUBSET Evidence!Name]
  BY DEF EvidenceInv, Typed, RowsTyped
<1>4. CASE fate = "durable"
  <2>1. rows' = [rows EXCEPT ![a] = row] /\ late' = [late EXCEPT ![a] = {}]
    BY <1>1, <1>3, <1>4 DEF Evidence!CommitRaises, Evidence!NewRow
  <2>2. /\ row \in [status : {"absent", "open", "resolved"}, refs : SUBSET Evidence!Name]
        /\ row.status = "open" /\ row.refs = creator.refs
    BY <1>1
  <2> HIDE DEF a, row
  <2> QED BY <1>1, <1>2, <1>4, <2>1, <2>2, RowKeeps
<1>5. CASE fate # "durable"
  <2>1. /\ UNCHANGED rows
        /\ late' = [late EXCEPT ![a] = IF fate = "late" THEN {creator.refs} ELSE late[a]]
    BY <1>5 DEF Evidence!CommitRaises
  <2>2. late' \in [Pictured -> SUBSET SUBSET Evidence!Name]
    BY <1>1, <1>3, <2>1
  <2>3. ASSUME NEW b \in Pictured, late'[b] # {}
        PROVE  ~Evidence!Durable(b) /\ \A refs \in late'[b] : refs \subseteq Evidence!NamesOf(b)
    <3>1. CASE b # a
      BY <1>3, <2>1, <2>3, <3>1 DEF EvidenceInv, RowsInOrder
    <3>2. CASE b = a
      BY <1>1, <1>2, <1>3, <2>1, <2>3, <3>2
    <3> QED BY <3>1, <3>2
  <2> QED BY <1>1, <1>2, <2>1, <2>2, <2>3, NothingMoves
<1> QED BY <1>4, <1>5

LEMMA FindsNothingStep == ASSUME EvidenceConstants, EvidenceInv, Evidence!FindsNothing PROVE EvidenceInv'
<1>1. /\ creator.pc = "check" /\ creator' = [creator EXCEPT !.pc = "undo"]
      /\ UNCHANGED <<files, age, cache, rows, cleaner, origin>> /\ late' = late
      /\ result' = result /\ faults' = faults
  BY DEF Evidence!FindsNothing, Evidence!dbVars
<1>2. late \in [Pictured -> SUBSET SUBSET Evidence!Name] /\ faults \in 0 .. MaxFaults
  BY DEF EvidenceInv, Typed, RowsTyped, FilesTyped
<1>3. \A a \in Pictured : late[a] # {} => ~Evidence!Durable(a) /\ \A refs \in late[a] : refs \subseteq Evidence!NamesOf(a)
  BY DEF EvidenceInv, RowsInOrder
<1> QED BY <1>1, <1>2, <1>3, NothingMoves

LEMMA ServerSteps ==
    ASSUME EvidenceConstants, EvidenceInv, NEW a \in Pictured, NEW commits \in BOOLEAN,
           Evidence!SettleLate(a, commits) \/ Evidence!Resolve(a)
    PROVE  EvidenceInv'
<1>1. /\ late \in [Pictured -> SUBSET SUBSET Evidence!Name] /\ faults \in 0 .. MaxFaults
      /\ rows \in [Pictured -> [status : {"absent", "open", "resolved"}, refs : SUBSET Evidence!Name]]
      /\ \A b \in Pictured : rows[b].refs \subseteq Evidence!NamesOf(b)
  BY DEF EvidenceInv, Typed, RowsTyped, FilesTyped
<1>2. UNCHANGED <<files, age, cache, result, creator, cleaner, origin, faults>>
  BY DEF Evidence!SettleLate, Evidence!Resolve
<1>3. CASE Evidence!SettleLate(a, commits) /\ commits
  <2>1. late[a] # {} /\ late' = [late EXCEPT ![a] = {}] /\ ~Evidence!Durable(a)
    BY <1>3 DEF Evidence!SettleLate, EvidenceInv, RowsInOrder
  <2>2. PICK refs \in late[a] : Evidence!NewRow(a, refs)
    BY <1>3 DEF Evidence!SettleLate
  <2> DEFINE row == [status |-> "open", refs |-> refs]
  <2>3. refs \subseteq Evidence!NamesOf(a) /\ refs \in SUBSET Evidence!Name
    BY <1>1, <2>2 DEF EvidenceInv, RowsInOrder
  <2>4. rows' = [rows EXCEPT ![a] = row]
    BY <2>2 DEF Evidence!NewRow
  <2>5. /\ row \in [status : {"absent", "open", "resolved"}, refs : SUBSET Evidence!Name]
        /\ row.status = "open" /\ row.refs = refs
    BY <2>3
  <2> HIDE DEF row
  <2> QED BY <1>1, <1>2, <2>1, <2>3, <2>4, <2>5, RowKeeps
<1>4. CASE Evidence!SettleLate(a, commits) /\ ~commits
  <2>1. late' = [late EXCEPT ![a] = {}] /\ rows' = rows
    BY <1>4 DEF Evidence!SettleLate
  <2>2. late' \in [Pictured -> SUBSET SUBSET Evidence!Name]
    BY <1>1, <2>1
  <2>3. \A b \in Pictured : late'[b] # {} =>
                            ~Evidence!Durable(b) /\ \A refs \in late'[b] : refs \subseteq Evidence!NamesOf(b)
    BY <1>1, <2>1 DEF EvidenceInv, RowsInOrder
  <2> QED BY <1>1, <1>2, <2>1, <2>2, <2>3, NothingMoves
<1>5. CASE Evidence!Resolve(a)
  <2> DEFINE row == [rows[a] EXCEPT !.status = "resolved"]
  <2>1. rows' = [rows EXCEPT ![a] = row] /\ late' = late /\ Evidence!Durable(a)
    BY <1>1, <1>5 DEF Evidence!Resolve, Evidence!Durable
  <2>2. late' = [late EXCEPT ![a] = {}]
    <3>1. late[a] = {}
      BY <2>1 DEF EvidenceInv, RowsInOrder
    <3> QED BY <1>1, <2>1, <3>1
  <2>3. /\ row \in [status : {"absent", "open", "resolved"}, refs : SUBSET Evidence!Name]
        /\ row.status = "resolved" /\ row.refs = rows[a].refs
    <3>1. rows[a] \in [status : {"absent", "open", "resolved"}, refs : SUBSET Evidence!Name]
      BY <1>1
    <3> QED BY <3>1
  <2> HIDE DEF row
  <2> QED BY <1>1, <1>2, <2>1, <2>2, <2>3, RowKeeps
<1> QED BY <1>3, <1>4, <1>5

LEMMA StartStep ==
    ASSUME EvidenceConstants, EvidenceInv, NEW a \in Pictured, Evidence!StartPersist(a)
    PROVE  EvidenceInv'
<1>1. /\ creator.pc = "idle" /\ result[a] = "none" /\ result' = [result EXCEPT ![a] = "trying"]
      /\ UNCHANGED <<files, age, cache, rows, late, cleaner, origin, faults>>
  BY DEF Evidence!StartPersist, Evidence!dbVars
<1>2. creator' = [pc |-> "files", alert |-> a, left |-> Kind, refs |-> {}, created |-> {},
                  attempt |-> 1, spent |-> 0]
  BY DEF Evidence!StartPersist, Evidence!Resting
<1>3. /\ result \in [Pictured -> {"none", "trying", "persisted", "failed", "lost"}]
      /\ \A b \in Pictured : result'[b] = IF b = a THEN "trying" ELSE result[b]
  BY <1>1 DEF EvidenceInv, Typed, RowsTyped
<1>4. Evidence!NamesOf(a) \cap files = {}
  BY <1>1 DEF EvidenceInv, RowsInOrder
<1>5. Typed'
  <2>1. CacheTyped'
    BY <1>1 DEF EvidenceInv, Typed, CacheTyped, Contents
  <2>2. FilesTyped'
    BY <1>1 DEF EvidenceInv, Typed, FilesTyped
  <2>3. RowsTyped'
    BY <1>1, <1>3 DEF EvidenceInv, Typed, RowsTyped
  <2>4. ThreadsTyped'
    <3>1. creator' \in Creator
      BY <1>2 DEF Creator, EvidenceConstants
    <3> QED BY <1>1, <3>1 DEF EvidenceInv, Typed, ThreadsTyped, Creator, Cleaner
  <2> QED BY <2>1, <2>2, <2>3, <2>4 DEF Typed
<1>6. RowsInOrder'
  BY <1>1, <1>3 DEF EvidenceInv, RowsInOrder, Evidence!Durable
<1>7. CreatorInOrder'
  BY <1>1, <1>2, <1>3, <1>4 DEF CreatorInOrder, Written
<1>8. CleanerInOrder'
  BY <1>1 DEF EvidenceInv, CleanerInOrder, Resolved
<1>9. KeptInOrder'
  BY <1>1, <1>3 DEF EvidenceInv, KeptInOrder, Evidence!Kept, Evidence!Named
<1> QED BY <1>5, <1>6, <1>7, <1>8, <1>9 DEF EvidenceInv

-----------------------------------------------------------------------------
(* The cleanup.                                                            *)

(* Nothing goes that is kept or that the persistence thread counts on.     *)
Harmless(n) ==
    /\ \A b \in Pictured : Evidence!Kept(b) => n \notin Evidence!Named(b, {"written"})
    /\ creator.pc # "idle" /\ ~Resolved(creator.alert) /\ origin[n] = "written"
         => n \notin Evidence!NamesOf(creator.alert)

LEMMA CleanerMoves ==
    ASSUME EvidenceConstants, EvidenceInv, files' \subseteq files, \A n \in files \ files' : Harmless(n),
           cleaner' \in Cleaner, cleaner'.old \subseteq cleaner.old \cup Evidence!Stale,
           rows' \in [Pictured -> [status : {"absent", "open", "resolved"}, refs : SUBSET Evidence!Name]],
           \A a \in Pictured : /\ rows'[a].status = rows[a].status /\ rows'[a].refs \subseteq rows[a].refs,
           UNCHANGED <<age, cache, late, result, creator, origin>>, faults' \in 0 .. MaxFaults
    PROVE  /\ Typed' /\ RowsInOrder' /\ CreatorInOrder'
           /\ \A a \in Pictured : Evidence!Kept(a)' => /\ Evidence!Kept(a) /\ Evidence!Named(a, {"written"})' \subseteq Evidence!Named(a, {"written"})
                                           /\ Evidence!Named(a, {"written"})' \subseteq files'
<1>1. Typed'
  <2>1. CacheTyped'
    BY DEF EvidenceInv, Typed, CacheTyped, Contents
  <2>2. FilesTyped'
    BY DEF EvidenceInv, Typed, FilesTyped
  <2>3. RowsTyped'
    BY DEF EvidenceInv, Typed, RowsTyped
  <2>4. ThreadsTyped'
    BY DEF EvidenceInv, Typed, ThreadsTyped, Creator, Cleaner
  <2> QED BY <2>1, <2>2, <2>3, <2>4 DEF Typed
<1>2. RowsInOrder'
  BY DEF EvidenceInv, RowsInOrder, Evidence!Durable
<1>3. CreatorInOrder'
  <2> SUFFICES ASSUME creator.pc # "idle" PROVE CreatorInOrder'
    BY DEF CreatorInOrder
  <2> DEFINE a == creator.alert
  <2>1. /\ a \in Pictured /\ result[a] = "trying" /\ creator \in Creator
        /\ creator.refs \subseteq Evidence!NamesOf(a) /\ creator.created \subseteq Evidence!NamesOf(a)
        /\ creator.pc # "files" => creator.left = {}
        /\ \A n \in Evidence!NamesOf(a) : Written(n) => n \notin cleaner.old /\ age[n] <= creator.spent
        /\ ~Resolved(a) /\ creator.pc # "undo" =>
             \A k \in Kind \ creator.left : origin[<<a, k>>] = "written" => <<a, k>> \in files
    BY DEF EvidenceInv, CreatorInOrder, Typed, ThreadsTyped
  <2>2. Resolved(a)' <=> Resolved(a)
    BY <2>1 DEF Resolved
  <2>3. ASSUME NEW n \in Evidence!NamesOf(a), n \in files', origin[n] = "written"
        PROVE  n \notin cleaner'.old
    <3>1. n \notin cleaner.old /\ age[n] <= creator.spent /\ creator.spent <= Grace
      BY <2>1, <2>3 DEF Written, Creator, EvidenceConstants
    <3>2. age[n] \in 0 .. Grace + 1
      BY <2>1, <2>3, Names DEF EvidenceInv, Typed, FilesTyped
    <3>3. n \notin Evidence!Stale
      BY <2>1, <3>1, <3>2 DEF Evidence!Stale, Creator, EvidenceConstants
    <3> QED BY <3>1, <3>3
  <2>4. ASSUME ~Resolved(a), creator.pc # "undo", NEW k \in Kind \ creator.left,
               origin[<<a, k>>] = "written"
        PROVE  <<a, k>> \in files'
    <3>1. <<a, k>> \in files /\ <<a, k>> \in Evidence!NamesOf(a)
      BY <2>1, <2>4, Names
    <3>2. ~Harmless(<<a, k>>)
      BY <2>4, <3>1 DEF Harmless
    <3> QED BY <3>1, <3>2
  <2> QED BY <2>1, <2>2, <2>3, <2>4 DEF CreatorInOrder, Written
<1>4. ASSUME NEW a \in Pictured, Evidence!Kept(a)'
      PROVE  /\ Evidence!Kept(a) /\ Evidence!Named(a, {"written"})' \subseteq Evidence!Named(a, {"written"})
             /\ Evidence!Named(a, {"written"})' \subseteq files'
  <2>1. Evidence!Kept(a) /\ Evidence!Named(a, {"written"})' \subseteq Evidence!Named(a, {"written"})
    BY <1>4 DEF Evidence!Kept, Evidence!Named
  <2>2. ASSUME NEW n \in Evidence!Named(a, {"written"})' PROVE n \in files'
    <3>1. n \in Evidence!Named(a, {"written"}) /\ n \in files
      BY <2>1 DEF EvidenceInv, KeptInOrder
    <3>2. ~Harmless(n)
      BY <2>1, <3>1 DEF Harmless
    <3> QED BY <3>1, <3>2
  <2> QED BY <2>1, <2>2
<1> QED BY <1>1, <1>2, <1>3, <1>4

(* The files of a resolved alert may go.                                   *)
LEMMA ResolvedHarmless ==
    ASSUME EvidenceInv, NEW a \in Pictured, Resolved(a), NEW n \in Evidence!NamesOf(a)
    PROVE  Harmless(n)
<1>1. ASSUME NEW b \in Pictured, Evidence!Kept(b) PROVE n \notin Evidence!Named(b, {"written"})
  <2>1. b # a
    BY <1>1 DEF Evidence!Kept, Resolved
  <2> QED BY <2>1, Names DEF Evidence!Named, EvidenceInv, Typed, RowsTyped
<1>2. ASSUME creator.pc # "idle", ~Resolved(creator.alert) PROVE n \notin Evidence!NamesOf(creator.alert)
  BY <1>2, Names DEF EvidenceInv, CreatorInOrder
<1> QED BY <1>1, <1>2 DEF Harmless

(* So may a file the sweep takes.                                          *)
LEMMA SweptHarmless ==
    ASSUME EvidenceInv, NEW n \in cleaner.names \cap cleaner.old \cap files
    PROVE  Harmless(n)
<1>1. ASSUME NEW b \in Pictured, Evidence!Kept(b) PROVE n \notin Evidence!Named(b, {"written"})
  BY <1>1 DEF EvidenceInv, KeptInOrder
<1>2. ASSUME creator.pc # "idle", origin[n] = "written" PROVE n \notin Evidence!NamesOf(creator.alert)
  BY <1>2 DEF EvidenceInv, CreatorInOrder, Written
<1> QED BY <1>1, <1>2 DEF Harmless

LEMMA CleanerSteps ==
    ASSUME EvidenceConstants, EvidenceInv, Evidence!CleanerStep
    PROVE  EvidenceInv'
<1>t. /\ cleaner \in Cleaner /\ faults \in 0 .. MaxFaults /\ files \subseteq Evidence!Name
      /\ rows \in [Pictured -> [status : {"absent", "open", "resolved"}, refs : SUBSET Evidence!Name]]
      /\ \A a \in cleaner.rows \cup cleaner.detach : Resolved(a)
      /\ cleaner.rows \cup cleaner.detach \subseteq Pictured
      /\ cleaner.pc # "sweep" => cleaner.names = {}
      /\ \A a \in Pictured : rows[a].refs \subseteq Evidence!NamesOf(a) /\ rows[a].refs \in SUBSET Evidence!Name
  BY DEF EvidenceInv, Typed, ThreadsTyped, FilesTyped, RowsTyped, CleanerInOrder, Cleaner
<1>p. Evidence!Prunable \subseteq Pictured /\ \A a \in Evidence!Prunable : Resolved(a)
  BY DEF Evidence!Prunable, Resolved
<1>1. ASSUME rows' = rows, files' = files, UNCHANGED <<age, cache, late, result, creator, origin, faults>>,
             cleaner' \in Cleaner, cleaner'.old \subseteq cleaner.old \cup Evidence!Stale, CleanerInOrder',
             \A n \in cleaner'.old :
                \A a \in Pictured : Evidence!Kept(a) /\ n \in Evidence!Named(a, {"written"}) =>
                    /\ n \notin cleaner'.names
                    /\ cleaner'.pc = "list" => n \in cleaner'.referenced
      PROVE  EvidenceInv'
  <2>1. /\ Typed' /\ RowsInOrder' /\ CreatorInOrder'
        /\ \A a \in Pictured : Evidence!Kept(a)' => /\ Evidence!Kept(a) /\ Evidence!Named(a, {"written"})' \subseteq Evidence!Named(a, {"written"})
                                        /\ Evidence!Named(a, {"written"})' \subseteq files'
    BY <1>t, <1>1, CleanerMoves
  <2>2. KeptInOrder'
    BY <1>1, <2>1 DEF KeptInOrder
  <2> QED BY <1>1, <2>1, <2>2 DEF EvidenceInv
<1>2. CASE Evidence!StartCleanup
  <2>1. /\ cleaner.pc = "idle" /\ UNCHANGED <<files, age, cache, rows, late, result, creator, origin, faults>>
        /\ cleaner' = [cleaner EXCEPT !.pc = "age", !.rows = Evidence!Prunable, !.old = Evidence!Stale]
    BY <1>2 DEF Evidence!StartCleanup, Evidence!dbVars
  <2>2. Evidence!Stale \subseteq Evidence!Name
    BY <1>t DEF Evidence!Stale
  <2>3. /\ cleaner' \in Cleaner /\ cleaner'.old = Evidence!Stale /\ cleaner'.rows = Evidence!Prunable
        /\ cleaner'.detach = cleaner.detach /\ cleaner'.names = {} /\ cleaner'.pc = "age"
    BY <1>t, <1>p, <2>1, <2>2 DEF Cleaner
  <2>4. CleanerInOrder'
    BY <1>t, <1>p, <2>1, <2>3 DEF CleanerInOrder, Resolved
  <2> QED BY <1>1, <2>1, <2>3, <2>4
<1>3. ASSUME NEW a \in Pictured, Evidence!PruneRow(a) PROVE EvidenceInv'
  <2>1. /\ a \in cleaner.rows /\ files' = files \ rows[a].refs
        /\ UNCHANGED <<age, cache, rows, late, result, creator, origin, faults>>
    BY <1>3 DEF Evidence!PruneRow, Evidence!dbVars
  <2>2. /\ cleaner' \in Cleaner /\ cleaner'.old = cleaner.old /\ cleaner'.names = cleaner.names
        /\ cleaner'.pc = cleaner.pc /\ cleaner'.referenced = cleaner.referenced
        /\ cleaner'.rows \subseteq cleaner.rows /\ cleaner'.detach \subseteq cleaner.detach \cup {a}
    BY <1>t, <1>3 DEF Evidence!PruneRow, Cleaner
  <2>3. \A n \in files \ files' : Harmless(n)
    BY <1>t, <2>1, ResolvedHarmless
  <2>4. /\ Typed' /\ RowsInOrder' /\ CreatorInOrder'
        /\ \A b \in Pictured : Evidence!Kept(b)' => /\ Evidence!Kept(b) /\ Evidence!Named(b, {"written"})' \subseteq Evidence!Named(b, {"written"})
                                        /\ Evidence!Named(b, {"written"})' \subseteq files'
    BY <1>t, <2>1, <2>2, <2>3, CleanerMoves
  <2>5. CleanerInOrder'
    BY <1>t, <2>1, <2>2 DEF CleanerInOrder, Resolved
  <2>6. KeptInOrder'
    BY <2>2, <2>4 DEF KeptInOrder, EvidenceInv
  <2> QED BY <2>4, <2>5, <2>6 DEF EvidenceInv
<1>4. ASSUME NEW a \in Pictured, Evidence!SkipRow(a) PROVE EvidenceInv'
  <2>1. /\ UNCHANGED <<files, age, cache, rows, late, result, creator, origin, faults>>
        /\ cleaner' = [cleaner EXCEPT !.rows = cleaner.rows \ {a}]
    BY <1>4 DEF Evidence!SkipRow, Evidence!dbVars
  <2>2. /\ cleaner' \in Cleaner /\ cleaner'.old = cleaner.old /\ cleaner'.rows \subseteq cleaner.rows
        /\ cleaner'.detach = cleaner.detach /\ cleaner'.names = cleaner.names
        /\ cleaner'.pc = cleaner.pc /\ cleaner'.referenced = cleaner.referenced
    BY <1>t, <2>1 DEF Cleaner
  <2>3. CleanerInOrder'
    BY <1>t, <2>1, <2>2 DEF CleanerInOrder, Resolved
  <2> QED BY <1>1, <2>1, <2>2, <2>3 DEF EvidenceInv, KeptInOrder
<1>5. CASE Evidence!CommitPrune
  <2>1. /\ rows' = [a \in Pictured |-> IF a \in cleaner.detach THEN [rows[a] EXCEPT !.refs = {}] ELSE rows[a]]
        /\ UNCHANGED <<files, age, cache, late, result, creator, origin, faults>>
        /\ cleaner.pc \in {"age", "capacity"}
    BY <1>5 DEF Evidence!CommitPrune
  <2>2. /\ cleaner' \in Cleaner /\ cleaner'.old = cleaner.old /\ cleaner'.rows = cleaner.rows
        /\ cleaner'.detach = {} /\ cleaner'.names = {} /\ cleaner'.pc \in {"usage", "select"}
    BY <1>t, <1>5, <2>1 DEF Evidence!CommitPrune, Cleaner
  <2>3. /\ rows' \in [Pictured -> [status : {"absent", "open", "resolved"}, refs : SUBSET Evidence!Name]]
        /\ \A a \in Pictured : rows'[a].status = rows[a].status /\ rows'[a].refs \subseteq rows[a].refs
    BY <1>t, <2>1
  <2>4. /\ Typed' /\ RowsInOrder' /\ CreatorInOrder'
        /\ \A b \in Pictured : Evidence!Kept(b)' => /\ Evidence!Kept(b) /\ Evidence!Named(b, {"written"})' \subseteq Evidence!Named(b, {"written"})
                                        /\ Evidence!Named(b, {"written"})' \subseteq files'
    BY <1>t, <2>1, <2>2, <2>3, CleanerMoves
  <2>5. CleanerInOrder'
    BY <1>t, <2>2, <2>3 DEF CleanerInOrder, Resolved
  <2>6. KeptInOrder'
    BY <2>2, <2>4 DEF KeptInOrder
  <2> QED BY <2>4, <2>5, <2>6 DEF EvidenceInv
<1>6. CASE Evidence!OverCapacity
  <2>1. /\ cleaner.pc = "usage" /\ UNCHANGED <<files, age, cache, rows, late, result, creator, origin, faults>>
        /\ cleaner' = [cleaner EXCEPT !.pc = "capacity", !.rows = Evidence!Prunable]
    BY <1>6 DEF Evidence!OverCapacity, Evidence!dbVars
  <2>2. /\ cleaner' \in Cleaner /\ cleaner'.old = cleaner.old /\ cleaner'.rows = Evidence!Prunable
        /\ cleaner'.detach = cleaner.detach /\ cleaner'.names = {} /\ cleaner'.pc = "capacity"
    BY <1>t, <1>p, <2>1 DEF Cleaner
  <2>3. CleanerInOrder'
    BY <1>t, <1>p, <2>1, <2>2 DEF CleanerInOrder, Resolved
  <2> QED BY <1>1, <2>1, <2>2, <2>3
<1>7. CASE Evidence!ReadReferenced
  <2> DEFINE named == UNION {rows[a].refs : a \in Pictured}
  <2>1. /\ cleaner.pc \in {"usage", "select"}
        /\ UNCHANGED <<files, age, cache, rows, late, result, creator, origin, faults>>
        /\ cleaner' = [cleaner EXCEPT !.pc = "list", !.referenced = named]
    BY <1>7 DEF Evidence!ReadReferenced, Evidence!dbVars
  <2>2. named \subseteq Evidence!Name /\ \A a \in Pictured : rows[a].refs \subseteq named
    BY <1>t
  <2> HIDE DEF named
  <2>3. /\ cleaner' \in Cleaner /\ cleaner'.old = cleaner.old /\ cleaner'.rows = cleaner.rows
        /\ cleaner'.detach = cleaner.detach /\ cleaner'.names = {} /\ cleaner'.pc = "list"
        /\ cleaner'.referenced = named
    BY <1>t, <2>1, <2>2 DEF Cleaner
  <2>4. CleanerInOrder'
    BY <1>t, <2>1, <2>3 DEF CleanerInOrder, Resolved
  <2> QED BY <1>1, <2>1, <2>2, <2>3, <2>4 DEF Evidence!Named
<1>8. CASE Evidence!ListFiles
  <2>1. /\ cleaner.pc = "list" /\ UNCHANGED <<files, age, cache, rows, late, result, creator, origin, faults>>
        /\ cleaner' = [cleaner EXCEPT !.pc = "sweep", !.names = files \ cleaner.referenced]
    BY <1>8 DEF Evidence!ListFiles, Evidence!dbVars
  <2>2. /\ cleaner' \in Cleaner /\ cleaner'.old = cleaner.old /\ cleaner'.rows = cleaner.rows
        /\ cleaner'.detach = cleaner.detach /\ cleaner'.names = files \ cleaner.referenced
        /\ cleaner'.pc = "sweep"
    BY <1>t, <2>1 DEF Cleaner
  <2>3. CleanerInOrder'
    BY <1>t, <2>1, <2>2 DEF CleanerInOrder, Resolved
  <2> QED BY <1>1, <2>1, <2>2, <2>3 DEF EvidenceInv, KeptInOrder
<1>9. ASSUME NEW n \in Evidence!Name, Evidence!Sweep(n) PROVE EvidenceInv'
  <2>1. /\ n \in cleaner.names /\ files' = files \ ({n} \cap cleaner.old)
        /\ UNCHANGED <<age, cache, rows, late, result, creator, origin, faults>>
        /\ cleaner' = [cleaner EXCEPT !.names = cleaner.names \ {n}]
    BY <1>9 DEF Evidence!Sweep, Evidence!dbVars
  <2>2. /\ cleaner' \in Cleaner /\ cleaner'.old = cleaner.old /\ cleaner'.names \subseteq cleaner.names
        /\ cleaner'.pc = cleaner.pc /\ cleaner'.referenced = cleaner.referenced
        /\ cleaner'.rows = cleaner.rows /\ cleaner'.detach = cleaner.detach
    BY <1>t, <2>1 DEF Cleaner
  <2>3. \A m \in files \ files' : Harmless(m)
    BY <2>1, SweptHarmless
  <2>4. /\ Typed' /\ RowsInOrder' /\ CreatorInOrder'
        /\ \A b \in Pictured : Evidence!Kept(b)' => /\ Evidence!Kept(b) /\ Evidence!Named(b, {"written"})' \subseteq Evidence!Named(b, {"written"})
                                        /\ Evidence!Named(b, {"written"})' \subseteq files'
    BY <1>t, <2>1, <2>2, <2>3, CleanerMoves
  <2>5. CleanerInOrder'
    BY <1>t, <2>1, <2>2 DEF CleanerInOrder, Resolved
  <2>6. KeptInOrder'
    BY <2>2, <2>4 DEF KeptInOrder, EvidenceInv
  <2> QED BY <2>4, <2>5, <2>6 DEF EvidenceInv
<1>10. CASE Evidence!EndCleanup
  <2>1. cleaner' = Evidence!Waiting(FALSE) /\ UNCHANGED <<files, age, cache, rows, late, result, creator, origin, faults>>
    BY <1>10 DEF Evidence!EndCleanup, Evidence!dbVars
  <2>2. /\ cleaner' \in Cleaner /\ cleaner'.old = {} /\ cleaner'.rows = {} /\ cleaner'.detach = {}
        /\ cleaner'.names = {} /\ cleaner'.pc = "idle"
    BY <2>1 DEF Cleaner, Evidence!Waiting
  <2>3. CleanerInOrder'
    BY <2>2 DEF CleanerInOrder
  <2> QED BY <1>1, <2>1, <2>2, <2>3
<1> QED BY <1>2, <1>3, <1>4, <1>5, <1>6, <1>7, <1>8, <1>9, <1>10 DEF Evidence!CleanerStep

LEMMA CleanupRaisesStep == ASSUME EvidenceConstants, EvidenceInv, Evidence!CleanupRaises PROVE EvidenceInv'
<1>1. /\ UNCHANGED <<files, age, cache, rows, late, result, creator, origin>> /\ Evidence!Fault
      /\ cleaner' = [Evidence!Waiting(FALSE) EXCEPT !.pc = IF cleaner.first THEN "dead" ELSE "idle"]
  BY DEF Evidence!CleanupRaises, Evidence!dbVars
<1>2. /\ cleaner' \in Cleaner /\ cleaner'.old = {} /\ cleaner'.rows = {} /\ cleaner'.detach = {}
      /\ cleaner'.names = {} /\ cleaner'.pc # "list"
  BY <1>1 DEF Cleaner, Evidence!Waiting
<1>3. faults' \in 0 .. MaxFaults
  BY <1>1, FaultTyped DEF EvidenceInv
<1>4. /\ rows \in [Pictured -> [status : {"absent", "open", "resolved"}, refs : SUBSET Evidence!Name]]
      /\ cleaner'.old \subseteq cleaner.old \cup Evidence!Stale
  BY <1>2 DEF EvidenceInv, Typed, RowsTyped
<1>5. /\ Typed' /\ RowsInOrder' /\ CreatorInOrder'
      /\ \A a \in Pictured : Evidence!Kept(a)' => /\ Evidence!Kept(a) /\ Evidence!Named(a, {"written"})' \subseteq Evidence!Named(a, {"written"})
                                      /\ Evidence!Named(a, {"written"})' \subseteq files'
  BY <1>1, <1>2, <1>3, <1>4, CleanerMoves
<1>6. CleanerInOrder'
  BY <1>2 DEF CleanerInOrder
<1>7. KeptInOrder'
  BY <1>2, <1>5 DEF KeptInOrder
<1> QED BY <1>5, <1>6, <1>7 DEF EvidenceInv

-----------------------------------------------------------------------------
(* The process and time.                                                   *)

LEMMA RestartStep == ASSUME EvidenceConstants, EvidenceInv, Evidence!Restart PROVE EvidenceInv'
<1>1. /\ UNCHANGED <<files, age, rows, late, origin>> /\ Evidence!Fault /\ cache' = <<>>
      /\ result' = [a \in Pictured |-> IF result[a] = "trying" THEN "lost" ELSE result[a]]
      /\ creator' = Evidence!Resting /\ cleaner' = Evidence!Waiting(TRUE)
  BY DEF Evidence!Restart, Evidence!dbVars
<1>2. /\ cleaner' \in Cleaner /\ cleaner'.old = {} /\ cleaner'.rows = {} /\ cleaner'.detach = {}
      /\ cleaner'.names = {}
  BY <1>1 DEF Cleaner, Evidence!Waiting
<1>3. creator' \in Creator /\ creator'.pc = "idle"
  BY <1>1 DEF Creator, Evidence!Resting, EvidenceConstants
<1>4. /\ result' \in [Pictured -> {"none", "trying", "persisted", "failed", "lost"}]
      /\ \A a \in Pictured : /\ result'[a] = "none" => result[a] = "none"
                          /\ result'[a] = "persisted" => result[a] = "persisted"
  BY <1>1 DEF EvidenceInv, Typed, RowsTyped
<1>5. Typed'
  <2>1. CacheTyped'
    <3>1. <<>> \in Seq(Evidence!Name) /\ Len(<<>>) = 0 /\ DOMAIN <<>> = {}
      BY EmptySeq
    <3> QED BY <1>1, <3>1 DEF CacheTyped, Contents, EvidenceConstants
  <2>2. FilesTyped'
    BY <1>1, FaultTyped DEF EvidenceInv, Typed, FilesTyped
  <2>3. RowsTyped'
    BY <1>1, <1>4 DEF EvidenceInv, Typed, RowsTyped
  <2> QED BY <1>2, <1>3, <2>1, <2>2, <2>3 DEF Typed, ThreadsTyped, Creator, Cleaner
<1>6. RowsInOrder'
  BY <1>1, <1>4 DEF EvidenceInv, RowsInOrder, Evidence!Durable
<1>7. CreatorInOrder'
  BY <1>3 DEF CreatorInOrder
<1>8. CleanerInOrder'
  BY <1>2 DEF CleanerInOrder
<1>9. KeptInOrder'
  BY <1>1, <1>2, <1>4 DEF EvidenceInv, KeptInOrder, Evidence!Kept, Evidence!Named
<1> QED BY <1>5, <1>6, <1>7, <1>8, <1>9 DEF EvidenceInv

LEMMA TickStep == ASSUME EvidenceConstants, EvidenceInv, Evidence!Tick PROVE EvidenceInv'
<1>1. /\ creator.spent < Grace /\ age' = [n \in Evidence!Name |-> Evidence!Older(n)]
      /\ creator' = [creator EXCEPT !.spent = IF creator.pc = "idle" THEN 0 ELSE creator.spent + 1]
      /\ UNCHANGED <<files, cache, rows, late, result, cleaner, origin, faults>>
  BY DEF Evidence!Tick, Evidence!dbVars
<1>2. /\ creator' \in Creator /\ creator'.pc = creator.pc /\ creator'.alert = creator.alert
      /\ creator'.left = creator.left /\ creator'.refs = creator.refs
      /\ creator'.created = creator.created
      /\ creator.pc # "idle" => creator'.spent = creator.spent + 1
  <2>1. creator \in Creator /\ creator.spent \in 0 .. Grace
    BY DEF EvidenceInv, Typed, ThreadsTyped, Creator
  <2>2. (IF creator.pc = "idle" THEN 0 ELSE creator.spent + 1) \in 0 .. Grace
    BY <1>1, <2>1 DEF EvidenceConstants
  <2> QED BY <1>1, <2>1, <2>2 DEF Creator
<1>3. \A n \in Evidence!Name : /\ age[n] \in 0 .. Grace + 1
                               /\ age'[n] \in 0 .. Grace + 1 /\ age'[n] <= age[n] + 1
  <2> SUFFICES ASSUME NEW n \in Evidence!Name
               PROVE  /\ age[n] \in 0 .. Grace + 1
                      /\ age'[n] \in 0 .. Grace + 1 /\ age'[n] <= age[n] + 1
    OBVIOUS
  <2>1. age[n] \in 0 .. Grace + 1
    BY DEF EvidenceInv, Typed, FilesTyped
  <2> QED BY <1>1, <2>1 DEF Evidence!Older, EvidenceConstants
<1>4. Typed'
  <2>1. CacheTyped'
    BY <1>1 DEF EvidenceInv, Typed, CacheTyped, Contents
  <2>2. FilesTyped'
    BY <1>1, <1>3 DEF EvidenceInv, Typed, FilesTyped
  <2>3. RowsTyped'
    BY <1>1 DEF EvidenceInv, Typed, RowsTyped
  <2>4. ThreadsTyped'
    BY <1>1, <1>2 DEF EvidenceInv, Typed, ThreadsTyped, Creator, Cleaner
  <2> QED BY <2>1, <2>2, <2>3, <2>4 DEF Typed
<1>5. RowsInOrder'
  BY <1>1 DEF EvidenceInv, RowsInOrder, Evidence!Durable
<1>6. CreatorInOrder'
  <2> SUFFICES ASSUME creator.pc # "idle" PROVE CreatorInOrder'
    BY <1>2 DEF CreatorInOrder
  <2>1. creator.alert \in Pictured /\ creator.spent \in 0 .. Grace
    BY DEF EvidenceInv, CreatorInOrder, Typed, ThreadsTyped, Creator
  <2>2. ASSUME NEW n \in Evidence!NamesOf(creator.alert), Written(n)
        PROVE  n \notin cleaner.old /\ age'[n] <= creator.spent + 1
    <3>1. n \in Evidence!Name /\ n \notin cleaner.old /\ age[n] <= creator.spent
      BY <2>1, <2>2, Names DEF EvidenceInv, CreatorInOrder
    <3> QED BY <1>3, <2>1, <3>1 DEF EvidenceConstants
  <2> QED BY <1>1, <1>2, <2>2 DEF EvidenceInv, CreatorInOrder, Resolved, Written
<1>7. CleanerInOrder'
  BY <1>1 DEF EvidenceInv, CleanerInOrder, Resolved
<1>8. KeptInOrder'
  BY <1>1 DEF EvidenceInv, KeptInOrder, Evidence!Kept, Evidence!Named
<1> QED BY <1>4, <1>5, <1>6, <1>7, <1>8 DEF EvidenceInv

-----------------------------------------------------------------------------
(* The theorem.                                                            *)

LEMMA EvidenceBegins == ASSUME EvidenceConstants, Evidence!Init PROVE EvidenceInv
<1>1. cleaner \in Cleaner /\ cleaner.rows = {} /\ cleaner.detach = {} /\ cleaner.names = {}
  BY DEF Evidence!Init, Cleaner, Evidence!Waiting
<1>2. creator \in Creator /\ creator.pc = "idle"
  BY DEF Evidence!Init, Creator, Evidence!Resting, EvidenceConstants
<1>3. CacheTyped
  <2>1. <<>> \in Seq(Evidence!Name) /\ Len(<<>>) = 0 /\ DOMAIN <<>> = {}
    BY EmptySeq
  <2> QED BY <2>1 DEF Evidence!Init, CacheTyped, Contents, EvidenceConstants
<1>4. FilesTyped /\ RowsTyped
  BY DEF Evidence!Init, FilesTyped, RowsTyped, EvidenceConstants, Evidence!Absent
<1>5. RowsInOrder
  BY DEF Evidence!Init, RowsInOrder
<1>6. KeptInOrder
  BY DEF Evidence!Init, KeptInOrder, Evidence!Kept
<1> QED BY <1>1, <1>2, <1>3, <1>4, <1>5, <1>6 DEF EvidenceInv, Typed, ThreadsTyped, CreatorInOrder, CleanerInOrder

LEMMA EvidenceStays == ASSUME EvidenceConstants, EvidenceInv, [Evidence!Next]_(Evidence!vars) PROVE EvidenceInv'
<1>1. CASE UNCHANGED Evidence!vars
  <2>1. UNCHANGED <<files, age, cache, rows, late, result, creator, cleaner, origin, faults>>
    BY <1>1 DEF Evidence!vars
  <2> QED BY <2>1 DEF EvidenceInv, Typed, CacheTyped, Contents, FilesTyped, RowsTyped, ThreadsTyped, Creator,
             Cleaner, RowsInOrder, CreatorInOrder, CleanerInOrder, KeptInOrder, Evidence!Durable, Resolved,
             Written, Evidence!Kept, Evidence!Named
<1>2. ASSUME Evidence!CreatorStep PROVE EvidenceInv'
  BY <1>2, ImageSteps, RowSteps, AttemptSteps, RaisesSteps, FindsNothingStep DEF Evidence!CreatorStep
<1>3. ASSUME Evidence!SettleStep PROVE EvidenceInv'
  BY <1>3, ServerSteps DEF Evidence!SettleStep
<1>4. ASSUME NEW a \in Pictured, Evidence!Resolve(a) PROVE EvidenceInv'
  <2>1. TRUE \in BOOLEAN
    OBVIOUS
  <2> QED BY <1>4, <2>1, ServerSteps
<1> QED BY <1>1, <1>2, <1>3, <1>4, StartStep, CleanerSteps, CleanupRaisesStep, RestartStep, TickStep
        DEF Evidence!Next

(* In every reachable state an alert that was reported as persisted and is *)
(* not resolved has every image file that was written for it and that its  *)
(* row names, whatever commits are in doubt, attempts are repeated and     *)
(* cleanups run (create_alert, cleanup_snapshots).                         *)
THEOREM EvidenceIsKept ==
    ASSUME EvidenceConstants
    PROVE  Evidence!Spec => []Evidence!EvidenceKept
<1>1. Evidence!Init => EvidenceInv
  BY EvidenceBegins
<1>2. EvidenceInv /\ [Evidence!Next]_(Evidence!vars) => EvidenceInv'
  BY EvidenceStays
<1>3. EvidenceInv => Evidence!EvidenceKept
  BY TypedIsOK DEF EvidenceInv, KeptInOrder, Evidence!EvidenceKept
<1> QED BY <1>1, <1>2, <1>3, PTL DEF Evidence!Spec

-----------------------------------------------------------------------------
(* The site: outbox and evidence side by side.                             *)

(* Whatever the other does, the outbox behaves as AlertDeliveryWorker says *)
(* and the evidence as AlertEvidence.                                      *)
THEOREM SiteSideBySide == SiteSpec => Spec /\ Evidence!Spec
<1>1. SiteInit => Init /\ Evidence!Init
  BY DEF SiteInit
<1>2. [SiteNext]_<<vars, evidenceVars>> => [Next]_vars
  BY DEF SiteNext
<1>3. [SiteNext]_<<vars, evidenceVars>> => [Evidence!Next]_(Evidence!vars)
  BY DEF SiteNext, evidenceVars, Evidence!vars
<1> QED BY <1>1, <1>2, <1>3, PTL DEF SiteSpec, Spec, Evidence!Spec

(* The outbox and its workers take their steps between those of the        *)
(* persistence and the cleanup thread: no evidence is lost.                *)
THEOREM SiteKeepsEvidence == ASSUME EvidenceConstants PROVE SiteSpec => []EvidenceKept
BY SiteSideBySide, EvidenceIsKept, PTL DEF EvidenceKept

(* And the threads that write and delete images disturb no reservation of  *)
(* a delivery channel and no order of the claims.                          *)
THEOREM SiteDelivers == SiteSpec => []ChannelReserved /\ OvertakingBounded
BY SiteSideBySide, ChannelsAreReserved, OvertakingIsBounded, PTL
=============================================================================
