------------------------- MODULE AlertDeliveryStore -------------------------
(***************************************************************************)
(* One row of the table alert_delivery_outbox and the transactions of      *)
(* alert_delivery_store.py on it, as operators from row to row.  Each      *)
(* operator is one committed transaction; a caller whose fence does not    *)
(* match gets the row back unchanged.                                      *)
(*                                                                         *)
(* Deadlines are kept relative to the database clock: `next' is            *)
(* next_attempt_at - now, `expire' is expires_at - now, `lease' is         *)
(* lease_expires_at - now.  An elapsed expires_at or lease stays at 0; a   *)
(* row waits at most AgeCap ticks below zero, where its priority has       *)
(* already reached the first band.  A settled row drops its deadlines: no  *)
(* transaction reads them again before requeue_terminal sets new ones.     *)
(***************************************************************************)
EXTENDS Integers

CONSTANTS
    MaxAttempts,    \* ALERT_DELIVERY_ATTEMPTS: provider attempts of a row, and its internal failures
    LeaseTicks,     \* ALERT_OUTBOX_LEASE_SECONDS, in ticks
    Lifetime,       \* ALERT_DELIVERY_MAX_AGE_SECONDS: life of a row after it becomes eligible
    MaxDelay,       \* the longest delay in use: an escalation step or a retry
    AgingTicks,     \* ALERT_DELIVERY_PRIORITY_AGING_SECONDS: wait that promotes a row one band
    LowestPriority, \* the largest priority number of a target (P4 in production)
    NoToken         \* SQL NULL in lease_token

ASSUME StoreAssumption ==
    /\ {MaxAttempts, LeaseTicks, Lifetime, AgingTicks, LowestPriority} \subseteq Nat \ {0}
    /\ MaxDelay \in Nat

\* The wait after which every priority has been promoted to the first band.
AgeCap == (LowestPriority - 1) * AgingTicks

\* "absent" is no row yet; "purged" is a row removed by cleanup_completed.
Settled == {"delivered", "terminal", "cancelled"}
RowState == {"absent", "pending", "purged"} \cup Settled

Row(Token) ==
    [state       : RowState,
     next        : -AgeCap .. MaxDelay,
     expire      : 0 .. (MaxDelay + Lifetime),
     lease       : 0 .. LeaseTicks,
     token       : Token \cup {NoToken},
     attempts    : 0 .. MaxAttempts,
     failures    : 0 .. MaxAttempts,
     inFlight    : BOOLEAN,
     everUnknown : BOOLEAN]

\* No row; `delay' is how far away the target's step still is.
Absent(delay) ==
    [state |-> "absent", next |-> delay, expire |-> 0, lease |-> 0, token |-> NoToken,
     attempts |-> 0, failures |-> 0, inFlight |-> FALSE, everUnknown |-> FALSE]

-----------------------------------------------------------------------------
(* Conditions the transactions test. *)

\* Nobody holds an unexpired lease.
Free(r) == r.token = NoToken \/ r.lease = 0

\* Mutant of Holds: the WHERE clause forgets the lease token.
UnfencedHolds(r, tok) == r.state = "pending"

\* `tok' is the fence of this row and the row is still open.
Holds(r, tok) == r.state = "pending" /\ r.token = tok

\* The rows the first statement of claim_due terminalizes.
IsStale(r) == r.state = "pending" /\ r.expire = 0 /\ Free(r)

\* The rows the second statement of claim_due may lease.
IsDue(r) == r.state = "pending" /\ r.next <= 0 /\ r.expire > 0 /\ Free(r)

\* Mutant of Band: no aging.
UnagedBand(r, priority) == priority

\* The priority band of a due row: one band better per AgingTicks of waiting.
Band(r, priority) ==
    LET aged == priority - ((-r.next) \div AgingTicks)
    IN  IF aged < 1 THEN 1 ELSE aged

\* The ORDER BY of claim_due, without its last key (the row's random id):
\* r, of priority p, is taken before q, of priority k, or ties with it.
ClaimedBefore(r, p, q, k) ==
    \/ Band(r, p) < Band(q, k)
    \/ Band(r, p) = Band(q, k) /\ r.next <= q.next

-----------------------------------------------------------------------------
(* Pieces the transactions share. *)

\* Mutant of Disclose: the interrupted attempt is dropped.
DropAttempt(r) == [r EXCEPT !.inFlight = FALSE]

\* send_in_flight becomes history when somebody else ends the attempt.
Disclose(r) == [r EXCEPT !.everUnknown = @ \/ r.inFlight, !.inFlight = FALSE]

\* leased_by, lease_token and lease_expires_at become NULL.
Unlease(r) == [r EXCEPT !.token = NoToken, !.lease = 0, !.inFlight = FALSE]

\* The row leaves `pending' for the state s.
Settle(r, s) == [Unlease(r) EXCEPT !.state = s, !.next = 0, !.expire = 0]

\* next_attempt_at = now + delay, lease given up.
Postpone(r, delay) == [Unlease(r) EXCEPT !.next = delay]

-----------------------------------------------------------------------------
(* The transactions. *)

\* insert_targets: ON CONFLICT DO NOTHING, otherwise a fresh obligation that
\* is eligible in `due' ticks and lives Lifetime ticks from then on.
InsertTarget(r, due) ==
    IF r.state # "absent" THEN r
    ELSE [Absent(due) EXCEPT !.state = "pending", !.expire = due + Lifetime]

\* claim_due, first statement.
ExpireStale(r) == IF IsStale(r) THEN Settle(Disclose(r), "terminal") ELSE r

\* claim_due, second statement, for the row it picked.
Claim(r, tok) == [Disclose(r) EXCEPT !.token = tok, !.lease = LeaseTicks]

\* Mutant of Begins: the status of the alert is not looked at.
BeginsAnyway(r, tok, obsolete) ==
    Holds(r, tok) /\ r.expire > 0 /\ r.lease > 0 /\ r.attempts < MaxAttempts

\* begin_send starts an attempt: every refusal of its elif chain is ruled out.
\* `obsolete' says the row is an escalation of an alert that is not active.
Begins(r, tok, obsolete) ==
    /\ Holds(r, tok)
    /\ r.expire > 0
    /\ r.lease > 0
    /\ r.attempts < MaxAttempts
    /\ ~obsolete

BeginSend(r, tok, obsolete) ==
    CASE ~Holds(r, tok) -> r
      [] Begins(r, tok, obsolete) ->
            [r EXCEPT !.attempts = @ + 1, !.inFlight = TRUE, !.lease = LeaseTicks]
      [] Holds(r, tok) /\ r.expire > 0 /\ r.lease = 0 -> Unlease(r)
      [] Holds(r, tok) /\ r.expire > 0 /\ r.lease > 0 /\ r.attempts < MaxAttempts /\ obsolete ->
            Settle(r, "cancelled")
      [] OTHER -> Settle(r, "terminal")

\* renew_lease_with_status: an elapsed lease nobody replaced is extended too.
RenewLease(r, tok) ==
    IF Holds(r, tok) /\ r.expire > 0 THEN [r EXCEPT !.lease = LeaseTicks] ELSE r

\* mark_delivered_with_timing, the outbox half.
MarkDelivered(r, tok) == IF Holds(r, tok) THEN Settle(r, "delivered") ELSE r

\* mark_terminal: acceptance_unknown is FALSE for every terminal result.
MarkTerminal(r, tok) == IF Holds(r, tok) THEN Settle(r, "terminal") ELSE r

\* schedule_retry
ScheduleRetry(r, tok, delay, unknown, obsolete) ==
    LET told == [r EXCEPT !.everUnknown = @ \/ unknown]
        over == r.attempts >= MaxAttempts \/ delay >= r.expire
    IN  CASE ~Holds(r, tok)                        -> r
          [] Holds(r, tok) /\ obsolete             -> Settle(told, "cancelled")
          [] Holds(r, tok) /\ ~obsolete /\ over    -> Settle(told, "terminal")
          [] Holds(r, tok) /\ ~obsolete /\ ~over   -> Postpone(told, delay)

\* schedule_internal_retry: no provider attempt is charged, a failure is.
ScheduleInternalRetry(r, tok, delay) ==
    LET failed == [r EXCEPT !.failures = @ + 1]
        over   == failed.failures >= MaxAttempts \/ delay >= r.expire
    IN  CASE ~Holds(r, tok)          -> r
          [] Holds(r, tok) /\ over   -> Settle(failed, "terminal")
          [] Holds(r, tok) /\ ~over  -> Postpone(failed, delay)

\* release_unstarted_claim, with the delay 0 every caller uses.
ReleaseUnstartedClaim(r, tok) ==
    IF Holds(r, tok) /\ ~r.inFlight /\ r.expire > 0 THEN Postpone(r, 0) ELSE r

\* Mutant of CancelEscalation: an attempt under way is not disclosed.
CancelSilently(r) == IF r.state = "pending" THEN Settle(r, "cancelled") ELSE r

\* _cancel_escalations_many, for a row of kind escalation.
CancelEscalation(r) == IF r.state = "pending" THEN Settle(Disclose(r), "cancelled") ELSE r

\* Mutant of RequeueTerminal: the ambiguity history starts afresh.
RequeueForgetful(r) == InsertTarget(Absent(0), 0)

\* requeue_terminal: a new life for a terminal row, its ambiguity history kept.
Requeueable(r, allowAmbiguous) == r.state = "terminal" /\ (allowAmbiguous \/ ~r.everUnknown)

RequeueTerminal(r) ==
    [InsertTarget(Absent(0), 0) EXCEPT !.everUnknown = r.everUnknown]

\* cleanup_completed deletes settled rows only.
Purgeable(r) == r.state \in Settled

Purge(r) == [r EXCEPT !.state = "purged"]

\* One tick of the database clock.
Ticked(r) ==
    CASE r.state = "pending" ->
            [r EXCEPT !.next   = IF @ > -AgeCap THEN @ - 1 ELSE @,
                      !.expire = IF @ > 0 THEN @ - 1 ELSE @,
                      !.lease  = IF @ > 0 THEN @ - 1 ELSE @]
      [] r.state = "absent" -> [r EXCEPT !.next = IF @ > 0 THEN @ - 1 ELSE @]
      [] OTHER -> r

=============================================================================
