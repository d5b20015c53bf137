------------------------ MODULE AlertDeliveryWorker ------------------------
(***************************************************************************)
(* The durable alert outbox at work: the alerts whose lifecycle feeds it,  *)
(* the rows of alert_delivery_outbox, and the processes that drain them    *)
(* with AlertDeliveryWorker: one claimer, a bounded dispatch queue, the    *)
(* provider workers and the lease renewer.                                 *)
(*                                                                         *)
(* A slot is a place for one claimed delivery inside a process; the lease  *)
(* token uuid4() draws for a claim is represented by the slot the claim    *)
(* fills.  That is faithful because a slot draws again only after its      *)
(* previous job ended, so a job whose slot is on its row holds the very    *)
(* draw it made.                                                           *)
(***************************************************************************)
EXTENDS AlertDeliveryStore, Sequences, FiniteSets

CONSTANTS
    Proc,           \* operating-system processes running the worker
    Slot, Owner,    \* claimed deliveries in memory, and the process of each
    Target,         \* obligations: one per alert, kind and destination
    Alert, AlertOf, \* alerts, and the alert of each target
    KindOf,         \* "initial" or "escalation"
    Channel, ChannelOf,
    PriorityOf,     \* severity band of each target, 1 first
    DelayOf,        \* delay of an escalation step after its alert, in ticks
    Legacy,         \* alerts that may be of the release before the outbox: active, without rows
    ChannelLimit,   \* _channel_limits: deliveries of a channel one process may hold
    Workers,        \* _worker_count: provider threads, and places in the dispatch queue
    RetryDelays,    \* results of the local back-off
    RetryAfters,    \* Retry-After deadlines a provider answers with
    RetryBase,      \* _retry_base_seconds, the delay of a recovery
    NoTarget,
    MaxOutages,     \* bound on crashes and orderly stops together
    MaxReplays      \* bound on operator replays

ASSUME WorkerAssumption ==
    /\ Owner \in [Slot -> Proc]
    /\ AlertOf \in [Target -> Alert]
    /\ KindOf \in [Target -> {"initial", "escalation"}]
    /\ ChannelOf \in [Target -> Channel]
    /\ PriorityOf \in [Target -> 1 .. LowestPriority]
    /\ DelayOf \in [Target -> 0 .. MaxDelay]
    /\ Legacy \subseteq Alert
    /\ ChannelLimit \in [Channel -> Nat \ {0}]
    /\ Workers \in Nat \ {0}
    /\ RetryDelays \subseteq 0 .. MaxDelay
    /\ RetryAfters \subseteq 0 .. MaxDelay
    /\ RetryBase \in 0 .. MaxDelay
    /\ NoTarget \notin Target
    /\ NoToken \notin Slot
    /\ {MaxOutages, MaxReplays} \subseteq Nat

VARIABLES
    alert,    \* status of each alert; "closed" is resolved or snoozed
    outbox,   \* the row of each target
    backfill, \* targets the upgrade scan has resolved and not yet inserted
    job,      \* the delivery each slot works on
    up,       \* each process: "running", "stopping" (_stop_claiming is set) or "down"
    claimer,  \* its claimer: "looping", in a claim begun before a stop ("late"), or "gone"
    workers,  \* how many of its provider threads have not returned
    dispatch, \* _dispatch_queue of each process, a FIFO of slots
    inflight, \* _channel_inflight of each process
    accepted, \* targets some provider call was accepted for (history)
    outages, replays

storeVars == <<alert, backfill, accepted, replays>>
lifeVars == <<up, workers, outages>>
procVars == <<lifeVars, claimer, dispatch, inflight>>
vars == <<outbox, job, storeVars, procVars>>

Status == {"absent", "active", "acknowledged", "closed"}
Answers == {"delivered", "terminal", "retry", "ambiguous"}

\* Where a claimed delivery is in the worker's code:
\*   claimed   leased, in the claimer's hands: it looks at _stop_claiming
\*   handing   the flag was not set: the claimer is in put()
\*   queued    in the dispatch queue
\*   taken     in _deliver_claimed, begin_send not yet committed
\*   begun     begin_send committed, the provider not yet called
\*   sending   inside the provider call
\*   answered  in _record_result with the provider's answer
\*   failed    in _recover_unexpected_failure, _provider_started set
\*   unsent    in _recover_unexpected_failure, _provider_started not set
Idle == [pc |-> "idle", target |-> NoTarget, answer |-> "none", after |-> 0, acc |-> FALSE]

Started == {"begun", "sending", "answered", "failed"}
Working == {"taken", "unsent"} \cup Started

Job == [pc     : {"idle", "claimed", "handing", "queued"} \cup Working,
        target : Target \cup {NoTarget},
        answer : Answers \cup {"none"},
        after  : RetryAfters \cup {0},
        acc    : BOOLEAN]

TypeOK ==
    /\ alert \in [Alert -> Status]
    /\ outbox \in [Target -> Row(Slot)]
    /\ backfill \subseteq Target
    /\ job \in [Slot -> Job]
    /\ \A s \in Slot : job[s].pc # "idle" => job[s].target \in Target
    /\ up \in [Proc -> {"running", "stopping", "down"}]
    /\ claimer \in [Proc -> {"looping", "late", "gone"}]
    /\ workers \in [Proc -> 0 .. Workers]
    /\ dispatch \in [Proc -> Seq(Slot)]
    /\ inflight \in [Proc -> [Channel -> Nat]]
    /\ accepted \subseteq Target
    /\ outages \in 0 .. MaxOutages
    /\ replays \in 0 .. MaxReplays

Init ==
    /\ \E old \in SUBSET Legacy :
        /\ alert = [a \in Alert |-> IF a \in old THEN "active" ELSE "absent"]
        /\ outbox = [t \in Target |-> Absent(IF AlertOf[t] \in old THEN DelayOf[t] ELSE 0)]
    /\ backfill = {}
    /\ job = [s \in Slot |-> Idle]
    /\ up = [p \in Proc |-> "running"]
    /\ claimer = [p \in Proc |-> "looping"]
    /\ workers = [p \in Proc |-> Workers]
    /\ dispatch = [p \in Proc |-> <<>>]
    /\ inflight = [p \in Proc |-> [c \in Channel |-> 0]]
    /\ accepted = {}
    /\ outages = 0
    /\ replays = 0

-----------------------------------------------------------------------------
(* Reading the state. *)

TargetsOf(a) == {t \in Target : AlertOf[t] = a}
IsEscalation(t) == KindOf[t] = "escalation"
SlotsOf(p) == {s \in Slot : Owner[s] = p}
Active(p) == {s \in SlotsOf(p) : job[s].pc # "idle"}
Busy(p) == {s \in SlotsOf(p) : job[s].pc \in Working}

\* An escalation whose alert was acknowledged, resolved or snoozed.
Obsolete(t) == IsEscalation(t) /\ alert[AlertOf[t]] # "active"

\* The row of slot s's delivery becomes r.
Write(s, r) == outbox' = [outbox EXCEPT ![job[s].target] = r]
RowOf(s) == outbox[job[s].target]

\* The delivery of slot s moves on inside the worker's code.
Goto(s, pc) == job' = [job EXCEPT ![s].pc = pc]

\* _complete_active: the slot is free, its channel has one delivery less.
Complete(s) ==
    LET c == ChannelOf[job[s].target]
    IN  /\ job' = [job EXCEPT ![s] = Idle]
        /\ inflight' = [inflight EXCEPT ![Owner[s]][c] = IF @ > 0 THEN @ - 1 ELSE 0]

-----------------------------------------------------------------------------
(* The alert store: every transaction that creates an alert or ends its    *)
(* active life also writes the outbox.                                     *)

\* create_alert: the alert row and its obligations in one transaction.
CreateAlert(a) ==
    /\ alert[a] = "absent"
    /\ alert' = [alert EXCEPT ![a] = "active"]
    /\ outbox' = [t \in Target |-> IF AlertOf[t] = a THEN InsertTarget(outbox[t], DelayOf[t])
                                   ELSE outbox[t]]
    /\ UNCHANGED <<backfill, job, accepted, replays, procVars>>

\* A change of status and the cancellation it carries, in one transaction.
CloseAlert(a, from, to) ==
    /\ alert[a] \in from
    /\ alert' = [alert EXCEPT ![a] = to]
    /\ outbox' = [t \in Target |-> IF AlertOf[t] = a /\ IsEscalation(t)
                                   THEN CancelEscalation(outbox[t]) ELSE outbox[t]]
    /\ UNCHANGED <<backfill, job, accepted, replays, procVars>>

AcknowledgeAlert(a) == CloseAlert(a, {"active"}, "acknowledged")

\* resolve_alert, snooze_alert and auto_resolve_stale_alerts_batch.
ResolveAlert(a) == CloseAlert(a, {"active", "acknowledged"}, "closed")

\* mark_false_positive tests no status: it also runs on a closed alert.
MarkFalsePositive(a) == CloseAlert(a, Status \ {"absent"}, "closed")

\* backfill_active_escalations_batch, its SELECT: the steps of the active
\* alerts that are still in the future.
ReadBackfill ==
    /\ backfill = {}
    /\ backfill' = {t \in Target : /\ IsEscalation(t)
                                   /\ alert[AlertOf[t]] = "active"
                                   /\ outbox[t].state = "absent"
                                   /\ outbox[t].next > 0}
    /\ backfill' # {}
    /\ UNCHANGED <<alert, outbox, job, accepted, replays, procVars>>

\* ... and its INSERTs, which do not look at the alert again.
CommitBackfill ==
    /\ backfill # {}
    /\ outbox' = [t \in Target |-> IF t \in backfill THEN InsertTarget(outbox[t], outbox[t].next)
                                   ELSE outbox[t]]
    /\ backfill' = {}
    /\ UNCHANGED <<alert, job, accepted, replays, procVars>>

\* api_replay_terminal_delivery: an operator replays a terminal delivery.
Replay(t, allowAmbiguous) ==
    /\ replays < MaxReplays
    /\ Requeueable(outbox[t], allowAmbiguous)
    /\ outbox' = [outbox EXCEPT ![t] = RequeueTerminal(@)]
    /\ replays' = replays + 1
    /\ UNCHANGED <<alert, backfill, job, accepted, procVars>>

\* cleanup_completed
CleanupCompleted(t) ==
    /\ Purgeable(outbox[t])
    /\ outbox' = [outbox EXCEPT ![t] = Purge(@)]
    /\ UNCHANGED <<job, storeVars, procVars>>

-----------------------------------------------------------------------------
(* The claimer of process p. *)

\* The claimer holds no delivery.
EmptyHanded(p) == \A s \in SlotsOf(p) : job[s].pc \notin {"claimed", "handing"}

\* The loop may call claim_due: no stop so far, and the queue has room.
MayClaim(p) ==
    /\ up[p] = "running"
    /\ EmptyHanded(p)
    /\ Len(dispatch[p]) < Workers

\* It finds the flag set and returns.
ClaimerReturns(p) ==
    /\ claimer[p] = "looping" /\ EmptyHanded(p)
    /\ up[p] = "stopping"
    /\ claimer' = [claimer EXCEPT ![p] = "gone"]
    /\ UNCHANGED <<outbox, job, storeVars, lifeVars, dispatch, inflight>>

\* A call of claim_due.  It is one step, also for a stop that comes before it
\* ends: Stop says whether it left the claimer inside.
Claims(p) ==
    /\ MayClaim(p) \/ claimer[p] = "late"
    /\ claimer' = [claimer EXCEPT ![p] = "looping"]

Cleaned == [t \in Target |-> ExpireStale(outbox[t])]

\* Mutant of Candidates: excluded_channels is not passed.
AllDue(p) == {t \in Target : IsDue(outbox[t])}

\* The rows claim_due may lease: due, and of no channel p holds its limit of.
Candidates(p) ==
    {t \in Target : /\ IsDue(outbox[t])
                    /\ inflight[p][ChannelOf[t]] < ChannelLimit[ChannelOf[t]]}

\* claim_due found a row; s is the token it drew.
Leases(p, s, t) ==
    /\ Claims(p)
    /\ s \in SlotsOf(p)
    /\ job[s].pc = "idle"
    /\ t \in Candidates(p)
    /\ \A u \in Candidates(p) :
            ClaimedBefore(outbox[t], PriorityOf[t], outbox[u], PriorityOf[u])
    /\ outbox' = [Cleaned EXCEPT ![t] = Claim(@, s)]

ClaimDue(p, s, t) ==
    /\ Leases(p, s, t)
    /\ job' = [job EXCEPT ![s] = [Idle EXCEPT !.pc = "claimed", !.target = t]]
    /\ inflight' = [inflight EXCEPT ![p][ChannelOf[t]] = @ + 1]
    /\ UNCHANGED <<storeVars, lifeVars, dispatch>>

\* The claim committed and its row was lost on the way: the connection broke,
\* or recording a terminalized outcome raised before `claimed' was assigned.
ClaimReplyLost(p, s, t) ==
    /\ Leases(p, s, t)
    /\ UNCHANGED <<job, storeVars, lifeVars, dispatch, inflight>>

\* claim_due found no row to lease and only cleaned up.
ClaimNothing(p) ==
    /\ Claims(p)
    /\ Candidates(p) = {}
    /\ outbox' = Cleaned
    /\ UNCHANGED <<job, storeVars, lifeVars, dispatch, inflight>>

\* claim_due raised and committed nothing, which matters only after a stop.
ClaimFails(p) ==
    /\ claimer[p] = "late"
    /\ Claims(p)
    /\ UNCHANGED <<outbox, job, storeVars, lifeVars, dispatch, inflight>>

\* The claimer finds that no stop has come, and then hands its delivery to the
\* dispatch queue, a stop or not.  It never finds the queue full: it saw room
\* before it claimed, and nobody else puts.
Offer(s) ==
    /\ job[s].pc = "claimed"
    /\ up[Owner[s]] = "running"
    /\ Goto(s, "handing")
    /\ UNCHANGED <<outbox, storeVars, procVars>>

Handoff(s) ==
    LET p == Owner[s]
    IN  /\ job[s].pc = "handing"
        /\ Len(dispatch[p]) < Workers
        /\ Goto(s, "queued")
        /\ dispatch' = [dispatch EXCEPT ![p] = Append(@, s)]
        /\ UNCHANGED <<outbox, storeVars, lifeVars, claimer, inflight>>

\* _release_claim after an exception: claim_handoff_error.
HandoffFails(s) ==
    /\ job[s].pc \in {"claimed", "handing"}
    /\ Write(s, ScheduleInternalRetry(RowOf(s), s, RetryBase))
    /\ Complete(s)
    /\ UNCHANGED <<storeVars, lifeVars, claimer, dispatch>>

\* Mutant of ReleaseOnStop: a claim is released only where the queue has no place.
ReleaseIfFull(s) ==
    /\ job[s].pc = "claimed"
    /\ up[Owner[s]] = "stopping"
    /\ Len(dispatch[Owner[s]]) >= Workers
    /\ Write(s, ReleaseUnstartedClaim(RowOf(s), s))
    /\ Complete(s)
    /\ UNCHANGED <<storeVars, lifeVars, claimer, dispatch>>

\* _release_claim when shutdown won: shutdown_before_send.
ReleaseOnStop(s) ==
    /\ job[s].pc = "claimed"
    /\ up[Owner[s]] = "stopping"
    /\ Write(s, ReleaseUnstartedClaim(RowOf(s), s))
    /\ Complete(s)
    /\ UNCHANGED <<storeVars, lifeVars, claimer, dispatch>>

-----------------------------------------------------------------------------
(* A provider worker: _delivery_loop, _deliver_claimed, _record_result.    *)

\* A free worker takes the oldest delivery, also while stopping.
Dequeue(p) ==
    /\ dispatch[p] # <<>>
    /\ Cardinality(Busy(p)) < workers[p]
    /\ Goto(Head(dispatch[p]), "taken")
    /\ dispatch' = [dispatch EXCEPT ![p] = Tail(@)]
    /\ UNCHANGED <<outbox, storeVars, lifeVars, claimer, inflight>>

\* A free worker that sees the stop and an empty queue returns.
WorkerReturns(p) ==
    /\ up[p] = "stopping"
    /\ dispatch[p] = <<>>
    /\ workers[p] > 0 /\ Cardinality(Busy(p)) < workers[p]
    /\ workers' = [workers EXCEPT ![p] = @ - 1]
    /\ UNCHANGED <<outbox, job, storeVars, up, outages, claimer, dispatch, inflight>>

\* get_alert or begin_send raises before anything is committed.
LoadFails(s) ==
    /\ job[s].pc = "taken"
    /\ Goto(s, "unsent")
    /\ UNCHANGED <<outbox, storeVars, procVars>>

\* begin_send starts the attempt.
BeginAttempt(s) ==
    /\ job[s].pc = "taken"
    /\ Begins(RowOf(s), s, Obsolete(job[s].target))
    /\ Write(s, BeginSend(RowOf(s), s, Obsolete(job[s].target)))
    /\ Goto(s, "begun")
    /\ UNCHANGED <<storeVars, procVars>>

\* begin_send refuses: fenced, expired, exhausted or cancelled.
RefuseAttempt(s) ==
    /\ job[s].pc = "taken"
    /\ ~Begins(RowOf(s), s, Obsolete(job[s].target))
    /\ Write(s, BeginSend(RowOf(s), s, Obsolete(job[s].target)))
    /\ Complete(s)
    /\ UNCHANGED <<storeVars, lifeVars, claimer, dispatch>>

\* begin_send commits and its reply is lost.
BeginReplyLost(s) ==
    /\ job[s].pc = "taken"
    /\ Write(s, BeginSend(RowOf(s), s, Obsolete(job[s].target)))
    /\ Goto(s, "unsent")
    /\ UNCHANGED <<storeVars, procVars>>

\* deliver_outbox_target reaches the provider.
CallProvider(s) ==
    /\ job[s].pc = "begun"
    /\ Goto(s, "sending")
    /\ UNCHANGED <<outbox, storeVars, procVars>>

\* ... or ends the delivery on configuration alone.
RefuseRoute(s) ==
    /\ job[s].pc = "begun"
    /\ job' = [job EXCEPT ![s].pc = "answered", ![s].answer = "terminal"]
    /\ UNCHANGED <<outbox, storeVars, procVars>>

\* The provider accepts the request; the worker does not know it yet.
ProviderAccepts(s) ==
    /\ job[s].pc = "sending"
    /\ ~job[s].acc
    /\ job' = [job EXCEPT ![s].acc = TRUE]
    /\ accepted' = accepted \cup {job[s].target}
    /\ UNCHANGED <<alert, outbox, backfill, replays, procVars>>

\* The notifier's typed result.  Only an accepted request is reported as
\* delivered, and a request that may have been accepted is never reported
\* as terminal or as a plain retry.
ProviderAnswers(s, answer, after) ==
    /\ job[s].pc = "sending"
    /\ answer = "delivered" => job[s].acc
    /\ answer \in {"terminal", "retry"} => ~job[s].acc
    /\ answer \notin {"retry", "ambiguous"} => after = 0
    /\ job' = [job EXCEPT ![s].pc = "answered", ![s].answer = answer, ![s].after = after]
    /\ UNCHANGED <<outbox, storeVars, procVars>>

\* An exception after begin_send: in the dispatcher, in the provider call,
\* or while the result is recorded, before the transaction commits.
DeliveryRaises(s) ==
    /\ job[s].pc \in {"begun", "sending", "answered"}
    /\ Goto(s, "failed")
    /\ UNCHANGED <<outbox, storeVars, procVars>>

\* Mutant of Recorded: an ambiguous answer is stored like a plain retry.
RecordedUndisclosed(s, delay) ==
    LET r == RowOf(s)
        j == job[s]
    IN  CASE j.answer = "delivered" -> MarkDelivered(r, s)
          [] j.answer = "terminal"  -> MarkTerminal(r, s)
          [] OTHER -> ScheduleRetry(r, s, IF delay > j.after THEN delay ELSE j.after,
                                    FALSE, Obsolete(j.target))

\* The transaction _record_result runs for the answer; `delay' is the local
\* back-off, which a longer Retry-After replaces.
Recorded(s, delay) ==
    LET r == RowOf(s)
        j == job[s]
    IN  CASE j.answer = "delivered" -> MarkDelivered(r, s)
          [] j.answer = "terminal"  -> MarkTerminal(r, s)
          [] OTHER -> ScheduleRetry(r, s, IF delay > j.after THEN delay ELSE j.after,
                                    j.answer = "ambiguous", Obsolete(j.target))

RecordResult(s, delay) ==
    /\ job[s].pc = "answered"
    /\ Write(s, Recorded(s, delay))
    /\ Complete(s)
    /\ UNCHANGED <<storeVars, lifeVars, claimer, dispatch>>

\* The transaction commits and its reply is lost.
RecordReplyLost(s, delay) ==
    /\ job[s].pc = "answered"
    /\ Write(s, Recorded(s, delay))
    /\ Goto(s, "failed")
    /\ UNCHANGED <<storeVars, procVars>>

\* _recover_unexpected_failure once the provider may have been called.
RecoverStarted(s) ==
    /\ job[s].pc = "failed"
    /\ Write(s, ScheduleRetry(RowOf(s), s, RetryBase, TRUE, Obsolete(job[s].target)))
    /\ Complete(s)
    /\ UNCHANGED <<storeVars, lifeVars, claimer, dispatch>>

\* ... and before that.
RecoverUnsent(s) ==
    /\ job[s].pc = "unsent"
    /\ Write(s, ScheduleInternalRetry(RowOf(s), s, RetryBase))
    /\ Complete(s)
    /\ UNCHANGED <<storeVars, lifeVars, claimer, dispatch>>

\* The recovery raises too (or the release of a claim does): the row keeps
\* its lease, which has to elapse.
RecoveryFails(s) ==
    /\ job[s].pc \in {"failed", "unsent", "claimed", "handing"}
    /\ Complete(s)
    /\ UNCHANGED <<outbox, storeVars, lifeVars, claimer, dispatch>>

\* _renew_loop renews the lease of a delivery in _active_leases.
Renew(s) ==
    /\ job[s].pc # "idle"
    /\ Write(s, RenewLease(RowOf(s), s))
    /\ UNCHANGED <<job, storeVars, procVars>>

-----------------------------------------------------------------------------
(* Processes and time. *)

\* What a process had in memory is gone, the database is not.
Lost(p) ==
    /\ up' = [up EXCEPT ![p] = "down"]
    /\ claimer' = [claimer EXCEPT ![p] = "gone"]
    /\ workers' = [workers EXCEPT ![p] = 0]
    /\ job' = [s \in Slot |-> IF Owner[s] = p THEN Idle ELSE job[s]]
    /\ dispatch' = [dispatch EXCEPT ![p] = <<>>]
    /\ inflight' = [inflight EXCEPT ![p] = [c \in Channel |-> 0]]
    /\ UNCHANGED <<outbox, storeVars>>

\* A process dies.
Crash(p) ==
    /\ up[p] # "down"
    /\ outages < MaxOutages
    /\ outages' = outages + 1
    /\ Lost(p)

\* stop(): no more claims, but for one the claimer is in; queued and running
\* deliveries are finished.
Stop(p) ==
    /\ up[p] = "running"
    /\ outages < MaxOutages
    /\ outages' = outages + 1
    /\ up' = [up EXCEPT ![p] = "stopping"]
    /\ \/ UNCHANGED claimer
       \/ MayClaim(p) /\ claimer' = [claimer EXCEPT ![p] = "late"]
    /\ UNCHANGED <<outbox, job, storeVars, workers, dispatch, inflight>>

\* Claimer, workers and renewer have returned; the renewer does so when no
\* delivery is left whose lease it renews.
Stopped(p) ==
    /\ up[p] = "stopping"
    /\ claimer[p] = "gone" /\ workers[p] = 0
    /\ Active(p) = {}
    /\ up' = [up EXCEPT ![p] = "down"]
    /\ UNCHANGED <<outbox, job, storeVars, claimer, workers, dispatch, inflight, outages>>

\* stop() has run out of time, the shutdown of the server goes on without it,
\* and the daemon threads end with the process.
Exit(p) ==
    /\ up[p] = "stopping"
    /\ Lost(p)
    /\ UNCHANGED outages

\* start() of a process that is not running; it does nothing while an
\* earlier stop() has not ended, because a thread is still alive.
Start(p) ==
    /\ up[p] = "down"
    /\ up' = [up EXCEPT ![p] = "running"]
    /\ claimer' = [claimer EXCEPT ![p] = "looping"]
    /\ workers' = [workers EXCEPT ![p] = Workers]
    /\ UNCHANGED <<outbox, job, storeVars, dispatch, inflight, outages>>

\* A tick of the database clock.
Tick ==
    /\ outbox' = [t \in Target |-> Ticked(outbox[t])]
    /\ UNCHANGED <<job, storeVars, procVars>>

-----------------------------------------------------------------------------
AlertStep ==
    \/ \E a \in Alert : \/ CreateAlert(a)
                        \/ AcknowledgeAlert(a)
                        \/ ResolveAlert(a)
                        \/ MarkFalsePositive(a)
    \/ ReadBackfill
    \/ CommitBackfill
    \/ \E t \in Target : \/ \E ambiguous \in BOOLEAN : Replay(t, ambiguous)
                         \/ CleanupCompleted(t)

ClaimStep(p) ==
    \/ \E s \in Slot, t \in Target : ClaimDue(p, s, t) \/ ClaimReplyLost(p, s, t)
    \/ ClaimNothing(p) \/ ClaimFails(p)

SlotStep(s) ==
    \/ Offer(s) \/ Handoff(s) \/ HandoffFails(s) \/ ReleaseOnStop(s)
    \/ LoadFails(s) \/ BeginAttempt(s) \/ RefuseAttempt(s) \/ BeginReplyLost(s)
    \/ CallProvider(s) \/ RefuseRoute(s) \/ ProviderAccepts(s)
    \/ \E answer \in Answers, after \in RetryAfters \cup {0} : ProviderAnswers(s, answer, after)
    \/ DeliveryRaises(s)
    \/ \E delay \in RetryDelays : RecordResult(s, delay) \/ RecordReplyLost(s, delay)
    \/ RecoverStarted(s) \/ RecoverUnsent(s) \/ RecoveryFails(s)
    \/ Renew(s)

ClaimerStep(p) == ClaimStep(p) \/ ClaimerReturns(p)
WorkerStep(p) == Dequeue(p) \/ WorkerReturns(p)

ProcStep(p) ==
    \/ ClaimerStep(p) \/ WorkerStep(p)
    \/ Crash(p) \/ Stop(p) \/ Stopped(p) \/ Exit(p) \/ Start(p)

\* Everything but the passing of time.
Step ==
    \/ AlertStep
    \/ \E s \in Slot : SlotStep(s)
    \/ \E p \in Proc : ProcStep(p)

Next == Step \/ Tick

Spec == Init /\ [][Next]_vars

-----------------------------------------------------------------------------
(***************************************************************************)
(* Fairness.  Time passes; the claimer, the workers and the recovery are   *)
(* threads that keep running; a provider call ends because every notifier  *)
(* has a timeout; a process that died or was stopped is started again      *)
(* (systemd, docker restart policy).  Nothing is assumed of the alerts,    *)
(* the operator, the renewer or the faults, nor that a process ends that   *)
(* is stopping.                                                            *)
(***************************************************************************)
EndOfSlot(s) ==
    \/ Offer(s) \/ Handoff(s) \/ ReleaseOnStop(s)
    \/ BeginAttempt(s) \/ RefuseAttempt(s)
    \/ CallProvider(s) \/ RefuseRoute(s)
    \/ \E answer \in Answers, after \in RetryAfters \cup {0} : ProviderAnswers(s, answer, after)
    \/ \E delay \in RetryDelays : RecordResult(s, delay)
    \/ RecoverStarted(s) \/ RecoverUnsent(s)

Fairness ==
    /\ WF_vars(Tick)
    /\ \A s \in Slot : WF_vars(EndOfSlot(s))
    /\ \A p \in Proc : /\ WF_vars(ClaimerStep(p))
                       /\ WF_vars(WorkerStep(p))
                       /\ WF_vars(Stopped(p))
                       /\ WF_vars(Start(p))

FairSpec == Spec /\ Fairness

-----------------------------------------------------------------------------
(* Properties. *)

\* A provider acceptance is never forgotten silently: the row says delivered,
\* or says an attempt is under way, or keeps the ambiguity as history
\* (docs/alert-delivery.md: "Acceptance ambiguity is retained as history").
AcceptanceAccounted ==
    \A t \in accepted :
        \/ outbox[t].state \in {"delivered", "purged"}
        \/ outbox[t].everUnknown
        \/ outbox[t].inFlight

\* Two deliveries of one target are inside a provider call at the same time
\* only if the row already records that an acceptance may be unknown: a lease
\* that lapsed under a slow call is disclosed before the next attempt.
ConcurrentSendsDisclosed ==
    \A s, u \in Slot :
        (/\ s # u
         /\ job[s].pc = "sending"
         /\ job[u].pc = "sending"
         /\ job[s].target = job[u].target) => RowOf(s).everUnknown

\* An escalation of an alert nobody waits for any more has no attempt in
\* flight on its row: closing the alert fences a running one, and neither the
\* upgrade scan nor a replay lets a new one begin.
ObsoleteNotInFlight ==
    \A t \in Target : Obsolete(t) => ~outbox[t].inFlight

\* _channel_inflight counts exactly the deliveries of the channel the process
\* holds, through every failure and release path, and stays within the limit
\* that keeps a stuck provider from occupying every worker.
ChannelReserved ==
    \A p \in Proc, c \in Channel :
        /\ inflight[p][c] = Cardinality({s \in Active(p) : ChannelOf[job[s].target] = c})
        /\ inflight[p][c] <= ChannelLimit[c]

\* A provider is tried again for a target that was already accepted only when
\* the row discloses the ambiguity: no silent duplicate.
ResendDisclosed ==
    [][\A t \in accepted :
            outbox'[t].attempts > outbox[t].attempts => outbox[t].everUnknown]_vars

\* No attempt begins before the persisted retry deadline, whichever process
\* holds the row: begin_send does not look at next_attempt_at, the fence alone
\* has to keep a stale claim from using a rescheduled row.
RetryDeadlineRespected ==
    [][\A t \in Target :
            outbox'[t].attempts > outbox[t].attempts => outbox[t].next <= 0]_vars

\* A delivered or cancelled row never becomes work again, however late a
\* worker, a recovery, a scan or a replay writes to it.
SettledFinal ==
    [][\A t \in Target :
            outbox[t].state \in {"delivered", "cancelled"}
                => outbox'[t].state \in {outbox[t].state, "purged"}]_vars

\* Aging bounds overtaking: a claim never prefers a row to one it could also
\* have taken that became due AgeCap ticks earlier, whatever their priorities.
OvertakesBounded ==
    \A p \in Proc, s \in Slot, t \in Target :
        ClaimDue(p, s, t) =>
            \A u \in Candidates(p) : outbox[u].next > outbox[t].next - AgeCap
                                     \/ AgeCap = 0
                                     \/ u = t
OvertakingBounded == [][OvertakesBounded]_vars

\* What stop() waits for in vain: the claimer found no stop, the stop came, the
\* workers saw an empty queue and returned, and then the claimer put its one
\* delivery into the queue.  The renewer goes on renewing its lease.
Stranded(p) == up[p] = "stopping" /\ workers[p] = 0 /\ Len(dispatch[p]) = 1

\* An orderly stop ends once the running provider calls have ended, or has
\* stranded the last delivery.
HasStopped(p) == up[p] # "stopping"
StopEnds == \A p \in Proc : []<>(HasStopped(p) \/ Stranded(p))

\* Every obligation settles if the processes that are told to stop end: no
\* pending row is stranded by lost leases, failed recoveries, crashes or
\* shutdowns.
Settles(t) == outbox[t].state # "pending"
PendingSettles == (\A p \in Proc : []<>HasStopped(p)) => \A t \in Target : []<>Settles(t)

-----------------------------------------------------------------------------
(* The worker implements the promise of AlertObligation. *)

ObligationStatus ==
    [t \in Target |->
        CASE outbox[t].state = "absent"  -> "none"
          [] outbox[t].state = "pending" -> "open"
          [] outbox[t].state = "purged"  -> "forgotten"
          [] OTHER                       -> outbox[t].state]

Doubt == {t \in Target : outbox[t].everUnknown \/ outbox[t].inFlight}

Obligation == INSTANCE AlertObligation WITH status <- ObligationStatus, doubt <- Doubt

\* Every behaviour of the outbox, its workers and its faults keeps the promise.
KeepsObligation == Obligation!OSpec

-----------------------------------------------------------------------------
(* The inductive invariant behind the safety properties. *)

\* The dispatch queue holds only queued deliveries of its process, each once.
QueueOK ==
    \A p \in Proc : \A i \in 1 .. Len(dispatch[p]) :
        /\ job[dispatch[p][i]].pc = "queued"
        /\ Owner[dispatch[p][i]] = p
        /\ \A k \in 1 .. Len(dispatch[p]) : dispatch[p][k] = dispatch[p][i] => k = i

\* Only an open row has a lease holder or an attempt in flight, it has failures
\* left, a row that does not exist yet has no history, and a leased row is due.
RowOK ==
    \A t \in Target :
        /\ outbox[t].state # "pending" => outbox[t].token = NoToken /\ ~outbox[t].inFlight
        /\ outbox[t].state = "pending" => outbox[t].failures < MaxAttempts
        /\ outbox[t].state = "absent" => ~outbox[t].everUnknown /\ outbox[t].next >= 0
        /\ outbox[t].token # NoToken => outbox[t].next <= 0

\* What a delivery knows of its own provider call.
JobOK ==
    \A s \in Slot :
        /\ job[s].acc => job[s].pc \in Started \ {"begun"} /\ job[s].target \in accepted
        /\ job[s].pc = "answered" /\ job[s].acc => job[s].answer \in {"delivered", "ambiguous"}
        /\ job[s].pc = "answered" /\ job[s].answer = "delivered" => job[s].acc

\* A delivery that may reach its provider still holds its row with the attempt
\* marked in flight, or the row has recorded that it lost track of one.
SendOK ==
    \A s \in Slot :
        job[s].pc \in {"begun", "sending"} =>
            \/ Holds(RowOf(s), s) /\ RowOf(s).inFlight
            \/ RowOf(s).everUnknown

\* An acceptance that is neither delivered nor history belongs to the attempt
\* in flight, and the only delivery that may still end this attempt is the one
\* that was accepted.
AcceptanceHeld(t) ==
    /\ outbox[t].state = "pending"
    /\ outbox[t].inFlight
    /\ \A s \in Slot :
        (job[s].pc # "idle" /\ job[s].target = t /\ outbox[t].token = s)
            => job[s].pc \in Started /\ job[s].acc

AcceptanceOK ==
    \A t \in accepted :
        \/ outbox[t].state \in {"delivered", "purged"}
        \/ outbox[t].everUnknown
        \/ AcceptanceHeld(t)

IInv ==
    /\ TypeOK
    /\ QueueOK
    /\ RowOK
    /\ JobOK
    /\ SendOK
    /\ AcceptanceOK
    /\ ObsoleteNotInFlight

=============================================================================
