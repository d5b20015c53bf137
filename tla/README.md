# A TLA+ development of Rakshak Lens

Rakshak Lens (safety-lens) watches cameras, runs detection models on their
frames, turns detections into safety alerts, and has to get every alert to
people: stored with its evidence, shown on the dashboard, and delivered to
Telegram, webhooks and e-mail, at least once, across provider failures, process
deaths and restarts. What is hard in it is concurrent and stateful: threads
that share queues and counters, leases that lapse, answers that are lost,
retries, cancellations that race sends. That is what this directory models,
checks with TLC and proves with TLAPS. Image processing, prompts, wording and
the web frontend are not its subject.

## The system's parts

How an alert travels:

    camera thread (video_processing)            capture, offer frames, apply results
        |  frames, latest only
    SharedInferenceScheduler / remote batchers  bounded, fair, one model call at a time
        |  outcomes, one mailbox per camera
    camera thread                               zones, policies, cooldowns, evidence
        |  AlertPipeline.submit (bounded queue, back-pressure)
    alert-persistence thread                    create_alert: snapshot file + alert row + obligations
        |  PostgreSQL: alerts, alert_delivery_outbox (one transaction)
    AlertDeliveryWorker (any number of processes)  claim, begin, send, record
        |
    Telegram / webhook / SMTP

| part | state it keeps | operations | hard behaviour | correct when |
|---|---|---|---|---|
| **Alert delivery outbox** `alert_delivery_store.py`, `alert_delivery_worker.py` | rows with state, retry and expiry deadlines, lease and token, attempts, ambiguity history; per process a dispatch queue, active leases, channel counts | insert, claim, begin_send, renew, mark delivered / terminal, schedule_retry, schedule_internal_retry, release, cancel, requeue, clean up; start, stop | lapsed leases, lost replies, crashes, concurrent claimers, closing of alerts, replay | no acceptance forgotten, no silent duplicate, deadlines kept, final states final, every row settles |
| **Alert lifecycle** `alert_store.py` | alert rows, snapshot files | create_alert, acknowledge, resolve, snooze, false positive, auto-resolve, orphan clean-up | two stores (database and file system), ambiguous commits, retries | evidence of a durable alert is never deleted; one row per submission |
| **Alert pipeline** `alert_pipeline.py` | bounded persistence and delivery queues, retry heap, admission flag, counters, futures | submit, drain, shutdown, persist, deliver, retry | blocked producers, two pools, a retry thread, shutdown racing all of them | every accepted alert in exactly one place, bounds kept, shutdown does not drop or hang |
| **Alert timing** `alert_timing.py` | bounded registry of pending alerts and early outcomes | remember, mark_persisted, activate, record_initial_outcome, discard | persistence callback and delivery outcome in either order | each target counted once, registry bounded |
| **Shared inference scheduler** `shared_inference_scheduler.py` | one latest slot and one mailbox per camera, owners, in-flight set, burst count | register, unregister, offer, dispatch, complete, take_result, stop | restarts racing late results, urgent bursts, expiry, stuck model | late results of an old owner never reach the new one; nobody starves |
| **Remote frame batchers, model manager** `model_manager.py` | per-model batch windows, futures, cooldowns; catalogue with its epoch; installation jobs | submit, dispatch, complete; refresh, invalidate; install, restart | batching windows, overload, partial failure, refreshes that outlive their epoch | every caller answered once; nothing stale cached; statuses true |
| **Camera workers** `video_processing.py`, `camera_runtime.py`, `state.py` | camera threads, generations, per-camera tracking state | start, stop, restart, apply result | stop and restart racing a late frame | at most one live worker per camera |
| **Capture** `camera_capture.py`, `gstreamer_capture.py` | latest frame, connection tracker | read, reconnect, set fps | reconnect back-off, stale frames | outage opened and closed once |
| **MJPEG fan-out** `mjpeg_fanout.py` | one channel per camera, subscribers with a one-frame mailbox | publish, stream, clear, retire, close | slow viewers, camera retired while streaming | viewers bounded, woken and released |
| **VLM enrichment** `vlm_enrichment.py` | one replaceable item per camera, generations, one worker | register, offer, run, discard, shutdown | late results of an old generation | fenced results, bounded memory |
| **Adaptive inference, phone and PPE schedulers, key-frame tracker** `adaptive_inference.py`, `rtdetr_phone_scheduler.py`, `ppe_substitution_scheduler.py`, `inference_scheduler.py`, `keyframe_tracker.py` | per-camera cadence state | decide, record, consider, reset | cadence under load | urgent work is never delayed |
| **Analytics** `queue_`, `obstruction_`, `occupancy_`, `object_lifecycle_analytics.py` | per-zone timers and states | analyse one frame's detections | hysteresis, missing frames, polls that advance the state | episodes open and close once, events reach the loop |
| **Policies** `policy_engine.py`, `capability_registry.py`, `camera_planner.py` | cooldowns of policies | evaluate, compile a plan | rules that share a cooldown, partial plans | an alert has its confirmations, a violation that lasts is alerted |
| **Licensing** `licensing.py` | license and heartbeat files | verify, refresh, derive state | clocks, missing heartbeats | grace periods in order |
| **Configuration** `config_manager.py`, `site_config.py`, `runtime_storage.py` | one row (or file), a cached dictionary per process | load, save, update, mark, refresh | several processes, live dictionaries, refresh racing save and mark | a save is not undone by a refresh, caches catch up |
| **Stores** `plate_store.py`, `face_store.py`, `auth_store.py`, `audit_store.py`, `error_store.py`, `db.py` | tables | insert, query, delete | connection pool | plain CRUD |
| **Server lifespan, alert and camera routes** `server.py`, `routers/alerts.py`, `routers/cameras.py` | none of its own | routes, lifespan | start-up and shutdown order, requests against background loops | workers stop after producers |
| **Other routes** `routers/` | none of its own | read and edit stores and configuration | - | - |
| **Delivery dispatch and notifiers** `notification_dispatcher.py`, `delivery_result.py`, `telegram_notifier.py`, `webhook_notifier.py`, `email_notifier.py` | none | send one message, classify the answer | ambiguous network errors | typed result never calls an accepted request terminal |
| **Retention** `diagnostics.py` | none | clean up on a timer | a cleanup that raises | orphans go, evidence stays |
| **Telemetry, reports, discovery** | counters, files | observe, render | none that touches alerts | - |
| **Models** `detection.py`, `model_server.py`, `tensorrt_engine.py`, analyzers | weights, GPU | inference | numeric code | out of reach here |
| **Frontend, scripts** | - | - | offline tooling and UI | out of scope |

## Alert delivery: what the modules say

### `AlertDeliveryStore`: one row, one operator per transaction

A row of `alert_delivery_outbox` is a record; each function of
`alert_delivery_store.py` is an operator from row to row, because each of them
is one transaction that locks the row. A caller whose fence (`lease_token`,
`state = 'pending'`) does not match gets the row back unchanged (`Holds`).

Deadlines are kept relative to the database clock and count down in `Tick`:
`next_attempt_at`, `expires_at`, `lease_expires_at` become `next`, `expire`,
`lease`. That makes the state space finite without a clock that runs out, and
loses nothing: the code compares these columns with `clock_timestamp()` only.
`leased_by`, error texts and the timestamps kept for people are left out;
`last_acceptance_unknown` too, which nothing reads back.

### `AlertDeliveryWorker`: alerts, rows, processes

Each process has the claimer (`ClaimDue`, `ClaimNothing`, `Offer`, `Handoff`,
`ReleaseOnStop`, ...), a bounded FIFO `dispatch` queue, `Workers` provider
threads (`Dequeue`, `BeginAttempt`, `CallProvider`, `RecordResult`, ...) and the
lease renewer (`Renew`). A *slot* is a claimed delivery in memory; its program
counter is where the delivery is in the worker's code:

    claimed -> handing -> queued -> taken -> begun -> sending -> answered -> (row settled or rescheduled)
                                       |        |         |          |
                                     unsent     +-------- failed ----+      _recover_unexpected_failure

`claimed` and `handing` are the two sides of the check of `_stop_claiming` before
the `put()`: a stop that comes in between does not take the `put()` back, and it
never finds the queue full: only the claimer puts, one delivery at a time, after
it saw room. The
threads of a process end one by one: `claimer` says whether its loop goes on, is
inside a call of `claim_due` when the stop comes ("late": it may still claim one
row), or has returned (`ClaimerReturns`), and `workers` counts the provider threads
left; a free one returns when it sees the stop and an empty queue
(`WorkerReturns`). `Stopped` is the end of all of them and of the renewer,
`Exit` the end of the process without it: both callers of `stop()`, the shutdown of
the server and the rollback of its start, go on when `stop()` has run out of
time, and the threads are daemons.

Every place where a database call can commit and its reply be lost is an action
of its own (`ClaimReplyLost`, `BeginReplyLost`, `RecordReplyLost`), and so is
every exception path. The provider is the environment: it accepts a request
(`ProviderAccepts`) or not, at any time while the call runs, and the notifier's
typed result (`ProviderAnswers`) obeys the contract of `delivery_result.py`:
`delivered` only for an accepted request, `terminal` and plain `retryable` only
for one that was not accepted, `acceptance_unknown` for anything. A late
acceptance after a crash or a timeout is the same as one just before it.
`accepted` is a history variable; no action reads it.

The alert side is in the same module because it is the same transactions:
`CreateAlert` inserts the row's obligations, `AcknowledgeAlert`, `ResolveAlert`
and `MarkFalsePositive` cancel the escalations, `Replay` is the operator's
route, `ReadBackfill` / `CommitBackfill` the upgrade scan, whose SELECT and
INSERTs are separate steps because the code does not lock the alerts in
between. `CleanupCompleted` deletes settled rows at any age, which is more than
the retention period lets it do.

The lease token `uuid4()` draws is represented by the slot that drew it. A slot
draws again only after its previous job ended, so a job whose slot is on its
row holds the very draw it made.

### `AlertObligation`: the promise

The abstract specification has no leases, workers, queues or clocks: an
obligation is open, delivered, terminal, cancelled or forgotten; `accepted` is
a fact about the world; `doubt` is what the record admits. It says that
`delivered` is claimed only after an acceptance, that an acceptance can only
happen while the record admits the doubt, and that the doubt is taken back only
if nothing was accepted. `AlertDeliveryWorker` implements it
(`KeepsObligation`) under the mapping `doubt = everUnknown \/ inFlight`.

### Three statements that the code does not keep

No run reports them; they can be read off the model.

docs/alert-delivery.md:58 says "a crash before external I/O cannot consume the
provider budget". `begin_send` commits `attempt_count + 1` before the call, so a
process that dies in between (`Crash` after `BeginAttempt`) has spent an attempt
nobody made.

docs/alert-delivery.md:18 says "The retry scheduler never runs earlier than that
provider deadline". If the transaction that records the answer raises,
`_recover_unexpected_failure` reschedules the row with the base delay and the
provider's Retry-After is forgotten (`RecoverStarted`). `RetryDeadlineRespected`
says that the deadline a row does record is kept.

alert_delivery_worker.py:163 says of the lease renewer "intentionally outlives a
timed-out shutdown while a provider call is still active. It self-terminates after
the last send". There may be no last send: the claimer finds no stop (273), the
stop comes, every provider worker finds the queue empty and returns (309), and the
claimer's `put()` (275) then succeeds. Nobody takes this delivery any more
(`Stranded`), the renewer keeps its lease, and `stop()` runs into its timeout
although no provider call is active. `StopEnds` says that an orderly stop ends or
has come to this, and `PendingSettles` that every row settles if the processes
that are told to stop end at some time, by themselves or with their server.
Without the exception TLC finds the window in the subject `delivery`.

### Runs

| run | instance | states | what it answers |
|---|---|---|---|
| `delivery_contention` | 2 processes, 1 slot each, 1 escalation (of a new alert, or of one from before the outbox), 2 attempts, 1 outage, 1 replay | 1.46 M | are acceptances, duplicates, deadlines, cancellations and final states handled under every interleaving of two claimers; does the outbox implement its promise |
| `site`, subject `outbox` | 1 process, 2 slots, an initial delivery and a legacy escalation on two channels and two priorities | - | channel reservation on every path, bounded overtaking, the upgrade scan |
| `services`, subject `delivery` | 1 process, 1 slot, 2 attempts, fairness | - | every pending row settles, an orderly stop ends or has stranded a delivery (`DeliveriesSettle`) |

The last two share their runs with other components (see below). The type
invariant of the outbox is proved (`TypeCorrect`) and not checked again.
Bounds: two attempts are the smallest number with a retry; a lease of one tick
lapses under any call that lasts a tick, so the second process claims the row
while the first is still sending; a lifetime of two ticks lets a row expire
while scheduled, leased, and in flight; one outage shows every crash and stop
point once. `RetryDelays`, `RetryAfters` are relative to these.
`MaxOutages` and `MaxReplays` are guards of the model; everything else is a
limit the code itself has. Deadlock is checked, except in `services`.

Fairness (`FairSpec`): time passes; the claimer, the workers and the recovery
are threads that keep running; a provider call ends because each notifier has a
timeout; a process that died or was stopped is started again (systemd unit,
compose restart policy). That a stopping process ends is not assumed by the
fairness, only by `PendingSettles`, as its hypothesis. Nothing is assumed of alerts, operator, renewer or
faults: a lost reply or a failing recovery may happen as often as it likes.

### What is proved

The first part of `SiteProofs` proves, for every number of processes, slots, alerts and
targets and all limits that meet `StoreAssumption` and `WorkerAssumption`:

| theorem | says |
|---|---|
| `TypeCorrect` | `[]TypeOK` |
| `AcceptanceNeverForgotten` | `[]AcceptanceAccounted` |
| `OverlapDisclosed` | `[]ConcurrentSendsDisclosed` |
| `ClosedAlertFenced` | `[]ObsoleteNotInFlight` |
| `ResendsDisclosed`, `DeadlinesRespected`, `FinalStatesFinal` | three action properties |
| `ChannelsAreReserved` | `[]ChannelReserved` |
| `OvertakingIsBounded` | `OvertakingBounded` |
| `ObligationKept` | the refinement of `AlertObligation` |

All rest on `Invariance`: `Spec => []IInv`. The invariants the runs check are
not inductive. `AcceptanceAccounted` says an accepted target is on record, but
nothing in it says who may end the attempt in flight; the strengthening
(`AcceptanceOK`) adds that the only job whose token is on the row is the one
the provider accepted, so the transaction that ends the attempt comes from a
job whose answer can only be *delivered* or *ambiguous* (`JobOK`). `SendOK` says
a job that may reach its provider either still holds its row, marked in flight,
or the row has recorded that it lost track of an attempt; that one fact gives
both the disclosure of overlapping sends and the refinement's `Accept` step.
`RowOK` ties token and flight to open rows, `QueueOK` ties the dispatch queues to
queued jobs.

The proof groups the forty actions by what they do to a row. A
transaction by the holder of the lease ends the hold (`Ended`); a transaction by
anybody else discloses the attempt, opens a row or only moves deadlines
(`Disclosed`, `Opened`, `Retimed`); `Begin` starts an attempt; the rest are
moves inside the worker that write no row. Each kind is shown once to preserve
the invariant and to be an allowed step of the action properties and of the
promise, and each transaction is shown to be of its kind.

`ChannelsAreReserved` needs one thing the invariant does not say: that a process
holds finitely many deliveries of a channel (`Reserved`), so that one more is
counted as one more; slots as such may be infinitely many. A step either leaves
what is held alone, ends one delivery (`CompleteReserved`, whichever of the
seven ways out it is), claims one, or ends the process (`LostReserved`). `OvertakingIsBounded` is
arithmetic: a due row that is not yet in the first band has waited for less than
`LowestPriority - 1` aging periods (`NotYetFirst`), so a row that has waited
`AgeCap` ticks is only passed over for one that became due no later.

Only model-checked: the two liveness properties, which are out of the prover's
reach.

## Alert pipeline: what the modules say

### `AlertPipeline`

Five kinds of threads share two bounded queues, a heap, three counters and
three flags. The unit of atomicity is a lock-protected region or one queue
operation; what a thread does between two of them is a step.

| code | model |
|---|---|
| `submit()` in a camera thread | `Start`, `StartFails`, `Register`, `PutPersist`, `RejectAdvisory`, `Leave` |
| `_persistence_loop`, `_persist` | `TakePersist`, `PersistFails`, `PersistSucceeds`, `PutDelivery`, `PersistDone`, `PersisterExits` |
| `_delivery_loop`, `_deliver` | `TakeDelivery`, `CallDelivery`, `Ends`, `SchedulesRetry`, `RetryRefused`, `DeliveryDone`, `WorkerExits` |
| `_retry_loop` | `PopRetry`, `PutRetry`, `ReleaseRetry`, `RetrierExits` |
| `shutdown()`, `drain()` | `CloseAdmission`, `ProducersLeft`, `NoRetries`, `PersistenceDrained`, `DeliveryDrained`, `StopWorkers`, `Joined`, `TimesOut`, `AlreadyStopped` |

Abstractions: a retry may become due at any time (the heap is a set); a timeout
of shutdown may strike at any of its waits; `handoff_ready` of a retried job is
read off the scheduler, which sets it in the step that gives the job up;
`drain(wait=False)` makes the same reads as one pass of the waiting loop.
Telemetry and health counters are left out.

`running` stays true and `accepting` false after a shutdown that timed out:
submissions are refused until a later shutdown succeeds, and the first
submission after that starts a new generation of threads, which finds whatever
an earlier one left.

### `AlertIntake`: the promise

An alert is new, accepted, persisted, delivered, failed, lost or refused. It is accepted only while
the gate is open, and the gate goes from closed to stopped only once no
accepted alert waits for its persistence. `AlertPipeline` implements it
(`KeepsIntake`).

### `drain_window`: a drained pipeline that is not

`drain()` copies `_pending_retries` under the retry lock, releases it, then
reads the unfinished count of the persistence queue and then that of the
delivery queue. A delivery in flight at the first read may schedule a retry (count 1) and
call `task_done()` before the third; all three reads see zero. `shutdown()`
then sets `worker_stop` with a retry in the heap, which nobody runs unless
the pipeline is started again. The comment at line 796 argues that the
*scheduler* leaves no false-zero window; the window is at the other end of the
retry. The invariant that fails is `StoppedOnlyWhenDrained`; persistence is not
affected (`KeepsIntake` holds), because jobs do not travel back to the
persistence queue.

### Runs

| run | instance | states | what it answers |
|---|---|---|---|
| `pipeline` | a waiting and an advisory producer, 2 workers, all queues of one place, 2 + 3 attempts, fairness | 123 k | is every job in one place, are the counters exact, is a retry refused only for others' sake; does the pipeline keep its promise; is every admitted alert persisted or given up, and settled unless stopped |
| `drain_window` | 1 alert | - | the divergence above |

`JobsAccounted` is the type invariant, the place of every job and the counters
together; the latter two are nothing without the first.

With one place in each queue every put can block. The safety properties were
also checked once with a second waiting producer (1.07 M states, under
symmetry): a producer, the persistence thread and the scheduler are then all
blocked at once. Three attempts are needed for a job to be retried while its previous retry is still
being handed over.

### What is proved

`AlertPipelineProofs` proves, for any alerts and workers, any capacities and any
numbers of attempts (`PipelineAssumption`):

| theorem | says |
|---|---|
| `EveryJobAccounted` | `[]JobsAccounted` |
| `RefusalIsHonest` | `RefusedOnlyWhenFull` |
| `IntakeIsKept` | the refinement of `AlertIntake` |

All rest on `Invariance`: `Spec => []PipelineInv`. `JobsAccounted` is not
inductive: a thread whose program counter says it works on an alert it does not
have would drop or double a job at its next step, and a first submission after a
shutdown that started threads over the remains of old ones would lose theirs.
`Held` says a thread has an alert exactly while it works on one, `Idle` that a
pipeline that does not run has no threads, `HandedOff` that a registered retry
the scheduler has put back is still queued or with its worker, so that its place
is given back once, and `Closing` what `shutdown()` has established at each of
its points, which is what the gate of `AlertIntake` asks for: no accepted alert
waits for its persistence once the pipeline is stopped. The proof has one lemma
per action; `Scopes` says once what the steps of each thread leave alone. Before
it was proved, `PipelineInv` was checked on the run's instance and once with a
third alert and queues of two places (1.29 M states).

Only model-checked: `AlertsSettle`, which is liveness.

Fairness: threads run and callbacks return. Nothing is assumed of `submit()`
before admission, nor of shutdown.
## Shared inference scheduler: what the modules say

### `DispatchPolicy`: who is next

The pure part of `_select_dispatch_locked` as operators: which normal work need
not wait any longer (`NormalCandidates`), when it goes before urgent work
(`ForceNormal`), who is first in cyclic order (`FairPick`), who shares the batch
(`Cohort`), and how long the thread may sleep (`WakeDelay`). Both modules below
use it. Python keeps the insertion order of the dictionary of camera states, and
the cursor counts in it; the model has a function from cameras to places
(`Place`), and "first in cyclic order" is "nobody is `Ahead`". Lists of cameras
are sets with that order, which is what makes the policy amenable to proof. A burst is counted up to its
limit only; beyond it the number is not looked at.

### `SharedInferenceScheduler`: slots, pool, mailboxes

Every method holds one lock, so every method is one action; one pass of the
scheduler loop (drop what expired, select, dispatch or sleep) is one action too.
A call in the pool is a record of its own: it starts, ends and is recorded in
three steps, between which a camera may leave, come back, offer and take. The
thread sleeps with a timer (`wake`); `Notify` is `notify_all()`, and each action
has it exactly where the code has it. `accounted` is the one history variable:
accepted frames less those replaced, taken or reported to the drop observer.

Left out: tokens (a call with a foreign token raises or is refused and changes
nothing; for fencing the registration id is the stronger test), latency windows,
telemetry counters, and rounding of the float clock.

### `InferencePromise`

Per camera and registration: questions with increasing numbers, at most two
open, one answer waiting, answered in order and only within the registration
they were asked in. The scheduler implements it with the registration id as
the life, the queued and in-flight frames as the open questions, and the
mailbox as the answer.

### `InferenceFairness`

The same policy under a load without end. Sequence numbers and registrations
would make the state space infinite and play no part in who is next, so this
module keeps only what each camera is doing.

`normal_starves`: urgent picks and normal picks share `_fair_cursor`. With order
`n1 n2 u1 n3 ...`, all workers busy and calls ending one after another, each
urgent dispatch of `u1` puts the cursor behind `u1`; the next normal turn starts
from there, wraps to `n1`, and `n2` is passed over as long as `u1` goes on being
urgent. The run assumes nothing odd: the scheduler reacts at once, every call
ends, four workers, burst 4. The class of normal work does get its turn (`NormalTurn`),
which is what the test with a single normal camera sees. In the same way an
urgent batch that takes normal cameras along moves the cursor past urgent ones;
`UrgentServed` is therefore stated for urgent cameras that are not batched with
normal ones.

### Runs

| run | instance | states | what it answers |
|---|---|---|---|
| `inference` | 2 cameras, 2 registrations, 2 frames each, lifetimes 1 and 3, waits 1 and 2 | 0.38 M | fencing, order, accounting, wake-ups, the pool's counter |
| `inference_fairness` | 6 cameras, 2 of them urgent, batches up to 4, burst 2, fairness | 63 k | turns; dispatching never raises |
| `normal_starves` | 6 cameras, 1 urgent, burst 4 | 25 k | the divergence above |

Two registrations are what fencing needs (an old and a new one). Two cameras
cannot fill a pool of four with legal dispatches; that the pool never overflows,
however many calls outlive their registrations, is proved (`SlotsAreExact`). Fairness (`FairSpec`): the scheduler thread
runs, calls end (each provider call has a timeout), cameras take their results;
nothing is assumed of offers.

### What is proved

`DispatchPolicyProofs` shows what a batch is, for any registrations, queues and
waits (`ChoicesLegal`): 1, 2 or 4 ready cameras of one profile, the seed among
their group, no more than the pool has room for. "The first n of a group, going
round" is a set of cameras with fewer than n members `Ahead`; that it has n
members is an argument about ranks: the number of members before a member takes
each value below the size of the set once (`RankGrows`, `RanksFill`,
`FirstOnes`), and distances in cyclic order differ (`DistancesDiffer`).

`SharedInferenceSchedulerProofs` proves `TypeCorrect`, `SlotsAreExact` and
`WorkIsAccounted` from one inductive invariant, `IInv`, under
`SchedulerAssumption`, `PolicyAssumption` and `NoneAssumption`. The three are not
inductive: the count of calls would be off if a new call were equal to one in
the pool, or if two became equal as time passes. `CallsKnown` excludes that: a
call is known by its camera and registration, since the camera's dispatch
in flight fences the next one. `CamerasKnown` says that a camera with a dispatch in flight has
an empty mailbox, so a published answer never overwrites one that was counted,
and that registration numbers are unique, which gives every camera a place of
its own and keeps the fair cursor within them when cameras leave.

The same module proves `SchedulerNeverOversleeps` (`[]NeverOversleeps`). That
nothing is due is true when the scheduler lies down; what has to be kept is that
nothing *becomes* due unnoticed. `Rested` therefore says of a sleeping scheduler
that, with room in the pool, no ready camera is urgent or completes a batch of four
(`NoneAtOnce`) and that its timer ends no later than the first wait and the first
deadline do (`TimerOK`); a tick of the clock takes one from both, and every other
step that could make work due also wakes it.

`PromiseKept` proves the refinement (`Spec => KeepsPromise`). Of a camera with a
dispatch in flight and newer work in its mailbox, `InOrder` adds that the work in
flight is the older; with it each step maps to a question, a replacement, an
answer, a new or an ended registration of `InferencePromise`, or to none.

`InferenceFairnessProofs` proves `SelectionIsLegal`: dispatching never raises,
for any number of cameras and workers, profiles and bursts.

Only model-checked: the liveness properties.

## Evidence files: what the module says

### `AlertEvidence`

`create_alert` writes up to two image files, then commits the row that names
them; `cleanup_snapshots` deletes files on another thread. No transaction covers
both. The module has the persistence thread (`creator`), the cleanup thread
(`cleaner`), the directory (`files`, `age`), the rows, and the database server.

| code | model |
|---|---|
| `_link_or_write_snapshot_once`, under its lock | `KeepSnapshot`, `LinkSnapshot`, `WriteSnapshot`, `WriteFails` |
| the transaction of `create_alert` | `Commit`, `CommitReplay`, `ReplayUnread`, `CommitRaises` |
| its `except` path | `FindsRow`, `FindsNothing`, `CheckRaises`, `Undo` |
| the retries of `AlertPipeline._persist` | `StartPersist`, `AttemptEnds` |
| `cleanup_snapshots` | `StartCleanup`, `PruneRow`, `SkipRow`, `CommitPrune`, `OverCapacity`, `ReadReferenced`, `ListFiles`, `Sweep`, `EndCleanup` |
| `retention_cleanup_loop` | `CleanupRaises`: the first cleanup is outside the `try` |

A commit that raises may have done nothing, everything, or be decided later by
the server (`SettleLate`); a second INSERT of the same id waits for that
decision, as PostgreSQL makes it. `cleaner.old` is the set of files whose
modification time is before the cutoff fixed at the start of the cleanup, so
files that grow old meanwhile are safe.

Abstractions: alert ids are fresh, so the identity test always succeeds; which
resolved alerts `retention_days` and `max_bytes` select is left open; the two
unlinks of a pair are one step; modification times are ages up to the grace
window; persisting one alert with all its retries takes less time than the
grace window (guard of `Tick`: seconds against 24 hours). `MaxFaults` bounds failures
and restarts; `origin` and `result` are what the properties need to know and no
action reads `origin`.

### `fresh_evidence`: the grace window does not protect a hard link

Alerts with the same image share one file through `os.link`. A hard link has
the modification time of the file, so fresh evidence of a scene whose first
image is older than the grace window is *old* from its first moment. If a
cleanup reads the referenced names before the row is committed and sweeps after the link
was made, the file is deleted and the row names nothing. No fault is
needed. Files that were written for their alert are safe under all interleavings
and faults of the `site` run (`EvidenceKept`, which includes the type invariant).

### Runs

| run | instance | states | what it answers |
|---|---|---|---|
| `site`, subject `evidence` | 2 alerts of one frame, 1 image each, cache of 1, 2 attempts, grace of 1 tick, 2 faults, fairness | - | is evidence kept, is every orphan removed |
| `fresh_evidence` | the same without faults | - | the divergence above |

Two alerts are needed for a link; two attempts for a retry that meets the files
or the row of the first; two faults for a doubtful commit followed by a failed
check or a restart. Fairness: the persistence thread, the cleanup loop, the server and time go on.
`OrphansRemoved` excepts a loop that died in its first cleanup, which
`retention_cleanup_loop` allows.

Known and not covered by a run: a cleanup that dies between deleting files and
committing leaves resolved rows that name missing files, and later cleanups
skip them (`if not deleted: continue`).

### What is proved

| theorem | assumes | says |
|---|---|---|
| `SiteProofs!EvidenceIsKept` | the cache has an entry at least and a persist an attempt; the grace window and the faults are numbers; `NoAlert` is no alert (`EvidenceConstants`) | `[]EvidenceKept` of `AlertEvidence` alone |
| `SiteProofs!SiteSideBySide` | nothing | `SiteState` behaves as `AlertDeliveryWorker` and as `AlertEvidence` |
| `SiteProofs!SiteKeepsEvidence` | `EvidenceConstants` | `[]EvidenceKept` of the site |
| `SiteProofs!SiteDelivers` | the outbox's assumptions | `[]ChannelReserved` and `OvertakingBounded` of the site |

`SiteState` has both components with all their interleavings; the run takes
them one at a time, which is as good because they share no state, and
`SiteSideBySide` is the proof that nothing is lost by it: each step of one
leaves the variables of the other alone.

What the invariant must know beyond `EvidenceKept` is which files the cleanup
could still take. `CreatorInOrder`: a file the persistence thread wrote for its
alert is not older than the attempts, which are over within the grace window, so no
cleanup that begins counts it among the old ones; and once an image is done it is
there unless writing it failed, whichever attempt wrote it. That is what a
replay relies on, which persists a row of an *earlier* attempt. `KeptInOrder`:
an old file of a kept alert is not on the list, and is referenced between the
reading of the rows and the listing. `RowsInOrder`: an undecided commit names only
images of its alert, and there is none once anything is durable; a durable row
therefore never changes behind a reported alert. `CleanerInOrder`: only resolved
alerts are pruned, and resolution is final.

Nothing bounds the alerts, the images of an alert or the length of the cache;
links are covered as far as the property speaks of written files.
`OrphansRemoved` is model-checked only.

## Camera workers: what the module says

### `CameraLifecycle`

Every camera has a capture thread (`video_processor`) and, if the configuration
asks for it, a VLM companion. Who starts and stops them: the startup pass, the
healing loop, request handlers (add, update, delete, install models, restart
all), and the shutdown of the server. The module has one record per such actor,
with the operation it is in and where in it; each operation holds the
lifecycle lock of its camera (`Acquire` ... `Unlock`), and what it does between
two reads or writes of the registries is a step.

| code | model |
|---|---|
| `start_camera` | `Start`, `Publish` (under the fence lock, which looks at the fence again), `PublishFails` |
| `start_vlm_for_camera` | `VlmStart`, `VlmPublish`, `VlmPublishFails` |
| `stop_camera`, `stop_vlm_for_camera` | `Stop` for each kind, `Join`, `JoinTimesOut` |
| `restart_camera` | `Stop` ... `Start` under one lock |
| `heal_camera_workers_once` | `HealingPass`, `Take`, `Heal` with `Repair`, then the steps above |
| `_start_configured_cameras` | the actor `startup` |
| `video_processor`, `vlm_worker`, `_deregister_worker_on_exit` | `Exit` (gives up its own registration), `Die` |
| `api_add_camera`, `api_update_camera`, `api_delete_camera`, `restart_all_cameras` | `Save` or `SaveFails`, `Delete` with `Remove` or `RemoveFails`, `RestartAll` |
| `startup`, `shutdown` of `server.py` | `Reboot`, `Shutdown`, `StopAll` |

A thread is `run` until its stop event or an exception ends it, `exit` after it
gave up its registration, and `dead` when `is_alive()` is false. `is_alive()` and
the registry are different facts, and most of what can go wrong lies between them.

Abstractions: the settings of a camera that matter here are whether it exists,
is enabled and expects a companion (`Setting`); a request's read-modify-write of
the configuration is one step, without an `await` between the change of the
dictionary and `save_config` (concurrent updates of the configuration, and its
refresh from Postgres, are `ConfigStore`); models are installed; frames, health
records and `camera_runtime_status` are left out (`FrameLoop` has the loop itself); the order in which a pass
goes through its cameras is open. A join may time out whenever the thread is
alive.

### Live and stored configuration

`get_config` returns the dictionary of the process itself, and the handlers
change it before `save_config` writes it: `del cfg["cameras"][cam_id]`, then the
write, which may raise. So there are two configurations, `config` (live: what
`start_camera` and the healing loop read) and `stored` (what a restart reads),
and `SaveFails` and `RemoveFails` change the first one only. What follows in the
code follows in the model:

- a deletion that answers 500 at `save_config` has taken the camera from the
  live configuration: its worker is stopped, no healing pass starts it, and the
  stored configuration still enables it. It comes back with a restart (or with
  a refresh from Postgres). Any later request that does save writes the live
  dictionary, and then the deletion that was answered 500 is permanent
  (`Saves`);
- an addition or update that answers 500 at `save_config` has changed the live
  configuration, and the healing loop starts what it now asks for, until a
  restart.

`EnabledServed` therefore has two parts: a camera the live configuration enables
is served, without exception; a camera the stored one enables is served unless
the two disagree about it (`Astray`), which only a save that raised brings about
and a restart or a later save ends. That a camera is not served while it is
astray is a shortcoming of the code the model shows and no run reports: it is
what the exception means.
backend/tests/test_api.py:1772
(`test_delete_camera_keeps_telemetry_when_persistence_fails`) makes the save
fail and looks at the telemetry only.

### `camera_deletion`: a deleted camera that goes on

`api_delete_camera` calls `stop_camera`, which releases the lifecycle lock when
it returns, and only then removes the camera from the configuration. A healing
pass that takes the lock in between finds a configured, enabled camera without a
worker and starts one. After the removal no pass looks at that camera
again: `heal_camera_workers_once` goes through the configured cameras and the
registered VLM companions only, and the capture loop reads the missing
configuration as `{}` and goes on. It ends with the process, or with the next
`restart_all_cameras`. The run has one camera, one request and no faults, and
all the fairness below.

Known and not covered by a run: `stop_all_camera_workers` is
`all(stop_camera(c) for c in ids)`, and `all` ends at the first camera whose
join timed out. Cameras behind it are not told to stop before the shutdown goes
on to the alert pipeline, although
backend/tests/test_camera_lifecycle.py:853 is called
"test_server_shutdown_stops_camera_producers_before_alert_pipeline". In the
model it takes two cameras and one `JoinTimesOut` (`Unlock` of the shutdown).

### Runs

| run | instance | states | what it answers |
|---|---|---|---|
| `camera_workers` | 1 camera, 2 lingering threads of each kind, 1 request, 1 crash, failing thread creation or failing save, fairness | 0.34 M | one worker per camera and `stop_camera` tells the truth (`WorkersAccounted`), the fence is tight, healing converges to the live configuration, and to the stored one where no save failed |
| `camera_deletion` | 1 camera, 1 request, no faults, fairness | - | the divergence above |

Cameras share nothing but the fence, so one camera with all its actors is
where they interfere; a second thread of a kind is needed for an old worker that
lingers beside its successor. The one request is any of add, update, delete and
restart-all, on any initial configuration. `Lingering`, `MaxRequests` and
`MaxFaults` are bounds of the model.

### What is proved

`CameraLifecycleProofs` proves, for any cameras, request handlers, lingering
threads, requests and crashes (`LifecycleAssumption`, `NoneAssumption`):

| theorem | says |
|---|---|
| `WorkersAreAccounted` | `[]WorkersAccounted` |
| `FenceIsKept` | `FenceHolds` |

`WorkersAccounted` alone is not inductive: `start_camera` looks at the registry
in one step and publishes in another, and a stop that has told one kind of worker
to stop has yet to join it. The strengthening is `Registered` (what is registered
runs, until it gives the registration up itself) and `Mine`: an actor about to
publish has found the place empty (`Publishes`), and an actor on its way through
a stop knows which worker alone may still run (`Stops`). Both survive the steps
of other actors because the lifecycle lock keeps two of them out of one camera
(`Exclusive`), and those of the workers because a worker only ever ends.
`FenceHolds` needs no more than the types: the fence is looked at in the very step that
publishes.

Only model-checked: `EnabledServed` and `VlmReleased`, which are liveness.

Fairness (`FairSpec`): actors go on, the healing loop makes its passes, a worker
that was told to stop ends. Nothing is assumed of requests, crashes, shutdown,
or of a worker that was not told to stop. `EnabledServed` and `VlmReleased`
except a raised fence: a shutdown ends healing; the second part of
`EnabledServed` excepts a camera whose save failed, see above.

## Around the camera workers

Ten smaller modules, each a component that has its own threads and its own
faults. `RuntimeServices` puts nine of them side by side: each has its own
variables and shares none with the others, a step of the system is a step of
one of them, and its properties are theirs. (`SiteState` does the same with the
outbox and the evidence, above.) What one component asks of another, the answer
of a model or the fate of an alert, is an input its module leaves open.

The runs do not multiply the components: `MCRuntimeServices` has a variable
`subject` that names the one that moves, and every other one stays in an initial
state. Since no step of a component looks at another one, every behaviour of a
component is among these; `SideBySide` (below) proves the converse, that no
behaviour of the whole shows a component anything but its own steps.

### `FrameLoop`: one worker between two stops

`_video_processor_loop` connects, reads, takes results, and hands frames to
inference: through the shared scheduler (`slot`, `calls`, `mail`) or, without
one, through a thread of the connection (`pending`). The module has both, and a
connection may change from one to the other. A frame is of the present
connection ("cur") or of an earlier one ("old"): that is what fencing is
about. What the code reports and shows is `shown`; the frames behind
`violation_window`, `active_violations` and the anchors are `window`.

| code | model |
|---|---|
| connecting, with the reconnect debt and `CameraConnectionTracker` | `OpenFails`, `Open`, `Failed`, `Framed` |
| reading, licence pause, stop | `Read`, `ReadFails`, `Licence`, `StopSeen` |
| the `finally` and what follows | `Leave` with `Unregister` or `Drain`; `Raise` when an exception ends the worker |
| results | `TakeResult`, `TakePending`, `TakeNothing`, `Observe` |
| cadence, motion, admission | `Pass`, `Skip`, `Offer`, `OfferRefused`, `Submit`, `SlotComes`, `GrowsOld` |
| scheduler and thread | `Dispatch`, `Expire`, `CallEnds`, `CallExpires`, `ThreadRuns`, `ThreadEnds` |

`ObservationsCurrent`: nothing shown, queued or confirmed is of an earlier
connection, a lost source shows nothing, and the debt that delays reconnects is
there exactly during an outage. `ObservedAgain`: once the source delivers, the
licence allows and calls succeed, a camera is observed again and again; neither
the cadence, nor skipped frames, nor the failed call before it prevents that.
Adaptive cadence and keyframe tracking are off (their default).

### `ViolationIncidents`: from observations to alerts

Per rule a window of fresh observations, an incident flag, the time of the first
positive observation, and cooldowns. Models do not run on every frame: a
partial plan (phone or PPE substitution) refreshes the rules of its capability
only, and a rule whose model did not run has no observation. `AlertJustified`
looks at the history of fresh observations (`seen`), which no action reads: an
alert has its confirmations among the last `WindowSize` of them and names the
start of the unbroken run. `SustainedAlerts` says the converse under fairness: a
violation that lasts is alerted, and again after each cooldown; what may keep it
from that (missed in an observation, refused by the pipeline, suppressed by every
schedule, reconnect, restart) is named in `Interrupted`.

### `ObjectLifecycle`, and the run `polled_zone`

A watched zone has a row; `update_object_lifecycle` advances it and returns
one-shot events, of which the frame loop makes alerts. The handler of
`GET /cameras/{camera_id}/object-lifecycle` calls the same function with the detections that are
shown and drops what it returns. If the poll comes first after the dwell
threshold, `dwellAlerted` is set and the frame loop's own update returns nothing:
no alert. The module keeps beside the row the row the loop alone would have
(`intended`) and whether the event reached the loop (`told`);
`DwellReachesLoop` fails in a few steps. A poll after a *partial* frame is worse,
since its detections have no watched objects at all.

Known and not covered by a run: an event is also lost when its alert's
submission is refused, although the log there says "incident remains
retryable" (the row stays advanced), and a row of a stopped camera is never
reset (`reset_object_lifecycle_state` is called by tests only).

### `FrameBatcher`

Frames of several cameras with the same models share a request. A caller waits
for partners under the batcher's lock, whoever completes a batch sends it for all, a
caller that waited in vain withdraws its frame and sends it alone, unless it
was taken meanwhile. `kind = "grouped"` is `_RemotePrimaryFrameBatcher` and its
subclasses' common form, `kind = "phone"` the phone batcher. `FrameInOnePlace`:
a frame is pending, in one batch, or on its own way, and computed once;
`CallersReturn`: everybody gets an answer or an error, under the fairness that
a caller's own steps go on (its waits have timeouts and requests have too).
`Upgrade` is a new server that serves other batch sizes.

### `VlmEnrichment`

One companion thread per camera with a generation; a queue with one replaceable
offer per camera; one dispatcher with a circuit breaker; the flag that an
incident is active; the asynchronous persistence of its alert. `IncidentHonest`:
a flag belongs to the present companion and has an alert that is pending or
persisted or a job that is about to submit or to clear it, and one spell of violation raises one alert. Its exception is
`misled`: the failure callback of an alert cannot tell two incidents of one
companion apart, so that the late failure of an older alert ends a newer incident;
the model has that step and the property allows what follows from it.

### `MjpegFanout`

The channel of a camera under a lock, viewers as coroutines of event loops,
wake-ups posted from the camera's thread. `ViewersCounted`: the counter that limits
all viewers counts each once, whichever of four paths removed it; a viewer
abreast of its channel has the newest frame. `ViewersCatchUp`: no publication or
deletion slips between a viewer's look and its wait, though the publisher skips viewers
that are marked as notified. Loops may close under their viewers
(`LoopCloses`). Fairness: a loop runs what was posted to it, a client that is
waited for reads on.

### `AlertTiming`

The bounded registry of clock anchors, the persistence callback in three steps
(register with the telemetry, activate, drain what came before), outcomes that
may overtake it, eviction. `TimingConserved`: the telemetry's *pending* is what
it will still hear of, and every eligible target ends resolved or evicted. Its
exception, `raced`: a context evicted from a full registry between its
persistence and its activation is taken off before it is added.

### `ModelCatalog` and `ModelInstall`

The catalogue of the remote model server is refreshed by one caller for all,
through a transport thread that may outlive the wait for it; an installation
starts a new epoch. `CatalogueFenced`: nothing cached, and nothing returned, is from
before the last invalidation before the call; one caller refreshes per epoch.
An installation is a job with a thread; `InstallTruthful`: what a model's status
says is so through half-failed jobs, successors and restarts, one job works at
a time, and what a bad download left behind makes no model ready. A file is
`absent`, `empty`, `partial` or `whole`; `Downloads` moves any of the last three to
its place, as `os.replace` does before `_verify_asset` looks at it, and `Verify`
then refuses an empty file, and one of another size than the server declared, if it
declared any; a load fails on what is not whole. The exceptions: `overtaken` (a
failing job is final before its models are marked, and a new job may take them in
between), and a lazily loaded model that no job has asked for since the process
started.

The second one is what the code does, and the model shows more of it: the refused
file stays where it is. A retry finds it and never downloads again
(`FindsFile`), it fails at the check or at the load each time, until someone
removes the file; and after a restart a model of `_LAZY_START_MODEL_KEYS` is
"ready" on an empty or truncated file, because `initialize` only sees that it exists
(`Starts`), until its first use tries to load it. Copies an operator puts into a
legacy path are taken to be whole; the loading on first use, and
`face_recognition`, whose files are brought by hand, are left out.

### `ConfigStore`

The configuration is one row of PostgreSQL; every process has a cached
dictionary, refreshed at a bounded rate by whoever reads. `get_config()` returns
the cached dictionary itself: requests edit it in place and save it whole. An
alert marks its rule by an UPDATE of one field and takes the cache's version
away. The refresh reads the version, then the row, outside the lock and installs
the row if the cache's version is what it was at the start. Dictionaries are
objects with an identity (`heap`), because an edit through a dictionary that was replaced
meanwhile is not an edit of the cache.

`SavesStay`: an older row does not replace what this process saved, unless the
process marked a rule after the save.
`CachesCatchUp`: in the end every process works with the stored document.
What the model shows beside them, and the properties except by name: a mark
between a save and the end of a refresh that began without a version lets the
older snapshot in (the version is absent both times); the edit of a
request whose save failed stays in the live dictionary and is stored with the
next save of it; a whole-document save overwrites the edits and marks another process
stored since this one's last refresh. The last is why neither property promises
that an edit survives.

Fairness: requests end, the configuration is read again and again (each frame of a
camera does), the interval ends.

### Runs

| run | instances | states | what it answers |
|---|---|---|---|
| `services` | fourteen subjects, below | 0.29 M | the properties above, and the liveness of the outbox (`DeliveriesSettle`) |
| `site` | `evidence`: 2 alerts of one frame, 1 image each, cache of 1, 2 attempts, grace of 1 tick, 2 faults; `outbox`: 1 process, 2 slots, an initial delivery and a legacy escalation on two channels and two priorities | 0.55 M | is evidence kept, is every orphan removed; channel reservation on every path, bounded overtaking |
| `polled_zone` | 1 zone, dwell and removal after a tick or two | - | the divergence above |

The subjects of `services`: two rules that share a policy, or one of which needs
none, on frames for which the models of these rules run (`violations`); three
callers with batches of two and three, of which one never asks for a pair
(`grouped`), and of three (`phone`); one companion with two generations and three
alerts (`companion`), two cameras that compete for a queue of one (`companions`);
two viewers of one channel with two frames (`viewers`), of a camera that is
deleted and created again (`rewatched`); two alerts with two
targets in a registry of one (`timing`); three callers and an invalidation (`catalog`);
two models, two files, two jobs, restarts (`installer`); an escalation with two
attempts, an outage and a replay (`delivery`); the frame loop with a debt of two
(`frames`); two processes with an edit and a mark (`shared`), one process with two
refreshing readers, an edit, a mark and a fault (`local`). Each has the smallest
numbers with which its components meet: two to race, a third to be passed over,
a limit that is reached.

A subject also leaves out products of things that do not meet, each named at its
step in `MCRuntimeServices`: an RTSP source infers with its own thread (the
tracker of outages and the mailbox of the scheduler never look at each other); the
provider of `companion` fails only while there is one alert at most, and in
`companions` not at all, the companion of the second camera staying; the
installer takes its files in one order; a server never serves the larger batches
without the smaller; in `rewatched` one of the two viewers keeps its loop. None
of these restrictions takes away a step that fairness needs, since another step of
the same condition remains. Larger instances were checked during development:
all fourteen subjects without these restrictions (0.46 M states),
`rewatched` with two frames per channel (0.21 M), two processes with two
edits and a fault (1.25 M). In the subject `evidence` of `site` the two
alerts, alike until the first has its image, are persisted in one order; both
orders have 0.72 M states. `CHECK_DEADLOCK` is off in `services` because
bounded subjects do end (no generations, submissions or epochs are left).

### What is proved

`ServicesProofs` and its continuation `RuntimeServicesProofs` have a section for
each component of `RuntimeServices`. What a theorem assumes of the constants is
all it assumes: bounds that only keep TLC finite (`MaxMarks`, `MaxGenerations`,
`MaxSubmissions`, ...) are arbitrary. First the theorems about one component alone:

| theorem | assumes | says |
|---|---|---|
| `ServicesProofs!NothingOld` | `MaxDebt` is a positive number | `[]ObservationsCurrent` |
| `ServicesProofs!NothingStale` | the callers are none of the two marks `"nobody"` and `"gone"`, `MaxEpoch` is a number | `[]CatalogueFenced` |
| `ServicesProofs!NothingUndone` | every request and every refresh has a process (`ConfigConstants`) | `[]SavesStay` |
| `ServicesProofs!StatusTruthful` | every model has an asset, `MaxJobs` is a number (`InstallConstants`) | `[]InstallTruthful` |
| `ServicesProofs!SilenceJustified` | nothing | `[]IncidentHonest` |
| `ServicesProofs!FramesAreInOnePlace` | finitely many callers, batch sizes positive, one of the two kinds (`BatchConstants`) | `[]FrameInOnePlace` |
| `RuntimeServicesProofs!AlertsAreJustified` | the window is not empty, the thresholds are numbers (`ViolationConstants`) | `AlertJustified` |
| `RuntimeServicesProofs!ViewersAreCounted` | finitely many viewers, limits are numbers (`FanoutConstants`) | `[]ViewersCounted` |
| `RuntimeServicesProofs!DeliveriesAreAccounted` | finitely many alerts and targets, the registry holds one at least (`TimingConstants`) | `[]TimingConserved` |
| `FramesTyped`, `CatalogTyped`, `ConfigKeepsTypes`, `InstallKeepsTypes`, `VlmTyped`, `BatchTyped`, `FanoutKeepsTypes`, `TimingKeepsTypes` | the same, and that bounds are numbers (`ConfigBounds`, `VlmConstants`) | `[]TypeOK` of each module |

The invariants the run checks are these together, of all components at once,
and so are the theorems about the whole:

| theorem of `RuntimeServicesProofs` | says of `RuntimeServices!Spec` |
|---|---|
| `SideBySide` | it implies the specification of each of the nine modules |
| `CamerasStayCurrent`, `CatalogueStaysFenced`, `SavesAreKept`, `InstallsAreTruthful`, `IncidentsAreHonest`, `BatchesAreWhole`, `ViewersStayCounted`, `TimingIsConserved` | `[]ObservationsCurrent`, `[]CatalogueFenced`, `[]SavesStay`, `[]InstallTruthful`, `[]IncidentHonest`, `[]FrameInOnePlace`, `[]ViewersCounted`, `[]TimingConserved`, each with the type invariant of its module |
| `AlertsStayJustified` | `AlertJustified` |

`SideBySide` has one step per component: an initial state of the whole is one of the
component, and a step of the whole is a step of the component or leaves all its
variables alone. With it, every safety property of the run `services` is a
theorem about the system the run instantiates.

Some of these type invariants are more than they look, because they bound what
the code counts. The version of the configuration row stays within what the
requests, the marks and the first load can write (`VersionBounded`: a request
that has not ended has yet to write), and a new dictionary finds a free number,
because the requests hold no more than one each. The counters of `FrameBatcher`
and `AlertTiming` stay natural numbers although steps subtract from them: what
is taken off was counted before.

`ObservationsCurrent` alone is not inductive: it does not say which inference a
connection may have. `ModeOK` adds that a loop without a connection has none and
that only the connection's own thread leaves anything pending; with it, each of
the two ways to leave (`Unregister`, `Drain`) empties all there is. The debt of
the tracker is treated apart (`TrackerSteps`).

`CatalogueFenced` does not say how a late answer can be told: `CallersInOrder`
and `TransportInOrder` order the epochs along a call (it began, it took the
lead, the server read, now), so what the leader of the current epoch receives was
read in that epoch; the thread only works for a caller that still leads, which
is why the mark `"gone"` is needed. `OneLeads` follows from the three ways a
step may change who leads (`LeadKept`, `LeadTaken`, `LeadGivenUp`).

`SavesStay` speaks of a refresh about to install; `InOrder` says how it came
there: the version it knew is older than the one it found, and the row it read
is no older than that. The rest is that a cache with a version is no older than
its process's last save. The proof attempt corrected the property: as first
stated, it promised this until a mark between the save and the end of one
refresh. But a mark that follows the save takes the version away, a refresh that began earlier
without one then brings an old version back, and another one that knew
that version wins against it, with a row from before the save: two refreshes
in flight, a save and a mark, in an order the run's instance is too small for.
A mark therefore ends the promise of the saves before it (`Mark` resets
`lastSave`, which only the property reads).

`InstallTruthful` needs to know which job decides about a model: the last that
has it (`IsLast`). A model still `installing` is ahead of that job: its asset is
left, being checked or its load is to do (`Ahead`); this is what makes the job
that succeeds have decided about all its models. `OneAtWork` says a running job
is the last, so that no earlier one finishes after it. `Served` says that where
a job found its asset whole, a whole copy lies at its place or in a legacy path,
and stays there: no file is ever replaced, and a copy fills an empty place only.
What a download left empty or cut short is found as such by every later job, so
none of them marks a model ready on it.

`IncidentHonest` holds per camera (`IncidentOf`): a mark belongs to the companion's
generation and has an alert behind it, unless the dispatcher is raising one or the
companion is leaving; the dispatcher, between its mark and its submission, finds no
alert of the spell unless the mark was cleared by the failure of an older
one (`misled`). `Registered` and `RecentAreNew` tie the dispatcher's generations
and the alerts' to the companion's.

`FrameInOnePlace` needs what a leader may count on: `PendingWaits` (who is in the
queue still waits, unanswered and unsent), `BatchesCarry` and `OneBatch` (whom it
took waits for it and for no other leader). Counter and permits are `Balanced` and
`Admitted`; the theorem covers both kinds of batcher.

`AlertJustified` compares two histories: the window the code keeps and drops, and
`seen`, which forgets nothing since the last alert. `Covers` ties them (the window
is the end of what was seen, and before it all is absent, so that a dropped window
has lost no confirmation), `IsRun` says the anchor is the length of the run that goes on.
The step that could break it is the end of an incident, which leaves a rule
without an anchor: `RuleOK` shows that a rule whose incident is active was not
seen since its alert. For the admission empties the window, and an incident
with fewer than two hits is over at the next frame that may have seen it; an
incident is therefore never active beside a positive observation.

`ViewersCounted` needs that a viewer is subscribed where it is (`WatchesOne`), that
channels retire in the order they are created in (`InOrder`, so that the viewer of an
earlier channel of the camera does not count against the next), and that what a viewer remembers is
no newer than its channel (`NewestSeen`).

`TimingConserved` needs what a context holds by how far its alert has come
(`ContextOf`), and what the persistence callback may rely on between its steps
(`CallbackOf`): the context it persisted is there and inactive, unless an
eviction overtook it (`raced`). The pending count is then the open targets of
active contexts, the outcomes taken but not yet counted, and those the callback
has in hand (`PendingAwaited`). It was checked first with three alerts, two
targets and a registry of two (1.57 M states).

Five modules were brought into a form the provers can use, without a change of what
they do: a removal from a queue by its place in place of a filter (`Without`,
`Drop`), a count of pairs in place of a sum (`Awaited`) and of places in place
of a filter (`Hits`), the candidates of a frame as a set with an order in place of
a filtered sequence (`todo`), records updated in one piece (`MjpegFanout`), and the
mark above.

`LoopAloneIsTold`, at the end of `RuntimeServicesProofs`, complements the run
`polled_zone`: without requests to the dashboard (`LoopNext` is the module's `Next`
without `Poll`) `DwellReachesLoop` holds for all thresholds, any partial frames and
any gaps, so the poll is the only cause of the lost alert. The invariant is that
the row is the one the loop alone would have.

Only model-checked: all liveness.

## Not modelled

Licensing (a function of two files and the clock; its effect, the pause, is in
`FrameLoop`), the notifiers (the environment of the outbox), decoding and
GStreamer, the adaptive controller and the keyframe tracker, models and
analyzers (numeric code), queue, obstruction and occupancy sessions
(computed when the dashboard asks; no alert comes of them), record stores
(single statements), routes that only read or edit a store, telemetry beside the alert counters, reports,
discovery, the frontend, the evaluation scripts and the deployment files. The
scripts (`scripts/apron_harness_*`, `video_eval.py`, benchmarks) are half of the
Python code and run offline, once, in one thread.

## Plan

Done: the alert delivery outbox, the shared inference scheduler, the alert
pipeline and the camera workers; the evidence files; the frame loop, the
frame batchers, VLM enrichment, the MJPEG fan-out, alert timing, the
model catalogue and installation, the configuration store, incidents and the
watched zones. No safety property of a passing run is left without a proof. What TLC
alone checks is liveness, which is out of the prover's reach:
`UrgentServed`, `NormalTurn`, `AlertsSettle`, `EnabledServed`, `VlmReleased`,
`OrphansRemoved`, `DeliveriesSettle`, `CallersReturn`, `ViewersCatchUp`,
`SustainedAlerts`, `ObservedAgain`, `CachesCatchUp`.

Next, in this order:

1. Composition: `FrameLoop` with `SharedInferenceScheduler` in place of its own
   slot and mailbox, under `CameraLifecycle`; pipeline, outbox and timing as one
   system.
2. Abstract specifications: a one-frame mailbox for `MjpegFanout`, an exactly-once
   call for `FrameBatcher`.
3. The adaptive controller and the connection tracker's reports as sequential
   machines; snooze and auto-resolve; the grace periods of licensing.

A run answers one question, or the same question of several components side by
side; when a later component needs one, an instance that a proof has made
redundant gives way.
