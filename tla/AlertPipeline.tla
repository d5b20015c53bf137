---------------------------- MODULE AlertPipeline ----------------------------
(***************************************************************************)
(* alert_pipeline.AlertPipeline: producers (the camera threads), a bounded *)
(* persistence queue with one worker, a bounded delivery queue with a pool *)
(* of workers, a bounded retry heap with its scheduler thread, and the     *)
(* thread that calls shutdown().                                           *)
(*                                                                         *)
(* An alert stands for one submitted request; what the delivery callback   *)
(* does with its targets is one answer.  A retry may become due at any     *)
(* time.  A thread's pc "get" is its polling loop: it may still take a job *)
(* that arrives, or leave once worker_stop is set.                         *)
(***************************************************************************)
EXTENDS Integers, Sequences, FiniteSets

CONSTANTS
    Alert,            \* submitted requests
    Advisory,         \* those submitted with allow_backpressure=False
    Worker,           \* delivery worker threads
    PersistCap,       \* persist_queue_size
    DeliveryCap,      \* delivery_queue_size
    RetryCap,         \* delivery_retry_queue_size
    PersistAttempts,  \* persistence_attempts
    DeliveryAttempts, \* delivery_attempts
    NoAlert

ASSUME PipelineAssumption ==
    /\ Advisory \subseteq Alert
    /\ IsFiniteSet(Alert)
    /\ IsFiniteSet(Worker)
    /\ Worker # {}
    /\ {PersistCap, DeliveryCap, RetryCap, PersistAttempts, DeliveryAttempts} \subseteq Nat \ {0}
    /\ NoAlert \notin Alert

VARIABLES
    producer,    \* where each alert's submit() is
    running, accepting, workerStop,
    submitters,  \* _active_submitters
    persistQ, persistOpen,   \* _persist_queue and its unfinished_tasks
    persister,   \* the persistence thread
    deliveryQ, deliveryOpen, \* _delivery_queue and its unfinished_tasks
    worker,      \* the delivery threads
    heap,        \* _retry_heap
    pending,     \* _pending_retries
    retrier,     \* the retry scheduler thread
    attempt,     \* delivery attempt of each alert's current job
    outcome,     \* how each alert ended
    stopper      \* where shutdown() is

vars == <<producer, running, accepting, workerStop, submitters, persistQ, persistOpen, persister,
          deliveryQ, deliveryOpen, worker, heap, pending, retrier, attempt, outcome, stopper>>
gateVars == <<running, accepting, workerStop, stopper>>
intakeVars == <<producer, submitters>>
persistVars == <<persistQ, persistOpen, persister>>
deliveryVars == <<deliveryQ, deliveryOpen, worker>>
retryVars == <<heap, pending, retrier>>
endVars == <<attempt, outcome>>

Off == [pc |-> "off", alert |-> NoAlert]
Polling == [pc |-> "get", alert |-> NoAlert]

TypeOK ==
    /\ producer \in [Alert -> {"new", "started", "putting", "leaving", "returned", "refused"}]
    /\ {running, accepting, workerStop} \subseteq BOOLEAN
    /\ submitters \in Nat
    /\ persistQ \in Seq(Alert) /\ Len(persistQ) <= PersistCap /\ persistOpen \in Nat
    /\ persister \in [pc    : {"off", "get", "persist", "put", "done"},
                      alert : Alert \cup {NoAlert},
                      tries : 0 .. PersistAttempts]
    /\ deliveryQ \in Seq(Alert) /\ Len(deliveryQ) <= DeliveryCap /\ deliveryOpen \in Nat
    /\ worker \in [Worker -> [pc    : {"off", "get", "wait", "deliver", "done"},
                              alert : Alert \cup {NoAlert}]]
    /\ heap \subseteq Alert
    /\ pending \in 0 .. RetryCap
    /\ retrier \in [pc : {"off", "get", "put", "release"}, alert : Alert \cup {NoAlert}]
    /\ attempt \in [Alert -> 1 .. DeliveryAttempts]
    /\ outcome \in [Alert -> {"none", "lost", "delivered", "failed"}]
    /\ stopper \in {"idle", "closing", "retries", "persistence", "delivery", "stop", "join"}

Init ==
    /\ producer = [a \in Alert |-> "new"]
    /\ running = FALSE /\ accepting = FALSE /\ workerStop = FALSE
    /\ submitters = 0
    /\ persistQ = <<>> /\ persistOpen = 0
    /\ persister = [pc |-> "off", alert |-> NoAlert, tries |-> 0]
    /\ deliveryQ = <<>> /\ deliveryOpen = 0
    /\ worker = [w \in Worker |-> Off]
    /\ heap = {} /\ pending = 0
    /\ retrier = Off
    /\ attempt = [a \in Alert |-> 1]
    /\ outcome = [a \in Alert |-> "none"]
    /\ stopper = "idle"

-----------------------------------------------------------------------------
(* submit() in a producer's thread. *)

\* start(): nothing if running, otherwise a new generation of threads.
Start(a) ==
    /\ producer[a] = "new"
    /\ producer' = [producer EXCEPT ![a] = "started"]
    /\ IF running
       THEN UNCHANGED <<running, accepting, workerStop, persister, worker, retrier>>
       ELSE /\ running' = TRUE /\ accepting' = TRUE /\ workerStop' = FALSE
            /\ persister' = [pc |-> "get", alert |-> NoAlert, tries |-> 0]
            /\ worker' = [w \in Worker |-> Polling]
            /\ retrier' = Polling
    /\ UNCHANGED <<stopper, submitters, persistQ, persistOpen, deliveryQ, deliveryOpen, heap,
                   pending, endVars>>

\* A thread cannot be created: start() undoes itself and submit() raises.
StartFails(a) ==
    /\ producer[a] = "new"
    /\ ~running
    /\ producer' = [producer EXCEPT ![a] = "refused"]
    /\ UNCHANGED <<gateVars, submitters, persistVars, deliveryVars, retryVars, endVars>>

\* Mutant of Register: the producer is not counted.
RegisterUncounted(a) ==
    /\ producer[a] = "started"
    /\ producer' = [producer EXCEPT ![a] = IF running /\ accepting THEN "putting" ELSE "refused"]
    /\ UNCHANGED <<gateVars, submitters, persistVars, deliveryVars, retryVars, endVars>>

\* The producer is admitted and counted, or refused, under the lifecycle lock.
Register(a) ==
    /\ producer[a] = "started"
    /\ IF running /\ accepting
       THEN /\ producer' = [producer EXCEPT ![a] = "putting"]
            /\ submitters' = submitters + 1
       ELSE /\ producer' = [producer EXCEPT ![a] = "refused"]
            /\ UNCHANGED submitters
    /\ UNCHANGED <<gateVars, persistVars, deliveryVars, retryVars, endVars>>

\* _persist_queue.put: a producer without room waits.
PutPersist(a) ==
    /\ producer[a] = "putting"
    /\ Len(persistQ) < PersistCap
    /\ producer' = [producer EXCEPT ![a] = "leaving"]
    /\ persistQ' = Append(persistQ, a)
    /\ persistOpen' = persistOpen + 1
    /\ UNCHANGED <<gateVars, submitters, persister, deliveryVars, retryVars, endVars>>

\* put_nowait of an advisory request finds the queue full; the finally clause
\* gives the producer's count back.
RejectAdvisory(a) ==
    /\ producer[a] = "putting"
    /\ a \in Advisory
    /\ Len(persistQ) = PersistCap
    /\ producer' = [producer EXCEPT ![a] = "refused"]
    /\ submitters' = submitters - 1
    /\ UNCHANGED <<gateVars, persistVars, deliveryVars, retryVars, endVars>>

Leave(a) ==
    /\ producer[a] = "leaving"
    /\ producer' = [producer EXCEPT ![a] = "returned"]
    /\ submitters' = submitters - 1
    /\ UNCHANGED <<gateVars, persistVars, deliveryVars, retryVars, endVars>>

-----------------------------------------------------------------------------
(* The persistence thread. *)

TakePersist ==
    /\ persister.pc = "get"
    /\ persistQ # <<>>
    /\ persister' = [pc |-> "persist", alert |-> Head(persistQ), tries |-> 0]
    /\ persistQ' = Tail(persistQ)
    /\ UNCHANGED <<gateVars, intakeVars, persistOpen, deliveryVars, retryVars, endVars>>

\* Mutant of PersistFails: the last exception kills the thread.
PersistKills ==
    /\ persister.pc = "persist"
    /\ LET tries == persister.tries + 1
           last  == tries = PersistAttempts
       IN  persister' = [persister EXCEPT !.tries = tries, !.pc = IF last THEN "off" ELSE "persist"]
    /\ UNCHANGED <<gateVars, intakeVars, persistQ, persistOpen, deliveryVars, retryVars, endVars>>

\* One call of the persistence callback raises; the last one ends the alert.
PersistFails ==
    /\ persister.pc = "persist"
    /\ LET tries == persister.tries + 1
           last  == tries = PersistAttempts
       IN  /\ persister' = IF last THEN [pc |-> "done", alert |-> NoAlert, tries |-> 0]
                           ELSE [persister EXCEPT !.tries = tries]
           /\ outcome' = IF last THEN [outcome EXCEPT ![persister.alert] = "lost"] ELSE outcome
    /\ UNCHANGED <<gateVars, intakeVars, persistQ, persistOpen, deliveryVars, retryVars, attempt>>

\* The alert is stored; its Future is resolved and its delivery job made.
PersistSucceeds ==
    /\ persister.pc = "persist"
    /\ persister' = [persister EXCEPT !.pc = "put"]
    /\ UNCHANGED <<gateVars, intakeVars, persistQ, persistOpen, deliveryVars, retryVars, endVars>>

PutDelivery ==
    /\ persister.pc = "put"
    /\ Len(deliveryQ) < DeliveryCap
    /\ deliveryQ' = Append(deliveryQ, persister.alert)
    /\ deliveryOpen' = deliveryOpen + 1
    /\ persister' = [pc |-> "done", alert |-> NoAlert, tries |-> 0]
    /\ UNCHANGED <<gateVars, intakeVars, persistQ, persistOpen, worker, retryVars, endVars>>

PersistDone ==
    /\ persister.pc = "done"
    /\ persistOpen' = persistOpen - 1
    /\ persister' = [pc |-> IF workerStop THEN "off" ELSE "get", alert |-> NoAlert, tries |-> 0]
    /\ UNCHANGED <<gateVars, intakeVars, persistQ, deliveryVars, retryVars, endVars>>

PersisterExits ==
    /\ persister.pc = "get"
    /\ workerStop
    /\ persister' = [persister EXCEPT !.pc = "off"]
    /\ UNCHANGED <<gateVars, intakeVars, persistQ, persistOpen, deliveryVars, retryVars, endVars>>

-----------------------------------------------------------------------------
(* A delivery worker. *)

Holding(t) == IF t.pc \in {"put", "release"} THEN {t.alert} ELSE {}

\* A retried job carries handoff_ready and waits for it.
TakeDelivery(w) ==
    /\ worker[w].pc = "get"
    /\ deliveryQ # <<>>
    /\ worker' = [worker EXCEPT ![w] = [pc |-> "wait", alert |-> Head(deliveryQ)]]
    /\ deliveryQ' = Tail(deliveryQ)
    /\ UNCHANGED <<gateVars, intakeVars, persistVars, deliveryOpen, retryVars, endVars>>

\* Mutant of CallDelivery: handoff_ready is not waited for.
CallDeliveryAtOnce(w) ==
    /\ worker[w].pc = "wait"
    /\ worker' = [worker EXCEPT ![w].pc = "deliver"]
    /\ UNCHANGED <<gateVars, intakeVars, persistVars, deliveryQ, deliveryOpen, retryVars, endVars>>

\* handoff_ready is set once the scheduler has given the job up.
CallDelivery(w) ==
    /\ worker[w].pc = "wait"
    /\ worker[w].alert \notin Holding(retrier)
    /\ worker' = [worker EXCEPT ![w].pc = "deliver"]
    /\ UNCHANGED <<gateVars, intakeVars, persistVars, deliveryQ, deliveryOpen, retryVars, endVars>>

\* The callback's outcome needs no retry, or the attempts are used up.
Ends(w, result) ==
    /\ worker[w].pc = "deliver"
    /\ outcome' = [outcome EXCEPT ![worker[w].alert] = result]
    /\ worker' = [worker EXCEPT ![w] = [pc |-> "done", alert |-> NoAlert]]
    /\ UNCHANGED <<gateVars, intakeVars, persistVars, deliveryQ, deliveryOpen, retryVars, attempt>>

\* _schedule_retry of the next attempt.
SchedulesRetry(w) ==
    /\ worker[w].pc = "deliver"
    /\ attempt[worker[w].alert] < DeliveryAttempts
    /\ pending < RetryCap
    /\ pending' = pending + 1
    /\ heap' = heap \cup {worker[w].alert}
    /\ attempt' = [attempt EXCEPT ![worker[w].alert] = @ + 1]
    /\ worker' = [worker EXCEPT ![w] = [pc |-> "done", alert |-> NoAlert]]
    /\ UNCHANGED <<gateVars, intakeVars, persistVars, deliveryQ, deliveryOpen, retrier, outcome>>

\* ... which is refused when the retry backlog is full.
RetryRefused(w) ==
    /\ worker[w].pc = "deliver"
    /\ attempt[worker[w].alert] < DeliveryAttempts
    /\ pending >= RetryCap
    /\ Ends(w, "failed")

DeliveryDone(w) ==
    /\ worker[w].pc = "done"
    /\ deliveryOpen' = deliveryOpen - 1
    /\ worker' = [worker EXCEPT ![w] = IF workerStop THEN Off ELSE Polling]
    /\ UNCHANGED <<gateVars, intakeVars, persistVars, deliveryQ, retryVars, endVars>>

WorkerExits(w) ==
    /\ worker[w].pc = "get"
    /\ workerStop
    /\ worker' = [worker EXCEPT ![w] = Off]
    /\ UNCHANGED <<gateVars, intakeVars, persistVars, deliveryQ, deliveryOpen, retryVars, endVars>>

-----------------------------------------------------------------------------
(* The retry scheduler. *)

\* Mutant of PopRetry: the retry is no longer counted.
PopUncounted(a) ==
    /\ retrier.pc = "get"
    /\ a \in heap
    /\ heap' = heap \ {a}
    /\ pending' = pending - 1
    /\ retrier' = [pc |-> "put", alert |-> a]
    /\ UNCHANGED <<gateVars, intakeVars, persistVars, deliveryVars, endVars>>

\* A retry that has become due leaves the heap; it stays counted.
PopRetry(a) ==
    /\ retrier.pc = "get"
    /\ a \in heap
    /\ heap' = heap \ {a}
    /\ retrier' = [pc |-> "put", alert |-> a]
    /\ UNCHANGED <<gateVars, intakeVars, persistVars, deliveryVars, pending, endVars>>

PutRetry ==
    /\ retrier.pc = "put"
    /\ Len(deliveryQ) < DeliveryCap
    /\ deliveryQ' = Append(deliveryQ, retrier.alert)
    /\ deliveryOpen' = deliveryOpen + 1
    /\ retrier' = [retrier EXCEPT !.pc = "release"]
    /\ UNCHANGED <<gateVars, intakeVars, persistVars, worker, heap, pending, endVars>>

\* The count goes down and handoff_ready is set, under the retry lock.
ReleaseRetry ==
    /\ retrier.pc = "release"
    /\ pending' = pending - 1
    /\ retrier' = IF workerStop THEN Off ELSE Polling
    /\ UNCHANGED <<gateVars, intakeVars, persistVars, deliveryVars, heap, endVars>>

\* Mutant of RetrierExits: an empty heap ends the thread.
RetrierExitsWhenEmpty ==
    /\ retrier.pc = "get"
    /\ workerStop \/ heap = {}
    /\ retrier' = Off
    /\ UNCHANGED <<gateVars, intakeVars, persistVars, deliveryVars, heap, pending, endVars>>

RetrierExits ==
    /\ retrier.pc = "get"
    /\ workerStop
    /\ retrier' = Off
    /\ UNCHANGED <<gateVars, intakeVars, persistVars, deliveryVars, heap, pending, endVars>>

-----------------------------------------------------------------------------
(* shutdown(), serialised by _shutdown_lock.  drain() reads the count of   *)
(* retries, then the persistence queue's, then the delivery queue's.       *)

Shut(from, to) ==
    /\ stopper = from
    /\ stopper' = to
    /\ UNCHANGED <<intakeVars, persistVars, deliveryVars, retryVars, endVars>>

\* shutdown() of a pipeline that is not running returns at once.
AlreadyStopped == ~running /\ stopper = "idle" /\ UNCHANGED vars

CloseAdmission ==
    /\ running
    /\ Shut("idle", "closing")
    /\ accepting' = FALSE
    /\ UNCHANGED <<running, workerStop>>

ProducersLeft == submitters = 0 /\ Shut("closing", "retries") /\ UNCHANGED <<running, accepting, workerStop>>
NoRetries == pending = 0 /\ Shut("retries", "persistence") /\ UNCHANGED <<running, accepting, workerStop>>

PersistenceDrained ==
    /\ IF persistOpen = 0 THEN Shut("persistence", "delivery") ELSE Shut("persistence", "retries")
    /\ UNCHANGED <<running, accepting, workerStop>>

DeliveryDrained ==
    /\ IF deliveryOpen = 0 THEN Shut("delivery", "stop") ELSE Shut("delivery", "retries")
    /\ UNCHANGED <<running, accepting, workerStop>>

StopWorkers ==
    /\ Shut("stop", "join")
    /\ workerStop' = TRUE
    /\ UNCHANGED <<running, accepting>>

AllOff ==
    /\ persister.pc = "off" /\ retrier.pc = "off"
    /\ \A w \in Worker : worker[w].pc = "off"

Joined ==
    /\ AllOff
    /\ Shut("join", "idle")
    /\ running' = FALSE /\ accepting' = FALSE
    /\ UNCHANGED workerStop

\* The deadline passes: shutdown() returns False, admission stays closed.
TimesOut ==
    /\ \/ Shut("closing", "idle")
       \/ Shut("retries", "idle")
       \/ ~AllOff /\ Shut("join", "idle")
    /\ UNCHANGED <<running, accepting, workerStop>>

-----------------------------------------------------------------------------
ProducerStep(a) ==
    Start(a) \/ StartFails(a) \/ Register(a) \/ PutPersist(a) \/ RejectAdvisory(a) \/ Leave(a)

PersisterStep ==
    TakePersist \/ PersistFails \/ PersistSucceeds \/ PutDelivery \/ PersistDone \/ PersisterExits

WorkerStep(w) ==
    \/ TakeDelivery(w) \/ CallDelivery(w)
    \/ \E result \in {"delivered", "failed"} : Ends(w, result)
    \/ SchedulesRetry(w) \/ RetryRefused(w) \/ DeliveryDone(w) \/ WorkerExits(w)

RetrierStep == (\E a \in Alert : PopRetry(a)) \/ PutRetry \/ ReleaseRetry \/ RetrierExits

StopperStep ==
    \/ AlreadyStopped \/ CloseAdmission \/ ProducersLeft \/ NoRetries \/ PersistenceDrained \/ DeliveryDrained
    \/ StopWorkers \/ Joined \/ TimesOut

Next ==
    \/ \E a \in Alert : ProducerStep(a)
    \/ PersisterStep
    \/ \E w \in Worker : WorkerStep(w)
    \/ RetrierStep
    \/ StopperStep

Spec == Init /\ [][Next]_vars

(***************************************************************************)
(* Fairness.  The threads run and the callbacks return; a retry becomes    *)
(* due.  Nothing is assumed of submit() before it is admitted and of       *)
(* shutdown().  A put that competes for the last place wins in the end,    *)
(* because the alerts and their attempts are finitely many.                *)
(***************************************************************************)
Fairness ==
    /\ \A a \in Alert : WF_vars(PutPersist(a) \/ RejectAdvisory(a))
    /\ WF_vars(PersisterStep)
    /\ \A w \in Worker : WF_vars(WorkerStep(w))
    /\ WF_vars(RetrierStep)

FairSpec == Spec /\ Fairness

-----------------------------------------------------------------------------
(* Properties. *)

Count(b) == IF b THEN 1 ELSE 0
Occurrences(queue, a) == Cardinality({i \in DOMAIN queue : queue[i] = a})

\* Where a job for alert a, or the end of it, is to be found.
Copies(a) ==
    Occurrences(persistQ, a) + Count(persister.alert = a)
    + Occurrences(deliveryQ, a) + Cardinality({w \in Worker : worker[w].alert = a})
    + Count(a \in heap) + Count(retrier.pc = "put" /\ retrier.alert = a)
    + Count(outcome[a] # "none")

\* Every admitted alert whose put has ended is in exactly one place: no thread,
\* queue or heap loses it, and none works on it twice.
InOnePlace ==
    \A a \in Alert : Copies(a) = Count(producer[a] \in {"leaving", "returned"})

\* The counters drain() and shutdown() read are exact whenever no thread is
\* between two of its own steps; a retry stays counted until its next attempt
\* is registered with the delivery queue.
CountersExact ==
    /\ submitters = Cardinality({a \in Alert : producer[a] \in {"putting", "leaving"}})
    /\ persistOpen = Len(persistQ) + Count(persister.pc \in {"persist", "put", "done"})
    /\ deliveryOpen =
        Len(deliveryQ) + Cardinality({w \in Worker : worker[w].pc \in {"wait", "deliver", "done"}})
    /\ pending = Cardinality(heap) + Cardinality(Holding(retrier))

\* No job is lost, done twice or miscounted.
JobsAccounted == TypeOK /\ InOnePlace /\ CountersExact

\* A retry is refused only when RetryCap other alerts are waiting for theirs:
\* the place its own previous retry took has been given back (the test
\* test_retry_handoff_releases_capacity_before_fast_next_attempt).
RefusedOnlyWhenFull ==
    [][\A w \in Worker :
            RetryRefused(w) =>
                Cardinality((heap \cup Holding(retrier)) \ {worker[w].alert}) >= RetryCap]_vars

\* The persistence callback has not answered for the alert.
Unpersisted(a) ==
    \/ producer[a] = "putting"
    \/ Occurrences(persistQ, a) > 0
    \/ persister.pc = "persist" /\ persister.alert = a

Stage ==
    [a \in Alert |->
        IF producer[a] \in {"new", "started"} THEN "new"
        ELSE IF producer[a] = "refused" THEN "refused"
        ELSE IF outcome[a] # "none" THEN outcome[a]
        ELSE IF Unpersisted(a) THEN "accepted" ELSE "persisted"]

Gate == IF running /\ accepting THEN "open" ELSE IF running /\ ~workerStop THEN "closed" ELSE "stopped"

Intake == INSTANCE AlertIntake WITH stage <- Stage, gate <- Gate

\* The pipeline implements AlertIntake: in particular, workers are told to
\* stop only after every admitted alert was persisted or lost for good.
KeepsIntake == Intake!ISpec

\* "Polling workers stop only after every accepted job has drained"
\* (alert_pipeline.py:370).
StoppedOnlyWhenDrained ==
    workerStop => \A a \in Alert : Stage[a] \notin {"accepted", "persisted"}

\* Every admitted producer gets its alert into the store, or learns that it
\* failed, also while shutdown() waits; and every persisted alert is settled
\* unless the workers were told to stop.
AlertsSettle ==
    \A a \in Alert :
        /\ Stage[a] = "accepted" ~> Stage[a] # "accepted"
        /\ Stage[a] = "persisted" ~> Stage[a] # "persisted" \/ workerStop

=============================================================================
