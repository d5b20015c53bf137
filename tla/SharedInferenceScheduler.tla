---------------------- MODULE SharedInferenceScheduler ----------------------
(***************************************************************************)
(* shared_inference_scheduler.SharedInferenceScheduler: one latest-frame   *)
(* slot and one result mailbox per camera, a scheduler thread, a pool of   *)
(* workers, and a thread that calls stop().                                *)
(*                                                                         *)
(* A call with another owner's token, and an offer that is stale or out of *)
(* order, changes nothing but statistics, so no action stands for it.  A   *)
(* registration is its generation number; the token adds nothing to it.    *)
(* Waits and lifetimes are counted in ticks.                               *)
(***************************************************************************)
EXTENDS DispatchPolicy

CONSTANTS
    Camera,
    MaxWorkers,       \* of the pool
    Lifetimes,        \* ticks until an offered frame expires, or Never
    MaxSequence,      \* bound on the sequence numbers of a registration
    MaxRegistrations, \* bound on registrations
    None

ASSUME SchedulerAssumption ==
    /\ IsFiniteSet(Camera)
    /\ MaxWorkers \in Nat /\ MaxWorkers >= 4
    /\ Lifetimes \subseteq (Nat \ {0}) \cup {Never}
    /\ MaxSequence \in Nat
    /\ MaxRegistrations \in Nat

Profile == DOMAIN BatchLimit
Left == Nat \cup {Never}
Work == [seq : 1 .. MaxSequence, urgent : BOOLEAN, profile : Profile,
         waited : 0 .. SingletonWait, left : Left]
Answer == [seq : 1 .. MaxSequence, life : 1 .. MaxRegistrations]
Call == [camera : Camera, reg : 1 .. MaxRegistrations, seq : 1 .. MaxSequence, left : Left,
         pc : {"pending", "running", "stale", "late", "done"}]

ASSUME NoneAssumption == None \notin Work \cup Answer

VARIABLES
    phase,     \* _running, _accepting, _closing and _closed
    stopper,   \* where stop() is
    sched,     \* the scheduler thread
    wake,      \* ticks until its wait times out
    reg,       \* registration_id of each camera, 0 when not registered
    nextReg,   \* _next_registration_id
    queued, inflight, completed, last,  \* of each camera's _CameraState
    calls,     \* dispatches whose completion is not recorded yet
    total,     \* _total_inflight
    cursor,    \* _fair_cursor
    streak,    \* _urgent_batch_streak
    accounted  \* work accepted, less what was replaced, taken or reported as dropped

threadVars == <<phase, stopper>>
waitVars == <<sched, wake>>
cameraVars == <<reg, nextReg>>
pickVars == <<cursor, streak>>
vars == <<phase, stopper, sched, wake, reg, nextReg, queued, inflight, completed, last,
          calls, total, cursor, streak, accounted>>

\* The places of the registered cameras in the order of their registrations.
Registered == {c \in Camera : reg[c] # 0}
Count == Cardinality(Registered)
Place == [c \in Registered |-> Cardinality({d \in Registered : reg[d] < reg[c]})]

TypeOK ==
    /\ phase \in {"new", "open", "closing", "closed"}
    /\ stopper \in {"idle", "join", "drain"}
    /\ sched \in {"off", "awake", "asleep"}
    /\ wake \in Left
    /\ reg \in [Camera -> 0 .. MaxRegistrations]
    /\ nextReg \in 1 .. MaxRegistrations + 1
    /\ queued \in [Camera -> Work \cup {None}]
    /\ inflight \in [Camera -> 0 .. MaxSequence]
    /\ completed \in [Camera -> Answer \cup {None}]
    /\ last \in [Camera -> 0 .. MaxSequence]
    /\ calls \subseteq Call
    /\ total \in 0 .. MaxWorkers
    /\ cursor \in Nat /\ (cursor = 0 \/ cursor < Count)
    /\ streak \in 0 .. UrgentBurst
    /\ accounted \in Nat

Init ==
    /\ phase = "new" /\ stopper = "idle"
    /\ sched = "off" /\ wake = Never
    /\ reg = [c \in Camera |-> 0] /\ nextReg = 1
    /\ queued = [c \in Camera |-> None]
    /\ inflight = [c \in Camera |-> 0]
    /\ completed = [c \in Camera |-> None]
    /\ last = [c \in Camera |-> 0]
    /\ calls = {} /\ total = 0
    /\ cursor = 0 /\ streak = 0
    /\ accounted = 0

-----------------------------------------------------------------------------
Held(slot) == IF slot = None THEN 0 ELSE 1
Holds(slots) == Cardinality({c \in Camera : slots[c] # None})
Expired(work) == work.left = 0
OneTickLess(left) == IF left \in {0, Never} THEN left ELSE left - 1

\* notify_all() under the lock: a sleeping scheduler looks again.
Notify ==
    /\ sched' = IF sched = "asleep" THEN "awake" ELSE sched
    /\ wake' = Never

(* Cameras. *)

Start ==
    /\ phase = "new"
    /\ phase' = "open"
    /\ sched' = "awake"
    /\ UNCHANGED <<stopper, wake, cameraVars, queued, inflight, completed, last, calls, total,
                   pickVars, accounted>>

Register(c) ==
    /\ phase = "open"
    /\ reg[c] = 0
    /\ nextReg <= MaxRegistrations
    /\ reg' = [reg EXCEPT ![c] = nextReg]
    /\ nextReg' = nextReg + 1
    /\ Notify
    /\ UNCHANGED <<threadVars, queued, inflight, completed, last, calls, total, pickVars, accounted>>

\* Fences the registration and reports what it had in its slot and mailbox.
Unregister(c) ==
    /\ reg[c] # 0
    /\ reg' = [reg EXCEPT ![c] = 0]
    /\ queued' = [queued EXCEPT ![c] = None]
    /\ inflight' = [inflight EXCEPT ![c] = 0]
    /\ completed' = [completed EXCEPT ![c] = None]
    /\ last' = [last EXCEPT ![c] = 0]
    /\ cursor' = IF Count > 1 THEN cursor % (Count - 1) ELSE 0
    /\ accounted' = accounted - Held(queued[c]) - Held(completed[c])
    /\ Notify
    /\ UNCHANGED <<threadVars, nextReg, calls, total, streak>>

\* The newest frame takes the slot and inherits the urgency of the one there.
Offer(c, work) ==
    /\ phase = "open"
    /\ reg[c] # 0
    /\ ~Expired(work)
    /\ work.seq > last[c]
    /\ LET inherits == queued[c] # None /\ queued[c].urgent
       IN  queued' = [queued EXCEPT ![c] = [work EXCEPT !.urgent = work.urgent \/ inherits]]
    /\ last' = [last EXCEPT ![c] = work.seq]
    /\ accounted' = IF queued[c] = None THEN accounted + 1 ELSE accounted
    /\ Notify
    /\ UNCHANGED <<threadVars, cameraVars, inflight, completed, calls, total, pickVars>>

\* Mutant of TakeResult: the scheduler is not told that the mailbox is empty.
TakeSilently(c) ==
    /\ reg[c] # 0
    /\ completed[c] # None
    /\ completed' = [completed EXCEPT ![c] = None]
    /\ accounted' = accounted - 1
    /\ UNCHANGED <<threadVars, waitVars, cameraVars, queued, inflight, last, calls, total, pickVars>>

TakeResult(c) ==
    /\ reg[c] # 0
    /\ completed[c] # None
    /\ completed' = [completed EXCEPT ![c] = None]
    /\ accounted' = accounted - 1
    /\ Notify
    /\ UNCHANGED <<threadVars, cameraVars, queued, inflight, last, calls, total, pickVars>>

-----------------------------------------------------------------------------
(* The scheduler thread: one pass of its loop is one step. *)

Fresh == [c \in Camera |-> IF queued[c] # None /\ Expired(queued[c]) THEN None ELSE queued[c]]
Ready(slots) == {c \in Camera : slots[c] # None /\ inflight[c] = 0 /\ completed[c] = None}
Capacity == MaxWorkers - total
Due == Choices(Place, Count, cursor, streak, Fresh, Ready(Fresh), Capacity)
Looks == sched = "awake" \/ (sched = "asleep" /\ wake = 0)

SchedulerExits ==
    /\ Looks
    /\ phase \in {"closing", "closed"}
    /\ sched' = "off"
    /\ wake' = Never
    /\ UNCHANGED <<threadVars, cameraVars, queued, inflight, completed, last, calls, total, pickVars,
                   accounted>>

\* Expired frames are dropped and reported; nothing is due, so it waits.
SchedulerSleeps ==
    /\ Looks
    /\ phase = "open"
    /\ Due = {}
    /\ queued' = Fresh
    /\ accounted' = accounted - (Holds(queued) - Holds(Fresh))
    /\ sched' = "asleep"
    /\ wake' = WakeDelay(Fresh, {c \in Camera : Fresh[c] # None}, Ready(Fresh), Capacity)
    /\ UNCHANGED <<threadVars, cameraVars, inflight, completed, last, calls, total, pickVars>>

\* ... or a batch goes to the pool.
SchedulerDispatches ==
    /\ Looks
    /\ phase = "open"
    /\ \E choice \in Due :
        /\ queued' = [c \in Camera |-> IF c \in choice.batch THEN None ELSE Fresh[c]]
        /\ inflight' = [c \in Camera |-> IF c \in choice.batch THEN Fresh[c].seq ELSE inflight[c]]
        /\ calls' = calls \cup {[camera |-> c, reg |-> reg[c], seq |-> Fresh[c].seq,
                                 left |-> Fresh[c].left, pc |-> "pending"] : c \in choice.batch}
        /\ total' = total + Cardinality(choice.batch)
        /\ \E c \in LastOf(Place, Count, choice) : cursor' = CursorAfter(Place, Count, c)
        /\ streak' = choice.streak
    /\ accounted' = accounted - (Holds(queued) - Holds(Fresh))
    /\ sched' = "awake"
    /\ wake' = Never
    /\ UNCHANGED <<threadVars, cameraVars, completed, last>>

-----------------------------------------------------------------------------
(* The pool. *)

Moves(d, to) ==
    /\ calls' = (calls \ {d}) \cup {[d EXCEPT !.pc = to]}
    /\ UNCHANGED <<threadVars, waitVars, cameraVars, queued, inflight, completed, last, total,
                   pickVars, accounted>>

\* _execute: a frame that expired while it waited for a worker is not run.
StartCall(d) == d.pc = "pending" /\ Moves(d, IF Expired(d) THEN "stale" ELSE "running")

\* The answer, or the exception, is stamped with the time the call ended.
EndCall(d) == d.pc = "running" /\ Moves(d, IF Expired(d) THEN "late" ELSE "done")

\* submit() raises, or the future is cancelled: an outcome with an error.
CallFails(d) == d.pc = "pending" /\ Moves(d, IF Expired(d) THEN "late" ELSE "done")

\* Mutant of Current: a dispatch is known by its sequence number.
CurrentBySequence(d) == inflight[d.camera] = d.seq

\* The dispatch still belongs to the camera's registration.
Current(d) == reg[d.camera] = d.reg /\ inflight[d.camera] = d.seq

\* Mutant of Dropped: only fenced completions are reported.
DroppedFenced(d) == ~Current(d)

\* The completion leaves no answer, and the drop observer hears of it.
Dropped(d) == ~Current(d) \/ d.pc # "done"

\* Mutant of Complete: a fenced completion keeps its place in the pool.
CompleteLeaking(d) ==
    /\ d.pc \in {"stale", "late", "done"}
    /\ calls' = calls \ {d}
    /\ total' = IF Current(d) THEN total - 1 ELSE total
    /\ inflight' = IF Current(d) THEN [inflight EXCEPT ![d.camera] = 0] ELSE inflight
    /\ completed' = IF Current(d) /\ d.pc = "done"
                    THEN [completed EXCEPT ![d.camera] = [seq |-> d.seq, life |-> d.reg]]
                    ELSE completed
    /\ accounted' = IF Dropped(d) THEN accounted - 1 ELSE accounted
    /\ Notify
    /\ UNCHANGED <<threadVars, cameraVars, queued, last, pickVars>>

\* _complete_execution: frees the worker, publishes an answer that is still
\* wanted.
Complete(d) ==
    /\ d.pc \in {"stale", "late", "done"}
    /\ calls' = calls \ {d}
    /\ total' = total - 1
    /\ inflight' = IF Current(d) THEN [inflight EXCEPT ![d.camera] = 0] ELSE inflight
    /\ completed' = IF Current(d) /\ d.pc = "done"
                    THEN [completed EXCEPT ![d.camera] = [seq |-> d.seq, life |-> d.reg]]
                    ELSE completed
    /\ accounted' = IF Dropped(d) THEN accounted - 1 ELSE accounted
    /\ Notify
    /\ UNCHANGED <<threadVars, cameraVars, queued, last, pickVars>>

-----------------------------------------------------------------------------
(* stop(). *)

StopUnstarted ==
    /\ phase = "new"
    /\ phase' = "closed"
    /\ UNCHANGED <<stopper, waitVars, cameraVars, queued, inflight, completed, last, calls, total,
                   pickVars, accounted>>

StopBegins ==
    /\ stopper = "idle"
    /\ phase \in {"open", "closing"}
    /\ phase' = "closing"
    /\ stopper' = "join"
    /\ queued' = [c \in Camera |-> None]
    /\ accounted' = accounted - Holds(queued)
    /\ Notify
    /\ UNCHANGED <<cameraVars, inflight, completed, last, calls, total, pickVars>>

\* The scheduler thread has not ended in time: stop() returns False.
StopTimesOut ==
    /\ stopper = "join"
    /\ sched # "off"
    /\ stopper' = "idle"
    /\ UNCHANGED <<phase, waitVars, cameraVars, queued, inflight, completed, last, calls, total,
                   pickVars, accounted>>

StopJoins ==
    /\ stopper = "join"
    /\ sched = "off"
    /\ stopper' = "drain"
    /\ UNCHANGED <<phase, waitVars, cameraVars, queued, inflight, completed, last, calls, total,
                   pickVars, accounted>>

\* No call is in flight, or the time is up: the pool is shut down either way.
StopEnds ==
    /\ stopper = "drain"
    /\ stopper' = "idle"
    /\ phase' = "closed"
    /\ Notify
    /\ UNCHANGED <<cameraVars, queued, inflight, completed, last, calls, total, pickVars, accounted>>

-----------------------------------------------------------------------------
Tick ==
    /\ queued' = [c \in Camera |->
                    IF queued[c] = None THEN None
                    ELSE [queued[c] EXCEPT !.left   = OneTickLess(@),
                                           !.waited = IF @ < SingletonWait THEN @ + 1 ELSE @]]
    /\ calls' = {IF d.pc \in {"pending", "running"} THEN [d EXCEPT !.left = OneTickLess(@)] ELSE d :
                    d \in calls}
    /\ wake' = OneTickLess(wake)
    /\ UNCHANGED <<threadVars, sched, cameraVars, inflight, completed, last, total, pickVars, accounted>>

Offered == [seq : 1 .. MaxSequence, urgent : BOOLEAN, profile : Profile, waited : {0}, left : Lifetimes]

CameraStep(c) == Register(c) \/ Unregister(c) \/ TakeResult(c) \/ \E work \in Offered : Offer(c, work)
SchedulerStep == SchedulerExits \/ SchedulerSleeps \/ SchedulerDispatches
CallStep(d) == StartCall(d) \/ EndCall(d) \/ CallFails(d) \/ Complete(d)
StopperStep == StopUnstarted \/ StopBegins \/ StopTimesOut \/ StopJoins \/ StopEnds

Next ==
    \/ Start
    \/ \E c \in Camera : CameraStep(c)
    \/ SchedulerStep
    \/ \E d \in calls : CallStep(d)
    \/ StopperStep
    \/ Tick

Spec == Init /\ [][Next]_vars

-----------------------------------------------------------------------------
(* Properties. *)

\* The pool's counter is exact and within the pool, also after cameras came
\* and went while their calls were running.
SlotsExact == total = Cardinality(calls) /\ total <= MaxWorkers

\* Every accepted frame is in a slot, in the pool or in a mailbox, until it is
\* replaced, taken or reported to the drop observer, once.
WorkAccounted == accounted = Holds(queued) + Cardinality(calls) + Holds(completed)

\* A sleeping scheduler has nothing it could dispatch or drop: no change of
\* state that makes work due forgets to wake it, and its timer is not too long.
NeverOversleeps ==
    sched = "asleep" /\ wake # 0 /\ phase = "open" => Due = {} /\ Fresh = queued

Asked == [c \in Camera |-> ({inflight[c]} \ {0}) \cup (IF queued[c] = None THEN {} ELSE {queued[c].seq})]

Promise == INSTANCE InferencePromise
    WITH NoAnswer <- None, opened <- nextReg - 1, life <- reg, asked <- Asked, answer <- completed

\* The scheduler implements InferencePromise: answers of an old registration
\* never reach a new one, and none overwrites, overtakes or repeats another.
KeepsPromise == Promise!PSpec

=============================================================================
