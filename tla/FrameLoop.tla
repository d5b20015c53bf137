------------------------------ MODULE FrameLoop ------------------------------
(***************************************************************************)
(* The loop of one camera worker (video_processing.py,                     *)
(* _video_processor_loop): it connects to the source, reads frames, hands  *)
(* some of them to inference and observes the results.  Inference is the   *)
(* shared scheduler, which runs a call on its own threads and puts the     *)
(* outcome into a mailbox, or, when that is off or not to be had, one      *)
(* thread of this connection.                                              *)
(*                                                                         *)
(* A frame is "cur", of the connection there is, or "old", of an earlier   *)
(* one; frames of one connection are not told apart.  Adaptive cadence     *)
(* and keyframe tracking are off.  Times are left out: a slot of the       *)
(* cadence comes, the last submission grows old, a stability window ends.  *)
(***************************************************************************)
EXTENDS Naturals, FiniteSets

CONSTANTS
    MaxDebt    \* failures after which the reconnect delay grows no more

VARIABLES
    pc,        \* where the loop is
    mode,      \* inference of this connection: "shared", "local", or "none" without one
    slot,      \* the scheduler's latest slot of the camera has a frame
    calls,     \* the scheduler's running calls for the camera, \subseteq {"cur", "old"}
    mail,      \* the outcome in the mailbox
    pending,   \* pending_inference, and the state of its future
    shown,     \* state.camera_detections: whose they are
    window,    \* violation_window and what else alerts are confirmed from: whose frames
    gate,      \* due: now >= next_inference_at; signature: there is one of an observed frame;
               \* recent: it was submitted a short time ago; confirm: alert_confirmation_required
    tracker,   \* CameraConnectionTracker, and reconnect_failures as debt
    allowed,   \* licensing.is_inference_allowed()
    stop       \* stop_event

vars == <<pc, mode, slot, calls, mail, pending, shown, window, gate, tracker, allowed, stop>>
inference == <<slot, calls, mail, pending>>
observation == <<shown, window>>
world == <<allowed, stop>>

Whose == {"none", "cur", "old"}
Outcome == [whose : {"cur", "old"}, ok : BOOLEAN]
NoMail == [whose |-> "none", ok |-> FALSE]

TypeOK ==
    /\ pc \in {"waiting", "reading", "taking", "offering", "leaving", "ended"}
    /\ mode \in {"none", "shared", "local"}
    /\ slot \in Whose
    /\ calls \subseteq {"cur", "old"}
    /\ mail \in Outcome \cup {NoMail}
    /\ pending \in {"none", "queued", "running", "ok", "failed"}
    /\ shown \in Whose
    /\ window \subseteq {"cur", "old"}
    /\ gate \in [due : BOOLEAN, signature : BOOLEAN, recent : BOOLEAN, confirm : BOOLEAN]
    /\ tracker \in [rtsp : BOOLEAN, outage : BOOLEAN, debt : 0 .. MaxDebt,
                    stable : {"none", "started", "elapsed"}]
    /\ allowed \in BOOLEAN /\ stop \in BOOLEAN

NewGate == [due |-> FALSE, signature |-> FALSE, recent |-> FALSE, confirm |-> FALSE]
NewTracker(rtsp) == [rtsp |-> rtsp, outage |-> FALSE, debt |-> 0, stable |-> "none"]

Init ==
    /\ pc = "waiting" /\ mode = "none"
    /\ slot = "none" /\ calls = {} /\ mail = NoMail /\ pending = "none"
    /\ shown = "none" /\ window = {}
    /\ gate = NewGate
    /\ \E rtsp \in BOOLEAN : tracker = NewTracker(rtsp)
    /\ allowed \in BOOLEAN
    /\ stop = FALSE

\* Mutant of Forget: the connection goes, its observations stay.
ForgetShown == shown' = "none" /\ UNCHANGED window

\* _clear_camera_observation and the clearing of the loop's own state.
Forget == shown' = "none" /\ window' = {}

-----------------------------------------------------------------------------
(* The connection.                                                         *)

\* reconnect_failures, and record_failure of the tracker.
Failed(t) ==
    [t EXCEPT !.debt = IF @ < MaxDebt THEN @ + 1 ELSE @,
              !.outage = t.rtsp, !.stable = "none"]

\* record_frame: the first frame opens the stability window, and one after its
\* end forgives the debt of an outage.
Framed(t) ==
    IF ~t.rtsp THEN t
    ELSE IF t.stable = "none" THEN [t EXCEPT !.stable = "started"]
    ELSE IF t.outage /\ t.stable = "elapsed" THEN [t EXCEPT !.outage = FALSE, !.debt = 0]
    ELSE t

OpenFails ==
    /\ pc = "waiting" /\ ~stop
    /\ Forget
    /\ tracker' = Failed(tracker)
    /\ UNCHANGED <<pc, mode, inference, gate, world>>

\* What the scheduler still runs, and what a result says, is now of an earlier connection.
Aged(whose) == IF whose = "cur" THEN "old" ELSE whose

Open(m) ==
    /\ pc = "waiting" /\ ~stop
    /\ m \in {"shared", "local"}
    /\ pc' = "reading"
    /\ mode' = m
    /\ slot' = Aged(slot)
    /\ calls' = {Aged(c) : c \in calls}
    /\ mail' = [mail EXCEPT !.whose = Aged(@)]
    /\ pending' = "none"
    /\ shown' = Aged(shown)
    /\ window' = {Aged(w) : w \in window}
    /\ gate' = NewGate
    /\ UNCHANGED <<tracker, world>>

Read ==
    /\ pc = "reading" /\ allowed /\ ~stop
    /\ pc' = "taking"
    /\ tracker' = Framed(tracker)
    /\ UNCHANGED <<mode, inference, observation, gate, world>>

ReadFails ==
    /\ pc = "reading" /\ allowed /\ ~stop
    /\ pc' = "leaving"
    /\ Forget
    /\ UNCHANGED <<mode, inference, gate, tracker, world>>

StopSeen ==
    /\ pc \in {"reading", "waiting"} /\ stop
    /\ pc' = IF pc = "reading" THEN "leaving" ELSE "ended"
    /\ UNCHANGED <<mode, inference, observation, gate, tracker, world>>

\* unregister: what is queued or in the mailbox goes, what runs goes on.
Unregister ==
    /\ mode = "shared"
    /\ slot' = "none"
    /\ mail' = NoMail
    /\ UNCHANGED <<calls, pending>>

\* _drain_inference_executor: a call that runs is waited for, one that does not is cancelled.
Drain ==
    /\ mode = "local"
    /\ pending # "running"
    /\ pending' = "none"
    /\ UNCHANGED <<slot, calls, mail>>

\* The finally and what follows it: a failure of an RTSP source is one more of the outage.
Leave ==
    /\ pc = "leaving"
    /\ Unregister \/ Drain
    /\ mode' = "none"
    /\ Forget
    /\ pc' = IF stop THEN "ended" ELSE "waiting"
    /\ tracker' = IF ~stop /\ tracker.rtsp THEN Failed(tracker) ELSE tracker
    /\ UNCHANGED <<gate, world>>

\* An exception leaves the loop: the observation of the result raises, or the
\* executor refuses a submission at the shutdown of the interpreter.
Raise ==
    /\ pc \in {"taking", "offering"}
    /\ Unregister \/ Drain
    /\ mode' = "none"
    /\ Forget
    /\ pc' = "ended"
    /\ UNCHANGED <<gate, tracker, world>>

\* Another worker for the camera (CameraLifecycle.tla).
Start ==
    /\ pc = "ended"
    /\ pc' = "waiting"
    /\ stop' = FALSE
    /\ tracker' = NewTracker(tracker.rtsp)
    /\ UNCHANGED <<mode, inference, observation, gate, allowed>>

-----------------------------------------------------------------------------
(* Results.                                                                *)

\* The result of a frame is observed (ViolationIncidents.tla).
Observe(whose, recent, confirm) ==
    /\ shown' = whose
    /\ window' = window \cup {whose}
    /\ gate' = [gate EXCEPT !.signature = TRUE, !.recent = recent, !.confirm = confirm]

Done(ok, whose) ==
    \/ /\ ok
       /\ \E recent, confirm \in BOOLEAN : Observe(whose, recent, confirm)
    \/ /\ ~ok
       /\ UNCHANGED <<observation, gate>>

TakeResult ==
    /\ pc = "taking" /\ mode = "shared" /\ mail # NoMail
    /\ Done(mail.ok, mail.whose)
    /\ mail' = NoMail
    /\ pc' = "offering"
    /\ UNCHANGED <<mode, slot, calls, pending, tracker, world>>

\* Mutant of Settled: the future of a failed call stays pending.
SettledIfOk == IF pending = "ok" THEN "none" ELSE pending

Settled == "none"

TakePending ==
    /\ pc = "taking" /\ mode = "local" /\ pending \in {"ok", "failed"}
    /\ Done(pending = "ok", "cur")
    /\ pending' = Settled
    /\ pc' = "offering"
    /\ UNCHANGED <<mode, slot, calls, mail, tracker, world>>

TakeNothing ==
    /\ pc = "taking"
    /\ IF mode = "shared" THEN mail = NoMail ELSE pending \in {"none", "queued", "running"}
    /\ pc' = "offering"
    /\ UNCHANGED <<mode, inference, observation, gate, tracker, world>>

-----------------------------------------------------------------------------
(* Which frames are handed to inference.                                   *)

Available == mode = "shared" \/ pending = "none"

\* Not due, or due while the thread of the connection is busy.
Pass ==
    /\ pc = "offering"
    /\ ~gate.due \/ ~Available
    /\ pc' = "reading"
    /\ UNCHANGED <<mode, inference, observation, gate, tracker, world>>

\* _motion_adaptive_inference_decision: nothing moved.
MaySkip == ~gate.confirm /\ gate.signature /\ gate.recent
Skip ==
    /\ pc = "offering" /\ gate.due /\ Available
    /\ MaySkip
    /\ gate' = [gate EXCEPT !.due = FALSE]
    /\ pc' = "reading"
    /\ UNCHANGED <<mode, inference, observation, tracker, world>>

Submits ==
    /\ pc = "offering" /\ gate.due /\ Available
    /\ gate' = [gate EXCEPT !.due = FALSE]
    /\ pc' = "reading"
    /\ UNCHANGED <<mode, calls, mail, observation, tracker, world>>

\* The frame takes the slot, whatever was in it, ...
Offer == mode = "shared" /\ Submits /\ slot' = "cur" /\ UNCHANGED pending
\* ... or is too old, or the scheduler does not run: the frame is dropped.
OfferRefused == mode = "shared" /\ Submits /\ UNCHANGED <<slot, pending>>
Submit == mode = "local" /\ Submits /\ pending' = "queued" /\ UNCHANGED slot

-----------------------------------------------------------------------------
(* Inference.                                                              *)

Dispatch ==
    /\ slot # "none" /\ mode = "shared"
    /\ "cur" \notin calls /\ mail = NoMail
    /\ calls' = calls \cup {slot}
    /\ slot' = "none"
    /\ UNCHANGED <<pc, mode, mail, pending, observation, gate, tracker, world>>

Expire ==
    /\ slot # "none"
    /\ slot' = "none"
    /\ UNCHANGED <<pc, mode, calls, mail, pending, observation, gate, tracker, world>>

\* The registration a call was made for may be gone: then nobody hears of it.
Fenced(whose) == whose = "old" \/ mode # "shared"
CallEnds(whose, ok) ==
    /\ whose \in calls
    /\ calls' = calls \ {whose}
    /\ mail' = IF Fenced(whose) THEN mail ELSE [whose |-> whose, ok |-> ok]
    /\ UNCHANGED <<pc, mode, slot, pending, observation, gate, tracker, world>>

\* The result is too old when it is complete.
CallExpires(whose) ==
    /\ whose \in calls
    /\ calls' = calls \ {whose}
    /\ UNCHANGED <<pc, mode, slot, mail, pending, observation, gate, tracker, world>>

ThreadRuns ==
    /\ pending = "queued"
    /\ pending' = "running"
    /\ UNCHANGED <<pc, mode, slot, calls, mail, observation, gate, tracker, world>>

ThreadEnds(ok) ==
    /\ pending = "running"
    /\ pending' = IF ok THEN "ok" ELSE "failed"
    /\ UNCHANGED <<pc, mode, slot, calls, mail, observation, gate, tracker, world>>

-----------------------------------------------------------------------------
(* Time and the world.                                                     *)

SlotComes ==
    /\ ~gate.due
    /\ gate' = [gate EXCEPT !.due = TRUE]
    /\ UNCHANGED <<pc, mode, inference, observation, tracker, world>>

GrowsOld ==
    /\ gate.recent
    /\ gate' = [gate EXCEPT !.recent = FALSE]
    /\ UNCHANGED <<pc, mode, inference, observation, tracker, world>>

WindowEnds ==
    /\ tracker.stable = "started"
    /\ tracker' = [tracker EXCEPT !.stable = "elapsed"]
    /\ UNCHANGED <<pc, mode, inference, observation, gate, world>>

Licence ==
    /\ allowed' = ~allowed
    /\ UNCHANGED <<pc, mode, inference, observation, gate, tracker, stop>>

Stop ==
    /\ ~stop /\ pc # "ended"
    /\ stop' = TRUE
    /\ UNCHANGED <<pc, mode, inference, observation, gate, tracker, allowed>>

Next ==
    \/ OpenFails \/ (\E m \in {"shared", "local"} : Open(m))
    \/ Read \/ ReadFails \/ StopSeen \/ Leave \/ Raise \/ Start
    \/ TakeResult \/ TakePending \/ TakeNothing
    \/ Pass \/ Skip \/ Offer \/ OfferRefused \/ Submit
    \/ Dispatch \/ Expire \/ ThreadRuns
    \/ \E whose \in {"cur", "old"} :
        CallExpires(whose) \/ \E ok \in BOOLEAN : CallEnds(whose, ok)
    \/ \E ok \in BOOLEAN : ThreadEnds(ok)
    \/ SlotComes \/ GrowsOld \/ WindowEnds \/ Licence \/ Stop

Spec == Init /\ [][Next]_vars

\* The loop goes on, also after a worker's end; calls end; the scheduler serves
\* its cameras (InferenceFairness.tla); time goes on.
LoopGoes ==
    \/ OpenFails \/ (\E m \in {"shared", "local"} : Open(m))
    \/ Read \/ ReadFails \/ StopSeen \/ Leave \/ Start
    \/ TakeResult \/ TakePending \/ TakeNothing
    \/ Pass \/ Skip \/ Offer \/ OfferRefused \/ Submit
CallGoes == \E whose \in {"cur", "old"} : CallExpires(whose) \/ \E ok \in BOOLEAN : CallEnds(whose, ok)
ThreadGoes == ThreadRuns \/ \E ok \in BOOLEAN : ThreadEnds(ok)

Fairness ==
    /\ WF_vars(LoopGoes) /\ WF_vars(CallGoes) /\ WF_vars(ThreadGoes)
    /\ WF_vars(Dispatch)
    /\ WF_vars(SlotComes) /\ WF_vars(GrowsOld) /\ WF_vars(WindowEnds)

FairSpec == Spec /\ Fairness

-----------------------------------------------------------------------------
\* What is shown and what alerts are confirmed from is of the connection there
\* is, though the scheduler may still run frames of earlier ones; a source that
\* is gone shows nothing; "Prevent reconnects from leaving an uncancellable
\* inference job behind"; and the reconnect delay grows exactly during an outage.
ObservationsCurrent ==
    /\ shown # "old" /\ "old" \notin window
    /\ slot # "old" /\ mail.whose # "old"
    /\ pc \in {"waiting", "ended"} => /\ shown = "none" /\ window = {}
                                      /\ pending = "none" /\ slot = "none" /\ mail = NoMail
    /\ mode = "local" => slot = "none" /\ mail = NoMail
    /\ tracker.rtsp => (tracker.outage <=> tracker.debt > 0)

\* Neither the cadence, nor the skipping of frames without motion, nor a call
\* that failed keeps a camera from being observed again and again, once it
\* delivers frames, inference is allowed and no more calls fail or are dropped.
Disturbs ==
    \/ OpenFails \/ ReadFails \/ Raise \/ Stop \/ OfferRefused \/ Expire \/ ThreadEnds(FALSE)
    \/ \E whose \in {"cur", "old"} : CallExpires(whose) \/ CallEnds(whose, FALSE)
Observes ==
    \/ TakeResult /\ mail.ok
    \/ TakePending /\ pending = "ok"
ObservedAgain == (<>[][~Disturbs]_vars /\ <>[]allowed) => []<><<Observes>>_vars
=============================================================================
