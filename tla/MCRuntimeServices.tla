-------------------------- MODULE MCRuntimeServices --------------------------
(***************************************************************************)
(* Values for the constants of RuntimeServices.  The components share no   *)
(* state, so that a behaviour in which one of them moves, alone, shows     *)
(* what the interleavings would: subject says which one, and in what       *)
(* scope where it has two.  The delivery outbox is there for its liveness. *)
(***************************************************************************)
EXTENDS RuntimeServices, TLC

CONSTANTS
    vest, fall, supervisor,      \* two rules of a camera and a policy
    b1, b2, b3,                  \* inference threads
    c1, c2,                      \* cameras
    x1, x2,                      \* viewers
    a1, a2, t1, t2,              \* alerts and delivery targets
    m1, m2, f1, f2,              \* models and their files
    p1, p2, s1, telegram, NoToken, NoTarget,
    e1, r1, r2, r3               \* a request and readers of the configuration

VARIABLES subject, alert, outbox, backfill, delivery, up, claimer, workers, dispatch, inflight, accepted, outages, replays

deliveryVars == <<alert, outbox, backfill, delivery, up, claimer, workers, dispatch, inflight, accepted, outages, replays>>
MCVars == <<vars, deliveryVars, subject>>

-----------------------------------------------------------------------------
(* The values.                                                             *)

\* Two rules that share a policy, and two of which one needs no policy.
MCNeeds(what, matching) == [kind |-> what, matching |-> matching]
MCSetup ==
    { (vest :> MCNeeds("ppe", {supervisor})) @@ (fall :> MCNeeds("zone", {supervisor})),
      (vest :> MCNeeds("phone", {})) @@ (fall :> MCNeeds("fall", {supervisor})) }
MCOrder == (vest :> 1) @@ (fall :> 2)
MCThreshold == [r \in {vest, fall} |-> 2]

\* Two models of which one is loaded lazily, and an old copy of its file.
MCAssetOf == (m1 :> f1) @@ (m2 :> f2)

\* Two processes of which one edits the configuration; one has two readers.
MCEditorOf == e1 :> p1
MCReaderOf == (r1 :> p1) @@ (r2 :> p2) @@ (r3 :> p1)

\* One escalation through retries, a replay, a crash or a stop.
Delivery == INSTANCE AlertDeliveryWorker WITH
    MaxAttempts <- 2, LeaseTicks <- 1, Lifetime <- 2, MaxDelay <- 1, AgingTicks <- 1, LowestPriority <- 1,
    Proc <- {p1}, Slot <- {s1}, Owner <- (s1 :> p1), Target <- {t1}, Alert <- {a1}, AlertOf <- (t1 :> a1),
    KindOf <- (t1 :> "escalation"), Channel <- {telegram}, ChannelOf <- (t1 :> telegram),
    PriorityOf <- (t1 :> 1), DelayOf <- (t1 :> 1), Legacy <- {}, ChannelLimit <- (telegram :> 1),
    Workers <- 1, RetryDelays <- {0}, RetryAfters <- {1}, RetryBase <- 0, MaxOutages <- 1, MaxReplays <- 1,
    job <- delivery

-----------------------------------------------------------------------------
(* The behaviours.  What does not move begins in one of its initial states. *)

MCInit ==
    /\ Init /\ Delivery!Init
    /\ subject \in {"frames", "catalog", "shared", "local", "installer", "companion", "companions",
                    "grouped", "phone", "violations", "viewers", "rewatched", "timing", "delivery"}
    /\ subject # "frames" => allowed /\ ~tracker.rtsp
    /\ kind = IF subject = "phone" THEN "phone" ELSE "grouped"
    /\ subject \notin {"grouped", "phone"} => serves = {}
    /\ subject = "grouped" => serves # {FullSize}
    /\ subject # "violations" => hot = {} /\ setup = CHOOSE s \in MCSetup : TRUE

\* A step of a subject.
Lookup(A) == subject = "catalog" /\ A /\ UNCHANGED <<BesideCatalog, deliveryVars, subject>>
Timed(A) == subject = "timing" /\ A /\ UNCHANGED <<BesideTiming, deliveryVars, subject>>
Sending(A) == subject = "delivery" /\ A /\ UNCHANGED <<vars, subject>>

\* An RTSP source, whose outages are tracked, with a thread of its own for inference, or
\* another source with the scheduler too.
Frame(A) ==
    /\ subject = "frames" /\ A
    /\ tracker.rtsp => mode' # "shared"
    /\ UNCHANGED <<BesideFrames, deliveryVars, subject>>

\* Installations that take the files of their models in one order.
Job(A) ==
    /\ subject = "installer" /\ A
    /\ \A j \in DOMAIN job' : job'[j].asset = f2 => f1 \notin job'[j].left
    /\ UNCHANGED <<BesideInstaller, deliveryVars, subject>>

\* Frames for which the models run that one of the two rules needs.
Incident(A) ==
    /\ subject = "violations" /\ A
    /\ plan'.ppe => setup[vest].kind = "ppe"
    /\ plan'.fall => setup[fall].kind = "fall"
    /\ UNCHANGED <<BesideViolations, deliveryVars, subject>>

\* Both processes and no failures, or one with two readers that refresh concurrently.
Configuration(A) ==
    /\ subject \in {"shared", "local"} /\ A
    /\ subject = "shared" => faults' = 0 /\ refresh'[r3].pc = "idle"
    /\ subject = "local" => ~due'[p2] /\ version'[p2] = version[p2]
    /\ UNCHANGED <<BesideConfig, deliveryVars, subject>>

\* One camera whose companion is started again, or two that compete for the queue: c1 is
\* the first, the companion of c2 stays and the provider answers.  A provider that fails and
\* many alerts are each a case of their own.
Judging(A) ==
    /\ subject \in {"companion", "companions"} /\ A
    /\ subject = "companion" => companion'[c2].stage = "off" /\ (failures' = 0 \/ Len(submissions') <= 1)
    /\ subject = "companions" =>
        /\ companion'[c1].generation = 1
        /\ companion'[c2].generation <= 1 /\ companion'[c2].stage # "leaving"
        /\ Len(submissions') <= 2 /\ failures' = 0
    /\ UNCHANGED <<BesideVlm, deliveryVars, subject>>

\* Threads of which two may want a pair and the third all models, and a server that serves
\* the larger batches only with the smaller; or threads that want phones.
Batching(A) ==
    /\ subject \in {"grouped", "phone"} /\ A
    /\ \A c \in Caller : call'[c].hint # IF subject = "phone" THEN "pair" ELSE "single"
    /\ subject = "grouped" => call'[b3].hint # "pair" /\ serves' # {FullSize}
    /\ UNCHANGED <<BesideBatch, deliveryVars, subject>>

\* Viewers of one channel, or of a camera that is deleted and created again; there the loop
\* of one of them may close under it.
Viewing(A) ==
    /\ subject \in {"viewers", "rewatched"} /\ A
    /\ subject = "viewers" => ~channel'[1].retired
    /\ subject = "rewatched" =>
        /\ viewer'[x2].pc # "lost"
        /\ \A n \in 1 .. 2 : channel'[n].sequence <= IF channel'[n].retired THEN 2 ELSE 1
    /\ UNCHANGED <<BesideFanout, deliveryVars, subject>>

MCNext ==
    \/ Frame(Frames!Next) \/ Lookup(Catalog!Next) \/ Configuration(Config!Next) \/ Job(Installer!Next)
    \/ Judging(Vlm!Next) \/ Batching(Batch!Next) \/ Incident(Violations!Next) \/ Viewing(Fanout!Next)
    \/ Timed(Timing!Next) \/ Sending(Delivery!Next)

\* What the subject may change, where its module states a fairness.
own ==
    CASE subject = "grouped" \/ subject = "phone" -> batchVars
      [] subject = "viewers" \/ subject = "rewatched" -> fanoutVars
      [] subject = "violations" -> violationsVars
      [] subject = "frames" -> framesVars
      [] subject = "delivery" -> deliveryVars
      [] subject = "shared" \/ subject = "local" -> configVars
      [] OTHER -> subject

\* The fairness that the modules state, of the steps of the subject.  One subject is all
\* there is to a behaviour, so that each condition serves every subject.
Turn(batching, viewing, analysis, loop, sending, storing) ==
    /\ CASE subject = "grouped" \/ subject = "phone" -> batching
         [] subject = "viewers" \/ subject = "rewatched" -> viewing
         [] subject = "violations" -> analysis
         [] subject = "frames" -> loop
         [] subject = "delivery" -> sending
         [] subject = "shared" \/ subject = "local" -> storing
         [] OTHER -> FALSE
    /\ UNCHANGED subject

Fairness ==
    /\ WF_own(Turn(Batch!Ends(b1), Fanout!Wake(x1), \E p \in Violations!Plan : Violations!Frame(p),
                   Frames!LoopGoes, Delivery!Tick, Config!RequestStep(e1)))
    /\ WF_own(Turn(Batch!Ends(b2), Fanout!Wake(x2), \E r \in {vest, fall} : Violations!Candidate(r),
                   Frames!CallGoes, Delivery!EndOfSlot(s1), Config!RefreshStep(r1)))
    /\ WF_own(Turn(Batch!Ends(b3), Fanout!RunPosted(x1), Violations!CloseFrame, Frames!ThreadGoes,
                   Delivery!ClaimerStep(p1), Config!RefreshStep(IF subject = "shared" THEN r2 ELSE r3)))
    /\ WF_own(Turn(FALSE, Fanout!RunPosted(x2), Violations!Lapse(vest), Frames!Dispatch,
                   Delivery!WorkerStep(p1), Config!IntervalEnds(p1)))
    /\ WF_own(Turn(FALSE, Fanout!Looks(x1), Violations!Lapse(fall), Frames!SlotComes,
                   Delivery!Stopped(p1), subject = "shared" /\ Config!IntervalEnds(p2)))
    /\ WF_own(Turn(FALSE, Fanout!Looks(x2), Violations!Lapse(supervisor), Frames!GrowsOld,
                   Delivery!Start(p1), FALSE))
    /\ WF_own(Turn(FALSE, FALSE, FALSE, Frames!WindowEnds, FALSE, FALSE))

MCSpec == MCInit /\ [][MCNext]_MCVars /\ Fairness

-----------------------------------------------------------------------------
(* The liveness of the components, as their modules state and explain it.  *)

\* FrameBatcher: every submitted frame comes back to its caller.
CallersReturn == \A c \in {b1, b2, b3} : []<>Batch!Returned(c)

\* MjpegFanout: every viewer comes to show the newest frame, or ends.
ViewersCatchUp == \A x \in {x1, x2} : []<>Fanout!Abreast(x)

\* ViolationIncidents: a violation that lasts is alerted again and again.
SustainedAlerts ==
    \A r \in {vest, fall} :
        (/\ <>[][subject = "violations" /\ ~Violations!Interrupted(r)]_own
         /\ []<><<subject = "violations" /\ Violations!Sighted(r)>>_own)
            => []<><<subject = "violations" /\ Violations!Alerted(r)>>_own

\* AlertDeliveryWorker: an orderly stop ends or has stranded its last delivery, and no
\* pending delivery is stranded if the processes that are told to stop end.
DeliveriesSettle ==
    /\ []<>(Delivery!HasStopped(p1) \/ Delivery!Stranded(p1))
    /\ []<>Delivery!HasStopped(p1) => []<>Delivery!Settles(t1)

\* FrameLoop: a camera that delivers frames is observed again and again.
ObservedAgain ==
    (/\ <>[][subject = "frames" /\ ~Frames!Disturbs]_own
     /\ <>[](subject = "frames" /\ allowed))
        => []<><<subject = "frames" /\ Frames!Observes>>_own

\* ConfigStore: no process stays with another configuration than the stored one.
CachesCatchUp == \A p \in {p1, p2} : <>[](subject = "local" => p = p1) => <>[]Config!InStep(p)
=============================================================================
