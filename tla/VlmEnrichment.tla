---------------------------- MODULE VlmEnrichment ----------------------------
(***************************************************************************)
(* Advisory scene analysis by a remote vision-language model               *)
(* (vlm_enrichment.py, video_processing.py): every camera has a companion  *)
(* thread that offers frames under a generation of its own, one dispatcher *)
(* thread asks the provider, and a violation raises one alert, submitted   *)
(* asynchronously, until a frame of the camera is judged safe.             *)
(*                                                                         *)
(* The queue is ordered by the sequence of the offers. Its age limit and   *)
(* the cooldown of the circuit breaker may end at any time; the provider's *)
(* verdict, the configuration and the license are arbitrary.               *)
(***************************************************************************)
EXTENDS Naturals, Sequences, FiniteSets, SequencesExt

CONSTANTS
    Camera,
    MaximumPending,     \* maximum_pending_cameras
    FailureThreshold,   \* failure_threshold
    MaxGenerations,     \* bound on the companions started per camera
    MaxSubmissions      \* bound on the alerts submitted

VARIABLES
    companion,    \* the thread of each camera: its stage and generation
    generations,  \* _generations: the registered generation of each camera, 0 if none
    queue,        \* _pending: at most one offer per camera, oldest first
    job,          \* what the dispatcher thread does
    failures,     \* _consecutive_failures, up to the threshold
    open,         \* the circuit is open
    active,       \* _vlm_incident_active: the generation of the incident, 0 if none
    submissions,  \* the alerts handed to the pipeline and what became of them; history:
                  \* recent, no safe verdict and no new companion came after
    misled        \* history: since then the failure of an older alert ended an incident

queueVars == <<generations, queue>>
circuit == <<failures, open>>
alertVars == <<active, submissions, misled>>
vars == <<companion, generations, queue, job, failures, open, active, submissions, misled>>

Generation == 0 .. MaxGenerations
Work == [camera : Camera, generation : Generation]
NoJob == [stage |-> "idle"]

TypeOK ==
    /\ companion \in [Camera -> [stage : {"off", "on", "leaving"}, generation : Generation]]
    /\ generations \in [Camera -> Generation]
    /\ queue \in Seq(Work) /\ Len(queue) <= MaximumPending
    /\ job = NoJob \/ job \in [stage : {"process", "judge", "recheck", "submit", "unmark"}, work : Work]
    /\ failures \in 0 .. FailureThreshold /\ open \in BOOLEAN
    /\ active \in [Camera -> Generation]
    /\ submissions \in Seq([camera : Camera, generation : Generation, recent : BOOLEAN,
                            status : {"pending", "persisted", "failed"}])
    /\ misled \in [Camera -> BOOLEAN]

Init ==
    /\ companion = [c \in Camera |-> [stage |-> "off", generation |-> 0]]
    /\ generations = [c \in Camera |-> 0]
    /\ queue = <<>>
    /\ job = NoJob
    /\ failures = 0 /\ open = FALSE
    /\ active = [c \in Camera |-> 0]
    /\ submissions = <<>>
    /\ misled = [c \in Camera |-> FALSE]

NewSpell(c) ==
    /\ submissions' = [i \in DOMAIN submissions |->
                          [submissions[i] EXCEPT !.recent = @ /\ submissions[i].camera # c]]
    /\ misled' = [misled EXCEPT ![c] = FALSE]

Without(c) ==
    IF \E i \in DOMAIN queue : queue[i].camera = c
    THEN RemoveAt(queue, CHOOSE i \in DOMAIN queue : queue[i].camera = c)
    ELSE queue
IsCurrent(w) == generations[w.camera] = w.generation

-----------------------------------------------------------------------------
(* The companion of a camera.                                              *)

\* A new companion registers; an offer of an earlier one is dropped.
Register(c) ==
    /\ companion[c].stage = "off"
    /\ companion[c].generation < MaxGenerations
    /\ companion' = [companion EXCEPT ![c] = [stage |-> "on", generation |-> @.generation + 1]]
    /\ generations' = [generations EXCEPT ![c] = companion'[c].generation]
    /\ queue' = Without(c)
    /\ NewSpell(c)
    /\ UNCHANGED <<job, circuit, active>>

\* offer: the newest frame replaces the camera's pending one and takes a place
\* at the end; a full queue refuses.
Offer(c) ==
    LET work == [camera |-> c, generation |-> companion[c].generation]
    IN  /\ companion[c].stage = "on"
        /\ IsCurrent(work)
        /\ \/ Len(Without(c)) < Len(queue)
           \/ Len(queue) < MaximumPending
        /\ queue' = Append(Without(c), work)
        /\ UNCHANGED <<companion, generations, job, circuit, alertVars>>

Discard(c) ==
    /\ generations' = [generations EXCEPT ![c] = 0]
    /\ queue' = Without(c)

\* Clear the incident this generation marked, and no other.
Clear(c, generation) ==
    active' = IF active[c] = generation THEN [active EXCEPT ![c] = 0] ELSE active

\* Mutant of LeaveQueue: the incident is cleared before the dispatcher forgets the camera.
LeaveClearingFirst(c) ==
    /\ companion[c].stage = "on"
    /\ companion' = [companion EXCEPT ![c].stage = "leaving"]
    /\ Clear(c, companion[c].generation)
    /\ UNCHANGED <<generations, queue, job, circuit, submissions, misled>>

\* The companion's finally: first the dispatcher forgets it, ...
LeaveQueue(c) ==
    /\ companion[c].stage = "on"
    /\ companion' = [companion EXCEPT ![c].stage = "leaving"]
    /\ IF IsCurrent([camera |-> c, generation |-> companion[c].generation])
       THEN Discard(c) ELSE UNCHANGED queueVars
    /\ UNCHANGED <<job, circuit, alertVars>>

\* ... then its incident ends.
Leave(c) ==
    /\ companion[c].stage = "leaving"
    /\ companion' = [companion EXCEPT ![c].stage = "off"]
    /\ Clear(c, companion[c].generation)
    /\ UNCHANGED <<queueVars, job, circuit, submissions, misled>>

-----------------------------------------------------------------------------
(* The dispatcher thread.                                                  *)

Done == job' = NoJob
Continue(stage) == job' = [job EXCEPT !.stage = stage]

\* The oldest offer is taken, and dropped when it is too old or the circuit is open.
Take ==
    /\ job = NoJob
    /\ queue # <<>>
    /\ queue' = Tail(queue)
    /\ \/ Done
       \/ ~open /\ job' = [stage |-> "process", work |-> Head(queue)]
    /\ UNCHANGED <<companion, generations, circuit, alertVars>>

\* The provider answers; a generation that ended meanwhile gets no result.
Answer ==
    /\ job.stage = "process"
    /\ failures' = 0 /\ open' = FALSE
    /\ IF IsCurrent(job.work) THEN Continue("judge") ELSE Done
    /\ UNCHANGED <<companion, queueVars, alertVars>>

Fail ==
    /\ job.stage = "process"
    /\ failures' = IF failures < FailureThreshold THEN failures + 1 ELSE failures
    /\ open' = (open \/ failures' = FailureThreshold)
    /\ Done
    /\ UNCHANGED <<companion, queueVars, alertVars>>

Cool ==
    /\ open
    /\ open' = FALSE
    /\ UNCHANGED <<companion, queueVars, job, failures, alertVars>>

\* The handler finds the companion gone, or the analysis or the camera disabled.
Abandon ==
    /\ job.stage = "judge"
    /\ Done
    /\ UNCHANGED <<companion, queueVars, circuit, alertVars>>

\* update_incident, run while the generation cannot end.
JudgeSafe ==
    /\ job.stage = "judge"
    /\ IsCurrent(job.work)
    /\ Clear(job.work.camera, job.work.generation)
    /\ NewSpell(job.work.camera)
    /\ Done
    /\ UNCHANGED <<companion, queueVars, circuit>>

\* The first violation of a spell marks the incident and goes on to raise an
\* alert; the mark silences those that follow.
JudgeViolation ==
    /\ job.stage = "judge"
    /\ IsCurrent(job.work)
    /\ IF active[job.work.camera] = job.work.generation
       THEN Done /\ UNCHANGED active
       ELSE /\ active' = [active EXCEPT ![job.work.camera] = job.work.generation]
            /\ Continue("recheck")
    /\ UNCHANGED <<companion, queueVars, circuit, submissions, misled>>

\* The configuration is read again: gone or disabled unmarks the incident.
Recheck ==
    /\ job.stage = "recheck"
    /\ \/ Continue("unmark")
       \/ IsCurrent(job.work) /\ Continue("submit")
    /\ UNCHANGED <<companion, queueVars, circuit, alertVars>>

\* submit_alert, run while the generation cannot end: the pipeline takes the
\* alert, or refuses it (no frame, full queue) without waiting.
Submit ==
    LET c == job.work.camera
    IN  /\ job.stage = "submit"
        /\ IF ~IsCurrent(job.work) THEN Done /\ UNCHANGED submissions
           ELSE \/ /\ Len(submissions) < MaxSubmissions
                   /\ submissions' = Append(submissions,
                        [camera |-> c, generation |-> job.work.generation,
                         recent |-> TRUE, status |-> "pending"])
                   /\ Done
                \/ Continue("unmark") /\ UNCHANGED submissions
        /\ UNCHANGED <<companion, queueVars, circuit, active, misled>>

Unmark ==
    /\ job.stage = "unmark"
    /\ Clear(job.work.camera, job.work.generation)
    /\ Done
    /\ UNCHANGED <<companion, queueVars, circuit, submissions, misled>>

-----------------------------------------------------------------------------
(* The alert pipeline.                                                     *)

Persist(i) ==
    /\ submissions[i].status = "pending"
    /\ submissions' = [submissions EXCEPT ![i].status = "persisted"]
    /\ UNCHANGED <<companion, queueVars, job, circuit, active, misled>>

\* _clear_vlm_incident_after_failed_persistence: the generation is compared, so
\* the failure of an alert of an earlier spell also ends the incident of this one.
PersistFails(i) ==
    LET s == submissions[i]
        ends == active[s.camera] = s.generation
    IN  /\ s.status = "pending"
        /\ submissions' = [submissions EXCEPT ![i].status = "failed"]
        /\ Clear(s.camera, s.generation)
        /\ misled' = [misled EXCEPT ![s.camera] = @ \/ (ends /\ ~s.recent)]
        /\ UNCHANGED <<companion, queueVars, job, circuit>>

Next ==
    \/ \E c \in Camera : Register(c) \/ Offer(c) \/ LeaveQueue(c) \/ Leave(c)
    \/ Take \/ Answer \/ Fail \/ Cool
    \/ Abandon \/ JudgeSafe \/ JudgeViolation \/ Recheck \/ Submit \/ Unmark
    \/ \E i \in DOMAIN submissions : Persist(i) \/ PersistFails(i)

Spec == Init /\ [][Next]_vars

-----------------------------------------------------------------------------
Of(c) == {i \in DOMAIN submissions : /\ submissions[i].camera = c
                                     /\ submissions[i].recent
                                     /\ submissions[i].status # "failed"}

\* An incident silences the violations of its camera only while there is reason
\* to: its companion has not ended, and an alert of this spell is being raised,
\* is on its way or is stored. No order of the companion's end, the
\* configuration, the refusals and the failures of the pipeline leaves a camera
\* silenced for nothing.
IncidentBacked ==
    \A c \in Camera : active[c] # 0 =>
        /\ companion[c].stage # "off" /\ companion[c].generation = active[c]
        /\ \/ Of(c) # {}
           \/ job # NoJob /\ job.stage \in {"recheck", "submit", "unmark"} /\ job.work.camera = c
           \/ companion[c].stage = "leaving"

\* A lasting violation raises one alert until a safe frame, except when an alert
\* of an earlier spell fails meanwhile: its callback cannot tell the two apart.
OneAlertPerSpell ==
    \A c \in Camera : Cardinality(Of(c)) > 1 => misled[c]

\* Both: an incident neither silences a camera for nothing nor lets a lasting
\* violation raise a second alert, whatever fails or ends in between.
IncidentHonest == IncidentBacked /\ OneAlertPerSpell
=============================================================================
