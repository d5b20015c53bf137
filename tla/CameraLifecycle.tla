--------------------------- MODULE CameraLifecycle ---------------------------
(***************************************************************************)
(* The workers of a camera, a capture thread and a VLM companion: who may  *)
(* start them, stop them and repair them (video_processing.py), and who    *)
(* asks for it: the startup pass, the healing loop, request handlers and   *)
(* model installation, and the shutdown of the server.                     *)
(*                                                                         *)
(* An actor does its camera operations one after the other, each under the *)
(* lifecycle lock of the camera.  The registry lock covers single reads    *)
(* and writes, the fence lock the publication of a thread.  Models are     *)
(* taken to be installed.                                                  *)
(***************************************************************************)
EXTENDS Naturals, FiniteSets

CONSTANTS
    Camera,
    Handler,     \* request handlers and the model installer
    Lingering,   \* bound on threads of a camera's worker that have not ended
    MaxRequests, \* bound on requests
    MaxFaults,   \* bound on crashes of workers and failing thread creations
    None

ASSUME LifecycleAssumption ==
    /\ IsFiniteSet(Camera)
    /\ Handler \cap {"startup", "healer", "shutdown"} = {}
    /\ Lingering \in Nat \ {0}
    /\ MaxRequests \in Nat
    /\ MaxFaults \in Nat

Kind == {"camera", "vlm"}
Thread == Kind \X Camera \X (1 .. Lingering)
Actor == Handler \cup {"startup", "healer", "shutdown"}
Setting == {"absent", "disabled", "plain", "vlm"}
Operation == {"start", "stop", "restart", "heal", "delete"}

ASSUME NoneAssumption == None \notin Thread \cup Camera

VARIABLES
    config,  \* what the live configuration of the process says of each camera
    stored,  \* ... and what save_config wrote last
    fence,   \* _camera_lifecycle_shutdown
    thread,  \* pc and stop event of each thread
    reg,     \* state.camera_threads and state.vlm_threads
    actor,   \* where each actor is
    requests, faults

settings == <<config, stored>>
vars == <<settings, fence, thread, reg, actor, requests, faults>>
workerVars == <<thread, reg>>
boundVars == <<requests, faults>>

Resting == [pc |-> "idle", todo |-> {}, cam |-> None, op |-> "heal", kind |-> "camera",
            joins |-> None, stopped |-> FALSE, vlm |-> FALSE, wanted |-> FALSE]
Doing(todo) == [Resting EXCEPT !.pc = "next", !.todo = todo]
EveryConfigured(op) == {<<c, op>> : c \in {d \in Camera : config[d] # "absent"}}

\* The startup pass begins with the process.
Booted(cfg) ==
    [a \in Actor |->
        IF a = "startup" THEN Doing({<<c, "start">> : c \in {d \in Camera : cfg[d] # "absent"}})
        ELSE Resting]

Inside == {"heal", "start", "publish", "vlmStart", "vlmPublish", "stop", "join", "unlock"}

\* Types; and nobody is where another one holds the lifecycle lock.
TypeOK ==
    /\ config \in [Camera -> Setting] /\ stored \in [Camera -> Setting]
    /\ fence \in BOOLEAN
    /\ thread \in [Thread -> [pc : {"dead", "run", "exit"}, stop : BOOLEAN]]
    /\ reg \in [Kind -> [Camera -> Thread \cup {None}]]
    /\ \A k \in Kind, c \in Camera : reg[k][c] # None => reg[k][c] \in {k} \X {c} \X (1 .. Lingering)
    /\ actor \in [Actor ->
                    [pc : {"idle", "next", "lock", "heal", "start", "publish", "vlmStart", "vlmPublish",
                           "stop", "join", "unlock", "remove", "snapshot", "done"},
                     todo : SUBSET (Camera \X Operation),
                     cam : Camera \cup {None}, op : Operation, kind : Kind,
                     joins : Thread \cup {None}, stopped : BOOLEAN, vlm : BOOLEAN, wanted : BOOLEAN]]
    /\ \A a, b \in Actor :
        a # b /\ actor[a].pc \in Inside /\ actor[b].pc \in Inside => actor[a].cam # actor[b].cam
    /\ requests \in 0 .. MaxRequests
    /\ faults \in 0 .. MaxFaults

Init ==
    /\ config \in [Camera -> Setting] /\ stored = config
    /\ fence = FALSE
    /\ thread = [t \in Thread |-> [pc |-> "dead", stop |-> FALSE]]
    /\ reg = [k \in Kind |-> [c \in Camera |-> None]]
    /\ actor = Booted(config)
    /\ requests = 0
    /\ faults = 0

-----------------------------------------------------------------------------
Enabled(c) == config[c] \in {"plain", "vlm"}
Alive(t) == t # None /\ thread[t].pc # "dead"

\* _worker_registration_active
Active(k, c) == Alive(reg[k][c]) /\ ~thread[reg[k][c]].stop

\* _remove_worker_if_owned
Disowned(t) == [k \in Kind |-> [c \in Camera |-> IF reg[k][c] = t THEN None ELSE reg[k][c]]]

Fault == faults < MaxFaults /\ faults' = faults + 1

\* Actor a goes on at pc with some of its fields changed.
At(a, pc) == actor[a].pc = pc
Goes(a, pc) == actor' = [actor EXCEPT ![a].pc = pc]

Locked(c) == \E a \in Actor : actor[a].cam = c /\ actor[a].pc \in Inside

-----------------------------------------------------------------------------
(* What an actor does with a camera. *)

\* The passes look at the fence between two cameras.
Pass == {"startup", "healer"}

Take(a) ==
    /\ At(a, "next")
    /\ fence => a \notin Pass
    /\ \E job \in actor[a].todo :
        actor' = [actor EXCEPT ![a] = [Doing(actor[a].todo \ {job}) EXCEPT
                                        !.pc = "lock", !.cam = job[1], !.op = job[2]]]
    /\ UNCHANGED <<settings, fence, workerVars, boundVars>>

Abandon(a) ==
    /\ At(a, "next")
    /\ a \in Pass
    /\ fence
    /\ actor' = [actor EXCEPT ![a] = Resting]
    /\ UNCHANGED <<settings, fence, workerVars, boundVars>>

Finish(a) ==
    /\ At(a, "next")
    /\ actor[a].todo = {}
    /\ actor' = [actor EXCEPT ![a] = [Resting EXCEPT !.pc = IF a = "shutdown" THEN "done" ELSE "idle"]]
    /\ UNCHANGED <<settings, fence, workerVars, boundVars>>

Acquire(a) ==
    /\ At(a, "lock")
    /\ ~Locked(actor[a].cam)
    /\ Goes(a, CASE actor[a].op = "heal"  -> "heal"
                 [] actor[a].op = "start" -> "start"
                 [] OTHER                 -> "stop")
    /\ UNCHANGED <<settings, fence, workerVars, boundVars>>

\* The operation returns.  A deletion goes on only if the workers have stopped;
\* all() in stop_all_camera_workers ends at the first camera that has not.
Unlock(a) ==
    /\ At(a, "unlock")
    /\ actor' = [actor EXCEPT
        ![a].pc = IF actor[a].op = "delete" /\ actor[a].stopped THEN "remove" ELSE "next",
        ![a].todo = IF a = "shutdown" /\ ~actor[a].stopped THEN {} ELSE @]
    /\ UNCHANGED <<settings, fence, workerVars, boundVars>>

\* save_config writes all of the live configuration, with what earlier requests
\* left in it that failed to save.
Saves(cfg) == config' = cfg /\ stored' = cfg

\* save_config raises: the live configuration is changed by then.
SaveRaises(cfg) == Fault /\ config' = cfg /\ UNCHANGED stored

Without(c) == [config EXCEPT ![c] = "absent"]

\* api_delete_camera removes the camera, unless another deletion already did
\* (a KeyError), and saves the configuration.
Remove(a) ==
    /\ At(a, "remove")
    /\ IF config[actor[a].cam] = "absent" THEN UNCHANGED settings ELSE Saves(Without(actor[a].cam))
    /\ Goes(a, "next")
    /\ UNCHANGED <<fence, workerVars, boundVars>>

\* It cannot be saved: the process has forgotten the camera, a restart knows it.
RemoveFails(a) ==
    /\ At(a, "remove")
    /\ config[actor[a].cam] # "absent"
    /\ SaveRaises(Without(actor[a].cam))
    /\ Goes(a, "next")
    /\ UNCHANGED <<fence, workerVars, requests>>

-----------------------------------------------------------------------------
(* start_camera and start_vlm_for_camera. *)

Start(a) ==
    /\ At(a, "start")
    /\ LET c == actor[a].cam
           t == reg["camera"][c]
           expected == config[c] = "vlm"
           pc == IF fence \/ ~Enabled(c) THEN "unlock"
                 ELSE IF ~Alive(t) THEN "publish"
                 ELSE IF expected /\ ~thread[t].stop THEN "vlmStart"
                 ELSE "unlock"
       IN  actor' = [actor EXCEPT ![a].pc = pc, ![a].vlm = expected]
    /\ UNCHANGED <<settings, fence, workerVars, boundVars>>

Begins(k, c) ==
    \E t \in {k} \X {c} \X (1 .. Lingering) :
        /\ thread[t].pc = "dead"
        /\ \A i \in 1 .. Lingering : thread[<<k, c, i>>].pc = "dead" => t[3] <= i
        /\ thread' = [thread EXCEPT ![t] = [pc |-> "run", stop |-> FALSE]]
        /\ reg' = [reg EXCEPT ![k][c] = t]

\* Mutant of Publish: the fence is not looked at again.
PublishUnfenced(a) ==
    /\ At(a, "publish")
    /\ Begins("camera", actor[a].cam)
    /\ Goes(a, IF actor[a].vlm THEN "vlmStart" ELSE "unlock")
    /\ UNCHANGED <<settings, fence, boundVars>>

\* Under the fence lock: registered and started, unless the fence is up by now.
Publish(a) ==
    /\ At(a, "publish")
    /\ IF fence THEN Goes(a, "unlock") /\ UNCHANGED workerVars
       ELSE /\ Begins("camera", actor[a].cam)
            /\ Goes(a, IF actor[a].vlm THEN "vlmStart" ELSE "unlock")
    /\ UNCHANGED <<settings, fence, boundVars>>

\* The thread cannot be created: start_camera takes its registration back and
\* raises, which the passes survive and a restart of all cameras does not.
PublishFails(a) ==
    /\ At(a, "publish")
    /\ Fault
    /\ actor' = [actor EXCEPT ![a].pc = "unlock",
                              ![a].todo = IF a \in Handler THEN {} ELSE @]
    /\ UNCHANGED <<settings, fence, workerVars, requests>>

VlmStart(a) ==
    /\ At(a, "vlmStart")
    /\ LET c == actor[a].cam
           wanted == ~fence /\ config[c] = "vlm" /\ Active("camera", c) /\ ~Alive(reg["vlm"][c])
       IN  Goes(a, IF wanted THEN "vlmPublish" ELSE "unlock")
    /\ UNCHANGED <<settings, fence, workerVars, boundVars>>

VlmPublish(a) ==
    /\ At(a, "vlmPublish")
    /\ IF fence THEN UNCHANGED workerVars ELSE Begins("vlm", actor[a].cam)
    /\ Goes(a, "unlock")
    /\ UNCHANGED <<settings, fence, boundVars>>

VlmPublishFails(a) ==
    /\ At(a, "vlmPublish")
    /\ Fault
    /\ Goes(a, "unlock")
    /\ UNCHANGED <<settings, fence, workerVars, requests>>

-----------------------------------------------------------------------------
(* stop_camera and heal_camera_workers_once. *)

\* Tells the worker of kind k to stop, if one is registered, and will join it.
Tells(a, k) ==
    LET t == reg[k][actor[a].cam]
    IN  /\ thread' = IF t = None THEN thread ELSE [thread EXCEPT ![t].stop = TRUE]
        /\ actor' = [actor EXCEPT ![a].pc = "join", ![a].kind = k, ![a].joins = t,
                                  ![a].stopped = IF k = "camera" THEN TRUE ELSE @,
                                  ![a].wanted = Enabled(actor[a].cam)]

Stop(a) ==
    /\ At(a, "stop")
    /\ Tells(a, actor[a].kind)
    /\ UNCHANGED <<settings, fence, reg, boundVars>>

\* Mutant of Repair: the companion is looked at first.
RepairCompanionFirst(c, enabled, expected) ==
    IF ~enabled THEN "unlock"
    ELSE IF expected /\ ~Active("vlm", c) THEN "vlmStart"
    ELSE IF ~Active("camera", c) THEN "start"
    ELSE "unlock"

\* Where a healing pass goes on with a camera.
Repair(c, enabled, expected) ==
    IF ~enabled THEN "unlock"
    ELSE IF ~Active("camera", c) THEN "start"
    ELSE IF expected /\ ~Active("vlm", c) THEN "vlmStart"
    ELSE "unlock"

\* After a join: the companion is next, then the start of a restart.
Joined(a, stopped) ==
    LET me == actor[a]
    IN  actor' = [actor EXCEPT
            ![a].stopped = stopped,
            ![a].joins = None,
            ![a].kind = "vlm",
            ![a].pc = IF me.op = "heal" THEN Repair(me.cam, me.wanted, FALSE)
                      ELSE IF me.kind = "camera" THEN "stop"
                      ELSE IF me.op = "restart" /\ stopped THEN "start"
                      ELSE "unlock"]

Join(a) ==
    /\ At(a, "join")
    /\ ~Alive(actor[a].joins)
    /\ Joined(a, actor[a].stopped)
    /\ reg' = Disowned(actor[a].joins)
    /\ UNCHANGED <<settings, fence, thread, boundVars>>

\* Mutant of JoinTimesOut: the thread is given up for dead.
JoinGivesUp(a) ==
    /\ At(a, "join")
    /\ Alive(actor[a].joins)
    /\ Joined(a, actor[a].stopped)
    /\ UNCHANGED <<settings, fence, workerVars, boundVars>>

JoinTimesOut(a) ==
    /\ At(a, "join")
    /\ Alive(actor[a].joins)
    /\ Joined(a, FALSE)
    /\ UNCHANGED <<settings, fence, workerVars, boundVars>>

\* Mutant of Heal: a companion that is not expected is left alone.
HealForgetful(a) ==
    /\ At(a, "heal")
    /\ actor' = IF fence THEN [actor EXCEPT ![a].pc = "unlock", ![a].todo = {}]
                ELSE [actor EXCEPT ![a].pc = Repair(actor[a].cam, Enabled(actor[a].cam),
                                                    config[actor[a].cam] = "vlm")]
    /\ UNCHANGED <<settings, fence, workerVars, boundVars>>

Heal(a) ==
    /\ At(a, "heal")
    /\ LET c == actor[a].cam
           expected == config[c] = "vlm"
       IN  IF fence
           THEN /\ actor' = [actor EXCEPT ![a].pc = "unlock", ![a].todo = {}]
                /\ UNCHANGED thread
           ELSE IF ~expected /\ reg["vlm"][c] # None
           THEN Tells(a, "vlm")
           ELSE /\ Goes(a, Repair(c, Enabled(c), expected))
                /\ UNCHANGED thread
    /\ UNCHANGED <<settings, fence, reg, boundVars>>

-----------------------------------------------------------------------------
(* The worker threads. *)

\* A worker sees its stop event, or ends with an exception.
Ends(t) ==
    /\ thread[t].pc = "run"
    /\ IF thread[t].stop THEN UNCHANGED faults ELSE Fault

\* Its last act under the registry lock: it gives up its own registration.
Exit(t) ==
    /\ Ends(t)
    /\ thread' = [thread EXCEPT ![t].pc = "exit"]
    /\ reg' = Disowned(t)
    /\ UNCHANGED <<settings, fence, actor, requests>>

Die(t) ==
    /\ thread[t].pc = "exit"
    /\ thread' = [thread EXCEPT ![t].pc = "dead"]
    /\ UNCHANGED <<settings, fence, reg, actor, boundVars>>

-----------------------------------------------------------------------------
(* Who asks. *)

\* camera_worker_healing_loop, created after the startup pass, cancelled by the
\* shutdown.
HealingPass ==
    /\ ~fence
    /\ At("startup", "idle") /\ At("healer", "idle")
    /\ actor' = [actor EXCEPT !["healer"] =
            Doing({<<c, "heal">> : c \in {d \in Camera : config[d] # "absent" \/ reg["vlm"][d] # None}})]
    /\ UNCHANGED <<settings, fence, workerVars, boundVars>>

Request(h, todo) ==
    /\ At(h, "idle")
    /\ requests < MaxRequests
    /\ requests' = requests + 1
    /\ actor' = [actor EXCEPT ![h] = Doing(todo)]
    /\ UNCHANGED <<fence, workerVars, faults>>

\* api_add_camera, api_update_camera: saved first, then started or restarted.
Save(h, c, setting) ==
    /\ Saves([config EXCEPT ![c] = setting])
    /\ Request(h, {<<c, IF config[c] = "absent" THEN "start" ELSE "restart">>})

\* ... and nothing of that when the configuration cannot be saved.
SaveFails(h, c, setting) ==
    /\ At(h, "idle")
    /\ requests < MaxRequests
    /\ requests' = requests + 1
    /\ SaveRaises([config EXCEPT ![c] = setting])
    /\ UNCHANGED <<fence, workerVars, actor>>

\* api_delete_camera: stopped first, then removed.
Delete(h, c) ==
    /\ config[c] # "absent"
    /\ Request(h, {<<c, "delete">>})
    /\ UNCHANGED settings

\* restart_all_cameras
RestartAll(h) ==
    /\ Request(h, EveryConfigured("restart")
                  \cup {<<c, "stop">> : c \in {d \in Camera : /\ config[d] = "absent"
                                                             /\ \E k \in Kind : reg[k][d] # None}})
    /\ UNCHANGED settings

Shutdown ==
    /\ ~fence
    /\ fence' = TRUE
    /\ Goes("shutdown", "snapshot")
    /\ UNCHANGED <<settings, workerVars, boundVars>>

\* stop_all_camera_workers
StopAll ==
    /\ At("shutdown", "snapshot")
    /\ actor' = [actor EXCEPT !["shutdown"] =
            Doing({<<c, "stop">> : c \in {d \in Camera : \E k \in Kind : reg[k][d] # None}})]
    /\ UNCHANGED <<settings, fence, workerVars, boundVars>>

\* The process ends, its daemon threads with it, and is started again,
\* with the configuration that was stored.
Reboot ==
    /\ At("shutdown", "done")
    /\ fence' = FALSE
    /\ thread' = [t \in Thread |-> [pc |-> "dead", stop |-> FALSE]]
    /\ reg' = [k \in Kind |-> [c \in Camera |-> None]]
    /\ config' = stored
    /\ actor' = Booted(stored)
    /\ UNCHANGED <<stored, boundVars>>

-----------------------------------------------------------------------------
ActorStep(a) ==
    \/ Take(a) \/ Abandon(a) \/ Finish(a) \/ Acquire(a) \/ Unlock(a)
    \/ Remove(a) \/ RemoveFails(a)
    \/ Start(a) \/ Publish(a) \/ PublishFails(a)
    \/ VlmStart(a) \/ VlmPublish(a) \/ VlmPublishFails(a)
    \/ Stop(a) \/ Join(a) \/ JoinTimesOut(a) \/ Heal(a)

Ask(h) ==
    \/ \E c \in Camera, setting \in Setting \ {"absent"} :
        Save(h, c, setting) \/ SaveFails(h, c, setting)
    \/ \E c \in Camera : Delete(h, c)
    \/ RestartAll(h)

Next ==
    \/ \E a \in Actor : ActorStep(a)
    \/ \E t \in Thread : Exit(t) \/ Die(t)
    \/ HealingPass
    \/ \E h \in Handler : Ask(h)
    \/ Shutdown \/ StopAll \/ Reboot

Spec == Init /\ [][Next]_vars

(***************************************************************************)
(* Fairness.  Actors and threads go on: a worker that is told to stop ends *)
(* in the end, and its thread with it.  The healing loop makes its passes. *)
(***************************************************************************)
FairSpec ==
    /\ Spec
    /\ \A a \in Actor : WF_vars(ActorStep(a))
    /\ \A t \in Thread : WF_vars(thread[t].stop /\ Exit(t)) /\ WF_vars(Die(t))
    /\ WF_vars(HealingPass)

-----------------------------------------------------------------------------
(* Properties. *)

Runs(t) == thread[t].pc = "run"

\* A worker that runs is the registered one: no camera has two, and none runs
\* that stop_camera cannot find.
WorkersOwned == \A t \in Thread : Runs(t) => reg[t[1]][t[2]] = t

\* When stop_camera answers True, no worker of the camera runs, whoever else
\* restarts, heals or crashes it.
StopHonest ==
    \A a \in Actor :
        At(a, "unlock") /\ actor[a].op \in {"stop", "delete"} /\ actor[a].stopped
            => \A t \in Thread : t[2] = actor[a].cam => ~Runs(t)

WorkersAccounted == TypeOK /\ WorkersOwned /\ StopHonest

\* Once the fence is up no worker begins to run, also for an actor that passed
\* its checks before.
FenceHolds == [][fence => \A t \in Thread : Runs(t)' => Runs(t)]_vars

\* A camera that is enabled gets a worker, whatever crashed, timed out or raced:
\* one that the live configuration enables, and so one that the stored one does,
\* unless a request whose save failed has changed it in the live one.
Astray(c) == config[c] # stored[c]
StoredEnabled(c) == stored[c] \in {"plain", "vlm"}
EnabledServed ==
    \A c \in Camera :
        /\ Enabled(c) ~> Active("camera", c) \/ ~Enabled(c) \/ fence
        /\ StoredEnabled(c) ~> Active("camera", c) \/ ~StoredEnabled(c) \/ Astray(c) \/ fence

\* A companion that the configuration does not expect is stopped.
VlmReleased ==
    \A c \in Camera : reg["vlm"][c] # None ~> reg["vlm"][c] = None \/ config[c] = "vlm" \/ fence

\* A camera that was deleted has no worker for ever.
DeletedStops ==
    \A c \in Camera : config[c] = "absent" /\ Active("camera", c) ~>
        config[c] # "absent" \/ ~Active("camera", c) \/ fence

=============================================================================
