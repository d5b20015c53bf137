------------------------ MODULE CameraLifecycleProofs ------------------------
(***************************************************************************)
(* Proofs about CameraLifecycle, for any cameras, request handlers and     *)
(* bounds: that no camera has two workers of a kind that run, that a stop  *)
(* that answers True tells the truth, and that the fence holds.            *)
(***************************************************************************)
EXTENDS CameraLifecycle, TLAPS

PC == {"idle", "next", "lock", "heal", "start", "publish", "vlmStart", "vlmPublish",
       "stop", "join", "unlock", "remove", "snapshot", "done"}
ActorState == [pc : PC, todo : SUBSET (Camera \X Operation),
               cam : Camera \cup {None}, op : Operation, kind : Kind,
               joins : Thread \cup {None}, stopped : BOOLEAN, vlm : BOOLEAN, wanted : BOOLEAN]

(***************************************************************************)
(* The inductive invariant.  Registered workers are the ones that run: an  *)
(* actor that found no live worker may publish one, because no one else    *)
(* registers workers of its camera while it holds the lifecycle lock.      *)
(* "Mine" is what an actor has made sure of by the point it has reached:   *)
(* where it is about to publish, that nothing is registered; on its way    *)
(* through a stop, that of the kinds it has told so far only the thread    *)
(* it joins may still run.                                                 *)
(***************************************************************************)
Holding == Inside \cup {"lock", "remove"}
Ending == {"stop", "delete"}

Registered == \A k \in Kind, c \in Camera : reg[k][c] # None => Runs(reg[k][c])
Workers == WorkersOwned /\ Registered

Quiet(c, kinds, spared) == \A t \in Thread : t[1] \in kinds /\ t[2] = c /\ Runs(t) => t = spared

Publishes(a) ==
    /\ At(a, "publish") => reg["camera"][actor[a].cam] = None
    /\ At(a, "vlmPublish") => reg["vlm"][actor[a].cam] = None

Stops(a) ==
    actor[a].op \in Ending =>
        /\ actor[a].pc \notin {"heal", "start", "publish", "vlmStart", "vlmPublish"}
        /\ actor[a].stopped =>
            /\ At(a, "join") => Quiet(actor[a].cam, {actor[a].kind}, actor[a].joins)
            /\ (At(a, "stop") \/ At(a, "join")) /\ actor[a].kind = "vlm"
                    => Quiet(actor[a].cam, {"camera"}, None)
            /\ At(a, "unlock") => Quiet(actor[a].cam, Kind, None)

Mine(a) ==
    /\ actor[a].pc \in Holding => actor[a].cam \in Camera
    /\ At(a, "lock") => ~actor[a].stopped
    /\ Publishes(a)
    /\ Stops(a)

Exclusive ==
    \A a, b \in Actor :
        a # b /\ actor[a].pc \in Inside /\ actor[b].pc \in Inside => actor[a].cam # actor[b].cam

Shapes ==
    /\ config \in [Camera -> Setting] /\ stored \in [Camera -> Setting]
    /\ fence \in BOOLEAN
    /\ thread \in [Thread -> [pc : {"dead", "run", "exit"}, stop : BOOLEAN]]
    /\ reg \in [Kind -> [Camera -> Thread \cup {None}]]
    /\ \A k \in Kind, c \in Camera : reg[k][c] # None => reg[k][c] \in {k} \X {c} \X (1 .. Lingering)
    /\ actor \in [Actor -> ActorState]
    /\ requests \in 0 .. MaxRequests
    /\ faults \in 0 .. MaxFaults

IInv == Shapes /\ Exclusive /\ Workers /\ \A a \in Actor : Mine(a)

LEMMA TypesMeet == Shapes /\ Exclusive <=> TypeOK
BY DEF Shapes, Exclusive, TypeOK, ActorState, PC

-----------------------------------------------------------------------------
(* The state of an actor. *)

LEMMA NoneApart == None \notin Thread /\ None \notin Camera
BY NoneAssumption

LEMMA Written ==
    ASSUME NEW p \in PC, NEW t \in SUBSET (Camera \X Operation), NEW c \in Camera \cup {None},
           NEW o \in Operation, NEW k \in Kind, NEW j \in Thread \cup {None},
           NEW s \in BOOLEAN, NEW v \in BOOLEAN, NEW w \in BOOLEAN
    PROVE  [pc |-> p, todo |-> t, cam |-> c, op |-> o, kind |-> k, joins |-> j,
            stopped |-> s, vlm |-> v, wanted |-> w] \in ActorState
BY DEF ActorState

LEMMA FieldsTyped ==
    ASSUME NEW r \in ActorState
    PROVE  /\ r.pc \in PC /\ r.todo \in SUBSET (Camera \X Operation)
           /\ r.cam \in Camera \cup {None} /\ r.op \in Operation /\ r.kind \in Kind
           /\ r.joins \in Thread \cup {None}
BY DEF ActorState

LEMMA FieldsSet ==
    ASSUME NEW r \in ActorState
    PROVE  /\ \A x \in PC : [r EXCEPT !.pc = x] \in ActorState
           /\ \A x \in SUBSET (Camera \X Operation) : [r EXCEPT !.todo = x] \in ActorState
           /\ \A x \in Camera : [r EXCEPT !.cam = x] \in ActorState
           /\ \A x \in Operation : [r EXCEPT !.op = x] \in ActorState
           /\ \A x \in Kind : [r EXCEPT !.kind = x] \in ActorState
           /\ \A x \in Thread \cup {None} : [r EXCEPT !.joins = x] \in ActorState
           /\ \A x \in BOOLEAN : [r EXCEPT !.stopped = x] \in ActorState
           /\ \A x \in BOOLEAN : [r EXCEPT !.vlm = x] \in ActorState
           /\ \A x \in BOOLEAN : [r EXCEPT !.wanted = x] \in ActorState
<1>1. \A x \in PC : [r EXCEPT !.pc = x] \in ActorState
  BY DEF ActorState
<1>2. \A x \in SUBSET (Camera \X Operation) : [r EXCEPT !.todo = x] \in ActorState
  BY DEF ActorState
<1>3. \A x \in Camera : [r EXCEPT !.cam = x] \in ActorState
  BY DEF ActorState
<1>4. \A x \in Operation : [r EXCEPT !.op = x] \in ActorState
  BY DEF ActorState
<1>5. \A x \in Kind : [r EXCEPT !.kind = x] \in ActorState
  BY DEF ActorState
<1>6. \A x \in Thread \cup {None} : [r EXCEPT !.joins = x] \in ActorState
  BY DEF ActorState
<1>7. \A x \in BOOLEAN : [r EXCEPT !.stopped = x] \in ActorState
  BY DEF ActorState
<1>8. \A x \in BOOLEAN : [r EXCEPT !.vlm = x] \in ActorState
  BY DEF ActorState
<1>9. \A x \in BOOLEAN : [r EXCEPT !.wanted = x] \in ActorState
  BY DEF ActorState
<1> QED BY <1>1, <1>2, <1>3, <1>4, <1>5, <1>6, <1>7, <1>8, <1>9

LEMMA DoingTyped ==
    /\ Resting \in ActorState /\ Resting.pc = "idle"
    /\ \A todo \in SUBSET (Camera \X Operation) :
        /\ Doing(todo) \in ActorState
        /\ Doing(todo).pc = "next" /\ Doing(todo).stopped = FALSE /\ Doing(todo).op = "heal"
<1>1. Resting \in ActorState
  <2>1. /\ "idle" \in PC /\ {} \in SUBSET (Camera \X Operation) /\ "heal" \in Operation
        /\ "camera" \in Kind /\ FALSE \in BOOLEAN
    BY DEF PC, Operation, Kind
  <2> QED BY <2>1, Written, ZenonT(60) DEF Resting
<1>2. Resting.pc = "idle"
  BY DEF Resting
<1>3. ASSUME NEW todo \in SUBSET (Camera \X Operation)
      PROVE  /\ Doing(todo) \in ActorState
             /\ Doing(todo).pc = "next" /\ Doing(todo).stopped = FALSE /\ Doing(todo).op = "heal"
  <2> DEFINE r == [Resting EXCEPT !.pc = "next"]
  <2>1. r \in ActorState
    <3>1. "next" \in PC
      BY DEF PC
    <3> QED BY <3>1, <1>1, FieldsSet
  <2>2. Doing(todo) = [r EXCEPT !.todo = todo]
    BY DEF Doing
  <2>3. [r EXCEPT !.todo = todo] \in ActorState
    <3> HIDE DEF r
    <3> QED BY <2>1, FieldsSet
  <2>4. Doing(todo).pc = "next" /\ Doing(todo).stopped = FALSE /\ Doing(todo).op = "heal"
    BY DEF Doing, Resting
  <2> QED BY <2>2, <2>3, <2>4
<1> QED BY <1>1, <1>2, <1>3

(* An actor that goes on at another point keeps the rest of its state.     *)
LEMMA GoesKnown ==
    ASSUME actor \in [Actor -> ActorState], NEW a \in Actor, NEW p \in PC, Goes(a, p)
    PROVE  /\ actor' \in [Actor -> ActorState]
           /\ \A b \in Actor : b # a => actor'[b] = actor[b]
           /\ actor'[a].pc = p /\ actor'[a].cam = actor[a].cam /\ actor'[a].op = actor[a].op
           /\ actor'[a].kind = actor[a].kind /\ actor'[a].joins = actor[a].joins
           /\ actor'[a].stopped = actor[a].stopped
<1>1. actor' = [actor EXCEPT ![a] = [actor[a] EXCEPT !.pc = p]]
  BY DEF Goes
<1>2. [actor[a] EXCEPT !.pc = p] \in ActorState /\ actor[a] \in ActorState
  BY FieldsSet
<1>3. actor' \in [Actor -> ActorState]
  BY <1>1, <1>2, ZenonT(60)
<1>4. actor'[a] = [actor[a] EXCEPT !.pc = p] /\ \A b \in Actor : b # a => actor'[b] = actor[b]
  BY <1>1
<1> QED BY <1>2, <1>3, <1>4 DEF ActorState

-----------------------------------------------------------------------------
(* What a step leaves alone. *)

(* No worker begins to run, and none is registered.                        *)
Shrunk ==
    /\ \A t \in Thread : Runs(t)' => Runs(t)
    /\ \A k \in Kind, c \in Camera : reg'[k][c] \in {reg[k][c], None}

(* ... or only one of the camera the actor is busy with.                   *)
Grown(a) ==
    /\ \A t \in Thread : Runs(t)' => Runs(t) \/ t[2] = actor[a].cam
    /\ \A k \in Kind, c \in Camera : reg'[k][c] \in {reg[k][c], None} \/ c = actor[a].cam

LEMMA Kinds == "camera" \in Kind /\ "vlm" \in Kind
BY DEF Kind

LEMMA PointsInside ==
    /\ Inside \subseteq Holding
    /\ \A p \in {"heal", "start", "publish", "vlmStart", "vlmPublish", "stop", "join", "unlock"} : p \in Inside
BY DEF Inside, Holding

LEMMA ShrunkKeeps ==
    ASSUME NEW b \in Actor, Mine(b), actor'[b] = actor[b], Shrunk
    PROVE  Mine(b)'
<1>1. actor[b].pc \in Holding => actor[b].cam \in Camera
  BY DEF Mine
<1>2. Publishes(b)'
  BY <1>1, PointsInside, Kinds DEF Mine, Publishes, At, Shrunk
<1>3. Stops(b)'
  BY DEF Mine, Stops, At, Shrunk, Quiet
<1> QED BY <1>1, <1>2, <1>3 DEF Mine, At

LEMMA GrownKeeps ==
    ASSUME Exclusive, NEW a \in Actor, NEW b \in Actor, a # b,
           Mine(b), actor'[b] = actor[b], actor[a].pc \in Inside, Grown(a)
    PROVE  Mine(b)'
<1>1. actor[b].pc \in Holding => actor[b].cam \in Camera
  BY DEF Mine
<1>2. actor[b].pc \in Inside => actor[b].cam # actor[a].cam
  BY DEF Exclusive
<1>3. Publishes(b)'
  BY <1>1, <1>2, PointsInside, Kinds DEF Mine, Publishes, At, Grown
<1>4. Stops(b)'
  <2>1. CASE actor[b].pc \in Inside
    BY <2>1, <1>2 DEF Mine, Stops, At, Grown, Quiet
  <2>2. CASE actor[b].pc \notin Inside
    BY <2>2, PointsInside DEF Mine, Stops, At
  <2> QED BY <2>1, <2>2
<1> QED BY <1>1, <1>3, <1>4 DEF Mine, At

LEMMA ExclusiveKept ==
    ASSUME Exclusive, NEW a \in Actor, \A b \in Actor : b # a => actor'[b] = actor[b],
           actor'[a].pc \in Inside =>
             /\ actor'[a].cam = actor[a].cam
             /\ actor[a].pc \in Inside \/ ~Locked(actor[a].cam)
    PROVE  Exclusive'
BY DEF Exclusive, Locked

(* The rest of the state, which no proof but that of the types looks at.   *)
Surroundings ==
    /\ config' \in [Camera -> Setting] /\ stored' \in [Camera -> Setting]
    /\ fence' \in BOOLEAN
    /\ requests' \in 0 .. MaxRequests
    /\ faults' \in 0 .. MaxFaults

(* A step of one actor that starts and stops no thread.                    *)
LEMMA ActorKeeps ==
    ASSUME IInv, Surroundings, NEW a \in Actor, actor' \in [Actor -> ActorState],
           \A b \in Actor : b # a => actor'[b] = actor[b],
           actor'[a].pc \in Inside =>
             /\ actor'[a].cam = actor[a].cam
             /\ actor[a].pc \in Inside \/ ~Locked(actor[a].cam),
           UNCHANGED workerVars, Mine(a)'
    PROVE  IInv'
<1>1. thread' = thread /\ reg' = reg
  BY DEF workerVars
<1>2. Shapes'
  BY <1>1 DEF IInv, Shapes, Surroundings
<1>3. Exclusive'
  BY ExclusiveKept DEF IInv
<1>4. Workers'
  BY <1>1 DEF IInv, Workers, WorkersOwned, Registered, Runs
<1>5. Shrunk
  BY <1>1 DEF Shrunk, Runs
<1>6. \A b \in Actor : Mine(b)'
  BY <1>5, ShrunkKeeps DEF IInv
<1> QED BY <1>2, <1>3, <1>4, <1>6 DEF IInv

LEMMA SurroundingsKept ==
    ASSUME IInv, UNCHANGED <<settings, fence, requests>>, UNCHANGED faults \/ Fault
    PROVE  Surroundings
<1>1. MaxFaults \in Nat
  BY LifecycleAssumption
<1>2. faults' \in 0 .. MaxFaults
  BY <1>1 DEF IInv, Shapes, Fault
<1> QED BY <1>2 DEF IInv, Shapes, Surroundings, settings

LEMMA SettingsSaved ==
    ASSUME IInv, NEW cfg \in [Camera -> Setting], Saves(cfg) \/ SaveRaises(cfg)
    PROVE  config' \in [Camera -> Setting] /\ stored' \in [Camera -> Setting]
BY DEF IInv, Shapes, Saves, SaveRaises

LEMMA WithoutTyped == ASSUME IInv, NEW c PROVE Without(c) \in [Camera -> Setting]
BY DEF IInv, Shapes, Without, Setting

LEMMA FaultCounts == ASSUME IInv, Fault PROVE faults' \in 0 .. MaxFaults
<1>1. MaxFaults \in Nat
  BY LifecycleAssumption
<1> QED BY <1>1 DEF IInv, Shapes, Fault

(* A step that moves no actor and no thread.                               *)
LEMMA RestKeeps == ASSUME IInv, Surroundings, UNCHANGED <<actor, thread, reg>> PROVE IInv'
<1>1. Shapes'
  BY DEF IInv, Shapes, Surroundings
<1>2. Exclusive' /\ Workers'
  BY DEF IInv, Exclusive, Workers, WorkersOwned, Registered, Runs
<1>3. Shrunk /\ actor' = actor
  BY DEF Shrunk, Runs
<1>4. \A a \in Actor : Mine(a)'
  BY <1>3, ShrunkKeeps DEF IInv
<1> QED BY <1>1, <1>2, <1>4 DEF IInv

LEMMA ActorTyped ==
    ASSUME IInv, NEW a \in Actor
    PROVE  /\ actor \in [Actor -> ActorState] /\ actor[a] \in ActorState
           /\ actor[a].pc \in PC /\ actor[a].todo \in SUBSET (Camera \X Operation)
           /\ actor[a].op \in Operation /\ actor[a].kind \in Kind
           /\ actor[a].joins \in Thread \cup {None}
           /\ Mine(a)
<1>1. actor \in [Actor -> ActorState] /\ actor[a] \in ActorState /\ Mine(a)
  BY DEF IInv, Shapes
<1> QED BY <1>1, FieldsTyped

(* The steps that only move an actor on.                                   *)
LEMMA GoesKeeps ==
    ASSUME IInv, Surroundings, NEW a \in Actor, NEW p \in PC \ {"lock"}, Goes(a, p), UNCHANGED workerVars,
           p \in Inside => actor[a].pc \in Inside \/ ~Locked(actor[a].cam),
           p \in Holding => actor[a].pc \in Holding,
           p = "publish" => reg["camera"][actor[a].cam] = None,
           p = "vlmPublish" => reg["vlm"][actor[a].cam] = None,
           actor[a].op \in Ending =>
             \/ p \notin Inside
             \/ p = "stop" /\ ~actor[a].stopped
    PROVE  IInv'
<1>1. /\ actor' \in [Actor -> ActorState]
      /\ \A b \in Actor : b # a => actor'[b] = actor[b]
      /\ actor'[a].pc = p /\ actor'[a].cam = actor[a].cam /\ actor'[a].op = actor[a].op
      /\ actor'[a].kind = actor[a].kind /\ actor'[a].joins = actor[a].joins
      /\ actor'[a].stopped = actor[a].stopped
  BY ActorTyped, GoesKnown
<1>2. Publishes(a)'
  BY <1>1 DEF Publishes, At, workerVars
<1>3. Stops(a)'
  BY <1>1, PointsInside DEF Stops, At
<1>4. Mine(a)'
  BY <1>1, <1>2, <1>3, ActorTyped DEF Mine, At
<1> QED BY <1>1, <1>4, ActorKeeps

-----------------------------------------------------------------------------
(* Steps between the operations. *)

LEMMA TakeKeeps == ASSUME IInv, NEW a \in Actor, Take(a) PROVE IInv'
<1>1. PICK job \in actor[a].todo :
        actor' = [actor EXCEPT ![a] = [Doing(actor[a].todo \ {job}) EXCEPT
                                        !.pc = "lock", !.cam = job[1], !.op = job[2]]]
  BY DEF Take
<1> DEFINE d == Doing(actor[a].todo \ {job})
           q == [d EXCEPT !.pc = "lock"]
           u == [q EXCEPT !.cam = job[1]]
           w == [u EXCEPT !.op = job[2]]
<1>2. job \in Camera \X Operation /\ actor[a].todo \ {job} \in SUBSET (Camera \X Operation)
  BY ActorTyped
<1>3. job[1] \in Camera /\ job[2] \in Operation /\ "lock" \in PC
  BY <1>2 DEF PC
<1>4. d \in ActorState /\ d.stopped = FALSE
  BY <1>2, DoingTyped
<1> HIDE DEF d
<1>5. q \in ActorState /\ u \in ActorState /\ w \in ActorState
  <2>1. q \in ActorState
    BY <1>3, <1>4, FieldsSet
  <2>2. u \in ActorState
    <3> HIDE DEF q
    <3> QED BY <2>1, <1>3, FieldsSet
  <2>3. w \in ActorState
    <3> HIDE DEF q, u
    <3> QED BY <2>2, <1>3, FieldsSet
  <2> QED BY <2>1, <2>2, <2>3
<1>6. w.pc = "lock" /\ w.cam = job[1] /\ w.stopped = FALSE
  BY <1>4 DEF ActorState
<1>7. actor' = [actor EXCEPT ![a] = w]
  BY <1>1 DEF d
<1> HIDE DEF q, u, w
<1>8. /\ actor' \in [Actor -> ActorState] /\ actor'[a] = w
      /\ \A b \in Actor : b # a => actor'[b] = actor[b]
  BY <1>5, <1>7, ActorTyped
<1>9. Mine(a)'
  BY <1>3, <1>6, <1>8 DEF Mine, Publishes, Stops, At
<1>10. Surroundings /\ UNCHANGED workerVars /\ w.pc \notin Inside
  BY <1>6, SurroundingsKept DEF Take, boundVars, Inside
<1> QED BY <1>8, <1>9, <1>10, ActorKeeps

(* An actor that rests, or is given other things to do, holds nothing.     *)
LEMMA RestsKeeps ==
    ASSUME IInv, Surroundings, NEW a \in Actor, NEW r \in ActorState,
           r.pc \notin Holding, actor' = [actor EXCEPT ![a] = r], UNCHANGED workerVars
    PROVE  IInv'
<1>1. /\ actor' \in [Actor -> ActorState] /\ actor'[a] = r
      /\ \A b \in Actor : b # a => actor'[b] = actor[b]
  BY ActorTyped
<1>2. Mine(a)'
  BY <1>1, PointsInside DEF Mine, Publishes, Stops, At, Holding
<1> QED BY <1>1, <1>2, PointsInside, ActorKeeps

LEMMA NotHeld == \A p \in {"idle", "next", "snapshot", "done"} : p \in PC /\ p \notin Holding
BY DEF PC, Holding, Inside

LEMMA AbandonKeeps == ASSUME IInv, NEW a \in Actor, Abandon(a) PROVE IInv'
<1>1. Surroundings /\ UNCHANGED workerVars
  BY SurroundingsKept DEF Abandon, boundVars
<1>2. actor' = [actor EXCEPT ![a] = Resting] /\ Resting.pc \notin Holding /\ Resting \in ActorState
  BY DoingTyped, NotHeld DEF Abandon
<1> QED BY <1>1, <1>2, RestsKeeps

LEMMA FinishKeeps == ASSUME IInv, NEW a \in Actor, Finish(a) PROVE IInv'
<1>1. Surroundings /\ UNCHANGED workerVars
  BY SurroundingsKept DEF Finish, boundVars
<1>2. PICK p \in {"idle", "done"} : actor' = [actor EXCEPT ![a] = [Resting EXCEPT !.pc = p]]
  BY DEF Finish
<1> DEFINE r == [Resting EXCEPT !.pc = p]
<1>3. r \in ActorState
  BY NotHeld, DoingTyped, FieldsSet
<1>4. r.pc = p
  BY DEF Resting
<1> HIDE DEF r
<1>5. r.pc \notin Holding
  BY <1>4, NotHeld
<1>6. actor' = [actor EXCEPT ![a] = r]
  BY <1>2 DEF r
<1> QED BY <1>1, <1>3, <1>5, <1>6, RestsKeeps

LEMMA AcquireKeeps == ASSUME IInv, NEW a \in Actor, Acquire(a) PROVE IInv'
<1>1. Surroundings /\ UNCHANGED workerVars
  BY SurroundingsKept DEF Acquire, boundVars
<1>2. actor[a].pc = "lock" /\ ~Locked(actor[a].cam) /\ ~actor[a].stopped /\ actor[a].pc \in Holding
  BY ActorTyped DEF Acquire, At, Mine, Holding
<1>3. PICK p \in {"heal", "start", "stop"} :
        Goes(a, p) /\ (actor[a].op \in Ending => p = "stop")
  BY DEF Acquire, Ending
<1>4. p \in PC \ {"lock"}
  BY DEF PC
<1> QED BY <1>1, <1>2, <1>3, <1>4, GoesKeeps

LEMMA UnlockKeeps == ASSUME IInv, NEW a \in Actor, Unlock(a) PROVE IInv'
<1>1. Surroundings /\ UNCHANGED workerVars
  BY SurroundingsKept DEF Unlock, boundVars
<1>2. actor[a].pc \in Holding /\ actor[a].cam \in Camera
  BY ActorTyped, PointsInside DEF Unlock, At, Mine
<1>3. PICK p \in {"remove", "next"}, t \in {{}, actor[a].todo} :
        actor' = [actor EXCEPT ![a].pc = p, ![a].todo = t]
  BY DEF Unlock
<1> DEFINE q == [actor[a] EXCEPT !.pc = p]
           r == [q EXCEPT !.todo = t]
<1>4. q \in ActorState
  <2>1. p \in PC
    BY DEF PC
  <2> QED BY <2>1, ActorTyped, FieldsSet
<1>5. r \in ActorState
  <2>1. t \in SUBSET (Camera \X Operation)
    BY ActorTyped
  <2> HIDE DEF q
  <2> QED BY <2>1, <1>4, FieldsSet
<1>6. r.pc = p /\ r.cam = actor[a].cam
  BY <1>4, ActorTyped DEF ActorState
<1>7. actor' = [actor EXCEPT ![a] = r]
  BY <1>3, ActorTyped
<1> HIDE DEF q, r
<1>8. /\ actor' \in [Actor -> ActorState] /\ actor'[a] = r
      /\ \A b \in Actor : b # a => actor'[b] = actor[b]
  BY <1>5, <1>7, ActorTyped
<1>9. Mine(a)' /\ r.pc \notin Inside
  BY <1>2, <1>6, <1>8 DEF Mine, Publishes, Stops, At, Inside
<1> QED BY <1>1, <1>8, <1>9, ActorKeeps

LEMMA RemoveKeeps == ASSUME IInv, NEW a \in Actor, Remove(a) \/ RemoveFails(a) PROVE IInv'
<1>1. Surroundings
  <2>1. CASE Remove(a) /\ config[actor[a].cam] = "absent"
    BY <2>1, SurroundingsKept DEF Remove, boundVars
  <2>2. CASE Remove(a) /\ config[actor[a].cam] # "absent"
    <3>1. Saves(Without(actor[a].cam)) /\ UNCHANGED <<fence, requests, faults>>
      BY <2>2 DEF Remove, boundVars
    <3> QED BY <3>1, SettingsSaved, WithoutTyped DEF IInv, Shapes, Surroundings
  <2>3. CASE RemoveFails(a)
    <3>1. SaveRaises(Without(actor[a].cam)) /\ UNCHANGED <<fence, requests>>
      BY <2>3 DEF RemoveFails
    <3>2. faults' \in 0 .. MaxFaults
      BY <3>1, FaultCounts DEF SaveRaises
    <3> QED BY <3>1, <3>2, SettingsSaved, WithoutTyped DEF IInv, Shapes, Surroundings
  <2> QED BY <2>1, <2>2, <2>3
<1>2. Goes(a, "next") /\ UNCHANGED workerVars
  BY DEF Remove, RemoveFails
<1>3. "next" \in PC \ {"lock"} /\ "next" \notin Holding /\ "next" \notin Inside
  BY NotHeld, PointsInside
<1> QED BY <1>1, <1>2, <1>3, GoesKeeps

-----------------------------------------------------------------------------
(* Starting a camera and its companion. *)

(* An actor inside that goes on with some fields changed, but not with its *)
(* camera and its operation, and is not on its way through a stop.         *)
LEMMA StartsKeep ==
    ASSUME IInv, Surroundings, NEW a \in Actor, NEW r \in ActorState,
           actor' = [actor EXCEPT ![a] = r], UNCHANGED workerVars,
           actor[a].pc \in Inside, r.pc \in Inside, r.cam = actor[a].cam,
           r.op \notin Ending,
           r.pc = "publish" => reg["camera"][actor[a].cam] = None,
           r.pc = "vlmPublish" => reg["vlm"][actor[a].cam] = None
    PROVE  IInv'
<1>1. /\ actor' \in [Actor -> ActorState] /\ actor'[a] = r
      /\ \A b \in Actor : b # a => actor'[b] = actor[b]
  BY ActorTyped
<1>2. actor[a].cam \in Camera
  BY ActorTyped, PointsInside DEF Mine
<1>3. Mine(a)'
  BY <1>1, <1>2 DEF Mine, Publishes, Stops, At, workerVars, Inside
<1> QED BY <1>1, <1>3, ActorKeeps

LEMMA AliveRegistered ==
    ASSUME IInv, NEW k \in Kind, NEW c \in Camera
    PROVE  /\ ~Alive(reg[k][c]) => reg[k][c] = None
           /\ \A t \in Thread : Runs(t) => t[1] \in Kind /\ t[2] \in Camera
BY DEF IInv, Workers, Registered, Alive, Runs, Thread

LEMMA StartKeeps == ASSUME IInv, NEW a \in Actor, Start(a) PROVE IInv'
<1>1. Surroundings /\ UNCHANGED workerVars
  BY SurroundingsKept DEF Start, boundVars
<1>2. actor[a].pc = "start" /\ actor[a].pc \in Inside /\ actor[a].op \notin Ending
      /\ actor[a].cam \in Camera
  BY ActorTyped, PointsInside DEF Start, At, Mine, Stops
<1>3. PICK p \in {"unlock", "publish", "vlmStart"}, v \in BOOLEAN :
        /\ actor' = [actor EXCEPT ![a].pc = p, ![a].vlm = v]
        /\ p = "publish" => ~Alive(reg["camera"][actor[a].cam])
  BY DEF Start
<1>4. p = "publish" => reg["camera"][actor[a].cam] = None
  BY <1>2, <1>3, AliveRegistered, Kinds
<1> DEFINE q == [actor[a] EXCEPT !.pc = p]
           r == [q EXCEPT !.vlm = v]
<1>5. q \in ActorState
  <2>1. p \in PC
    BY DEF PC
  <2> QED BY <2>1, ActorTyped, FieldsSet
<1>6. r \in ActorState
  <2> HIDE DEF q
  <2> QED BY <1>5, FieldsSet
<1>7. r.pc = p /\ r.cam = actor[a].cam /\ r.op = actor[a].op
  BY ActorTyped DEF ActorState
<1>8. actor' = [actor EXCEPT ![a] = r]
  BY <1>3, ActorTyped
<1> HIDE DEF q, r
<1> QED BY <1>1, <1>2, <1>4, <1>6, <1>7, <1>8, PointsInside, StartsKeep

(* A thread is registered and started in one step under the fence lock.    *)
LEMMA BeginsKeeps ==
    ASSUME IInv, Surroundings, NEW a \in Actor, NEW k \in Kind, NEW p \in {"unlock", "vlmStart"},
           actor[a].pc \in Inside, actor[a].op \notin Ending,
           reg[k][actor[a].cam] = None, Begins(k, actor[a].cam), Goes(a, p)
    PROVE  IInv'
<1> DEFINE c == actor[a].cam
<1>1. c \in Camera
  BY ActorTyped, PointsInside DEF Mine
<1>2. PICK t \in {k} \X {c} \X (1 .. Lingering) :
        /\ thread[t].pc = "dead"
        /\ thread' = [thread EXCEPT ![t] = [pc |-> "run", stop |-> FALSE]]
        /\ reg' = [reg EXCEPT ![k][c] = t]
  BY DEF Begins
<1>3. t \in Thread /\ t[1] = k /\ t[2] = c /\ t # None
  BY <1>1, <1>2, NoneApart DEF Thread
<1> HIDE DEF c
<1>4. /\ reg'[k][c] = t
      /\ \A l \in Kind, d \in Camera : ~(l = k /\ d = c) => reg'[l][d] = reg[l][d]
      /\ reg' \in [Kind -> [Camera -> Thread \cup {None}]]
  BY <1>1, <1>2, <1>3 DEF IInv, Shapes
<1>5. /\ thread' \in [Thread -> [pc : {"dead", "run", "exit"}, stop : BOOLEAN]]
      /\ thread'[t].pc = "run" /\ \A u \in Thread : u # t => thread'[u] = thread[u]
  BY <1>2, <1>3 DEF IInv, Shapes
<1>6. p \in PC /\ p \in Inside
  BY PointsInside DEF PC
<1>7. /\ actor' \in [Actor -> ActorState]
      /\ \A b \in Actor : b # a => actor'[b] = actor[b]
      /\ actor'[a].pc = p /\ actor'[a].cam = actor[a].cam /\ actor'[a].op = actor[a].op
  BY <1>6, ActorTyped, GoesKnown
<1>8. Shapes'
  <2>1. \A l \in Kind, d \in Camera : reg'[l][d] # None => reg'[l][d] \in {l} \X {d} \X (1 .. Lingering)
    BY <1>2, <1>4 DEF IInv, Shapes
  <2> QED BY <1>4, <1>5, <1>7, <2>1 DEF Shapes, Surroundings
<1>9. Exclusive'
  BY <1>7, ExclusiveKept DEF IInv
<1>10. WorkersOwned'
  <2> SUFFICES ASSUME NEW u \in Thread, Runs(u)'
               PROVE  reg'[u[1]][u[2]] = u
    BY DEF WorkersOwned
  <2>1. CASE u = t
    BY <2>1, <1>3, <1>4
  <2>2. CASE u # t
    <3>1. Runs(u)
      BY <2>2, <1>5 DEF Runs
    <3>2. reg[u[1]][u[2]] = u /\ u # None /\ u[1] \in Kind /\ u[2] \in Camera
      BY <3>1, NoneApart DEF IInv, Workers, WorkersOwned, Thread
    <3>3. ~(u[1] = k /\ u[2] = c)
      BY <3>2 DEF c
    <3> QED BY <3>2, <3>3, <1>4
  <2> QED BY <2>1, <2>2
<1>11. Registered'
  <2> SUFFICES ASSUME NEW l \in Kind, NEW d \in Camera, reg'[l][d] # None
               PROVE  Runs(reg[l][d])'
    BY DEF Registered
  <2>1. CASE l = k /\ d = c
    BY <2>1, <1>4, <1>5 DEF Runs
  <2>2. CASE ~(l = k /\ d = c)
    <3>1. reg'[l][d] = reg[l][d] /\ reg[l][d] \in Thread
      BY <2>2, <1>4 DEF IInv, Shapes
    <3>2. Runs(reg[l][d])
      BY <3>1 DEF IInv, Workers, Registered
    <3>3. reg[l][d] # t
      BY <3>2, <1>2 DEF Runs
    <3> QED BY <3>1, <3>2, <3>3, <1>5 DEF Runs
  <2> QED BY <2>1, <2>2
<1>12. Grown(a)
  <2>1. \A u \in Thread : Runs(u)' => Runs(u) \/ u[2] = actor[a].cam
    BY <1>3, <1>5 DEF Runs, c
  <2>2. \A l \in Kind, d \in Camera : reg'[l][d] \in {reg[l][d], None} \/ d = actor[a].cam
    BY <1>4 DEF c
  <2> QED BY <2>1, <2>2 DEF Grown
<1>13. \A b \in Actor : b # a => Mine(b)'
  BY <1>7, <1>12, GrownKeeps DEF IInv
<1>14. Mine(a)'
  BY <1>1, <1>7 DEF Mine, Publishes, Stops, At, c
<1> QED BY <1>8, <1>9, <1>10, <1>11, <1>13, <1>14 DEF IInv, Workers

LEMMA PublishKeeps == ASSUME IInv, NEW a \in Actor, Publish(a) PROVE IInv'
<1>1. Surroundings
  BY SurroundingsKept DEF Publish, boundVars
<1>2. /\ actor[a].pc = "publish" /\ actor[a].pc \in Inside /\ actor[a].op \notin Ending
      /\ reg["camera"][actor[a].cam] = None /\ actor[a].pc \in Holding
  BY ActorTyped, PointsInside DEF Publish, At, Mine, Publishes, Stops
<1>3. CASE fence
  <2>1. Goes(a, "unlock") /\ UNCHANGED workerVars
    BY <1>3 DEF Publish
  <2>2. "unlock" \in PC \ {"lock"}
    BY DEF PC
  <2> QED BY <1>1, <1>2, <2>1, <2>2, GoesKeeps
<1>4. CASE ~fence
  <2>1. PICK p \in {"unlock", "vlmStart"} : Goes(a, p)
    BY <1>4 DEF Publish
  <2>2. Begins("camera", actor[a].cam)
    BY <1>4 DEF Publish
  <2> QED BY <1>1, <1>2, <2>1, <2>2, Kinds, BeginsKeeps
<1> QED BY <1>3, <1>4

LEMMA PublishFailsKeeps == ASSUME IInv, NEW a \in Actor, PublishFails(a) PROVE IInv'
<1>1. Surroundings /\ UNCHANGED workerVars
  BY SurroundingsKept DEF PublishFails
<1>2. actor[a].pc = "publish" /\ actor[a].pc \in Inside /\ actor[a].op \notin Ending
  BY ActorTyped, PointsInside DEF PublishFails, At, Mine, Stops
<1>3. PICK t \in {{}, actor[a].todo} : actor' = [actor EXCEPT ![a].pc = "unlock", ![a].todo = t]
  BY DEF PublishFails
<1> DEFINE q == [actor[a] EXCEPT !.pc = "unlock"]
           r == [q EXCEPT !.todo = t]
<1>4. q \in ActorState
  <2>1. "unlock" \in PC
    BY DEF PC
  <2> QED BY <2>1, ActorTyped, FieldsSet
<1>5. r \in ActorState
  <2>1. t \in SUBSET (Camera \X Operation)
    BY ActorTyped
  <2> HIDE DEF q
  <2> QED BY <2>1, <1>4, FieldsSet
<1>6. r.pc = "unlock" /\ r.cam = actor[a].cam /\ r.op = actor[a].op
  BY ActorTyped DEF ActorState
<1>7. actor' = [actor EXCEPT ![a] = r]
  BY <1>3, ActorTyped
<1> HIDE DEF q, r
<1> QED BY <1>1, <1>2, <1>5, <1>6, <1>7, PointsInside, StartsKeep

LEMMA VlmStartKeeps == ASSUME IInv, NEW a \in Actor, VlmStart(a) PROVE IInv'
<1>1. Surroundings /\ UNCHANGED workerVars
  BY SurroundingsKept DEF VlmStart, boundVars
<1>2. /\ actor[a].pc = "vlmStart" /\ actor[a].pc \in Inside /\ actor[a].op \notin Ending
      /\ actor[a].cam \in Camera /\ actor[a].pc \in Holding
  BY ActorTyped, PointsInside DEF VlmStart, At, Mine, Stops
<1>3. PICK p \in {"unlock", "vlmPublish"} :
        Goes(a, p) /\ (p = "vlmPublish" => ~Alive(reg["vlm"][actor[a].cam]))
  BY DEF VlmStart
<1>4. p = "vlmPublish" => reg["vlm"][actor[a].cam] = None
  BY <1>2, <1>3, AliveRegistered, Kinds
<1>5. p \in PC \ {"lock"}
  BY DEF PC
<1> QED BY <1>1, <1>2, <1>3, <1>4, <1>5, GoesKeeps

LEMMA VlmPublishKeeps ==
    ASSUME IInv, NEW a \in Actor, VlmPublish(a) \/ VlmPublishFails(a)
    PROVE  IInv'
<1>1. Surroundings
  BY SurroundingsKept DEF VlmPublish, VlmPublishFails, boundVars
<1>2. /\ actor[a].pc = "vlmPublish" /\ actor[a].pc \in Inside /\ actor[a].op \notin Ending
      /\ reg["vlm"][actor[a].cam] = None /\ actor[a].pc \in Holding
  BY ActorTyped, PointsInside DEF VlmPublish, VlmPublishFails, At, Mine, Publishes, Stops
<1>3. Goes(a, "unlock") /\ "unlock" \in PC \ {"lock"}
  BY DEF VlmPublish, VlmPublishFails, PC
<1>4. CASE UNCHANGED workerVars
  BY <1>1, <1>2, <1>3, <1>4, GoesKeeps
<1>5. CASE Begins("vlm", actor[a].cam)
  BY <1>1, <1>2, <1>3, <1>5, Kinds, BeginsKeeps
<1> QED BY <1>4, <1>5 DEF VlmPublish, VlmPublishFails

-----------------------------------------------------------------------------
(* Stopping and healing. *)

(* The stop event is set, and nothing else about a thread changes.         *)
LEMMA Told ==
    ASSUME IInv, NEW a \in Actor, NEW k \in Kind, actor[a].cam \in Camera, Tells(a, k)
    PROVE  /\ thread' \in [Thread -> [pc : {"dead", "run", "exit"}, stop : BOOLEAN]]
           /\ \A u \in Thread : thread'[u].pc = thread[u].pc
<1> DEFINE t == reg[k][actor[a].cam]
<1>1. t # None => t \in Thread
  BY DEF IInv, Shapes
<1>2. thread \in [Thread -> [pc : {"dead", "run", "exit"}, stop : BOOLEAN]]
  BY DEF IInv, Shapes
<1>3. thread' = IF t = None THEN thread ELSE [thread EXCEPT ![t].stop = TRUE]
  BY DEF Tells
<1> HIDE DEF t
<1>4. ASSUME NEW b \in BOOLEAN, NEW u \in Thread
      PROVE  [thread[u] EXCEPT !.stop = b] \in [pc : {"dead", "run", "exit"}, stop : BOOLEAN]
             /\ [thread[u] EXCEPT !.stop = b].pc = thread[u].pc
  BY <1>2
<1>5. CASE t = None
  BY <1>2, <1>3, <1>5
<1>6. CASE t # None
  <2> DEFINE r == [thread[t] EXCEPT !.stop = TRUE]
  <2>1. TRUE \in BOOLEAN
    OBVIOUS
  <2>2. r \in [pc : {"dead", "run", "exit"}, stop : BOOLEAN] /\ r.pc = thread[t].pc
    BY <2>1, <1>1, <1>4, <1>6
  <2>3. thread' = [thread EXCEPT ![t] = r]
    BY <1>3, <1>6
  <2> HIDE DEF r
  <2> QED BY <1>1, <1>2, <1>6, <2>2, <2>3
<1> QED BY <1>5, <1>6

LEMMA TellsKeeps ==
    ASSUME IInv, Surroundings, NEW a \in Actor, NEW k \in Kind, Tells(a, k), reg' = reg,
           actor[a].pc \in Inside,
           actor[a].op \in Ending => actor[a].pc = "stop" /\ actor[a].kind = k
    PROVE  IInv'
<1> DEFINE c == actor[a].cam
           t == reg[k][c]
           s == IF k = "camera" THEN TRUE ELSE actor[a].stopped
           w == Enabled(c)
           q1 == [actor[a] EXCEPT !.pc = "join"]
           q2 == [q1 EXCEPT !.kind = k]
           q3 == [q2 EXCEPT !.joins = t]
           q4 == [q3 EXCEPT !.stopped = s]
           q5 == [q4 EXCEPT !.wanted = w]
<1>1. c \in Camera
  BY ActorTyped, PointsInside DEF Mine
<1>2. t \in Thread \cup {None} /\ "join" \in PC
  BY <1>1 DEF IInv, Shapes, PC
<1>3. s \in BOOLEAN /\ w \in BOOLEAN
  <2>1. actor[a].stopped \in BOOLEAN
    BY ActorTyped DEF ActorState
  <2>2. s \in BOOLEAN
    BY <2>1
  <2>3. w \in BOOLEAN
    BY DEF Enabled
  <2> QED BY <2>2, <2>3
<1>4. q5 \in ActorState
  <2>1. q1 \in ActorState
    BY <1>2, ActorTyped, FieldsSet
  <2>2. q2 \in ActorState
    <3> HIDE DEF q1
    <3> QED BY <2>1, FieldsSet
  <2>3. q3 \in ActorState
    <3> HIDE DEF q2, t
    <3> QED BY <2>2, <1>2, FieldsSet
  <2>4. q4 \in ActorState
    <3> HIDE DEF q3, s
    <3> QED BY <2>3, <1>3, FieldsSet
  <2> HIDE DEF q4, w
  <2> QED BY <2>4, <1>3, FieldsSet
<1>5. /\ q5.pc = "join" /\ q5.cam = c /\ q5.op = actor[a].op /\ q5.kind = k /\ q5.joins = t
      /\ q5.stopped = s
  <2> HIDE DEF s, w, t
  <2> QED BY ActorTyped DEF ActorState
<1>6. actor' = [actor EXCEPT ![a] = q5]
  BY ActorTyped DEF Tells
<1> HIDE DEF q1, q2, q3, q4, q5
<1>7. /\ actor' \in [Actor -> ActorState] /\ actor'[a] = q5
      /\ \A b \in Actor : b # a => actor'[b] = actor[b]
  BY <1>4, <1>6, ActorTyped
<1>8. /\ thread' \in [Thread -> [pc : {"dead", "run", "exit"}, stop : BOOLEAN]]
      /\ \A u \in Thread : Runs(u)' <=> Runs(u)
  BY <1>1, Told DEF Runs
<1>9. Shapes'
  BY <1>7, <1>8 DEF IInv, Shapes, Surroundings
<1>10. Exclusive'
  BY <1>5, <1>7, ExclusiveKept DEF IInv
<1>11. Workers'
  <2>1. WorkersOwned'
    BY <1>8 DEF IInv, Workers, WorkersOwned
  <2>2. Registered'
    BY <1>8 DEF IInv, Workers, Registered, Shapes
  <2> QED BY <2>1, <2>2 DEF Workers
<1>12. \A b \in Actor : b # a => Mine(b)'
  <2>1. Shrunk
    BY <1>8 DEF Shrunk
  <2> QED BY <2>1, <1>7, ShrunkKeeps DEF IInv
<1>13. Mine(a)'
  <2>1. \A u \in Thread : u[1] = k /\ u[2] = c /\ Runs(u) => u = t
    BY DEF IInv, Workers, WorkersOwned
  <2>2. actor[a].op \in Ending /\ k = "vlm" /\ actor[a].stopped => Quiet(c, {"camera"}, None)
    BY ActorTyped DEF Mine, Stops, At
  <2>3. actor'[a].cam = c /\ actor'[a].kind = k /\ actor'[a].joins = t /\ actor'[a].pc = "join"
        /\ actor'[a].op = actor[a].op /\ (k = "vlm" => actor'[a].stopped = actor[a].stopped)
    BY <1>5, <1>7
  <2>4. \A u \in Thread : u[1] = k /\ u[2] = c /\ Runs(u)' => u = t
    BY <2>1, <1>8
  <2>5. actor[a].op \in Ending /\ k = "vlm" /\ actor[a].stopped =>
          \A u \in Thread : u[1] = "camera" /\ u[2] = c /\ Runs(u)' => u = None
    BY <2>2, <1>8 DEF Quiet
  <2> HIDE DEF c, t
  <2>6. Stops(a)'
    BY <2>3, <2>4, <2>5 DEF Stops, At, Quiet
  <2> QED BY <2>3, <2>6, <1>1 DEF Mine, Publishes, At
<1> QED BY <1>9, <1>10, <1>11, <1>12, <1>13 DEF IInv

LEMMA StopKeeps == ASSUME IInv, NEW a \in Actor, Stop(a) PROVE IInv'
<1>1. Surroundings /\ reg' = reg /\ Tells(a, actor[a].kind) /\ actor[a].kind \in Kind
  BY ActorTyped, SurroundingsKept DEF Stop, boundVars
<1>2. actor[a].pc = "stop" /\ actor[a].pc \in Inside
  BY PointsInside DEF Stop, At
<1> QED BY <1>1, <1>2, TellsKeeps

LEMMA JoinedKeeps ==
    ASSUME IInv, Surroundings, NEW a \in Actor, NEW s \in BOOLEAN, Joined(a, s),
           UNCHANGED workerVars, At(a, "join"),
           s /\ actor[a].op \in Ending => actor[a].stopped /\ ~Alive(actor[a].joins)
    PROVE  IInv'
<1> DEFINE c == actor[a].cam
           q1 == [actor[a] EXCEPT !.stopped = s]
           q2 == [q1 EXCEPT !.joins = None]
           q3 == [q2 EXCEPT !.kind = "vlm"]
<1>1. c \in Camera /\ actor[a].pc \in Inside
  BY ActorTyped, PointsInside DEF Mine, At
<1>2. PICK p \in {"unlock", "start", "vlmStart", "stop"} :
        /\ actor' = [actor EXCEPT ![a].stopped = s, ![a].joins = None, ![a].kind = "vlm", ![a].pc = p]
        /\ actor[a].op \in Ending =>
             \/ p = "stop" /\ actor[a].kind = "camera"
             \/ p = "unlock" /\ actor[a].kind = "vlm"
  <2>1. actor[a].kind \in {"camera", "vlm"}
    BY ActorTyped DEF Kind
  <2> QED BY <2>1 DEF Joined, Repair, Ending
<1> DEFINE q4 == [q3 EXCEPT !.pc = p]
<1>3. q4 \in ActorState
  <2>1. q1 \in ActorState
    BY ActorTyped, FieldsSet
  <2>2. q2 \in ActorState
    <3> HIDE DEF q1
    <3> QED BY <2>1, FieldsSet
  <2>3. q3 \in ActorState
    <3> HIDE DEF q2
    <3> QED BY <2>2, Kinds, FieldsSet
  <2>4. p \in PC
    BY DEF PC
  <2> HIDE DEF q3
  <2> QED BY <2>3, <2>4, FieldsSet
<1>4. q4.pc = p /\ q4.cam = c /\ q4.op = actor[a].op /\ q4.kind = "vlm" /\ q4.stopped = s
  BY ActorTyped DEF ActorState
<1>5. actor' = [actor EXCEPT ![a] = q4]
  BY <1>2, ActorTyped
<1> HIDE DEF q1, q2, q3, q4
<1>6. /\ actor' \in [Actor -> ActorState] /\ actor'[a] = q4
      /\ \A b \in Actor : b # a => actor'[b] = actor[b]
  BY <1>3, <1>5, ActorTyped
<1>7. Stops(a)'
  <2> SUFFICES ASSUME actor[a].op \in Ending
               PROVE  /\ p \in {"stop", "unlock"}
                      /\ s => /\ p = "stop" => Quiet(c, {"camera"}, None)
                              /\ p = "unlock" => Quiet(c, Kind, None)
    BY <1>4, <1>6 DEF Stops, At, Quiet, Runs, workerVars
  <2>1. p \in {"stop", "unlock"}
    BY <1>2
  <2>2. ASSUME s
        PROVE  /\ p = "stop" => Quiet(c, {"camera"}, None)
               /\ p = "unlock" => Quiet(c, Kind, None)
    <3>1. /\ Quiet(c, {actor[a].kind}, actor[a].joins)
          /\ actor[a].kind = "vlm" => Quiet(c, {"camera"}, None)
      BY <2>2, ActorTyped DEF Mine, Stops
    <3>2. \A t \in Thread : Runs(t) => t # actor[a].joins
      BY <2>2, NoneApart DEF Runs, Alive
    <3> QED BY <3>1, <3>2, <1>2 DEF Quiet, Kind
  <2> QED BY <2>1, <2>2
<1>8. Mine(a)'
  BY <1>1, <1>4, <1>6, <1>7 DEF Mine, Publishes, At
<1> QED BY <1>1, <1>4, <1>6, <1>8, ActorKeeps

LEMMA JoinKeeps == ASSUME IInv, NEW a \in Actor, Join(a) PROVE IInv'
<1>1. Surroundings /\ thread' = thread /\ At(a, "join") /\ ~Alive(actor[a].joins)
  BY SurroundingsKept DEF Join, boundVars
<1>2. reg' = reg
  <2>1. \A k \in Kind, c \in Camera : reg[k][c] = actor[a].joins => reg[k][c] = None
    BY <1>1 DEF IInv, Workers, Registered, Runs, Alive
  <2>2. reg' = [k \in Kind |-> [c \in Camera |-> IF reg[k][c] = actor[a].joins THEN None ELSE reg[k][c]]]
    BY DEF Join, Disowned
  <2>3. reg \in [Kind -> [Camera -> Thread \cup {None}]]
    BY DEF IInv, Shapes
  <2>4. \A k \in Kind : reg'[k] = reg[k]
    BY <2>1, <2>2, <2>3
  <2> QED BY <2>2, <2>3, <2>4
<1>3. Joined(a, actor[a].stopped) /\ actor[a].stopped \in BOOLEAN
  BY ActorTyped DEF Join, ActorState
<1> QED BY <1>1, <1>2, <1>3, JoinedKeeps DEF workerVars

LEMMA JoinTimesOutKeeps == ASSUME IInv, NEW a \in Actor, JoinTimesOut(a) PROVE IInv'
<1>1. Surroundings /\ UNCHANGED workerVars /\ At(a, "join") /\ Joined(a, FALSE)
  BY SurroundingsKept DEF JoinTimesOut, boundVars
<1> QED BY <1>1, JoinedKeeps

LEMMA HealKeeps == ASSUME IInv, NEW a \in Actor, Heal(a) PROVE IInv'
<1>1. Surroundings /\ reg' = reg
  BY SurroundingsKept DEF Heal, boundVars
<1>2. /\ actor[a].pc = "heal" /\ actor[a].pc \in Inside /\ actor[a].pc \in Holding
      /\ actor[a].op \notin Ending
  BY ActorTyped, PointsInside DEF Heal, At, Mine, Stops
<1>3. CASE thread' = thread /\ actor' = [actor EXCEPT ![a].pc = "unlock", ![a].todo = {}]
  <2> DEFINE q == [actor[a] EXCEPT !.pc = "unlock"]
             r == [q EXCEPT !.todo = {}]
  <2>1. q \in ActorState
    <3>1. "unlock" \in PC
      BY DEF PC
    <3> QED BY <3>1, ActorTyped, FieldsSet
  <2>2. r \in ActorState
    <3> HIDE DEF q
    <3> QED BY <2>1, FieldsSet
  <2>3. r.pc = "unlock" /\ r.cam = actor[a].cam /\ r.op = actor[a].op
    BY ActorTyped DEF ActorState
  <2>4. actor' = [actor EXCEPT ![a] = r]
    BY <1>3, ActorTyped
  <2> HIDE DEF q, r
  <2> QED BY <1>1, <1>2, <1>3, <2>2, <2>3, <2>4, PointsInside, StartsKeep DEF workerVars
<1>4. CASE Tells(a, "vlm")
  BY <1>1, <1>2, <1>4, Kinds, TellsKeeps
<1>5. CASE thread' = thread /\ \E p \in {"unlock", "start", "vlmStart"} : Goes(a, p)
  <2>1. \A p \in {"unlock", "start", "vlmStart"} : p \in PC \ {"lock"}
    BY DEF PC
  <2> QED BY <1>1, <1>2, <1>5, <2>1, GoesKeeps DEF workerVars
<1> QED BY <1>3, <1>4, <1>5 DEF Heal, Repair

-----------------------------------------------------------------------------
(* The worker threads, and who asks. *)

LEMMA ExitKeeps == ASSUME IInv, NEW t \in Thread, Exit(t) PROVE IInv'
<1>1. Surroundings /\ actor' = actor /\ thread[t].pc = "run"
  BY SurroundingsKept DEF Exit, Ends
<1>2. /\ thread' \in [Thread -> [pc : {"dead", "run", "exit"}, stop : BOOLEAN]]
      /\ thread'[t].pc = "exit" /\ \A u \in Thread : u # t => thread'[u] = thread[u]
  <2>1. thread' = [thread EXCEPT ![t] = [thread[t] EXCEPT !.pc = "exit"]]
    BY DEF Exit
  <2>2. thread \in [Thread -> [pc : {"dead", "run", "exit"}, stop : BOOLEAN]]
    BY DEF IInv, Shapes
  <2>3. [thread[t] EXCEPT !.pc = "exit"] \in [pc : {"dead", "run", "exit"}, stop : BOOLEAN]
    BY <2>2
  <2> QED BY <2>1, <2>2, <2>3
<1>3. \A k \in Kind, c \in Camera : reg'[k][c] = IF reg[k][c] = t THEN None ELSE reg[k][c]
  BY DEF Exit, Disowned
<1>4. reg' \in [Kind -> [Camera -> Thread \cup {None}]]
  BY DEF Exit, Disowned, IInv, Shapes
<1>5. Shrunk
  <2>1. \A u \in Thread : Runs(u)' => Runs(u)
    BY <1>2 DEF Runs
  <2> QED BY <2>1, <1>3 DEF Shrunk
<1>6. WorkersOwned'
  <2> SUFFICES ASSUME NEW u \in Thread, Runs(u)'
               PROVE  reg'[u[1]][u[2]] = u
    BY DEF WorkersOwned
  <2>1. u # t /\ Runs(u)
    BY <1>2 DEF Runs
  <2>2. reg[u[1]][u[2]] = u /\ u[1] \in Kind /\ u[2] \in Camera
    BY <2>1 DEF IInv, Workers, WorkersOwned, Thread
  <2> QED BY <2>1, <2>2, <1>3
<1>7. Registered'
  <2> SUFFICES ASSUME NEW k \in Kind, NEW c \in Camera, reg'[k][c] # None
               PROVE  Runs(reg[k][c])'
    BY DEF Registered
  <2>1. reg'[k][c] = reg[k][c] /\ reg[k][c] # t /\ reg[k][c] \in Thread
    BY <1>3 DEF IInv, Shapes
  <2>2. Runs(reg[k][c])
    BY <2>1 DEF IInv, Workers, Registered
  <2> QED BY <2>1, <2>2, <1>2 DEF Runs
<1>8. Shapes'
  <2>1. \A k \in Kind, c \in Camera : reg'[k][c] # None => reg'[k][c] \in {k} \X {c} \X (1 .. Lingering)
    BY <1>3 DEF IInv, Shapes
  <2> QED BY <2>1, <1>1, <1>2, <1>4 DEF IInv, Shapes, Surroundings
<1>9. Exclusive' /\ \A b \in Actor : Mine(b)'
  BY <1>1, <1>5, ShrunkKeeps DEF IInv, Exclusive
<1> QED BY <1>6, <1>7, <1>8, <1>9 DEF IInv, Workers

LEMMA DieKeeps == ASSUME IInv, NEW t \in Thread, Die(t) PROVE IInv'
<1>1. Surroundings /\ actor' = actor /\ reg' = reg /\ thread[t].pc = "exit"
  BY SurroundingsKept DEF Die, boundVars
<1>2. /\ thread' \in [Thread -> [pc : {"dead", "run", "exit"}, stop : BOOLEAN]]
      /\ thread'[t].pc = "dead" /\ \A u \in Thread : u # t => thread'[u] = thread[u]
  <2>1. thread' = [thread EXCEPT ![t] = [thread[t] EXCEPT !.pc = "dead"]]
    BY DEF Die
  <2>2. thread \in [Thread -> [pc : {"dead", "run", "exit"}, stop : BOOLEAN]]
    BY DEF IInv, Shapes
  <2>3. [thread[t] EXCEPT !.pc = "dead"] \in [pc : {"dead", "run", "exit"}, stop : BOOLEAN]
    BY <2>2
  <2> QED BY <2>1, <2>2, <2>3
<1>3. \A u \in Thread : Runs(u)' <=> Runs(u)
  BY <1>1, <1>2 DEF Runs
<1>4. Workers'
  <2>1. WorkersOwned'
    BY <1>1, <1>3 DEF IInv, Workers, WorkersOwned
  <2>2. Registered'
    BY <1>1, <1>3 DEF IInv, Workers, Registered, Shapes
  <2> QED BY <2>1, <2>2 DEF Workers
<1>5. Shapes'
  BY <1>1, <1>2 DEF IInv, Shapes, Surroundings
<1>6. Shrunk
  BY <1>1, <1>3 DEF Shrunk
<1>7. Exclusive' /\ \A b \in Actor : Mine(b)'
  BY <1>1, <1>6, ShrunkKeeps DEF IInv, Exclusive
<1> QED BY <1>4, <1>5, <1>7 DEF IInv

(* An actor begins with a list of things to do.                            *)
LEMMA DoesKeeps ==
    ASSUME IInv, Surroundings, NEW a \in Actor, NEW todo \in SUBSET (Camera \X Operation),
           actor' = [actor EXCEPT ![a] = Doing(todo)], UNCHANGED workerVars
    PROVE  IInv'
<1>1. Doing(todo) \in ActorState /\ Doing(todo).pc \notin Holding
  BY DoingTyped, NotHeld
<1> QED BY <1>1, RestsKeeps

LEMMA HealingPassKeeps == ASSUME IInv, HealingPass PROVE IInv'
<1> DEFINE todo == {<<c, "heal">> : c \in {d \in Camera : config[d] # "absent" \/ reg["vlm"][d] # None}}
<1>1. todo \in SUBSET (Camera \X Operation) /\ "healer" \in Actor
  BY DEF Operation, Actor
<1>2. Surroundings /\ UNCHANGED workerVars /\ actor' = [actor EXCEPT !["healer"] = Doing(todo)]
  BY SurroundingsKept DEF HealingPass, boundVars
<1> HIDE DEF todo
<1> QED BY <1>1, <1>2, DoesKeeps

LEMMA StopAllKeeps == ASSUME IInv, StopAll PROVE IInv'
<1> DEFINE todo == {<<c, "stop">> : c \in {d \in Camera : \E k \in Kind : reg[k][d] # None}}
<1>1. todo \in SUBSET (Camera \X Operation) /\ "shutdown" \in Actor
  BY DEF Operation, Actor
<1>2. Surroundings /\ UNCHANGED workerVars /\ actor' = [actor EXCEPT !["shutdown"] = Doing(todo)]
  BY SurroundingsKept DEF StopAll, boundVars
<1> HIDE DEF todo
<1> QED BY <1>1, <1>2, DoesKeeps

LEMMA RequestKeeps ==
    ASSUME IInv, NEW h \in Handler, NEW todo \in SUBSET (Camera \X Operation), Request(h, todo),
           config' \in [Camera -> Setting] /\ stored' \in [Camera -> Setting]
    PROVE  IInv'
<1>1. h \in Actor
  BY DEF Actor
<1>2. requests' \in 0 .. MaxRequests
  BY LifecycleAssumption DEF Request, IInv, Shapes
<1>3. Surroundings /\ UNCHANGED workerVars /\ actor' = [actor EXCEPT ![h] = Doing(todo)]
  BY <1>2 DEF Request, IInv, Shapes, Surroundings
<1> QED BY <1>1, <1>3, DoesKeeps

LEMMA AskKeeps == ASSUME IInv, NEW h \in Handler, Ask(h) PROVE IInv'
<1>0. config \in [Camera -> Setting] /\ stored \in [Camera -> Setting]
  BY DEF IInv, Shapes
<1>1. ASSUME NEW c \in Camera, NEW setting \in Setting \ {"absent"}, Save(h, c, setting)
      PROVE  IInv'
  <2>1. config' \in [Camera -> Setting] /\ stored' \in [Camera -> Setting]
    BY <1>0, <1>1, SettingsSaved DEF Save
  <2>2. PICK op \in {"start", "restart"} : Request(h, {<<c, op>>})
    BY <1>1 DEF Save
  <2>3. {<<c, op>>} \in SUBSET (Camera \X Operation)
    BY DEF Operation
  <2> QED BY <2>1, <2>2, <2>3, RequestKeeps
<1>2. ASSUME NEW c \in Camera, Delete(h, c)
      PROVE  IInv'
  <2>1. {<<c, "delete">>} \in SUBSET (Camera \X Operation)
    BY DEF Operation
  <2> QED BY <2>1, <1>0, <1>2, RequestKeeps DEF Delete, settings
<1>3. ASSUME RestartAll(h)
      PROVE  IInv'
  <2> DEFINE todo == EveryConfigured("restart")
                     \cup {<<c, "stop">> : c \in {d \in Camera : /\ config[d] = "absent"
                                                                /\ \E k \in Kind : reg[k][d] # None}}
  <2>1. todo \in SUBSET (Camera \X Operation)
    BY DEF Operation, EveryConfigured
  <2>2. Request(h, todo) /\ config' = config /\ stored' = stored
    BY <1>3 DEF RestartAll, settings
  <2> HIDE DEF todo
  <2> QED BY <2>1, <2>2, <1>0, RequestKeeps
<1>4. ASSUME NEW c \in Camera, NEW setting \in Setting \ {"absent"}, SaveFails(h, c, setting)
      PROVE  IInv'
  <2>1. config' \in [Camera -> Setting] /\ stored' \in [Camera -> Setting]
    BY <1>0, <1>4, SettingsSaved DEF SaveFails
  <2>2. requests' \in 0 .. MaxRequests /\ faults' \in 0 .. MaxFaults
    BY <1>4, LifecycleAssumption, FaultCounts DEF SaveFails, SaveRaises, IInv, Shapes
  <2>3. Surroundings
    BY <1>4, <2>1, <2>2 DEF SaveFails, IInv, Shapes, Surroundings
  <2> QED BY <1>4, <2>3, RestKeeps DEF SaveFails, workerVars
<1> QED BY <1>1, <1>2, <1>3, <1>4 DEF Ask

LEMMA ShutdownKeeps == ASSUME IInv, Shutdown PROVE IInv'
<1>1. "shutdown" \in Actor /\ "snapshot" \in PC
  BY DEF Actor, PC
<1> DEFINE r == [actor["shutdown"] EXCEPT !.pc = "snapshot"]
<1>2. r \in ActorState /\ r.pc = "snapshot"
  <2>1. r \in ActorState
    BY <1>1, ActorTyped, FieldsSet
  <2>2. actor["shutdown"] \in ActorState
    BY <1>1, ActorTyped
  <2> QED BY <2>1, <2>2 DEF ActorState
<1>3. actor' = [actor EXCEPT !["shutdown"] = r]
  BY DEF Shutdown, Goes
<1>4. Surroundings /\ UNCHANGED workerVars
  BY DEF Shutdown, IInv, Shapes, Surroundings, settings, boundVars
<1> HIDE DEF r
<1> QED BY <1>1, <1>2, <1>3, <1>4, NotHeld, RestsKeeps

-----------------------------------------------------------------------------
(* The process begins. *)

(* No thread exists, and every actor rests or has yet to begin.            *)
LEMMA BootKnown ==
    ASSUME NEW cfg \in [Camera -> Setting]
    PROVE  /\ Booted(cfg) \in [Actor -> ActorState]
           /\ \A a \in Actor : Booted(cfg)[a].pc \notin Holding
<1> DEFINE todo == {<<c, "start">> : c \in {d \in Camera : cfg[d] # "absent"}}
<1>1. todo \in SUBSET (Camera \X Operation)
  BY DEF Operation
<1>2. /\ Doing(todo) \in ActorState /\ Doing(todo).pc \notin Holding
      /\ Resting \in ActorState /\ Resting.pc \notin Holding
  <2> HIDE DEF todo
  <2> QED BY <1>1, DoingTyped, NotHeld
<1>3. Booted(cfg) = [a \in Actor |-> IF a = "startup" THEN Doing(todo) ELSE Resting]
  BY DEF Booted
<1> HIDE DEF todo
<1> QED BY <1>2, <1>3

LEMMA BootHolds ==
    ASSUME config \in [Camera -> Setting], stored \in [Camera -> Setting], fence = FALSE,
           thread = [t \in Thread |-> [pc |-> "dead", stop |-> FALSE]],
           reg = [k \in Kind |-> [c \in Camera |-> None]],
           actor = Booted(config),
           requests \in 0 .. MaxRequests, faults \in 0 .. MaxFaults
    PROVE  IInv
<1>1. Shapes
  BY BootKnown DEF Shapes
<1>2. Exclusive /\ \A a \in Actor : Mine(a)
  BY BootKnown, PointsInside DEF Exclusive, Mine, Publishes, Stops, At, Holding
<1>3. Workers
  <2>1. \A t \in Thread : ~Runs(t)
    BY DEF Runs
  <2>2. \A k \in Kind, c \in Camera : reg[k][c] = None
    OBVIOUS
  <2> QED BY <2>1, <2>2 DEF Workers, WorkersOwned, Registered
<1> QED BY <1>1, <1>2, <1>3 DEF IInv

LEMMA RebootKeeps == ASSUME IInv, Reboot PROVE IInv'
<1>1. /\ config' \in [Camera -> Setting] /\ stored' \in [Camera -> Setting]
      /\ requests' \in 0 .. MaxRequests /\ faults' \in 0 .. MaxFaults
  BY DEF IInv, Shapes, Reboot, boundVars
<1>2. /\ fence' = FALSE /\ actor' = Booted(config)'
      /\ thread' = [t \in Thread |-> [pc |-> "dead", stop |-> FALSE]]
      /\ reg' = [k \in Kind |-> [c \in Camera |-> None]]
  BY DEF Reboot, Booted
<1>3. Shapes'
  BY <1>1, <1>2, BootKnown DEF Shapes
<1>4. Exclusive' /\ \A a \in Actor : Mine(a)'
  BY <1>1, <1>2, BootKnown, PointsInside DEF Exclusive, Mine, Publishes, Stops, At, Holding
<1>5. Workers'
  <2>1. \A t \in Thread : ~Runs(t)'
    BY <1>2 DEF Runs
  <2>2. \A k \in Kind, c \in Camera : reg'[k][c] = None
    BY <1>2
  <2> QED BY <2>1, <2>2 DEF Workers, WorkersOwned, Registered
<1> QED BY <1>3, <1>4, <1>5 DEF IInv

-----------------------------------------------------------------------------
(* The theorems. *)

LEMMA ActorStepKeeps == ASSUME IInv, NEW a \in Actor, ActorStep(a) PROVE IInv'
BY TakeKeeps, AbandonKeeps, FinishKeeps, AcquireKeeps, UnlockKeeps, RemoveKeeps, StartKeeps,
   PublishKeeps, PublishFailsKeeps, VlmStartKeeps, VlmPublishKeeps, StopKeeps, JoinKeeps,
   JoinTimesOutKeeps, HealKeeps
DEF ActorStep

LEMMA StutterKeeps == ASSUME IInv, UNCHANGED vars PROVE IInv'
<1>1. Surroundings
  BY SurroundingsKept DEF vars
<1> QED BY <1>1, RestKeeps DEF vars

LEMMA StepKeeps == IInv /\ [Next]_vars => IInv'
BY ActorStepKeeps, ExitKeeps, DieKeeps, HealingPassKeeps, AskKeeps, ShutdownKeeps, StopAllKeeps,
   RebootKeeps, StutterKeeps
DEF Next

LEMMA InitEstablishes == Init => IInv
<1> SUFFICES ASSUME Init PROVE IInv
  OBVIOUS
<1>1. requests \in 0 .. MaxRequests /\ faults \in 0 .. MaxFaults
  BY LifecycleAssumption DEF Init
<1> QED BY <1>1, BootHolds DEF Init

(* Every state of every execution satisfies the inductive invariant.       *)
THEOREM Invariance == Spec => []IInv
BY InitEstablishes, StepKeeps, PTL DEF Spec

(* A worker that runs is the one registered for its camera and kind: none  *)
(* runs twice and none is out of the reach of stop_camera; and when        *)
(* stop_camera answers True no worker of the camera runs, whoever starts,  *)
(* restarts, heals and crashes workers meanwhile.                          *)
THEOREM WorkersAreAccounted == Spec => []WorkersAccounted
<1>1. IInv => StopHonest
  <2> SUFFICES ASSUME IInv, NEW a \in Actor, At(a, "unlock"), actor[a].op \in {"stop", "delete"},
                      actor[a].stopped, NEW t \in Thread, t[2] = actor[a].cam
               PROVE  ~Runs(t)
    BY DEF StopHonest
  <2>1. Quiet(actor[a].cam, Kind, None)
    BY ActorTyped DEF Mine, Stops, Ending
  <2>2. t[1] \in Kind /\ t # None
    BY NoneApart DEF Thread
  <2> QED BY <2>1, <2>2 DEF Quiet
<1>2. IInv => WorkersAccounted
  BY <1>1, TypesMeet DEF IInv, Workers, WorkersAccounted
<1> QED BY <1>2, Invariance, PTL

(* Once the shutdown fence is up no worker begins to run, also for an      *)
(* actor that passed its checks before (_publish_camera_thread_unless_     *)
(* fenced looks again under the fence lock).                               *)
THEOREM FenceIsKept == Spec => FenceHolds
<1>1. IInv /\ [Next]_vars => [fence => \A t \in Thread : Runs(t)' => Runs(t)]_vars
  <2> SUFFICES ASSUME IInv, Next, fence, NEW t \in Thread, Runs(t)'
               PROVE  Runs(t)
    OBVIOUS
  <2>1. thread \in [Thread -> [pc : {"dead", "run", "exit"}, stop : BOOLEAN]]
    BY DEF IInv, Shapes
  <2>2. CASE UNCHANGED thread
    BY <2>2 DEF Runs
  <2>3. ASSUME NEW a \in Actor, NEW k \in Kind, Tells(a, k), a \in Actor, actor[a].cam \in Camera
        PROVE  Runs(t)
    BY <2>3, Told DEF Runs
  <2>4. CASE \E u \in Thread : Exit(u) \/ Die(u)
    BY <2>1, <2>4 DEF Exit, Die, Runs
  <2>5. CASE Reboot
    BY <2>5 DEF Reboot, Runs
  <2>6. ASSUME NEW a \in Actor, Stop(a) \/ Heal(a)
        PROVE  Runs(t)
    <3>1. actor[a].cam \in Camera /\ actor[a].kind \in Kind
      BY <2>6, ActorTyped, PointsInside DEF Stop, Heal, At, Mine
    <3> QED BY <2>2, <2>3, <2>6, <3>1, Kinds DEF Stop, Heal
  <2>7. ASSUME NEW a \in Actor, ActorStep(a), ~Stop(a), ~Heal(a)
        PROVE  UNCHANGED thread
    BY <2>7 DEF ActorStep, Take, Abandon, Finish, Acquire, Unlock, Remove, RemoveFails, Start,
       Publish, PublishFails, VlmStart, VlmPublish, VlmPublishFails, Join, JoinTimesOut, workerVars
  <2>8. ASSUME NEW h \in Handler, Ask(h)
        PROVE  UNCHANGED thread
    BY <2>8 DEF Ask, Save, SaveFails, Delete, RestartAll, Request, workerVars
  <2> QED BY <2>2, <2>4, <2>5, <2>6, <2>7, <2>8
      DEF Next, HealingPass, Shutdown, StopAll, workerVars
<1> QED BY <1>1, Invariance, PTL DEF Spec, FenceHolds

=============================================================================
