------------------- MODULE SharedInferenceSchedulerProofs -------------------
(***************************************************************************)
(* Proofs about SharedInferenceScheduler, for any cameras, registrations,  *)
(* profiles and waits.                                                     *)
(***************************************************************************)
EXTENDS SharedInferenceScheduler, DispatchPolicyProofs

(***************************************************************************)
(* The inductive invariant.  A call is known by its camera and its         *)
(* registration, because a camera has at most one call in flight: without  *)
(* this a new call could be equal to one in the pool, or two calls become  *)
(* equal as time passes, and the count would be off.                       *)
(***************************************************************************)
CallsKnown ==
    /\ IsFiniteSet(calls)
    /\ \A d, e \in calls : d.camera = e.camera /\ d.reg = e.reg => d = e
    /\ \A d \in calls : d.reg < nextReg
    /\ \A d \in calls : reg[d.camera] = d.reg => inflight[d.camera] = d.seq

CamerasKnown ==
    /\ \A c \in Camera : reg[c] < nextReg
    /\ \A c, d \in Camera : reg[c] = reg[d] /\ reg[c] # 0 => c = d
    /\ \A c \in Camera : reg[c] = 0 => queued[c] = None /\ completed[c] = None /\ inflight[c] = 0
    /\ \A c \in Camera : inflight[c] # 0 => completed[c] = None

IInv == TypeOK /\ CallsKnown /\ CamerasKnown /\ SlotsExact /\ WorkAccounted

-----------------------------------------------------------------------------
(* Constants and places. *)

LEMMA Constants ==
    /\ IsFiniteSet(Camera)
    /\ MaxWorkers \in Nat /\ MaxSequence \in Nat /\ MaxRegistrations \in Nat
    /\ SingletonWait \in Nat /\ Batch2Wait \in Nat /\ UrgentBurst \in Nat
    /\ None \notin Work /\ None \notin Answer
    /\ Never \in Int /\ Never \notin Nat
BY PolicyAssumption, SchedulerAssumption, NoneAssumption DEF Never

LEMMA Modulo == \A m, n \in Nat : n > 0 => m % n \in 0 .. n - 1
OBVIOUS

(* The number of slots that are in use.                                    *)
LEMMA HoldsFinite ==
    ASSUME NEW s
    PROVE  /\ IsFiniteSet({c \in Camera : s[c] # None})
           /\ Holds(s) \in Nat
<1>1. {c \in Camera : s[c] # None} \in SUBSET Camera
  OBVIOUS
<1>2. IsFiniteSet({c \in Camera : s[c] # None})
  BY <1>1, Constants, FS_Subset
<1> QED BY <1>2, FS_CardinalityType DEF Holds

LEMMA HoldsOneChanged ==
    ASSUME NEW s, DOMAIN s = Camera, NEW c \in Camera, NEW x
    PROVE  Holds([s EXCEPT ![c] = x]) = Holds(s) - Held(s[c]) + Held(x)
<1> DEFINE U == {d \in Camera : s[d] # None}
           V == {d \in Camera : [s EXCEPT ![c] = x][d] # None}
<1>1. IsFiniteSet(U) /\ Cardinality(U) \in Nat /\ Cardinality(V) \in Nat
  BY HoldsFinite DEF Holds
<1>2. V = IF x = None THEN U \ {c} ELSE U \cup {c}
  OBVIOUS
<1>3. c \in U <=> s[c] # None
  OBVIOUS
<1>4. Cardinality(V) = Cardinality(U) - Held(s[c]) + Held(x)
  <2> HIDE DEF U, V
  <2>1. Cardinality(U \ {c}) = IF c \in U THEN Cardinality(U) - 1 ELSE Cardinality(U)
    BY <1>1, FS_RemoveElement
  <2>2. Cardinality(U \cup {c}) = IF c \in U THEN Cardinality(U) ELSE Cardinality(U) + 1
    BY <1>1, FS_AddElement
  <2>3. CASE x = None
    BY <2>1, <2>3, <1>1, <1>2, <1>3 DEF Held
  <2>4. CASE x # None
    BY <2>2, <2>4, <1>1, <1>2, <1>3 DEF Held
  <2> QED BY <2>3, <2>4
<1> QED BY <1>4 DEF Holds

LEMMA HoldsSomeEmptied ==
    ASSUME NEW s, NEW t, NEW B \in SUBSET {c \in Camera : s[c] # None},
           \A c \in Camera : t[c] = IF c \in B THEN None ELSE s[c]
    PROVE  /\ IsFiniteSet(B)
           /\ Holds(t) = Holds(s) - Cardinality(B)
<1> DEFINE U == {c \in Camera : s[c] # None}
           V == {c \in Camera : t[c] # None}
<1>1. IsFiniteSet(U)
  BY HoldsFinite
<1>2. IsFiniteSet(B)
  BY <1>1, FS_Subset
<1>3. V = U \ B /\ U \cap B = B
  OBVIOUS
<1>4. Cardinality(V) = Cardinality(U) - Cardinality(B)
  <2> HIDE DEF U, V
  <2> QED BY <1>1, <1>3, FS_Difference
<1> QED BY <1>2, <1>4 DEF Holds

(* The registered cameras have different places below their number.        *)
LEMMA PlacesKnown ==
    ASSUME TypeOK, CamerasKnown
    PROVE  /\ IsFiniteSet(Registered) /\ Count \in Nat
           /\ Placed(Place, Count, Registered)
<1>1. Registered \in SUBSET Camera
  BY DEF Registered
<1>2. IsFiniteSet(Registered) /\ Count \in Nat
  BY <1>1, Constants, FS_Subset, FS_CardinalityType DEF Count
<1>3. OneToOne(reg, Registered)
  BY Constants DEF OneToOne, TypeOK, CamerasKnown, Registered
<1>4. \A c \in Registered : Place[c] = Cardinality(Before(reg, Registered, c))
  BY DEF Place, Before
<1>5. \A c \in Registered : Place[c] \in 0 .. Count - 1
  BY <1>2, <1>3, <1>4, RankGrows DEF Count
<1>6. \A c, d \in Registered : Place[c] = Place[d] => c = d
  <2> SUFFICES ASSUME NEW c \in Registered, NEW d \in Registered, Place[c] = Place[d], c # d
               PROVE  FALSE
    OBVIOUS
  <2>1. reg[c] < reg[d] \/ reg[d] < reg[c]
    BY <1>3 DEF OneToOne
  <2>2. Place[c] < Place[d] \/ Place[d] < Place[c]
    BY <2>1, <1>2, <1>3, <1>4, RankGrows
  <2> QED BY <2>2, <1>5, <1>2
<1> QED BY <1>2, <1>5, <1>6 DEF Placed

(* A set given by one member for each member of a finite set is finite; it *)
(* is as large as that set when these members differ.                      *)
LEMMA ImageFinite ==
    ASSUME NEW S, IsFiniteSet(S), NEW f, NEW T, T = {f[x] : x \in S}
    PROVE  /\ IsFiniteSet(T)
           /\ (\A x, y \in S : f[x] = f[y] => x = y) => Cardinality(T) = Cardinality(S)
<1> DEFINE g == [x \in S |-> f[x]]
<1>1. g \in Surjection(S, T)
  BY DEF Surjection
<1>2. IsFiniteSet(T)
  <2> HIDE DEF g
  <2> QED BY <1>1, FS_Surjection
<1>3. ASSUME \A x, y \in S : f[x] = f[y] => x = y
      PROVE  Cardinality(T) = Cardinality(S)
  <2>1. g \in Injection(S, T)
    BY <1>1, <1>3 DEF Surjection, Injection, IsInjective
  <2> HIDE DEF g
  <2> QED BY <1>1, <2>1, FS_Surjection
<1> QED BY <1>2, <1>3

(* What CHOOSE makes of the least of some numbers.                         *)
LEMMA LeastChosen ==
    ASSUME NEW T \in SUBSET Int, IsFiniteSet(T), T # {}
    PROVE  /\ (CHOOSE t \in T : \A u \in T : t <= u) \in T
           /\ \A v \in T : (CHOOSE t \in T : \A u \in T : t <= u) <= v
<1> DEFINE f == [t \in T |-> t]
<1>1. OneToOne(f, T)
  BY DEF OneToOne
<1>2. \E t \in T : \A u \in T : f[t] <= f[u]
  <2> HIDE DEF f
  <2> QED BY <1>1, Extremes
<1>3. \E t \in T : \A u \in T : t <= u
  BY <1>2
<1> QED BY <1>3

-----------------------------------------------------------------------------
(* Steps of the cameras and of the threads. *)

Threads ==
    /\ phase' \in {"new", "open", "closing", "closed"}
    /\ stopper' \in {"idle", "join", "drain"}
    /\ sched' \in {"off", "awake", "asleep"}
    /\ wake' \in Left

LEMMA NotifyTyped == TypeOK /\ Notify => sched' \in {"off", "awake", "asleep"} /\ wake' \in Left
BY DEF TypeOK, Notify, Left

(* Steps that move threads only.                                           *)
LEMMA QuietKeeps ==
    ASSUME IInv, Threads,
           UNCHANGED <<reg, nextReg, queued, inflight, completed, last, calls, total,
                       cursor, streak, accounted>>
    PROVE  IInv'
<1>1. TypeOK'
  BY DEF IInv, TypeOK, Threads, Count, Registered
<1>2. CallsKnown' /\ CamerasKnown'
  BY DEF IInv, CallsKnown, CamerasKnown
<1>3. SlotsExact' /\ WorkAccounted'
  BY DEF IInv, SlotsExact, WorkAccounted, Holds
<1> QED BY <1>1, <1>2, <1>3 DEF IInv

LEMMA StartKeeps == ASSUME IInv, Start PROVE IInv'
<1>1. Threads
  BY DEF IInv, TypeOK, Start, Threads
<1> QED BY <1>1, QuietKeeps DEF Start, cameraVars, pickVars

LEMMA SchedulerExitsKeeps == ASSUME IInv, SchedulerExits PROVE IInv'
<1>1. Threads
  BY DEF IInv, TypeOK, SchedulerExits, Threads, threadVars, Left
<1> QED BY <1>1, QuietKeeps DEF SchedulerExits, cameraVars, pickVars

LEMMA StopUnstartedKeeps == ASSUME IInv, StopUnstarted PROVE IInv'
<1>1. Threads
  BY DEF IInv, TypeOK, StopUnstarted, Threads, waitVars
<1> QED BY <1>1, QuietKeeps DEF StopUnstarted, cameraVars, pickVars

LEMMA StopTimesOutKeeps == ASSUME IInv, StopTimesOut PROVE IInv'
<1>1. Threads
  BY DEF IInv, TypeOK, StopTimesOut, Threads, waitVars
<1> QED BY <1>1, QuietKeeps DEF StopTimesOut, cameraVars, pickVars

LEMMA StopJoinsKeeps == ASSUME IInv, StopJoins PROVE IInv'
<1>1. Threads
  BY DEF IInv, TypeOK, StopJoins, Threads, waitVars
<1> QED BY <1>1, QuietKeeps DEF StopJoins, cameraVars, pickVars

LEMMA StopEndsKeeps == ASSUME IInv, StopEnds PROVE IInv'
<1>1. Threads
  BY NotifyTyped DEF IInv, StopEnds, Threads
<1> QED BY <1>1, QuietKeeps DEF StopEnds, cameraVars, pickVars

(* The number of registered cameras follows the registrations.             *)
LEMMA RegisterCounts ==
    ASSUME IInv, NEW c \in Camera, Register(c)
    PROVE  Count' = Count + 1
<1>1. IsFiniteSet(Registered)
  BY PlacesKnown DEF IInv
<1>2. c \notin Registered /\ Registered' = Registered \cup {c}
  BY DEF Registered, Register, IInv, TypeOK
<1> QED BY <1>1, <1>2, FS_AddElement DEF Count

LEMMA UnregisterCounts ==
    ASSUME IInv, NEW c \in Camera, Unregister(c)
    PROVE  Count' = Count - 1
<1>1. IsFiniteSet(Registered)
  BY PlacesKnown DEF IInv
<1>2. c \in Registered /\ Registered' = Registered \ {c}
  BY DEF Registered, Unregister, IInv, TypeOK
<1> QED BY <1>1, <1>2, FS_RemoveElement DEF Count

LEMMA RegisterKeeps == ASSUME IInv, NEW c \in Camera, Register(c) PROVE IInv'
<1>1. sched' \in {"off", "awake", "asleep"} /\ wake' \in Left
  BY NotifyTyped DEF IInv, Register
<1>2. Count' = Count + 1 /\ Count \in Nat
  BY RegisterCounts, PlacesKnown DEF IInv
<1>3. nextReg \in 1 .. MaxRegistrations /\ MaxRegistrations \in Nat
  BY Constants DEF IInv, TypeOK, Register
<1>4. reg' \in [Camera -> 0 .. MaxRegistrations] /\ nextReg' \in 1 .. MaxRegistrations + 1
  BY <1>3 DEF IInv, TypeOK, Register
<1>5. cursor' \in Nat /\ (cursor' = 0 \/ cursor' < Count')
  BY <1>2 DEF IInv, TypeOK, Register, pickVars
<1>6. TypeOK'
  BY <1>1, <1>4, <1>5 DEF IInv, TypeOK, Register, threadVars, pickVars
<1>7. CallsKnown'
  <2>1. \A d \in calls : d.reg < nextReg'
    BY <1>3 DEF IInv, CallsKnown, Register, TypeOK, Call
  <2>2. \A d \in calls : reg'[d.camera] = d.reg => inflight[d.camera] = d.seq
    BY <1>3 DEF IInv, CallsKnown, Register, TypeOK, Call
  <2> QED BY <2>1, <2>2 DEF IInv, CallsKnown, Register
<1>8. CamerasKnown'
  BY <1>3 DEF IInv, CamerasKnown, Register, TypeOK
<1>9. SlotsExact' /\ WorkAccounted'
  BY DEF IInv, SlotsExact, WorkAccounted, Holds, Register
<1> QED BY <1>6, <1>7, <1>8, <1>9 DEF IInv

LEMMA UnregisterKeeps == ASSUME IInv, NEW c \in Camera, Unregister(c) PROVE IInv'
<1>1. sched' \in {"off", "awake", "asleep"} /\ wake' \in Left
  BY NotifyTyped DEF IInv, Unregister
<1>2. Count' = Count - 1 /\ Count \in Nat
  BY UnregisterCounts, PlacesKnown DEF IInv
<1>3. cursor' \in Nat /\ (cursor' = 0 \/ cursor' < Count')
  <2>1. cursor \in Nat
    BY DEF IInv, TypeOK
  <2>2. CASE Count > 1
    <3>1. Count - 1 \in Nat /\ Count - 1 > 0
      BY <1>2, <2>2
    <3>2. cursor % (Count - 1) \in 0 .. Count - 1 - 1
      BY <2>1, <3>1, Modulo
    <3> QED BY <2>2, <3>1, <3>2, <1>2 DEF Unregister
  <2>3. CASE ~(Count > 1)
    BY <2>3 DEF Unregister
  <2> QED BY <2>2, <2>3
<1>4. WorkAccounted'
  <2>1. Holds(queued') = Holds(queued) - Held(queued[c]) + 0
    BY HoldsOneChanged DEF IInv, TypeOK, Unregister, Held
  <2>2. Holds(completed') = Holds(completed) - Held(completed[c]) + 0
    BY HoldsOneChanged DEF IInv, TypeOK, Unregister, Held
  <2>3. /\ Holds(queued) \in Nat /\ Holds(completed) \in Nat /\ Cardinality(calls) \in Nat
        /\ Held(queued[c]) \in Nat /\ Held(completed[c]) \in Nat
    BY HoldsFinite, FS_CardinalityType DEF IInv, CallsKnown, Held
  <2>4. accounted' = accounted - Held(queued[c]) - Held(completed[c]) /\ calls' = calls
    BY DEF Unregister
  <2>5. WorkAccounted' <=> accounted' = Holds(queued') + Cardinality(calls') + Holds(completed')
    BY DEF WorkAccounted, Holds
  <2> QED BY <2>1, <2>2, <2>3, <2>4, <2>5 DEF IInv, WorkAccounted
<1>5. accounted' \in Nat
  <2>1. Holds(queued') \in Nat /\ Holds(completed') \in Nat /\ Cardinality(calls') \in Nat
    BY HoldsFinite, FS_CardinalityType DEF IInv, CallsKnown, Unregister
  <2> QED BY <1>4, <2>1 DEF WorkAccounted, Holds
<1>6. TypeOK'
  BY <1>1, <1>3, <1>5, Constants DEF IInv, TypeOK, Unregister, threadVars
<1>7. CallsKnown'
  BY DEF IInv, CallsKnown, Unregister, TypeOK, Call
<1>8. CamerasKnown'
  BY DEF IInv, CamerasKnown, Unregister, TypeOK
<1>9. SlotsExact'
  BY DEF IInv, SlotsExact, Unregister
<1> QED BY <1>4, <1>6, <1>7, <1>8, <1>9 DEF IInv

LEMMA OfferKeeps == ASSUME IInv, NEW c \in Camera, NEW work \in Offered, Offer(c, work) PROVE IInv'
<1>1. sched' \in {"off", "awake", "asleep"} /\ wake' \in Left
  BY NotifyTyped DEF IInv, Offer
<1>2. PICK w \in Work : queued' = [queued EXCEPT ![c] = w]
  <2>1. work \in Work
    <3>1. Lifetimes \subseteq Left
      BY SchedulerAssumption DEF Left
    <3>2. 0 \in 0 .. SingletonWait
      BY Constants
    <3> QED BY <3>1, <3>2 DEF Offered, Work
  <2>2. \A u \in BOOLEAN : [work EXCEPT !.urgent = u] \in Work
    BY <2>1 DEF Work
  <2>3. work.urgent \/ (queued[c] # None /\ queued[c].urgent) \in BOOLEAN
    BY <2>1 DEF Work, IInv, TypeOK
  <2> QED BY <2>2, <2>3 DEF Offer
<1>3. w # None /\ work.seq \in 0 .. MaxSequence
  BY Constants DEF Offered
<1>4. WorkAccounted' /\ accounted' \in Nat
  <2>1. Holds(queued') = Holds(queued) - Held(queued[c]) + 1
    <3>1. Held(w) = 1
      BY <1>3 DEF Held
    <3>2. DOMAIN queued = Camera
      BY DEF IInv, TypeOK
    <3>3. Holds([queued EXCEPT ![c] = w]) = Holds(queued) - Held(queued[c]) + Held(w)
      BY <3>2, HoldsOneChanged
    <3> QED BY <1>2, <3>1, <3>3
  <2>2. accounted' = accounted - Held(queued[c]) + 1
    BY DEF Offer, Held, IInv, TypeOK
  <2>3. /\ Holds(queued) \in Nat /\ Holds(completed) \in Nat /\ Cardinality(calls) \in Nat
        /\ Holds(queued') \in Nat /\ Held(queued[c]) \in Nat
    BY HoldsFinite, FS_CardinalityType DEF IInv, CallsKnown, Held
  <2>4. calls' = calls /\ completed' = completed
    BY DEF Offer
  <2>5. WorkAccounted' <=> accounted' = Holds(queued') + Cardinality(calls') + Holds(completed')
    BY DEF WorkAccounted, Holds
  <2> QED BY <2>1, <2>2, <2>3, <2>4, <2>5 DEF IInv, WorkAccounted
<1>5. TypeOK'
  BY <1>1, <1>2, <1>3, <1>4 DEF IInv, TypeOK, Offer, threadVars, cameraVars, pickVars, Count, Registered
<1>6. CallsKnown'
  BY DEF IInv, CallsKnown, Offer, cameraVars
<1>7. CamerasKnown'
  BY <1>2 DEF IInv, CamerasKnown, Offer, cameraVars, TypeOK
<1>8. SlotsExact'
  BY DEF IInv, SlotsExact, Offer
<1> QED BY <1>4, <1>5, <1>6, <1>7, <1>8 DEF IInv

LEMMA TakeResultKeeps == ASSUME IInv, NEW c \in Camera, TakeResult(c) PROVE IInv'
<1>1. sched' \in {"off", "awake", "asleep"} /\ wake' \in Left
  BY NotifyTyped DEF IInv, TakeResult
<1>2. WorkAccounted' /\ accounted' \in Nat
  <2>1. Holds(completed') = Holds(completed) - 1 + 0
    <3>1. Held(completed[c]) = 1 /\ Held(None) = 0
      BY DEF Held, TakeResult
    <3>2. DOMAIN completed = Camera
      BY DEF IInv, TypeOK
    <3>3. Holds([completed EXCEPT ![c] = None])
            = Holds(completed) - Held(completed[c]) + Held(None)
      BY <3>2, HoldsOneChanged
    <3> QED BY <3>1, <3>3 DEF TakeResult
  <2>2. /\ Holds(queued) \in Nat /\ Holds(completed) \in Nat /\ Cardinality(calls) \in Nat
        /\ Holds(completed') \in Nat
    BY HoldsFinite, FS_CardinalityType DEF IInv, CallsKnown
  <2>3. accounted' = accounted - 1 /\ calls' = calls /\ queued' = queued
    BY DEF TakeResult
  <2>4. WorkAccounted' <=> accounted' = Holds(queued') + Cardinality(calls') + Holds(completed')
    BY DEF WorkAccounted, Holds
  <2> QED BY <2>1, <2>2, <2>3, <2>4 DEF IInv, WorkAccounted
<1>3. TypeOK'
  BY <1>1, <1>2 DEF IInv, TypeOK, TakeResult, threadVars, cameraVars, pickVars, Count, Registered
<1>4. CallsKnown' /\ CamerasKnown' /\ SlotsExact'
  BY DEF IInv, CallsKnown, CamerasKnown, SlotsExact, TakeResult, cameraVars, TypeOK
<1> QED BY <1>2, <1>3, <1>4 DEF IInv

LEMMA StopBeginsKeeps == ASSUME IInv, StopBegins PROVE IInv'
<1>1. sched' \in {"off", "awake", "asleep"} /\ wake' \in Left
  BY NotifyTyped DEF IInv, StopBegins
<1>2. WorkAccounted' /\ accounted' \in Nat
  <2>1. Holds(queued') = 0
    <3>1. {c \in Camera : queued'[c] # None} = {}
      BY DEF StopBegins
    <3> QED BY <3>1, FS_EmptySet DEF Holds
  <2>2. Holds(queued) \in Nat /\ Holds(completed) \in Nat /\ Cardinality(calls) \in Nat
    BY HoldsFinite, FS_CardinalityType DEF IInv, CallsKnown
  <2>3. accounted' = accounted - Holds(queued) /\ calls' = calls /\ completed' = completed
    BY DEF StopBegins
  <2>4. WorkAccounted' <=> accounted' = Holds(queued') + Cardinality(calls') + Holds(completed')
    BY DEF WorkAccounted, Holds
  <2> QED BY <2>1, <2>2, <2>3, <2>4 DEF IInv, WorkAccounted
<1>3. TypeOK'
  BY <1>1, <1>2 DEF IInv, TypeOK, StopBegins, cameraVars, pickVars, Count, Registered
<1>4. CallsKnown' /\ CamerasKnown' /\ SlotsExact'
  BY DEF IInv, CallsKnown, CamerasKnown, SlotsExact, StopBegins, cameraVars
<1> QED BY <1>2, <1>3, <1>4 DEF IInv

-----------------------------------------------------------------------------
(* Steps of the scheduler. *)

(* What is left of the slots when the expired frames are dropped.          *)
LEMMA FreshKnown ==
    ASSUME IInv
    PROVE  /\ Fresh \in [Camera -> Work \cup {None}]
           /\ \A c \in Camera : Fresh[c] # None => Fresh[c] = queued[c]
           /\ Holds(Fresh) <= Holds(queued)
<1> DEFINE B == {c \in Camera : queued[c] # None /\ Expired(queued[c])}
<1>1. Fresh \in [Camera -> Work \cup {None}]
  BY DEF Fresh, IInv, TypeOK
<1>2. \A c \in Camera : Fresh[c] # None => Fresh[c] = queued[c]
  BY DEF Fresh
<1>3. B \in SUBSET {c \in Camera : queued[c] # None}
  OBVIOUS
<1>4. \A c \in Camera : Fresh[c] = IF c \in B THEN None ELSE queued[c]
  BY DEF Fresh
<1>5. IsFiniteSet(B) /\ Holds(Fresh) = Holds(queued) - Cardinality(B)
  <2> HIDE DEF B
  <2> QED BY <1>3, <1>4, HoldsSomeEmptied
<1>6. Cardinality(B) \in Nat /\ Holds(queued) \in Nat
  BY <1>5, FS_CardinalityType, HoldsFinite
<1> HIDE DEF B
<1> QED BY <1>1, <1>2, <1>5, <1>6

(* The times the timer is set from are whole numbers of ticks.             *)
LEMMA WakeTimesKnown ==
    ASSUME NEW slots \in [Camera -> Work \cup {None}],
           NEW waiting \in SUBSET {c \in Camera : slots[c] # None},
           NEW ready \in SUBSET waiting, NEW capacity
    PROVE  /\ WakeTimes(slots, waiting, ready, capacity) \in SUBSET Int
           /\ IsFiniteSet(WakeTimes(slots, waiting, ready, capacity))
<1> DEFINE times == WakeTimes(slots, waiting, ready, capacity)
           solo  == {d \in ready : ~slots[d].urgent}
           pairs == {d \in ready : /\ Limit(slots, d) >= 2 /\ capacity >= 2
                                   /\ Cardinality(Group(slots, ready, d)) >= 2}
           leaves == {slots[c].left : c \in waiting}
           alone  == {SingletonWait - slots[c].waited : c \in solo}
           joined == {Batch2Wait - slots[c].waited : c \in pairs}
<1>1. IsFiniteSet(waiting) /\ IsFiniteSet(solo) /\ IsFiniteSet(pairs)
  <2>1. waiting \in SUBSET Camera /\ solo \in SUBSET Camera /\ pairs \in SUBSET Camera
    OBVIOUS
  <2> HIDE DEF solo, pairs
  <2> QED BY <2>1, Constants, FS_Subset
<1>2. IsFiniteSet(leaves)
  <2> DEFINE f == [c \in waiting |-> slots[c].left]
  <2>1. leaves = {f[c] : c \in waiting}
    OBVIOUS
  <2> HIDE DEF f, leaves
  <2> QED BY <2>1, <1>1, ImageFinite
<1>3. IsFiniteSet(alone)
  <2> DEFINE f == [c \in solo |-> SingletonWait - slots[c].waited]
  <2>1. alone = {f[c] : c \in solo}
    OBVIOUS
  <2> HIDE DEF f, alone, solo
  <2> QED BY <2>1, <1>1, ImageFinite
<1>4. IsFiniteSet(joined)
  <2> DEFINE f == [c \in pairs |-> Batch2Wait - slots[c].waited]
  <2>1. joined = {f[c] : c \in pairs}
    OBVIOUS
  <2> HIDE DEF f, joined, pairs
  <2> QED BY <2>1, <1>1, ImageFinite
<1>5. leaves \subseteq Int /\ alone \subseteq Int /\ joined \subseteq Int
  <2>1. \A c \in waiting : slots[c].left \in Int /\ slots[c].waited \in Int
    BY Constants DEF Work, Left
  <2> QED BY <2>1, Constants
<1>6. times \in SUBSET (leaves \cup alone \cup joined)
  BY DEF WakeTimes
<1>7. IsFiniteSet(times) /\ times \in SUBSET Int
  <2> HIDE DEF times, leaves, alone, joined
  <2>1. IsFiniteSet(leaves \cup alone \cup joined)
    BY <1>2, <1>3, <1>4, FS_Union
  <2> QED BY <2>1, <1>5, <1>6, FS_Subset
<1> QED BY <1>7

(* The scheduler sleeps for a number of ticks, or until it is notified.    *)
LEMMA WakeDelayTyped ==
    ASSUME NEW slots \in [Camera -> Work \cup {None}],
           NEW waiting \in SUBSET {c \in Camera : slots[c] # None},
           NEW ready \in SUBSET waiting, NEW capacity
    PROVE  WakeDelay(slots, waiting, ready, capacity) \in Left
<1> DEFINE times == WakeTimes(slots, waiting, ready, capacity)
<1>1. IsFiniteSet(times) /\ times \in SUBSET Int
  BY WakeTimesKnown
<1> HIDE DEF times
<1>2. CASE times = {}
  BY <1>2 DEF WakeDelay, Left, times
<1>3. CASE times # {}
  <2> DEFINE least == CHOOSE t \in times : \A u \in times : t <= u
  <2>1. least \in Int
    <3>1. least \in times
      BY <1>1, <1>3, LeastChosen
    <3> HIDE DEF least
    <3> QED BY <3>1, <1>1
  <2>2. WakeDelay(slots, waiting, ready, capacity) = IF least < 0 THEN 0 ELSE least
    BY <1>3 DEF WakeDelay, times
  <2> HIDE DEF least
  <2> QED BY <2>1, <2>2 DEF Left
<1> QED BY <1>2, <1>3

LEMMA SchedulerSleepsKeeps == ASSUME IInv, SchedulerSleeps PROVE IInv'
<1>1. /\ Fresh \in [Camera -> Work \cup {None}]
      /\ \A c \in Camera : Fresh[c] # None => Fresh[c] = queued[c]
      /\ Holds(Fresh) <= Holds(queued)
  BY FreshKnown
<1>2. wake' \in Left
  <2>1. Ready(Fresh) \in SUBSET {c \in Camera : Fresh[c] # None}
    BY DEF Ready
  <2> QED BY <2>1, <1>1, WakeDelayTyped DEF SchedulerSleeps
<1>3. WorkAccounted' /\ accounted' \in Nat
  <2>1. Holds(queued') = Holds(Fresh)
    BY DEF SchedulerSleeps
  <2>2. /\ Holds(queued) \in Nat /\ Holds(Fresh) \in Nat
        /\ Holds(completed) \in Nat /\ Cardinality(calls) \in Nat
    BY HoldsFinite, FS_CardinalityType DEF IInv, CallsKnown
  <2>3. /\ accounted' = accounted - (Holds(queued) - Holds(Fresh))
        /\ calls' = calls /\ completed' = completed
    BY DEF SchedulerSleeps
  <2>4. WorkAccounted' <=> accounted' = Holds(queued') + Cardinality(calls') + Holds(completed')
    BY DEF WorkAccounted, Holds
  <2> QED BY <2>1, <2>2, <2>3, <2>4 DEF IInv, WorkAccounted
<1>4. TypeOK'
  BY <1>1, <1>2, <1>3
  DEF IInv, TypeOK, SchedulerSleeps, threadVars, cameraVars, pickVars, Count, Registered
<1>5. CallsKnown' /\ CamerasKnown' /\ SlotsExact'
  BY <1>1 DEF IInv, CallsKnown, CamerasKnown, SlotsExact, SchedulerSleeps, cameraVars
<1> QED BY <1>3, <1>4, <1>5 DEF IInv

(* A batch is chosen from the ready cameras, and fits into the pool.       *)
LEMMA ReadyKnown ==
    ASSUME IInv
    PROVE  /\ Ready(Fresh) \subseteq Registered /\ IsFiniteSet(Ready(Fresh))
           /\ Placed(Place, Count, Ready(Fresh))
           /\ Count \in Nat
<1>1. \A c \in Camera : Fresh[c] # None => Fresh[c] = queued[c]
  BY FreshKnown
<1>2. IsFiniteSet(Registered) /\ Count \in Nat /\ Placed(Place, Count, Registered)
  BY PlacesKnown DEF IInv
<1>3. Ready(Fresh) \in SUBSET Registered
  BY <1>1 DEF Ready, Registered, IInv, CamerasKnown
<1>4. IsFiniteSet(Ready(Fresh))
  BY <1>2, <1>3, FS_Subset
<1> QED BY <1>2, <1>3, <1>4 DEF Placed

LEMMA ChoiceKnown ==
    ASSUME IInv, NEW choice \in Due
    PROVE  /\ Legal(choice.batch, Fresh, Ready(Fresh), Capacity, choice.seed)
           /\ choice.batch \subseteq Ready(Fresh)
           /\ choice.streak \in 0 .. UrgentBurst
<1>1. Capacity \in Int
  BY Constants DEF Capacity, IInv, TypeOK
<1>2. \A c \in Ready(Fresh) : Fresh[c].profile \in DOMAIN BatchLimit
  BY FreshKnown DEF Ready, Work, Profile
<1>3. streak \in 0 .. UrgentBurst
  BY DEF IInv, TypeOK
<1>4. /\ Legal(choice.batch, Fresh, Ready(Fresh), Capacity, choice.seed)
      /\ choice.streak \in 0 .. UrgentBurst
  BY <1>1, <1>2, <1>3, ReadyKnown, ChoicesLegal DEF Due
<1>5. choice.batch \subseteq Ready(Fresh)
  BY <1>4 DEF Legal, Group
<1> QED BY <1>4, <1>5

LEMMA SchedulerDispatchesKeeps == ASSUME IInv, SchedulerDispatches PROVE IInv'
<1> DEFINE entry(c) == [camera |-> c, reg |-> reg[c], seq |-> Fresh[c].seq,
                        left |-> Fresh[c].left, pc |-> "pending"]
<1>1. /\ Fresh \in [Camera -> Work \cup {None}]
      /\ \A c \in Camera : Fresh[c] # None => Fresh[c] = queued[c]
      /\ Holds(Fresh) <= Holds(queued)
  BY FreshKnown
<1>2. PICK choice \in Due :
        /\ queued' = [c \in Camera |-> IF c \in choice.batch THEN None ELSE Fresh[c]]
        /\ inflight' = [c \in Camera |-> IF c \in choice.batch THEN Fresh[c].seq ELSE inflight[c]]
        /\ calls' = calls \cup {entry(c) : c \in choice.batch}
        /\ total' = total + Cardinality(choice.batch)
        /\ \E c \in LastOf(Place, Count, choice) : cursor' = CursorAfter(Place, Count, c)
        /\ streak' = choice.streak
  BY DEF SchedulerDispatches
<1> DEFINE B == choice.batch
           new == {entry(c) : c \in B}
<1>3. /\ Ready(Fresh) \subseteq Registered /\ IsFiniteSet(Ready(Fresh))
      /\ Placed(Place, Count, Ready(Fresh))
      /\ Count \in Nat
  BY ReadyKnown
<1>4. Capacity \in Int /\ total + Capacity = MaxWorkers /\ total \in Nat
  BY Constants DEF Capacity, IInv, TypeOK
<1>5. /\ Legal(B, Fresh, Ready(Fresh), Capacity, choice.seed)
      /\ choice.streak \in 0 .. UrgentBurst
  BY ChoiceKnown
<1>6. /\ B \subseteq Ready(Fresh) /\ IsFiniteSet(B)
      /\ Cardinality(B) \in Nat /\ Cardinality(B) <= Capacity
  BY <1>5, ChoiceKnown DEF Legal
<1>7. \A c \in B : /\ c \in Camera /\ reg[c] \in 1 .. MaxRegistrations /\ reg[c] < nextReg
                  /\ Fresh[c] \in Work /\ Fresh[c] # None
                  /\ Fresh[c].seq \in 1 .. MaxSequence /\ Fresh[c].left \in Left
                  /\ inflight[c] = 0 /\ completed[c] = None
  <2>1. \A c \in B : c \in Camera /\ c \in Registered
    BY <1>3, <1>6 DEF Ready
  <2>2. \A c \in B : reg[c] \in 1 .. MaxRegistrations /\ reg[c] < nextReg
    BY <2>1 DEF Registered, IInv, TypeOK, CamerasKnown
  <2>3. \A c \in B : Fresh[c] \in Work /\ Fresh[c] # None
    BY <2>1, <1>1, <1>6 DEF Ready
  <2>4. \A c \in B : inflight[c] = 0 /\ completed[c] = None
    BY <1>6 DEF Ready
  <2> QED BY <2>1, <2>2, <2>3, <2>4 DEF Work
<1>8. \A d \in new : \E c \in B : d = entry(c)
  OBVIOUS
<1>9. new \subseteq Call
  BY <1>7 DEF Call
<1>10. new \cap calls = {}
  <2> SUFFICES ASSUME NEW c \in B, entry(c) \in calls
               PROVE  FALSE
    OBVIOUS
  <2>1. entry(c).camera = c /\ entry(c).reg = reg[c] /\ entry(c).seq = Fresh[c].seq
    OBVIOUS
  <2>2. inflight[c] = Fresh[c].seq
    BY <2>1 DEF IInv, CallsKnown
  <2> QED BY <2>2, <1>7
<1>11. /\ IsFiniteSet(calls') /\ Cardinality(calls') = Cardinality(calls) + Cardinality(B)
       /\ Cardinality(calls) \in Nat
  <2> DEFINE f == [c \in B |-> entry(c)]
  <2>1. new = {f[c] : c \in B}
    OBVIOUS
  <2>2. \A c, d \in B : f[c] = f[d] => c = d
    <3>1. \A c \in B : f[c].camera = c
      OBVIOUS
    <3> QED BY <3>1
  <2>3. IsFiniteSet(new) /\ Cardinality(new) = Cardinality(B)
    <3> HIDE DEF new, f, B
    <3> QED BY <2>1, <2>2, <1>6, ImageFinite
  <2>4. IsFiniteSet(calls) /\ Cardinality(calls) \in Nat
    BY FS_CardinalityType DEF IInv, CallsKnown
  <2>5. calls' = calls \cup new /\ calls \cap new = {}
    BY <1>2, <1>10
  <2>6. Cardinality({}) = 0
    BY FS_EmptySet
  <2> HIDE DEF new, B
  <2>7. /\ IsFiniteSet(calls \cup new)
        /\ Cardinality(calls \cup new)
             = Cardinality(calls) + Cardinality(new) - Cardinality(calls \cap new)
    BY <2>3, <2>4, FS_Union
  <2>8. IsFiniteSet(calls') /\ Cardinality(calls') = Cardinality(calls) + Cardinality(B) - 0
    BY <2>3, <2>5, <2>6, <2>7
  <2>9. Cardinality(B) \in Nat
    BY <1>6
  <2> QED BY <2>4, <2>8, <2>9
<1>12. SlotsExact' /\ total' \in 0 .. MaxWorkers
  BY <1>2, <1>4, <1>6, <1>11 DEF IInv, SlotsExact
<1>13. WorkAccounted' /\ accounted' \in Nat
  <2>1. Holds(queued') = Holds(Fresh) - Cardinality(B)
    <3>1. B \in SUBSET {c \in Camera : Fresh[c] # None}
      BY <1>7
    <3>2. \A c \in Camera : queued'[c] = IF c \in B THEN None ELSE Fresh[c]
      BY <1>2
    <3> HIDE DEF B
    <3> QED BY <3>1, <3>2, HoldsSomeEmptied
  <2>2. /\ Holds(queued) \in Nat /\ Holds(Fresh) \in Nat /\ Holds(queued') \in Nat
        /\ Holds(completed) \in Nat
    BY HoldsFinite
  <2>3. accounted' = accounted - (Holds(queued) - Holds(Fresh)) /\ completed' = completed
    BY DEF SchedulerDispatches
  <2>4. WorkAccounted' <=> accounted' = Holds(queued') + Cardinality(calls') + Holds(completed')
    BY DEF WorkAccounted, Holds
  <2> HIDE DEF B
  <2> QED BY <2>1, <2>2, <2>3, <2>4, <1>6, <1>11 DEF IInv, WorkAccounted
<1>14. cursor' \in Nat /\ cursor' < Count
  <2>1. PICK c \in B : cursor' = (Place[c] + 1) % Count
    BY <1>2 DEF LastOf, CursorAfter
  <2>2. Place[c] \in 0 .. Count - 1
    BY <1>3, <1>6 DEF Placed
  <2>3. Place[c] + 1 \in Nat /\ Count > 0
    BY <2>2, <1>3
  <2>4. (Place[c] + 1) % Count \in 0 .. Count - 1
    BY <2>3, <1>3, Modulo
  <2> QED BY <2>1, <2>4, <1>3
<1>15. TypeOK'
  <2>1. queued' \in [Camera -> Work \cup {None}]
    BY <1>1, <1>2
  <2>2. inflight' \in [Camera -> 0 .. MaxSequence]
    BY <1>2, <1>7, Constants DEF IInv, TypeOK
  <2>3. calls' \subseteq Call
    BY <1>2, <1>9 DEF IInv, TypeOK
  <2>4. Count' = Count
    BY DEF Count, Registered, SchedulerDispatches, cameraVars
  <2>5. streak' \in 0 .. UrgentBurst
    BY <1>2, <1>5
  <2> QED BY <2>1, <2>2, <2>3, <2>4, <2>5, <1>12, <1>13, <1>14
      DEF IInv, TypeOK, SchedulerDispatches, threadVars, cameraVars, Left
<1>16. CallsKnown'
  <2>1. \A d \in new : d.camera \in B /\ d.reg = reg[d.camera] /\ d.seq = Fresh[d.camera].seq
    OBVIOUS
  <2>2. \A d \in calls : d.camera \in B => d.reg # reg[d.camera]
    BY <1>7 DEF IInv, CallsKnown, TypeOK, Call
  <2>3. \A d, e \in new : d.camera = e.camera => d = e
    OBVIOUS
  <2>4. \A d, e \in calls' : d.camera = e.camera /\ d.reg = e.reg => d = e
    <3>1. calls' = calls \cup new
      BY <1>2
    <3>2. \A d, e \in calls : d.camera = e.camera /\ d.reg = e.reg => d = e
      BY DEF IInv, CallsKnown
    <3> HIDE DEF new, B
    <3> QED BY <2>1, <2>2, <2>3, <3>1, <3>2
  <2>5. \A d \in calls' : d.reg < nextReg
    <3>1. \A d \in new : d.reg < nextReg
      BY <2>1, <1>7
    <3> QED BY <1>2, <3>1 DEF IInv, CallsKnown
  <2>6. \A d \in calls' : reg[d.camera] = d.reg => inflight'[d.camera] = d.seq
    <3>1. ASSUME NEW d \in calls, reg[d.camera] = d.reg
          PROVE  inflight'[d.camera] = d.seq
      BY <3>1, <1>2, <2>2 DEF IInv, CallsKnown, TypeOK, Call
    <3>2. ASSUME NEW d \in new
          PROVE  inflight'[d.camera] = d.seq
      BY <3>2, <1>2, <1>7, <2>1
    <3> QED BY <1>2, <3>1, <3>2
  <2> QED BY <1>11, <2>4, <2>5, <2>6 DEF CallsKnown, SchedulerDispatches, cameraVars
<1>17. CamerasKnown'
  BY <1>1, <1>2, <1>7 DEF IInv, CamerasKnown, SchedulerDispatches, cameraVars
<1> QED BY <1>12, <1>13, <1>15, <1>16, <1>17 DEF IInv

-----------------------------------------------------------------------------
(* Steps of the pool and of time. *)

LEMMA MovesKeeps ==
    ASSUME IInv, NEW d \in calls,
           NEW to \in {"pending", "running", "stale", "late", "done"}, Moves(d, to)
    PROVE  IInv'
<1> DEFINE moved == [d EXCEPT !.pc = to]
<1>1. d \in Call /\ moved \in Call
  BY DEF IInv, TypeOK, Call
<1>2. /\ moved.camera = d.camera /\ moved.reg = d.reg /\ moved.seq = d.seq
  BY <1>1 DEF Call
<1>3. \A e \in calls' : \E o \in calls :
        /\ e.camera = o.camera /\ e.reg = o.reg /\ e.seq = o.seq
        /\ e = IF o = d THEN moved ELSE o
  BY <1>2 DEF Moves
<1>4. IsFiniteSet(calls') /\ Cardinality(calls') = Cardinality(calls)
  <2>1. moved \notin calls \ {d}
    BY <1>2 DEF IInv, CallsKnown
  <2>2. IsFiniteSet(calls) /\ Cardinality(calls) \in Nat
    BY FS_CardinalityType DEF IInv, CallsKnown
  <2>3. IsFiniteSet(calls \ {d}) /\ Cardinality(calls \ {d}) = Cardinality(calls) - 1
    BY <2>2, FS_RemoveElement
  <2> HIDE DEF moved
  <2>4. /\ IsFiniteSet((calls \ {d}) \cup {moved})
        /\ Cardinality((calls \ {d}) \cup {moved}) = Cardinality(calls \ {d}) + 1
    BY <2>1, <2>3, FS_AddElement
  <2>5. calls' = (calls \ {d}) \cup {moved}
    BY DEF Moves, moved
  <2>6. IsFiniteSet(calls') /\ Cardinality(calls') = Cardinality(calls) - 1 + 1
    BY <2>3, <2>4, <2>5
  <2> QED BY <2>2, <2>6
<1>5. CallsKnown'
  <2> HIDE DEF moved
  <2>1. \A e, o \in calls' : e.camera = o.camera /\ e.reg = o.reg => e = o
    BY <1>3 DEF IInv, CallsKnown
  <2>2. \A e \in calls' : e.reg < nextReg /\ (reg[e.camera] = e.reg => inflight[e.camera] = e.seq)
    BY <1>3 DEF IInv, CallsKnown
  <2> QED BY <1>4, <2>1, <2>2 DEF CallsKnown, Moves, cameraVars
<1>6. TypeOK'
  <2>1. calls' \subseteq Call
    BY <1>1 DEF Moves, IInv, TypeOK
  <2> QED BY <2>1 DEF IInv, TypeOK, Moves, threadVars, waitVars, cameraVars, pickVars, Count, Registered
<1>7. CamerasKnown'
  BY DEF IInv, CamerasKnown, Moves, cameraVars
<1>8. SlotsExact' /\ WorkAccounted'
  BY <1>4 DEF IInv, SlotsExact, WorkAccounted, Holds, Moves
<1> QED BY <1>5, <1>6, <1>7, <1>8 DEF IInv

LEMMA CompleteKeeps == ASSUME IInv, NEW d \in calls, Complete(d) PROVE IInv'
<1> DEFINE c == d.camera
           answer == [seq |-> d.seq, life |-> d.reg]
<1>1. sched' \in {"off", "awake", "asleep"} /\ wake' \in Left
  BY NotifyTyped DEF IInv, Complete
<1>2. d \in Call /\ c \in Camera /\ answer \in Answer /\ answer # None
  BY Constants DEF IInv, TypeOK, Call, Answer
<1>3. /\ IsFiniteSet(calls') /\ Cardinality(calls') = Cardinality(calls) - 1
      /\ Cardinality(calls) \in Nat /\ Cardinality(calls') \in Nat
  <2>1. IsFiniteSet(calls) /\ Cardinality(calls) \in Nat
    BY FS_CardinalityType DEF IInv, CallsKnown
  <2>2. IsFiniteSet(calls \ {d}) /\ Cardinality(calls \ {d}) = Cardinality(calls) - 1
    BY <2>1, FS_RemoveElement
  <2>3. Cardinality(calls \ {d}) \in Nat
    BY <2>2, FS_CardinalityType
  <2>4. calls' = calls \ {d}
    BY DEF Complete
  <2> QED BY <2>1, <2>2, <2>3, <2>4
<1>4. SlotsExact' /\ total' \in 0 .. MaxWorkers
  <2>1. total = Cardinality(calls) /\ total <= MaxWorkers /\ MaxWorkers \in Nat
    BY Constants DEF IInv, SlotsExact
  <2>2. total' = total - 1
    BY DEF Complete
  <2> QED BY <2>1, <2>2, <1>3 DEF SlotsExact
<1>5. Current(d) => completed[c] = None
  BY <1>2 DEF Current, IInv, CamerasKnown, Call
<1>6. WorkAccounted' /\ accounted' \in Nat
  <2>1. /\ Holds(queued) \in Nat /\ Holds(completed) \in Nat /\ Holds(completed') \in Nat
        /\ queued' = queued
    BY HoldsFinite DEF Complete
  <2>2. WorkAccounted' <=> accounted' = Holds(queued') + Cardinality(calls') + Holds(completed')
    BY DEF WorkAccounted, Holds
  <2>3. CASE Dropped(d)
    <3>1. accounted' = accounted - 1 /\ completed' = completed
      BY <2>3 DEF Complete, Dropped
    <3> QED BY <2>1, <2>2, <3>1, <1>3 DEF IInv, WorkAccounted
  <2>4. CASE ~Dropped(d)
    <3>1. accounted' = accounted /\ completed' = [completed EXCEPT ![c] = answer]
      BY <2>4 DEF Complete, Dropped
    <3>2. Held(completed[c]) = 0 /\ Held(answer) = 1
      BY <2>4, <1>2, <1>5 DEF Dropped, Held
    <3>3. DOMAIN completed = Camera
      BY DEF IInv, TypeOK
    <3>4. Holds([completed EXCEPT ![c] = answer])
            = Holds(completed) - Held(completed[c]) + Held(answer)
      <4> HIDE DEF c, answer
      <4> QED BY <1>2, <3>3, HoldsOneChanged
    <3>5. Holds(completed') = Holds(completed) - 0 + 1
      BY <3>1, <3>2, <3>4
    <3> HIDE DEF c, answer
    <3> QED BY <2>1, <2>2, <3>1, <3>5, <1>3 DEF IInv, WorkAccounted
  <2> QED BY <2>3, <2>4
<1>7. TypeOK'
  <2>1. inflight' \in [Camera -> 0 .. MaxSequence]
    <3>1. 0 \in 0 .. MaxSequence
      BY Constants
    <3>2. [inflight EXCEPT ![c] = 0] \in [Camera -> 0 .. MaxSequence]
      BY <3>1 DEF IInv, TypeOK
    <3> QED BY <3>2 DEF IInv, TypeOK, Complete
  <2>2. completed' \in [Camera -> Answer \cup {None}]
    BY <1>2 DEF IInv, TypeOK, Complete
  <2> QED BY <2>1, <2>2, <1>1, <1>4, <1>6
      DEF IInv, TypeOK, Complete, threadVars, cameraVars, pickVars, Count, Registered
<1>8. CallsKnown'
  <2>1. \A e \in calls' : reg[e.camera] = e.reg => inflight'[e.camera] = e.seq
    <3> SUFFICES ASSUME NEW e \in calls, e # d, reg[e.camera] = e.reg
                 PROVE  inflight'[e.camera] = e.seq
      BY DEF Complete
    <3>1. inflight[e.camera] = e.seq /\ e.camera \in Camera
      BY DEF IInv, CallsKnown, TypeOK, Call
    <3>2. Current(d) => e.camera # c
      BY DEF Current, IInv, CallsKnown
    <3> QED BY <3>1, <3>2 DEF Complete, IInv, TypeOK
  <2> QED BY <2>1, <1>3 DEF IInv, CallsKnown, Complete, cameraVars
<1>9. CamerasKnown'
  <2>1. \A x \in Camera : reg[x] = 0 => completed'[x] = None /\ inflight'[x] = 0
    <3>1. Current(d) => reg[c] # 0
      BY <1>2 DEF Current, Call
    <3> QED BY <3>1 DEF Complete, IInv, CamerasKnown, TypeOK
  <2>2. \A x \in Camera : inflight'[x] # 0 => completed'[x] = None
    BY DEF Complete, IInv, CamerasKnown, TypeOK
  <2> QED BY <2>1, <2>2 DEF IInv, CamerasKnown, Complete, cameraVars
<1> QED BY <1>4, <1>6, <1>7, <1>8, <1>9 DEF IInv

LEMMA TickTyped == \A left \in Left : OneTickLess(left) \in Left
BY DEF Left, OneTickLess, Never

LEMMA TickKeeps == ASSUME IInv, Tick PROVE IInv'
<1> DEFINE aged(d) == IF d.pc \in {"pending", "running"}
                      THEN [d EXCEPT !.left = OneTickLess(@)] ELSE d
           older == [c \in Camera |->
                       IF queued[c] = None THEN None
                       ELSE [queued[c] EXCEPT !.left   = OneTickLess(@),
                                              !.waited = IF @ < SingletonWait THEN @ + 1 ELSE @]]
<1>1. calls' = {aged(d) : d \in calls} /\ queued' = older
  BY DEF Tick
<1>2. \A d \in Call : /\ aged(d) \in Call
                     /\ aged(d).camera = d.camera /\ aged(d).reg = d.reg /\ aged(d).seq = d.seq
  <2> SUFFICES ASSUME NEW d \in Call
               PROVE  /\ aged(d) \in Call
                      /\ aged(d).camera = d.camera /\ aged(d).reg = d.reg /\ aged(d).seq = d.seq
    OBVIOUS
  <2>1. OneTickLess(d.left) \in Left
    BY TickTyped DEF Call
  <2> QED BY <2>1 DEF Call
<1>3. /\ older \in [Camera -> Work \cup {None}]
      /\ \A c \in Camera : older[c] = None <=> queued[c] = None
  <2> SUFFICES ASSUME NEW c \in Camera, queued[c] # None
               PROVE  older[c] \in Work /\ older[c] # None
    BY Constants
  <2>1. queued[c] \in Work
    BY DEF IInv, TypeOK
  <2>2. OneTickLess(queued[c].left) \in Left
    BY <2>1, TickTyped DEF Work
  <2>3. (IF queued[c].waited < SingletonWait THEN queued[c].waited + 1 ELSE queued[c].waited)
            \in 0 .. SingletonWait
    BY <2>1, Constants DEF Work
  <2>4. older[c] \in Work
    BY <2>1, <2>2, <2>3 DEF Work
  <2> QED BY <2>4, Constants
<1> HIDE DEF aged, older
<1>4. \A d \in calls : d \in Call
  BY DEF IInv, TypeOK
<1>5. \A d, e \in calls : aged(d).camera = aged(e).camera /\ aged(d).reg = aged(e).reg => d = e
  BY <1>2, <1>4 DEF IInv, CallsKnown
<1>6. IsFiniteSet(calls') /\ Cardinality(calls') = Cardinality(calls)
  <2> DEFINE f == [d \in calls |-> aged(d)]
  <2>1. calls' = {f[d] : d \in calls}
    BY <1>1
  <2>2. \A d, e \in calls : f[d] = f[e] => d = e
    BY <1>5
  <2>3. IsFiniteSet(calls)
    BY DEF IInv, CallsKnown
  <2> HIDE DEF f
  <2> QED BY <2>1, <2>2, <2>3, ImageFinite
<1>7. {c \in Camera : queued'[c] # None} = {c \in Camera : queued[c] # None}
  BY <1>1, <1>3
<1>8. SlotsExact' /\ WorkAccounted'
  BY <1>6, <1>7 DEF IInv, SlotsExact, WorkAccounted, Holds, Tick
<1>9. TypeOK'
  <2>1. calls' \subseteq Call
    BY <1>1, <1>2, <1>4
  <2>2. queued' \in [Camera -> Work \cup {None}]
    BY <1>1, <1>3
  <2>3. wake' \in Left
    BY TickTyped DEF IInv, TypeOK, Tick
  <2> QED BY <2>1, <2>2, <2>3
      DEF IInv, TypeOK, Tick, threadVars, cameraVars, pickVars, Count, Registered
<1>10. CallsKnown'
  <2>1. \A d \in calls' : d.reg < nextReg /\ (reg[d.camera] = d.reg => inflight[d.camera] = d.seq)
    BY <1>1, <1>2, <1>4 DEF IInv, CallsKnown
  <2>2. \A d, e \in calls' : d.camera = e.camera /\ d.reg = e.reg => d = e
    BY <1>1, <1>5
  <2> QED BY <1>6, <2>1, <2>2 DEF CallsKnown, Tick, cameraVars
<1>11. CamerasKnown'
  BY <1>1, <1>3 DEF IInv, CamerasKnown, Tick, cameraVars
<1> QED BY <1>8, <1>9, <1>10, <1>11 DEF IInv

-----------------------------------------------------------------------------
(* The initial states, and the theorems.                                   *)

LEMMA InitEstablishes == Init => IInv
<1> SUFFICES ASSUME Init PROVE IInv
  OBVIOUS
<1>1. Holds(queued) = 0 /\ Holds(completed) = 0 /\ IsFiniteSet(calls) /\ Cardinality(calls) = 0
  <2>1. {c \in Camera : queued[c] # None} = {} /\ {c \in Camera : completed[c] # None} = {}
    BY DEF Init
  <2> QED BY <2>1, FS_EmptySet DEF Holds, Init
<1>2. TypeOK
  BY Constants DEF Init, TypeOK, Left
<1>3. CallsKnown
  BY <1>1 DEF Init, CallsKnown
<1>4. CamerasKnown
  BY DEF Init, CamerasKnown
<1>5. SlotsExact /\ WorkAccounted
  BY <1>1, Constants DEF Init, SlotsExact, WorkAccounted
<1> QED BY <1>2, <1>3, <1>4, <1>5 DEF IInv

LEMMA StutterKeeps == ASSUME IInv, UNCHANGED vars PROVE IInv'
<1>1. Threads
  BY DEF IInv, TypeOK, Threads, vars
<1> QED BY <1>1, QuietKeeps DEF vars

LEMMA StepKeeps == IInv /\ [Next]_vars => IInv'
<1> SUFFICES ASSUME IInv, [Next]_vars PROVE IInv'
  OBVIOUS
<1>1. CASE Start
  BY <1>1, StartKeeps
<1>2. CASE \E c \in Camera : CameraStep(c)
  BY <1>2, RegisterKeeps, UnregisterKeeps, TakeResultKeeps, OfferKeeps DEF CameraStep
<1>3. CASE SchedulerStep
  BY <1>3, SchedulerExitsKeeps, SchedulerSleepsKeeps, SchedulerDispatchesKeeps DEF SchedulerStep
<1>4. CASE \E d \in calls : CallStep(d)
  <2> SUFFICES ASSUME NEW d \in calls, CallStep(d) PROVE IInv'
    BY <1>4
  <2>1. CASE StartCall(d)
    BY <2>1, MovesKeeps DEF StartCall
  <2>2. CASE EndCall(d)
    BY <2>2, MovesKeeps DEF EndCall
  <2>3. CASE CallFails(d)
    BY <2>3, MovesKeeps DEF CallFails
  <2>4. CASE Complete(d)
    BY <2>4, CompleteKeeps
  <2> QED BY <2>1, <2>2, <2>3, <2>4 DEF CallStep
<1>5. CASE StopperStep
  BY <1>5, StopUnstartedKeeps, StopBeginsKeeps, StopTimesOutKeeps, StopJoinsKeeps, StopEndsKeeps
  DEF StopperStep
<1>6. CASE Tick
  BY <1>6, TickKeeps
<1>7. CASE UNCHANGED vars
  BY <1>7, StutterKeeps
<1> QED BY <1>1, <1>2, <1>3, <1>4, <1>5, <1>6, <1>7 DEF Next

(* Every state of every execution satisfies the inductive invariant.       *)
THEOREM Invariance == Spec => []IInv
BY InitEstablishes, StepKeeps, PTL DEF Spec

(* Type correctness; among other things the fair cursor is a place of a    *)
(* registered camera, also after cameras left (_advance_fair_cursor_locked *)
(* and unregister).                                                        *)
THEOREM TypeCorrect == Spec => []TypeOK
<1>1. IInv => TypeOK
  BY DEF IInv
<1> QED BY <1>1, Invariance, PTL

(* _total_inflight is exactly the number of dispatched calls that are not  *)
(* completed, and never more than the pool has workers: no completion,     *)
(* late, fenced or repeated, takes a place twice or keeps one.             *)
THEOREM SlotsAreExact == Spec => []SlotsExact
<1>1. IInv => SlotsExact
  BY DEF IInv
<1> QED BY <1>1, Invariance, PTL

(* An accepted frame is in a slot, in the pool or in a mailbox until it is *)
(* replaced, taken or reported to the drop observer, and then only once.   *)
THEOREM WorkIsAccounted == Spec => []WorkAccounted
<1>1. IInv => WorkAccounted
  BY DEF IInv
<1> QED BY <1>1, Invariance, PTL

-----------------------------------------------------------------------------
(* The refinement of InferencePromise.                                     *)

(***************************************************************************)
(* What the slots of a camera know of its sequence numbers: the frame that *)
(* waits is younger than the one in the pool, and none is younger than the *)
(* newest one offered.                                                     *)
(***************************************************************************)
InOrder ==
    \A c \in Camera :
        /\ inflight[c] <= last[c]
        /\ queued[c] # None => inflight[c] < queued[c].seq /\ queued[c].seq <= last[c]

OrderInv == IInv /\ InOrder

(* Steps that leave the slots alone, or only empty some of them, keep the  *)
(* order.                                                                  *)
LEMMA EmptyingKeepsOrder ==
    ASSUME OrderInv, UNCHANGED <<last, inflight>>,
           \A c \in Camera : queued'[c] # None => queued[c] # None /\ queued'[c].seq = queued[c].seq
    PROVE  InOrder'
BY DEF OrderInv, InOrder

LEMMA SeqTyped ==
    ASSUME IInv, NEW c \in Camera
    PROVE  /\ inflight[c] \in 0 .. MaxSequence /\ last[c] \in 0 .. MaxSequence
           /\ queued[c] # None => queued[c].seq \in 1 .. MaxSequence
BY DEF IInv, TypeOK, Work

LEMMA UnregisterKeepsOrder == ASSUME OrderInv, NEW c \in Camera, Unregister(c) PROVE InOrder'
BY DEF OrderInv, InOrder, Unregister, IInv, TypeOK

LEMMA OfferKeepsOrder ==
    ASSUME OrderInv, NEW c \in Camera, NEW work \in Offered, Offer(c, work)
    PROVE  InOrder'
<1>1. work.seq \in 1 .. MaxSequence /\ work.seq > last[c]
  BY DEF Offered, Offer
<1>2. queued'[c].seq = work.seq /\ last'[c] = work.seq /\ inflight' = inflight
  BY DEF Offer, OrderInv, IInv, TypeOK, Offered
<1>3. \A d \in Camera : d # c => queued'[d] = queued[d] /\ last'[d] = last[d]
  BY DEF Offer, OrderInv, IInv, TypeOK
<1>4. inflight[c] <= last[c] /\ inflight[c] \in Int /\ last[c] \in Int
  BY SeqTyped DEF OrderInv, InOrder
<1> QED BY <1>1, <1>2, <1>3, <1>4 DEF OrderInv, InOrder

LEMMA DispatchedKnown ==
    ASSUME IInv, SchedulerDispatches
    PROVE  \E B \in SUBSET Ready(Fresh) :
             /\ queued' = [c \in Camera |-> IF c \in B THEN None ELSE Fresh[c]]
             /\ inflight' = [c \in Camera |-> IF c \in B THEN Fresh[c].seq ELSE inflight[c]]
<1>1. PICK choice \in Due :
        /\ queued' = [c \in Camera |-> IF c \in choice.batch THEN None ELSE Fresh[c]]
        /\ inflight' = [c \in Camera |-> IF c \in choice.batch THEN Fresh[c].seq ELSE inflight[c]]
  BY DEF SchedulerDispatches
<1>2. choice.batch \in SUBSET Ready(Fresh)
  BY ChoiceKnown
<1> QED BY <1>1, <1>2

LEMMA DispatchesKeepsOrder == ASSUME OrderInv, SchedulerDispatches PROVE InOrder'
<1>1. \A c \in Camera : Fresh[c] # None => Fresh[c] = queued[c]
  BY FreshKnown DEF OrderInv
<1>2. PICK B \in SUBSET Ready(Fresh) :
        /\ queued' = [c \in Camera |-> IF c \in B THEN None ELSE Fresh[c]]
        /\ inflight' = [c \in Camera |-> IF c \in B THEN Fresh[c].seq ELSE inflight[c]]
  BY DispatchedKnown DEF OrderInv
<1>3. last' = last
  BY DEF SchedulerDispatches
<1> QED BY <1>1, <1>2, <1>3 DEF OrderInv, InOrder, Ready

LEMMA CompleteKeepsOrder == ASSUME OrderInv, NEW d \in calls, Complete(d) PROVE InOrder'
<1>1. \A c \in Camera : inflight'[c] = inflight[c] \/ inflight'[c] = 0
  BY DEF Complete, OrderInv, IInv, TypeOK
<1>2. queued' = queued /\ last' = last
  BY DEF Complete
<1> QED BY <1>1, <1>2, SeqTyped DEF OrderInv, InOrder

LEMMA TickKeepsOrder == ASSUME OrderInv, Tick PROVE InOrder'
<1>1. \A c \in Camera : queued'[c] # None => queued[c] # None /\ queued'[c].seq = queued[c].seq
  <2> SUFFICES ASSUME NEW c \in Camera, queued'[c] # None
               PROVE  queued[c] # None /\ queued'[c].seq = queued[c].seq
    OBVIOUS
  <2>1. queued[c] # None
    BY DEF Tick
  <2>2. queued[c] \in Work
    BY <2>1 DEF OrderInv, IInv, TypeOK
  <2> QED BY <2>1, <2>2 DEF Tick, Work
<1> QED BY <1>1, EmptyingKeepsOrder DEF Tick

LEMMA StepKeepsOrder == OrderInv /\ [Next]_vars => OrderInv'
<1> SUFFICES ASSUME OrderInv, [Next]_vars PROVE InOrder'
  BY StepKeeps DEF OrderInv
<1> USE DEF threadVars, waitVars, cameraVars, pickVars
<1>1. CASE Start
  BY <1>1, EmptyingKeepsOrder DEF Start
<1>2. CASE \E c \in Camera : CameraStep(c)
  <2> SUFFICES ASSUME NEW c \in Camera, CameraStep(c) PROVE InOrder'
    BY <1>2
  <2>1. CASE Register(c)
    BY <2>1, EmptyingKeepsOrder DEF Register
  <2>2. CASE Unregister(c)
    BY <2>2, UnregisterKeepsOrder
  <2>3. CASE TakeResult(c)
    BY <2>3, EmptyingKeepsOrder DEF TakeResult
  <2>4. CASE \E work \in Offered : Offer(c, work)
    BY <2>4, OfferKeepsOrder
  <2> QED BY <2>1, <2>2, <2>3, <2>4 DEF CameraStep
<1>3. CASE SchedulerStep
  <2>1. CASE SchedulerExits
    BY <2>1, EmptyingKeepsOrder DEF SchedulerExits
  <2>2. CASE SchedulerSleeps
    BY <2>2, EmptyingKeepsOrder DEF SchedulerSleeps, Fresh
  <2>3. CASE SchedulerDispatches
    BY <2>3, DispatchesKeepsOrder
  <2> QED BY <1>3, <2>1, <2>2, <2>3 DEF SchedulerStep
<1>4. CASE \E d \in calls : CallStep(d)
  <2> SUFFICES ASSUME NEW d \in calls, CallStep(d) PROVE InOrder'
    BY <1>4
  <2>1. CASE \E to \in {"stale", "running", "late", "done"} : Moves(d, to)
    BY <2>1, EmptyingKeepsOrder DEF Moves
  <2>2. CASE Complete(d)
    BY <2>2, CompleteKeepsOrder
  <2> QED BY <2>1, <2>2 DEF CallStep, StartCall, EndCall, CallFails
<1>5. CASE StopperStep
  BY <1>5, EmptyingKeepsOrder
  DEF StopperStep, StopUnstarted, StopBegins, StopTimesOut, StopJoins, StopEnds
<1>6. CASE Tick
  BY <1>6, TickKeepsOrder
<1>7. CASE UNCHANGED vars
  BY <1>7, EmptyingKeepsOrder DEF vars
<1> QED BY <1>1, <1>2, <1>3, <1>4, <1>5, <1>6, <1>7 DEF Next

(* The open questions of a camera.                                         *)
LEMMA AskedKnown ==
    /\ Asked = [c \in Camera |-> Asked[c]]
    /\ \A c \in Camera : Asked[c] = ({inflight[c]} \ {0})
                                        \cup (IF queued[c] = None THEN {} ELSE {queued[c].seq})
    /\ Asked' = [c \in Camera |-> Asked'[c]]
    /\ \A c \in Camera : Asked'[c] = ({inflight'[c]} \ {0})
                                        \cup (IF queued'[c] = None THEN {} ELSE {queued'[c].seq})
BY DEF Asked

LEMMA OthersAsked ==
    ASSUME NEW d \in Camera, inflight'[d] = inflight[d], queued'[d] = queued[d]
    PROVE  Asked'[d] = Asked[d]
<1>1. Asked[d] = ({inflight[d]} \ {0}) \cup (IF queued[d] = None THEN {} ELSE {queued[d].seq})
  BY AskedKnown
<1>2. Asked'[d] = ({inflight'[d]} \ {0}) \cup (IF queued'[d] = None THEN {} ELSE {queued'[d].seq})
  BY AskedKnown
<1> QED BY <1>1, <1>2

(* Steps that ask nothing and answer nothing: what is asked only shrinks.  *)
LEMMA AbandonStep ==
    ASSUME UNCHANGED <<nextReg, reg, last, completed>>,
           \A c \in Camera : inflight'[c] \in {0, inflight[c]} \/ inflight'[c] \in Asked[c],
           \A c \in Camera : queued'[c] # None => queued[c] # None /\ queued'[c].seq = queued[c].seq
    PROVE  Promise!Abandon
<1>1. \A c \in Camera : Asked'[c] \subseteq Asked[c]
  BY AskedKnown
<1> QED BY <1>1 DEF Promise!Abandon

(* The promise counts as the scheduler does.                               *)
LEMMA PromiseCounts == \A S : Promise!Cardinality(S) = Cardinality(S)
BY DEF Cardinality, Promise!Cardinality

LEMMA AskStep ==
    ASSUME OrderInv, NEW c \in Camera, NEW work \in Offered, Offer(c, work)
    PROVE  Promise!Ask(c)
<1>1. work.seq \in 1 .. MaxSequence /\ work.seq > last[c] /\ reg[c] # 0
  BY DEF Offered, Offer
<1>2. queued'[c].seq = work.seq /\ queued'[c] # None /\ last' = [last EXCEPT ![c] = work.seq]
  <2>1. queued'[c].seq = work.seq
    BY DEF Offer, OrderInv, IInv, TypeOK, Offered
  <2>2. queued'[c] # None
    <3>1. Offered \subseteq Work
      <4>1. Lifetimes \subseteq Left
        BY SchedulerAssumption DEF Left
      <4>2. 0 \in 0 .. SingletonWait
        BY Constants
      <4> QED BY <4>1, <4>2 DEF Offered, Work
    <3>2. \A u \in BOOLEAN : [work EXCEPT !.urgent = u] \in Work
      BY <3>1 DEF Work
    <3>3. work.urgent \/ (queued[c] # None /\ queued[c].urgent) \in BOOLEAN
      BY <3>1 DEF Work, OrderInv, IInv, TypeOK
    <3>4. queued'[c] \in Work
      BY <3>2, <3>3 DEF Offer, OrderInv, IInv, TypeOK
    <3> QED BY <3>4, Constants
  <2> QED BY <2>1, <2>2 DEF Offer
<1>3. last'[c] = work.seq
  BY <1>2 DEF OrderInv, IInv, TypeOK
<1>4. UNCHANGED <<nextReg, reg, completed, inflight>>
  BY DEF Offer, cameraVars
<1>5. Asked'[c] = ({inflight[c]} \ {0}) \cup {last'[c]}
  BY <1>2, <1>3, <1>4, AskedKnown
<1>6. /\ Asked'[c] \subseteq Asked[c] \cup {last'[c]}
      /\ last'[c] \in Asked'[c]
  BY <1>5, AskedKnown
<1>7. Cardinality(Asked'[c]) <= 2
  <2>1. Asked'[c] = {last'[c]} \/ Asked'[c] = {last'[c]} \cup {inflight[c]}
    BY <1>5
  <2>2. IsFiniteSet({last'[c]}) /\ Cardinality({last'[c]}) = 1
    BY FS_Singleton
  <2>3. Cardinality({last'[c]} \cup {inflight[c]}) \in {1, 2}
    BY <2>2, FS_AddElement
  <2> QED BY <2>1, <2>2, <2>3
<1>8. \A d \in Camera : d # c => Asked'[d] = Asked[d]
  <2>1. \A d \in Camera : d # c => queued'[d] = queued[d]
    BY DEF Offer, OrderInv, IInv, TypeOK
  <2>2. inflight' = inflight
    BY <1>4
  <2> QED BY <2>1, <2>2, OthersAsked
<1>9. Asked' = [Asked EXCEPT ![c] = Asked'[c]]
  BY <1>8, AskedKnown
<1>10. last' = [last EXCEPT ![c] = last'[c]]
  BY <1>2, <1>3
<1> QED BY <1>1, <1>3, <1>4, <1>6, <1>7, <1>9, <1>10, PromiseCounts DEF Promise!Ask

LEMMA CloseStep == ASSUME OrderInv, NEW c \in Camera, Unregister(c) PROVE Promise!Close(c)
<1>1. /\ queued' = [queued EXCEPT ![c] = None] /\ inflight' = [inflight EXCEPT ![c] = 0]
      /\ reg[c] # 0 /\ nextReg' = nextReg
      /\ reg' = [reg EXCEPT ![c] = 0] /\ last' = [last EXCEPT ![c] = 0]
      /\ completed' = [completed EXCEPT ![c] = None]
  BY DEF Unregister
<1>2. Asked'[c] = {}
  BY <1>1, AskedKnown DEF OrderInv, IInv, TypeOK
<1>3. \A d \in Camera : d # c => Asked'[d] = Asked[d]
  BY <1>1, AskedKnown DEF OrderInv, IInv, TypeOK
<1>4. Asked' = [Asked EXCEPT ![c] = {}]
  BY <1>2, <1>3, AskedKnown
<1> QED BY <1>1, <1>4 DEF Promise!Close

LEMMA OpenStep == ASSUME OrderInv, NEW c \in Camera, Register(c) PROVE Promise!Open(c)
<1>1. /\ reg[c] = 0 /\ nextReg' = nextReg + 1 /\ reg' = [reg EXCEPT ![c] = nextReg]
      /\ UNCHANGED <<last, completed, queued, inflight>>
  BY DEF Register
<1>2. Asked' = Asked
  BY <1>1 DEF Asked
<1>3. nextReg \in Nat /\ nextReg' - 1 = nextReg - 1 + 1 /\ nextReg' - 1 = nextReg
  BY <1>1 DEF OrderInv, IInv, TypeOK
<1> QED BY <1>1, <1>2, <1>3 DEF Promise!Open

LEMMA TakeStep == ASSUME NEW c \in Camera, TakeResult(c) PROVE Promise!Take(c)
<1>1. /\ completed[c] # None /\ completed' = [completed EXCEPT ![c] = None]
      /\ UNCHANGED <<nextReg, reg, last, queued, inflight>>
  BY DEF TakeResult, cameraVars
<1>2. Asked' = Asked
  BY <1>1 DEF Asked
<1> QED BY <1>1, <1>2 DEF Promise!Take

LEMMA ReplyStep ==
    ASSUME OrderInv, NEW d \in calls, Complete(d), Current(d), d.pc = "done"
    PROVE  d.camera \in Camera /\ d.seq \in Asked[d.camera] /\ Promise!Reply(d.camera, d.seq)
<1> DEFINE c == d.camera
           s == d.seq
<1>1. c \in Camera /\ s \in 1 .. MaxSequence
  BY DEF OrderInv, IInv, TypeOK, Call
<1>2. reg[c] = d.reg /\ inflight[c] = s /\ completed[c] = None
  BY <1>1 DEF Current, OrderInv, IInv, CamerasKnown
<1>3. /\ inflight' = [inflight EXCEPT ![c] = 0]
      /\ completed' = [completed EXCEPT ![c] = [seq |-> s, life |-> reg[c]]]
      /\ UNCHANGED <<nextReg, reg, last, queued>>
  BY <1>2 DEF Complete, cameraVars
<1>4. queued[c] # None => queued[c].seq \in Nat /\ s < queued[c].seq
  BY <1>1, <1>2, SeqTyped DEF OrderInv, InOrder
<1> HIDE DEF c, s
<1>5. s \in Asked[c] /\ \A t \in Asked[c] : s <= t
  BY <1>1, <1>2, <1>4, AskedKnown
<1>6. /\ inflight'[c] = 0 /\ \A e \in Camera : e # c => inflight'[e] = inflight[e]
  BY <1>1, <1>3 DEF OrderInv, IInv, TypeOK
<1>7. Asked'[c] = Asked[c] \ {s}
  BY <1>1, <1>2, <1>3, <1>4, <1>6, AskedKnown
<1>8. \A e \in Camera : e # c => Asked'[e] = Asked[e]
  <2> SUFFICES ASSUME NEW e \in Camera, e # c PROVE Asked'[e] = Asked[e]
    OBVIOUS
  <2>1. inflight'[e] = inflight[e] /\ queued'[e] = queued[e]
    BY <1>3, <1>6
  <2> QED BY <2>1, OthersAsked
<1>9. Asked' = [Asked EXCEPT ![c] = Asked[c] \ {s}]
  BY <1>7, <1>8, AskedKnown
<1>10. Promise!Reply(c, s)
  BY <1>2, <1>3, <1>5, <1>9 DEF Promise!Reply
<1> QED BY <1>1, <1>5, <1>10 DEF c, s

LEMMA CompleteStep ==
    ASSUME OrderInv, NEW d \in calls, Complete(d), ~(Current(d) /\ d.pc = "done")
    PROVE  Promise!Abandon
<1>1. \A c \in Camera : inflight'[c] \in {0, inflight[c]}
  BY DEF Complete, OrderInv, IInv, TypeOK
<1>2. UNCHANGED <<nextReg, reg, last, completed, queued>>
  BY DEF Complete, cameraVars
<1> QED BY <1>1, <1>2, AbandonStep

LEMMA DispatchStep == ASSUME OrderInv, SchedulerDispatches PROVE Promise!Abandon
<1>1. \A c \in Camera : Fresh[c] # None => Fresh[c] = queued[c]
  BY FreshKnown DEF OrderInv
<1>2. PICK B \in SUBSET Ready(Fresh) :
        /\ queued' = [c \in Camera |-> IF c \in B THEN None ELSE Fresh[c]]
        /\ inflight' = [c \in Camera |-> IF c \in B THEN Fresh[c].seq ELSE inflight[c]]
  BY DispatchedKnown DEF OrderInv
<1>3. \A c \in B : c \in Camera /\ Fresh[c] # None
  BY DEF Ready
<1>4. \A c \in Camera : inflight'[c] \in {0, inflight[c]} \/ inflight'[c] \in Asked[c]
  BY <1>1, <1>2, <1>3, AskedKnown
<1>5. \A c \in Camera : queued'[c] # None => queued[c] # None /\ queued'[c].seq = queued[c].seq
  BY <1>1, <1>2
<1>6. UNCHANGED <<nextReg, reg, last, completed>>
  BY DEF SchedulerDispatches, cameraVars
<1> QED BY <1>4, <1>5, <1>6, AbandonStep

LEMMA TickStep == ASSUME OrderInv, Tick PROVE Promise!Abandon
<1>1. \A c \in Camera : queued'[c] # None => queued[c] # None /\ queued'[c].seq = queued[c].seq
  <2> SUFFICES ASSUME NEW c \in Camera, queued'[c] # None
               PROVE  queued[c] # None /\ queued'[c].seq = queued[c].seq
    OBVIOUS
  <2>1. queued[c] # None
    BY DEF Tick
  <2>2. queued[c] \in Work
    BY <2>1 DEF OrderInv, IInv, TypeOK
  <2> QED BY <2>1, <2>2 DEF Tick, Work
<1> QED BY <1>1, AbandonStep DEF Tick, cameraVars

LEMMA StepPromised == OrderInv /\ [Next]_vars => [Promise!PNext]_Promise!pvars
<1> SUFFICES ASSUME OrderInv, [Next]_vars PROVE Promise!PNext
  OBVIOUS
<1> USE DEF threadVars, waitVars, cameraVars, pickVars
<1>1. CASE Start
  BY <1>1, AbandonStep DEF Start, Promise!PNext
<1>2. CASE \E c \in Camera : CameraStep(c)
  BY <1>2, OpenStep, CloseStep, TakeStep, AskStep DEF CameraStep, Promise!PNext
<1>3. CASE SchedulerStep
  <2>1. CASE SchedulerExits
    BY <2>1, AbandonStep DEF SchedulerExits, Promise!PNext
  <2>2. CASE SchedulerSleeps
    BY <2>2, AbandonStep DEF SchedulerSleeps, Fresh, Promise!PNext
  <2>3. CASE SchedulerDispatches
    BY <2>3, DispatchStep DEF Promise!PNext
  <2> QED BY <1>3, <2>1, <2>2, <2>3 DEF SchedulerStep
<1>4. CASE \E d \in calls : CallStep(d)
  <2> SUFFICES ASSUME NEW d \in calls, CallStep(d) PROVE Promise!PNext
    BY <1>4
  <2>1. CASE \E to \in {"stale", "running", "late", "done"} : Moves(d, to)
    BY <2>1, AbandonStep DEF Moves, Promise!PNext
  <2>2. CASE Complete(d) /\ Current(d) /\ d.pc = "done"
    BY <2>2, ReplyStep DEF Promise!PNext
  <2>3. CASE Complete(d) /\ ~(Current(d) /\ d.pc = "done")
    BY <2>3, CompleteStep DEF Promise!PNext
  <2> QED BY <2>1, <2>2, <2>3 DEF CallStep, StartCall, EndCall, CallFails
<1>5. CASE StopperStep
  BY <1>5, AbandonStep
  DEF StopperStep, StopUnstarted, StopBegins, StopTimesOut, StopJoins, StopEnds, Promise!PNext
<1>6. CASE Tick
  BY <1>6, TickStep DEF Promise!PNext
<1>7. CASE UNCHANGED vars
  BY <1>7, AbandonStep DEF vars, Promise!PNext
<1> QED BY <1>1, <1>2, <1>3, <1>4, <1>5, <1>6, <1>7 DEF Next

(* The scheduler keeps InferencePromise: within a registration answers     *)
(* come in the order the frames were offered, one at a time, each at most  *)
(* once, and none reaches a later registration of its camera               *)
(* (_complete_execution's check of registration and sequence number).      *)
THEOREM PromiseKept == Spec => KeepsPromise
<1>1. Init => OrderInv
  BY InitEstablishes DEF Init, OrderInv, InOrder
<1>2. Init => Promise!PInit
  <2> SUFFICES ASSUME Init PROVE Promise!PInit
    OBVIOUS
  <2>1. Asked = [c \in Camera |-> {}]
    BY DEF Init, Asked
  <2> QED BY <2>1 DEF Init, Promise!PInit
<1> QED BY <1>1, <1>2, StepKeepsOrder, StepPromised, PTL DEF Spec, KeepsPromise, Promise!PSpec

-----------------------------------------------------------------------------
(* The sleeping scheduler.                                                 *)

(***************************************************************************)
(* What the scheduler may rely on while it sleeps: its timer runs out no   *)
(* later than any moment at which a frame expires or has waited its time;  *)
(* and what is due at once, without any wait, was not there, or no worker  *)
(* was free.  Time alone cannot make such work due, and every other step   *)
(* that could notifies the scheduler.                                      *)
(***************************************************************************)
Waiting == {c \in Camera : queued[c] # None}
AtOnce(c) ==
    \/ queued[c].urgent
    \/ /\ Limit(queued, c) >= 4 /\ Capacity >= 4
       /\ Cardinality(Group(queued, Ready(queued), c)) >= 4
TimerOK == \A t \in WakeTimes(queued, Waiting, Ready(queued), Capacity) : wake # Never /\ wake <= t
NoneAtOnce == Capacity <= 0 \/ \A c \in Ready(queued) : ~AtOnce(c)
Rested == sched = "asleep" /\ wake # 0 /\ phase = "open" => TimerOK /\ NoneAtOnce

(* A timer is set no later than any of these times.                        *)
LEMMA WakeDelayLeast ==
    ASSUME NEW slots \in [Camera -> Work \cup {None}],
           NEW waiting \in SUBSET {c \in Camera : slots[c] # None},
           NEW ready \in SUBSET waiting, NEW capacity,
           WakeDelay(slots, waiting, ready, capacity) # 0,
           NEW t \in WakeTimes(slots, waiting, ready, capacity)
    PROVE  /\ WakeDelay(slots, waiting, ready, capacity) # Never
           /\ WakeDelay(slots, waiting, ready, capacity) <= t
<1> DEFINE times == WakeTimes(slots, waiting, ready, capacity)
           least == CHOOSE u \in times : \A v \in times : u <= v
<1>1. WakeDelay(slots, waiting, ready, capacity) = IF least < 0 THEN 0 ELSE least
  BY DEF WakeDelay
<1>2. times \in SUBSET Int /\ IsFiniteSet(times)
  BY WakeTimesKnown
<1> HIDE DEF times
<1>3. times # {} /\ t \in times
  BY DEF times
<1>4. least \in times /\ \A v \in times : least <= v
  BY <1>2, <1>3, LeastChosen
<1> HIDE DEF least
<1> QED BY <1>1, <1>2, <1>3, <1>4 DEF Never

LEMMA SleepsRested == ASSUME IInv, SchedulerSleeps PROVE Rested'
<1>1. /\ Fresh \in [Camera -> Work \cup {None}]
      /\ queued' = Fresh /\ Due = {} /\ Ready(queued)' = Ready(Fresh) /\ Capacity' = Capacity
      /\ Waiting' = {c \in Camera : Fresh[c] # None}
  BY FreshKnown DEF SchedulerSleeps, Ready, Capacity, Waiting
<1>2. wake' = WakeDelay(Fresh, Waiting', Ready(Fresh), Capacity)
  BY <1>1 DEF SchedulerSleeps
<1>3. wake' # 0 => TimerOK'
  <2>1. Ready(Fresh) \in SUBSET Waiting'
    BY <1>1 DEF Ready
  <2>2. WakeTimes(queued, Waiting, Ready(queued), Capacity)' = WakeTimes(Fresh, Waiting', Ready(Fresh), Capacity)
    BY <1>1
  <2> QED BY <1>1, <1>2, <2>1, <2>2, WakeDelayLeast DEF TimerOK
<1>4. NoneAtOnce'
  <2>1. Capacity \in Int /\ cursor \in Nat
    BY Constants DEF Capacity, IInv, TypeOK
  <2>2. \/ Capacity <= 0
        \/ /\ NormalCandidates(Fresh, Ready(Fresh), Capacity) = {}
           /\ \A c \in Ready(Fresh) : ~Fresh[c].urgent
    BY <1>1, <2>1, ReadyKnown, NothingChosen DEF Due
  <2> QED BY <1>1, <2>2 DEF NoneAtOnce, AtOnce, NormalCandidates
<1> QED BY <1>3, <1>4 DEF Rested

(* A tick brings no time nearer by more than one.                          *)
LEMMA TickRested == ASSUME IInv, Rested, Tick PROVE Rested'
<1> SUFFICES ASSUME sched = "asleep", wake' # 0, phase = "open"
             PROVE  TimerOK' /\ NoneAtOnce'
  BY DEF Rested, Tick, threadVars
<1>0. Capacity \in Int
  BY Constants DEF Capacity, IInv, TypeOK
<1>1. wake \in Left /\ wake # 0 /\ wake' = OneTickLess(wake)
  BY DEF Tick, IInv, TypeOK, OneTickLess
<1>2. TimerOK /\ NoneAtOnce
  BY <1>1 DEF Rested
<1>3. \A c \in Camera :
        /\ queued'[c] # None <=> queued[c] # None
        /\ queued[c] # None =>
             /\ queued[c].left \in Left /\ queued'[c].left = OneTickLess(queued[c].left)
             /\ queued[c].waited \in 0 .. SingletonWait
             /\ queued'[c].waited \in Int /\ queued'[c].waited <= queued[c].waited + 1
             /\ queued'[c].urgent = queued[c].urgent
             /\ queued'[c].profile = queued[c].profile
  <2> SUFFICES ASSUME NEW c \in Camera, queued[c] # None
               PROVE  /\ queued'[c] # None
                      /\ queued[c].left \in Left /\ queued'[c].left = OneTickLess(queued[c].left)
                      /\ queued[c].waited \in 0 .. SingletonWait
                      /\ queued'[c].waited \in Int /\ queued'[c].waited <= queued[c].waited + 1
                      /\ queued'[c].urgent = queued[c].urgent
                      /\ queued'[c].profile = queued[c].profile
    BY DEF Tick
  <2>1. queued[c] \in Work
    BY DEF IInv, TypeOK
  <2>2. queued'[c] = [queued[c] EXCEPT !.left   = OneTickLess(@),
                                       !.waited = IF @ < SingletonWait THEN @ + 1 ELSE @]
    BY DEF Tick
  <2>3. queued'[c] \in Work
    <3>1. OneTickLess(queued[c].left) \in Left
      BY <2>1, TickTyped DEF Work
    <3>2. (IF queued[c].waited < SingletonWait THEN queued[c].waited + 1 ELSE queued[c].waited)
              \in 0 .. SingletonWait
      BY <2>1, Constants DEF Work
    <3> QED BY <2>1, <2>2, <3>1, <3>2 DEF Work
  <2>4. queued'[c] # None /\ queued[c].left \in Left /\ queued[c].waited \in 0 .. SingletonWait
    BY <2>1, <2>3, Constants DEF Work
  <2>5. /\ queued'[c].left = OneTickLess(queued[c].left)
        /\ queued'[c].urgent = queued[c].urgent /\ queued'[c].profile = queued[c].profile
    BY <2>1, <2>2 DEF Work
  <2>6. queued'[c].waited = IF queued[c].waited < SingletonWait
                            THEN queued[c].waited + 1 ELSE queued[c].waited
    BY <2>1, <2>2 DEF Work
  <2> QED BY <2>4, <2>5, <2>6, Constants
<1>4. Waiting' = Waiting /\ Ready(queued)' = Ready(queued) /\ Capacity' = Capacity
  BY <1>3 DEF Waiting, Ready, Capacity, Tick
<1>5. Ready(queued) \subseteq Waiting /\ Waiting \subseteq Camera
  BY DEF Ready, Waiting
<1>6. \A c \in Ready(queued) :
        /\ Limit(queued, c)' = Limit(queued, c)
        /\ Group(queued, Ready(queued), c)' = Group(queued, Ready(queued), c)
  BY <1>3, <1>4, <1>5 DEF Limit, Group, Waiting
<1>7. NoneAtOnce'
  BY <1>2, <1>3, <1>4, <1>5, <1>6 DEF NoneAtOnce, AtOnce, Waiting
<1>8. ASSUME NEW t \in WakeTimes(queued, Waiting, Ready(queued), Capacity)'
      PROVE  \E u \in WakeTimes(queued, Waiting, Ready(queued), Capacity) : u \in Int /\ t \in Int /\ u - 1 <= t
  <2>1. CASE \E c \in Waiting : t = queued'[c].left /\ t # Never
    <3>1. PICK c \in Waiting : t = queued'[c].left /\ t # Never
      BY <2>1
    <3>2. /\ queued[c].left \in Left /\ t = OneTickLess(queued[c].left)
      BY <3>1, <1>3 DEF Waiting
    <3>3. queued[c].left \in Nat /\ t \in Nat /\ queued[c].left - 1 <= t
      BY <3>1, <3>2 DEF OneTickLess, Left, Never
    <3>4. queued[c].left \in WakeTimes(queued, Waiting, Ready(queued), Capacity)
      BY <3>3, Constants DEF WakeTimes
    <3> QED BY <3>3, <3>4
  <2>2. CASE Capacity > 0 /\ \E c \in Ready(queued) : ~queued[c].urgent /\ t = SingletonWait - queued'[c].waited
    <3>1. PICK c \in Ready(queued) : ~queued[c].urgent /\ t = SingletonWait - queued'[c].waited
      BY <2>2
    <3>2. /\ queued[c].waited \in Int /\ queued'[c].waited \in Int
          /\ queued'[c].waited <= queued[c].waited + 1
      BY <1>3, <1>5, Constants DEF Waiting
    <3>3. SingletonWait \in Int
      BY Constants
    <3>4. SingletonWait - queued[c].waited \in WakeTimes(queued, Waiting, Ready(queued), Capacity)
      BY <3>1, <2>2, <1>0 DEF WakeTimes
    <3> QED BY <3>1, <3>2, <3>3, <3>4
  <2>3. CASE Capacity > 0 /\ \E c \in Ready(queued) :
                /\ Limit(queued, c) >= 2 /\ Capacity >= 2
                /\ Cardinality(Group(queued, Ready(queued), c)) >= 2
                /\ t = Batch2Wait - queued'[c].waited
    <3>1. PICK c \in Ready(queued) :
                /\ Limit(queued, c) >= 2 /\ Capacity >= 2
                /\ Cardinality(Group(queued, Ready(queued), c)) >= 2
                /\ t = Batch2Wait - queued'[c].waited
      BY <2>3
    <3>2. /\ queued[c].waited \in Int /\ queued'[c].waited \in Int
          /\ queued'[c].waited <= queued[c].waited + 1
      BY <1>3, <1>5, Constants DEF Waiting
    <3>3. Batch2Wait \in Int
      BY Constants
    <3>4. Batch2Wait - queued[c].waited \in WakeTimes(queued, Waiting, Ready(queued), Capacity)
      BY <3>1, <2>3, <1>0 DEF WakeTimes
    <3> QED BY <3>1, <3>2, <3>3, <3>4
  <2>4. Capacity \in Int
    BY <1>0
  <2> QED BY <1>3, <1>4, <1>5, <1>6, <2>1, <2>2, <2>3, <2>4 DEF WakeTimes, Waiting
<1>9. TimerOK'
  <2> SUFFICES ASSUME NEW t \in WakeTimes(queued, Waiting, Ready(queued), Capacity)'
               PROVE  wake' # Never /\ wake' <= t
    BY DEF TimerOK
  <2>1. PICK u \in WakeTimes(queued, Waiting, Ready(queued), Capacity) : u \in Int /\ t \in Int /\ u - 1 <= t
    BY <1>8
  <2>2. wake # Never /\ wake <= u
    BY <2>1, <1>2 DEF TimerOK
  <2> QED BY <2>1, <2>2, <1>1 DEF OneTickLess, Left, Never
<1> QED BY <1>7, <1>9

(* Every other step wakes the scheduler, ends its work or changes nothing  *)
(* that it waits for.                                                      *)
LEMMA OtherSteps ==
    ASSUME [Next]_vars
    PROVE  \/ SchedulerSleeps \/ Tick
           \/ sched' # "asleep" \/ phase' # "open"
           \/ UNCHANGED <<phase, sched, wake, reg, queued, inflight, completed, total>>
<1> USE DEF Notify, threadVars, waitVars, cameraVars, pickVars
<1>1. CASE \E c \in Camera : CameraStep(c)
  BY <1>1 DEF CameraStep, Register, Unregister, TakeResult, Offer
<1>2. CASE SchedulerStep
  BY <1>2 DEF SchedulerStep, SchedulerExits, SchedulerDispatches
<1>3. CASE \E d \in calls : CallStep(d)
  BY <1>3 DEF CallStep, StartCall, EndCall, CallFails, Moves, Complete
<1>4. CASE StopperStep
  BY <1>4 DEF StopperStep, StopUnstarted, StopBegins, StopTimesOut, StopJoins, StopEnds
<1>5. CASE Start
  BY <1>5 DEF Start
<1> QED BY <1>1, <1>2, <1>3, <1>4, <1>5 DEF Next, vars

LEMMA StepKeepsRest == IInv /\ Rested /\ [Next]_vars => Rested'
<1> SUFFICES ASSUME IInv, Rested, [Next]_vars PROVE Rested'
  OBVIOUS
<1>1. CASE UNCHANGED <<phase, sched, wake, reg, queued, inflight, completed, total>>
  BY <1>1 DEF Rested, TimerOK, NoneAtOnce, AtOnce, Waiting, Ready, Capacity
<1>2. CASE sched' # "asleep" \/ phase' # "open"
  BY <1>2 DEF Rested
<1> QED BY <1>1, <1>2, OtherSteps, SleepsRested, TickRested

(* While its timer has not run out, a rested scheduler has nothing due.    *)
LEMMA RestedSleeps == IInv /\ Rested => NeverOversleeps
<1> SUFFICES ASSUME IInv, Rested, sched = "asleep", wake # 0, phase = "open"
             PROVE  Due = {} /\ Fresh = queued
  BY DEF NeverOversleeps
<1>1. wake \in Left /\ Capacity \in Int /\ cursor \in Nat
  BY Constants DEF IInv, TypeOK, Capacity
<1>2. \A t \in WakeTimes(queued, Waiting, Ready(queued), Capacity) : t # 0 /\ (t \in Int => t > 0)
  BY <1>1 DEF Rested, TimerOK, Left, Never
<1>3. Fresh = queued
  <2>1. \A c \in Camera : queued[c] # None => queued[c].left # 0
    <3> SUFFICES ASSUME NEW c \in Camera, queued[c] # None, queued[c].left = 0
                 PROVE  FALSE
      OBVIOUS
    <3>1. queued[c].left \in WakeTimes(queued, Waiting, Ready(queued), Capacity)
      BY DEF WakeTimes, Waiting, Never
    <3> QED BY <3>1, <1>2
  <2> QED BY <2>1 DEF Fresh, Expired, IInv, TypeOK
<1>4. \/ Capacity <= 0
      \/ /\ NormalCandidates(queued, Ready(queued), Capacity) = {}
         /\ \A c \in Ready(queued) : ~queued[c].urgent
  <2> SUFFICES ASSUME ~(Capacity <= 0), NEW c \in Ready(queued)
               PROVE  c \notin NormalCandidates(queued, Ready(queued), Capacity) /\ ~queued[c].urgent
    BY DEF NormalCandidates
  <2>1. ~AtOnce(c) /\ \A d \in Ready(queued) : ~queued[d].urgent
    BY DEF Rested, NoneAtOnce, AtOnce
  <2>2. ASSUME NEW d \in Ready(queued)
        PROVE  queued[d] \in Work /\ queued[d].waited \in 0 .. SingletonWait
    BY DEF Ready, IInv, TypeOK, Work
  <2>3. ~(queued[c].waited >= SingletonWait)
    <3>1. SingletonWait - queued[c].waited \in WakeTimes(queued, Waiting, Ready(queued), Capacity)
      BY <2>1, <1>1 DEF WakeTimes
    <3> QED BY <3>1, <2>2, <1>2, Constants
  <2>4. ASSUME Limit(queued, c) >= 2, Capacity >= 2, Cardinality(Group(queued, Ready(queued), c)) >= 2
        PROVE  ~Waited(queued, Group(queued, Ready(queued), c), Batch2Wait)
    <3> SUFFICES ASSUME NEW d \in Group(queued, Ready(queued), c), queued[d].waited >= Batch2Wait
                 PROVE  FALSE
      BY DEF Waited
    <3>1. d \in Ready(queued) /\ queued[d].profile = queued[c].profile
      BY DEF Group
    <3>2. Limit(queued, d) = Limit(queued, c)
          /\ Group(queued, Ready(queued), d) = Group(queued, Ready(queued), c)
      BY <3>1 DEF Limit, Group
    <3>3. Batch2Wait - queued[d].waited \in WakeTimes(queued, Waiting, Ready(queued), Capacity)
      BY <3>1, <3>2, <2>4, <1>1 DEF WakeTimes
    <3> QED BY <3>1, <3>3, <2>2, <1>2, Constants
  <2> QED BY <2>1, <2>3, <2>4 DEF AtOnce, NormalCandidates
<1>5. Due = {}
  BY <1>1, <1>3, <1>4, ReadyKnown, NothingChosen DEF Due
<1> QED BY <1>3, <1>5

(* A scheduler that sleeps while its timer runs has nothing to dispatch    *)
(* and nothing to drop: whatever makes work due notifies it, and the delay *)
(* _next_wake_delay_locked computes is never too long.                     *)
THEOREM SchedulerNeverOversleeps == Spec => []NeverOversleeps
<1>1. Init => Rested
  BY DEF Init, Rested
<1> QED BY <1>1, InitEstablishes, StepKeeps, StepKeepsRest, RestedSleeps, PTL DEF Spec

=============================================================================
