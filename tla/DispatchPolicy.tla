--------------------------- MODULE DispatchPolicy ---------------------------
(***************************************************************************)
(* Which cameras SharedInferenceScheduler dispatches next: the pure part   *)
(* of _select_dispatch_locked.  "place" gives each registered camera its   *)
(* place, from 0, in the order of registration, and "count" their number;  *)
(* "cursor" is a place; "queue" gives each ready camera its queued work,   *)
(* with the ticks it has waited since it was offered.                      *)
(***************************************************************************)
EXTENDS Integers, FiniteSets

CONSTANTS
    BatchLimit,    \* max_batch_size of each profile
    Batch2Wait,    \* batch2_wait_seconds, in ticks
    SingletonWait, \* singleton_wait_seconds
    UrgentBurst    \* urgent_batch_burst

ASSUME PolicyAssumption ==
    /\ \A p \in DOMAIN BatchLimit : BatchLimit[p] \in {1, 2, 4}
    /\ Batch2Wait \in Nat
    /\ SingletonWait \in Nat
    /\ Batch2Wait <= SingletonWait
    /\ UrgentBurst \in Nat \ {0}

Never == -1 \* a deadline that is not set

Group(queue, ready, c) == {d \in ready : queue[d].profile = queue[c].profile}
Waited(queue, cameras, ticks) == \E c \in cameras : queue[c].waited >= ticks
Limit(queue, c) == BatchLimit[queue[c].profile]

\* Normal work that need not wait for company any longer.
NormalCandidates(queue, ready, capacity) ==
    {c \in ready :
        LET group == Group(queue, ready, c)
        IN  /\ ~queue[c].urgent
            /\ \/ Limit(queue, c) >= 4 /\ capacity >= 4 /\ Cardinality(group) >= 4
               \/ /\ Limit(queue, c) >= 2 /\ capacity >= 2 /\ Cardinality(group) >= 2
                  /\ Waited(queue, group, Batch2Wait)
               \/ queue[c].waited >= SingletonWait}

\* How far a camera is behind a place, in cyclic order.
Distance(place, count, start, c) ==
    IF place[c] < start THEN place[c] + count - start ELSE place[c] - start

\* The cameras that come before c, in cyclic order from a place.
Ahead(place, count, start, cameras, c) ==
    {d \in cameras : Distance(place, count, start, d) < Distance(place, count, start, c)}

\* The first eligible camera from the cursor on, if there is one.
FairPick(place, count, cursor, eligible) ==
    {c \in eligible : Ahead(place, count, cursor % count, eligible, c) = {}}

\* What bounds the size of a batch; its mutant leaves out the profile.
BoundsWithoutProfile(queue, group, capacity, seed) == {capacity, Cardinality(group)}
Bounds(queue, group, capacity, seed) == {capacity, Cardinality(group), Limit(queue, seed)}

Size(queue, group, capacity, seed, immediate) ==
    LET RoomFor(n) == \A bound \in Bounds(queue, group, capacity, seed) : n <= bound
    IN  IF RoomFor(4) THEN 4
        ELSE IF RoomFor(2) /\ (immediate \/ Waited(queue, group, Batch2Wait)) THEN 2
        ELSE 1

\* The seed and the cameras that share its batch: the first 4, 2 or 1 of its group.
Cohort(place, count, queue, ready, capacity, seed, immediate) ==
    LET group == Group(queue, ready, seed)
        size  == Size(queue, group, capacity, seed, immediate)
    IN  {c \in group : Cardinality(Ahead(place, count, place[seed], group, c)) < size}

\* Mutants of ForceNormal: urgent work always goes first, or never.
NeverForced(normal, urgent, streak) == FALSE
AlwaysForced(normal, urgent, streak) == normal # {} /\ urgent # {}

\* Normal work that is due gets its turn after a burst of urgent batches.
ForceNormal(normal, urgent, streak) == normal # {} /\ urgent # {} /\ streak >= UrgentBurst

\* The next batch, if any work is due, with its seed and the length of the
\* burst after it.
Choices(place, count, cursor, streak, queue, ready, capacity) ==
    LET normal == NormalCandidates(queue, ready, capacity)
        urgent == {c \in ready : queue[c].urgent}
        Batches(eligible, immediate, burst) ==
            {[batch |-> Cohort(place, count, queue, ready, capacity, seed, immediate),
              seed |-> seed, streak |-> burst] : seed \in FairPick(place, count, cursor, eligible)}
    IN  IF capacity <= 0 THEN {}
        ELSE IF urgent # {} /\ ~ForceNormal(normal, urgent, streak)
        THEN Batches(urgent, TRUE, IF streak < UrgentBurst THEN streak + 1 ELSE streak)
        ELSE Batches(normal, FALSE, 0)

\* The last camera of a batch, in cyclic order from its seed.
LastOf(place, count, choice) ==
    {c \in choice.batch : \A d \in choice.batch :
        c \notin Ahead(place, count, place[choice.seed], choice.batch, d)}

\* _advance_fair_cursor_locked: behind the last camera of the batch.
CursorAfter(place, count, last) == (place[last] + 1) % count

\* _next_wake_delay_locked: the ticks the scheduler may sleep.
WakeTimes(queue, queued, ready, capacity) ==
    ({queue[c].left : c \in queued} \ {Never})
    \cup (IF capacity <= 0 THEN {}
          ELSE {SingletonWait - queue[c].waited : c \in {d \in ready : ~queue[d].urgent}}
               \cup {Batch2Wait - queue[c].waited :
                        c \in {d \in ready :
                                 /\ Limit(queue, d) >= 2 /\ capacity >= 2
                                 /\ Cardinality(Group(queue, ready, d)) >= 2}})

WakeDelay(queue, queued, ready, capacity) ==
    LET times == WakeTimes(queue, queued, ready, capacity)
        least == CHOOSE t \in times : \A u \in times : t <= u
    IN  IF times = {} THEN Never ELSE IF least < 0 THEN 0 ELSE least

=============================================================================
