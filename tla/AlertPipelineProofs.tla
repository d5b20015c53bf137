------------------------- MODULE AlertPipelineProofs -------------------------
(***************************************************************************)
(* The alert pipeline for any number of alerts and delivery workers and    *)
(* any capacities: every job is in exactly one place and the counters that *)
(* drain() and shutdown() read are exact, a retry is refused only when the *)
(* backlog is full of other alerts' retries, and the pipeline implements   *)
(* AlertIntake.                                                            *)
(***************************************************************************)
EXTENDS AlertPipeline, FiniteSetTheorems, TLAPS

-----------------------------------------------------------------------------
(* The inductive invariant.  JobsAccounted is not inductive alone: it does *)
(* not say which threads exist and which of them holds an alert, nor what  *)
(* shutdown() has found empty when it goes on.                             *)

\* A thread holds an alert exactly while it works on one, and the persistence
\* thread has an attempt left while it tries.
Held ==
    /\ persister.pc \in {"persist", "put"} <=> persister.alert # NoAlert
    /\ persister.pc = "persist" => persister.tries < PersistAttempts
    /\ \A w \in Worker : worker[w].pc \in {"wait", "deliver"} <=> worker[w].alert # NoAlert
    /\ retrier.pc \in {"put", "release"} => retrier.alert # NoAlert

\* A pipeline that does not run has no threads, so that start() loses nothing.
Idle == ~running => AllOff

\* A retry that is registered but not yet released is still queued, or its
\* worker waits for it.
HandedOff ==
    retrier.pc = "release" =>
        \/ Occurrences(deliveryQ, retrier.alert) > 0
        \/ \E w \in Worker : worker[w].pc = "wait" /\ worker[w].alert = retrier.alert

\* What shutdown() has established at each of its points.
Closing ==
    /\ stopper # "idle" => running /\ ~accepting
    /\ accepting => running /\ ~workerStop
    /\ stopper \in {"retries", "persistence", "delivery", "stop", "join"} => submitters = 0
    /\ stopper \in {"delivery", "stop", "join"} => persistOpen = 0
    /\ stopper = "join" => workerStop

PipelineInv == JobsAccounted /\ Held /\ Idle /\ HandedOff /\ Closing

-----------------------------------------------------------------------------
(* Counting. *)

\* A set that changes at one element changes its count by that element.
LEMMA CountMoves ==
    ASSUME NEW S, IsFiniteSet(S), NEW A \in SUBSET S, NEW B \in SUBSET S, NEW s \in S,
           \A t \in S : t # s => (t \in A <=> t \in B)
    PROVE  /\ Cardinality(A) \in Nat
           /\ Cardinality(B) = Cardinality(A) - Count(s \in A) + Count(s \in B)
           /\ Cardinality(A) >= Count(s \in A)
<1> DEFINE rest == A \ {s}
<1>1. IsFiniteSet(A) /\ IsFiniteSet(rest)
  BY FS_Subset
<1>2. Cardinality(A) \in Nat /\ Cardinality(rest) \in Nat
  BY <1>1, FS_CardinalityType
<1>3. s \notin rest /\ A = (IF s \in A THEN rest \cup {s} ELSE rest)
  OBVIOUS
<1>4. B = IF s \in B THEN rest \cup {s} ELSE rest
  OBVIOUS
<1>5. Cardinality(rest \cup {s}) = Cardinality(rest) + 1
  BY <1>1, <1>3, FS_AddElement
<1> HIDE DEF rest
<1>6. Cardinality(A) = Cardinality(rest) + IF s \in A THEN 1 ELSE 0
  <2>1. CASE s \in A
    BY <1>2, <1>3, <1>5, <2>1
  <2>2. CASE s \notin A
    BY <1>2, <1>3, <2>2
  <2> QED BY <2>1, <2>2
<1>7. Cardinality(B) = Cardinality(rest) + IF s \in B THEN 1 ELSE 0
  <2>1. CASE s \in B
    BY <1>2, <1>4, <1>5, <2>1
  <2>2. CASE s \notin B
    BY <1>2, <1>4, <2>2
  <2> QED BY <2>1, <2>2
<1>8. /\ Count(s \in A) = IF s \in A THEN 1 ELSE 0
      /\ Count(s \in B) = IF s \in B THEN 1 ELSE 0
  BY DEF Count
<1> QED BY <1>2, <1>6, <1>7, <1>8

\* How often an alert is queued is a number.
LEMMA OccurrencesType ==
    ASSUME NEW S, NEW q \in Seq(S), NEW a
    PROVE  /\ IsFiniteSet({i \in DOMAIN q : q[i] = a})
           /\ Occurrences(q, a) \in Nat
           /\ q = <<>> => Occurrences(q, a) = 0
<1>1. DOMAIN q = 1 .. Len(q) /\ Len(q) \in Nat
  OBVIOUS
<1>2. IsFiniteSet(1 .. Len(q))
  BY <1>1, FS_Interval
<1>3. IsFiniteSet({i \in DOMAIN q : q[i] = a})
  BY <1>1, <1>2, FS_Subset
<1>4. q = <<>> => {i \in DOMAIN q : q[i] = a} = {}
  BY <1>1
<1> QED BY <1>3, <1>4, FS_CardinalityType, FS_EmptySet DEF Occurrences

LEMMA OccurrencesAppend ==
    ASSUME NEW S, NEW q \in Seq(S), NEW x \in S, NEW a
    PROVE  Occurrences(Append(q, x), a) = Occurrences(q, a) + Count(x = a)
<1> DEFINE before == {i \in DOMAIN q : q[i] = a}
           after  == {i \in DOMAIN Append(q, x) : Append(q, x)[i] = a}
           n      == Len(q) + 1
<1>1. IsFiniteSet(before) /\ Cardinality(before) \in Nat
  BY OccurrencesType, FS_CardinalityType
<1>2. /\ DOMAIN q = 1 .. Len(q) /\ Len(q) \in Nat
      /\ DOMAIN Append(q, x) = 1 .. n
      /\ Append(q, x)[n] = x
      /\ \A i \in 1 .. Len(q) : Append(q, x)[i] = q[i]
  OBVIOUS
<1>3. n \notin before
  BY <1>2
<1>4. CASE x = a
  <2>1. after = before \cup {n}
    BY <1>2, <1>4
  <2>2. Cardinality(after) = Cardinality(before) + 1
    BY <1>1, <1>3, <2>1, FS_AddElement
  <2> QED BY <1>4, <2>2 DEF Occurrences, Count
<1>5. CASE x # a
  <2>1. after = before
    BY <1>2, <1>5
  <2>2. Occurrences(Append(q, x), a) = Cardinality(before) /\ Occurrences(q, a) = Cardinality(before)
    BY <2>1 DEF Occurrences
  <2>3. Count(x = a) = 0
    BY <1>5 DEF Count
  <2> HIDE DEF before
  <2> QED BY <1>1, <2>2, <2>3
<1> QED BY <1>4, <1>5

LEMMA OccurrencesTail ==
    ASSUME NEW S, NEW q \in Seq(S), q # <<>>, NEW a
    PROVE  /\ Head(q) \in S /\ Tail(q) \in Seq(S) /\ Len(Tail(q)) = Len(q) - 1
           /\ Occurrences(q, a) = Count(Head(q) = a) + Occurrences(Tail(q), a)
<1> DEFINE r      == Tail(q)
           rest   == {i \in DOMAIN r : r[i] = a}
           later  == {i \in DOMAIN q : q[i] = a /\ i # 1}
           all    == {i \in DOMAIN q : q[i] = a}
           f      == [i \in rest |-> i + 1]
<1>1. /\ DOMAIN q = 1 .. Len(q) /\ Len(q) \in Nat \ {0} /\ q[1] = Head(q)
      /\ DOMAIN r = 1 .. Len(q) - 1 /\ Len(r) = Len(q) - 1
      /\ \A i \in 1 .. Len(q) - 1 : r[i] = q[i + 1]
      /\ r \in Seq(S) /\ Head(q) \in S
  OBVIOUS
<1>2. IsFiniteSet(rest) /\ Cardinality(rest) \in Nat
  <2>1. r \in Seq(S)
    BY <1>1
  <2> HIDE DEF r
  <2> QED BY <2>1, OccurrencesType, FS_CardinalityType
<1>3. f \in Bijection(rest, later)
  <2>1. \A i \in rest : i \in Nat /\ f[i] = i + 1 /\ f[i] \in later
    BY <1>1
  <2>2. \A j \in later : j - 1 \in rest /\ f[j - 1] = j
    BY <1>1
  <2> HIDE DEF rest, later
  <2>3. f \in [rest -> later]
    BY <2>1
  <2>4. \A i, j \in rest : f[i] = f[j] => i = j
    BY <2>1
  <2> HIDE DEF f
  <2>5. f \in Injection(rest, later)
    BY <2>3, <2>4 DEF Injection, IsInjective
  <2>6. f \in Surjection(rest, later)
    BY <2>2, <2>3 DEF Surjection
  <2> QED BY <2>5, <2>6 DEF Bijection
<1>4. IsFiniteSet(later) /\ Cardinality(later) = Cardinality(rest)
  <2> HIDE DEF rest, later, f
  <2>1. ExistsBijection(rest, later)
    BY <1>3 DEF ExistsBijection
  <2> QED BY <1>2, <2>1, FS_Bijection
<1>5. all = IF Head(q) = a THEN later \cup {1} ELSE later
  BY <1>1
<1>6. Cardinality(later \cup {1}) = Cardinality(later) + 1
  BY <1>4, FS_AddElement
<1>7. Cardinality(all) = Count(Head(q) = a) + Cardinality(rest)
  <2> HIDE DEF rest, later, all
  <2>1. CASE Head(q) = a
    BY <1>2, <1>4, <1>5, <1>6, <2>1 DEF Count
  <2>2. CASE Head(q) # a
    BY <1>2, <1>4, <1>5, <2>2 DEF Count
  <2> QED BY <2>1, <2>2
<1> QED BY <1>1, <1>7 DEF Occurrences

-----------------------------------------------------------------------------
(* The threads, and what shutdown() knows of them. *)

LEMMA Constants ==
    /\ Advisory \subseteq Alert
    /\ IsFiniteSet(Alert) /\ IsFiniteSet(Worker)
    /\ PersistCap \in Nat \ {0} /\ DeliveryCap \in Nat \ {0} /\ RetryCap \in Nat \ {0}
    /\ PersistAttempts \in Nat \ {0} /\ DeliveryAttempts \in Nat \ {0}
    /\ NoAlert \notin Alert
BY PipelineAssumption

\* What the steps of each thread leave alone.
LEMMA Scopes ==
    /\ \A a \in Alert : ProducerStep(a) => UNCHANGED <<stopper, deliveryQ, deliveryOpen, heap, pending, endVars>>
    /\ PersisterStep => UNCHANGED <<gateVars, intakeVars, worker, retryVars, attempt>>
    /\ \A w \in Worker : WorkerStep(w) => UNCHANGED <<gateVars, intakeVars, persistVars, retrier>>
    /\ RetrierStep => UNCHANGED <<gateVars, intakeVars, persistVars, worker, endVars>>
    /\ StopperStep => UNCHANGED <<intakeVars, persistVars, deliveryVars, retryVars, endVars>>
<1> USE DEF gateVars, intakeVars, persistVars, deliveryVars, retryVars, endVars
<1>1. ASSUME NEW a \in Alert, ProducerStep(a)
      PROVE  UNCHANGED <<stopper, deliveryQ, deliveryOpen, heap, pending, endVars>>
  BY <1>1 DEF ProducerStep, Start, StartFails, Register, PutPersist, RejectAdvisory, Leave
<1>2. ASSUME PersisterStep
      PROVE  UNCHANGED <<gateVars, intakeVars, worker, retryVars, attempt>>
  BY <1>2 DEF PersisterStep, TakePersist, PersistFails, PersistSucceeds, PutDelivery, PersistDone,
       PersisterExits
<1>3. ASSUME NEW w \in Worker, WorkerStep(w)
      PROVE  UNCHANGED <<gateVars, intakeVars, persistVars, retrier>>
  BY <1>3 DEF WorkerStep, TakeDelivery, CallDelivery, Ends, SchedulesRetry, RetryRefused,
       DeliveryDone, WorkerExits
<1>4. ASSUME RetrierStep
      PROVE  UNCHANGED <<gateVars, intakeVars, persistVars, worker, endVars>>
  BY <1>4 DEF RetrierStep, PopRetry, PutRetry, ReleaseRetry, RetrierExits
<1>5. ASSUME StopperStep
      PROVE  UNCHANGED <<intakeVars, persistVars, deliveryVars, retryVars, endVars>>
  BY <1>5 DEF StopperStep, AlreadyStopped, vars, CloseAdmission, ProducersLeft, NoRetries,
       PersistenceDrained, DeliveryDrained, StopWorkers, Joined, TimesOut, Shut
<1> QED BY <1>1, <1>2, <1>3, <1>4, <1>5

LEMMA HeldStep ==
    ASSUME TypeOK, Held, Next
    PROVE  Held'
<1> USE DEF Held, gateVars, intakeVars, persistVars, deliveryVars, retryVars, endVars
<1>1. ASSUME NEW a \in Alert, ProducerStep(a) PROVE Held'
  BY <1>1 DEF TypeOK, ProducerStep, Start, StartFails, Register, PutPersist, RejectAdvisory, Leave,
       Polling
<1>2. ASSUME PersisterStep PROVE Held'
  <2>1. CASE TakePersist
    <3>1. Head(persistQ) \in Alert
      BY <2>1, OccurrencesTail DEF TypeOK, TakePersist
    <3> QED BY <2>1, <3>1, Constants DEF TakePersist
  <2>2. CASE PersistFails
    <3>1. CASE persister.tries + 1 = PersistAttempts
      BY <2>2, <3>1, Scopes DEF PersisterStep, PersistFails
    <3>2. CASE persister.tries + 1 # PersistAttempts
      <4>1. persister' = [persister EXCEPT !.tries = persister.tries + 1]
        BY <2>2, <3>2 DEF PersistFails
      <4>2. /\ persister'.pc = persister.pc /\ persister'.alert = persister.alert
            /\ persister'.tries = persister.tries + 1
        BY <4>1 DEF TypeOK
      <4>3. persister'.tries < PersistAttempts
        <5>1. persister.tries < PersistAttempts /\ persister.tries \in Nat
          BY <2>2 DEF PersistFails, TypeOK
        <5> QED BY <3>2, <4>2, <5>1, Constants
      <4> QED BY <2>2, <4>2, <4>3, Scopes DEF PersisterStep
    <3> QED BY <3>1, <3>2
  <2>3. CASE PersistSucceeds
    BY <2>3 DEF TypeOK, PersistSucceeds
  <2>4. CASE PutDelivery \/ PersistDone \/ PersisterExits
    BY <2>4 DEF TypeOK, PutDelivery, PersistDone, PersisterExits
  <2> QED BY <1>2, <2>1, <2>2, <2>3, <2>4 DEF PersisterStep
<1>3. ASSUME NEW w \in Worker, WorkerStep(w) PROVE Held'
  <2> SUFFICES ASSUME persister' = persister, retrier' = retrier,
                      NEW r, worker' = [worker EXCEPT ![w] = r],
                      r.pc \in {"wait", "deliver"} <=> r.alert # NoAlert
               PROVE  Held'
    <3>1. CASE TakeDelivery(w)
      <4>1. Head(deliveryQ) \in Alert
        BY <3>1, OccurrencesTail DEF TypeOK, TakeDelivery
      <4> QED BY <3>1, <4>1, Constants DEF TakeDelivery
    <3>2. CASE CallDelivery(w)
      BY <3>2, Constants DEF TypeOK, CallDelivery
    <3>3. CASE (\E result \in {"delivered", "failed"} : Ends(w, result)) \/ RetryRefused(w)
      BY <3>3 DEF Ends, RetryRefused
    <3>4. CASE SchedulesRetry(w) \/ DeliveryDone(w) \/ WorkerExits(w)
      BY <3>4 DEF SchedulesRetry, DeliveryDone, WorkerExits, Off, Polling
    <3> QED BY <1>3, <3>1, <3>2, <3>3, <3>4 DEF WorkerStep
  <2> QED BY DEF TypeOK
<1>4. ASSUME RetrierStep PROVE Held'
  <2>1. retrier'.pc \in {"put", "release"} => retrier'.alert # NoAlert
    <3>1. CASE \E a \in Alert : PopRetry(a)
      BY <3>1, Constants DEF PopRetry
    <3>2. CASE PutRetry
      <4>1. retrier' = [retrier EXCEPT !.pc = "release"] /\ retrier.pc = "put"
        BY <3>2 DEF PutRetry
      <4>2. retrier'.alert = retrier.alert
        BY <4>1 DEF TypeOK
      <4> QED BY <4>1, <4>2
    <3>3. CASE ReleaseRetry \/ RetrierExits
      BY <3>3 DEF ReleaseRetry, RetrierExits, Off, Polling
    <3> QED BY <1>4, <3>1, <3>2, <3>3 DEF RetrierStep
  <2>2. UNCHANGED <<persister, worker>>
    BY <1>4, Scopes
  <2> QED BY <2>1, <2>2
<1> QED BY <1>1, <1>2, <1>3, <1>4, Scopes DEF Next

LEMMA IdleStep ==
    ASSUME TypeOK, Idle, Next
    PROVE  Idle'
<1> USE DEF Idle, AllOff, gateVars, intakeVars, persistVars, deliveryVars, retryVars, endVars
<1>1. ASSUME NEW a \in Alert, ProducerStep(a) PROVE Idle'
  BY <1>1 DEF TypeOK, ProducerStep, Start, StartFails, Register, PutPersist, RejectAdvisory, Leave
<1>2. ASSUME PersisterStep PROVE Idle'
  BY <1>2 DEF TypeOK, PersisterStep, TakePersist, PersistFails, PersistSucceeds,
       PutDelivery, PersistDone, PersisterExits
<1>3. ASSUME NEW w \in Worker, WorkerStep(w) PROVE Idle'
  BY <1>3 DEF TypeOK, WorkerStep, TakeDelivery, CallDelivery, Ends, SchedulesRetry,
       RetryRefused, DeliveryDone, WorkerExits, Off, Polling
<1>4. ASSUME RetrierStep PROVE Idle'
  BY <1>4 DEF TypeOK, RetrierStep, PopRetry, PutRetry, ReleaseRetry, RetrierExits, Off, Polling
<1>5. ASSUME StopperStep PROVE Idle'
  BY <1>5 DEF StopperStep, AlreadyStopped, vars, CloseAdmission, ProducersLeft, NoRetries,
       PersistenceDrained, DeliveryDrained, StopWorkers, Joined, TimesOut, Shut
<1> QED BY <1>1, <1>2, <1>3, <1>4, <1>5 DEF Next

-----------------------------------------------------------------------------
(* The counters. *)

Inside == {a \in Alert : producer[a] \in {"putting", "leaving"}}
Busy == {w \in Worker : worker[w].pc \in {"wait", "deliver", "done"}}

LEMMA SubmittersStep ==
    ASSUME TypeOK, submitters = Cardinality(Inside), Next
    PROVE  submitters' = Cardinality(Inside')
<1> USE DEF gateVars, intakeVars, persistVars, deliveryVars, retryVars, endVars
<1>1. ASSUME NEW a \in Alert, ProducerStep(a) PROVE submitters' = Cardinality(Inside')
  <2>1. PICK to : producer' = [producer EXCEPT ![a] = to]
    BY <1>1 DEF ProducerStep, Start, StartFails, Register, PutPersist, RejectAdvisory, Leave
  <2>2. /\ Cardinality(Inside) \in Nat
        /\ Cardinality(Inside') = Cardinality(Inside) - Count(a \in Inside) + Count(a \in Inside')
    <3>1. /\ Inside \in SUBSET Alert /\ Inside' \in SUBSET Alert
          /\ \A t \in Alert : t # a => (t \in Inside <=> t \in Inside')
      BY <2>1 DEF Inside, TypeOK
    <3> QED BY <3>1, CountMoves, Constants
  <2>3. submitters' = submitters - Count(a \in Inside) + Count(a \in Inside')
    BY <1>1, <2>2 DEF TypeOK, Inside, Count, ProducerStep, Start, StartFails, Register, PutPersist,
         RejectAdvisory, Leave
  <2> QED BY <2>2, <2>3
<1>2. ASSUME UNCHANGED intakeVars PROVE submitters' = Cardinality(Inside')
  BY <1>2 DEF Inside
<1> QED BY <1>1, <1>2, Scopes DEF Next

PersistOpenExact == persistOpen = Len(persistQ) + Count(persister.pc \in {"persist", "put", "done"})

LEMMA PersistOpenStep ==
    ASSUME TypeOK, Idle, PersistOpenExact, Next
    PROVE  PersistOpenExact'
<1> USE DEF gateVars, intakeVars, persistVars, deliveryVars, retryVars, endVars, PersistOpenExact, Count
<1>1. ASSUME NEW a \in Alert, ProducerStep(a) PROVE PersistOpenExact'
  <2>1. CASE PutPersist(a)
    <3>1. Len(Append(persistQ, a)) = Len(persistQ) + 1 /\ Len(persistQ) \in Nat
      BY DEF TypeOK
    <3> QED BY <2>1, <3>1 DEF PutPersist
  <2>2. CASE Start(a)
    BY <2>2 DEF Start, Idle, AllOff
  <2>3. CASE StartFails(a) \/ Register(a) \/ RejectAdvisory(a) \/ Leave(a)
    BY <2>3 DEF StartFails, Register, RejectAdvisory, Leave
  <2> QED BY <1>1, <2>1, <2>2, <2>3 DEF ProducerStep
<1>2. ASSUME PersisterStep PROVE PersistOpenExact'
  <2>1. CASE TakePersist
    <3>1. Len(Tail(persistQ)) = Len(persistQ) - 1 /\ Len(persistQ) \in Nat
      BY <2>1, OccurrencesTail DEF TypeOK, TakePersist
    <3> QED BY <2>1, <3>1 DEF TakePersist
  <2>2. CASE PersistFails \/ PersistSucceeds \/ PutDelivery \/ PersisterExits
    BY <2>2 DEF TypeOK, PersistFails, PersistSucceeds, PutDelivery, PersisterExits
  <2>3. CASE PersistDone
    <3>1. Len(persistQ) \in Nat
      BY DEF TypeOK
    <3> QED BY <2>3, <3>1 DEF PersistDone
  <2> QED BY <1>2, <2>1, <2>2, <2>3 DEF PersisterStep
<1>3. UNCHANGED persistVars => PersistOpenExact'
  OBVIOUS
<1> QED BY <1>1, <1>2, <1>3, Scopes DEF Next

DeliveryOpenExact == deliveryOpen = Len(deliveryQ) + Cardinality(Busy)

\* One worker's move changes the count of the workers that have a job.
LEMMA BusyMoves ==
    ASSUME TypeOK, NEW w \in Worker, NEW r, worker' = [worker EXCEPT ![w] = r]
    PROVE  /\ Cardinality(Busy) \in Nat
           /\ Cardinality(Busy') = Cardinality(Busy)
                - (IF worker[w].pc \in {"wait", "deliver", "done"} THEN 1 ELSE 0)
                + (IF r.pc \in {"wait", "deliver", "done"} THEN 1 ELSE 0)
           /\ worker[w].pc \in {"wait", "deliver", "done"} => Cardinality(Busy) >= 1
<1>1. /\ Busy \in SUBSET Worker /\ Busy' \in SUBSET Worker
      /\ \A u \in Worker : u # w => (u \in Busy <=> u \in Busy')
      /\ w \in Busy <=> worker[w].pc \in {"wait", "deliver", "done"}
      /\ w \in Busy' <=> r.pc \in {"wait", "deliver", "done"}
  BY DEF Busy, TypeOK
<1>2. /\ Cardinality(Busy) \in Nat
      /\ Cardinality(Busy') = Cardinality(Busy) - Count(w \in Busy) + Count(w \in Busy')
      /\ Cardinality(Busy) >= Count(w \in Busy)
  BY <1>1, CountMoves, Constants
<1> QED BY <1>1, <1>2 DEF Count

LEMMA DeliveryOpenStep ==
    ASSUME TypeOK, Held, Idle, DeliveryOpenExact, Next
    PROVE  DeliveryOpenExact'
<1> USE DEF gateVars, intakeVars, persistVars, deliveryVars, retryVars, endVars, DeliveryOpenExact
<1>1. Len(deliveryQ) \in Nat /\ deliveryOpen \in Nat
  BY DEF TypeOK
<1>2. ASSUME UNCHANGED <<deliveryQ, deliveryOpen, worker>> PROVE DeliveryOpenExact'
  BY <1>2 DEF Busy
<1>3. ASSUME NEW a \in Alert, deliveryQ' = Append(deliveryQ, a), deliveryOpen' = deliveryOpen + 1,
             worker' = worker
      PROVE  DeliveryOpenExact'
  <2>1. Len(Append(deliveryQ, a)) = Len(deliveryQ) + 1
    BY DEF TypeOK
  <2>2. Busy' = Busy /\ Cardinality(Busy) \in Nat
    <3>1. Busy' = Busy /\ IsFiniteSet(Busy)
      BY <1>3, Constants, FS_Subset DEF Busy
    <3> QED BY <3>1, FS_CardinalityType
  <2> QED BY <1>1, <1>3, <2>1, <2>2
<1>4. ASSUME NEW a \in Alert, ProducerStep(a) PROVE DeliveryOpenExact'
  <2>1. CASE Start(a) /\ ~running
    <3>1. Busy' = {} /\ Busy = {}
      BY <2>1 DEF Start, Busy, Polling, Idle, AllOff
    <3> QED BY <1>4, <3>1, Scopes
  <2>2. CASE ~(Start(a) /\ ~running)
    <3>1. worker' = worker
      BY <1>4, <2>2 DEF ProducerStep, Start, StartFails, Register, PutPersist, RejectAdvisory, Leave
    <3> QED BY <1>2, <1>4, <3>1, Scopes
  <2> QED BY <2>1, <2>2
<1>5. ASSUME PersisterStep PROVE DeliveryOpenExact'
  <2>1. CASE PutDelivery
    BY <1>3, <1>5, <2>1, Constants DEF PutDelivery, Held, TypeOK
  <2>2. CASE ~PutDelivery
    BY <1>2, <1>5, <2>2 DEF PersisterStep, TakePersist, PersistFails, PersistSucceeds, PersistDone,
         PersisterExits
  <2> QED BY <2>1, <2>2
<1>6. ASSUME RetrierStep PROVE DeliveryOpenExact'
  <2>1. CASE PutRetry
    BY <1>3, <2>1, Constants DEF PutRetry, Held, TypeOK
  <2>2. CASE ~PutRetry
    BY <1>2, <1>6, <2>2 DEF RetrierStep, PopRetry, ReleaseRetry, RetrierExits
  <2> QED BY <2>1, <2>2
<1>7. ASSUME NEW w \in Worker, WorkerStep(w) PROVE DeliveryOpenExact'
  <2>1. CASE TakeDelivery(w)
    <3>1. Len(Tail(deliveryQ)) = Len(deliveryQ) - 1
      BY <2>1, OccurrencesTail DEF TypeOK, TakeDelivery
    <3> DEFINE r == [pc |-> "wait", alert |-> Head(deliveryQ)]
    <3>2. worker[w].pc = "get" /\ worker' = [worker EXCEPT ![w] = r] /\ r.pc = "wait"
      BY <2>1 DEF TakeDelivery
    <3> HIDE DEF r
    <3>3. /\ Cardinality(Busy) \in Nat
          /\ Cardinality(Busy') = Cardinality(Busy)
               - (IF worker[w].pc \in {"wait", "deliver", "done"} THEN 1 ELSE 0)
               + (IF r.pc \in {"wait", "deliver", "done"} THEN 1 ELSE 0)
      BY <3>2, BusyMoves
    <3>4. Cardinality(Busy) \in Nat /\ Cardinality(Busy') = Cardinality(Busy) + 1
      BY <3>2, <3>3
    <3> QED BY <1>1, <2>1, <3>1, <3>4 DEF TakeDelivery
  <2>2. CASE DeliveryDone(w)
    <3> DEFINE r == IF workerStop THEN Off ELSE Polling
    <3>1. r.pc \notin {"wait", "deliver", "done"}
      BY DEF Off, Polling
    <3>2. worker[w].pc = "done" /\ worker' = [worker EXCEPT ![w] = r]
      BY <2>2 DEF DeliveryDone
    <3> HIDE DEF r
    <3>3. /\ Cardinality(Busy) \in Nat
          /\ Cardinality(Busy') = Cardinality(Busy)
               - (IF worker[w].pc \in {"wait", "deliver", "done"} THEN 1 ELSE 0)
               + (IF r.pc \in {"wait", "deliver", "done"} THEN 1 ELSE 0)
      BY <3>2, BusyMoves
    <3>4. Cardinality(Busy) \in Nat /\ Cardinality(Busy') = Cardinality(Busy) - 1
      BY <3>1, <3>2, <3>3
    <3> QED BY <1>1, <2>2, <3>4 DEF DeliveryDone
  <2>3. CASE ~TakeDelivery(w) /\ ~DeliveryDone(w)
    <3>1. PICK r : /\ worker' = [worker EXCEPT ![w] = r]
                   /\ r.pc \in {"wait", "deliver", "done"}
                        <=> worker[w].pc \in {"wait", "deliver", "done"}
      <4>1. CASE CallDelivery(w)
        <5>1. worker' = [worker EXCEPT ![w] = [worker[w] EXCEPT !.pc = "deliver"]]
          BY <4>1 DEF CallDelivery, TypeOK
        <5> QED BY <4>1, <5>1 DEF CallDelivery, TypeOK
      <4>2. CASE ~CallDelivery(w)
        BY <1>7, <2>3, <4>2 DEF WorkerStep, Ends, SchedulesRetry, RetryRefused, WorkerExits, Off
      <4> QED BY <4>1, <4>2
    <3>2. UNCHANGED <<deliveryQ, deliveryOpen>>
      BY <1>7, <2>3 DEF WorkerStep, CallDelivery, Ends, SchedulesRetry, RetryRefused, WorkerExits
    <3>3. /\ Cardinality(Busy) \in Nat
          /\ Cardinality(Busy') = Cardinality(Busy)
               - (IF worker[w].pc \in {"wait", "deliver", "done"} THEN 1 ELSE 0)
               + (IF r.pc \in {"wait", "deliver", "done"} THEN 1 ELSE 0)
      BY <3>1, BusyMoves
    <3>4. Cardinality(Busy') = Cardinality(Busy)
      BY <3>1, <3>3
    <3> QED BY <1>1, <3>2, <3>4
  <2> QED BY <2>1, <2>2, <2>3
<1>8. ASSUME StopperStep PROVE DeliveryOpenExact'
  BY <1>2, <1>8, Scopes
<1> QED BY <1>4, <1>5, <1>6, <1>7, <1>8 DEF Next

PendingExact == pending = Cardinality(heap) + Cardinality(Holding(retrier))

\* The backlog counts the retries in the heap and the one being handed over.
LEMMA PendingStep ==
    ASSUME TypeOK, Held, Idle, PendingExact, Next,
           \A w \in Worker : worker[w].pc = "deliver" => worker[w].alert \notin heap
    PROVE  PendingExact'
<1> USE DEF gateVars, intakeVars, persistVars, deliveryVars, retryVars, endVars, PendingExact
<1>1. IsFiniteSet(heap) /\ Cardinality(heap) \in Nat /\ pending \in Nat
  BY Constants, FS_Subset, FS_CardinalityType DEF TypeOK
<1>2. \A x : Cardinality({x}) = 1
  BY FS_Singleton
<1>3. Cardinality({}) = 0
  BY FS_EmptySet
<1>4. Cardinality(Holding(retrier)) \in Nat
  <2>1. Holding(retrier) = {} \/ Holding(retrier) = {retrier.alert}
    BY DEF Holding
  <2>2. Cardinality({retrier.alert}) = 1
    BY <1>2
  <2>3. CASE Holding(retrier) = {}
    BY <1>3, <2>3
  <2>4. CASE Holding(retrier) = {retrier.alert}
    BY <2>2, <2>4
  <2> QED BY <2>1, <2>3, <2>4
<1>5. ASSUME UNCHANGED <<heap, pending>>, Holding(retrier') = Holding(retrier) PROVE PendingExact'
  BY <1>5 DEF Holding
<1>6. ASSUME NEW a \in Alert, ProducerStep(a) PROVE PendingExact'
  <2>1. Holding(retrier') = Holding(retrier)
    <3>1. CASE Start(a) /\ ~running
      BY <3>1 DEF Start, Holding, Idle, AllOff, Polling
    <3>2. CASE ~(Start(a) /\ ~running)
      BY <1>6, <3>2 DEF ProducerStep, Start, StartFails, Register, PutPersist, RejectAdvisory, Leave
    <3> QED BY <3>1, <3>2
  <2> QED BY <1>5, <1>6, <2>1, Scopes
<1>7. ASSUME NEW w \in Worker, WorkerStep(w) PROVE PendingExact'
  <2>1. CASE SchedulesRetry(w)
    <3>1. Cardinality(heap \cup {worker[w].alert}) = Cardinality(heap) + 1
      BY <1>1, <2>1, FS_AddElement DEF SchedulesRetry
    <3> QED BY <1>1, <1>4, <2>1, <3>1 DEF SchedulesRetry
  <2>2. CASE ~SchedulesRetry(w)
    BY <1>5, <1>7, <2>2 DEF WorkerStep, TakeDelivery, CallDelivery, Ends, RetryRefused,
         DeliveryDone, WorkerExits
  <2> QED BY <2>1, <2>2
<1>8. ASSUME RetrierStep PROVE PendingExact'
  <2>1. ASSUME NEW a \in Alert, PopRetry(a) PROVE PendingExact'
    <3>1. Cardinality(heap \ {a}) = Cardinality(heap) - 1
      BY <1>1, <2>1, FS_RemoveElement DEF PopRetry
    <3>2. Cardinality(Holding(retrier)) = 0 /\ Cardinality(Holding(retrier')) = 1
      BY <1>2, <1>3, <2>1 DEF PopRetry, Holding
    <3> QED BY <1>1, <2>1, <3>1, <3>2 DEF PopRetry
  <2>2. CASE PutRetry
    <3>1. Holding(retrier') = Holding(retrier)
      BY <2>2 DEF PutRetry, Holding, TypeOK
    <3> QED BY <1>5, <2>2, <3>1 DEF PutRetry
  <2>3. CASE ReleaseRetry
    <3>1. Cardinality(Holding(retrier)) = 1 /\ Cardinality(Holding(retrier')) = 0
      BY <1>2, <1>3, <2>3 DEF ReleaseRetry, Holding, Off, Polling
    <3> QED BY <1>1, <2>3, <3>1 DEF ReleaseRetry
  <2>4. CASE RetrierExits
    <3>1. Holding(retrier') = Holding(retrier)
      BY <2>4 DEF RetrierExits, Holding, Off
    <3> QED BY <1>5, <2>4, <3>1 DEF RetrierExits
  <2> QED BY <1>8, <2>1, <2>2, <2>3, <2>4 DEF RetrierStep
<1>9. PersisterStep \/ StopperStep => PendingExact'
  BY <1>5, Scopes
<1> QED BY <1>6, <1>7, <1>8, <1>9 DEF Next

-----------------------------------------------------------------------------
(* Where an alert is. *)

Working(a) == {w \in Worker : worker[w].alert = a}
Handing(a) == retrier.pc = "put" /\ retrier.alert = a
Admitted(a) == producer[a] \in {"leaving", "returned"}

LEMMA Parts ==
    ASSUME TypeOK, NEW a \in Alert
    PROVE  /\ Occurrences(persistQ, a) \in Nat
           /\ Occurrences(deliveryQ, a) \in Nat
           /\ IsFiniteSet(Working(a)) /\ Cardinality(Working(a)) \in Nat
           /\ \A w \in Worker : worker[w].alert = a => Cardinality(Working(a)) >= 1
<1>1. IsFiniteSet(Working(a))
  BY Constants, FS_Subset DEF Working
<1>2. Cardinality(Working(a)) \in Nat /\ (Cardinality(Working(a)) = 0 => Working(a) = {})
  BY <1>1, FS_CardinalityType, FS_EmptySet
<1>3. \A w \in Worker : worker[w].alert = a => w \in Working(a)
  BY DEF Working
<1>4. persistQ \in Seq(Alert) /\ deliveryQ \in Seq(Alert)
  BY DEF TypeOK
<1>5. Occurrences(persistQ, a) \in Nat /\ Occurrences(deliveryQ, a) \in Nat
  BY <1>4, OccurrencesType
<1> QED BY <1>1, <1>2, <1>3, <1>5

\* An alert that one of its places holds is in no other one.
LEMMA OnePlace ==
    ASSUME TypeOK, InOnePlace, NEW a \in Alert
    PROVE  /\ ~Admitted(a) => /\ Occurrences(persistQ, a) = 0 /\ persister.alert # a
                              /\ outcome[a] = "none"
           /\ Occurrences(persistQ, a) > 0 => Admitted(a) /\ outcome[a] = "none"
           /\ persister.alert = a => /\ Occurrences(persistQ, a) = 0
                                     /\ Admitted(a) /\ outcome[a] = "none"
           /\ Occurrences(deliveryQ, a) > 0 => a \notin heap /\ \A w \in Worker : worker[w].alert # a
           /\ a \in heap => ~Handing(a)
           /\ \A w \in Worker : worker[w].alert = a =>
                 /\ Occurrences(persistQ, a) = 0 /\ persister.alert # a
                 /\ a \notin heap /\ ~Handing(a)
                 /\ Admitted(a) /\ outcome[a] = "none"
                 /\ Working(a) = {w}
<1> DEFINE p == Occurrences(persistQ, a)
           d == Occurrences(deliveryQ, a)
           n == Cardinality(Working(a))
<1>1. p \in Nat /\ d \in Nat /\ n \in Nat /\ (\A w \in Worker : worker[w].alert = a => n >= 1)
  BY Parts
<1>2. p + Count(persister.alert = a) + d + n + Count(a \in heap) + Count(Handing(a))
        + Count(outcome[a] # "none") = Count(Admitted(a))
  BY DEF InOnePlace, Copies, Working, Handing, Admitted
<1>3. ASSUME NEW w \in Worker, worker[w].alert = a, n = 1 PROVE Working(a) = {w}
  <2>1. PICK x : Working(a) = {x}
    BY <1>3, Parts, FS_Singleton
  <2>2. w \in Working(a)
    BY <1>3 DEF Working
  <2> QED BY <2>1, <2>2
<1> HIDE DEF p, d, n
<1>4. p + (IF persister.alert = a THEN 1 ELSE 0) + d + n + (IF a \in heap THEN 1 ELSE 0)
        + (IF Handing(a) THEN 1 ELSE 0) + (IF outcome[a] # "none" THEN 1 ELSE 0)
      = IF Admitted(a) THEN 1 ELSE 0
  BY <1>2 DEF Count
<1>5. p = Occurrences(persistQ, a) /\ d = Occurrences(deliveryQ, a)
  BY DEF p, d
<1> QED BY <1>1, <1>3, <1>4, <1>5

LEMMA CountersStep ==
    ASSUME TypeOK, InOnePlace, CountersExact, Held, Idle, Next
    PROVE  CountersExact'
<1>1. ASSUME NEW w \in Worker, worker[w].pc = "deliver" PROVE worker[w].alert \notin heap
  <2>1. worker[w].alert \in Alert
    BY <1>1 DEF Held, TypeOK
  <2> QED BY <2>1, OnePlace
<1>2. submitters' = Cardinality(Inside')
  BY SubmittersStep DEF CountersExact, Inside
<1>3. PersistOpenExact'
  BY PersistOpenStep DEF CountersExact, PersistOpenExact
<1>4. DeliveryOpenExact'
  BY DeliveryOpenStep DEF CountersExact, DeliveryOpenExact, Busy
<1>5. PendingExact'
  BY <1>1, PendingStep DEF CountersExact, PendingExact
<1> QED BY <1>2, <1>3, <1>4, <1>5 DEF CountersExact, Inside, PersistOpenExact, DeliveryOpenExact,
                                      Busy, PendingExact

-----------------------------------------------------------------------------
(* Types. *)

\* Queues keep their type and their bound.
LEMMA QueueAppend ==
    ASSUME NEW S, NEW q \in Seq(S), NEW x \in S, NEW cap \in Nat, Len(q) < cap
    PROVE  Append(q, x) \in Seq(S) /\ Len(Append(q, x)) <= cap
OBVIOUS

LEMMA QueueTail ==
    ASSUME NEW S, NEW q \in Seq(S), q # <<>>, NEW cap \in Nat, Len(q) <= cap
    PROVE  Tail(q) \in Seq(S) /\ Len(Tail(q)) <= cap
<1>1. Len(Tail(q)) = Len(q) - 1 /\ Tail(q) \in Seq(S) /\ Len(q) \in Nat
  BY OccurrencesTail
<1> QED BY <1>1

LEMMA TypeStep ==
    ASSUME TypeOK, InOnePlace, Held, Idle, CountersExact, Next
    PROVE  TypeOK'
<1> USE DEF gateVars, intakeVars, persistVars, deliveryVars, retryVars, endVars
<1>1. producer' \in [Alert -> {"new", "started", "putting", "leaving", "returned", "refused"}]
  <2>1. ASSUME NEW a \in Alert, ProducerStep(a)
        PROVE  producer' \in [Alert -> {"new", "started", "putting", "leaving", "returned", "refused"}]
    <3>1. \E p \in {"started", "putting", "leaving", "returned", "refused"} :
              producer' = [producer EXCEPT ![a] = p]
      BY <2>1 DEF ProducerStep, Start, StartFails, Register, PutPersist, RejectAdvisory, Leave
    <3> QED BY <3>1 DEF TypeOK
  <2> QED BY <2>1, Scopes DEF TypeOK, Next
<1>2. {running', accepting', workerStop'} \subseteq BOOLEAN
  <2>1. ASSUME NEW a \in Alert, ProducerStep(a) PROVE {running', accepting', workerStop'} \subseteq BOOLEAN
    BY <2>1 DEF TypeOK, ProducerStep, Start, StartFails, Register, PutPersist, RejectAdvisory, Leave
  <2>2. ASSUME StopperStep PROVE {running', accepting', workerStop'} \subseteq BOOLEAN
    BY <2>2 DEF TypeOK, StopperStep, AlreadyStopped, vars, CloseAdmission, ProducersLeft, NoRetries,
         PersistenceDrained, DeliveryDrained, StopWorkers, Joined, TimesOut, Shut
  <2> QED BY <2>1, <2>2, Scopes DEF TypeOK, Next
<1>3. persistQ' \in Seq(Alert) /\ Len(persistQ') <= PersistCap
  <2>1. ASSUME NEW a \in Alert, ProducerStep(a)
        PROVE  persistQ' \in Seq(Alert) /\ Len(persistQ') <= PersistCap
    <3>1. CASE PutPersist(a)
      BY <3>1, QueueAppend, Constants DEF TypeOK, PutPersist
    <3>2. CASE ~PutPersist(a)
      BY <2>1, <3>2 DEF TypeOK, ProducerStep, Start, StartFails, Register, RejectAdvisory, Leave
    <3> QED BY <3>1, <3>2
  <2>2. ASSUME PersisterStep PROVE persistQ' \in Seq(Alert) /\ Len(persistQ') <= PersistCap
    <3>1. CASE TakePersist
      BY <3>1, QueueTail, Constants DEF TypeOK, TakePersist
    <3>2. CASE ~TakePersist
      BY <2>2, <3>2 DEF TypeOK, PersisterStep, PersistFails, PersistSucceeds, PutDelivery,
           PersistDone, PersisterExits
    <3> QED BY <3>1, <3>2
  <2> QED BY <2>1, <2>2, Scopes DEF TypeOK, Next
<1>4. persister' \in [pc    : {"off", "get", "persist", "put", "done"},
                      alert : Alert \cup {NoAlert},
                      tries : 0 .. PersistAttempts]
  <2> DEFINE T == [pc : {"off", "get", "persist", "put", "done"}, alert : Alert \cup {NoAlert},
                   tries : 0 .. PersistAttempts]
  <2>1. ASSUME NEW a \in Alert, ProducerStep(a) PROVE persister' \in T
    BY <2>1, Constants DEF TypeOK, ProducerStep, Start, StartFails, Register, PutPersist,
         RejectAdvisory, Leave
  <2>2. ASSUME PersisterStep PROVE persister' \in T
    <3>1. CASE TakePersist
      <4>1. Head(persistQ) \in Alert
        BY <3>1, OccurrencesTail DEF TypeOK, TakePersist
      <4> QED BY <3>1, <4>1, Constants DEF TakePersist
    <3>2. CASE PersistFails
      <4>1. CASE persister.tries + 1 = PersistAttempts
        BY <3>2, <4>1, Constants DEF PersistFails
      <4>2. CASE persister.tries + 1 # PersistAttempts
        <5>1. persister' = [persister EXCEPT !.tries = persister.tries + 1]
          BY <3>2, <4>2 DEF PersistFails
        <5>2. persister.tries < PersistAttempts
          BY <3>2 DEF PersistFails, Held
        <5>3. persister.tries + 1 \in 0 .. PersistAttempts
          BY <5>2, Constants DEF TypeOK
        <5> QED BY <5>1, <5>3 DEF TypeOK
      <4> QED BY <4>1, <4>2
    <3>3. CASE PutDelivery \/ PersistDone
      BY <3>3, Constants DEF PutDelivery, PersistDone
    <3>4. CASE PersistSucceeds
      BY <3>4 DEF TypeOK, PersistSucceeds
    <3>5. CASE PersisterExits
      BY <3>5 DEF TypeOK, PersisterExits
    <3> QED BY <2>2, <3>1, <3>2, <3>3, <3>4, <3>5 DEF PersisterStep
  <2> QED BY <2>1, <2>2, Scopes DEF TypeOK, Next

<1>5. deliveryQ' \in Seq(Alert) /\ Len(deliveryQ') <= DeliveryCap
  <2>1. ASSUME PersisterStep PROVE deliveryQ' \in Seq(Alert) /\ Len(deliveryQ') <= DeliveryCap
    <3>1. CASE PutDelivery
      <4>1. persister.alert \in Alert
        BY <3>1 DEF PutDelivery, Held, TypeOK
      <4> QED BY <3>1, <4>1, QueueAppend, Constants DEF TypeOK, PutDelivery
    <3>2. CASE ~PutDelivery
      BY <2>1, <3>2 DEF TypeOK, PersisterStep, TakePersist, PersistFails, PersistSucceeds,
           PersistDone, PersisterExits
    <3> QED BY <3>1, <3>2
  <2>2. ASSUME NEW w \in Worker, WorkerStep(w)
        PROVE  deliveryQ' \in Seq(Alert) /\ Len(deliveryQ') <= DeliveryCap
    <3>1. CASE TakeDelivery(w)
      BY <3>1, QueueTail, Constants DEF TypeOK, TakeDelivery
    <3>2. CASE ~TakeDelivery(w)
      BY <2>2, <3>2 DEF TypeOK, WorkerStep, CallDelivery, Ends, SchedulesRetry, RetryRefused,
           DeliveryDone, WorkerExits
    <3> QED BY <3>1, <3>2
  <2>3. ASSUME RetrierStep PROVE deliveryQ' \in Seq(Alert) /\ Len(deliveryQ') <= DeliveryCap
    <3>1. CASE PutRetry
      <4>1. retrier.alert \in Alert
        BY <3>1 DEF PutRetry, Held, TypeOK
      <4> QED BY <3>1, <4>1, QueueAppend, Constants DEF TypeOK, PutRetry
    <3>2. CASE ~PutRetry
      BY <2>3, <3>2 DEF TypeOK, RetrierStep, PopRetry, ReleaseRetry, RetrierExits
    <3> QED BY <3>1, <3>2
  <2> QED BY <2>1, <2>2, <2>3, Scopes DEF TypeOK, Next
<1>6. worker' \in [Worker -> [pc    : {"off", "get", "wait", "deliver", "done"},
                              alert : Alert \cup {NoAlert}]]
  <2> DEFINE T == [pc : {"off", "get", "wait", "deliver", "done"}, alert : Alert \cup {NoAlert}]
  <2>1. Off \in T /\ Polling \in T
    BY DEF Off, Polling
  <2>2. ASSUME NEW a \in Alert, ProducerStep(a) PROVE worker' \in [Worker -> T]
    BY <2>1, <2>2 DEF TypeOK, ProducerStep, Start, StartFails, Register, PutPersist,
         RejectAdvisory, Leave
  <2>3. ASSUME NEW w \in Worker, WorkerStep(w) PROVE worker' \in [Worker -> T]
    <3>1. CASE TakeDelivery(w)
      <4>1. Head(deliveryQ) \in Alert
        BY <3>1, OccurrencesTail DEF TypeOK, TakeDelivery
      <4> QED BY <3>1, <4>1 DEF TakeDelivery, TypeOK
    <3>2. CASE CallDelivery(w)
      BY <3>2 DEF CallDelivery, TypeOK
    <3>3. CASE ~TakeDelivery(w) /\ ~CallDelivery(w)
      <4>1. [pc |-> "done", alert |-> NoAlert] \in T
        OBVIOUS
      <4>2. \E r \in T : worker' = [worker EXCEPT ![w] = r]
        BY <2>1, <2>3, <3>3, <4>1 DEF WorkerStep, Ends, SchedulesRetry, RetryRefused, DeliveryDone,
             WorkerExits
      <4> QED BY <4>2 DEF TypeOK
    <3> QED BY <3>1, <3>2, <3>3
  <2> QED BY <2>2, <2>3, Scopes DEF TypeOK, Next
<1>7. heap' \subseteq Alert /\ attempt' \in [Alert -> 1 .. DeliveryAttempts]
      /\ outcome' \in [Alert -> {"none", "lost", "delivered", "failed"}]
  <2>1. ASSUME NEW w \in Worker, WorkerStep(w)
        PROVE  /\ heap' \subseteq Alert /\ attempt' \in [Alert -> 1 .. DeliveryAttempts]
               /\ outcome' \in [Alert -> {"none", "lost", "delivered", "failed"}]
    <3>1. CASE SchedulesRetry(w)
      <4>1. worker[w].alert \in Alert
        BY <3>1 DEF SchedulesRetry, Held, TypeOK
      <4>2. attempt[worker[w].alert] + 1 \in 1 .. DeliveryAttempts
        BY <3>1, <4>1, Constants DEF SchedulesRetry, TypeOK
      <4> QED BY <3>1, <4>1, <4>2 DEF SchedulesRetry, TypeOK
    <3>2. CASE TakeDelivery(w) \/ CallDelivery(w) \/ DeliveryDone(w) \/ WorkerExits(w)
      BY <3>2 DEF TypeOK, TakeDelivery, CallDelivery, DeliveryDone, WorkerExits
    <3>3. CASE (\E result \in {"delivered", "failed"} : Ends(w, result)) \/ RetryRefused(w)
      <4>1. UNCHANGED <<heap, attempt>>
        BY <3>3 DEF Ends, RetryRefused
      <4>2. \E result \in {"lost", "delivered", "failed"} :
                outcome' = [outcome EXCEPT ![worker[w].alert] = result]
        BY <3>3 DEF Ends, RetryRefused
      <4> QED BY <4>1, <4>2 DEF TypeOK
    <3> QED BY <2>1, <3>1, <3>2, <3>3 DEF WorkerStep
  <2>2. ASSUME PersisterStep
        PROVE  outcome' \in [Alert -> {"none", "lost", "delivered", "failed"}]
    BY <2>2 DEF TypeOK, PersisterStep, TakePersist, PersistFails, PersistSucceeds, PutDelivery,
         PersistDone, PersisterExits
  <2>3. ASSUME RetrierStep PROVE heap' \subseteq Alert
    BY <2>3 DEF TypeOK, RetrierStep, PopRetry, PutRetry, ReleaseRetry, RetrierExits
  <2> QED BY <2>1, <2>2, <2>3, Scopes DEF TypeOK, Next
<1>8. retrier' \in [pc : {"off", "get", "put", "release"}, alert : Alert \cup {NoAlert}]
  <2> DEFINE T == [pc : {"off", "get", "put", "release"}, alert : Alert \cup {NoAlert}]
  <2>1. Off \in T /\ Polling \in T
    BY DEF Off, Polling
  <2>2. ASSUME NEW a \in Alert, ProducerStep(a) PROVE retrier' \in T
    BY <2>1, <2>2 DEF TypeOK, ProducerStep, Start, StartFails, Register, PutPersist,
         RejectAdvisory, Leave
  <2>3. ASSUME RetrierStep PROVE retrier' \in T
    <3>1. CASE PutRetry
      BY <3>1 DEF TypeOK, PutRetry
    <3>2. CASE \E a \in Alert : PopRetry(a)
      BY <3>2 DEF PopRetry
    <3>3. CASE ReleaseRetry \/ RetrierExits
      BY <2>1, <3>3 DEF ReleaseRetry, RetrierExits
    <3> QED BY <2>3, <3>1, <3>2, <3>3 DEF RetrierStep
  <2> QED BY <2>2, <2>3, Scopes DEF TypeOK, Next
<1>9. stopper' \in {"idle", "closing", "retries", "persistence", "delivery", "stop", "join"}
  <2>1. ASSUME StopperStep
        PROVE  stopper' \in {"idle", "closing", "retries", "persistence", "delivery", "stop", "join"}
    BY <2>1 DEF TypeOK, StopperStep, AlreadyStopped, vars, CloseAdmission, ProducersLeft, NoRetries,
         PersistenceDrained, DeliveryDrained, StopWorkers, Joined, TimesOut, Shut
  <2> QED BY <2>1, Scopes DEF TypeOK, Next
<1>10. submitters' \in Nat /\ persistOpen' \in Nat /\ deliveryOpen' \in Nat /\ pending' \in 0 .. RetryCap
  <2>1. /\ submitters' = Cardinality(Inside') /\ PersistOpenExact' /\ DeliveryOpenExact'
        /\ PendingExact'
    BY CountersStep DEF CountersExact, Inside, PersistOpenExact, DeliveryOpenExact, Busy, PendingExact
  <2>2. /\ IsFiniteSet(Inside') /\ IsFiniteSet(Busy') /\ IsFiniteSet(heap')
        /\ IsFiniteSet(Holding(retrier'))
    <3>1. Holding(retrier') = {} \/ Holding(retrier') = {retrier.alert'}
      BY DEF Holding
    <3> QED BY <1>7, <3>1, Constants, FS_Subset, FS_EmptySet, FS_Singleton DEF Inside, Busy
  <2>3. /\ Cardinality(Inside') \in Nat /\ Cardinality(Busy') \in Nat
        /\ Cardinality(heap') \in Nat /\ Cardinality(Holding(retrier')) \in Nat
    BY <2>2, FS_CardinalityType
  <2>4. Len(persistQ') \in Nat /\ Len(deliveryQ') \in Nat
    BY <1>3, <1>5
  <2>5. submitters' \in Nat
    BY <2>1, <2>3
  <2>6. persistOpen' \in Nat
    BY <2>1, <2>4 DEF PersistOpenExact, Count
  <2>7. deliveryOpen' \in Nat
    BY <2>1, <2>3, <2>4 DEF DeliveryOpenExact
  <2>8. pending' \in Nat
    BY <2>1, <2>3 DEF PendingExact
  <2>9. pending' <= RetryCap
    <3>1. ASSUME NEW w \in Worker, WorkerStep(w) PROVE pending' <= RetryCap
      BY <3>1, Constants DEF TypeOK, WorkerStep, TakeDelivery, CallDelivery, Ends, SchedulesRetry,
           RetryRefused, DeliveryDone, WorkerExits
    <3>2. ASSUME RetrierStep PROVE pending' <= RetryCap
      BY <3>2, Constants DEF TypeOK, RetrierStep, PopRetry, PutRetry, ReleaseRetry, RetrierExits
    <3>3. pending <= RetryCap
      BY DEF TypeOK
    <3> QED BY <3>1, <3>2, <3>3, Scopes DEF Next
  <2> QED BY <2>5, <2>6, <2>7, <2>8, <2>9, Constants
<1> QED BY <1>1, <1>2, <1>3, <1>4, <1>5, <1>6, <1>7, <1>8, <1>9, <1>10 DEF TypeOK

-----------------------------------------------------------------------------
(* No step loses or doubles an alert. *)

\* InOnePlace of one alert.
Balanced(a) ==
    Occurrences(persistQ, a) + (IF persister.alert = a THEN 1 ELSE 0)
    + Occurrences(deliveryQ, a) + Cardinality(Working(a))
    + (IF a \in heap THEN 1 ELSE 0) + (IF Handing(a) THEN 1 ELSE 0)
    + (IF outcome[a] # "none" THEN 1 ELSE 0)
    = IF Admitted(a) THEN 1 ELSE 0

LEMMA InOnePlaceBalances ==
    /\ InOnePlace <=> \A a \in Alert : Balanced(a)
    /\ InOnePlace' <=> \A a \in Alert : Balanced(a)'
BY DEF InOnePlace, Copies, Balanced, Count, Working, Handing, Admitted

LEMMA WorkingMoves ==
    ASSUME TypeOK, NEW w \in Worker, NEW r, worker' = [worker EXCEPT ![w] = r], NEW a \in Alert
    PROVE  Cardinality(Working(a)') = Cardinality(Working(a))
               - (IF worker[w].alert = a THEN 1 ELSE 0) + (IF r.alert = a THEN 1 ELSE 0)
<1>1. /\ Working(a) \in SUBSET Worker /\ Working(a)' \in SUBSET Worker
      /\ \A u \in Worker : u # w => (u \in Working(a) <=> u \in Working(a)')
      /\ w \in Working(a) <=> worker[w].alert = a
      /\ w \in Working(a)' <=> r.alert = a
  BY DEF Working, TypeOK
<1>2. Cardinality(Working(a)') =
        Cardinality(Working(a)) - Count(w \in Working(a)) + Count(w \in Working(a)')
  BY <1>1, CountMoves, Constants
<1> QED BY <1>1, <1>2 DEF Count

LEMMA ProducerBalance ==
    ASSUME TypeOK, InOnePlace, Held, Idle, NEW a \in Alert, ProducerStep(a), NEW b \in Alert
    PROVE  Balanced(b)'
<1> USE DEF gateVars, intakeVars, persistVars, deliveryVars, retryVars, endVars
<1>1. Balanced(b) /\ NoAlert # b
  BY InOnePlaceBalances, Constants
<1>2. UNCHANGED <<deliveryQ, heap, outcome>>
  BY Scopes
<1>3. CASE Start(a) /\ ~running
  <2>1. Working(b) = {} /\ Working(b)' = {}
    BY <1>1, <1>3 DEF Start, Working, Idle, AllOff, Held, Polling
  <2>2. persister.alert # b /\ persister'.alert # b /\ ~Handing(b) /\ ~Handing(b)'
    BY <1>1, <1>3 DEF Start, Idle, AllOff, Held, Handing, Polling
  <2>3. Admitted(b)' <=> Admitted(b)
    BY <1>3 DEF Start, Admitted, TypeOK
  <2>4. persistQ' = persistQ
    BY <1>3 DEF Start
  <2> QED BY <1>1, <1>2, <2>1, <2>2, <2>3, <2>4 DEF Balanced
<1>4. CASE PutPersist(a)
  <2>1. Occurrences(persistQ', b) = Occurrences(persistQ, b) + IF a = b THEN 1 ELSE 0
    <3>1. persistQ \in Seq(Alert) /\ persistQ' = Append(persistQ, a)
      BY <1>4 DEF PutPersist, TypeOK
    <3>2. Occurrences(Append(persistQ, a), b) = Occurrences(persistQ, b) + Count(a = b)
      BY <3>1, OccurrencesAppend
    <3> QED BY <3>1, <3>2 DEF Count
  <2>2. /\ Admitted(b)' <=> Admitted(b) \/ a = b
        /\ a = b => ~Admitted(b)
    BY <1>4 DEF PutPersist, Admitted, TypeOK
  <2>3. /\ persister'.alert = persister.alert /\ (Handing(b)' <=> Handing(b))
        /\ Working(b)' = Working(b)
    BY <1>4 DEF PutPersist, Handing, Working
  <2>4. Occurrences(persistQ, b) \in Nat /\ Occurrences(deliveryQ, b) \in Nat
        /\ Cardinality(Working(b)) \in Nat
    BY Parts
  <2> QED BY <1>1, <1>2, <2>1, <2>2, <2>3, <2>4 DEF Balanced
<1>5. CASE ~(Start(a) /\ ~running) /\ ~PutPersist(a)
  <2>1. UNCHANGED <<persistQ, persister, worker, retrier>>
    BY <1>5 DEF ProducerStep, Start, StartFails, Register, RejectAdvisory, Leave
  <2>2. Admitted(b)' <=> Admitted(b)
    BY <1>5 DEF ProducerStep, Start, StartFails, Register, RejectAdvisory, Leave, Admitted, TypeOK
  <2>3. (Handing(b)' <=> Handing(b)) /\ Working(b)' = Working(b)
    BY <2>1 DEF Handing, Working
  <2> QED BY <1>1, <1>2, <2>1, <2>2, <2>3 DEF Balanced
<1> QED BY <1>3, <1>4, <1>5

LEMMA PersisterBalance ==
    ASSUME TypeOK, InOnePlace, Held, PersisterStep, NEW b \in Alert
    PROVE  Balanced(b)'
<1> USE DEF gateVars, intakeVars, persistVars, deliveryVars, retryVars, endVars
<1>1. Balanced(b) /\ NoAlert # b
  BY InOnePlaceBalances, Constants
<1>2. UNCHANGED <<producer, worker, heap, retrier>>
  BY Scopes
<1>3. (Admitted(b)' <=> Admitted(b)) /\ (Handing(b)' <=> Handing(b)) /\ Working(b)' = Working(b)
  BY <1>2 DEF Admitted, Handing, Working
<1>4. /\ Occurrences(persistQ, b) \in Nat /\ Occurrences(deliveryQ, b) \in Nat
      /\ Cardinality(Working(b)) \in Nat
  BY Parts
<1>5. CASE TakePersist
  <2>1. Occurrences(persistQ, b) = (IF Head(persistQ) = b THEN 1 ELSE 0) + Occurrences(persistQ', b)
    <3>1. persistQ \in Seq(Alert) /\ persistQ # <<>> /\ persistQ' = Tail(persistQ)
      BY <1>5 DEF TakePersist, TypeOK
    <3>2. Occurrences(persistQ, b) = Count(Head(persistQ) = b) + Occurrences(Tail(persistQ), b)
      BY <3>1, OccurrencesTail
    <3> QED BY <3>1, <3>2 DEF Count
  <2>2. persistQ' \in Seq(Alert)
    BY <1>5, OccurrencesTail DEF TakePersist, TypeOK
  <2>3. Occurrences(persistQ', b) \in Nat
    BY <2>2, OccurrencesType
  <2>4. /\ persister.alert # b /\ (persister'.alert = b <=> Head(persistQ) = b)
        /\ UNCHANGED <<deliveryQ, outcome>>
    BY <1>1, <1>5 DEF TakePersist, Held
  <2> QED BY <1>1, <1>2, <1>3, <1>4, <2>1, <2>3, <2>4 DEF Balanced
<1>6. CASE PersistFails /\ persister.tries + 1 = PersistAttempts
  <2>1. persister.alert \in Alert
    BY <1>6 DEF PersistFails, Held, TypeOK
  <2>2. outcome[persister.alert] = "none"
    BY <2>1, OnePlace
  <2>3. /\ persister'.alert # b /\ UNCHANGED <<persistQ, deliveryQ>>
        /\ outcome'[b] = IF persister.alert = b THEN "lost" ELSE outcome[b]
    BY <1>1, <1>6 DEF PersistFails, TypeOK
  <2> QED BY <1>1, <1>2, <1>3, <1>4, <2>2, <2>3 DEF Balanced
<1>7. CASE PutDelivery
  <2>1. persister.alert \in Alert
    BY <1>7 DEF PutDelivery, Held, TypeOK
  <2>2. Occurrences(deliveryQ', b) = Occurrences(deliveryQ, b) + IF persister.alert = b THEN 1 ELSE 0
    <3>1. deliveryQ \in Seq(Alert) /\ deliveryQ' = Append(deliveryQ, persister.alert)
      BY <1>7 DEF PutDelivery, TypeOK
    <3>2. Occurrences(Append(deliveryQ, persister.alert), b)
            = Occurrences(deliveryQ, b) + Count(persister.alert = b)
      BY <2>1, <3>1, OccurrencesAppend
    <3> QED BY <3>1, <3>2 DEF Count
  <2>3. persister'.alert # b /\ UNCHANGED <<persistQ, outcome>>
    BY <1>1, <1>7 DEF PutDelivery
  <2> QED BY <1>1, <1>2, <1>3, <1>4, <2>2, <2>3 DEF Balanced
<1>8. CASE \/ PersistFails /\ persister.tries + 1 # PersistAttempts
           \/ PersistSucceeds \/ PersistDone \/ PersisterExits
  <2>1. UNCHANGED <<persistQ, deliveryQ, outcome>>
    BY <1>8 DEF PersistFails, PersistSucceeds, PersistDone, PersisterExits
  <2>2. persister'.alert = b <=> persister.alert = b
    <3>1. CASE PersistDone
      BY <1>1, <3>1 DEF PersistDone, Held
    <3>2. CASE ~PersistDone
      BY <1>8, <3>2 DEF PersistFails, PersistSucceeds, PersisterExits, TypeOK
    <3> QED BY <3>1, <3>2
  <2> QED BY <1>1, <1>2, <1>3, <2>1, <2>2 DEF Balanced
<1> QED BY <1>5, <1>6, <1>7, <1>8 DEF PersisterStep

LEMMA WorkerBalance ==
    ASSUME TypeOK, InOnePlace, Held, NEW w \in Worker, WorkerStep(w), NEW b \in Alert
    PROVE  Balanced(b)'
<1> USE DEF gateVars, intakeVars, persistVars, deliveryVars, retryVars, endVars
<1>1. Balanced(b) /\ NoAlert # b
  BY InOnePlaceBalances, Constants
<1>2. UNCHANGED <<producer, persistQ, persister, retrier>>
  BY Scopes
<1>3. (Admitted(b)' <=> Admitted(b)) /\ (Handing(b)' <=> Handing(b))
  BY <1>2 DEF Admitted, Handing
<1>4. /\ Occurrences(persistQ, b) \in Nat /\ Occurrences(deliveryQ, b) \in Nat
      /\ Cardinality(Working(b)) \in Nat
  BY Parts
<1>5. CASE TakeDelivery(w)
  <2> DEFINE r == [pc |-> "wait", alert |-> Head(deliveryQ)]
  <2>1. /\ deliveryQ \in Seq(Alert) /\ deliveryQ # <<>> /\ deliveryQ' = Tail(deliveryQ)
        /\ worker' = [worker EXCEPT ![w] = r] /\ r.alert = Head(deliveryQ)
        /\ worker[w].alert # b /\ UNCHANGED <<heap, outcome>>
    BY <1>1, <1>5 DEF TakeDelivery, TypeOK, Held
  <2> HIDE DEF r
  <2>2. Cardinality(Working(b)') = Cardinality(Working(b))
          - (IF worker[w].alert = b THEN 1 ELSE 0) + (IF r.alert = b THEN 1 ELSE 0)
    BY <2>1, WorkingMoves
  <2>3. Occurrences(deliveryQ, b) = Count(Head(deliveryQ) = b) + Occurrences(Tail(deliveryQ), b)
        /\ Tail(deliveryQ) \in Seq(Alert)
    BY <2>1, OccurrencesTail
  <2>4. Occurrences(Tail(deliveryQ), b) \in Nat
    BY <2>3, OccurrencesType
  <2>5. Occurrences(deliveryQ, b)
          = (IF Head(deliveryQ) = b THEN 1 ELSE 0) + Occurrences(deliveryQ', b)
    BY <2>1, <2>3 DEF Count
  <2>6. Occurrences(deliveryQ', b) \in Nat
    BY <2>1, <2>4
  <2>7. Cardinality(Working(b)') = Cardinality(Working(b)) + IF Head(deliveryQ) = b THEN 1 ELSE 0
    BY <1>4, <2>1, <2>2
  <2>8. UNCHANGED <<persistQ, persister, heap, outcome>>
    BY <1>2, <2>1
  <2> QED BY <1>1, <1>3, <1>4, <2>5, <2>6, <2>7, <2>8 DEF Balanced
<1>6. ASSUME NEW result \in {"delivered", "failed"}, Ends(w, result) PROVE Balanced(b)'
  <2> DEFINE r == [pc |-> "done", alert |-> NoAlert]
  <2>1. worker[w].alert \in Alert
    BY <1>6 DEF Ends, Held, TypeOK
  <2>2. outcome[worker[w].alert] = "none"
    BY <2>1, OnePlace
  <2>3. /\ worker' = [worker EXCEPT ![w] = r] /\ r.alert # b /\ UNCHANGED <<deliveryQ, heap>>
        /\ outcome'[b] = IF worker[w].alert = b THEN result ELSE outcome[b]
    BY <1>1, <1>6 DEF Ends, TypeOK
  <2> HIDE DEF r
  <2>4. Cardinality(Working(b)') = Cardinality(Working(b))
          - (IF worker[w].alert = b THEN 1 ELSE 0) + (IF r.alert = b THEN 1 ELSE 0)
    BY <2>3, WorkingMoves
  <2> QED BY <1>1, <1>2, <1>3, <1>4, <2>2, <2>3, <2>4 DEF Balanced
<1>7. CASE SchedulesRetry(w)
  <2> DEFINE r == [pc |-> "done", alert |-> NoAlert]
  <2>1. worker[w].alert \in Alert
    BY <1>7 DEF SchedulesRetry, Held, TypeOK
  <2>2. worker[w].alert \notin heap
    BY <2>1, OnePlace
  <2>3. /\ worker' = [worker EXCEPT ![w] = r] /\ r.alert # b /\ UNCHANGED <<deliveryQ, outcome>>
        /\ heap' = heap \cup {worker[w].alert}
    BY <1>1, <1>7 DEF SchedulesRetry
  <2> HIDE DEF r
  <2>4. Cardinality(Working(b)') = Cardinality(Working(b))
          - (IF worker[w].alert = b THEN 1 ELSE 0) + (IF r.alert = b THEN 1 ELSE 0)
    BY <2>3, WorkingMoves
  <2> QED BY <1>1, <1>2, <1>3, <1>4, <2>2, <2>3, <2>4 DEF Balanced
<1>8. CASE CallDelivery(w) \/ DeliveryDone(w) \/ WorkerExits(w)
  <2>1. UNCHANGED <<deliveryQ, heap, outcome>>
    BY <1>8 DEF CallDelivery, DeliveryDone, WorkerExits
  <2>2. \A u \in Worker : worker'[u].alert = worker[u].alert
    <3>1. CASE CallDelivery(w)
      BY <3>1 DEF CallDelivery, TypeOK
    <3>2. CASE DeliveryDone(w) \/ WorkerExits(w)
      <4>1. worker[w].alert = NoAlert
        BY <3>2 DEF DeliveryDone, WorkerExits, Held
      <4>2. Off.alert = NoAlert /\ Polling.alert = NoAlert
        BY DEF Off, Polling
      <4>3. PICK r : worker' = [worker EXCEPT ![w] = r] /\ r \in {Off, Polling}
        BY <3>2 DEF DeliveryDone, WorkerExits
      <4> QED BY <4>1, <4>2, <4>3 DEF TypeOK
    <3> QED BY <1>8, <3>1, <3>2
  <2>3. Working(b)' = Working(b)
    BY <2>2 DEF Working
  <2> QED BY <1>1, <1>2, <1>3, <2>1, <2>3 DEF Balanced
<1> QED BY <1>5, <1>6, <1>7, <1>8 DEF WorkerStep, RetryRefused

LEMMA RetrierBalance ==
    ASSUME TypeOK, InOnePlace, Held, RetrierStep, NEW b \in Alert
    PROVE  Balanced(b)'
<1> USE DEF gateVars, intakeVars, persistVars, deliveryVars, retryVars, endVars
<1>1. Balanced(b) /\ NoAlert # b
  BY InOnePlaceBalances, Constants
<1>2. UNCHANGED <<producer, persistQ, persister, worker, outcome>>
  BY Scopes
<1>3. (Admitted(b)' <=> Admitted(b)) /\ Working(b)' = Working(b)
  BY <1>2 DEF Admitted, Working
<1>4. /\ Occurrences(persistQ, b) \in Nat /\ Occurrences(deliveryQ, b) \in Nat
      /\ Cardinality(Working(b)) \in Nat
  BY Parts
<1>5. ASSUME NEW a \in Alert, PopRetry(a) PROVE Balanced(b)'
  <2>1. /\ ~Handing(b) /\ (Handing(b)' <=> a = b) /\ a \in heap /\ heap' = heap \ {a}
        /\ deliveryQ' = deliveryQ
    BY <1>5 DEF PopRetry, Handing
  <2> QED BY <1>1, <1>2, <1>3, <1>4, <2>1 DEF Balanced
<1>6. CASE PutRetry
  <2>1. retrier.alert \in Alert
    BY <1>6 DEF PutRetry, Held, TypeOK
  <2>2. Occurrences(deliveryQ', b) = Occurrences(deliveryQ, b) + IF retrier.alert = b THEN 1 ELSE 0
    <3>1. deliveryQ \in Seq(Alert) /\ deliveryQ' = Append(deliveryQ, retrier.alert)
      BY <1>6 DEF PutRetry, TypeOK
    <3>2. Occurrences(Append(deliveryQ, retrier.alert), b)
            = Occurrences(deliveryQ, b) + Count(retrier.alert = b)
      BY <2>1, <3>1, OccurrencesAppend
    <3> QED BY <3>1, <3>2 DEF Count
  <2>3. (Handing(b) <=> retrier.alert = b) /\ ~Handing(b)' /\ heap' = heap
    BY <1>6 DEF PutRetry, Handing, TypeOK
  <2> QED BY <1>1, <1>2, <1>3, <1>4, <2>2, <2>3 DEF Balanced
<1>7. CASE ReleaseRetry \/ RetrierExits
  <2>1. ~Handing(b) /\ ~Handing(b)' /\ UNCHANGED <<deliveryQ, heap>>
    BY <1>7 DEF ReleaseRetry, RetrierExits, Handing, Off, Polling
  <2> QED BY <1>1, <1>2, <1>3, <2>1 DEF Balanced
<1> QED BY <1>5, <1>6, <1>7 DEF RetrierStep

LEMMA InOnePlaceStep ==
    ASSUME TypeOK, InOnePlace, Held, Idle, Next
    PROVE  InOnePlace'
<1> SUFFICES ASSUME NEW b \in Alert PROVE Balanced(b)'
  BY InOnePlaceBalances
<1>1. StopperStep => Balanced(b)'
  BY Scopes, InOnePlaceBalances DEF intakeVars, persistVars, deliveryVars, retryVars, endVars,
       Balanced, Working, Handing, Admitted
<1> QED BY <1>1, ProducerBalance, PersisterBalance, WorkerBalance, RetrierBalance DEF Next

-----------------------------------------------------------------------------
(* What shutdown() has found, and the retry that is being handed over. *)

\* A producer that is inside is counted, and so is what it queued.
LEMMA Counted ==
    ASSUME TypeOK, CountersExact
    PROVE  /\ \A a \in Alert : producer[a] \in {"putting", "leaving"} => submitters # 0
           /\ persistOpen = 0 => persistQ = <<>> /\ persister.pc \notin {"persist", "put", "done"}
<1>1. IsFiniteSet(Inside) /\ submitters = Cardinality(Inside)
  BY Constants, FS_Subset DEF CountersExact, Inside
<1>2. submitters = 0 => Inside = {}
  BY <1>1, FS_EmptySet
<1>3. \A a \in Alert : producer[a] \in {"putting", "leaving"} => a \in Inside
  BY DEF Inside
<1>4. ASSUME persistOpen = 0
      PROVE  persistQ = <<>> /\ persister.pc \notin {"persist", "put", "done"}
  <2>1. Len(persistQ) \in Nat /\ (Len(persistQ) = 0 => persistQ = <<>>)
    BY DEF TypeOK
  <2>2. 0 = Len(persistQ) + IF persister.pc \in {"persist", "put", "done"} THEN 1 ELSE 0
    BY <1>4 DEF CountersExact, Count
  <2> QED BY <2>1, <2>2
<1> QED BY <1>2, <1>3, <1>4

LEMMA ClosingStep ==
    ASSUME TypeOK, CountersExact, Idle, Closing, Next
    PROVE  Closing'
<1> USE DEF Closing, gateVars, intakeVars, persistVars, deliveryVars, retryVars, endVars
<1>1. ASSUME NEW a \in Alert, ProducerStep(a) PROVE Closing'
  <2>1. CASE Start(a) \/ StartFails(a) \/ Register(a)
    BY <2>1 DEF Start, StartFails, Register
  <2>2. CASE PutPersist(a) \/ RejectAdvisory(a) \/ Leave(a)
    <3>1. submitters # 0
      BY <2>2, Counted DEF PutPersist, RejectAdvisory, Leave
    <3>2. stopper' = stopper /\ UNCHANGED <<running, accepting, workerStop>>
      BY <2>2 DEF PutPersist, RejectAdvisory, Leave
    <3> QED BY <3>1, <3>2
  <2> QED BY <1>1, <2>1, <2>2 DEF ProducerStep
<1>2. ASSUME PersisterStep PROVE Closing'
  <2>1. persistOpen = 0 => persistOpen' = persistOpen
    BY <1>2, Counted DEF PersisterStep, TakePersist, PersistFails, PersistSucceeds, PutDelivery,
         PersistDone, PersisterExits
  <2> QED BY <1>2, <2>1, Scopes
<1>3. ASSUME UNCHANGED <<gateVars, intakeVars, persistVars>> PROVE Closing'
  BY <1>3
<1>4. ASSUME StopperStep PROVE Closing'
  BY <1>4 DEF StopperStep, AlreadyStopped, vars, CloseAdmission, ProducersLeft, NoRetries,
       PersistenceDrained, DeliveryDrained, StopWorkers, Joined, TimesOut, Shut, TypeOK
<1> QED BY <1>1, <1>2, <1>3, <1>4, Scopes DEF Next

LEMMA HandedOffStep ==
    ASSUME TypeOK, Held, Idle, HandedOff, Next
    PROVE  HandedOff'
<1> USE DEF gateVars, intakeVars, persistVars, deliveryVars, retryVars, endVars
<1>1. deliveryQ \in Seq(Alert)
  BY DEF TypeOK
<1>2. ASSUME PutRetry PROVE HandedOff'
  <2>1. /\ retrier.alert \in Alert /\ retrier'.alert = retrier.alert
        /\ deliveryQ' = Append(deliveryQ, retrier.alert)
    BY <1>2 DEF PutRetry, Held, TypeOK
  <2>2. Occurrences(Append(deliveryQ, retrier.alert), retrier.alert)
          = Occurrences(deliveryQ, retrier.alert) + Count(retrier.alert = retrier.alert)
    BY <1>1, <2>1, OccurrencesAppend
  <2>3. Occurrences(deliveryQ, retrier.alert) \in Nat
    BY <1>1, OccurrencesType
  <2>4. Occurrences(deliveryQ', retrier'.alert) > 0
    BY <2>1, <2>2, <2>3 DEF Count
  <2> QED BY <2>4 DEF HandedOff
<1>3. ASSUME retrier'.pc # "release" PROVE HandedOff'
  BY <1>3 DEF HandedOff
<1>4. ASSUME UNCHANGED retrier, retrier.pc = "release", UNCHANGED <<deliveryQ, worker>>
      PROVE  HandedOff'
  BY <1>4 DEF HandedOff
<1>5. ASSUME NEW a \in Alert, ProducerStep(a) PROVE HandedOff'
  <2>1. CASE Start(a) /\ ~running
    BY <1>3, <2>1 DEF Start, Polling
  <2>2. CASE ~(Start(a) /\ ~running)
    <3>1. UNCHANGED <<retrier, deliveryQ, worker>>
      BY <1>5, <2>2 DEF ProducerStep, Start, StartFails, Register, PutPersist, RejectAdvisory, Leave
    <3> QED BY <1>3, <1>4, <3>1
  <2> QED BY <2>1, <2>2
<1>6. ASSUME PersisterStep PROVE HandedOff'
  <2>1. CASE PutDelivery /\ retrier.pc = "release"
    <3>1. /\ persister.alert \in Alert /\ UNCHANGED <<retrier, worker>>
          /\ deliveryQ' = Append(deliveryQ, persister.alert)
      BY <2>1 DEF PutDelivery, Held, TypeOK
    <3>2. Occurrences(Append(deliveryQ, persister.alert), retrier.alert)
            = Occurrences(deliveryQ, retrier.alert) + Count(persister.alert = retrier.alert)
      BY <1>1, <3>1, OccurrencesAppend
    <3>3. Occurrences(deliveryQ, retrier.alert) \in Nat
      BY <1>1, OccurrencesType
    <3>4. Occurrences(deliveryQ, retrier.alert) > 0 => Occurrences(deliveryQ', retrier.alert) > 0
      BY <3>1, <3>2, <3>3 DEF Count
    <3> QED BY <3>1, <3>4 DEF HandedOff
  <2>2. CASE ~(PutDelivery /\ retrier.pc = "release")
    <3>1. PutDelivery \/ deliveryQ' = deliveryQ
      BY <1>6 DEF PersisterStep, TakePersist, PersistFails, PersistSucceeds, PersistDone,
           PersisterExits
    <3> QED BY <1>3, <1>4, <1>6, <2>2, <3>1, Scopes
  <2> QED BY <2>1, <2>2
<1>7. ASSUME NEW w \in Worker, WorkerStep(w) PROVE HandedOff'
  <2> SUFFICES ASSUME retrier.pc = "release" PROVE HandedOff'
    BY <1>3, <1>7, Scopes
  <2>1. retrier' = retrier
    BY <1>7, Scopes
  <2>2. CASE TakeDelivery(w)
    <3>1. /\ deliveryQ # <<>> /\ deliveryQ' = Tail(deliveryQ)
          /\ worker'[w] = [pc |-> "wait", alert |-> Head(deliveryQ)]
          /\ \A u \in Worker : worker[u].pc = "wait" => worker'[u] = worker[u]
      BY <2>2 DEF TakeDelivery, TypeOK
    <3>2. /\ Tail(deliveryQ) \in Seq(Alert)
          /\ Occurrences(deliveryQ, retrier.alert)
               = Count(Head(deliveryQ) = retrier.alert) + Occurrences(Tail(deliveryQ), retrier.alert)
      BY <1>1, <3>1, OccurrencesTail
    <3>3. Occurrences(Tail(deliveryQ), retrier.alert) \in Nat
      BY <3>2, OccurrencesType
    <3>4. Occurrences(deliveryQ, retrier.alert) > 0 =>
            Head(deliveryQ) = retrier.alert \/ Occurrences(deliveryQ', retrier.alert) > 0
      BY <3>1, <3>2, <3>3 DEF Count
    <3> QED BY <2>1, <3>1, <3>4 DEF HandedOff
  <2>3. CASE ~TakeDelivery(w)
    <3>1. deliveryQ' = deliveryQ
      BY <1>7, <2>3 DEF WorkerStep, CallDelivery, Ends, SchedulesRetry, RetryRefused, DeliveryDone,
           WorkerExits
    <3>2. \A u \in Worker : worker[u].pc = "wait" /\ worker[u].alert = retrier.alert
                              => worker'[u] = worker[u]
      <4>1. CASE CallDelivery(w)
        BY <4>1 DEF CallDelivery, Holding, TypeOK
      <4>2. CASE ~CallDelivery(w)
        BY <1>7, <2>3, <4>2 DEF WorkerStep, Ends, SchedulesRetry, RetryRefused, DeliveryDone,
             WorkerExits, TypeOK
      <4> QED BY <4>1, <4>2
    <3> QED BY <2>1, <3>1, <3>2 DEF HandedOff
  <2> QED BY <2>2, <2>3
<1>8. ASSUME RetrierStep PROVE HandedOff'
  BY <1>2, <1>3, <1>8 DEF RetrierStep, PopRetry, ReleaseRetry, RetrierExits, Off, Polling
<1>9. ASSUME StopperStep PROVE HandedOff'
  BY <1>3, <1>4, <1>9, Scopes
<1> QED BY <1>5, <1>6, <1>7, <1>8, <1>9 DEF Next

-----------------------------------------------------------------------------
(* The invariant. *)

LEMMA InitHolds == Init => PipelineInv
<1> SUFFICES ASSUME Init PROVE PipelineInv
  OBVIOUS
<1> USE DEF Init
<1>1. TypeOK
  <2>1. Off \in [pc : {"off", "get", "wait", "deliver", "done"}, alert : Alert \cup {NoAlert}]
    BY DEF Off
  <2>2. Off \in [pc : {"off", "get", "put", "release"}, alert : Alert \cup {NoAlert}]
    BY DEF Off
  <2>3. <<>> \in Seq(Alert) /\ Len(<<>>) = 0
    OBVIOUS
  <2>4. attempt \in [Alert -> 1 .. DeliveryAttempts]
    BY Constants
  <2>5. persister \in [pc    : {"off", "get", "persist", "put", "done"},
                       alert : Alert \cup {NoAlert},
                       tries : 0 .. PersistAttempts]
    BY Constants
  <2>6. pending \in 0 .. RetryCap
    BY Constants
  <2>7. /\ producer \in [Alert -> {"new", "started", "putting", "leaving", "returned", "refused"}]
        /\ {running, accepting, workerStop} \subseteq BOOLEAN
        /\ submitters \in Nat /\ persistOpen \in Nat /\ deliveryOpen \in Nat
        /\ heap \subseteq Alert
        /\ outcome \in [Alert -> {"none", "lost", "delivered", "failed"}]
        /\ stopper \in {"idle", "closing", "retries", "persistence", "delivery", "stop", "join"}
    OBVIOUS
  <2>8. /\ persistQ \in Seq(Alert) /\ Len(persistQ) <= PersistCap
        /\ deliveryQ \in Seq(Alert) /\ Len(deliveryQ) <= DeliveryCap
    BY <2>3, Constants
  <2>9. /\ worker \in [Worker -> [pc    : {"off", "get", "wait", "deliver", "done"},
                                  alert : Alert \cup {NoAlert}]]
        /\ retrier \in [pc : {"off", "get", "put", "release"}, alert : Alert \cup {NoAlert}]
    BY <2>1, <2>2
  <2> QED BY <2>4, <2>5, <2>6, <2>7, <2>8, <2>9 DEF TypeOK
<1>2. InOnePlace
  <2> SUFFICES ASSUME NEW b \in Alert PROVE Balanced(b)
    BY InOnePlaceBalances
  <2>1. Occurrences(persistQ, b) = 0 /\ Occurrences(deliveryQ, b) = 0
    <3>1. <<>> \in Seq(Alert)
      OBVIOUS
    <3>2. Occurrences(<<>>, b) = 0
      BY <3>1, OccurrencesType
    <3> QED BY <3>2
  <2>2. Working(b) = {}
    BY Constants DEF Working, Off
  <2>3. Cardinality(Working(b)) = 0
    BY <2>2, FS_EmptySet
  <2>4. /\ persister.alert # b /\ b \notin heap /\ ~Handing(b) /\ outcome[b] = "none"
        /\ ~Admitted(b)
    BY Constants DEF Handing, Admitted, Off
  <2> QED BY <2>1, <2>3, <2>4 DEF Balanced
<1>3. CountersExact
  <2>1. Inside = {} /\ Busy = {} /\ Holding(retrier) = {}
    BY DEF Inside, Busy, Holding, Off
  <2>2. Cardinality(Inside) = 0 /\ Cardinality(Busy) = 0
        /\ Cardinality(Holding(retrier)) = 0 /\ Cardinality(heap) = 0
    BY <2>1, FS_EmptySet
  <2> QED BY <2>2 DEF CountersExact, Inside, Busy, Count
<1>4. Held /\ Idle /\ HandedOff /\ Closing
  BY DEF Held, Idle, AllOff, HandedOff, Closing, Off
<1> QED BY <1>1, <1>2, <1>3, <1>4 DEF PipelineInv, JobsAccounted

LEMMA StepHolds == PipelineInv /\ [Next]_vars => PipelineInv'
<1> SUFFICES ASSUME PipelineInv, [Next]_vars PROVE PipelineInv'
  OBVIOUS
<1>1. CASE Next
  BY <1>1, TypeStep, InOnePlaceStep, CountersStep, HeldStep, IdleStep, HandedOffStep, ClosingStep
     DEF PipelineInv, JobsAccounted
<1>2. CASE UNCHANGED vars
  BY <1>2 DEF vars, PipelineInv, JobsAccounted, TypeOK, InOnePlace, CountersExact, Copies, Held,
       Idle, AllOff, HandedOff, Closing
<1> QED BY <1>1, <1>2

THEOREM Invariance == Spec => []PipelineInv
BY InitHolds, StepHolds, PTL DEF Spec

\* No thread, queue or heap loses an alert or holds it twice, and the counters
\* that drain() and shutdown() read are exact (alert_pipeline.AlertPipeline).
THEOREM EveryJobAccounted == Spec => []JobsAccounted
<1>1. PipelineInv => JobsAccounted
  BY DEF PipelineInv
<1> QED BY <1>1, Invariance, PTL

-----------------------------------------------------------------------------
(* A retry is refused only when other alerts fill the backlog. *)

LEMMA RefusalMeansFull ==
    ASSUME PipelineInv, NEW w \in Worker, RetryRefused(w)
    PROVE  Cardinality((heap \cup Holding(retrier)) \ {worker[w].alert}) >= RetryCap
<1> DEFINE a == worker[w].alert
           h == Holding(retrier)
<1> USE DEF PipelineInv, JobsAccounted
<1>1. a \in Alert /\ worker[w].pc = "deliver" /\ pending >= RetryCap
  BY DEF RetryRefused, Held, TypeOK
<1>2. a \notin heap /\ ~Handing(a) /\ Working(a) = {w} /\ Occurrences(deliveryQ, a) = 0
  <2>1. Occurrences(deliveryQ, a) \in Nat
    BY <1>1, Parts
  <2> QED BY <1>1, <2>1, OnePlace
<1>3. a \notin h
  <2>1. CASE retrier.pc = "put"
    BY <1>2, <2>1 DEF Handing, Holding
  <2>2. CASE retrier.pc = "release"
    BY <1>1, <1>2, <2>2 DEF HandedOff, Holding, Working
  <2> QED BY <2>1, <2>2 DEF Holding
<1>4. heap \cap h = {}
  <2>1. ASSUME NEW x \in heap, x \in h PROVE FALSE
    <3>1. x \in Alert /\ x = retrier.alert /\ retrier.pc \in {"put", "release"}
      BY <2>1 DEF Holding, TypeOK
    <3>2. CASE retrier.pc = "put"
      BY <2>1, <3>1, <3>2, OnePlace DEF Handing
    <3>3. CASE retrier.pc = "release"
      <4>1. CASE Occurrences(deliveryQ, x) > 0
        BY <2>1, <3>1, <4>1, OnePlace
      <4>2. CASE \E u \in Worker : worker[u].alert = x
        BY <2>1, <3>1, <4>2, OnePlace
      <4> QED BY <3>1, <3>3, <4>1, <4>2 DEF HandedOff
    <3> QED BY <3>1, <3>2, <3>3
  <2> QED BY <2>1
<1>5. IsFiniteSet(heap) /\ IsFiniteSet(h)
  <2>1. h = {} \/ h = {retrier.alert}
    BY DEF Holding
  <2> QED BY <2>1, Constants, FS_Subset, FS_EmptySet, FS_Singleton DEF TypeOK
<1>6. (heap \cup h) \ {a} = heap \cup h
  BY <1>2, <1>3
<1>7. pending = Cardinality(heap) + Cardinality(h)
  BY DEF CountersExact
<1> HIDE DEF a, h
<1>8. Cardinality(heap \cup h) = Cardinality(heap) + Cardinality(h) - Cardinality(heap \cap h)
  BY <1>5, FS_Union
<1>9. Cardinality(heap \cap h) = 0
  BY <1>4, FS_EmptySet
<1>10. Cardinality(heap) \in Nat /\ Cardinality(h) \in Nat
  BY <1>5, FS_CardinalityType
<1>11. Cardinality((heap \cup h) \ {a}) >= RetryCap
  <2>1. Cardinality((heap \cup h) \ {a}) = Cardinality(heap \cup h)
    BY <1>6
  <2>2. Cardinality(heap \cup h) = pending
    BY <1>7, <1>8, <1>9, <1>10
  <2> QED BY <1>1, <2>1, <2>2
<1> QED BY <1>11 DEF a, h

\* _schedule_retry refuses a retry only when RetryCap other alerts are waiting
\* for theirs: the place that this alert's own previous retry took has been
\* given back before its next attempt is called.
THEOREM RefusalIsHonest == Spec => RefusedOnlyWhenFull
<1>1. PipelineInv =>
        [\A w \in Worker :
            RetryRefused(w) =>
                Cardinality((heap \cup Holding(retrier)) \ {worker[w].alert}) >= RetryCap]_vars
  BY RefusalMeansFull
<1> QED BY <1>1, Invariance, PTL DEF RefusedOnlyWhenFull

-----------------------------------------------------------------------------
(* The pipeline implements AlertIntake: every step maps to a step of it or *)
(* to a stutter.                                                           *)

LEMMA StageIs ==
    ASSUME NEW a \in Alert
    PROVE  /\ Stage[a] = IF producer[a] \in {"new", "started"} THEN "new"
                         ELSE IF producer[a] = "refused" THEN "refused"
                         ELSE IF outcome[a] # "none" THEN outcome[a]
                         ELSE IF Unpersisted(a) THEN "accepted" ELSE "persisted"
           /\ Stage'[a] = IF producer'[a] \in {"new", "started"} THEN "new"
                          ELSE IF producer'[a] = "refused" THEN "refused"
                          ELSE IF outcome'[a] # "none" THEN outcome'[a]
                          ELSE IF Unpersisted(a)' THEN "accepted" ELSE "persisted"
<1>1. DOMAIN Stage = Alert /\ DOMAIN Stage' = Alert
  BY DEF Stage
<1> QED BY <1>1 DEF Stage

\* Nothing a stage is computed from changes for alert a.
SameStage(a) ==
    /\ producer'[a] \in {"new", "started"} <=> producer[a] \in {"new", "started"}
    /\ producer'[a] = "refused" <=> producer[a] = "refused"
    /\ outcome'[a] = outcome[a]
    /\ Unpersisted(a)' <=> Unpersisted(a)

LEMMA StageStays ==
    ASSUME NEW a \in Alert, SameStage(a)
    PROVE  Stage'[a] = Stage[a]
BY StageIs DEF SameStage

LEMMA StageUnchanged ==
    ASSUME \A b \in Alert : SameStage(b)
    PROVE  UNCHANGED Stage
<1>1. \A b \in Alert : Stage'[b] = Stage[b]
  BY StageStays
<1> QED BY <1>1 DEF Stage

LEMMA StageMoves ==
    ASSUME NEW a \in Alert, NEW from, NEW to, Stage[a] = from, Stage'[a] = to, Gate' = Gate,
           \A b \in Alert : b # a => SameStage(b)
    PROVE  Intake!Move(a, from, to)
<1>1. \A b \in Alert : b # a => Stage'[b] = Stage[b]
  BY StageStays
<1>2. DOMAIN Stage = Alert /\ DOMAIN Stage' = Alert
  BY DEF Stage
<1>3. Stage' = [b \in Alert |-> Stage'[b]] /\ Stage = [b \in Alert |-> Stage[b]]
  BY DEF Stage
<1>4. Stage' = [Stage EXCEPT ![a] = to]
  BY <1>1, <1>2, <1>3
<1> QED BY <1>4 DEF Intake!Move

IntakeStep == Intake!INext \/ UNCHANGED <<Stage, Gate>>

LEMMA ProducerMaps ==
    ASSUME PipelineInv, NEW a \in Alert, ProducerStep(a)
    PROVE  IntakeStep
<1> USE DEF gateVars, intakeVars, persistVars, deliveryVars, retryVars, endVars
<1> USE DEF PipelineInv, JobsAccounted
<1>1. \A b \in Alert : b # a => producer'[b] = producer[b] /\ outcome'[b] = outcome[b]
  BY DEF ProducerStep, Start, StartFails, Register, PutPersist, RejectAdvisory, Leave, TypeOK
<1>2. outcome'[a] = outcome[a] /\ producer[a] # producer'[a]
  BY DEF ProducerStep, Start, StartFails, Register, PutPersist, RejectAdvisory, Leave, TypeOK
<1>3. ~Admitted(a) => outcome[a] = "none" /\ Occurrences(persistQ, a) = 0 /\ persister.alert # a
  BY OnePlace
<1>4. ASSUME UNCHANGED <<persistQ, persister>>
      PROVE  \A b \in Alert : b # a => SameStage(b)
  BY <1>1, <1>4 DEF SameStage, Unpersisted
<1>5. CASE Start(a)
  <2>1. \A b \in Alert : Unpersisted(b)' <=> Unpersisted(b)
    BY <1>5 DEF Start, Unpersisted, Idle, AllOff, TypeOK
  <2>2. \A b \in Alert : SameStage(b)
    BY <1>1, <1>2, <1>5, <2>1 DEF SameStage, Start, TypeOK
  <2>3. UNCHANGED Stage
    BY <2>2, StageUnchanged
  <2>4. CASE running
    BY <1>5, <2>3, <2>4 DEF Start, Gate, IntakeStep
  <2>5. CASE ~running
    <3>1. Gate = "stopped" /\ Gate' = "open"
      BY <1>5, <2>5 DEF Start, Gate
    <3> QED BY <2>3, <3>1 DEF IntakeStep, Intake!INext, Intake!Open
  <2> QED BY <2>4, <2>5
<1>6. CASE StartFails(a)
  <2>1. Stage[a] = "new" /\ Stage'[a] = "refused" /\ Gate = "stopped" /\ Gate' = Gate
    BY <1>6, StageIs DEF StartFails, Gate, TypeOK
  <2>2. UNCHANGED <<persistQ, persister>>
    BY <1>6 DEF StartFails
  <2>3. Intake!Move(a, "new", "refused")
    BY <1>4, <2>1, <2>2, StageMoves
  <2> QED BY <2>1, <2>3 DEF IntakeStep, Intake!INext, Intake!Refuse
<1>7. CASE Register(a)
  <2>1. UNCHANGED <<persistQ, persister>> /\ Gate' = Gate
    BY <1>7 DEF Register, Gate
  <2>2. CASE running /\ accepting
    <3>1. producer[a] = "started" /\ producer'[a] = "putting" /\ outcome[a] = "none"
      BY <1>3, <1>7, <2>2 DEF Register, Admitted, TypeOK
    <3>2. Stage[a] = "new" /\ Stage'[a] = "accepted"
      BY <1>2, <3>1, StageIs DEF Unpersisted
    <3>3. Intake!Move(a, "new", "accepted") /\ Gate = "open"
      BY <1>4, <2>1, <2>2, <3>2, StageMoves DEF Gate
    <3> QED BY <3>3 DEF IntakeStep, Intake!INext, Intake!Accept
  <2>3. CASE ~(running /\ accepting)
    <3>1. producer[a] = "started" /\ producer'[a] = "refused"
      BY <1>7, <2>3 DEF Register, TypeOK
    <3>2. Stage[a] = "new" /\ Stage'[a] = "refused"
      BY <3>1, StageIs
    <3>3. Intake!Move(a, "new", "refused") /\ Gate # "open"
      BY <1>4, <2>1, <2>3, <3>2, StageMoves DEF Gate
    <3> QED BY <3>3 DEF IntakeStep, Intake!INext, Intake!Refuse
  <2> QED BY <2>2, <2>3
<1>8. CASE PutPersist(a)
  <2>1. Gate' = Gate /\ persister' = persister
    BY <1>8 DEF PutPersist, Gate
  <2>2. \A b \in Alert : Occurrences(persistQ', b)
                           = Occurrences(persistQ, b) + IF a = b THEN 1 ELSE 0
    <3>1. persistQ \in Seq(Alert) /\ persistQ' = Append(persistQ, a)
      BY <1>8 DEF PutPersist, TypeOK
    <3>2. \A b \in Alert : Occurrences(Append(persistQ, a), b)
                             = Occurrences(persistQ, b) + Count(a = b)
      BY <3>1, OccurrencesAppend
    <3> QED BY <3>1, <3>2 DEF Count
  <2>3. \A b \in Alert : Occurrences(persistQ, b) \in Nat
    BY Parts
  <2>4. \A b \in Alert : b # a => SameStage(b)
    <3> SUFFICES ASSUME NEW b \in Alert, b # a PROVE SameStage(b)
      OBVIOUS
    <3>1. Occurrences(persistQ', b) = Occurrences(persistQ, b)
      BY <2>2, <2>3
    <3> QED BY <1>1, <2>1, <3>1 DEF SameStage, Unpersisted
  <2>5. SameStage(a)
    <3>1. producer[a] = "putting" /\ producer'[a] = "leaving"
      BY <1>8 DEF PutPersist, TypeOK
    <3>2. Occurrences(persistQ', a) > 0
      BY <2>2, <2>3
    <3> QED BY <1>2, <3>1, <3>2 DEF SameStage, Unpersisted
  <2> QED BY <2>1, <2>4, <2>5, StageUnchanged DEF IntakeStep
<1>9. CASE RejectAdvisory(a)
  <2>1. /\ producer[a] = "putting" /\ producer'[a] = "refused" /\ a \in Advisory
        /\ UNCHANGED <<persistQ, persister>> /\ Gate' = Gate /\ outcome[a] = "none"
    BY <1>3, <1>9 DEF RejectAdvisory, Gate, Admitted, TypeOK
  <2>2. Stage[a] = "accepted" /\ Stage'[a] = "refused"
    BY <2>1, StageIs DEF Unpersisted
  <2>3. Intake!Move(a, "accepted", "refused")
    BY <1>4, <2>1, <2>2, StageMoves
  <2> QED BY <2>1, <2>3 DEF IntakeStep, Intake!INext, Intake!Withdraw
<1>10. CASE Leave(a)
  <2>1. /\ producer[a] = "leaving" /\ producer'[a] = "returned"
        /\ UNCHANGED <<persistQ, persister>> /\ Gate' = Gate
    BY <1>10 DEF Leave, Gate, TypeOK
  <2>2. SameStage(a)
    BY <1>2, <2>1 DEF SameStage, Unpersisted
  <2> QED BY <1>4, <2>1, <2>2, StageUnchanged DEF IntakeStep
<1> QED BY <1>5, <1>6, <1>7, <1>8, <1>9, <1>10 DEF ProducerStep

LEMMA PersisterMaps ==
    ASSUME PipelineInv, PersisterStep
    PROVE  IntakeStep
<1> USE DEF gateVars, intakeVars, persistVars, deliveryVars, retryVars, endVars
<1> USE DEF PipelineInv, JobsAccounted
<1> DEFINE a == persister.alert
<1>1. producer' = producer /\ Gate' = Gate
  BY Scopes DEF Gate
<1>2. ASSUME persister.pc = "persist"
      PROVE  /\ a \in Alert /\ Admitted(a) /\ outcome[a] = "none"
             /\ Occurrences(persistQ, a) = 0 /\ Stage[a] = "accepted"
  <2>1. a \in Alert
    BY <1>2 DEF Held, TypeOK
  <2>2. Admitted(a) /\ outcome[a] = "none" /\ Occurrences(persistQ, a) = 0
    BY <2>1, OnePlace
  <2>3. Unpersisted(a)
    BY <1>2 DEF Unpersisted
  <2> HIDE DEF a
  <2> QED BY <2>1, <2>2, <2>3, StageIs DEF Admitted
<1>3. ASSUME \A b \in Alert : SameStage(b) PROVE IntakeStep
  BY <1>1, <1>3, StageUnchanged DEF IntakeStep
<1>4. CASE TakePersist
  <2>1. /\ persistQ \in Seq(Alert) /\ persistQ # <<>> /\ persistQ' = Tail(persistQ)
        /\ persister.pc = "get" /\ persister'.pc = "persist" /\ persister'.alert = Head(persistQ)
        /\ outcome' = outcome
    BY <1>4 DEF TakePersist, TypeOK
  <2>2. ASSUME NEW b \in Alert PROVE SameStage(b)
    <3>1. /\ Tail(persistQ) \in Seq(Alert)
          /\ Occurrences(persistQ, b) = Count(Head(persistQ) = b) + Occurrences(Tail(persistQ), b)
      BY <2>1, OccurrencesTail
    <3>2. Occurrences(Tail(persistQ), b) \in Nat
      BY <3>1, OccurrencesType
    <3>3. Occurrences(persistQ, b) > 0 <=> Head(persistQ) = b \/ Occurrences(persistQ', b) > 0
      BY <2>1, <3>1, <3>2 DEF Count
    <3>4. Unpersisted(b)' <=> Unpersisted(b)
      BY <1>1, <2>1, <3>3 DEF Unpersisted
    <3> QED BY <1>1, <2>1, <3>4 DEF SameStage
  <2> QED BY <1>3, <2>2
<1>5. CASE PersistFails /\ persister.tries + 1 = PersistAttempts
  <2>1. /\ persister.pc = "persist" /\ persister'.pc = "done" /\ persistQ' = persistQ
        /\ outcome' = [outcome EXCEPT ![a] = "lost"]
    BY <1>5 DEF PersistFails
  <2>2. a \in Alert /\ Admitted(a) /\ Stage[a] = "accepted"
    BY <1>2, <2>1
  <2>3. outcome'[a] = "lost" /\ \A b \in Alert : b # a => outcome'[b] = outcome[b]
    BY <2>1, <2>2 DEF TypeOK
  <2>4. Stage'[a] = "lost"
    <3> HIDE DEF a
    <3> QED BY <1>1, <2>2, <2>3, StageIs DEF Admitted
  <2>5. \A b \in Alert : b # a => SameStage(b)
    BY <1>1, <2>1, <2>3 DEF SameStage, Unpersisted
  <2>6. Intake!Move(a, "accepted", "lost")
    <3> HIDE DEF a
    <3> QED BY <1>1, <2>2, <2>4, <2>5, StageMoves
  <2> QED BY <2>2, <2>6 DEF IntakeStep, Intake!INext, Intake!Lose
<1>6. CASE PersistSucceeds
  <2>1. /\ persister.pc = "persist" /\ persister'.pc = "put" /\ persistQ' = persistQ
        /\ outcome' = outcome
    BY <1>6 DEF PersistSucceeds, TypeOK
  <2>2. PICK c \in Alert : c = a
    BY <1>2, <2>1
  <2>3. /\ Admitted(c) /\ Stage[c] = "accepted" /\ outcome[c] = "none"
        /\ Occurrences(persistQ, c) = 0
    BY <1>2, <2>1, <2>2
  <2>4. ~Unpersisted(c)'
    BY <1>1, <2>1, <2>3 DEF Unpersisted, Admitted
  <2>5. Stage'[c] = "persisted"
    BY <1>1, <2>1, <2>3, <2>4, StageIs DEF Admitted
  <2>6. \A b \in Alert : b # c => SameStage(b)
    BY <1>1, <2>1, <2>2 DEF SameStage, Unpersisted
  <2>7. Intake!Move(c, "accepted", "persisted")
    BY <1>1, <2>3, <2>5, <2>6, StageMoves
  <2> QED BY <2>7 DEF IntakeStep, Intake!INext, Intake!Persist
<1>7. CASE \/ PersistFails /\ persister.tries + 1 # PersistAttempts
           \/ PutDelivery \/ PersistDone \/ PersisterExits
  <2>1. UNCHANGED <<persistQ, outcome>>
    BY <1>7 DEF PersistFails, PutDelivery, PersistDone, PersisterExits
  <2>2. \A b \in Alert : (persister'.pc = "persist" /\ persister'.alert = b)
                            <=> (persister.pc = "persist" /\ persister.alert = b)
    <3>1. CASE PersistFails /\ persister.tries + 1 # PersistAttempts
      BY <3>1 DEF PersistFails, TypeOK
    <3>2. CASE PutDelivery \/ PersistDone
      BY <3>2 DEF PutDelivery, PersistDone
    <3>3. CASE PersisterExits
      BY <3>3 DEF PersisterExits, TypeOK
    <3> QED BY <1>7, <3>1, <3>2, <3>3
  <2>3. \A b \in Alert : SameStage(b)
    BY <1>1, <2>1, <2>2 DEF SameStage, Unpersisted
  <2> QED BY <1>3, <2>3
<1> QED BY <1>4, <1>5, <1>6, <1>7 DEF PersisterStep

LEMMA WorkerMaps ==
    ASSUME PipelineInv, NEW w \in Worker, WorkerStep(w)
    PROVE  IntakeStep
<1> USE DEF gateVars, intakeVars, persistVars, deliveryVars, retryVars, endVars
<1> USE DEF PipelineInv, JobsAccounted
<1> DEFINE a == worker[w].alert
<1>1. UNCHANGED <<producer, persistQ, persister>> /\ Gate' = Gate
  BY Scopes DEF Gate
<1>2. \A b \in Alert : Unpersisted(b)' <=> Unpersisted(b)
  BY <1>1 DEF Unpersisted
<1>3. ASSUME NEW result \in {"delivered", "failed"}, Ends(w, result) PROVE IntakeStep
  <2>1. a \in Alert
    BY <1>3 DEF Ends, Held, TypeOK
  <2>2. /\ Admitted(a) /\ outcome[a] = "none"
        /\ Occurrences(persistQ, a) = 0 /\ persister.alert # a
    BY <2>1, OnePlace
  <2>3. ~Unpersisted(a)
    BY <2>2 DEF Unpersisted, Admitted
  <2>4. outcome'[a] = result /\ \A b \in Alert : b # a => outcome'[b] = outcome[b]
    BY <1>3, <2>1 DEF Ends, TypeOK
  <2>5. \A b \in Alert : b # a => SameStage(b)
    BY <1>1, <1>2, <2>4 DEF SameStage
  <2> HIDE DEF a
  <2>6. Stage[a] = "persisted" /\ Stage'[a] = result
    BY <1>1, <2>1, <2>2, <2>3, <2>4, StageIs DEF Admitted
  <2>7. Intake!Move(a, "persisted", result)
    BY <1>1, <2>1, <2>5, <2>6, StageMoves
  <2> QED BY <2>1, <2>7 DEF IntakeStep, Intake!INext, Intake!Settle
<1>4. ASSUME outcome' = outcome PROVE IntakeStep
  <2>1. \A b \in Alert : SameStage(b)
    BY <1>1, <1>2, <1>4 DEF SameStage
  <2> QED BY <1>1, <2>1, StageUnchanged DEF IntakeStep
<1>5. RetryRefused(w) => Ends(w, "failed")
  BY DEF RetryRefused
<1>6. TakeDelivery(w) \/ CallDelivery(w) \/ SchedulesRetry(w) \/ DeliveryDone(w) \/ WorkerExits(w)
        => outcome' = outcome
  BY DEF TakeDelivery, CallDelivery, SchedulesRetry, DeliveryDone, WorkerExits
<1> QED BY <1>3, <1>4, <1>5, <1>6 DEF WorkerStep

LEMMA StopperMaps ==
    ASSUME PipelineInv, StopperStep
    PROVE  IntakeStep
<1> USE DEF gateVars, intakeVars, persistVars, deliveryVars, retryVars, endVars
<1> USE DEF PipelineInv, JobsAccounted
<1>1. \A b \in Alert : SameStage(b)
  BY Scopes DEF SameStage, Unpersisted
<1>2. UNCHANGED Stage
  BY <1>1, StageUnchanged
<1>3. CASE CloseAdmission
  <2>1. running /\ running' = running /\ ~accepting' /\ workerStop' = workerStop
    BY <1>3 DEF CloseAdmission
  <2>2. accepting => Gate = "open" /\ Gate' = "closed"
    BY <2>1 DEF Gate, Closing
  <2>3. ~accepting => Gate' = Gate
    BY <2>1 DEF Gate
  <2> QED BY <1>2, <2>2, <2>3 DEF IntakeStep, Intake!INext, Intake!Close
<1>4. CASE StopWorkers
  <2>1. /\ stopper = "stop" /\ running /\ ~accepting
        /\ UNCHANGED <<running, accepting>> /\ workerStop'
        /\ submitters = 0 /\ persistOpen = 0
    BY <1>4 DEF StopWorkers, Shut, Closing
  <2>2. \A b \in Alert : Stage[b] # "accepted"
    <3> SUFFICES ASSUME NEW b \in Alert PROVE Stage[b] # "accepted"
      OBVIOUS
    <3>1. producer[b] # "putting" /\ persistQ = <<>> /\ persister.pc # "persist"
      BY <2>1, Counted
    <3>2. Occurrences(persistQ, b) = 0
      <4>1. persistQ \in Seq(Alert)
        BY DEF TypeOK
      <4> QED BY <3>1, <4>1, OccurrencesType
    <3>3. ~Unpersisted(b)
      BY <3>1, <3>2 DEF Unpersisted
    <3>4. outcome[b] \in {"none", "lost", "delivered", "failed"}
      BY DEF TypeOK
    <3> QED BY <3>3, <3>4, StageIs
  <2>3. workerStop => Gate' = Gate
    BY <2>1 DEF Gate
  <2>4. ~workerStop => Gate = "closed" /\ Gate' = "stopped"
    BY <2>1 DEF Gate
  <2> QED BY <1>2, <2>2, <2>3, <2>4 DEF IntakeStep, Intake!INext, Intake!Stop
<1>5. CASE Joined
  <2>1. /\ stopper = "join" /\ workerStop /\ ~accepting /\ ~running'
    BY <1>5 DEF Joined, Shut, Closing
  <2>2. Gate' = Gate
    BY <2>1 DEF Gate
  <2> QED BY <1>2, <2>2 DEF IntakeStep
<1>6. CASE ~CloseAdmission /\ ~StopWorkers /\ ~Joined
  <2>1. UNCHANGED <<running, accepting, workerStop>>
    BY <1>6 DEF StopperStep, AlreadyStopped, vars, ProducersLeft, NoRetries, PersistenceDrained,
         DeliveryDrained, TimesOut, Shut
  <2>2. Gate' = Gate
    BY <2>1 DEF Gate
  <2> QED BY <1>2, <2>2 DEF IntakeStep
<1> QED BY <1>3, <1>4, <1>5, <1>6

LEMMA StepMaps == PipelineInv /\ [Next]_vars => [Intake!INext]_<<Stage, Gate>>
<1> SUFFICES ASSUME PipelineInv, [Next]_vars PROVE IntakeStep
  BY DEF IntakeStep
<1> USE DEF gateVars, intakeVars, persistVars, deliveryVars, retryVars, endVars
<1>1. ASSUME RetrierStep \/ UNCHANGED vars PROVE IntakeStep
  <2>1. UNCHANGED <<producer, persistQ, persister, outcome, running, accepting, workerStop>>
    BY <1>1, Scopes DEF vars
  <2>2. \A b \in Alert : SameStage(b)
    BY <2>1 DEF SameStage, Unpersisted
  <2>3. Gate' = Gate
    BY <2>1 DEF Gate
  <2> QED BY <2>2, <2>3, StageUnchanged DEF IntakeStep
<1> QED BY <1>1, ProducerMaps, PersisterMaps, WorkerMaps, StopperMaps DEF Next

\* The pipeline keeps what it promises the detection threads: an alert is
\* accepted only while admission is open, workers are told to stop only after
\* every accepted alert is persisted or lost for good, and a persisted alert
\* ends at most once.
THEOREM IntakeIsKept == Spec => KeepsIntake
<1>1. Init => Intake!IInit
  BY DEF Init, Intake!IInit, Stage, Gate
<1>2. PipelineInv /\ [Next]_vars => [Intake!INext]_(Intake!ivars)
  BY StepMaps DEF Intake!ivars
<1> QED BY <1>1, <1>2, Invariance, PTL DEF Spec, KeepsIntake, Intake!ISpec

=============================================================================
