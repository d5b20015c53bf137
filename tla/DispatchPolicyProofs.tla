------------------------ MODULE DispatchPolicyProofs ------------------------
(***************************************************************************)
(* Proofs about DispatchPolicy: how many cameras a batch has, whatever the *)
(* registrations, queues and waits.  The argument is on ranks: the number  *)
(* of members of a finite set that come before a member takes each value   *)
(* from 0 to the size of the set less one, once.                           *)
(***************************************************************************)
EXTENDS DispatchPolicy, FiniteSetTheorems, TLAPS

Before(f, T, c) == {d \in T : f[d] < f[c]}
Ranks(f, T) == [c \in T |-> Cardinality(Before(f, T, c))]

OneToOne(f, T) ==
    /\ \A c \in T : f[c] \in Int
    /\ \A c, d \in T : f[c] = f[d] => c = d

(* A member's rank is below the size of the set, and below the rank of     *)
(* every member after it.                                                  *)
LEMMA RankGrows ==
    ASSUME NEW T, IsFiniteSet(T), NEW f, OneToOne(f, T), NEW c \in T
    PROVE  /\ Cardinality(T) \in Nat
           /\ Cardinality(Before(f, T, c)) \in 0 .. Cardinality(T) - 1
           /\ \A d \in T : f[c] < f[d] =>
                Cardinality(Before(f, T, c)) < Cardinality(Before(f, T, d))
<1>1. \A x \in T : IsFiniteSet(Before(f, T, x)) /\ Cardinality(Before(f, T, x)) \in Nat
  <2> SUFFICES ASSUME NEW x \in T
               PROVE  IsFiniteSet(Before(f, T, x)) /\ Cardinality(Before(f, T, x)) \in Nat
    OBVIOUS
  <2>1. Before(f, T, x) \in SUBSET T
    BY DEF Before
  <2>2. IsFiniteSet(Before(f, T, x))
    BY <2>1, FS_Subset
  <2> QED BY <2>2, FS_CardinalityType
<1>2. Cardinality(T) \in Nat
  BY FS_CardinalityType
<1>3. Cardinality(Before(f, T, c)) < Cardinality(T)
  <2>1. Before(f, T, c) \in SUBSET T
    BY DEF Before
  <2>2. c \notin Before(f, T, c)
    BY DEF Before, OneToOne
  <2>3. /\ Cardinality(Before(f, T, c)) <= Cardinality(T)
        /\ Cardinality(T) = Cardinality(Before(f, T, c)) => T = Before(f, T, c)
    BY <2>1, FS_Subset
  <2> QED BY <2>2, <2>3, <1>1, <1>2
<1>4. ASSUME NEW d \in T, f[c] < f[d]
      PROVE  Cardinality(Before(f, T, c)) < Cardinality(Before(f, T, d))
  <2>1. Before(f, T, c) \in SUBSET Before(f, T, d)
    BY <1>4 DEF Before, OneToOne
  <2>2. c \in Before(f, T, d) /\ c \notin Before(f, T, c)
    BY <1>4 DEF Before, OneToOne
  <2>3. /\ Cardinality(Before(f, T, c)) <= Cardinality(Before(f, T, d))
        /\ Cardinality(Before(f, T, d)) = Cardinality(Before(f, T, c))
             => Before(f, T, d) = Before(f, T, c)
    BY <2>1, <1>1, FS_Subset
  <2> QED BY <2>2, <2>3, <1>1
<1> QED BY <1>1, <1>2, <1>3, <1>4

(* The ranks of a set are the numbers below its size, each taken once.     *)
LEMMA RanksFill ==
    ASSUME NEW T, IsFiniteSet(T), NEW f, OneToOne(f, T)
    PROVE  Ranks(f, T) \in Bijection(T, 0 .. Cardinality(T) - 1)
<1> DEFINE N == 0 .. Cardinality(T) - 1
<1>1. Cardinality(T) \in Nat
  BY FS_CardinalityType
<1>2. \A c \in T : Ranks(f, T)[c] = Cardinality(Before(f, T, c))
  BY DEF Ranks
<1>3. Ranks(f, T) \in [T -> N]
  BY RankGrows DEF Ranks
<1>4. \A c, d \in T : Ranks(f, T)[c] = Ranks(f, T)[d] => c = d
  <2> SUFFICES ASSUME NEW c \in T, NEW d \in T, Ranks(f, T)[c] = Ranks(f, T)[d], c # d
               PROVE  FALSE
    OBVIOUS
  <2>1. f[c] < f[d] \/ f[d] < f[c]
    BY DEF OneToOne
  <2>2. Cardinality(Before(f, T, c)) \in Int /\ Cardinality(Before(f, T, d)) \in Int
    BY RankGrows, <1>1
  <2>3. \/ Cardinality(Before(f, T, c)) < Cardinality(Before(f, T, d))
        \/ Cardinality(Before(f, T, d)) < Cardinality(Before(f, T, c))
    BY <2>1, RankGrows
  <2> QED BY <2>2, <2>3, <1>2
<1>5. Ranks(f, T) \in Injection(T, N)
  BY <1>3, <1>4 DEF Injection, IsInjective
<1>6. IsFiniteSet(N) /\ Cardinality(N) = Cardinality(T)
  <2>1. Cardinality(T) - 1 \in Int /\ 0 \in Int
    BY <1>1
  <2>2. /\ IsFiniteSet(N)
        /\ Cardinality(N) = IF 0 > Cardinality(T) - 1 THEN 0 ELSE Cardinality(T) - 1 - 0 + 1
    BY <2>1, FS_Interval
  <2> QED BY <2>2, <1>1
<1>7. Ranks(f, T) \in Surjection(T, N)
  BY <1>5, <1>6, FS_Injection
<1> QED BY <1>5, <1>7 DEF Bijection

(* A finite set that is not empty has a least and a greatest member.       *)
LEMMA Extremes ==
    ASSUME NEW T, IsFiniteSet(T), T # {}, NEW f, OneToOne(f, T)
    PROVE  /\ \E c \in T : \A d \in T : f[c] <= f[d]
           /\ \E c \in T : \A d \in T : f[d] <= f[c]
<1>1. Cardinality(T) \in Nat /\ Cardinality(T) # 0
  BY FS_CardinalityType, FS_EmptySet
<1>2. /\ \A c \in T : Ranks(f, T)[c] = Cardinality(Before(f, T, c))
      /\ \A i \in 0 .. Cardinality(T) - 1 : \E c \in T : Ranks(f, T)[c] = i
  <2>1. \A c \in T : Ranks(f, T)[c] = Cardinality(Before(f, T, c))
    BY DEF Ranks
  <2>2. \A i \in 0 .. Cardinality(T) - 1 : \E c \in T : Ranks(f, T)[c] = i
    BY RanksFill DEF Bijection, Surjection
  <2> QED BY <2>1, <2>2
<1>3. PICK c \in T : Cardinality(Before(f, T, c)) = 0
  <2>1. 0 \in 0 .. Cardinality(T) - 1
    BY <1>1
  <2> QED BY <2>1, <1>2
<1>4. PICK e \in T : Cardinality(Before(f, T, e)) = Cardinality(T) - 1
  <2>1. Cardinality(T) - 1 \in 0 .. Cardinality(T) - 1
    BY <1>1
  <2> QED BY <2>1, <1>2
<1>5. \A d \in T : f[c] <= f[d]
  <2> SUFFICES ASSUME NEW d \in T, ~(f[c] <= f[d])
               PROVE  FALSE
    OBVIOUS
  <2>1. f[d] < f[c]
    BY DEF OneToOne
  <2>2. Cardinality(Before(f, T, d)) < Cardinality(Before(f, T, c))
    BY <2>1, RankGrows
  <2>3. Cardinality(Before(f, T, d)) \in 0 .. Cardinality(T) - 1
    BY RankGrows
  <2> QED BY <2>2, <2>3, <1>3, <1>1
<1>6. \A d \in T : f[d] <= f[e]
  <2> SUFFICES ASSUME NEW d \in T, ~(f[d] <= f[e])
               PROVE  FALSE
    OBVIOUS
  <2>1. f[e] < f[d]
    BY DEF OneToOne
  <2>2. Cardinality(Before(f, T, e)) < Cardinality(Before(f, T, d))
    BY <2>1, RankGrows
  <2>3. Cardinality(Before(f, T, d)) \in 0 .. Cardinality(T) - 1
    BY RankGrows
  <2> QED BY <2>2, <2>3, <1>4, <1>1
<1> QED BY <1>5, <1>6

(* Exactly n members have a rank below n.                                  *)
LEMMA FirstOnes ==
    ASSUME NEW T, IsFiniteSet(T), NEW f, OneToOne(f, T),
           NEW n \in 0 .. Cardinality(T)
    PROVE  /\ IsFiniteSet({c \in T : Cardinality(Before(f, T, c)) < n})
           /\ Cardinality({c \in T : Cardinality(Before(f, T, c)) < n}) = n
<1> DEFINE B == {c \in T : Cardinality(Before(f, T, c)) < n}
           N == 0 .. n - 1
           g == [c \in B |-> Cardinality(Before(f, T, c))]
<1>1. Cardinality(T) \in Nat /\ n \in Nat /\ n <= Cardinality(T)
  BY FS_CardinalityType
<1>2. B \in SUBSET T
  OBVIOUS
<1>3. IsFiniteSet(B)
  BY <1>2, FS_Subset
<1>4. \A c \in T : Cardinality(Before(f, T, c)) \in 0 .. Cardinality(T) - 1
  BY RankGrows
<1>5. g \in [B -> N]
  BY <1>1, <1>4
<1>6. /\ \A c, d \in T : Ranks(f, T)[c] = Ranks(f, T)[d] => c = d
      /\ \A i \in 0 .. Cardinality(T) - 1 : \E c \in T : Ranks(f, T)[c] = i
      /\ \A c \in T : Ranks(f, T)[c] = Cardinality(Before(f, T, c))
  <2>1. \A c \in T : Ranks(f, T)[c] = Cardinality(Before(f, T, c))
    BY DEF Ranks
  <2>2. Ranks(f, T) \in Bijection(T, 0 .. Cardinality(T) - 1)
    BY RanksFill
  <2>3. \A i \in 0 .. Cardinality(T) - 1 : \E c \in T : Ranks(f, T)[c] = i
    BY <2>2 DEF Bijection, Surjection
  <2>4. \A c, d \in T : Ranks(f, T)[c] = Ranks(f, T)[d] => c = d
    BY <2>2 DEF Bijection, Injection, IsInjective
  <2> QED BY <2>1, <2>3, <2>4
<1>7. \A c, d \in B : g[c] = g[d] => c = d
  BY <1>2, <1>6
<1>8. \A i \in N : \E c \in B : g[c] = i
  <2> SUFFICES ASSUME NEW i \in N
               PROVE  \E c \in B : g[c] = i
    OBVIOUS
  <2>1. i \in 0 .. Cardinality(T) - 1 /\ i < n
    BY <1>1
  <2>2. PICK c \in T : Cardinality(Before(f, T, c)) = i
    BY <2>1, <1>6
  <2>3. c \in B
    BY <2>1, <2>2
  <2> QED BY <2>2, <2>3
<1>9. g \in Injection(B, N) /\ g \in Surjection(B, N)
  BY <1>5, <1>7, <1>8 DEF Injection, IsInjective, Surjection
<1>10. IsFiniteSet(N) /\ Cardinality(N) = n
  <2>1. n - 1 \in Int /\ 0 \in Int
    BY <1>1
  <2>2. /\ IsFiniteSet(N)
        /\ Cardinality(N) = IF 0 > n - 1 THEN 0 ELSE n - 1 - 0 + 1
    BY <2>1, FS_Interval
  <2> QED BY <2>2, <1>1
<1>11. Cardinality(B) = n
  <2> HIDE DEF B, N, g
  <2> QED BY <1>9, <1>10, FS_Injection
<1> QED BY <1>3, <1>11

-----------------------------------------------------------------------------
(* The cameras have different places below the count.                      *)
Placed(place, count, cameras) ==
    /\ count \in Nat
    /\ \A c \in cameras : place[c] \in 0 .. count - 1
    /\ \A c, d \in cameras : place[c] = place[d] => c = d

Distances(place, count, start, cameras) == [c \in cameras |-> Distance(place, count, start, c)]

(* Going round from any place, no two cameras are equally far.             *)
LEMMA DistancesDiffer ==
    ASSUME NEW place, NEW count, NEW cameras, Placed(place, count, cameras),
           NEW start \in 0 .. count - 1
    PROVE  /\ OneToOne(Distances(place, count, start, cameras), cameras)
           /\ \A c \in cameras :
                Ahead(place, count, start, cameras, c)
                    = Before(Distances(place, count, start, cameras), cameras, c)
<1>1. \A c \in cameras : Distances(place, count, start, cameras)[c] = Distance(place, count, start, c)
  BY DEF Distances
<1>2. \A c \in cameras : Distance(place, count, start, c) \in Int
  BY DEF Distance, Placed
<1>3. \A c, d \in cameras :
        Distance(place, count, start, c) = Distance(place, count, start, d) => c = d
  <2> SUFFICES ASSUME NEW c \in cameras, NEW d \in cameras,
                      Distance(place, count, start, c) = Distance(place, count, start, d)
               PROVE  place[c] = place[d]
    BY DEF Placed
  <2> QED BY DEF Distance, Placed
<1>4. OneToOne(Distances(place, count, start, cameras), cameras)
  BY <1>1, <1>2, <1>3 DEF OneToOne
<1>5. \A c \in cameras :
        Ahead(place, count, start, cameras, c)
            = Before(Distances(place, count, start, cameras), cameras, c)
  BY <1>1 DEF Ahead, Before
<1> QED BY <1>4, <1>5

(* What a batch is: ready cameras of one profile, among them the seed, as  *)
(* many as a legal size that fits into the pool and the profile.           *)
Legal(batch, queue, ready, capacity, seed) ==
    /\ seed \in ready
    /\ batch \subseteq Group(queue, ready, seed)
    /\ IsFiniteSet(batch)
    /\ Cardinality(batch) \in {1, 2, 4}
    /\ Cardinality(batch) <= capacity
    /\ Cardinality(batch) <= Limit(queue, seed)

LEMMA CohortLegal ==
    ASSUME NEW place, NEW count, NEW queue, NEW ready, NEW capacity \in Nat \ {0},
           NEW seed \in ready, NEW immediate,
           IsFiniteSet(ready), Placed(place, count, ready),
           queue[seed].profile \in DOMAIN BatchLimit
    PROVE  Legal(Cohort(place, count, queue, ready, capacity, seed, immediate),
                 queue, ready, capacity, seed)
<1> DEFINE group == Group(queue, ready, seed)
           size  == Size(queue, group, capacity, seed, immediate)
           f     == Distances(place, count, place[seed], group)
           batch == Cohort(place, count, queue, ready, capacity, seed, immediate)
<1>1. seed \in group /\ group \in SUBSET ready
  BY DEF Group
<1>2. IsFiniteSet(group)
  BY <1>1, FS_Subset
<1>3. Cardinality(group) \in Nat /\ Cardinality(group) # 0
  BY <1>1, <1>2, FS_CardinalityType, FS_EmptySet
<1>4. Limit(queue, seed) \in {1, 2, 4}
  BY PolicyAssumption DEF Limit
<1>5. /\ size \in {1, 2, 4}
      /\ size <= capacity /\ size <= Cardinality(group) /\ size <= Limit(queue, seed)
  <2> HIDE DEF group
  <2> QED BY <1>3, <1>4 DEF Size, Bounds
<1>6. Placed(place, count, group) /\ place[seed] \in 0 .. count - 1
  BY <1>1 DEF Placed
<1>7. /\ OneToOne(f, group)
      /\ \A c \in group : Ahead(place, count, place[seed], group, c) = Before(f, group, c)
  <2> HIDE DEF group
  <2> QED BY <1>6, DistancesDiffer
<1>8. batch = {c \in group : Cardinality(Before(f, group, c)) < size}
  BY <1>7 DEF Cohort
<1>9. IsFiniteSet(batch) /\ Cardinality(batch) = size
  <2>1. size \in 0 .. Cardinality(group)
    BY <1>3, <1>5
  <2> HIDE DEF group, f, size, batch
  <2> QED BY <2>1, <1>2, <1>7, <1>8, FirstOnes
<1>10. batch \subseteq group
  BY <1>8
<1> HIDE DEF size
<1> QED BY <1>5, <1>9, <1>10 DEF Legal

(* Whatever is chosen is legal, and its burst is within bounds.            *)
LEMMA ChoicesLegal ==
    ASSUME NEW place, NEW count, NEW cursor, NEW streak \in 0 .. UrgentBurst,
           NEW queue, NEW ready, NEW capacity \in Int,
           IsFiniteSet(ready), Placed(place, count, ready),
           \A c \in ready : queue[c].profile \in DOMAIN BatchLimit,
           NEW choice \in Choices(place, count, cursor, streak, queue, ready, capacity)
    PROVE  /\ Legal(choice.batch, queue, ready, capacity, choice.seed)
           /\ choice.streak \in 0 .. UrgentBurst
<1> DEFINE normal == NormalCandidates(queue, ready, capacity)
           urgent == {c \in ready : queue[c].urgent}
           burst  == IF streak < UrgentBurst THEN streak + 1 ELSE streak
<1>1. capacity \in Nat \ {0}
  <2>1. capacity <= 0 => Choices(place, count, cursor, streak, queue, ready, capacity) = {}
    BY DEF Choices
  <2> QED BY <2>1
<1>2. burst \in 0 .. UrgentBurst /\ 0 \in 0 .. UrgentBurst
  BY PolicyAssumption
<1>3. normal \subseteq ready /\ urgent \subseteq ready
  BY DEF NormalCandidates
<1>4. PICK seed \in ready, immediate \in BOOLEAN, b \in {0, burst} :
        choice = [batch |-> Cohort(place, count, queue, ready, capacity, seed, immediate),
                  seed |-> seed, streak |-> b]
  <2>1. CASE urgent # {} /\ ~ForceNormal(normal, urgent, streak)
    <3>1. PICK seed \in FairPick(place, count, cursor, urgent) :
            choice = [batch |-> Cohort(place, count, queue, ready, capacity, seed, TRUE),
                      seed |-> seed, streak |-> burst]
      BY <2>1, <1>1 DEF Choices
    <3>2. seed \in ready
      BY <1>3 DEF FairPick
    <3> QED BY <3>1, <3>2
  <2>2. CASE ~(urgent # {} /\ ~ForceNormal(normal, urgent, streak))
    <3>1. PICK seed \in FairPick(place, count, cursor, normal) :
            choice = [batch |-> Cohort(place, count, queue, ready, capacity, seed, FALSE),
                      seed |-> seed, streak |-> 0]
      BY <2>2, <1>1 DEF Choices
    <3>2. seed \in ready
      BY <1>3 DEF FairPick
    <3> QED BY <3>1, <3>2
  <2> QED BY <2>1, <2>2
<1>5. /\ choice.batch = Cohort(place, count, queue, ready, capacity, seed, immediate)
      /\ choice.seed = seed /\ choice.streak = b
  BY <1>4
<1>6. Legal(Cohort(place, count, queue, ready, capacity, seed, immediate), queue, ready, capacity, seed)
  BY <1>1, CohortLegal
<1>7. b \in 0 .. UrgentBurst
  BY <1>2
<1> QED BY <1>5, <1>6, <1>7

-----------------------------------------------------------------------------
(* When nothing is chosen. *)

(* Where someone is eligible, someone is first from the cursor on.         *)
LEMMA FairPickFound ==
    ASSUME NEW place, NEW count, NEW cursor \in Nat, NEW eligible, IsFiniteSet(eligible),
           eligible # {}, Placed(place, count, eligible)
    PROVE  FairPick(place, count, cursor, eligible) # {}
<1> DEFINE start == cursor % count
           f == Distances(place, count, start, eligible)
<1>1. count \in Nat /\ count > 0
  BY DEF Placed
<1>2. start \in 0 .. count - 1
  BY <1>1
<1> HIDE DEF start
<1>3. /\ OneToOne(f, eligible)
      /\ \A c \in eligible : Ahead(place, count, start, eligible, c) = Before(f, eligible, c)
  BY <1>2, DistancesDiffer
<1>4. PICK c \in eligible : \A d \in eligible : f[c] <= f[d]
  <2> HIDE DEF f
  <2> QED BY <1>3, Extremes
<1>5. Before(f, eligible, c) = {}
  <2> HIDE DEF f
  <2> QED BY <1>3, <1>4 DEF Before, OneToOne
<1>6. c \in FairPick(place, count, cursor, eligible)
  BY <1>3, <1>5 DEF FairPick, start
<1> QED BY <1>6

(* With a worker free, the scheduler leaves no urgent and no normal work   *)
(* that is due without a choice, and makes none when there is no such work.*)
LEMMA NothingChosen ==
    ASSUME NEW place, NEW count, NEW cursor \in Nat, NEW streak, NEW queue, NEW ready,
           NEW capacity \in Int, IsFiniteSet(ready), Placed(place, count, ready)
    PROVE  Choices(place, count, cursor, streak, queue, ready, capacity) = {}
             <=> \/ capacity <= 0
                 \/ /\ NormalCandidates(queue, ready, capacity) = {}
                    /\ \A c \in ready : ~queue[c].urgent
<1> DEFINE normal == NormalCandidates(queue, ready, capacity)
           urgent == {c \in ready : queue[c].urgent}
           batch(seed, immediate, burst) ==
             [batch |-> Cohort(place, count, queue, ready, capacity, seed, immediate),
              seed |-> seed, streak |-> burst]
           choices == Choices(place, count, cursor, streak, queue, ready, capacity)
           burst == IF streak < UrgentBurst THEN streak + 1 ELSE streak
<1>1. ASSUME NEW eligible \in SUBSET ready, eligible # {}
      PROVE  FairPick(place, count, cursor, eligible) # {}
  <2>1. IsFiniteSet(eligible)
    BY FS_Subset
  <2>2. Placed(place, count, eligible)
    BY DEF Placed
  <2> QED BY <1>1, <2>1, <2>2, FairPickFound
<1>2. normal \in SUBSET ready /\ urgent \in SUBSET ready
  BY DEF NormalCandidates
<1>3. choices = IF capacity <= 0 THEN {}
                ELSE IF urgent # {} /\ ~ForceNormal(normal, urgent, streak)
                THEN {batch(seed, TRUE, burst) : seed \in FairPick(place, count, cursor, urgent)}
                ELSE {batch(seed, FALSE, 0) : seed \in FairPick(place, count, cursor, normal)}
  BY DEF Choices
<1>4. FairPick(place, count, cursor, {}) = {}
  BY DEF FairPick
<1>5. urgent = {} <=> \A c \in ready : ~queue[c].urgent
  OBVIOUS
<1>6. choices = {} <=> capacity <= 0 \/ (normal = {} /\ urgent = {})
  <2> HIDE DEF choices, normal, urgent, batch, burst
  <2>1. CASE capacity <= 0
    BY <2>1, <1>3
  <2>2. CASE ~(capacity <= 0) /\ urgent # {} /\ ~ForceNormal(normal, urgent, streak)
    BY <2>2, <1>1, <1>2, <1>3
  <2>3. CASE ~(capacity <= 0) /\ urgent # {} /\ ForceNormal(normal, urgent, streak)
    BY <2>3, <1>1, <1>2, <1>3 DEF ForceNormal
  <2>4. CASE ~(capacity <= 0) /\ urgent = {} /\ normal # {}
    BY <2>4, <1>1, <1>2, <1>3
  <2>5. CASE ~(capacity <= 0) /\ urgent = {} /\ normal = {}
    BY <2>5, <1>3, <1>4
  <2> QED BY <2>1, <2>2, <2>3, <2>4, <2>5
<1> HIDE DEF choices, normal, urgent
<1> QED BY <1>5, <1>6 DEF choices, normal

=============================================================================
