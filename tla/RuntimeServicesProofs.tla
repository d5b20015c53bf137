----------------------- MODULE RuntimeServicesProofs -----------------------
(***************************************************************************)
(* Proofs about RuntimeServices, continued from ServicesProofs: the        *)
(* incidents of a camera, the viewers of its picture and the timing of     *)
(* alerts, for any rules, viewers, alerts and bounds.  Then the theorems   *)
(* about the components side by side, and at the end the watched zones of  *)
(* ObjectLifecycle.                                                        *)
(***************************************************************************)
EXTENDS ServicesProofs

-----------------------------------------------------------------------------
(* ViolationIncidents.                                                     *)

ViolationConstants == WindowSize \in Nat \ {0} /\ Threshold \in [Rule -> Nat]

(* A window is the end of what its rule was seen to do, and before it      *)
(* there was nothing: what a dropped window held was absent.               *)
Covers(w, s) ==
    /\ w \in Seq(BOOLEAN) /\ s \in Seq(BOOLEAN) /\ Len(w) <= Len(s) /\ Len(s) <= WindowSize
    /\ \A i \in 1 .. Len(s) : s[i] <=> i > Len(s) - Len(w) /\ w[i - (Len(s) - Len(w))]

(* The last n observations are positive, and the one before them is not.   *)
IsRun(s, n) ==
    /\ n \in 0 .. Len(s)
    /\ \A i \in 1 .. Len(s) : i > Len(s) - n => s[i]
    /\ n < Len(s) => ~s[Len(s) - n]

Absent(s) == \A i \in 1 .. Len(s) : ~s[i]
Anchored(r) == IF r \in DOMAIN anchor THEN anchor[r] ELSE 0

(* An anchor is the length of the run that goes on.  A rule whose incident *)
(* is active was not seen since its alert; so an incident that ends        *)
(* leaves no run without an anchor.                                        *)
RuleOK(r) ==
    /\ Covers(Violations!Windowed(r), seen[r])
    /\ IsRun(seen[r], Anchored(r))
    /\ r \in DOMAIN anchor => anchor[r] # 0
    /\ r \in confirmed => Absent(seen[r])
    /\ r \in todo => r \in DOMAIN anchor

ViolationTyped ==
    /\ DOMAIN observed \subseteq Rule /\ DOMAIN anchor \subseteq Rule
    /\ confirmed \subseteq Rule /\ todo \subseteq Rule
    /\ seen = [r \in Rule |-> seen[r]]
    /\ plan = Violations!Between => todo = {}

ViolationInv == ViolationTyped /\ \A r \in Rule : RuleOK(r)

-----------------------------------------------------------------------------
(* What is made of observations.                                           *)
Grown(n) == IF n < WindowSize THEN n + 1 ELSE n

IsPushed(p, s, o) ==
    /\ p \in Seq(BOOLEAN) /\ Len(p) = Grown(Len(s)) /\ Len(p) \in 1 .. WindowSize
    /\ p[Len(p)] = o
    /\ \A i \in 1 .. Len(p) - 1 : p[i] = s[i + (Len(s) + 1 - Len(p))]

LEMMA PushIs ==
    ASSUME ViolationConstants, NEW s, s \in Seq(BOOLEAN), Len(s) <= WindowSize, NEW o, o \in BOOLEAN
    PROVE  IsPushed(Violations!Push(s, o), s, o)
<1> DEFINE p == Violations!Push(s, o)
<1> DEFINE longer == Append(s, o)
<1>1. /\ longer \in Seq(BOOLEAN) /\ Len(longer) = Len(s) + 1 /\ Len(s) \in Nat
      /\ longer[Len(s) + 1] = o
      /\ \A i \in 1 .. Len(s) : longer[i] = s[i]
  OBVIOUS
<1>2. WindowSize \in Nat \ {0}
  BY DEF ViolationConstants
<1>8. p = IF Len(longer) > WindowSize THEN Tail(longer) ELSE longer
  BY DEF Violations!Push
<1> HIDE DEF longer, p
<1>3. ASSUME Len(s) < WindowSize PROVE IsPushed(p, s, o)
  <2>1. p = longer /\ Grown(Len(s)) = Len(s) + 1
    BY <1>1, <1>2, <1>3, <1>8 DEF Grown
  <2>2. /\ p \in Seq(BOOLEAN) /\ Len(p) = Len(s) + 1 /\ Len(p) \in 1 .. WindowSize /\ p[Len(p)] = o
    BY <1>1, <1>2, <1>3, <2>1
  <2>3. ASSUME NEW i \in 1 .. Len(p) - 1 PROVE p[i] = s[i + (Len(s) + 1 - Len(p))]
    <3>1. i \in 1 .. Len(s) /\ i + (Len(s) + 1 - Len(p)) = i
      BY <1>1, <2>2, <2>3
    <3>2. p[i] = s[i]
      BY <1>1, <2>1, <3>1
    <3> QED BY <3>1, <3>2
  <2> QED BY <2>1, <2>2, <2>3 DEF IsPushed
<1>4. ASSUME Len(s) = WindowSize PROVE IsPushed(p, s, o)
  <2>1. longer # <<>>
    BY <1>1
  <2>2. /\ Tail(longer) \in Seq(BOOLEAN) /\ Len(Tail(longer)) = Len(s)
        /\ \A i \in 1 .. Len(s) : Tail(longer)[i] = longer[i + 1]
    BY <1>1, <2>1
  <2>3. p = Tail(longer) /\ Grown(Len(s)) = Len(s)
    BY <1>1, <1>2, <1>4, <1>8 DEF Grown
  <2>4. /\ p \in Seq(BOOLEAN) /\ Len(p) = Len(s) /\ Len(p) \in 1 .. WindowSize
    BY <1>1, <1>2, <1>4, <2>2, <2>3
  <2>5. ASSUME NEW i \in 1 .. Len(p) - 1 PROVE p[i] = s[i + (Len(s) + 1 - Len(p))]
    <3>1. i \in 1 .. Len(s) /\ i + 1 \in 1 .. Len(s) /\ i + (Len(s) + 1 - Len(p)) = i + 1
      BY <1>1, <2>4, <2>5
    <3>2. p[i] = s[i + 1]
      BY <1>1, <2>2, <2>3, <3>1
    <3> QED BY <3>1, <3>2
  <2>6. p[Len(p)] = o
    <3>1. Len(s) \in 1 .. Len(s)
      BY <1>1, <2>4
    <3>2. p[Len(s)] = longer[Len(s) + 1]
      BY <2>2, <2>3, <3>1
    <3> QED BY <1>1, <2>4, <3>2
  <2> QED BY <2>3, <2>4, <2>5, <2>6 DEF IsPushed
<1>5. Len(s) < WindowSize \/ Len(s) = WindowSize
  BY <1>1, <1>2
<1> QED BY <1>3, <1>4, <1>5 DEF p

LEMMA CoversPushed ==
    ASSUME ViolationConstants, NEW w, NEW s, Covers(w, s), NEW o, NEW v, NEW t, IsPushed(v, w, o), IsPushed(t, s, o)
    PROVE  Covers(v, t)
<1>1. /\ w \in Seq(BOOLEAN) /\ s \in Seq(BOOLEAN) /\ Len(w) <= Len(s) /\ Len(s) <= WindowSize
      /\ Len(w) \in Nat /\ Len(s) \in Nat /\ WindowSize \in Nat \ {0}
      /\ \A i \in 1 .. Len(s) : s[i] <=> i > Len(s) - Len(w) /\ w[i - (Len(s) - Len(w))]
  BY DEF Covers, ViolationConstants
<1>2. PICK n, k : n = Len(v) /\ k = Len(t)
  OBVIOUS
<1>3. /\ v \in Seq(BOOLEAN) /\ n \in 1 .. WindowSize /\ v[n] = o
      /\ \A i \in 1 .. n - 1 : v[i] = w[i + (Len(w) + 1 - n)]
  BY <1>2 DEF IsPushed
<1>4. /\ t \in Seq(BOOLEAN) /\ k \in 1 .. WindowSize /\ t[k] = o
      /\ \A i \in 1 .. k - 1 : t[i] = s[i + (Len(s) + 1 - k)]
  BY <1>2 DEF IsPushed
<1>5. /\ n = Len(w) + 1 \/ (n = Len(w) /\ n = WindowSize /\ Len(s) = Len(w) /\ k = n)
      /\ k = Len(s) + 1 \/ (k = Len(s) /\ k = WindowSize)
      /\ n <= k
  BY <1>1, <1>2 DEF Grown, IsPushed
<1>7. /\ Len(w) \in Nat /\ Len(s) \in Nat /\ WindowSize \in Nat \ {0} /\ Len(w) <= Len(s)
      /\ n \in 1 .. WindowSize /\ k \in 1 .. WindowSize
  BY <1>1, <1>3, <1>4
<1>6. ASSUME NEW i \in 1 .. k PROVE t[i] <=> i > k - n /\ v[i - (k - n)]
  <2>1. CASE i = k
    <3>1. i - (k - n) = n /\ i > k - n
      BY <1>3, <1>4, <2>1
    <3> QED BY <1>3, <1>4, <2>1, <3>1
  <2>2. CASE i < k
    <3>1. PICK j, d : j = i + (Len(s) + 1 - k) /\ d = j - (Len(s) - Len(w))
      OBVIOUS
    <3>0. i \in 1 .. k - 1 /\ j \in 1 .. Len(s)
      BY <1>5, <1>7, <2>2, <3>1
    <3>2. t[i] = s[j]
      BY <1>4, <3>0, <3>1
    <3>3. s[j] <=> j > Len(s) - Len(w) /\ w[d]
      BY <1>1, <3>0, <3>1
    <3>4. j > Len(s) - Len(w) <=> i > k - n
      BY <1>5, <1>7, <2>2, <3>1
    <3>5. ASSUME i > k - n PROVE v[i - (k - n)] = w[d]
      <4>1. PICK e : e = i - (k - n)
        OBVIOUS
      <4>2. e \in 1 .. n - 1 /\ e + (Len(w) + 1 - n) = d
        BY <1>5, <1>7, <2>2, <3>1, <3>5, <4>1
      <4> QED BY <1>3, <4>1, <4>2
    <3> QED BY <3>2, <3>3, <3>4, <3>5
  <2> QED BY <1>4, <2>1, <2>2
<1> QED BY <1>2, <1>3, <1>4, <1>5, <1>6 DEF Covers

LEMMA CoversPush ==
    ASSUME ViolationConstants, NEW w, NEW s, Covers(w, s), NEW o, o \in BOOLEAN
    PROVE  Covers(Violations!Push(w, o), Violations!Push(s, o))
<1>1. /\ w \in Seq(BOOLEAN) /\ s \in Seq(BOOLEAN) /\ Len(w) <= WindowSize /\ Len(s) <= WindowSize
  BY DEF Covers, ViolationConstants
<1>2. IsPushed(Violations!Push(w, o), w, o) /\ IsPushed(Violations!Push(s, o), s, o)
  BY <1>1, PushIs
<1> QED BY <1>2, CoversPushed

LEMMA CoversNothing ==
    ASSUME NEW w, NEW s, Covers(w, s), Absent(w)
    PROVE  Covers(<<>>, s) /\ Absent(s)
BY DEF Covers, Absent

LEMMA RunPush ==
    ASSUME ViolationConstants, NEW s, s \in Seq(BOOLEAN), Len(s) <= WindowSize, NEW n, IsRun(s, n)
    PROVE  /\ IsRun(Violations!Push(s, TRUE), Grown(n))
           /\ IsRun(Violations!Push(s, FALSE), 0)
<1>1. Len(s) \in Nat /\ WindowSize \in Nat \ {0} /\ n \in 0 .. Len(s)
  BY DEF IsRun, ViolationConstants
<1>2. PICK k, m, t, u : /\ k = Grown(Len(s)) /\ m = Grown(n)
                        /\ t = Violations!Push(s, TRUE) /\ u = Violations!Push(s, FALSE)
  OBVIOUS
<1>3. IsPushed(t, s, TRUE) /\ IsPushed(u, s, FALSE)
  BY <1>2, PushIs
<1>4. /\ t \in Seq(BOOLEAN) /\ Len(t) = k /\ k \in 1 .. WindowSize /\ t[k]
      /\ \A i \in 1 .. k - 1 : t[i] = s[i + (Len(s) + 1 - k)]
  BY <1>2, <1>3 DEF IsPushed
<1>5. IsRun(u, 0)
  <2>1. Len(u) = k /\ u[k] = FALSE
    BY <1>2, <1>3 DEF IsPushed
  <2> QED BY <1>4, <2>1 DEF IsRun
<1>6. /\ k = Len(s) + 1 \/ (k = Len(s) /\ k = WindowSize)
      /\ (m = n + 1 /\ n < WindowSize) \/ (m = n /\ n = WindowSize /\ Len(s) = n /\ k = n)
  BY <1>1, <1>2 DEF Grown
<1>7. ASSUME NEW i \in 1 .. k, i > k - m PROVE t[i]
  <2>1. CASE i = k
    BY <1>4, <2>1
  <2>2. CASE i < k
    <3>1. PICK j : j = i + (Len(s) + 1 - k)
      OBVIOUS
    <3>2. i \in 1 .. k - 1 /\ j \in 1 .. Len(s) /\ j > Len(s) - n
      BY <1>1, <1>4, <1>6, <1>7, <2>2, <3>1
    <3>3. s[j]
      BY <3>2 DEF IsRun
    <3> QED BY <1>4, <3>1, <3>2, <3>3
  <2> QED BY <1>4, <2>1, <2>2
<1>8. ASSUME m < k PROVE ~t[k - m]
  <2>1. PICK e : e = k - m
    OBVIOUS
  <2>2. e \in 1 .. k - 1 /\ e + (Len(s) + 1 - k) = Len(s) - n /\ n < Len(s)
    BY <1>1, <1>4, <1>6, <1>8, <2>1
  <2>3. ~s[Len(s) - n]
    BY <2>2 DEF IsRun
  <2> QED BY <1>4, <2>1, <2>2, <2>3
<1>9. m \in 0 .. k
  BY <1>1, <1>4, <1>6
<1> QED BY <1>2, <1>4, <1>5, <1>7, <1>8, <1>9 DEF IsRun

LEMMA RunIs ==
    ASSUME NEW s \in Seq(BOOLEAN), NEW n, IsRun(s, n)
    PROVE  n = Violations!Run(s)
<1> DEFINE P(m) == /\ \A i \in 1 .. Len(s) : i > Len(s) - m => s[i]
                   /\ m < Len(s) => ~s[Len(s) - m]
<1>1. n \in 0 .. Len(s) /\ P(n) /\ Len(s) \in Nat
  BY DEF IsRun
<1>2. ASSUME NEW m \in 0 .. Len(s), P(m), NEW k \in 0 .. Len(s), P(k), m < k PROVE FALSE
  <2>1. Len(s) - m \in 1 .. Len(s) /\ Len(s) - m > Len(s) - k
    BY <1>1, <1>2
  <2>2. s[Len(s) - m]
    BY <1>2, <2>1
  <2>3. ~s[Len(s) - m]
    BY <1>1, <1>2
  <2> QED BY <2>2, <2>3
<1>3. ASSUME NEW m \in 0 .. Len(s), P(m) PROVE m = n
  <2>1. ~(m < n) /\ ~(n < m)
    BY <1>1, <1>2, <1>3
  <2> QED BY <1>1, <2>1
<1>4. \A m \in 0 .. Len(s) : P(m) <=> m = n
  BY <1>1, <1>3
<1> HIDE DEF P
<1>5. n = CHOOSE m \in 0 .. Len(s) : P(m)
  BY <1>1, <1>4
<1> QED BY <1>5 DEF Violations!Run, P

LEMMA HitsCount == \A S : Violations!Cardinality(S) = Cardinality(S)
BY DEF Cardinality, Violations!Cardinality

HitPlaces(s) == {i \in 1 .. Len(s) : s[i]}

LEMMA HitsAre ==
    ASSUME NEW s \in Seq(BOOLEAN)
    PROVE  /\ Violations!Hits(s) = Cardinality(HitPlaces(s))
           /\ IsFiniteSet(HitPlaces(s)) /\ Violations!Hits(s) \in Nat
           /\ Violations!Hits(s) = 0 <=> Absent(s)
<1>1. DOMAIN s = 1 .. Len(s) /\ Len(s) \in Nat
  OBVIOUS
<1>2. Violations!Hits(s) = Cardinality(HitPlaces(s))
  BY <1>1, HitsCount DEF Violations!Hits, HitPlaces
<1>3. IsFiniteSet(HitPlaces(s))
  <2>1. IsFiniteSet(1 .. Len(s))
    BY <1>1, FS_Interval
  <2> QED BY <2>1, FS_Subset DEF HitPlaces
<1>4. Cardinality(HitPlaces(s)) = 0 <=> HitPlaces(s) = {}
  BY <1>3, FS_EmptySet
<1> QED BY <1>2, <1>3, <1>4, FS_CardinalityType DEF HitPlaces, Absent

(* A window loses no confirmation.                                         *)
LEMMA CoversHits ==
    ASSUME NEW w, NEW s, Covers(w, s)
    PROVE  Violations!Hits(w) <= Violations!Hits(s)
<1> DEFINE k == Len(s) - Len(w)
           f == [i \in HitPlaces(w) |-> i + k]
<1>1. w \in Seq(BOOLEAN) /\ s \in Seq(BOOLEAN) /\ Len(w) \in Nat /\ Len(s) \in Nat /\ k \in Nat
  BY DEF Covers
<1>2. ASSUME NEW i \in HitPlaces(w) PROVE i + k \in HitPlaces(s)
  BY <1>1, <1>2 DEF HitPlaces, Covers
<1>3. f \in Injection(HitPlaces(w), HitPlaces(s))
  <2>1. f \in [HitPlaces(w) -> HitPlaces(s)]
    BY <1>2
  <2>2. \A i, j \in HitPlaces(w) : f[i] = f[j] => i = j
    BY <1>1 DEF HitPlaces
  <2> QED BY <2>1, <2>2 DEF Injection, IsInjective
<1>4. Cardinality(HitPlaces(w)) <= Cardinality(HitPlaces(s))
  BY <1>1, <1>3, HitsAre, FS_Injection
<1> QED BY <1>1, <1>4, HitsAre

(* One positive observation is one hit.                                    *)
LEMMA FirstHit ==
    ASSUME ViolationConstants, NEW w, w \in Seq(BOOLEAN), Len(w) <= WindowSize, Absent(w),
           NEW o, o \in BOOLEAN
    PROVE  Violations!Hits(Violations!Push(w, o)) < 2
<1>1. PICK v, n : v = Violations!Push(w, o) /\ n = Grown(Len(w))
  OBVIOUS
<1>2. /\ v \in Seq(BOOLEAN) /\ Len(v) = n /\ n \in 1 .. WindowSize
      /\ \A i \in 1 .. n - 1 : v[i] = w[i + (Len(w) + 1 - n)]
  <2>1. IsPushed(v, w, o)
    BY <1>1, PushIs
  <2> QED BY <1>1, <2>1 DEF IsPushed
<1>3. WindowSize \in Nat \ {0} /\ Len(w) \in Nat
  BY DEF ViolationConstants
<1>4. ASSUME NEW i \in 1 .. n, v[i] PROVE i = n
  <2> SUFFICES ASSUME i < n PROVE FALSE
    BY <1>2, <1>4
  <2>1. i \in 1 .. n - 1 /\ i + (Len(w) + 1 - n) \in 1 .. Len(w)
    BY <1>1, <1>2, <1>3 DEF Grown
  <2>2. ~w[i + (Len(w) + 1 - n)]
    BY <2>1 DEF Absent
  <2> QED BY <1>2, <1>4, <2>1, <2>2
<1>5. HitPlaces(v) \subseteq {n}
  BY <1>2, <1>4 DEF HitPlaces
<1>6. IsFiniteSet({n}) /\ Cardinality({n}) = 1
  BY FS_Singleton
<1>7. Cardinality(HitPlaces(v)) <= 1
  BY <1>5, <1>6, FS_Subset
<1> QED BY <1>1, <1>2, <1>7, HitsAre

LEMMA CoversAbsent ==
    ASSUME NEW w, NEW s, Covers(w, s), Absent(s)
    PROVE  Absent(w)
<1> SUFFICES ASSUME NEW i \in 1 .. Len(w), w[i] PROVE FALSE
  BY DEF Absent
<1>1. Len(w) \in Nat /\ Len(s) \in Nat /\ Len(w) <= Len(s)
  BY DEF Covers
<1>2. PICK j : j = i + (Len(s) - Len(w))
  OBVIOUS
<1>3. j \in 1 .. Len(s) /\ j > Len(s) - Len(w) /\ j - (Len(s) - Len(w)) = i
  BY <1>1, <1>2
<1>4. s[j]
  BY <1>3 DEF Covers
<1> QED BY <1>3, <1>4 DEF Absent

LEMMA AbsentPush ==
    ASSUME ViolationConstants, NEW s, s \in Seq(BOOLEAN), Len(s) <= WindowSize, Absent(s)
    PROVE  Absent(Violations!Push(s, FALSE))
<1>1. PICK t, n : t = Violations!Push(s, FALSE) /\ n = Grown(Len(s))
  OBVIOUS
<1>2. /\ t \in Seq(BOOLEAN) /\ Len(t) = n /\ n \in 1 .. WindowSize /\ t[n] = FALSE
      /\ \A i \in 1 .. n - 1 : t[i] = s[i + (Len(s) + 1 - n)]
  <2>1. IsPushed(t, s, FALSE)
    BY <1>1, PushIs
  <2> QED BY <1>1, <2>1 DEF IsPushed
<1>3. WindowSize \in Nat \ {0} /\ Len(s) \in Nat
  BY DEF ViolationConstants
<1>4. ASSUME NEW i \in 1 .. n PROVE ~t[i]
  <2>1. CASE i = n
    BY <1>2, <2>1
  <2>2. CASE i < n
    <3>1. i \in 1 .. n - 1 /\ i + (Len(s) + 1 - n) \in 1 .. Len(s)
      BY <1>1, <1>2, <1>3, <2>2 DEF Grown
    <3> QED BY <1>2, <3>1 DEF Absent
  <2> QED BY <1>2, <2>1, <2>2
<1> QED BY <1>1, <1>2, <1>4 DEF Absent

(* A window that is dropped, or was never begun, covers what was absent.   *)
LEMMA CoversAbsence ==
    ASSUME ViolationConstants, NEW s, Covers(<<>>, s)
    PROVE  Covers(<<>>, Violations!Push(s, FALSE))
<1>1. <<>> \in Seq(BOOLEAN) /\ Len(<<>>) = 0 /\ Absent(<<>>) /\ Len(<<>>) <= WindowSize
  BY DEF Absent, ViolationConstants
<1>2. Covers(Violations!Push(<<>>, FALSE), Violations!Push(s, FALSE))
  BY CoversPush
<1>3. Absent(Violations!Push(<<>>, FALSE))
  BY <1>1, AbsentPush
<1> QED BY <1>2, <1>3, CoversNothing

-----------------------------------------------------------------------------
(* A frame.                                                                *)
LEMMA FreshNotSkipped ==
    ASSUME NEW r, NEW p \in Violations!Plan, Violations!Fresh(r, p)
    PROVE  ~Violations!Skipped(r, p)
<1>1. p.fall => p.partial = "no"
  BY DEF Violations!Plan
<1> QED BY <1>1 DEF Violations!Fresh, Violations!Skipped, Violations!Refreshed

LEMMA PlanBegun ==
    ASSUME NEW p \in Violations!Plan
    PROVE  p # Violations!Between
<1>1. p.open = TRUE
  BY DEF Violations!Plan
<1>2. Violations!Between.open = FALSE
  BY DEF Violations!Between
<1> QED BY <1>1, <1>2

LEMMA SeenAre ==
    ASSUME NEW p, NEW found, Violations!Witness(p, found)
    PROVE  /\ seen' = [r \in Rule |-> seen'[r]]
           /\ \A r \in Rule :
                seen'[r] = IF Violations!Fresh(r, p) THEN Violations!Push(seen[r], r \in found) ELSE seen[r]
BY DEF Violations!Witness, Violations!Fresh, Violations!Refreshed

LEMMA AnchorsAre ==
    ASSUME ViolationConstants, ViolationTyped, NEW p, NEW found \in SUBSET Rule, \A r \in found : Violations!Fresh(r, p),
           NEW happening, anchor' = Violations!Anchors(p, found, happening)
    PROVE  /\ DOMAIN anchor' \subseteq Rule
           /\ \A r \in Rule :
                /\ ~Violations!Fresh(r, p) =>
                      (r \in DOMAIN anchor' <=> r \in DOMAIN anchor) /\ Anchored(r)' = Anchored(r)
                /\ Violations!Fresh(r, p) /\ r \notin found => r \notin DOMAIN anchor'
                /\ r \in found \ happening => r \in DOMAIN anchor' /\ anchor'[r] = Grown(Anchored(r))
<1> DEFINE tracked == DOMAIN anchor \cup found
           ended == {r \in tracked : Violations!Fresh(r, p) /\ (r \notin found \/ r \in happening)}
           kept == {r \in tracked \ ended : r \in DOMAIN anchor \/ Violations!Fresh(r, p)}
<1>1. anchor' = [r \in kept |->
                    IF r \notin DOMAIN anchor THEN 1
                    ELSE IF Violations!Fresh(r, p) /\ anchor[r] < WindowSize THEN anchor[r] + 1 ELSE anchor[r]]
  BY DEF Violations!Anchors
<1>2. DOMAIN anchor' = kept
  BY <1>1
<1>3. ASSUME NEW r \in Rule, ~Violations!Fresh(r, p)
      PROVE  (r \in DOMAIN anchor' <=> r \in DOMAIN anchor) /\ Anchored(r)' = Anchored(r)
  <2>1. r \in kept <=> r \in DOMAIN anchor
    BY <1>3
  <2>2. r \in kept => anchor'[r] = anchor[r]
    BY <1>1, <1>3, <2>1
  <2> QED BY <1>2, <2>1, <2>2 DEF Anchored
<1>4. ASSUME NEW r \in found \ happening
      PROVE  r \in DOMAIN anchor' /\ anchor'[r] = Grown(Anchored(r))
  <2>1. r \in kept /\ Violations!Fresh(r, p)
    BY <1>4
  <2>2. anchor'[r] = IF r \notin DOMAIN anchor THEN 1
                     ELSE IF anchor[r] < WindowSize THEN anchor[r] + 1 ELSE anchor[r]
    BY <1>1, <2>1
  <2>3. r \notin DOMAIN anchor => Grown(Anchored(r)) = 1
    BY DEF Grown, Anchored, ViolationConstants
  <2> QED BY <1>2, <2>1, <2>2, <2>3 DEF Grown, Anchored
<1>5. DOMAIN anchor' \subseteq Rule
  BY <1>2 DEF ViolationTyped
<1> QED BY <1>2, <1>3, <1>4, <1>5

(* What a frame does to the observations of one rule.                      *)
LEMMA RuleObserved ==
    ASSUME ViolationConstants, ViolationTyped, NEW p \in Violations!Plan, NEW found \in SUBSET Rule,
           \A r \in found : Violations!Fresh(r, p),
           Violations!Witness(p, found),
           NEW happening, anchor' = Violations!Anchors(p, found, happening),
           confirmed' \subseteq confirmed, confirmed' \subseteq happening, happening \subseteq confirmed',
           NEW r \in Rule, RuleOK(r),
           r \in found => r \notin confirmed'
    PROVE  /\ IsRun(seen'[r], Anchored(r)')
           /\ r \in DOMAIN anchor' => anchor'[r] # 0
           /\ r \in confirmed' => Absent(seen'[r])
           /\ r \in found => r \in DOMAIN anchor'
<1>1. /\ seen[r] \in Seq(BOOLEAN) /\ Len(seen[r]) <= WindowSize
      /\ IsRun(seen[r], Anchored(r)) /\ (r \in confirmed => Absent(seen[r]))
      /\ (r \in DOMAIN anchor => anchor[r] # 0)
  BY DEF RuleOK, Covers
<1>2. CASE ~Violations!Fresh(r, p)
  <2>1. r \notin found /\ seen'[r] = seen[r]
    BY <1>2, SeenAre
  <2>2. (r \in DOMAIN anchor' <=> r \in DOMAIN anchor) /\ Anchored(r)' = Anchored(r)
    BY <1>2, AnchorsAre
  <2>3. r \in DOMAIN anchor' => anchor'[r] # 0
    BY <1>1, <2>2 DEF Anchored
  <2> QED BY <1>1, <2>1, <2>2, <2>3
<1>3. CASE Violations!Fresh(r, p) /\ r \notin found
  <2>1. seen'[r] = Violations!Push(seen[r], FALSE)
    <3>1. seen'[r] = Violations!Push(seen[r], r \in found)
      BY <1>3, SeenAre
    <3>2. (r \in found) = FALSE
      BY <1>3
    <3> QED BY <3>1, <3>2
  <2>2. r \notin DOMAIN anchor'
    BY <1>3, AnchorsAre
  <2>3. Anchored(r)' = 0
    BY <2>2 DEF Anchored
  <2>4. IsRun(seen'[r], 0)
    BY <1>1, <2>1, RunPush
  <2>5. r \in confirmed => Absent(seen'[r])
    BY <1>1, <2>1, AbsentPush
  <2> QED BY <1>3, <2>2, <2>3, <2>4, <2>5
<1>4. CASE r \in found
  <2>1. seen'[r] = Violations!Push(seen[r], TRUE)
    <3>1. seen'[r] = Violations!Push(seen[r], r \in found)
      BY <1>4, SeenAre
    <3>2. (r \in found) = TRUE
      BY <1>4
    <3> QED BY <3>1, <3>2
  <2>2. r \in DOMAIN anchor' /\ anchor'[r] = Grown(Anchored(r)) /\ r \notin confirmed'
    BY <1>4, AnchorsAre
  <2>3. Anchored(r)' = Grown(Anchored(r))
    BY <2>2 DEF Anchored
  <2>4. IsRun(seen'[r], Grown(Anchored(r)))
    BY <1>1, <2>1, RunPush
  <2>5. Grown(Anchored(r)) # 0
    BY <1>1 DEF Grown, IsRun, ViolationConstants
  <2> QED BY <2>2, <2>3, <2>4, <2>5
<1> QED BY <1>2, <1>3, <1>4

(* After something was seen.                                               *)
LEMMA ObserveHolds ==
    ASSUME ViolationConstants, ViolationInv, NEW p \in Violations!Plan, NEW found \in Violations!Found(p),
           Violations!Observe(p, found)
    PROVE  ViolationInv'
<1> DEFINE windows == Violations!Advance(p, found)
           over == Violations!Over(p, windows)
<1>1. /\ found \subseteq Rule /\ \A r \in found : Violations!Fresh(r, p)
  BY DEF Violations!Found
<1>2. /\ plan' = p /\ observed' = windows /\ confirmed' = confirmed \ over /\ todo' = found
      /\ anchor' = Violations!Anchors(p, found, confirmed \ over)
      /\ Violations!Witness(p, found)
  BY DEF Violations!Observe
<1>3. DOMAIN observed' = DOMAIN observed \cup found
  BY <1>2 DEF Violations!Advance
<1>4. ASSUME NEW r \in DOMAIN observed'
      PROVE  observed'[r] = IF Violations!Fresh(r, p) THEN Violations!Push(Violations!Windowed(r), r \in found)
                          ELSE Violations!Windowed(r)
  BY <1>2, <1>3, <1>4 DEF Violations!Advance
<1>5. ViolationTyped'
  <2>1. p # Violations!Between
    BY PlanBegun
  <2>2. DOMAIN anchor' \subseteq Rule
    BY <1>1, <1>2, AnchorsAre DEF ViolationInv
  <2>3. seen' = [r \in Rule |-> seen'[r]]
    BY <1>2, SeenAre
  <2>4. DOMAIN observed' \subseteq Rule /\ confirmed' \subseteq Rule /\ todo' \subseteq Rule /\ plan' # Violations!Between
    BY <1>1, <1>2, <1>3, <2>1 DEF ViolationInv, ViolationTyped
  <2> QED BY <2>2, <2>3, <2>4 DEF ViolationTyped, Violations!Between
<1>6. ASSUME NEW r \in found PROVE r \notin confirmed'
  <2> SUFFICES ASSUME r \in confirmed PROVE r \in over
    BY <1>2
  <2>1. /\ RuleOK(r) /\ Absent(seen[r]) /\ Covers(Violations!Windowed(r), seen[r])
    BY <1>1, <1>6 DEF ViolationInv, RuleOK
  <2>2. Absent(Violations!Windowed(r))
    BY <2>1, CoversAbsent
  <2>3. Violations!Windowed(r) \in Seq(BOOLEAN) /\ Len(Violations!Windowed(r)) <= WindowSize
    BY <2>1 DEF Covers, ViolationConstants
  <2>4. windows[r] = Violations!Push(Violations!Windowed(r), r \in found) /\ (r \in found) \in BOOLEAN
    BY <1>1, <1>2, <1>3, <1>4, <1>6
  <2>5. Violations!Hits(windows[r]) < 2
    BY <2>2, <2>3, <2>4, FirstHit
  <2>6. ~Violations!Skipped(r, p)
    BY <1>1, <1>6, FreshNotSkipped
  <2> HIDE DEF windows
  <2> QED BY <2>5, <2>6 DEF Violations!Over
<1>7. ASSUME NEW r \in Rule PROVE Covers(Violations!Windowed(r)', seen'[r])
  <2>1. Covers(Violations!Windowed(r), seen[r])
    BY DEF ViolationInv, RuleOK
  <2>2. seen'[r] = IF Violations!Fresh(r, p) THEN Violations!Push(seen[r], r \in found) ELSE seen[r]
    BY <1>2, SeenAre
  <2>3. CASE r \in DOMAIN observed'
    <3>1. Violations!Windowed(r)' = observed'[r]
      BY <2>3 DEF Violations!Windowed
    <3>2. (r \in found) \in BOOLEAN
      OBVIOUS
    <3>3. Covers(Violations!Push(Violations!Windowed(r), r \in found), Violations!Push(seen[r], r \in found))
      BY <2>1, <3>2, CoversPush
    <3> QED BY <1>4, <2>1, <2>2, <2>3, <3>1, <3>3
  <2>4. CASE r \notin DOMAIN observed'
    <3>1. Violations!Windowed(r)' = <<>> /\ Violations!Windowed(r) = <<>> /\ (r \in found) = FALSE
      BY <1>3, <2>4 DEF Violations!Windowed
    <3>2. Covers(<<>>, Violations!Push(seen[r], FALSE))
      BY <2>1, <3>1, CoversAbsence
    <3> QED BY <2>1, <2>2, <3>1, <3>2
  <2> QED BY <2>3, <2>4
<1>8. ASSUME NEW r \in Rule PROVE RuleOK(r)'
  <2>1. ViolationTyped /\ RuleOK(r) /\ confirmed' \subseteq confirmed
    BY <1>2 DEF ViolationInv
  <2>2. /\ IsRun(seen'[r], Anchored(r)')
        /\ r \in DOMAIN anchor' => anchor'[r] # 0
        /\ r \in confirmed' => Absent(seen'[r])
        /\ r \in found => r \in DOMAIN anchor'
    BY <1>1, <1>2, <1>6, <2>1, RuleObserved
  <2> QED BY <1>2, <1>7, <2>2 DEF RuleOK, Absent
<1> QED BY <1>5, <1>8 DEF ViolationInv

(* After nothing was seen.                                                 *)
LEMMA ObserveEmptyHolds ==
    ASSUME ViolationConstants, ViolationInv, NEW p \in Violations!Plan, Violations!ObserveEmpty(p)
    PROVE  ViolationInv'
<1> DEFINE pushed == [r \in DOMAIN observed |->
                         IF Violations!Fresh(r, p) THEN Violations!Push(observed[r], FALSE) ELSE observed[r]]
           cleared == {r \in DOMAIN observed : Violations!Fresh(r, p) /\ Violations!Hits(pushed[r]) = 0}
<1>1. /\ plan = Violations!Between /\ UNCHANGED <<plan, todo>> /\ todo = {}
      /\ observed' = [r \in DOMAIN observed \ cleared |-> pushed[r]] /\ confirmed' = confirmed \ cleared
      /\ anchor' = Violations!Anchors(p, {}, confirmed \ cleared)
      /\ Violations!Witness(p, {})
  BY DEF Violations!ObserveEmpty, ViolationInv, ViolationTyped
<1>2. DOMAIN observed' = DOMAIN observed \ cleared
  BY <1>1
<1>3. ViolationTyped'
  <2>1. DOMAIN anchor' \subseteq Rule
    BY <1>1, AnchorsAre DEF ViolationInv
  <2>2. seen' = [r \in Rule |-> seen'[r]]
    BY <1>1, SeenAre
  <2>3. DOMAIN observed' \subseteq Rule /\ confirmed' \subseteq Rule /\ todo' = {}
    BY <1>1, <1>2 DEF ViolationInv, ViolationTyped
  <2> QED BY <2>1, <2>2, <2>3 DEF ViolationTyped
<1>4. ASSUME NEW r \in Rule PROVE Covers(Violations!Windowed(r)', seen'[r])
  <2>1. Covers(Violations!Windowed(r), seen[r])
    BY DEF ViolationInv, RuleOK
  <2>2. seen'[r] = IF Violations!Fresh(r, p) THEN Violations!Push(seen[r], FALSE) ELSE seen[r]
    <3>1. (r \in {}) = FALSE
      OBVIOUS
    <3>2. seen'[r] = IF Violations!Fresh(r, p) THEN Violations!Push(seen[r], r \in {}) ELSE seen[r]
      BY <1>1, SeenAre
    <3> QED BY <3>1, <3>2
  <2>3. CASE r \notin DOMAIN observed
    <3>1. Violations!Windowed(r)' = <<>> /\ Violations!Windowed(r) = <<>>
      BY <1>2, <2>3 DEF Violations!Windowed
    <3> QED BY <2>1, <2>2, <3>1, CoversAbsence
  <2>4. CASE r \in DOMAIN observed
    <3>1. Violations!Windowed(r) = observed[r]
      BY <2>4 DEF Violations!Windowed
    <3>2. pushed[r] = IF Violations!Fresh(r, p) THEN Violations!Push(observed[r], FALSE) ELSE observed[r]
      BY <2>4
    <3>3. Covers(pushed[r], seen'[r])
      BY <2>1, <2>2, <3>1, <3>2, CoversPush
    <3>4. CASE r \in cleared
      <4>1. Violations!Hits(pushed[r]) = 0 /\ pushed[r] \in Seq(BOOLEAN)
        BY <3>3, <3>4 DEF Covers
      <4>2. Absent(pushed[r])
        BY <4>1, HitsAre
      <4>3. Violations!Windowed(r)' = <<>>
        BY <1>2, <3>4 DEF Violations!Windowed
      <4> QED BY <3>3, <4>2, <4>3, CoversNothing
    <3>5. CASE r \notin cleared
      <4>1. Violations!Windowed(r)' = pushed[r]
        BY <1>1, <1>2, <2>4, <3>5 DEF Violations!Windowed
      <4> QED BY <3>3, <4>1
    <3> QED BY <3>4, <3>5
  <2> QED BY <2>3, <2>4
<1>5. ASSUME NEW r \in Rule PROVE RuleOK(r)'
  <2>1. ViolationTyped /\ RuleOK(r) /\ confirmed' \subseteq confirmed
    BY <1>1 DEF ViolationInv
  <2>2. /\ IsRun(seen'[r], Anchored(r)')
        /\ r \in DOMAIN anchor' => anchor'[r] # 0
        /\ r \in confirmed' => Absent(seen'[r])
    <3>1. /\ {} \in SUBSET Rule /\ (\A q \in {} : Violations!Fresh(q, p)) /\ (r \in {} => r \notin confirmed')
      OBVIOUS
    <3>2. anchor' = Violations!Anchors(p, {}, confirmed') /\ Violations!Witness(p, {})
      BY <1>1
    <3>3. confirmed' \subseteq confirmed'
      OBVIOUS
    <3> QED BY <2>1, <3>1, <3>2, <3>3, RuleObserved
  <2> QED BY <1>1, <1>4, <2>2 DEF RuleOK, Absent
<1> QED BY <1>3, <1>5 DEF ViolationInv

-----------------------------------------------------------------------------
(* A candidate.                                                            *)
LEMMA AdmitHolds ==
    ASSUME ViolationConstants, ViolationInv, NEW r \in Rule, NEW scheduled, NEW admitted,
           Violations!Admit(r, scheduled, admitted)
    PROVE  ViolationInv'
<1>1. /\ todo' = todo \ {r} /\ confirmed' = confirmed \cup {r} /\ UNCHANGED plan
      /\ observed' = [observed EXCEPT ![r] = <<>>]
      /\ anchor' = [s \in DOMAIN anchor \ {r} |-> anchor[s]]
      /\ seen' = [seen EXCEPT ![r] = <<>>]
  BY DEF Violations!Admit, Violations!NextCandidate
<1>2. ViolationTyped'
  BY <1>1 DEF ViolationInv, ViolationTyped
<1>3. RuleOK(r)'
  <2>1. seen'[r] = <<>> /\ Violations!Windowed(r)' = <<>>
    BY <1>1 DEF ViolationInv, ViolationTyped, Violations!Windowed
  <2>2. r \notin DOMAIN anchor' /\ r \notin todo'
    BY <1>1
  <2>3. Covers(<<>>, <<>>) /\ IsRun(<<>>, 0) /\ Absent(<<>>)
    BY DEF Covers, IsRun, Absent, ViolationConstants
  <2> QED BY <2>1, <2>2, <2>3 DEF RuleOK, Anchored, Absent
<1>4. ASSUME NEW s \in Rule, s # r PROVE RuleOK(s)'
  <2>1. seen'[s] = seen[s] /\ Violations!Windowed(s)' = Violations!Windowed(s)
    BY <1>1, <1>4 DEF ViolationInv, ViolationTyped, Violations!Windowed
  <2>2. (s \in DOMAIN anchor' <=> s \in DOMAIN anchor) /\ (s \in DOMAIN anchor => anchor'[s] = anchor[s])
    BY <1>1, <1>4
  <2>3. (s \in confirmed' <=> s \in confirmed) /\ (s \in todo' <=> s \in todo)
    BY <1>1, <1>4
  <2>4. RuleOK(s) /\ Anchored(s)' = Anchored(s)
    BY <2>2 DEF ViolationInv, Anchored
  <2> QED BY <2>1, <2>2, <2>3, <2>4 DEF RuleOK, Absent
<1> QED BY <1>2, <1>3, <1>4 DEF ViolationInv

(* A candidate that is passed over, or loses its alert.                    *)
LEMMA PassedHolds ==
    ASSUME ViolationInv, todo' \subseteq todo, UNCHANGED <<observed, confirmed, anchor, plan, seen>>
    PROVE  ViolationInv'
<1>1. ViolationTyped'
  BY DEF ViolationInv, ViolationTyped
<1>2. ASSUME NEW r \in Rule PROVE RuleOK(r)'
  BY DEF ViolationInv, RuleOK, Violations!Windowed, Anchored, Absent, Covers, IsRun
<1> QED BY <1>1, <1>2 DEF ViolationInv

LEMMA CandidateHolds ==
    ASSUME ViolationConstants, ViolationInv, NEW r \in Rule, Violations!Candidate(r)
    PROVE  ViolationInv'
<1>1. CASE Violations!Pass(r)
  BY <1>1, PassedHolds DEF Violations!Pass, Violations!NextCandidate
<1>2. ASSUME NEW scheduled, Violations!Suppress(r, scheduled) PROVE ViolationInv'
  BY <1>2, PassedHolds DEF Violations!Suppress, Violations!NextCandidate
<1>3. ASSUME NEW scheduled, Violations!Refuse(r, scheduled) PROVE ViolationInv'
  BY <1>3, PassedHolds DEF Violations!Refuse, Violations!NextCandidate
<1> QED BY <1>1, <1>2, <1>3, AdmitHolds DEF Violations!Candidate

LEMMA CloseFrameHolds ==
    ASSUME ViolationConstants, ViolationInv, Violations!CloseFrame
    PROVE  ViolationInv'
<1> DEFINE kept == {s \in DOMAIN observed :
                       Violations!Skipped(s, plan) \/ Len(observed[s]) < WindowSize \/ Violations!Hits(observed[s]) > 0}
<1>1. /\ todo = {} /\ todo' = {} /\ observed' = [r \in kept |-> observed[r]] /\ UNCHANGED <<confirmed, anchor, seen>>
  BY DEF Violations!CloseFrame
<1>2. ViolationTyped'
  BY <1>1 DEF ViolationInv, ViolationTyped
<1>3. ASSUME NEW r \in Rule PROVE RuleOK(r)'
  <2>1. RuleOK(r) /\ Covers(Violations!Windowed(r), seen[r])
    BY DEF ViolationInv, RuleOK
  <2>2. CASE r \in kept \/ r \notin DOMAIN observed
    <3>1. Violations!Windowed(r)' = Violations!Windowed(r)
      BY <1>1, <2>2 DEF Violations!Windowed
    <3> QED BY <1>1, <2>1, <3>1 DEF RuleOK, Anchored, Absent
  <2>3. CASE r \in DOMAIN observed \ kept
    <3>1. Violations!Windowed(r)' = <<>> /\ Violations!Windowed(r) = observed[r]
      BY <1>1, <2>3 DEF Violations!Windowed
    <3>2. observed[r] \in Seq(BOOLEAN)
      BY <2>1, <3>1 DEF Covers
    <3>3. Violations!Hits(observed[r]) = 0
      BY <2>3, <3>2, HitsAre
    <3>4. Covers(<<>>, seen[r])
      BY <2>1, <3>1, <3>2, <3>3, HitsAre, CoversNothing
    <3> QED BY <1>1, <2>1, <3>1, <3>4 DEF RuleOK, Anchored, Absent
  <2> QED BY <2>2, <2>3
<1> QED BY <1>2, <1>3 DEF ViolationInv

LEMMA ForgetHolds ==
    ASSUME ViolationConstants, ViolationInv, Violations!Forget, todo' = {}
    PROVE  ViolationInv'
<1>1. /\ observed' = <<>> /\ confirmed' = {} /\ anchor' = <<>> /\ seen' = [r \in Rule |-> <<>>]
  BY DEF Violations!Forget
<1>2. DOMAIN <<>> = {}
  OBVIOUS
<1>3. ViolationTyped'
  BY <1>1, <1>2 DEF ViolationTyped
<1>4. Covers(<<>>, <<>>) /\ IsRun(<<>>, 0)
  BY DEF Covers, IsRun, ViolationConstants
<1>5. ASSUME NEW r \in Rule PROVE RuleOK(r)'
  <2>1. seen'[r] = <<>> /\ Violations!Windowed(r)' = <<>> /\ Anchored(r)' = 0
    BY <1>1, <1>2 DEF Violations!Windowed, Anchored
  <2> QED BY <1>1, <1>2, <1>4, <2>1 DEF RuleOK
<1> QED BY <1>3, <1>5 DEF ViolationInv

LEMMA ViolationsBegin ==
    ASSUME ViolationConstants, Violations!Init
    PROVE  ViolationInv
<1>1. /\ observed = <<>> /\ confirmed = {} /\ anchor = <<>> /\ todo = {} /\ seen = [r \in Rule |-> <<>>]
  BY DEF Violations!Init
<1>2. DOMAIN <<>> = {}
  OBVIOUS
<1>3. ViolationTyped
  BY <1>1, <1>2 DEF ViolationTyped
<1>4. Covers(<<>>, <<>>) /\ IsRun(<<>>, 0)
  BY DEF Covers, IsRun, ViolationConstants
<1>5. ASSUME NEW r \in Rule PROVE RuleOK(r)
  <2>1. seen[r] = <<>> /\ Violations!Windowed(r) = <<>> /\ Anchored(r) = 0
    BY <1>1, <1>2 DEF Violations!Windowed, Anchored
  <2> QED BY <1>1, <1>2, <1>4, <2>1 DEF RuleOK
<1> QED BY <1>3, <1>5 DEF ViolationInv

LEMMA ViolationsNext ==
    ASSUME ViolationConstants, ViolationInv, [Violations!Next]_(Violations!vars)
    PROVE  ViolationInv'
<1>1. ASSUME NEW p \in Violations!Plan, Violations!Frame(p) PROVE ViolationInv'
  BY <1>1, ObserveHolds, ObserveEmptyHolds DEF Violations!Frame
<1>2. ASSUME NEW r \in Rule, Violations!Candidate(r) PROVE ViolationInv'
  BY <1>2, CandidateHolds
<1>3. CASE Violations!CloseFrame
  BY <1>3, CloseFrameHolds
<1>4. ASSUME NEW x, Violations!Lapse(x) PROVE ViolationInv'
  BY <1>4, PassedHolds DEF Violations!Lapse
<1>5. CASE Violations!Reconnect
  <2>1. todo' = {}
    BY <1>5 DEF Violations!Reconnect, ViolationInv, ViolationTyped
  <2> QED BY <1>5, <2>1, ForgetHolds DEF Violations!Reconnect
<1>6. CASE Violations!Restart
  BY <1>6, ForgetHolds DEF Violations!Restart
<1>7. CASE UNCHANGED Violations!vars
  BY <1>7, PassedHolds DEF Violations!vars
<1> QED BY <1>1, <1>2, <1>3, <1>4, <1>5, <1>6, <1>7 DEF Violations!Next

LEMMA StepJustified ==
    ASSUME ViolationConstants, ViolationInv, [Violations!Next]_(Violations!vars)
    PROVE  Violations!Justified
<1> SUFFICES ASSUME NEW r \in confirmed' \ confirmed
             PROVE  /\ Violations!Hits(seen[r]) >= Threshold[r]
                    /\ r \in DOMAIN anchor
                    /\ anchor[r] = Violations!Run(seen[r])
  BY DEF Violations!Justified
<1>1. PICK c, scheduled, admitted : c \in Rule /\ Violations!Admit(c, scheduled, admitted)
  <2>1. ASSUME NEW p, Violations!Frame(p) PROVE FALSE
    BY <2>1 DEF Violations!Frame, Violations!Observe, Violations!ObserveEmpty
  <2>2. ~Violations!CloseFrame /\ ~Violations!Reconnect /\ ~Violations!Restart
    BY DEF Violations!CloseFrame, Violations!Reconnect, Violations!Restart, Violations!Forget
  <2>3. (\A x : ~Violations!Lapse(x)) /\ ~UNCHANGED Violations!vars
    BY DEF Violations!Lapse, Violations!vars
  <2>4. PICK c \in Rule : Violations!Candidate(c)
    BY <2>1, <2>2, <2>3 DEF Violations!Next
  <2>5. ~Violations!Pass(c) /\ \A scheduled : ~Violations!Suppress(c, scheduled) /\ ~Violations!Refuse(c, scheduled)
    BY DEF Violations!Pass, Violations!Suppress, Violations!Refuse
  <2> QED BY <2>4, <2>5 DEF Violations!Candidate
<1>2. r \in Rule /\ r \in todo /\ ~Violations!Unconfirmed(r)
  BY <1>1 DEF Violations!Admit, Violations!NextCandidate
<1>3. /\ Covers(Violations!Windowed(r), seen[r]) /\ IsRun(seen[r], Anchored(r)) /\ r \in DOMAIN anchor
      /\ seen[r] \in Seq(BOOLEAN) /\ Violations!Windowed(r) \in Seq(BOOLEAN) /\ Threshold[r] \in Nat
  BY <1>2 DEF ViolationInv, RuleOK, Covers, ViolationConstants
<1>4. ~(Violations!Hits(Violations!Windowed(r)) < Threshold[r])
  BY <1>2 DEF Violations!Unconfirmed
<1>5. Violations!Hits(seen[r]) >= Threshold[r]
  BY <1>3, <1>4, CoversHits, HitsAre
<1>6. anchor[r] = Violations!Run(seen[r])
  BY <1>3, RunIs DEF Anchored
<1> QED BY <1>3, <1>5, <1>6

(* Every alert of a camera has its confirmations among the last fresh      *)
(* observations of its rule since the previous alert, whatever plans ran   *)
(* and whatever windows were dropped in between, and names the beginning   *)
(* of the run that led to it: AlertJustified of ViolationIncidents.        *)
THEOREM AlertsAreJustified == ASSUME ViolationConstants PROVE Violations!Spec => Violations!AlertJustified
<1>1. Violations!Init => ViolationInv
  BY ViolationsBegin
<1>2. ViolationInv /\ [Violations!Next]_(Violations!vars) => ViolationInv'
  BY ViolationsNext
<1>3. ViolationInv /\ [Violations!Next]_(Violations!vars) => [Violations!Justified]_(Violations!vars)
  BY StepJustified
<1> QED BY <1>1, <1>2, <1>3, PTL DEF Violations!Spec, Violations!AlertJustified

-----------------------------------------------------------------------------
(* MjpegFanout.                                                            *)
FanoutConstants ==
    /\ IsFiniteSet(Viewer)
    /\ MaxChannels \in Nat /\ MaxSequence \in Nat /\ LimitPerCamera \in Nat /\ LimitTotal \in Nat

ChannelType == [sequence : Nat, jpeg : Nat, chunk : Nat, subscribers : SUBSET Viewer, retired : BOOLEAN]
ViewerType ==
    [pc : {"away", "ready", "waiting", "sending", "lost"}, on : 0 .. MaxChannels, last : Nat, frame : Nat]

FanoutTyped ==
    /\ channel \in [1 .. MaxChannels -> ChannelType]
    /\ viewer \in [Viewer -> ViewerType]
    /\ current \in 0 .. MaxChannels

Subscribed == UNION {channel[n].subscribers : n \in 1 .. MaxChannels}

(* A viewer is subscribed to the channel it is on, and to it unless its    *)
(* loop has closed.                                                        *)
WatchesOne ==
    \A v \in Viewer :
        /\ \A n \in 1 .. MaxChannels : v \in channel[n].subscribers => viewer[v].pc # "away" /\ viewer[v].on = n
        /\ viewer[v].pc # "away" => viewer[v].on \in 1 .. MaxChannels
        /\ viewer[v].pc \notin {"away", "lost"} => v \in channel[viewer[v].on].subscribers

(* The frame in a channel, and what its viewers have seen of it.           *)
Sound(c) ==
    /\ c.chunk \in {0, c.jpeg}
    /\ c.sequence <= MaxSequence + 1 /\ (~c.retired => c.sequence <= MaxSequence)
Seen(w, c) ==
    /\ w.last <= c.sequence \/ w.last = MaxSequence + 2
    /\ w.last = c.sequence /\ c.jpeg # 0 => w.frame = c.jpeg
NewestSeen ==
    /\ \A n \in 1 .. MaxChannels : Sound(channel[n])
    /\ \A v \in Viewer : viewer[v].pc \notin {"away", "lost"} => Seen(viewer[v], channel[viewer[v].on])

(* The channels are retired in the order they were created in.             *)
RetiredTo(k) == \A n \in 1 .. MaxChannels : channel[n].retired <=> n <= k
Ordered == \E k \in 0 .. MaxChannels : RetiredTo(k) /\ current \in {0, k + 1}

WithinLimits ==
    /\ count = Cardinality(Subscribed) /\ count <= LimitTotal
    /\ \A n \in 1 .. MaxChannels : Cardinality(channel[n].subscribers) <= LimitPerCamera

FanoutInv == FanoutTyped /\ WatchesOne /\ NewestSeen /\ Ordered /\ WithinLimits

-----------------------------------------------------------------------------
LEMMA FanoutCounts == \A S : Fanout!Cardinality(S) = Cardinality(S)
BY DEF Cardinality, Fanout!Cardinality

LEMMA FanoutFinite ==
    ASSUME FanoutConstants, FanoutTyped
    PROVE  /\ IsFiniteSet(Subscribed) /\ Cardinality(Subscribed) \in Nat
           /\ \A n \in 1 .. MaxChannels : \A S \in SUBSET channel[n].subscribers :
                IsFiniteSet(S) /\ Cardinality(S) \in Nat
<1>1. Subscribed \subseteq Viewer /\ \A n \in 1 .. MaxChannels : channel[n].subscribers \subseteq Viewer
  BY DEF FanoutTyped, Subscribed, ChannelType
<1>2. \A S \in SUBSET Viewer : IsFiniteSet(S) /\ Cardinality(S) \in Nat
  <2> SUFFICES ASSUME NEW S \in SUBSET Viewer PROVE IsFiniteSet(S) /\ Cardinality(S) \in Nat
    OBVIOUS
  <2>1. IsFiniteSet(S)
    BY FS_Subset DEF FanoutConstants
  <2> QED BY <2>1, FS_CardinalityType
<1>3. \A n \in 1 .. MaxChannels : \A S \in SUBSET channel[n].subscribers : S \subseteq Viewer
  BY <1>1
<1> QED BY <1>1, <1>2, <1>3

(* The channel that is used next has not been retired.                     *)
LEMMA UsedInOrder ==
    ASSUME FanoutConstants, FanoutTyped, Ordered, Fanout!Used \in 1 .. MaxChannels
    PROVE  /\ ~channel[Fanout!Used].retired
           /\ \E k \in 0 .. MaxChannels : RetiredTo(k) /\ Fanout!Used = k + 1
<1>1. PICK k \in 0 .. MaxChannels : RetiredTo(k) /\ current \in {0, k + 1}
  BY DEF Ordered
<1>2. k \in Nat /\ MaxChannels \in Nat
  BY <1>1 DEF FanoutConstants
<1>3. Fanout!Created = k
  <2>1. {n \in 1 .. MaxChannels : channel[n].retired} = 1 .. k
    BY <1>1, <1>2 DEF RetiredTo
  <2>2. Cardinality(1 .. k) = k
    BY <1>2, FS_Interval
  <2> QED BY <2>1, <2>2, FanoutCounts DEF Fanout!Created, Fanout!Channel
<1>4. Fanout!Used = k + 1
  BY <1>1, <1>2, <1>3 DEF Fanout!Used
<1> QED BY <1>1, <1>2, <1>4 DEF RetiredTo

LEMMA OrderStays ==
    ASSUME FanoutConstants, FanoutTyped, Ordered,
           \A n \in 1 .. MaxChannels : channel'[n].retired = channel[n].retired,
           current' = current \/ (current' = Fanout!Used /\ Fanout!Used \in 1 .. MaxChannels)
    PROVE  Ordered' /\ current' \in 0 .. MaxChannels
<1>1. CASE current' = current
  BY <1>1 DEF FanoutTyped, Ordered, RetiredTo
<1>2. CASE current' = Fanout!Used /\ Fanout!Used \in 1 .. MaxChannels
  <2>1. PICK k \in 0 .. MaxChannels : RetiredTo(k) /\ Fanout!Used = k + 1
    BY <1>2, UsedInOrder
  <2>2. RetiredTo(k)' /\ current' = k + 1 /\ current' \in 0 .. MaxChannels
    BY <1>2, <2>1 DEF RetiredTo, FanoutConstants
  <2> QED BY <2>2 DEF Ordered
<1> QED BY <1>1, <1>2

LEMMA OrderKept ==
    ASSUME FanoutConstants, FanoutTyped, Ordered,
           \A n \in 1 .. MaxChannels : channel'[n].retired = channel[n].retired, current' = current
    PROVE  Ordered' /\ current' \in 0 .. MaxChannels
BY DEF FanoutTyped, Ordered, RetiredTo

(* A step at one channel that takes nobody in.                             *)
LEMMA ChannelStep ==
    ASSUME FanoutConstants, FanoutInv, NEW n \in 1 .. MaxChannels, NEW x \in ChannelType,
           channel' = [channel EXCEPT ![n] = x], Ordered', current' \in 0 .. MaxChannels, Sound(x),
           x.subscribers \subseteq channel[n].subscribers,
           count' = count - Cardinality(channel[n].subscribers \ x.subscribers),
           viewer' \in [Viewer -> ViewerType],
           \A v \in Viewer :
             \/ /\ viewer'[v].pc = "away" /\ v \notin x.subscribers
                /\ viewer[v].pc = "away" \/ viewer[v].on = n
             \/ /\ viewer[v].pc # "away" /\ viewer'[v].pc # "away" /\ viewer'[v].on = viewer[v].on
                /\ viewer'[v].pc # "lost" =>
                     /\ viewer[v].pc # "lost"
                     /\ viewer[v].on = n => v \in x.subscribers /\ Seen(viewer'[v], x)
                     /\ viewer[v].on # n => viewer'[v].last = viewer[v].last /\ viewer'[v].frame = viewer[v].frame
    PROVE  FanoutInv'
<1>1. /\ channel'[n] = x /\ \A m \in 1 .. MaxChannels : m # n => channel'[m] = channel[m]
      /\ FanoutTyped'
  BY DEF FanoutInv, FanoutTyped
<1>2. WatchesOne'
  <2> SUFFICES ASSUME NEW v \in Viewer
               PROVE  /\ \A m \in 1 .. MaxChannels : v \in channel'[m].subscribers => viewer'[v].pc # "away" /\ viewer'[v].on = m
                      /\ viewer'[v].pc # "away" => viewer'[v].on \in 1 .. MaxChannels
                      /\ viewer'[v].pc \notin {"away", "lost"} => v \in channel'[viewer'[v].on].subscribers
    BY DEF WatchesOne
  <2>1. /\ \A m \in 1 .. MaxChannels : v \in channel[m].subscribers => viewer[v].pc # "away" /\ viewer[v].on = m
        /\ viewer[v].pc # "away" => viewer[v].on \in 1 .. MaxChannels
        /\ viewer[v].pc \notin {"away", "lost"} => v \in channel[viewer[v].on].subscribers
    BY DEF FanoutInv, WatchesOne
  <2>2. \A m \in 1 .. MaxChannels : v \in channel'[m].subscribers => v \in channel[m].subscribers
    BY <1>1
  <2>3. CASE viewer'[v].pc = "away"
    BY <1>1, <2>1, <2>2, <2>3
  <2>4. CASE viewer'[v].pc # "away"
    <3>1. /\ viewer[v].pc # "away" /\ viewer'[v].on = viewer[v].on
          /\ viewer'[v].pc # "lost" => viewer[v].pc # "lost" /\ (viewer[v].on = n => v \in x.subscribers)
      BY <2>4
    <3> QED BY <1>1, <2>1, <2>2, <3>1
  <2> QED BY <2>3, <2>4
<1>3. NewestSeen'
  <2>1. \A m \in 1 .. MaxChannels : Sound(channel'[m])
    BY <1>1 DEF FanoutInv, NewestSeen
  <2>2. ASSUME NEW v \in Viewer, viewer'[v].pc \notin {"away", "lost"}
        PROVE  Seen(viewer'[v], channel'[viewer'[v].on])
    <3>1. /\ viewer[v].pc \notin {"away", "lost"} /\ viewer'[v].on = viewer[v].on
          /\ viewer[v].on \in 1 .. MaxChannels
          /\ viewer[v].on = n => Seen(viewer'[v], x)
          /\ viewer[v].on # n => viewer'[v].last = viewer[v].last /\ viewer'[v].frame = viewer[v].frame
      BY <2>2 DEF FanoutInv, WatchesOne
    <3> QED BY <1>1, <3>1 DEF FanoutInv, NewestSeen, Seen
  <2>3. \A v \in Viewer : (viewer[v].pc \notin {"away", "lost"})' => Seen(viewer[v], channel[viewer[v].on])'
    BY <2>2 DEF Seen
  <2>4. \A m \in 1 .. MaxChannels : Sound(channel[m])'
    BY <2>1 DEF Sound
  <2> QED BY <2>3, <2>4 DEF NewestSeen
<1>4. WithinLimits'
  <2> DEFINE gone == channel[n].subscribers \ x.subscribers
  <2>1. \A m \in 1 .. MaxChannels : m # n => \A v \in gone : v \notin channel[m].subscribers
    <3> SUFFICES ASSUME NEW m \in 1 .. MaxChannels, m # n, NEW v \in gone PROVE v \notin channel[m].subscribers
      OBVIOUS
    <3>1. v \in channel[n].subscribers /\ v \in Viewer /\ n \in 1 .. MaxChannels
      BY DEF FanoutInv, FanoutTyped, ChannelType
    <3>2. viewer[v].on = n
      BY <3>1 DEF FanoutInv, WatchesOne
    <3> QED BY <3>1, <3>2 DEF FanoutInv, WatchesOne
  <2>2. Subscribed' = Subscribed \ gone /\ gone \subseteq Subscribed
    BY <1>1, <2>1 DEF Subscribed
  <2>3. Subscribed \cap gone = gone /\ IsFiniteSet(Subscribed) /\ Cardinality(Subscribed) \in Nat
    BY <2>2, FanoutFinite DEF FanoutInv
  <2>4. Cardinality(Subscribed') = Cardinality(Subscribed) - Cardinality(gone) /\ Cardinality(gone) \in Nat
    <3>1. Cardinality(gone) \in Nat
      BY FanoutFinite DEF FanoutInv
    <3> HIDE DEF gone
    <3>2. Cardinality(Subscribed \ gone) = Cardinality(Subscribed) - Cardinality(Subscribed \cap gone)
      BY <2>3, FS_Difference
    <3> QED BY <2>2, <2>3, <3>1, <3>2
  <2>5. count' = Cardinality(Subscribed') /\ count' <= LimitTotal
    BY <2>3, <2>4 DEF FanoutInv, WithinLimits, FanoutConstants
  <2>6. Cardinality(x.subscribers) <= LimitPerCamera
    <3>1. IsFiniteSet(channel[n].subscribers) /\ Cardinality(channel[n].subscribers) \in Nat
          /\ Cardinality(x.subscribers) \in Nat
      BY FanoutFinite DEF FanoutInv
    <3>2. Cardinality(x.subscribers) <= Cardinality(channel[n].subscribers)
      BY <3>1, FS_Subset
    <3> QED BY <3>1, <3>2 DEF FanoutInv, WithinLimits, FanoutConstants
  <2> QED BY <1>1, <2>5, <2>6 DEF FanoutInv, WithinLimits
<1> QED BY <1>1, <1>2, <1>3, <1>4 DEF FanoutInv

(* The viewers, when a channel changes and none of them moves.             *)
Nobody(n, x) ==
    \A v \in Viewer :
        /\ v \in channel[n].subscribers \ x.subscribers => viewer[v].pc = "lost"
        /\ viewer[v].pc \notin {"away", "lost"} /\ viewer[v].on = n => Seen(viewer[v], x)

LEMMA ViewersStay ==
    ASSUME FanoutConstants, FanoutInv, NEW n \in 1 .. MaxChannels, NEW x \in ChannelType,
           channel' = [channel EXCEPT ![n] = x], Ordered', current' \in 0 .. MaxChannels, Sound(x),
           x.subscribers \subseteq channel[n].subscribers, viewer' = viewer, Nobody(n, x),
           count' = count - Cardinality(channel[n].subscribers \ x.subscribers)
    PROVE  FanoutInv'
<1>1. viewer' \in [Viewer -> ViewerType]
  BY DEF FanoutInv, FanoutTyped
<1>2. ASSUME NEW v \in Viewer
      PROVE  \/ /\ viewer'[v].pc = "away" /\ v \notin x.subscribers
                /\ viewer[v].pc = "away" \/ viewer[v].on = n
             \/ /\ viewer[v].pc # "away" /\ viewer'[v].pc # "away" /\ viewer'[v].on = viewer[v].on
                /\ viewer'[v].pc # "lost" =>
                     /\ viewer[v].pc # "lost"
                     /\ viewer[v].on = n => v \in x.subscribers /\ Seen(viewer'[v], x)
                     /\ viewer[v].on # n => viewer'[v].last = viewer[v].last /\ viewer'[v].frame = viewer[v].frame
  <2>1. CASE viewer[v].pc = "away"
    BY <2>1 DEF FanoutInv, WatchesOne
  <2>2. CASE viewer[v].pc # "away"
    <3>1. viewer[v].pc # "lost" /\ viewer[v].on = n => v \in x.subscribers
      BY <2>2 DEF FanoutInv, WatchesOne, Nobody
    <3> QED BY <2>2, <3>1 DEF Nobody
  <2> QED BY <2>1, <2>2
<1> QED BY <1>1, <1>2, ChannelStep

(* A step of a viewer at a channel that stays as it is.                    *)
LEMMA ViewerStep ==
    ASSUME FanoutInv, UNCHANGED <<channel, current, count>>, viewer' \in [Viewer -> ViewerType],
           \A v \in Viewer :
             /\ viewer'[v].on = viewer[v].on /\ viewer'[v].last = viewer[v].last /\ viewer'[v].frame = viewer[v].frame
             /\ viewer'[v].pc = "away" <=> viewer[v].pc = "away"
             /\ viewer[v].pc = "lost" => viewer'[v].pc = "lost"
    PROVE  FanoutInv'
<1>1. FanoutTyped' /\ Ordered' /\ WithinLimits'
  BY DEF FanoutInv, FanoutTyped, Ordered, RetiredTo, WithinLimits, Subscribed
<1>2. WatchesOne'
  BY DEF FanoutInv, WatchesOne
<1>3. NewestSeen'
  BY DEF FanoutInv, NewestSeen, Sound, Seen
<1> QED BY <1>1, <1>2, <1>3 DEF FanoutInv

(* Nobody's channel changes its frame for a viewer abreast of it.          *)
LEMMA OldFrames ==
    ASSUME FanoutConstants, FanoutInv, NEW n \in 1 .. MaxChannels, NEW x \in ChannelType,
           channel[n].sequence + 1 = x.sequence, x.sequence <= MaxSequence + 1,
           NEW v \in Viewer, viewer[v].pc \notin {"away", "lost"}, viewer[v].on = n
    PROVE  Seen(viewer[v], x)
<1>1. Seen(viewer[v], channel[n]) /\ viewer[v] \in ViewerType /\ channel[n] \in ChannelType
  BY DEF FanoutInv, NewestSeen, FanoutTyped
<1> QED BY <1>1 DEF Seen, ViewerType, ChannelType, FanoutConstants

LEMMA PublishHolds == ASSUME FanoutConstants, FanoutInv, Fanout!Publish PROVE FanoutInv'
<1> PICK n : n = Fanout!Used
  OBVIOUS
<1> DEFINE x == [channel[n] EXCEPT !.sequence = channel[n].sequence + 1, !.jpeg = channel[n].sequence + 1,
                                   !.chunk = IF Fanout!Pruned(n) # {} THEN channel[n].sequence + 1 ELSE 0,
                                   !.subscribers = Fanout!Pruned(n)]
<1>1. /\ n \in 1 .. MaxChannels /\ FanoutTyped /\ Ordered /\ channel[n] \in ChannelType
      /\ channel[n].sequence < MaxSequence /\ channel[n].sequence \in Nat /\ MaxSequence \in Nat
  BY DEF FanoutInv, FanoutTyped, FanoutConstants, Fanout!Publish, Fanout!Channel, ChannelType
<1>2. channel' = [channel EXCEPT ![n] = x] /\ current' = n /\ viewer' = viewer
      /\ count' = count - Cardinality(channel[n].subscribers \cap Fanout!Lost)
  <2>1. count' = count - Fanout!Cardinality(channel[n].subscribers \cap Fanout!Lost)
    BY DEF Fanout!Publish, Fanout!Prune
  <2>2. channel' = [channel EXCEPT ![n] = x]
    BY DEF Fanout!Publish
  <2>3. current' = n /\ viewer' = viewer
    BY DEF Fanout!Publish
  <2> QED BY <2>1, <2>2, <2>3, FanoutCounts
<1>3. /\ x \in ChannelType /\ x.sequence = channel[n].sequence + 1 /\ x.jpeg = channel[n].sequence + 1
      /\ x.chunk \in {0, x.jpeg} /\ x.subscribers = channel[n].subscribers \ Fanout!Lost
      /\ x.retired = channel[n].retired
  <2>1. Fanout!Pruned(n) = channel[n].subscribers \ Fanout!Lost
    BY DEF Fanout!Pruned
  <2>2. Fanout!Pruned(n) \subseteq Viewer
    BY <1>1, <2>1 DEF ChannelType
  <2> PICK chunk : chunk = IF Fanout!Pruned(n) # {} THEN channel[n].sequence + 1 ELSE 0
    OBVIOUS
  <2> PICK sequence : sequence = channel[n].sequence + 1
    OBVIOUS
  <2>3. chunk \in {0, sequence} /\ sequence \in Nat /\ chunk \in Nat
    BY <1>1
  <2>4. x = [channel[n] EXCEPT !.sequence = sequence, !.jpeg = sequence, !.chunk = chunk,
                               !.subscribers = Fanout!Pruned(n)]
    OBVIOUS
  <2> HIDE DEF x
  <2> QED BY <1>1, <2>1, <2>2, <2>3, <2>4 DEF ChannelType
<1> HIDE DEF x
<1>4. Ordered' /\ current' \in 0 .. MaxChannels
  <2>1. \A m \in 1 .. MaxChannels : channel'[m].retired = channel[m].retired
    BY <1>1, <1>2, <1>3 DEF FanoutTyped
  <2> QED BY <1>1, <1>2, <2>1, OrderStays
<1>5. Sound(x)
  BY <1>1, <1>3 DEF Sound
<1>6. channel[n].subscribers \ x.subscribers = channel[n].subscribers \cap Fanout!Lost
  BY <1>3
<1>7. \A v \in Viewer : v \in channel[n].subscribers \ x.subscribers => viewer[v].pc = "lost"
  BY <1>3 DEF Fanout!Lost
<1>8. \A v \in Viewer : viewer[v].pc \notin {"away", "lost"} /\ viewer[v].on = n => Seen(viewer[v], x)
  <2>1. channel[n].sequence + 1 = x.sequence /\ x.sequence <= MaxSequence + 1
    BY <1>1, <1>3
  <2> QED BY <1>1, <1>2, <1>3, <2>1, OldFrames
<1>9. Nobody(n, x)
  BY <1>2, <1>3, <1>7, <1>8 DEF Nobody
<1> QED BY <1>1, <1>2, <1>3, <1>4, <1>5, <1>6, <1>9, ViewersStay

LEMMA ClearHolds == ASSUME FanoutConstants, FanoutInv, Fanout!Clear PROVE FanoutInv'
<1> PICK n : n = current
  OBVIOUS
<1> DEFINE x == [channel[n] EXCEPT !.sequence = channel[n].sequence + 1, !.jpeg = 0, !.chunk = 0]
<1>1. /\ n \in 1 .. MaxChannels /\ FanoutTyped /\ Ordered /\ channel[n] \in ChannelType
      /\ channel[n].sequence < MaxSequence /\ channel[n].sequence \in Nat /\ MaxSequence \in Nat
  BY DEF FanoutInv, FanoutTyped, FanoutConstants, Fanout!Clear, ChannelType
<1>2. channel' = [channel EXCEPT ![n] = x] /\ current' = current /\ viewer' = viewer /\ count' = count
  BY DEF Fanout!Clear
<1>3. /\ x \in ChannelType /\ x.sequence = channel[n].sequence + 1 /\ x.jpeg = 0 /\ x.chunk = 0
      /\ x.subscribers = channel[n].subscribers /\ x.retired = channel[n].retired
  <2> PICK sequence : sequence = channel[n].sequence + 1
    OBVIOUS
  <2>1. sequence \in Nat /\ x = [channel[n] EXCEPT !.sequence = sequence, !.jpeg = 0, !.chunk = 0]
    BY <1>1
  <2> HIDE DEF x
  <2> QED BY <1>1, <2>1 DEF ChannelType
<1> HIDE DEF x
<1>4. Ordered' /\ current' \in 0 .. MaxChannels
  <2>1. \A m \in 1 .. MaxChannels : channel'[m].retired = channel[m].retired
    BY <1>1, <1>2, <1>3 DEF FanoutTyped
  <2> QED BY <1>1, <1>2, <2>1, OrderKept
<1>5. Sound(x)
  BY <1>1, <1>3 DEF Sound
<1>6. x.subscribers \subseteq channel[n].subscribers /\ count' = count - Cardinality(channel[n].subscribers \ x.subscribers)
  <2>1. channel[n].subscribers \ x.subscribers = {} /\ count \in Nat
    BY <1>3, FanoutFinite DEF FanoutInv, WithinLimits
  <2>2. Cardinality(channel[n].subscribers \ x.subscribers) = 0
    BY <2>1, FS_EmptySet
  <2> QED BY <1>2, <1>3, <2>1, <2>2
<1>7. \A v \in Viewer : viewer[v].pc \notin {"away", "lost"} /\ viewer[v].on = n => Seen(viewer[v], x)
  <2>1. channel[n].sequence + 1 = x.sequence /\ x.sequence <= MaxSequence + 1
    BY <1>1, <1>3
  <2> QED BY <1>1, <1>3, <2>1, OldFrames
<1>8. Nobody(n, x)
  BY <1>3, <1>7 DEF Nobody
<1> QED BY <1>1, <1>2, <1>3, <1>4, <1>5, <1>6, <1>8, ViewersStay

(* One subscriber leaves.                                                  *)
Left(v, n) ==
    [channel[n] EXCEPT !.subscribers = channel[n].subscribers \ {v},
                       !.chunk = IF channel[n].subscribers \ {v} = {} THEN 0 ELSE channel[n].chunk]

LEMMA UnsubscribeLeaves ==
    ASSUME FanoutConstants, FanoutInv, NEW v \in Viewer, NEW n \in 1 .. MaxChannels, n = viewer[v].on,
           Fanout!Unsubscribe(v), v \in channel[n].subscribers
    PROVE  /\ channel' = [channel EXCEPT ![n] = Left(v, n)]
           /\ count' = count - Cardinality(channel[n].subscribers \ Left(v, n).subscribers)
           /\ Left(v, n) \in ChannelType /\ Sound(Left(v, n))
           /\ Left(v, n).subscribers = channel[n].subscribers \ {v}
           /\ Left(v, n).sequence = channel[n].sequence /\ Left(v, n).jpeg = channel[n].jpeg
           /\ Left(v, n).retired = channel[n].retired
<1>1. FanoutTyped /\ channel[n] \in ChannelType /\ Sound(channel[n])
  BY DEF FanoutInv, FanoutTyped, NewestSeen
<1>2. channel' = [channel EXCEPT ![n] = Left(v, n)] /\ count' = count - 1
  BY <1>1 DEF Fanout!Unsubscribe, FanoutTyped, Left
<1>3. /\ Left(v, n) \in ChannelType /\ Left(v, n).chunk \in {0, channel[n].chunk}
      /\ Left(v, n).subscribers = channel[n].subscribers \ {v}
      /\ Left(v, n).sequence = channel[n].sequence /\ Left(v, n).jpeg = channel[n].jpeg
      /\ Left(v, n).retired = channel[n].retired
  <2> PICK chunk : chunk = IF channel[n].subscribers \ {v} = {} THEN 0 ELSE channel[n].chunk
    OBVIOUS
  <2>1. chunk \in {0, channel[n].chunk} /\ chunk \in Nat /\ channel[n].subscribers \ {v} \subseteq Viewer
    BY <1>1 DEF ChannelType
  <2>2. Left(v, n) = [channel[n] EXCEPT !.subscribers = channel[n].subscribers \ {v}, !.chunk = chunk]
    BY DEF Left
  <2> QED BY <1>1, <2>1, <2>2 DEF ChannelType
<1>4. Sound(Left(v, n))
  BY <1>1, <1>3 DEF Sound
<1>5. Cardinality(channel[n].subscribers \ Left(v, n).subscribers) = 1
  <2>1. channel[n].subscribers \ Left(v, n).subscribers = {v}
    BY <1>3
  <2> QED BY <2>1, FS_Singleton
<1> QED BY <1>2, <1>3, <1>4, <1>5

LEMMA WakeHolds == ASSUME FanoutConstants, FanoutInv, NEW v \in Viewer, Fanout!Wake(v) PROVE FanoutInv'
<1> PICK n : n = viewer[v].on
  OBVIOUS
<1>1. current' = current /\ viewer' = viewer /\ FanoutTyped /\ Ordered /\ viewer' \in [Viewer -> ViewerType]
  BY DEF FanoutInv, FanoutTyped, Fanout!Wake
<1>2. CASE viewer[v].pc = "lost" /\ v \in channel[n].subscribers
  <2>1. n \in 1 .. MaxChannels /\ Fanout!Unsubscribe(v)
    BY <1>2 DEF FanoutInv, WatchesOne, Fanout!Wake
  <2> PICK x : x = Left(v, n)
    OBVIOUS
  <2>2. /\ channel' = [channel EXCEPT ![n] = x]
        /\ count' = count - Cardinality(channel[n].subscribers \ x.subscribers)
        /\ x \in ChannelType /\ Sound(x) /\ x.subscribers = channel[n].subscribers \ {v}
        /\ x.sequence = channel[n].sequence /\ x.jpeg = channel[n].jpeg /\ x.retired = channel[n].retired
    BY <1>2, <2>1, UnsubscribeLeaves
  <2>3. Ordered' /\ current' \in 0 .. MaxChannels
    <3>1. \A m \in 1 .. MaxChannels : channel'[m].retired = channel[m].retired
      BY <1>1, <2>1, <2>2 DEF FanoutTyped
    <3> QED BY <1>1, <3>1, OrderKept
  <2>4. Nobody(n, x)
    BY <1>2, <2>2 DEF Nobody, FanoutInv, NewestSeen, Seen
  <2>5. x.subscribers \subseteq channel[n].subscribers
    BY <2>2
  <2> QED BY <1>1, <2>1, <2>2, <2>3, <2>4, <2>5, ViewersStay
<1>3. CASE ~(viewer[v].pc = "lost" /\ v \in channel[n].subscribers)
  <2>1. UNCHANGED <<channel, current, count>>
    BY <1>3 DEF Fanout!Wake, Fanout!Unsubscribe
  <2> QED BY <1>1, <2>1, ViewerStep
<1> QED BY <1>2, <1>3

LEMMA CloseHolds == ASSUME FanoutConstants, FanoutInv, NEW v \in Viewer, Fanout!Close(v) PROVE FanoutInv'
<1> PICK n : n = viewer[v].on
  OBVIOUS
<1>1. /\ current' = current /\ FanoutTyped /\ Ordered /\ n \in 1 .. MaxChannels
      /\ viewer[v].pc # "away" /\ Fanout!Unsubscribe(v)
  BY DEF FanoutInv, FanoutTyped, WatchesOne, Fanout!Close
<1>2. /\ viewer' \in [Viewer -> ViewerType] /\ viewer'[v].pc = "away"
      /\ \A w \in Viewer : w # v => viewer'[w] = viewer[w]
  <2>1. Fanout!Away \in ViewerType /\ Fanout!Away.pc = "away"
    BY DEF Fanout!Away, ViewerType, FanoutConstants
  <2> QED BY <1>1, <2>1 DEF Fanout!Close, FanoutTyped
<1> PICK x : x = IF v \in channel[n].subscribers THEN Left(v, n) ELSE channel[n]
  OBVIOUS
<1>3. /\ channel' = [channel EXCEPT ![n] = x]
      /\ count' = count - Cardinality(channel[n].subscribers \ x.subscribers)
      /\ x \in ChannelType /\ Sound(x) /\ x.subscribers = channel[n].subscribers \ {v}
      /\ x.sequence = channel[n].sequence /\ x.jpeg = channel[n].jpeg /\ x.retired = channel[n].retired
  <2>1. CASE v \in channel[n].subscribers
    <3>1. x = Left(v, n)
      BY <2>1
    <3>2. n = viewer[v].on /\ Fanout!Unsubscribe(v) /\ n \in 1 .. MaxChannels
      BY <1>1
    <3>3. /\ channel' = [channel EXCEPT ![n] = Left(v, n)]
          /\ count' = count - Cardinality(channel[n].subscribers \ Left(v, n).subscribers)
          /\ Left(v, n) \in ChannelType /\ Sound(Left(v, n))
          /\ Left(v, n).subscribers = channel[n].subscribers \ {v}
          /\ Left(v, n).sequence = channel[n].sequence /\ Left(v, n).jpeg = channel[n].jpeg
          /\ Left(v, n).retired = channel[n].retired
      BY <2>1, <3>2, UnsubscribeLeaves
    <3> QED BY <3>1, <3>3
  <2>2. CASE v \notin channel[n].subscribers
    <3>1. x = channel[n] /\ channel' = channel /\ count' = count
      BY <1>1, <2>2 DEF Fanout!Unsubscribe
    <3>2. channel[n].subscribers \ x.subscribers = {} /\ count \in Nat /\ channel[n].subscribers = channel[n].subscribers \ {v}
      BY <1>1, <2>2, <3>1, FanoutFinite DEF FanoutInv, WithinLimits
    <3>3. count' = count - Cardinality(channel[n].subscribers \ x.subscribers)
      BY <3>1, <3>2, FS_EmptySet
    <3>4. channel' = [channel EXCEPT ![n] = x] /\ x \in ChannelType /\ Sound(x)
      BY <1>1, <3>1 DEF FanoutTyped, FanoutInv, NewestSeen
    <3> QED BY <3>1, <3>2, <3>3, <3>4
  <2> QED BY <2>1, <2>2
<1>4. Ordered' /\ current' \in 0 .. MaxChannels
  <2>1. \A m \in 1 .. MaxChannels : channel'[m].retired = channel[m].retired
    BY <1>1, <1>3 DEF FanoutTyped
  <2> QED BY <1>1, <2>1, OrderKept
<1>5. ASSUME NEW w \in Viewer
      PROVE  \/ /\ viewer'[w].pc = "away" /\ w \notin x.subscribers
                /\ viewer[w].pc = "away" \/ viewer[w].on = n
             \/ /\ viewer[w].pc # "away" /\ viewer'[w].pc # "away" /\ viewer'[w].on = viewer[w].on
                /\ viewer'[w].pc # "lost" =>
                     /\ viewer[w].pc # "lost"
                     /\ viewer[w].on = n => w \in x.subscribers /\ Seen(viewer'[w], x)
                     /\ viewer[w].on # n => viewer'[w].last = viewer[w].last /\ viewer'[w].frame = viewer[w].frame
  <2>1. CASE w = v
    BY <1>1, <1>2, <1>3, <2>1
  <2>2. CASE w # v /\ viewer[w].pc = "away"
    BY <1>1, <1>2, <1>3, <2>2 DEF FanoutInv, WatchesOne
  <2>3. CASE w # v /\ viewer[w].pc # "away"
    <3>1. viewer[w].pc # "lost" /\ viewer[w].on = n => w \in x.subscribers /\ Seen(viewer'[w], x)
      <4> HAVE viewer[w].pc # "lost" /\ viewer[w].on = n
      <4>1. w \in channel[n].subscribers /\ Seen(viewer[w], channel[n])
        BY <2>3 DEF FanoutInv, WatchesOne, NewestSeen
      <4>2. w \in x.subscribers
        BY <1>3, <2>3, <4>1
      <4>3. viewer'[w] = viewer[w]
        BY <1>2, <2>3
      <4> QED BY <1>3, <4>1, <4>2, <4>3 DEF Seen
    <3> QED BY <1>2, <2>3, <3>1
  <2> QED BY <2>1, <2>2, <2>3
<1>6. x.subscribers \subseteq channel[n].subscribers
  BY <1>3
<1>7. /\ n \in 1 .. MaxChannels /\ x \in ChannelType /\ channel' = [channel EXCEPT ![n] = x] /\ Sound(x)
      /\ count' = count - Cardinality(channel[n].subscribers \ x.subscribers)
      /\ viewer' \in [Viewer -> ViewerType]
  BY <1>1, <1>2, <1>3
<1> QED BY <1>4, <1>5, <1>6, <1>7, ChannelStep

LEMMA RetireHolds == ASSUME FanoutConstants, FanoutInv, Fanout!Retire PROVE FanoutInv'
<1> PICK n : n = current
  OBVIOUS
<1> PICK gone : gone = Fanout!Lost \ notified
  OBVIOUS
<1> DEFINE x == [channel[n] EXCEPT !.sequence = channel[n].sequence + 1, !.jpeg = 0, !.chunk = 0, !.retired = TRUE,
                                   !.subscribers = channel[n].subscribers \ gone]
<1>1. /\ n \in 1 .. MaxChannels /\ FanoutTyped /\ Ordered /\ channel[n] \in ChannelType
      /\ channel[n].sequence \in Nat /\ MaxSequence \in Nat /\ MaxChannels \in Nat
  BY DEF FanoutInv, FanoutTyped, FanoutConstants, Fanout!Retire, ChannelType
<1>2. channel' = [channel EXCEPT ![n] = x] /\ current' = 0 /\ viewer' = viewer
      /\ count' = count - Cardinality(channel[n].subscribers \cap gone)
  <2>1. channel' = [channel EXCEPT ![n] = x] /\ current' = 0 /\ viewer' = viewer
    BY DEF Fanout!Retire
  <2>2. count' = count - Fanout!Cardinality(channel[n].subscribers \cap gone)
    BY DEF Fanout!Retire
  <2> QED BY <2>1, <2>2, FanoutCounts
<1>3. /\ x \in ChannelType /\ x.sequence = channel[n].sequence + 1 /\ x.jpeg = 0 /\ x.chunk = 0
      /\ x.subscribers = channel[n].subscribers \ gone /\ x.retired
  <2> PICK sequence : sequence = channel[n].sequence + 1
    OBVIOUS
  <2>1. sequence \in Nat /\ channel[n].subscribers \ gone \subseteq Viewer
    BY <1>1 DEF ChannelType
  <2>2. x = [channel[n] EXCEPT !.sequence = sequence, !.jpeg = 0, !.chunk = 0, !.retired = TRUE,
                               !.subscribers = channel[n].subscribers \ gone]
    OBVIOUS
  <2> HIDE DEF x
  <2> QED BY <1>1, <2>1, <2>2 DEF ChannelType
<1> HIDE DEF x
<1>4. PICK k \in 0 .. MaxChannels : RetiredTo(k) /\ n = k + 1
  BY <1>1 DEF Ordered
<1>5. Ordered' /\ current' \in 0 .. MaxChannels
  <2>1. k + 1 \in 0 .. MaxChannels
    BY <1>1, <1>4
  <2>2. \A m \in 1 .. MaxChannels : channel'[m].retired <=> m <= k + 1
    <3> SUFFICES ASSUME NEW m \in 1 .. MaxChannels PROVE channel'[m].retired <=> m <= k + 1
      OBVIOUS
    <3>1. CASE m = n
      BY <1>1, <1>2, <1>3, <1>4, <3>1 DEF FanoutTyped
    <3>2. CASE m # n
      <4>1. channel'[m] = channel[m] /\ (channel[m].retired <=> m <= k)
        BY <1>1, <1>2, <1>4, <3>2 DEF FanoutTyped, RetiredTo
      <4>2. m <= k + 1 <=> m <= k
        BY <1>1, <1>4, <3>2
      <4> QED BY <4>1, <4>2
    <3> QED BY <3>1, <3>2
  <2>3. current' = 0
    BY <1>1, <1>2
  <2>4. PICK l \in 0 .. MaxChannels : l = k + 1
    BY <2>1
  <2>5. \A m \in 1 .. MaxChannels : channel'[m].retired <=> m <= l
    BY <2>2, <2>4
  <2>6. Ordered'
    BY <2>3, <2>5 DEF Ordered, RetiredTo
  <2> QED BY <2>3, <2>6 DEF FanoutConstants
<1>6. channel[n].sequence <= MaxSequence
  BY <1>1, <1>4 DEF FanoutInv, NewestSeen, Sound, RetiredTo
<1>7. Sound(x)
  BY <1>1, <1>3, <1>6 DEF Sound
<1>8. channel[n].subscribers \ x.subscribers = channel[n].subscribers \cap gone
  BY <1>3
<1>9. \A v \in Viewer : viewer[v].pc \notin {"away", "lost"} /\ viewer[v].on = n => Seen(viewer[v], x)
  <2>1. channel[n].sequence + 1 = x.sequence /\ x.sequence <= MaxSequence + 1
    BY <1>1, <1>3, <1>6
  <2> QED BY <1>1, <1>3, <2>1, OldFrames
<1>10. Nobody(n, x)
  BY <1>3, <1>9 DEF Nobody, Fanout!Lost
<1>11. x.subscribers \subseteq channel[n].subscribers /\ count' = count - Cardinality(channel[n].subscribers \ x.subscribers)
  BY <1>2, <1>3, <1>8
<1> QED BY <1>1, <1>2, <1>3, <1>5, <1>7, <1>10, <1>11, ViewersStay

LEMMA RefuseHolds == ASSUME FanoutConstants, FanoutInv, Fanout!Refuse PROVE FanoutInv'
<1> PICK n : n = Fanout!Used
  OBVIOUS
<1> DEFINE x == [channel[n] EXCEPT !.subscribers = Fanout!Pruned(n),
                                   !.chunk = IF Fanout!Pruned(n) = {} THEN 0 ELSE channel[n].chunk]
<1>1. n \in 1 .. MaxChannels /\ FanoutTyped /\ Ordered /\ channel[n] \in ChannelType /\ Sound(channel[n])
  BY DEF FanoutInv, FanoutTyped, Fanout!Refuse, Fanout!Channel, NewestSeen
<1>2. channel' = [channel EXCEPT ![n] = x] /\ current' = n /\ viewer' = viewer
      /\ count' = count - Cardinality(channel[n].subscribers \cap Fanout!Lost)
  <2>1. count' = count - Fanout!Cardinality(channel[n].subscribers \cap Fanout!Lost)
    BY DEF Fanout!Refuse, Fanout!Prune
  <2>2. channel' = [channel EXCEPT ![n] = x]
    BY <1>1 DEF Fanout!Refuse, FanoutTyped
  <2>3. current' = n /\ viewer' = viewer
    BY DEF Fanout!Refuse
  <2> QED BY <2>1, <2>2, <2>3, FanoutCounts
<1>3. /\ x \in ChannelType /\ x.sequence = channel[n].sequence /\ x.jpeg = channel[n].jpeg
      /\ x.chunk \in {0, channel[n].chunk} /\ x.subscribers = channel[n].subscribers \ Fanout!Lost
      /\ x.retired = channel[n].retired
  <2> PICK chunk : chunk = IF Fanout!Pruned(n) = {} THEN 0 ELSE channel[n].chunk
    OBVIOUS
  <2>1. /\ Fanout!Pruned(n) = channel[n].subscribers \ Fanout!Lost /\ Fanout!Pruned(n) \subseteq Viewer
        /\ chunk \in {0, channel[n].chunk} /\ chunk \in Nat
    BY <1>1 DEF Fanout!Pruned, ChannelType
  <2>2. x = [channel[n] EXCEPT !.subscribers = Fanout!Pruned(n), !.chunk = chunk]
    OBVIOUS
  <2> HIDE DEF x
  <2> QED BY <1>1, <2>1, <2>2 DEF ChannelType
<1> HIDE DEF x
<1>4. Ordered' /\ current' \in 0 .. MaxChannels
  <2>1. \A m \in 1 .. MaxChannels : channel'[m].retired = channel[m].retired
    BY <1>1, <1>2, <1>3 DEF FanoutTyped
  <2> QED BY <1>1, <1>2, <2>1, OrderStays
<1>5. Sound(x)
  BY <1>1, <1>3 DEF Sound
<1>6. channel[n].subscribers \ x.subscribers = channel[n].subscribers \cap Fanout!Lost
  BY <1>3
<1>7. Nobody(n, x)
  BY <1>3 DEF Nobody, Fanout!Lost, FanoutInv, NewestSeen, Seen
<1>8. x.subscribers \subseteq channel[n].subscribers /\ count' = count - Cardinality(channel[n].subscribers \ x.subscribers)
  BY <1>2, <1>3, <1>6
<1> QED BY <1>1, <1>2, <1>3, <1>4, <1>5, <1>7, <1>8, ViewersStay

LEMMA PullHolds == ASSUME FanoutConstants, FanoutInv, NEW v \in Viewer, Fanout!Pull(v) PROVE FanoutInv'
<1> PICK n : n = viewer[v].on
  OBVIOUS
<1> PICK chunk : chunk = IF channel[n].chunk = 0 THEN channel[n].jpeg ELSE channel[n].chunk
  OBVIOUS
<1> DEFINE x == [channel[n] EXCEPT !.chunk = chunk]
<1>1. /\ n \in 1 .. MaxChannels /\ FanoutTyped /\ Ordered /\ channel[n] \in ChannelType /\ Sound(channel[n])
      /\ viewer[v].pc = "ready" /\ viewer[v] \in ViewerType /\ Seen(viewer[v], channel[n])
      /\ v \in channel[n].subscribers
  BY DEF FanoutInv, FanoutTyped, WatchesOne, NewestSeen, Fanout!Pull
<1>2. chunk = channel[n].jpeg /\ chunk \in Nat
  BY <1>1 DEF Sound, ChannelType
<1>3. channel' = [channel EXCEPT ![n] = x] /\ current' = current /\ count' = count
  BY <1>1 DEF Fanout!Pull, FanoutTyped
<1>4. /\ x \in ChannelType /\ x.sequence = channel[n].sequence /\ x.jpeg = channel[n].jpeg /\ x.chunk = x.jpeg
      /\ x.subscribers = channel[n].subscribers /\ x.retired = channel[n].retired
  BY <1>1, <1>2 DEF ChannelType
<1>5. /\ viewer' \in [Viewer -> ViewerType] /\ viewer'[v].pc \in {"ready", "waiting", "sending"}
      /\ viewer'[v].on = n /\ Seen(viewer'[v], x)
      /\ \A w \in Viewer : w # v => viewer'[w] = viewer[w]
  <2> PICK y : y = viewer'[v]
    OBVIOUS
  <2>1. /\ viewer' = [viewer EXCEPT ![v] = y]
        /\ y = IF channel[n].sequence = viewer[v].last THEN [viewer[v] EXCEPT !.pc = "waiting"]
               ELSE IF chunk = 0 THEN [viewer[v] EXCEPT !.last = channel[n].sequence]
               ELSE [viewer[v] EXCEPT !.pc = "sending", !.last = channel[n].sequence, !.frame = chunk]
    BY <1>1 DEF Fanout!Pull, FanoutTyped
  <2>2. channel[n].sequence \in Nat
    BY <1>1 DEF ChannelType
  <2>3. y \in ViewerType /\ y.pc \in {"ready", "waiting", "sending"} /\ y.on = n /\ Seen(y, x)
    <3>1. CASE channel[n].sequence = viewer[v].last
      <4>1. y = [viewer[v] EXCEPT !.pc = "waiting"]
        BY <2>1, <3>1
      <4>2. y \in ViewerType /\ y.pc = "waiting" /\ y.on = n /\ y.last = viewer[v].last /\ y.frame = viewer[v].frame
        BY <1>1, <4>1 DEF ViewerType
      <4> QED BY <1>1, <1>4, <4>2 DEF Seen
    <3>2. CASE channel[n].sequence # viewer[v].last /\ chunk = 0
      <4>1. y = [viewer[v] EXCEPT !.last = channel[n].sequence]
        BY <2>1, <3>2
      <4>2. y \in ViewerType /\ y.pc = "ready" /\ y.on = n /\ y.last = channel[n].sequence
        BY <1>1, <2>2, <4>1 DEF ViewerType
      <4> QED BY <1>2, <1>4, <2>2, <3>2, <4>2 DEF Seen
    <3>3. CASE channel[n].sequence # viewer[v].last /\ chunk # 0
      <4>1. y = [viewer[v] EXCEPT !.pc = "sending", !.last = channel[n].sequence, !.frame = chunk]
        BY <2>1, <3>3
      <4>2. y \in ViewerType /\ y.pc = "sending" /\ y.on = n /\ y.last = channel[n].sequence /\ y.frame = chunk
        BY <1>1, <1>2, <2>2, <4>1 DEF ViewerType
      <4> QED BY <1>2, <1>4, <2>2, <4>2 DEF Seen
    <3> QED BY <3>1, <3>2, <3>3
  <2> QED BY <1>1, <2>1, <2>3 DEF FanoutTyped
<1> HIDE DEF x
<1>6. Ordered' /\ current' \in 0 .. MaxChannels
  <2>1. \A m \in 1 .. MaxChannels : channel'[m].retired = channel[m].retired
    BY <1>1, <1>3, <1>4 DEF FanoutTyped
  <2> QED BY <1>1, <1>3, <2>1, OrderKept
<1>7. x.subscribers \subseteq channel[n].subscribers /\ count' = count - Cardinality(channel[n].subscribers \ x.subscribers)
  <2>1. channel[n].subscribers \ x.subscribers = {} /\ count \in Nat
    BY <1>4, FanoutFinite DEF FanoutInv, WithinLimits
  <2>2. Cardinality(channel[n].subscribers \ x.subscribers) = 0
    BY <2>1, FS_EmptySet
  <2> QED BY <1>3, <1>4, <2>1, <2>2
<1>8. ASSUME NEW w \in Viewer
      PROVE  \/ /\ viewer'[w].pc = "away" /\ w \notin x.subscribers
                /\ viewer[w].pc = "away" \/ viewer[w].on = n
             \/ /\ viewer[w].pc # "away" /\ viewer'[w].pc # "away" /\ viewer'[w].on = viewer[w].on
                /\ viewer'[w].pc # "lost" =>
                     /\ viewer[w].pc # "lost"
                     /\ viewer[w].on = n => w \in x.subscribers /\ Seen(viewer'[w], x)
                     /\ viewer[w].on # n => viewer'[w].last = viewer[w].last /\ viewer'[w].frame = viewer[w].frame
  <2>1. CASE w = v
    BY <1>1, <1>4, <1>5, <2>1
  <2>2. CASE w # v /\ viewer[w].pc = "away"
    BY <1>1, <1>4, <1>5, <2>2 DEF FanoutInv, WatchesOne
  <2>3. CASE w # v /\ viewer[w].pc # "away"
    <3>1. viewer[w].pc # "lost" /\ viewer[w].on = n => w \in x.subscribers /\ Seen(viewer'[w], x)
      BY <1>4, <1>5, <2>3 DEF FanoutInv, WatchesOne, NewestSeen, Seen
    <3> QED BY <1>5, <2>3, <3>1
  <2> QED BY <2>1, <2>2, <2>3
<1>9. Sound(x)
  BY <1>1, <1>4 DEF Sound
<1>10. /\ n \in 1 .. MaxChannels /\ x \in ChannelType /\ channel' = [channel EXCEPT ![n] = x]
       /\ viewer' \in [Viewer -> ViewerType]
  BY <1>1, <1>3, <1>4, <1>5
<1> QED BY <1>6, <1>7, <1>8, <1>9, <1>10, ChannelStep

LEMMA SubscribeHolds == ASSUME FanoutConstants, FanoutInv, NEW v \in Viewer, Fanout!Subscribe(v) PROVE FanoutInv'
<1> PICK n : n = Fanout!Used
  OBVIOUS
<1> PICK gone : gone = channel[n].subscribers \cap Fanout!Lost
  OBVIOUS
<1> DEFINE x == [channel[n] EXCEPT !.subscribers = Fanout!Pruned(n) \cup {v}, !.chunk = channel[n].jpeg]
<1> DEFINE y == [Fanout!Away EXCEPT !.pc = "ready", !.on = n, !.last = MaxSequence + 2]
<1>1. /\ n \in 1 .. MaxChannels /\ FanoutTyped /\ Ordered /\ channel[n] \in ChannelType /\ Sound(channel[n])
      /\ viewer[v].pc = "away" /\ MaxSequence \in Nat /\ channel[n].sequence \in Nat
      /\ \A m \in 1 .. MaxChannels : v \notin channel[m].subscribers
  BY DEF FanoutInv, FanoutTyped, FanoutConstants, Fanout!Subscribe, Fanout!Channel, NewestSeen, WatchesOne, ChannelType
<1>2. /\ channel' = [channel EXCEPT ![n] = x] /\ current' = n /\ viewer' = [viewer EXCEPT ![v] = y]
      /\ count' = count - Cardinality(gone) + 1 /\ count - Cardinality(gone) < LimitTotal
      /\ Cardinality(Fanout!Pruned(n)) < LimitPerCamera
  <2>1. /\ count' = count - Fanout!Cardinality(gone) + 1 /\ count - Fanout!Cardinality(gone) < LimitTotal
        /\ Fanout!Cardinality(Fanout!Pruned(n)) < LimitPerCamera
    BY DEF Fanout!Subscribe
  <2>2. channel' = [channel EXCEPT ![n] = x]
    BY <1>1 DEF Fanout!Subscribe, FanoutTyped
  <2>3. current' = n /\ viewer' = [viewer EXCEPT ![v] = y]
    BY DEF Fanout!Subscribe
  <2> QED BY <2>1, <2>2, <2>3, FanoutCounts
<1>3. /\ x \in ChannelType /\ x.sequence = channel[n].sequence /\ x.jpeg = channel[n].jpeg /\ x.chunk = x.jpeg
      /\ x.subscribers = (channel[n].subscribers \ gone) \cup {v} /\ x.retired = channel[n].retired
  <2>1. /\ Fanout!Pruned(n) \cup {v} = (channel[n].subscribers \ gone) \cup {v}
        /\ Fanout!Pruned(n) \cup {v} \subseteq Viewer /\ channel[n].jpeg \in Nat
    BY <1>1 DEF Fanout!Pruned, ChannelType
  <2> QED BY <1>1, <2>1 DEF ChannelType
<1>4. /\ y \in ViewerType /\ y.pc = "ready" /\ y.on = n /\ y.last = MaxSequence + 2
  <2> PICK last : last = MaxSequence + 2
    OBVIOUS
  <2>1. y = [Fanout!Away EXCEPT !.pc = "ready", !.on = n, !.last = last] /\ last \in Nat
    BY <1>1
  <2>2. Fanout!Away \in ViewerType /\ n \in 0 .. MaxChannels
    BY <1>1 DEF Fanout!Away, ViewerType, FanoutConstants
  <2> HIDE DEF y
  <2> QED BY <2>1, <2>2 DEF ViewerType
<1> HIDE DEF x, y
<1>5. /\ channel'[n] = x /\ \A m \in 1 .. MaxChannels : m # n => channel'[m] = channel[m]
      /\ viewer'[v] = y /\ \A w \in Viewer : w # v => viewer'[w] = viewer[w]
  BY <1>1, <1>2 DEF FanoutTyped
<1>6. Ordered' /\ current' \in 0 .. MaxChannels
  <2>1. \A m \in 1 .. MaxChannels : channel'[m].retired = channel[m].retired
    BY <1>3, <1>5
  <2> QED BY <1>1, <1>2, <2>1, OrderStays
<1>7. FanoutTyped'
  BY <1>1, <1>2, <1>3, <1>4, <1>6 DEF FanoutTyped
<1>8. WatchesOne'
  <2> SUFFICES ASSUME NEW w \in Viewer
               PROVE  /\ \A m \in 1 .. MaxChannels : w \in channel'[m].subscribers => viewer'[w].pc # "away" /\ viewer'[w].on = m
                      /\ viewer'[w].pc # "away" => viewer'[w].on \in 1 .. MaxChannels
                      /\ viewer'[w].pc \notin {"away", "lost"} => w \in channel'[viewer'[w].on].subscribers
    BY DEF WatchesOne
  <2>1. CASE w = v
    <3>1. \A m \in 1 .. MaxChannels : w \in channel'[m].subscribers => m = n
      BY <1>1, <1>5, <2>1
    <3> QED BY <1>1, <1>3, <1>4, <1>5, <2>1, <3>1
  <2>2. CASE w # v
    <3>1. /\ \A m \in 1 .. MaxChannels : w \in channel[m].subscribers => viewer[w].pc # "away" /\ viewer[w].on = m
          /\ viewer[w].pc # "away" => viewer[w].on \in 1 .. MaxChannels
          /\ viewer[w].pc \notin {"away", "lost"} => w \in channel[viewer[w].on].subscribers
      BY DEF FanoutInv, WatchesOne
    <3>2. \A m \in 1 .. MaxChannels : w \in channel'[m].subscribers => w \in channel[m].subscribers
      BY <1>3, <1>5, <2>2
    <3>3. viewer[w].pc # "lost" => w \notin gone
      BY DEF Fanout!Lost
    <3>4. viewer[w].pc \notin {"away", "lost"} => w \in channel'[viewer[w].on].subscribers
      BY <1>3, <1>5, <3>1, <3>3
    <3> QED BY <1>5, <2>2, <3>1, <3>2, <3>4
  <2> QED BY <2>1, <2>2
<1>9. NewestSeen'
  <2>1. Sound(x)
    BY <1>1, <1>3 DEF Sound
  <2>2. \A m \in 1 .. MaxChannels : Sound(channel[m])'
    BY <1>5, <2>1 DEF FanoutInv, NewestSeen, Sound
  <2>3. ASSUME NEW w \in Viewer, viewer'[w].pc \notin {"away", "lost"}
        PROVE  Seen(viewer[w], channel[viewer[w].on])'
    <3>1. CASE w = v
      <4>1. y.last # x.sequence
        BY <1>1, <1>3, <1>4 DEF Sound
      <4> QED BY <1>4, <1>5, <3>1, <4>1 DEF Seen
    <3>2. CASE w # v
      <4>1. Seen(viewer[w], channel[viewer[w].on]) /\ viewer[w].on \in 1 .. MaxChannels /\ viewer'[w] = viewer[w]
        BY <1>5, <2>3, <3>2 DEF FanoutInv, NewestSeen, WatchesOne
      <4> QED BY <1>3, <1>5, <4>1 DEF Seen
    <3> QED BY <3>1, <3>2
  <2> QED BY <2>2, <2>3 DEF NewestSeen
<1>10. WithinLimits'
  <2>1. /\ gone \subseteq Subscribed /\ v \notin Subscribed
        /\ \A m \in 1 .. MaxChannels : m # n => \A w \in gone : w \notin channel[m].subscribers
    <3>1. gone \subseteq Subscribed /\ v \notin Subscribed
      BY <1>1 DEF Subscribed, FanoutInv, WatchesOne
    <3>2. ASSUME NEW m \in 1 .. MaxChannels, m # n, NEW w \in gone PROVE w \notin channel[m].subscribers
      <4>1. w \in channel[n].subscribers /\ w \in Viewer
        BY <1>1 DEF FanoutInv, FanoutTyped, ChannelType
      <4> QED BY <1>1, <3>2, <4>1 DEF FanoutInv, WatchesOne
    <3> QED BY <3>1, <3>2
  <2>2. Subscribed' = (Subscribed \ gone) \cup {v}
    BY <1>1, <1>3, <1>5, <2>1 DEF Subscribed
  <2>3. Subscribed \cap gone = gone /\ IsFiniteSet(Subscribed) /\ Cardinality(Subscribed) \in Nat
    BY <1>1, <2>1, FanoutFinite
  <2>4. /\ IsFiniteSet(Subscribed \ gone)
        /\ Cardinality(Subscribed \ gone) = Cardinality(Subscribed) - Cardinality(gone)
    <3>1. /\ IsFiniteSet(Subscribed \ gone)
          /\ Cardinality(Subscribed \ gone) = Cardinality(Subscribed) - Cardinality(Subscribed \cap gone)
      <4>1. IsFiniteSet(Subscribed)
        BY <2>3
      <4> QED BY <4>1, FS_Difference
    <3> QED BY <2>3, <3>1
  <2>5. Cardinality(Subscribed') = Cardinality(Subscribed \ gone) + 1
    BY <2>1, <2>2, <2>4, FS_AddElement
  <2>6. Cardinality(gone) \in Nat
    BY <1>1, FanoutFinite
  <2>7. count' = Cardinality(Subscribed') /\ count' <= LimitTotal
    BY <1>2, <2>3, <2>4, <2>5, <2>6 DEF FanoutInv, WithinLimits, FanoutConstants
  <2>8. Cardinality(x.subscribers) <= LimitPerCamera
    <3>1. /\ Fanout!Pruned(n) = channel[n].subscribers \ gone
          /\ IsFiniteSet(Fanout!Pruned(n)) /\ Cardinality(Fanout!Pruned(n)) \in Nat
      BY <1>1, FanoutFinite DEF Fanout!Pruned
    <3>2. x.subscribers = Fanout!Pruned(n) \cup {v}
      BY <1>3, <3>1
    <3>3. /\ IsFiniteSet(x.subscribers)
          /\ Cardinality(x.subscribers) = IF v \in Fanout!Pruned(n) THEN Cardinality(Fanout!Pruned(n))
                                          ELSE Cardinality(Fanout!Pruned(n)) + 1
      <4> PICK P : P = Fanout!Pruned(n)
        OBVIOUS
      <4>1. IsFiniteSet(P)
        BY <3>1
      <4>2. IsFiniteSet(P \cup {v}) /\ Cardinality(P \cup {v}) = IF v \in P THEN Cardinality(P) ELSE Cardinality(P) + 1
        BY <4>1, FS_AddElement
      <4> QED BY <3>2, <4>2
    <3> QED BY <1>2, <3>1, <3>3 DEF FanoutConstants
  <2> QED BY <1>5, <2>7, <2>8 DEF FanoutInv, WithinLimits
<1> QED BY <1>6, <1>7, <1>8, <1>9, <1>10 DEF FanoutInv

LEMMA ViewerGoesOn ==
    ASSUME FanoutInv, NEW v \in Viewer, NEW at \in {"ready", "lost"},
           viewer' = [viewer EXCEPT ![v].pc = at], viewer[v].pc \notin {"away", "lost"},
           UNCHANGED <<channel, current, count>>
    PROVE  FanoutInv'
<1>1. viewer[v] \in ViewerType /\ FanoutTyped
  BY DEF FanoutInv, FanoutTyped
<1> PICK y : y = [viewer[v] EXCEPT !.pc = at]
  OBVIOUS
<1>2. y \in ViewerType /\ y.pc = at /\ y.on = viewer[v].on /\ y.last = viewer[v].last /\ y.frame = viewer[v].frame
  BY <1>1 DEF ViewerType
<1>3. /\ viewer' \in [Viewer -> ViewerType] /\ viewer'[v] = y
      /\ \A w \in Viewer : w # v => viewer'[w] = viewer[w]
  BY <1>1, <1>2 DEF FanoutTyped
<1>4. \A w \in Viewer :
         /\ viewer'[w].on = viewer[w].on /\ viewer'[w].last = viewer[w].last /\ viewer'[w].frame = viewer[w].frame
         /\ viewer'[w].pc = "away" <=> viewer[w].pc = "away"
         /\ viewer[w].pc = "lost" => viewer'[w].pc = "lost"
  BY <1>2, <1>3
<1> QED BY <1>3, <1>4, ViewerStep

-----------------------------------------------------------------------------
LEMMA FanoutInit == ASSUME FanoutConstants, Fanout!Init PROVE FanoutInv
<1>1. /\ channel \in [1 .. MaxChannels -> ChannelType] /\ viewer \in [Viewer -> ViewerType]
      /\ \A n \in 1 .. MaxChannels : channel[n] = Fanout!NoChannel
      /\ \A v \in Viewer : viewer[v] = Fanout!Away
  <2>1. Fanout!NoChannel \in ChannelType /\ Fanout!Away \in ViewerType
    BY DEF Fanout!NoChannel, ChannelType, Fanout!Away, ViewerType, FanoutConstants
  <2> QED BY <2>1 DEF Fanout!Init, Fanout!Channel
<1>2. FanoutTyped
  BY <1>1 DEF FanoutTyped, Fanout!Init, FanoutConstants
<1>3. WatchesOne /\ NewestSeen
  BY <1>1 DEF WatchesOne, NewestSeen, Sound, Fanout!NoChannel, Fanout!Away, FanoutConstants
<1>4. Ordered
  <2>1. 0 \in 0 .. MaxChannels /\ current = 0 /\ \A n \in 1 .. MaxChannels : ~(n <= 0)
    BY DEF FanoutConstants, Fanout!Init
  <2>2. RetiredTo(0)
    BY <1>1, <2>1 DEF RetiredTo, Fanout!NoChannel
  <2> QED BY <2>1, <2>2 DEF Ordered
<1>5. WithinLimits
  <2>1. Subscribed = {} /\ \A n \in 1 .. MaxChannels : channel[n].subscribers = {}
    BY <1>1 DEF Subscribed, Fanout!NoChannel
  <2>2. Cardinality({}) = 0
    BY FS_EmptySet
  <2>3. Cardinality(Subscribed) = 0 /\ \A n \in 1 .. MaxChannels : Cardinality(channel[n].subscribers) = 0
    BY <2>1, <2>2
  <2>4. count = 0 /\ 0 <= LimitTotal /\ 0 <= LimitPerCamera
    BY DEF Fanout!Init, FanoutConstants
  <2> QED BY <2>3, <2>4 DEF WithinLimits
<1> QED BY <1>2, <1>3, <1>4, <1>5 DEF FanoutInv

LEMMA FanoutNext == ASSUME FanoutConstants, FanoutInv, [Fanout!Next]_(Fanout!vars) PROVE FanoutInv'
<1>1. CASE Fanout!Publish \/ Fanout!Clear \/ Fanout!Retire \/ Fanout!Refuse
  BY <1>1, PublishHolds, ClearHolds, RetireHolds, RefuseHolds
<1>2. ASSUME NEW v \in Viewer, Fanout!Wake(v) \/ Fanout!Subscribe(v) \/ Fanout!Pull(v) PROVE FanoutInv'
  BY <1>2, WakeHolds, SubscribeHolds, PullHolds
<1>3. ASSUME NEW v \in Viewer, Fanout!EndOfStream(v) \/ Fanout!Leave(v) PROVE FanoutInv'
  BY <1>3, CloseHolds DEF Fanout!EndOfStream, Fanout!Leave
<1>4. ASSUME NEW v \in Viewer, Fanout!Sent(v) \/ Fanout!WakeUp(v) \/ Fanout!LoopCloses(v) PROVE FanoutInv'
  <2>1. PICK at \in {"ready", "lost"} : viewer' = [viewer EXCEPT ![v].pc = at]
    BY <1>4 DEF Fanout!Sent, Fanout!WakeUp, Fanout!LoopCloses
  <2>2. viewer[v].pc \notin {"away", "lost"} /\ UNCHANGED <<channel, current, count>>
    BY <1>4 DEF Fanout!Sent, Fanout!WakeUp, Fanout!LoopCloses, Fanout!channelVars
  <2> QED BY <2>1, <2>2, ViewerGoesOn
<1>5. CASE (\E v \in Viewer : Fanout!RunPosted(v)) \/ UNCHANGED Fanout!vars
  <2>1. UNCHANGED <<channel, current, count, viewer>>
    BY <1>5 DEF Fanout!RunPosted, Fanout!channelVars, Fanout!vars
  <2>2. viewer' \in [Viewer -> ViewerType]
    BY <2>1 DEF FanoutInv, FanoutTyped
  <2> QED BY <2>1, <2>2, ViewerStep
<1> QED BY <1>1, <1>2, <1>3, <1>4, <1>5 DEF Fanout!Next

LEMMA FanoutSafe == ASSUME FanoutConstants, FanoutInv PROVE Fanout!ViewersCounted
<1>1. /\ count = Cardinality(UNION {channel[n].subscribers : n \in 1 .. MaxChannels})
      /\ count <= LimitTotal
      /\ \A n \in 1 .. MaxChannels : Cardinality(channel[n].subscribers) <= LimitPerCamera
  BY DEF FanoutInv, WithinLimits, Subscribed
<1>2. ASSUME NEW v \in Viewer
      PROVE  /\ viewer[v].pc \notin {"away", "lost"} => v \in channel[viewer[v].on].subscribers
             /\ viewer[v].pc \in {"sending", "waiting"} /\ channel[viewer[v].on].jpeg # 0
                  /\ viewer[v].last = channel[viewer[v].on].sequence
                => viewer[v].frame = channel[viewer[v].on].jpeg
  BY DEF FanoutInv, WatchesOne, NewestSeen, Seen
<1> QED BY <1>1, <1>2, FanoutCounts DEF Fanout!ViewersCounted, Fanout!Channel

(* The viewers of the live pictures are counted once each, and one abreast *)
(* of its channel shows the newest frame (mjpeg_fanout.py).                *)
THEOREM ViewersAreCounted == ASSUME FanoutConstants PROVE Fanout!Spec => []Fanout!ViewersCounted
<1>1. Fanout!Init => FanoutInv
  BY FanoutInit
<1>2. FanoutInv /\ [Fanout!Next]_(Fanout!vars) => FanoutInv'
  BY FanoutNext
<1>3. FanoutInv => Fanout!ViewersCounted
  BY FanoutSafe
<1> QED BY <1>1, <1>2, <1>3, PTL DEF Fanout!Spec

-----------------------------------------------------------------------------
(* The types of MjpegFanout.                                               *)
(* Beside: a channel holds no frame newer than its last, and viewers see   *)
(* and wake within their types.                                            *)
FanoutShaped ==
    /\ \A n \in 1 .. MaxChannels : channel[n].jpeg <= channel[n].sequence
    /\ \A v \in Viewer : viewer[v].last <= MaxSequence + 2 /\ viewer[v].frame <= MaxSequence + 1
    /\ notified \subseteq Viewer /\ waking \subseteq Viewer /\ event \subseteq Viewer
    /\ posted \in [Viewer -> Nat]

LEMMA FanoutIsTyped == ASSUME FanoutConstants, FanoutInv, FanoutShaped PROVE Fanout!TypeOK
<1>1. count \in Nat
  <2>1. IsFiniteSet(Subscribed)
    <3>1. Subscribed \subseteq Viewer
      BY DEF Subscribed, FanoutInv, FanoutTyped, ChannelType
    <3> QED BY <3>1, FS_Subset DEF FanoutConstants
  <2> QED BY <2>1, FS_CardinalityType DEF FanoutInv, WithinLimits
<1>2. ASSUME NEW n \in 1 .. MaxChannels
      PROVE  channel[n] \in [sequence : 0 .. MaxSequence + 1, jpeg : 0 .. MaxSequence + 1,
                             chunk : 0 .. MaxSequence + 1, subscribers : SUBSET Viewer, retired : BOOLEAN]
  <2>1. PICK c : c = channel[n]
    OBVIOUS
  <2>2. c \in ChannelType /\ Sound(c) /\ c.jpeg <= c.sequence
    BY <2>1 DEF FanoutInv, FanoutTyped, NewestSeen, FanoutShaped
  <2>3. c.sequence \in 0 .. MaxSequence + 1 /\ c.jpeg \in 0 .. MaxSequence + 1 /\ c.chunk \in 0 .. MaxSequence + 1
    BY <2>2 DEF Sound, ChannelType, FanoutConstants
  <2> QED BY <2>1, <2>2, <2>3 DEF ChannelType
<1>3. ASSUME NEW v \in Viewer
      PROVE  viewer[v] \in [pc : {"away", "ready", "waiting", "sending", "lost"}, on : 0 .. MaxChannels,
                            last : 0 .. MaxSequence + 2, frame : 0 .. MaxSequence + 1]
  <2>1. PICK w : w = viewer[v]
    OBVIOUS
  <2>2. w \in ViewerType /\ w.last <= MaxSequence + 2 /\ w.frame <= MaxSequence + 1
    BY <2>1 DEF FanoutInv, FanoutTyped, FanoutShaped
  <2>3. w.last \in 0 .. MaxSequence + 2 /\ w.frame \in 0 .. MaxSequence + 1
    BY <2>2 DEF ViewerType, FanoutConstants
  <2> QED BY <2>1, <2>2, <2>3 DEF ViewerType
<1>4. channel = [n \in 1 .. MaxChannels |-> channel[n]] /\ viewer = [v \in Viewer |-> viewer[v]]
  BY DEF FanoutInv, FanoutTyped
<1> QED BY <1>1, <1>2, <1>3, <1>4 DEF FanoutInv, FanoutTyped, FanoutShaped, Fanout!TypeOK, Fanout!Channel

LEMMA FanoutShapeBegins == ASSUME FanoutConstants, Fanout!Init PROVE FanoutShaped
BY DEF Fanout!Init, FanoutShaped, Fanout!Channel, Fanout!NoChannel, Fanout!Away, FanoutConstants

(* What is done to a channel, by whomever: it gets the newest frame, loses *)
(* the frame or keeps it.                                                  *)
LEMMA ChannelSet ==
    ASSUME FanoutInv, FanoutInv', FanoutShaped, NEW n \in 1 .. MaxChannels, NEW x,
           channel' = [channel EXCEPT ![n] = x],
           \/ x.jpeg = 0 \/ x.jpeg = x.sequence
           \/ x.jpeg = channel[n].jpeg /\ x.sequence = channel[n].sequence
    PROVE  \A k \in 1 .. MaxChannels : channel'[k].jpeg <= channel'[k].sequence
<1> SUFFICES ASSUME NEW k \in 1 .. MaxChannels PROVE channel'[k].jpeg <= channel'[k].sequence
  OBVIOUS
<1>1. /\ channel \in [1 .. MaxChannels -> ChannelType] /\ channel'[k] \in ChannelType
      /\ channel[k].jpeg <= channel[k].sequence
  BY DEF FanoutInv, FanoutTyped, FanoutShaped
<1>2. channel'[k].sequence \in Nat /\ channel'[k].jpeg \in Nat
  BY <1>1 DEF ChannelType
<1>3. CASE k = n
  <2>1. channel'[k] = x
    BY <1>1, <1>3
  <2> QED BY <1>1, <1>2, <1>3, <2>1
<1>4. CASE k # n
  BY <1>1, <1>4
<1> QED BY <1>3, <1>4

LEMMA ChannelsShaped ==
    ASSUME FanoutConstants, FanoutInv, FanoutInv', FanoutShaped, [Fanout!Next]_(Fanout!vars)
    PROVE  \A k \in 1 .. MaxChannels : channel'[k].jpeg <= channel'[k].sequence
<1>1. channel \in [1 .. MaxChannels -> ChannelType] /\ current \in 0 .. MaxChannels
  BY DEF FanoutInv, FanoutTyped
<1> DEFINE Shaped == \A k \in 1 .. MaxChannels : channel'[k].jpeg <= channel'[k].sequence
<1>2. ASSUME Fanout!Publish PROVE Shaped
  <2> PICK n : n = Fanout!Used
    OBVIOUS
  <2> PICK q, h : /\ q = channel[n].sequence + 1
                  /\ h = IF Fanout!Pruned(n) # {} THEN channel[n].sequence + 1 ELSE 0
    OBVIOUS
  <2> DEFINE x == [channel[n] EXCEPT !.sequence = q, !.jpeg = q, !.chunk = h, !.subscribers = Fanout!Pruned(n)]
  <2>1. n \in 1 .. MaxChannels /\ channel' = [channel EXCEPT ![n] = x]
    BY <1>2 DEF Fanout!Publish, Fanout!Channel
  <2>2. channel[n] \in ChannelType
    BY <1>1, <2>1
  <2>3. x.jpeg = x.sequence
    BY <2>2 DEF ChannelType
  <2> HIDE DEF x
  <2> QED BY <2>1, <2>3, ChannelSet
<1>3. ASSUME Fanout!Clear \/ Fanout!Retire PROVE Shaped
  <2>1. current \in 1 .. MaxChannels
    BY <1>1, <1>3 DEF Fanout!Clear, Fanout!Retire
  <2>2. channel[current] \in ChannelType
    BY <1>1, <2>1
  <2>3. CASE Fanout!Clear
    <3> DEFINE x == [channel[current] EXCEPT !.sequence = @ + 1, !.jpeg = 0, !.chunk = 0]
    <3>1. channel' = [channel EXCEPT ![current] = x]
      BY <2>3 DEF Fanout!Clear
    <3>2. x.jpeg = 0
      BY <2>2 DEF ChannelType
    <3> HIDE DEF x
    <3> QED BY <2>1, <3>1, <3>2, ChannelSet
  <2>4. CASE Fanout!Retire
    <3> PICK gone : gone = Fanout!Lost \ notified
      OBVIOUS
    <3> DEFINE x == [channel[current] EXCEPT !.sequence = @ + 1, !.jpeg = 0, !.chunk = 0, !.retired = TRUE,
                                             !.subscribers = @ \ gone]
    <3>1. channel' = [channel EXCEPT ![current] = x]
      BY <2>4 DEF Fanout!Retire
    <3>2. x.jpeg = 0
      BY <2>2 DEF ChannelType
    <3> HIDE DEF x
    <3> QED BY <2>1, <3>1, <3>2, ChannelSet
  <2> QED BY <1>3, <2>3, <2>4
<1>4. ASSUME NEW n \in 1 .. MaxChannels, NEW S, NEW h,
             channel' = [channel EXCEPT ![n].subscribers = S, ![n].chunk = h]
      PROVE  Shaped
  <2> DEFINE x == [channel[n] EXCEPT !.subscribers = S, !.chunk = h]
  <2>1. channel[n] \in ChannelType /\ channel' = [channel EXCEPT ![n] = x]
    BY <1>1, <1>4
  <2>2. x.jpeg = channel[n].jpeg /\ x.sequence = channel[n].sequence
    BY <2>1 DEF ChannelType
  <2> HIDE DEF x
  <2> QED BY <2>1, <2>2, ChannelSet
<1>5. ASSUME Fanout!Refuse PROVE Shaped
  <2> PICK n : n = Fanout!Used
    OBVIOUS
  <2> PICK S, h : S = Fanout!Pruned(n) /\ h = IF S = {} THEN 0 ELSE channel[n].chunk
    OBVIOUS
  <2>1. n \in 1 .. MaxChannels
    BY <1>5 DEF Fanout!Refuse, Fanout!Channel
  <2>2. channel' = [channel EXCEPT ![n].subscribers = S, ![n].chunk = h]
    BY <1>1, <1>5, <2>1 DEF Fanout!Refuse
  <2> QED BY <1>4, <2>1, <2>2
<1>6. ASSUME NEW v \in Viewer, viewer[v].pc # "away", Fanout!Unsubscribe(v) PROVE Shaped
  <2> PICK n : n = viewer[v].on
    OBVIOUS
  <2>1. n \in 1 .. MaxChannels
    BY <1>6 DEF FanoutInv, WatchesOne
  <2>2. CASE UNCHANGED channel
    BY <2>2 DEF FanoutShaped
  <2>3. CASE ~UNCHANGED channel
    <3> PICK S, h : S = channel[n].subscribers \ {v} /\ h = IF S = {} THEN 0 ELSE channel[n].chunk
      OBVIOUS
    <3>1. channel' = [channel EXCEPT ![n].subscribers = S, ![n].chunk = h]
      BY <1>1, <1>6, <2>1, <2>3 DEF Fanout!Unsubscribe
    <3> QED BY <1>4, <2>1, <3>1
  <2> QED BY <2>2, <2>3
<1>7. ASSUME NEW v \in Viewer, Fanout!Subscribe(v) PROVE Shaped
  <2> PICK n : n = Fanout!Used
    OBVIOUS
  <2> PICK S, h : S = Fanout!Pruned(n) \cup {v} /\ h = channel[n].jpeg
    OBVIOUS
  <2>1. n \in 1 .. MaxChannels /\ channel' = [channel EXCEPT ![n].subscribers = S, ![n].chunk = h]
    BY <1>7 DEF Fanout!Subscribe, Fanout!Channel
  <2> QED BY <1>4, <2>1
<1>8. ASSUME NEW v \in Viewer, Fanout!Pull(v) PROVE Shaped
  <2> PICK n : n = viewer[v].on
    OBVIOUS
  <2> PICK chunk : chunk = IF channel[n].chunk = 0 THEN channel[n].jpeg ELSE channel[n].chunk
    OBVIOUS
  <2> DEFINE x == [channel[n] EXCEPT !.chunk = chunk]
  <2>1. n \in 1 .. MaxChannels
    BY <1>8 DEF Fanout!Pull, FanoutInv, WatchesOne
  <2>2. channel[n] \in ChannelType /\ channel' = [channel EXCEPT ![n] = x]
    BY <1>1, <1>8, <2>1 DEF Fanout!Pull
  <2>3. x.jpeg = channel[n].jpeg /\ x.sequence = channel[n].sequence
    BY <2>2 DEF ChannelType
  <2> HIDE DEF x
  <2> QED BY <2>1, <2>2, <2>3, ChannelSet
<1>9. ASSUME UNCHANGED channel PROVE Shaped
  BY <1>9 DEF FanoutShaped
<1> HIDE DEF Shaped
<1>10. ASSUME NEW v \in Viewer, Fanout!Wake(v) PROVE Shaped
  <2>1. CASE viewer[v].pc = "lost"
    BY <1>6, <1>10, <2>1 DEF Fanout!Wake
  <2>2. CASE viewer[v].pc # "lost"
    BY <1>9, <1>10, <2>2 DEF Fanout!Wake
  <2> QED BY <2>1, <2>2
<1>11. ASSUME NEW v \in Viewer, Fanout!EndOfStream(v) \/ Fanout!Leave(v) PROVE Shaped
  BY <1>6, <1>11 DEF Fanout!EndOfStream, Fanout!Leave, Fanout!Close
<1>12. ASSUME NEW v \in Viewer, Fanout!Sent(v) \/ Fanout!RunPosted(v) \/ Fanout!WakeUp(v) \/ Fanout!LoopCloses(v)
       PROVE  Shaped
  BY <1>9, <1>12 DEF Fanout!Sent, Fanout!RunPosted, Fanout!WakeUp, Fanout!LoopCloses, Fanout!channelVars
<1>13. ASSUME UNCHANGED Fanout!vars PROVE Shaped
  BY <1>9, <1>13 DEF Fanout!vars
<1>14. Shaped
  BY <1>2, <1>3, <1>5, <1>7, <1>8, <1>10, <1>11, <1>12, <1>13 DEF Fanout!Next
<1> QED BY <1>14 DEF Shaped

LEMMA ViewersShaped ==
    ASSUME FanoutConstants, FanoutInv, FanoutShaped, [Fanout!Next]_(Fanout!vars), NEW v \in Viewer
    PROVE  viewer'[v].last <= MaxSequence + 2 /\ viewer'[v].frame <= MaxSequence + 1
<1>1. /\ viewer[v].last <= MaxSequence + 2 /\ viewer[v].frame <= MaxSequence + 1
      /\ viewer \in [Viewer -> ViewerType] /\ viewer[v] \in ViewerType /\ MaxSequence \in Nat
  BY DEF FanoutInv, FanoutTyped, FanoutShaped, FanoutConstants
<1>2. /\ Fanout!Away.last <= MaxSequence + 2 /\ Fanout!Away.frame <= MaxSequence + 1
      /\ MaxSequence + 2 <= MaxSequence + 2
  BY <1>1 DEF Fanout!Away
<1>3. ASSUME NEW u \in Viewer, NEW y, viewer' = [viewer EXCEPT ![u] = y],
             y.last <= MaxSequence + 2 /\ y.frame <= MaxSequence + 1
      PROVE  viewer'[v].last <= MaxSequence + 2 /\ viewer'[v].frame <= MaxSequence + 1
  BY <1>1, <1>3
<1>4. ASSUME NEW u \in Viewer, Fanout!Subscribe(u) PROVE viewer'[v].last <= MaxSequence + 2 /\ viewer'[v].frame <= MaxSequence + 1
  <2>1. PICK k : viewer' = [viewer EXCEPT ![u] = [Fanout!Away EXCEPT !.pc = "ready", !.on = k, !.last = MaxSequence + 2]]
    BY <1>4 DEF Fanout!Subscribe
  <2> DEFINE y == [Fanout!Away EXCEPT !.pc = "ready", !.on = k, !.last = MaxSequence + 2]
  <2>2. y.last = MaxSequence + 2 /\ y.frame = Fanout!Away.frame
    BY DEF Fanout!Away
  <2> HIDE DEF y
  <2> QED BY <1>2, <1>3, <2>1, <2>2 DEF y
<1>5. ASSUME NEW u \in Viewer, Fanout!Close(u) PROVE viewer'[v].last <= MaxSequence + 2 /\ viewer'[v].frame <= MaxSequence + 1
  BY <1>2, <1>3, <1>5 DEF Fanout!Close
<1>6. ASSUME NEW u \in Viewer, Fanout!Pull(u) PROVE viewer'[v].last <= MaxSequence + 2 /\ viewer'[v].frame <= MaxSequence + 1
  <2> DEFINE c == channel[viewer[u].on]
             chunk == IF c.chunk = 0 THEN c.jpeg ELSE c.chunk
             w == viewer[u]
             y == IF c.sequence = w.last THEN [w EXCEPT !.pc = "waiting"]
                  ELSE IF chunk = 0 THEN [w EXCEPT !.last = c.sequence]
                  ELSE [w EXCEPT !.pc = "sending", !.last = c.sequence, !.frame = chunk]
  <2>1. viewer' = [viewer EXCEPT ![u] = y]
    BY <1>6 DEF Fanout!Pull
  <2>2. w \in ViewerType /\ w.last <= MaxSequence + 2 /\ w.frame <= MaxSequence + 1
    BY DEF FanoutInv, FanoutTyped, FanoutShaped
  <2>3. c.sequence \in Nat /\ c.sequence <= MaxSequence + 1 /\ c.jpeg \in Nat /\ c.jpeg <= c.sequence /\ c.chunk \in {0, c.jpeg}
    <3>1. viewer[u].on \in 1 .. MaxChannels
      BY <1>6 DEF Fanout!Pull, FanoutInv, WatchesOne
    <3> QED BY <3>1 DEF FanoutInv, FanoutTyped, NewestSeen, Sound, FanoutShaped, ChannelType
  <2>4. y.last \in {w.last, c.sequence} /\ y.frame \in {w.frame, chunk}
    <3> HIDE DEF c, chunk, w
    <3> QED BY <2>2 DEF ViewerType
  <2>5. chunk <= MaxSequence + 1 /\ c.sequence <= MaxSequence + 2
    BY <1>1, <2>3
  <2> HIDE DEF y, c, chunk, w
  <2>6. y.last <= MaxSequence + 2 /\ y.frame <= MaxSequence + 1
    BY <2>2, <2>4, <2>5
  <2> QED BY <1>3, <2>1, <2>6
<1>7. ASSUME NEW u \in Viewer, Fanout!Sent(u) \/ Fanout!WakeUp(u) \/ Fanout!LoopCloses(u)
      PROVE  viewer'[v].last <= MaxSequence + 2 /\ viewer'[v].frame <= MaxSequence + 1
  <2>1. PICK at : viewer' = [viewer EXCEPT ![u].pc = at]
    BY <1>7 DEF Fanout!Sent, Fanout!WakeUp, Fanout!LoopCloses
  <2>2. viewer'[v].last = viewer[v].last /\ viewer'[v].frame = viewer[v].frame
    BY <1>1, <2>1 DEF ViewerType
  <2> QED BY <1>1, <2>2
<1>8. CASE UNCHANGED viewer
  BY <1>1, <1>8
<1> QED
  BY <1>4, <1>5, <1>6, <1>7, <1>8
  DEF Fanout!Next, Fanout!vars, Fanout!Publish, Fanout!Clear, Fanout!Retire, Fanout!Refuse, Fanout!Wake,
      Fanout!EndOfStream, Fanout!Leave, Fanout!RunPosted

LEMMA WakesShaped ==
    ASSUME FanoutInv, FanoutShaped, [Fanout!Next]_(Fanout!vars)
    PROVE  /\ notified' \subseteq Viewer /\ waking' \subseteq Viewer /\ event' \subseteq Viewer
           /\ posted' \in [Viewer -> Nat]
<1>1. /\ notified \subseteq Viewer /\ waking \subseteq Viewer /\ event \subseteq Viewer
      /\ posted \in [Viewer -> Nat]
  BY DEF FanoutShaped
<1>2. ASSUME NEW n \in 1 .. MaxChannels
      PROVE  channel[n].subscribers \subseteq Viewer /\ Fanout!Pruned(n) \subseteq Viewer
  BY DEF FanoutInv, FanoutTyped, ChannelType, Fanout!Pruned
<1>3. CASE Fanout!Publish
  <2>1. Fanout!Pruned(Fanout!Used) \subseteq Viewer
    BY <1>2, <1>3 DEF Fanout!Publish, Fanout!Channel
  <2> QED BY <1>1, <1>3, <2>1 DEF Fanout!Publish
<1>4. CASE Fanout!Clear
  <2>1. channel[current].subscribers \subseteq Viewer
    BY <1>2, <1>4 DEF Fanout!Clear, FanoutInv, FanoutTyped
  <2> QED BY <1>1, <1>4, <2>1 DEF Fanout!Clear
<1>5. CASE Fanout!Retire
  <2>1. channel[current].subscribers \subseteq Viewer
    BY <1>2, <1>5 DEF Fanout!Retire, FanoutInv, FanoutTyped
  <2> QED BY <1>1, <1>5, <2>1 DEF Fanout!Retire
<1>6. CASE Fanout!Refuse \/ UNCHANGED Fanout!vars
  BY <1>1, <1>6 DEF Fanout!Refuse, Fanout!wakeVars, Fanout!vars
<1>7. ASSUME NEW v \in Viewer, Fanout!Wake(v) \/ Fanout!Subscribe(v) \/ Fanout!Pull(v)
      PROVE  /\ notified' \subseteq Viewer /\ waking' \subseteq Viewer /\ event' \subseteq Viewer
             /\ posted' \in [Viewer -> Nat]
  BY <1>1, <1>7 DEF Fanout!Wake, Fanout!Subscribe, Fanout!Pull
<1>8. ASSUME NEW v \in Viewer, Fanout!Close(v) \/ Fanout!Sent(v) \/ Fanout!RunPosted(v) \/ Fanout!WakeUp(v) \/ Fanout!LoopCloses(v)
      PROVE  /\ notified' \subseteq Viewer /\ waking' \subseteq Viewer /\ event' \subseteq Viewer
             /\ posted' \in [Viewer -> Nat]
  BY <1>1, <1>8
  DEF Fanout!Close, Fanout!Forget, Fanout!Sent, Fanout!RunPosted, Fanout!WakeUp, Fanout!LoopCloses, Fanout!wakeVars
<1> QED
  BY <1>3, <1>4, <1>5, <1>6, <1>7, <1>8 DEF Fanout!Next, Fanout!EndOfStream, Fanout!Leave

LEMMA FanoutShapeHolds ==
    ASSUME FanoutConstants, FanoutInv, FanoutInv', FanoutShaped, [Fanout!Next]_(Fanout!vars) PROVE FanoutShaped'
<1>1. \A v \in Viewer : viewer'[v].last <= MaxSequence + 2 /\ viewer'[v].frame <= MaxSequence + 1
  BY ViewersShaped
<1> QED BY <1>1, ChannelsShaped, WakesShaped DEF FanoutShaped

(* MjpegFanout keeps its types: no sequence passes the bound.              *)
THEOREM FanoutKeepsTypes == ASSUME FanoutConstants PROVE Fanout!Spec => []Fanout!TypeOK
<1>1. Fanout!Init => FanoutInv /\ FanoutShaped
  BY FanoutInit, FanoutShapeBegins
<1>2. FanoutInv /\ FanoutShaped /\ [Fanout!Next]_(Fanout!vars) => (FanoutInv /\ FanoutShaped)'
  BY FanoutNext, FanoutShapeHolds
<1>3. FanoutInv /\ FanoutShaped => Fanout!TypeOK
  BY FanoutIsTyped
<1> QED BY <1>1, <1>2, <1>3, PTL DEF Fanout!Spec

-----------------------------------------------------------------------------
(* AlertTiming.                                                            *)
TimingConstants == IsFiniteSet(Alert) /\ IsFiniteSet(Target) /\ MaximumTimings \in Nat \ {0}

ContextType == [remaining : SUBSET Target, deferred : SUBSET Target, persisted : BOOLEAN, active : BOOLEAN]
Counters == {"eligible", "resolved", "pending", "outcomeCensored", "evictedPending", "persistenceCensored"}
CallbackType == [at : {"register", "activate", "drain"}, alert : Alert, left : SUBSET Target]

TimingTyped ==
    /\ stage \in [Alert -> {"new", "submitted", "committed", "failed", "observed"}]
    /\ targets \in [Alert -> SUBSET Target]
    /\ order \in Seq(Alert)
    /\ context \in [Alert -> ContextType]
    /\ callback = Timing!NoCallback \/ callback \in CallbackType
    /\ outcome \in [Alert -> [Target -> {"none", "taken", "final"}]]
    /\ raced \in BOOLEAN

Once(s) == \A i, j \in DOMAIN s : s[i] = s[j] => i = j

(* What an alert's context holds, by how far the alert has come.           *)
ContextOf(a) ==
    /\ ~Timing!Kept(a) => context[a] = Timing!NoContext
    /\ stage[a] = "new" => ~Timing!Kept(a)
    /\ context[a].active => context[a].persisted
    /\ context[a].persisted <=> Timing!Kept(a) /\ stage[a] = "observed"
    /\ Timing!Kept(a) /\ ~context[a].active =>
         /\ context[a].remaining \cup context[a].deferred = targets[a]
         /\ context[a].remaining \cap context[a].deferred = {}

(* What the callback of the persistence thread can rely on.                *)
CallbackOf(a) ==
    callback.at \in {"register", "activate"} /\ callback.alert = a =>
      /\ stage[a] = "observed" /\ callback.left = {}
      /\ \/ raced
         \/ targets[a] = {} /\ ~Timing!Kept(a)
         \/ Timing!Kept(a) /\ context[a].persisted /\ ~context[a].active

Open == {p \in Alert \X Target : context[p[1]].active /\ p[2] \in context[p[1]].remaining}
Taken == {p \in Alert \X Target : outcome[p[1]][p[2]] = "taken"}
OfCallback ==
    IF callback = Timing!NoCallback THEN 0
    ELSE IF callback.at = "activate" THEN Cardinality(targets[callback.alert])
    ELSE Cardinality(callback.left)

PendingAwaited == ~raced => telemetry["pending"] = Cardinality(Open) + Cardinality(Taken) + OfCallback
Balances(m) ==
    /\ m \in [Counters -> Nat]
    /\ m["eligible"] <= m["resolved"] + m["pending"] + m["evictedPending"]

TimingState == TimingTyped /\ Once(order) /\ \A a \in Alert : ContextOf(a) /\ CallbackOf(a)
TimingInv == TimingState /\ PendingAwaited /\ Balances(telemetry)

-----------------------------------------------------------------------------
LEMMA TimingCounts == \A S : Timing!Cardinality(S) = Cardinality(S)
BY DEF Cardinality, Timing!Cardinality

(* A sequence without its element at i.                                    *)
Less(s, i) == SubSeq(s, 1, i - 1) \o SubSeq(s, i + 1, Len(s))

LEMMA ConcatIs ==
    ASSUME NEW S, NEW s \in Seq(S), NEW q \in Seq(S)
    PROVE  /\ s \o q \in Seq(S) /\ Len(s \o q) = Len(s) + Len(q)
           /\ \A j \in 1 .. Len(s) + Len(q) : (s \o q)[j] = IF j <= Len(s) THEN s[j] ELSE q[j - Len(s)]
BY ConcatProperties

LEMMA OneLess ==
    ASSUME NEW S, NEW s \in Seq(S), NEW i \in 1 .. Len(s), Once(s)
    PROVE  /\ Less(s, i) \in Seq(S) /\ Once(Less(s, i))
           /\ \A j \in DOMAIN Less(s, i) : Less(s, i)[j] # s[i] /\ \E k \in DOMAIN s : s[k] = Less(s, i)[j]
           /\ \A k \in DOMAIN s : s[k] # s[i] => \E j \in DOMAIN Less(s, i) : Less(s, i)[j] = s[k]
<1>0. PICK n, s1, s2 : n = Len(s) /\ s1 = SubSeq(s, 1, i - 1) /\ s2 = SubSeq(s, i + 1, n)
  OBVIOUS
<1> PICK r : r = Less(s, i)
  OBVIOUS
<1>1. n \in Nat /\ DOMAIN s = 1 .. n /\ i \in 1 .. n /\ \A j \in 1 .. n : s[j] \in S
  BY <1>0, LenProperties, ElementOfSeq
<1>2. s1 \in Seq(S) /\ Len(s1) = i - 1 /\ \A j \in 1 .. i - 1 : s1[j] = s[j]
  <2>1. 1 \in Int /\ i - 1 \in Int /\ \A j \in 1 .. i - 1 : s[j] \in S
    BY <1>1
  <2>2. s1 \in Seq(S) /\ Len(s1) = (IF 1 <= i - 1 THEN i - 1 - 1 + 1 ELSE 0)
        /\ \A j \in 1 .. i - 1 - 1 + 1 : s1[j] = s[1 + j - 1]
    BY <1>0, <2>1, SubSeqProperties
  <2> QED BY <1>1, <2>2
<1>3. s2 \in Seq(S) /\ Len(s2) = n - i /\ \A j \in 1 .. n - i : s2[j] = s[i + j]
  <2>1. i + 1 \in Int /\ n \in Int /\ \A j \in i + 1 .. n : s[j] \in S
    BY <1>1
  <2>2. s2 \in Seq(S) /\ Len(s2) = (IF i + 1 <= n THEN n - (i + 1) + 1 ELSE 0)
        /\ \A j \in 1 .. n - (i + 1) + 1 : s2[j] = s[i + 1 + j - 1]
    BY <1>0, <2>1, SubSeqProperties
  <2>3. n - (i + 1) + 1 = n - i /\ \A j \in 1 .. n - i : i + 1 + j - 1 = i + j
    BY <1>1
  <2>4. Len(s2) = n - i
    BY <1>1, <2>2
  <2> QED BY <2>2, <2>3, <2>4
<1>4. /\ r \in Seq(S) /\ Len(r) = n - 1
      /\ \A j \in 1 .. n - 1 : r[j] = IF j < i THEN s[j] ELSE s[j + 1]
  <2>1. /\ r \in Seq(S) /\ Len(r) = Len(s1) + Len(s2)
        /\ \A j \in 1 .. Len(s1) + Len(s2) : r[j] = IF j <= Len(s1) THEN s1[j] ELSE s2[j - Len(s1)]
    <3>1. r = s1 \o s2
      BY <1>0 DEF Less
    <3>2. s1 \in Seq(S) /\ s2 \in Seq(S)
      BY <1>2, <1>3
    <3>3. /\ s1 \o s2 \in Seq(S) /\ Len(s1 \o s2) = Len(s1) + Len(s2)
          /\ \A j \in 1 .. Len(s1) + Len(s2) : (s1 \o s2)[j] = IF j <= Len(s1) THEN s1[j] ELSE s2[j - Len(s1)]
      BY <3>2, ConcatIs
    <3> QED BY <3>1, <3>3
  <2>2. Len(s1) + Len(s2) = n - 1
    <3>1. i \in Int /\ n \in Int /\ (i - 1) + (n - i) = n - 1
      BY <1>1
    <3>2. Len(s1) = i - 1 /\ Len(s2) = n - i
      BY <1>2, <1>3
    <3> QED BY <3>1, <3>2
  <2>3. \A j \in 1 .. n - 1 : r[j] = IF j <= i - 1 THEN s1[j] ELSE s2[j - (i - 1)]
    BY <1>2, <2>1, <2>2
  <2>4. ASSUME NEW j \in 1 .. n - 1 PROVE r[j] = IF j < i THEN s[j] ELSE s[j + 1]
    <3>1. CASE j < i
      <4>1. j <= i - 1 /\ j \in 1 .. i - 1
        BY <1>1, <3>1
      <4> QED BY <1>2, <2>3, <3>1, <4>1
    <3>2. CASE ~(j < i)
      <4> PICK k : k = j - (i - 1)
        OBVIOUS
      <4>1. ~(j <= i - 1) /\ k \in 1 .. n - i /\ i + k = j + 1
        BY <1>1, <3>2
      <4>2. r[j] = s2[k]
        BY <2>3, <4>1
      <4> QED BY <1>3, <3>2, <4>1, <4>2
    <3> QED BY <3>1, <3>2
  <2> QED BY <2>1, <2>2, <2>4
<1>5. DOMAIN r = 1 .. n - 1
  BY <1>4, LenProperties
<1>6. Once(r)
  <2> SUFFICES ASSUME NEW j \in 1 .. n - 1, NEW k \in 1 .. n - 1, r[j] = r[k] PROVE j = k
    BY <1>5 DEF Once
  <2> PICK l, m : l = (IF j < i THEN j ELSE j + 1) /\ m = IF k < i THEN k ELSE k + 1
    OBVIOUS
  <2>1. l \in 1 .. n /\ m \in 1 .. n
    BY <1>1
  <2>2. s[l] = s[m]
    BY <1>4
  <2>3. l = m
    BY <1>1, <2>1, <2>2 DEF Once
  <2> QED BY <1>1, <2>3
<1>7. ASSUME NEW j \in DOMAIN r PROVE r[j] # s[i] /\ \E k \in DOMAIN s : s[k] = r[j]
  <2> PICK l : l = IF j < i THEN j ELSE j + 1
    OBVIOUS
  <2>1. l \in 1 .. n /\ l # i
    <3>1. j \in 1 .. n - 1
      BY <1>5
    <3> QED BY <1>1, <3>1
  <2>2. s[l] = r[j]
    BY <1>4, <1>5
  <2> QED BY <1>1, <2>1, <2>2 DEF Once
<1>8. ASSUME NEW k \in DOMAIN s, s[k] # s[i] PROVE \E j \in DOMAIN r : r[j] = s[k]
  <2> PICK j : j = IF k < i THEN k ELSE k - 1
    OBVIOUS
  <2>1. k # i
    BY <1>8
  <2>2. j \in 1 .. n - 1 /\ k = (IF j < i THEN j ELSE j + 1)
    BY <1>1, <2>1
  <2>3. r[j] = s[k]
    BY <1>4, <2>2
  <2> QED BY <1>5, <2>2, <2>3
<1> QED BY <1>4, <1>6, <1>7, <1>8

LEMMA DropLoses ==
    ASSUME TimingState, NEW a \in Alert, Timing!Drop(a)
    PROVE  /\ order' \in Seq(Alert) /\ Once(order)'
           /\ \A b \in Alert : Timing!Kept(b)' <=> Timing!Kept(b) /\ b # a
           /\ context' = [context EXCEPT ![a] = Timing!NoContext]
<1>1. order \in Seq(Alert) /\ Once(order)
  BY DEF TimingState, TimingTyped
<1>2. CASE ~Timing!Kept(a)
  <2>1. order' = order
    BY <1>2 DEF Timing!Drop
  <2> QED BY <1>1, <1>2, <2>1 DEF Timing!Drop, Timing!Kept, Once
<1>3. CASE Timing!Kept(a)
  <2>1. \E j \in DOMAIN order : order[j] = a
    BY <1>3 DEF Timing!Kept
  <2>2. PICK i \in DOMAIN order : order[i] = a /\ order' = Less(order, i)
    BY <1>3, <2>1 DEF Timing!Drop, Timing!RemoveAt, Less
  <2>3. order' \in Seq(Alert) /\ Once(order')
        /\ (\A j \in DOMAIN order' : order'[j] # order[i] /\ \E k \in DOMAIN order : order[k] = order'[j])
        /\ (\A k \in DOMAIN order : order[k] # order[i] => \E j \in DOMAIN order' : order'[j] = order[k])
    <3>1. i \in 1 .. Len(order)
      BY <1>1, LenProperties
    <3> QED BY <1>1, <2>2, <3>1, OneLess
  <2>4. \A b \in Alert : (\E j \in DOMAIN order' : order'[j] = b) <=> (\E j \in DOMAIN order : order[j] = b) /\ b # a
    BY <2>2, <2>3
  <2> QED BY <2>3, <2>4 DEF Timing!Kept, Once, Timing!Drop
<1> QED BY <1>2, <1>3

LEMMA FirstLess ==
    ASSUME NEW S, NEW s \in Seq(S), s # << >>, Once(s)
    PROVE  /\ Tail(s) \in Seq(S) /\ Once(Tail(s)) /\ Head(s) \in S /\ \E k \in DOMAIN s : s[k] = Head(s)
           /\ \A j \in DOMAIN Tail(s) : Tail(s)[j] # Head(s) /\ \E k \in DOMAIN s : s[k] = Tail(s)[j]
           /\ \A k \in DOMAIN s : s[k] # Head(s) => \E j \in DOMAIN Tail(s) : Tail(s)[j] = s[k]
<1> PICK n, r : n = Len(s) /\ r = Tail(s)
  OBVIOUS
<1>1. n \in Nat \ {0} /\ DOMAIN s = 1 .. n /\ Head(s) = s[1]
  BY LenProperties, EmptySeq
<1>2. /\ r \in Seq(S) /\ DOMAIN r = 1 .. n - 1 /\ Head(s) \in S
      /\ \A j \in 1 .. n - 1 : r[j] = s[j + 1]
  BY HeadTailProperties, LenProperties
<1>3. \A j \in 1 .. n - 1 : j + 1 \in 1 .. n /\ j + 1 # 1
  BY <1>1
<1>4. Once(r)
  BY <1>1, <1>2, <1>3 DEF Once
<1>5. \A j \in 1 .. n - 1 : r[j] # s[1] /\ \E k \in 1 .. n : s[k] = r[j]
  BY <1>1, <1>2, <1>3 DEF Once
<1>6. ASSUME NEW k \in 1 .. n, s[k] # s[1] PROVE \E j \in 1 .. n - 1 : r[j] = s[k]
  <2>1. k - 1 \in 1 .. n - 1 /\ (k - 1) + 1 = k
    BY <1>1, <1>6
  <2> QED BY <1>2, <2>1
<1>7. /\ \A j \in DOMAIN r : r[j] # Head(s) /\ \E k \in DOMAIN s : s[k] = r[j]
      /\ \A k \in DOMAIN s : s[k] # Head(s) => \E j \in DOMAIN r : r[j] = s[k]
  <2>1. Head(s) = s[1] /\ DOMAIN s = 1 .. n /\ DOMAIN r = 1 .. n - 1
    BY <1>1, <1>2
  <2>2. \A j \in DOMAIN r : r[j] # Head(s) /\ \E k \in DOMAIN s : s[k] = r[j]
    BY <1>5, <2>1, Zenon
  <2>3. \A k \in DOMAIN s : s[k] # Head(s) => \E j \in DOMAIN r : r[j] = s[k]
    BY <1>6, <2>1, Zenon
  <2> QED BY <2>2, <2>3
<1>8. \E k \in DOMAIN s : s[k] = Head(s)
  BY <1>1
<1>9. r \in Seq(S) /\ Head(s) \in S
  BY <1>2
<1> QED BY <1>4, <1>7, <1>8, <1>9

LEMMA OneMore ==
    ASSUME NEW S, NEW s \in Seq(S), NEW e \in S, Once(s), \A j \in DOMAIN s : s[j] # e
    PROVE  /\ Append(s, e) \in Seq(S) /\ Once(Append(s, e))
           /\ \E j \in DOMAIN Append(s, e) : Append(s, e)[j] = e
           /\ \A j \in DOMAIN Append(s, e) : Append(s, e)[j] = e \/ \E k \in DOMAIN s : s[k] = Append(s, e)[j]
           /\ \A k \in DOMAIN s : \E j \in DOMAIN Append(s, e) : Append(s, e)[j] = s[k]
<1> PICK n, r : n = Len(s) /\ r = Append(s, e)
  OBVIOUS
<1>1. n \in Nat /\ DOMAIN s = 1 .. n
  BY LenProperties
<1>2. r \in Seq(S) /\ DOMAIN r = 1 .. n + 1 /\ r[n + 1] = e /\ \A j \in 1 .. n : r[j] = s[j]
  BY AppendProperties, LenProperties
<1>3. \A j \in 1 .. n + 1 : j \in 1 .. n \/ j = n + 1
  BY <1>1
<1>4. Once(r)
  BY <1>1, <1>2, <1>3 DEF Once
<1>5. n + 1 \in 1 .. n + 1 /\ \A j \in 1 .. n : j \in 1 .. n + 1
  BY <1>1
<1>6. /\ \E j \in DOMAIN r : r[j] = e
      /\ \A j \in DOMAIN r : r[j] = e \/ \E k \in DOMAIN s : s[k] = r[j]
      /\ \A k \in DOMAIN s : \E j \in DOMAIN r : r[j] = s[k]
  BY <1>1, <1>2, <1>3, <1>5
<1> QED BY <1>2, <1>4, <1>6

Full == Len(order) = MaximumTimings

LEMMA RememberKeeps ==
    ASSUME TimingConstants, TimingState, NEW a \in Alert, NEW T \in SUBSET Target, Timing!Remember(a, T)
    PROVE  /\ order' \in Seq(Alert) /\ Once(order)'
           /\ \A b \in Alert : Timing!Kept(b)' <=> b = a \/ (Timing!Kept(b) /\ ~(Full /\ b = Head(order)))
           /\ Full => Head(order) \in Alert /\ Head(order) # a
<1>1. /\ order \in Seq(Alert) /\ Once(order) /\ \A j \in DOMAIN order : order[j] # a
      /\ order' = Append(IF Full THEN Tail(order) ELSE order, a)
  BY DEF TimingState, TimingTyped, ContextOf, Timing!Kept, Timing!Remember, Full
<1>2. CASE ~Full
  <2>1. order' = Append(order, a)
    BY <1>1, <1>2
  <2>3. /\ Append(order, a) \in Seq(Alert) /\ Once(Append(order, a))
        /\ \E j \in DOMAIN Append(order, a) : Append(order, a)[j] = a
        /\ \A j \in DOMAIN Append(order, a) : Append(order, a)[j] = a \/ \E k \in DOMAIN order : order[k] = Append(order, a)[j]
        /\ \A k \in DOMAIN order : \E j \in DOMAIN Append(order, a) : Append(order, a)[j] = order[k]
    BY <1>1, OneMore
  <2>2. /\ order' \in Seq(Alert) /\ Once(order')
        /\ \A b : (\E j \in DOMAIN order' : order'[j] = b) <=> b = a \/ \E j \in DOMAIN order : order[j] = b
    BY <2>1, <2>3
  <2> QED BY <1>2, <2>2 DEF Timing!Kept, Once
<1>3. CASE Full
  <2>1. order # << >> /\ order' = Append(Tail(order), a)
    <3>1. Len(order) # 0
      BY <1>3 DEF Full, TimingConstants
    <3> QED BY <1>1, <1>3, <3>1, EmptySeq
  <2>2. /\ Tail(order) \in Seq(Alert) /\ Once(Tail(order)) /\ Head(order) \in Alert
        /\ \E k \in DOMAIN order : order[k] = Head(order)
        /\ \A j \in DOMAIN Tail(order) : Tail(order)[j] # Head(order) /\ \E k \in DOMAIN order : order[k] = Tail(order)[j]
        /\ \A k \in DOMAIN order : order[k] # Head(order) => \E j \in DOMAIN Tail(order) : Tail(order)[j] = order[k]
    BY <1>1, <2>1, FirstLess
  <2>3. \A j \in DOMAIN Tail(order) : Tail(order)[j] # a
    BY <1>1, <2>2
  <2>7. PICK r : r = Tail(order)
    OBVIOUS
  <2>6. /\ Append(r, a) \in Seq(Alert) /\ Once(Append(r, a))
        /\ \E j \in DOMAIN Append(r, a) : Append(r, a)[j] = a
        /\ \A j \in DOMAIN Append(r, a) : Append(r, a)[j] = a \/ \E k \in DOMAIN r : r[k] = Append(r, a)[j]
        /\ \A k \in DOMAIN r : \E j \in DOMAIN Append(r, a) : Append(r, a)[j] = r[k]
    <3>1. r \in Seq(Alert) /\ Once(r) /\ \A j \in DOMAIN r : r[j] # a
      BY <2>2, <2>3, <2>7
    <3> QED BY <3>1, OneMore
  <2>4. /\ order' \in Seq(Alert) /\ Once(order')
        /\ \A b : (\E j \in DOMAIN order' : order'[j] = b) <=> b = a \/ \E j \in DOMAIN Tail(order) : Tail(order)[j] = b
    BY <2>1, <2>6, <2>7
  <2>5. \A b : (\E j \in DOMAIN Tail(order) : Tail(order)[j] = b) <=> b # Head(order) /\ \E j \in DOMAIN order : order[j] = b
    BY <2>2
  <2> QED BY <1>1, <1>3, <2>2, <2>4, <2>5 DEF Timing!Kept, Once
<1> QED BY <1>2, <1>3

-----------------------------------------------------------------------------
(* The counts.                                                             *)
LEMMA PairsFinite ==
    ASSUME TimingConstants
    PROVE  /\ \A S \in SUBSET (Alert \X Target) : IsFiniteSet(S) /\ Cardinality(S) \in Nat
           /\ \A R \in SUBSET Target : IsFiniteSet(R) /\ Cardinality(R) \in Nat
<1>1. IsFiniteSet(Alert \X Target)
  BY FS_Product DEF TimingConstants
<1>2. ASSUME NEW S \in SUBSET (Alert \X Target) PROVE IsFiniteSet(S) /\ Cardinality(S) \in Nat
  <2>1. IsFiniteSet(S)
    BY <1>1, FS_Subset
  <2> QED BY <2>1, FS_CardinalityType
<1>3. ASSUME NEW R \in SUBSET Target PROVE IsFiniteSet(R) /\ Cardinality(R) \in Nat
  <2>1. IsFiniteSet(R)
    BY FS_Subset DEF TimingConstants
  <2> QED BY <2>1, FS_CardinalityType
<1> QED BY <1>2, <1>3

(* The pairs of one alert.                                                 *)
LEMMA PairsOf ==
    ASSUME TimingConstants, NEW a \in Alert, NEW R \in SUBSET Target
    PROVE  /\ {a} \X R \subseteq Alert \X Target /\ Cardinality({a} \X R) = Cardinality(R)
           /\ IsFiniteSet({a} \X R) /\ IsFiniteSet(R) /\ Cardinality(R) \in Nat
<1>1. IsFiniteSet(R) /\ Cardinality(R) \in Nat
  BY PairsFinite
<1>2. IsFiniteSet({a}) /\ Cardinality({a}) = 1
  BY FS_Singleton
<1>3. IsFiniteSet({a} \X R) /\ Cardinality({a} \X R) = Cardinality({a}) * Cardinality(R)
  BY <1>1, <1>2, FS_Product
<1>4. Cardinality({a} \X R) = Cardinality(R)
  BY <1>1, <1>2, <1>3
<1> QED BY <1>1, <1>3, <1>4

LEMMA PairsLeave ==
    ASSUME TimingConstants, NEW a \in Alert, NEW R \in SUBSET Target, NEW S \in SUBSET (Alert \X Target), {a} \X R \subseteq S
    PROVE  Cardinality(S \ ({a} \X R)) = Cardinality(S) - Cardinality(R) /\ Cardinality(S) >= Cardinality(R)
<1> PICK P : P = {a} \X R
  OBVIOUS
<1>1. IsFiniteSet(S) /\ S \cap P = P /\ Cardinality(P) = Cardinality(R)
  BY PairsFinite, PairsOf
<1>2. Cardinality(S \ P) = Cardinality(S) - Cardinality(S \cap P)
  BY <1>1, FS_Difference
<1>3. Cardinality(P) <= Cardinality(S) /\ Cardinality(P) \in Nat /\ Cardinality(S) \in Nat
  <2>1. P \in SUBSET S
    OBVIOUS
  <2>2. Cardinality(P) <= Cardinality(S)
    BY <1>1, <2>1, FS_Subset
  <2>3. Cardinality(R) \in Nat /\ Cardinality(S) \in Nat
    BY PairsFinite
  <2> QED BY <1>1, <2>2, <2>3
<1> QED BY <1>1, <1>2, <1>3

LEMMA PairsJoin ==
    ASSUME TimingConstants, NEW a \in Alert, NEW R \in SUBSET Target, NEW S \in SUBSET (Alert \X Target),
           ({a} \X R) \cap S = {}
    PROVE  Cardinality(S \cup ({a} \X R)) = Cardinality(S) + Cardinality(R)
<1> PICK P : P = {a} \X R
  OBVIOUS
<1>1. IsFiniteSet(S) /\ IsFiniteSet(P) /\ S \cap P = {} /\ Cardinality(P) = Cardinality(R) /\ Cardinality(P) \in Nat
      /\ Cardinality(S) \in Nat
  BY PairsFinite, PairsOf
<1>2. Cardinality(S \cup P) = Cardinality(S) + Cardinality(P) - Cardinality(S \cap P)
  BY <1>1, FS_Union
<1>3. Cardinality(S \cap P) = 0
  BY <1>1, FS_EmptySet
<1> QED BY <1>1, <1>2, <1>3

-----------------------------------------------------------------------------
(* Every step keeps the state.                                             *)
LEMMA NoContextIsOne ==
    /\ Timing!NoContext \in ContextType
    /\ Timing!NoContext.remaining = {} /\ Timing!NoContext.deferred = {}
    /\ ~Timing!NoContext.persisted /\ ~Timing!NoContext.active
BY DEF Timing!NoContext, ContextType

LEMMA FreshContext ==
    ASSUME NEW T \in SUBSET Target
    PROVE  /\ [Timing!NoContext EXCEPT !.remaining = T] \in ContextType
           /\ [Timing!NoContext EXCEPT !.remaining = T].remaining = T
           /\ [Timing!NoContext EXCEPT !.remaining = T].deferred = {}
           /\ ~[Timing!NoContext EXCEPT !.remaining = T].persisted
           /\ ~[Timing!NoContext EXCEPT !.remaining = T].active
BY DEF Timing!NoContext, ContextType

LEMMA PersistedContext ==
    ASSUME NEW c \in ContextType
    PROVE  /\ [c EXCEPT !.persisted = TRUE] \in ContextType
           /\ [c EXCEPT !.persisted = TRUE].persisted
           /\ [c EXCEPT !.persisted = TRUE].active = c.active
           /\ [c EXCEPT !.persisted = TRUE].remaining = c.remaining
           /\ [c EXCEPT !.persisted = TRUE].deferred = c.deferred
BY DEF ContextType

LEMMA ActiveContext ==
    ASSUME NEW c \in ContextType
    PROVE  /\ [c EXCEPT !.active = TRUE, !.deferred = {}] \in ContextType
           /\ [c EXCEPT !.active = TRUE, !.deferred = {}].persisted = c.persisted
           /\ [c EXCEPT !.active = TRUE, !.deferred = {}].active
           /\ [c EXCEPT !.active = TRUE, !.deferred = {}].remaining = c.remaining
BY DEF ContextType

LEMMA RememberState ==
    ASSUME TimingConstants, TimingState, NEW a \in Alert, NEW T \in SUBSET Target, Timing!Remember(a, T)
    PROVE  TimingState'
<1>1. /\ order' \in Seq(Alert) /\ Once(order)'
      /\ \A b \in Alert : Timing!Kept(b)' <=> b = a \/ (Timing!Kept(b) /\ ~(Full /\ b = Head(order)))
      /\ Full => Head(order) \in Alert /\ Head(order) # a
  BY RememberKeeps
<1>2. /\ stage[a] = "new" /\ stage' = [stage EXCEPT ![a] = "submitted"] /\ targets' = [targets EXCEPT ![a] = T]
      /\ context' = [b \in Alert |-> IF b = a THEN [Timing!NoContext EXCEPT !.remaining = T]
                                     ELSE IF Full /\ b = Head(order) THEN Timing!NoContext ELSE context[b]]
      /\ raced' = (raced \/ (Full /\ context[Head(order)].persisted /\ ~context[Head(order)].active))
      /\ callback' = callback /\ outcome' = outcome
  BY DEF Timing!Remember, Full
<1>3. PICK empty, first : /\ empty = Timing!NoContext /\ first = [Timing!NoContext EXCEPT !.remaining = T]
                          /\ empty \in ContextType /\ ~empty.persisted /\ ~empty.active
                          /\ first \in ContextType /\ first.remaining = T /\ first.deferred = {}
                          /\ ~first.persisted /\ ~first.active
  BY NoContextIsOne, FreshContext
<1>4. TimingTyped /\ \A b \in Alert : ContextOf(b) /\ CallbackOf(b)
  BY DEF TimingState
<1>5. ASSUME NEW b \in Alert
      PROVE  /\ context'[b] = (IF b = a THEN first ELSE IF Full /\ b = Head(order) THEN empty ELSE context[b])
             /\ targets'[b] = (IF b = a THEN T ELSE targets[b])
             /\ stage'[b] = (IF b = a THEN "submitted" ELSE stage[b])
  BY <1>2, <1>3, <1>4 DEF TimingTyped
<1>6. TimingTyped'
  <2>1. stage' \in [Alert -> {"new", "submitted", "committed", "failed", "observed"}]
        /\ targets' \in [Alert -> SUBSET Target]
    BY <1>2, <1>4 DEF TimingTyped
  <2>2. context' \in [Alert -> ContextType]
    BY <1>2, <1>3, <1>4 DEF TimingTyped
  <2>3. raced' \in BOOLEAN
    BY <1>2, <1>4 DEF TimingTyped
  <2> QED BY <1>1, <1>2, <1>4, <2>1, <2>2, <2>3 DEF TimingTyped, Timing!NoCallback
<1>7. ASSUME NEW b \in Alert PROVE ContextOf(b)'
  <2>1. CASE b = a
    BY <1>1, <1>3, <1>5, <2>1 DEF ContextOf
  <2>2. CASE b # a /\ Full /\ b = Head(order)
    BY <1>1, <1>3, <1>5, <2>2 DEF ContextOf
  <2>3. CASE b # a /\ ~(Full /\ b = Head(order))
    BY <1>1, <1>4, <1>5, <2>3 DEF ContextOf
  <2> QED BY <2>1, <2>2, <2>3
<1>8. ASSUME NEW b \in Alert PROVE CallbackOf(b)'
  <2> SUFFICES ASSUME callback.at \in {"register", "activate"}, callback.alert = b PROVE CallbackOf(b)'
    BY <1>2 DEF CallbackOf
  <2>1. stage[b] = "observed" /\ callback.left = {} /\ b # a
        /\ \/ raced
           \/ targets[b] = {} /\ ~Timing!Kept(b)
           \/ Timing!Kept(b) /\ context[b].persisted /\ ~context[b].active
    BY <1>2, <1>4 DEF CallbackOf
  <2>2. raced => raced'
    BY <1>2
  <2>3. CASE Timing!Kept(b) /\ context[b].persisted /\ ~context[b].active
    <3>1. CASE Full /\ b = Head(order)
      <4>1. raced'
        BY <1>2, <2>3, <3>1
      <4> QED BY <1>2, <1>5, <2>1, <4>1 DEF CallbackOf
    <3>2. CASE ~(Full /\ b = Head(order))
      BY <1>1, <1>2, <1>5, <2>1, <2>3, <3>2 DEF CallbackOf
    <3> QED BY <3>1, <3>2
  <2> QED BY <1>1, <1>2, <1>5, <2>1, <2>2, <2>3 DEF CallbackOf
<1> QED BY <1>1, <1>6, <1>7, <1>8 DEF TimingState

LEMMA CommitState ==
    ASSUME TimingState, NEW a \in Alert, Timing!Commit(a)
    PROVE  TimingState'
<1>1. /\ stage[a] = "submitted" /\ stage' = [stage EXCEPT ![a] = "committed"]
      /\ UNCHANGED <<targets, order, context, callback, outcome, raced>>
  BY DEF Timing!Commit
<1>2. TimingTyped /\ Once(order) /\ \A b \in Alert : ContextOf(b) /\ CallbackOf(b)
  BY DEF TimingState
<1>3. ASSUME NEW b \in Alert
      PROVE  /\ stage'[b] = (IF b = a THEN "committed" ELSE stage[b])
             /\ Timing!Kept(b)' <=> Timing!Kept(b)
  BY <1>1, <1>2 DEF TimingTyped, Timing!Kept
<1>4. TimingTyped'
  BY <1>1, <1>2 DEF TimingTyped, Timing!NoCallback
<1>5. ASSUME NEW b \in Alert PROVE ContextOf(b)'
  BY <1>1, <1>2, <1>3 DEF ContextOf
<1>6. ASSUME NEW b \in Alert PROVE CallbackOf(b)'
  BY <1>1, <1>2, <1>3 DEF CallbackOf
<1>7. Once(order)'
  BY <1>1, <1>2 DEF Once
<1> QED BY <1>4, <1>5, <1>6, <1>7 DEF TimingState

LEMMA PersistFailsState ==
    ASSUME TimingState, NEW a \in Alert, Timing!PersistFails(a)
    PROVE  TimingState'
<1>1. /\ stage[a] = "submitted" /\ stage' = [stage EXCEPT ![a] = "failed"] /\ Timing!Drop(a)
      /\ UNCHANGED <<targets, callback, outcome, raced>>
  BY DEF Timing!PersistFails
<1>2. TimingTyped /\ \A b \in Alert : ContextOf(b) /\ CallbackOf(b)
  BY DEF TimingState
<1>3. /\ order' \in Seq(Alert) /\ Once(order)'
      /\ \A b \in Alert : Timing!Kept(b)' <=> Timing!Kept(b) /\ b # a
      /\ context' = [context EXCEPT ![a] = Timing!NoContext]
  BY <1>1, DropLoses
<1>4. PICK empty : /\ empty = Timing!NoContext /\ empty \in ContextType /\ ~empty.persisted /\ ~empty.active
  BY NoContextIsOne
<1>5. ASSUME NEW b \in Alert
      PROVE  /\ stage'[b] = (IF b = a THEN "failed" ELSE stage[b])
             /\ context'[b] = (IF b = a THEN empty ELSE context[b])
  BY <1>1, <1>2, <1>3, <1>4 DEF TimingTyped
<1>6. TimingTyped'
  <2>1. stage' \in [Alert -> {"new", "submitted", "committed", "failed", "observed"}]
    BY <1>1, <1>2 DEF TimingTyped
  <2>2. context' \in [Alert -> ContextType]
    BY <1>2, <1>3, <1>4 DEF TimingTyped
  <2> QED BY <1>1, <1>2, <1>3, <2>1, <2>2 DEF TimingTyped, Timing!NoCallback
<1>7. ASSUME NEW b \in Alert PROVE ContextOf(b)'
  <2>1. CASE b = a
    BY <1>3, <1>4, <1>5, <2>1 DEF ContextOf
  <2>2. CASE b # a
    BY <1>1, <1>2, <1>3, <1>5, <2>2 DEF ContextOf
  <2> QED BY <2>1, <2>2
<1>8. ASSUME NEW b \in Alert PROVE CallbackOf(b)'
  <2> SUFFICES ASSUME callback.at \in {"register", "activate"}, callback.alert = b PROVE CallbackOf(b)'
    BY <1>1 DEF CallbackOf
  <2>1. b # a
    BY <1>1, <1>2 DEF CallbackOf
  <2> QED BY <1>1, <1>2, <1>3, <1>5, <2>1 DEF CallbackOf
<1> QED BY <1>3, <1>6, <1>7, <1>8 DEF TimingState

LEMMA MarkPersistedState ==
    ASSUME TimingState, NEW a \in Alert, Timing!MarkPersisted(a)
    PROVE  TimingState'
<1>1. /\ callback = Timing!NoCallback /\ stage[a] = "committed" /\ stage' = [stage EXCEPT ![a] = "observed"]
      /\ UNCHANGED <<targets, outcome, raced>>
  BY DEF Timing!MarkPersisted
<1>2. TimingTyped /\ Once(order) /\ \A b \in Alert : ContextOf(b) /\ CallbackOf(b)
  BY DEF TimingState
<1>3. ASSUME NEW b \in Alert PROVE stage'[b] = (IF b = a THEN "observed" ELSE stage[b])
  BY <1>1, <1>2 DEF TimingTyped
<1>4. stage' \in [Alert -> {"new", "submitted", "committed", "failed", "observed"}]
  BY <1>1, <1>2 DEF TimingTyped
<1>5. CASE ~Timing!Kept(a)
  <2>1. order' = order /\ context' = context /\ callback' = callback
    BY <1>5 DEF Timing!MarkPersisted
  <2>2. \A b \in Alert : Timing!Kept(b)' <=> Timing!Kept(b)
    BY <2>1 DEF Timing!Kept
  <2>3. TimingTyped'
    BY <1>1, <1>2, <1>4, <2>1 DEF TimingTyped, Timing!NoCallback
  <2>4. ASSUME NEW b \in Alert PROVE ContextOf(b)'
    BY <1>1, <1>2, <1>3, <1>5, <2>1, <2>2 DEF ContextOf
  <2>5. ASSUME NEW b \in Alert PROVE CallbackOf(b)'
    BY <1>1, <2>1 DEF CallbackOf, Timing!NoCallback
  <2> QED BY <1>2, <2>1, <2>3, <2>4, <2>5 DEF TimingState, Once
<1>6. CASE Timing!Kept(a) /\ context[a].remaining \cup context[a].deferred = {}
  <2>1. /\ Timing!Drop(a) /\ callback' = [at |-> "register", alert |-> a, left |-> {}]
    BY <1>6 DEF Timing!MarkPersisted
  <2>2. /\ order' \in Seq(Alert) /\ Once(order)'
        /\ \A b \in Alert : Timing!Kept(b)' <=> Timing!Kept(b) /\ b # a
        /\ context' = [context EXCEPT ![a] = Timing!NoContext]
    BY <2>1, DropLoses
  <2>3. PICK empty : /\ empty = Timing!NoContext /\ empty \in ContextType /\ ~empty.persisted /\ ~empty.active
    BY NoContextIsOne
  <2>4. ASSUME NEW b \in Alert PROVE context'[b] = (IF b = a THEN empty ELSE context[b])
    BY <1>2, <2>2, <2>3 DEF TimingTyped
  <2>5. TimingTyped'
    <3>1. context' \in [Alert -> ContextType]
      BY <1>2, <2>2, <2>3 DEF TimingTyped
    <3>2. callback' \in CallbackType
      BY <2>1 DEF CallbackType
    <3> QED BY <1>1, <1>2, <1>4, <2>2, <3>1, <3>2 DEF TimingTyped
  <2>6. ASSUME NEW b \in Alert PROVE ContextOf(b)'
    <3>1. CASE b = a
      BY <2>2, <2>3, <2>4, <3>1 DEF ContextOf
    <3>2. CASE b # a
      BY <1>1, <1>2, <1>3, <2>2, <2>4, <3>2 DEF ContextOf
    <3> QED BY <3>1, <3>2
  <2>7. ASSUME NEW b \in Alert PROVE CallbackOf(b)'
    <3>1. targets[a] = {}
      BY <1>1, <1>2, <1>6 DEF ContextOf
    <3>2. callback'.alert = a /\ callback'.left = {}
      BY <2>1
    <3> QED BY <1>1, <1>3, <2>2, <3>1, <3>2 DEF CallbackOf
  <2> QED BY <2>2, <2>5, <2>6, <2>7 DEF TimingState
<1>7. CASE Timing!Kept(a) /\ context[a].remaining \cup context[a].deferred # {}
  <2>1. /\ context' = [context EXCEPT ![a].persisted = TRUE] /\ order' = order
        /\ callback' = [at |-> "register", alert |-> a, left |-> {}]
    BY <1>7 DEF Timing!MarkPersisted
  <2>2. \A b \in Alert : Timing!Kept(b)' <=> Timing!Kept(b)
    BY <2>1 DEF Timing!Kept
  <2>3. context[a] \in ContextType
    BY <1>2 DEF TimingTyped
  <2>4. PICK new : /\ new = [context[a] EXCEPT !.persisted = TRUE] /\ new \in ContextType /\ new.persisted
                   /\ new.active = context[a].active /\ new.remaining = context[a].remaining
                   /\ new.deferred = context[a].deferred
    BY <2>3, PersistedContext
  <2>5. ASSUME NEW b \in Alert PROVE context'[b] = (IF b = a THEN new ELSE context[b])
    BY <1>2, <2>1, <2>4 DEF TimingTyped
  <2>6. TimingTyped'
    <3>1. context' \in [Alert -> ContextType]
      BY <1>2, <2>1, <2>4 DEF TimingTyped
    <3>2. callback' \in CallbackType
      BY <2>1 DEF CallbackType
    <3> QED BY <1>1, <1>2, <1>4, <2>1, <3>1, <3>2 DEF TimingTyped
  <2>7. ASSUME NEW b \in Alert PROVE ContextOf(b)'
    <3>1. CASE b = a
      <4>1. /\ Timing!Kept(a)' /\ stage'[a] = "observed" /\ context'[a] = new /\ targets'[a] = targets[a]
            /\ new.persisted /\ ~new.active
            /\ new.remaining \cup new.deferred = targets[a] /\ new.remaining \cap new.deferred = {}
        <5>1. /\ ~context[a].active /\ context[a].remaining \cup context[a].deferred = targets[a]
              /\ context[a].remaining \cap context[a].deferred = {}
          BY <1>1, <1>2, <1>7 DEF ContextOf
        <5> QED BY <1>1, <1>3, <1>7, <2>2, <2>4, <2>5, <5>1
      <4> QED BY <3>1, <4>1 DEF ContextOf
    <3>2. CASE b # a
      BY <1>1, <1>2, <1>3, <2>2, <2>5, <3>2 DEF ContextOf
    <3> QED BY <3>1, <3>2
  <2>8. ASSUME NEW b \in Alert PROVE CallbackOf(b)'
    <3>1. ~context[a].active
      BY <1>1, <1>2 DEF ContextOf
    <3>2. callback'.alert = a /\ callback'.left = {}
      BY <2>1
    <3> QED BY <1>3, <1>7, <2>2, <2>4, <2>5, <3>1, <3>2 DEF CallbackOf
  <2> QED BY <1>2, <2>1, <2>6, <2>7, <2>8 DEF TimingState, Once
<1> QED BY <1>5, <1>6, <1>7

LEMMA RegisterTargetsState ==
    ASSUME TimingState, Timing!RegisterTargets
    PROVE  TimingState'
<1>1. /\ callback.at = "register" /\ callback' = [callback EXCEPT !.at = "activate"]
      /\ UNCHANGED <<stage, targets, order, context, outcome, raced>>
  BY DEF Timing!RegisterTargets
<1>2. TimingTyped /\ Once(order) /\ \A b \in Alert : ContextOf(b) /\ CallbackOf(b)
  BY DEF TimingState
<1>3. callback \in CallbackType
  BY <1>1, <1>2 DEF TimingTyped, Timing!NoCallback
<1>4. callback' \in CallbackType /\ callback'.alert = callback.alert /\ callback'.left = callback.left
  BY <1>1, <1>3 DEF CallbackType
<1>5. \A b \in Alert : Timing!Kept(b)' <=> Timing!Kept(b)
  BY <1>1 DEF Timing!Kept
<1>6. TimingTyped'
  BY <1>1, <1>2, <1>4 DEF TimingTyped
<1>7. ASSUME NEW b \in Alert PROVE ContextOf(b)'
  BY <1>1, <1>2, <1>5 DEF ContextOf
<1>8. ASSUME NEW b \in Alert PROVE CallbackOf(b)'
  BY <1>1, <1>2, <1>4, <1>5 DEF CallbackOf
<1> QED BY <1>1, <1>2, <1>6, <1>7, <1>8 DEF TimingState, Once

LEMMA ActivateState ==
    ASSUME TimingState, Timing!Activate
    PROVE  TimingState'
<1>1. callback.at = "activate" /\ UNCHANGED <<stage, targets, outcome, raced>>
  BY DEF Timing!Activate
<1>2. TimingTyped /\ Once(order) /\ \A b \in Alert : ContextOf(b) /\ CallbackOf(b)
  BY DEF TimingState
<1>3. callback \in CallbackType
  BY <1>1, <1>2 DEF TimingTyped, Timing!NoCallback
<1>4. PICK a \in Alert : a = callback.alert
  BY <1>3 DEF CallbackType
<1>5. CASE ~Timing!Kept(a)
  <2>1. order' = order /\ context' = context /\ callback' = Timing!NoCallback
    BY <1>4, <1>5 DEF Timing!Activate
  <2>2. \A b \in Alert : Timing!Kept(b)' <=> Timing!Kept(b)
    BY <2>1 DEF Timing!Kept
  <2>3. TimingTyped'
    BY <1>1, <1>2, <2>1 DEF TimingTyped, Timing!NoCallback
  <2>4. ASSUME NEW b \in Alert PROVE ContextOf(b)'
    BY <1>1, <1>2, <2>1, <2>2 DEF ContextOf
  <2>5. ASSUME NEW b \in Alert PROVE CallbackOf(b)'
    BY <2>1 DEF CallbackOf, Timing!NoCallback
  <2> QED BY <1>2, <2>1, <2>3, <2>4, <2>5 DEF TimingState, Once
<1>6. CASE Timing!Kept(a)
  <2>1. callback' = [callback EXCEPT !.at = "drain", !.left = context[a].deferred]
    BY <1>4, <1>6 DEF Timing!Activate
  <2>2. context[a] \in ContextType /\ context[a].deferred \in SUBSET Target
    BY <1>2 DEF TimingTyped, ContextType
  <2>3. callback' \in CallbackType /\ callback'.at = "drain"
    BY <1>3, <2>1, <2>2 DEF CallbackType
  <2>4. ASSUME NEW b \in Alert PROVE CallbackOf(b)'
    BY <2>3 DEF CallbackOf
  <2>5. stage[a] = "observed"
    BY <1>1, <1>2, <1>4 DEF CallbackOf
  <2>6. CASE context[a].remaining = {}
    <3>1. Timing!Drop(a)
      BY <1>4, <1>6, <2>6 DEF Timing!Activate
    <3>2. /\ order' \in Seq(Alert) /\ Once(order)'
          /\ \A b \in Alert : Timing!Kept(b)' <=> Timing!Kept(b) /\ b # a
          /\ context' = [context EXCEPT ![a] = Timing!NoContext]
      BY <3>1, DropLoses
    <3>3. PICK empty : /\ empty = Timing!NoContext /\ empty \in ContextType /\ ~empty.persisted /\ ~empty.active
      BY NoContextIsOne
    <3>4. ASSUME NEW b \in Alert PROVE context'[b] = (IF b = a THEN empty ELSE context[b])
      BY <1>2, <3>2, <3>3 DEF TimingTyped
    <3>5. context' \in [Alert -> ContextType]
      BY <1>2, <3>2, <3>3 DEF TimingTyped
    <3>6. TimingTyped'
      BY <1>1, <1>2, <2>3, <3>2, <3>5 DEF TimingTyped
    <3>7. ASSUME NEW b \in Alert PROVE ContextOf(b)'
      <4>1. CASE b = a
        BY <3>2, <3>3, <3>4, <4>1 DEF ContextOf
      <4>2. CASE b # a
        BY <1>1, <1>2, <3>2, <3>4, <4>2 DEF ContextOf
      <4> QED BY <4>1, <4>2
    <3> QED BY <2>4, <3>2, <3>6, <3>7 DEF TimingState
  <2>7. CASE context[a].remaining # {}
    <3>1. context' = [context EXCEPT ![a].active = TRUE, ![a].deferred = {}] /\ order' = order
      BY <1>4, <1>6, <2>7 DEF Timing!Activate
    <3>2. PICK new : /\ new = [context[a] EXCEPT !.active = TRUE, !.deferred = {}]
                     /\ new \in ContextType /\ new.active /\ new.persisted = context[a].persisted
      BY <2>2, ActiveContext
    <3>3. context' = [context EXCEPT ![a] = new]
      BY <3>1, <3>2
    <3>4. ASSUME NEW b \in Alert PROVE context'[b] = (IF b = a THEN new ELSE context[b])
      BY <1>2, <3>3 DEF TimingTyped
    <3>5. context' \in [Alert -> ContextType]
      BY <1>2, <3>2, <3>3 DEF TimingTyped
    <3>6. TimingTyped'
      BY <1>1, <1>2, <2>3, <3>1, <3>5 DEF TimingTyped
    <3>7. \A b \in Alert : Timing!Kept(b)' <=> Timing!Kept(b)
      BY <3>1 DEF Timing!Kept
    <3>8. ASSUME NEW b \in Alert PROVE ContextOf(b)'
      <4>1. CASE b = a
        <5>1. context'[a] = new /\ new.active /\ new.persisted /\ Timing!Kept(a)' /\ stage'[a] = "observed"
          BY <1>1, <1>2, <1>6, <2>5, <3>2, <3>4, <3>7 DEF ContextOf
        <5> QED BY <4>1, <5>1 DEF ContextOf
      <4>2. CASE b # a
        BY <1>1, <1>2, <3>4, <3>7, <4>2 DEF ContextOf
      <4> QED BY <4>1, <4>2
    <3> QED BY <1>2, <2>4, <3>1, <3>6, <3>8 DEF TimingState, Once
  <2> QED BY <2>6, <2>7
<1> QED BY <1>5, <1>6

LEMMA DrainState ==
    ASSUME TimingState, Timing!Drain
    PROVE  TimingState'
<1>1. /\ callback.at = "drain" /\ UNCHANGED <<stage, targets, order, context, outcome, raced>>
      /\ \/ callback' = Timing!NoCallback
         \/ \E t \in callback.left : callback' = [callback EXCEPT !.left = @ \ {t}]
  BY DEF Timing!Drain
<1>2. TimingTyped /\ Once(order) /\ \A b \in Alert : ContextOf(b) /\ CallbackOf(b)
  BY DEF TimingState
<1>3. callback \in CallbackType
  BY <1>1, <1>2 DEF TimingTyped, Timing!NoCallback
<1>4. /\ callback' = Timing!NoCallback \/ callback' \in CallbackType
      /\ callback'.at \notin {"register", "activate"}
  BY <1>1, <1>3 DEF CallbackType, Timing!NoCallback
<1>5. \A b \in Alert : Timing!Kept(b)' <=> Timing!Kept(b)
  BY <1>1 DEF Timing!Kept
<1>6. TimingTyped'
  BY <1>1, <1>2, <1>4 DEF TimingTyped, Timing!NoCallback
<1>7. ASSUME NEW b \in Alert PROVE ContextOf(b)'
  BY <1>1, <1>2, <1>5 DEF ContextOf
<1>8. ASSUME NEW b \in Alert PROVE CallbackOf(b)'
  BY <1>4 DEF CallbackOf
<1> QED BY <1>1, <1>2, <1>6, <1>7, <1>8 DEF TimingState, Once

LEMMA CountOutcomeState ==
    ASSUME TimingState, NEW a \in Alert, NEW t \in Target, Timing!CountOutcome(a, t)
    PROVE  TimingState'
<1>1. /\ outcome' = [outcome EXCEPT ![a][t] = "final"]
      /\ UNCHANGED <<stage, targets, order, context, callback, raced>>
  BY DEF Timing!CountOutcome
<1>2. TimingTyped /\ Once(order) /\ \A b \in Alert : ContextOf(b) /\ CallbackOf(b)
  BY DEF TimingState
<1>3. \A b \in Alert : Timing!Kept(b)' <=> Timing!Kept(b)
  BY <1>1 DEF Timing!Kept
<1>4. TimingTyped'
  BY <1>1, <1>2 DEF TimingTyped, Timing!NoCallback
<1>5. ASSUME NEW b \in Alert PROVE ContextOf(b)' /\ CallbackOf(b)'
  BY <1>1, <1>2, <1>3 DEF ContextOf, CallbackOf
<1> QED BY <1>1, <1>2, <1>4, <1>5 DEF TimingState, Once

LEMMA RecordOutcomeState ==
    ASSUME TimingState, NEW a \in Alert, NEW t \in Target, Timing!RecordOutcome(a, t)
    PROVE  TimingState'
<1>1. UNCHANGED <<stage, targets, callback, raced>>
  BY DEF Timing!RecordOutcome
<1>2. TimingTyped /\ Once(order) /\ \A b \in Alert : ContextOf(b) /\ CallbackOf(b)
  BY DEF TimingState
<1>3. outcome' \in [Alert -> [Target -> {"none", "taken", "final"}]]
  <2>1. \E v \in {"none", "taken", "final"} : outcome' = [outcome EXCEPT ![a][t] = v]
    BY DEF Timing!RecordOutcome
  <2> QED BY <1>2, <2>1 DEF TimingTyped
<1>4. CASE t \notin context[a].remaining
  <2>1. order' = order /\ context' = context
    BY <1>4 DEF Timing!RecordOutcome
  <2>2. \A b \in Alert : Timing!Kept(b)' <=> Timing!Kept(b)
    BY <2>1 DEF Timing!Kept
  <2>3. TimingTyped'
    BY <1>1, <1>2, <1>3, <2>1 DEF TimingTyped, Timing!NoCallback
  <2>4. ASSUME NEW b \in Alert PROVE ContextOf(b)' /\ CallbackOf(b)'
    BY <1>1, <1>2, <2>1, <2>2 DEF ContextOf, CallbackOf
  <2> QED BY <1>2, <2>1, <2>3, <2>4 DEF TimingState, Once
<1>5. CASE t \in context[a].remaining /\ context[a].active /\ context[a].remaining = {t}
  <2>1. Timing!Drop(a)
    BY <1>5 DEF Timing!RecordOutcome
  <2>2. /\ order' \in Seq(Alert) /\ Once(order)'
        /\ \A b \in Alert : Timing!Kept(b)' <=> Timing!Kept(b) /\ b # a
        /\ context' = [context EXCEPT ![a] = Timing!NoContext]
    BY <2>1, DropLoses
  <2>3. PICK empty : /\ empty = Timing!NoContext /\ empty \in ContextType /\ ~empty.persisted /\ ~empty.active
    BY NoContextIsOne
  <2>4. ASSUME NEW b \in Alert PROVE context'[b] = (IF b = a THEN empty ELSE context[b])
    BY <1>2, <2>2, <2>3 DEF TimingTyped
  <2>5. TimingTyped'
    <3>1. context' \in [Alert -> ContextType]
      BY <1>2, <2>2, <2>3 DEF TimingTyped
    <3> QED BY <1>1, <1>2, <1>3, <2>2, <3>1 DEF TimingTyped, Timing!NoCallback
  <2>6. ASSUME NEW b \in Alert PROVE ContextOf(b)' /\ CallbackOf(b)'
    <3>1. CASE b = a
      <4>1. ContextOf(b)'
        BY <2>2, <2>3, <2>4, <3>1 DEF ContextOf
      <4>2. callback.at \in {"register", "activate"} /\ callback.alert = a =>
              stage[a] = "observed" /\ callback.left = {} /\ raced
        <5>1. Timing!Kept(a)
          BY <1>2, <1>5, NoContextIsOne DEF ContextOf
        <5> QED BY <1>2, <1>5, <5>1 DEF CallbackOf
      <4> QED BY <1>1, <3>1, <4>1, <4>2 DEF CallbackOf
    <3>2. CASE b # a
      <4>1. ContextOf(b)'
        BY <1>1, <1>2, <2>2, <2>4, <3>2 DEF ContextOf
      <4>2. CallbackOf(b)'
        BY <1>1, <1>2, <2>2, <2>4, <3>2 DEF CallbackOf
      <4> QED BY <4>1, <4>2
    <3> QED BY <3>1, <3>2
  <2> QED BY <2>2, <2>5, <2>6 DEF TimingState
<1>6. CASE t \in context[a].remaining /\ ~(context[a].active /\ context[a].remaining = {t})
  <2>1. PICK c, R, D : /\ c = context[a] /\ R = c.remaining \ {t}
                       /\ D = IF c.active THEN c.deferred ELSE c.deferred \cup {t}
    OBVIOUS
  <2>2. /\ order' = order
        /\ context' = [context EXCEPT ![a].remaining = @ \ {t},
                                      ![a].deferred = IF context[a].active THEN @ ELSE @ \cup {t}]
    BY <1>6 DEF Timing!RecordOutcome
  <2>3. c \in ContextType /\ R \in SUBSET Target /\ D \in SUBSET Target
    BY <1>2, <2>1 DEF TimingTyped, ContextType
  <2>4. PICK new : /\ new = [c EXCEPT !.remaining = R, !.deferred = D]
                   /\ new \in ContextType /\ new.persisted = c.persisted /\ new.active = c.active
                   /\ new.remaining = R /\ new.deferred = D
    <3>1. /\ [c EXCEPT !.remaining = R, !.deferred = D] \in ContextType
          /\ [c EXCEPT !.remaining = R, !.deferred = D].persisted = c.persisted
          /\ [c EXCEPT !.remaining = R, !.deferred = D].active = c.active
          /\ [c EXCEPT !.remaining = R, !.deferred = D].remaining = R
          /\ [c EXCEPT !.remaining = R, !.deferred = D].deferred = D
      BY <2>3 DEF ContextType
    <3> QED BY <3>1, Zenon
  <2>5. context' = [context EXCEPT ![a] = new]
    BY <2>1, <2>2, <2>4
  <2>6. ASSUME NEW b \in Alert PROVE context'[b] = (IF b = a THEN new ELSE context[b])
    BY <1>2, <2>5 DEF TimingTyped
  <2>7. TimingTyped'
    <3>1. context' \in [Alert -> ContextType]
      BY <1>2, <2>4, <2>5 DEF TimingTyped
    <3> QED BY <1>1, <1>2, <1>3, <2>2, <3>1 DEF TimingTyped, Timing!NoCallback
  <2>8. \A b \in Alert : Timing!Kept(b)' <=> Timing!Kept(b)
    BY <2>2 DEF Timing!Kept
  <2>9. ASSUME NEW b \in Alert PROVE ContextOf(b)' /\ CallbackOf(b)'
    <3>1. CASE b = a
      <4>1. Timing!Kept(a) /\ context[a] = c
        BY <1>2, <1>6, <2>1, NoContextIsOne DEF ContextOf
      <4>2. ~c.active => R \cup D = targets[a] /\ R \cap D = {}
        BY <1>2, <1>6, <2>1, <4>1 DEF ContextOf
      <4>3. ContextOf(b)'
        BY <1>1, <1>2, <2>4, <2>6, <2>8, <3>1, <4>1, <4>2 DEF ContextOf
      <4>4. CallbackOf(b)'
        BY <1>1, <1>2, <2>4, <2>6, <2>8, <3>1, <4>1 DEF CallbackOf
      <4> QED BY <4>3, <4>4
    <3>2. CASE b # a
      <4>1. ContextOf(b)'
        BY <1>1, <1>2, <2>6, <2>8, <3>2 DEF ContextOf
      <4>2. CallbackOf(b)'
        BY <1>1, <1>2, <2>6, <2>8, <3>2 DEF CallbackOf
      <4> QED BY <4>1, <4>2
    <3> QED BY <3>1, <3>2
  <2> QED BY <1>2, <2>2, <2>7, <2>9 DEF TimingState, Once
<1> QED BY <1>4, <1>5, <1>6

-----------------------------------------------------------------------------
(* The counters.                                                           *)
LEMMA CountedHolds ==
    ASSUME Balances(telemetry), NEW b \in BOOLEAN
    PROVE  /\ Balances(Timing!Counted(b))
           /\ Timing!Counted(b)["pending"] = IF b /\ telemetry["pending"] > 0 THEN telemetry["pending"] - 1
                                             ELSE telemetry["pending"]
<1>1. CASE b /\ telemetry["pending"] > 0
  BY <1>1 DEF Timing!Counted, Balances, Counters
<1>2. CASE ~(b /\ telemetry["pending"] > 0)
  BY <1>2 DEF Timing!Counted, Balances, Counters
<1> QED BY <1>1, <1>2

LEMMA RegisteredHolds ==
    ASSUME Balances(telemetry), NEW n \in Nat
    PROVE  /\ Balances([telemetry EXCEPT !["eligible"] = @ + n, !["pending"] = @ + n])
           /\ [telemetry EXCEPT !["eligible"] = @ + n, !["pending"] = @ + n]["pending"] = telemetry["pending"] + n
BY DEF Balances, Counters

LEMMA EvictedHolds ==
    ASSUME Balances(telemetry), NEW n \in Nat
    PROVE  /\ Balances([telemetry EXCEPT !["pending"] = @ - Timing!Least(n, @), !["evictedPending"] = @ + n])
           /\ [telemetry EXCEPT !["pending"] = @ - Timing!Least(n, @), !["evictedPending"] = @ + n]["pending"]
                = telemetry["pending"] - Timing!Least(n, telemetry["pending"])
<1>1. telemetry["pending"] \in Nat
  BY DEF Balances, Counters
<1>2. PICK k \in Nat : k = telemetry["pending"] - Timing!Least(n, telemetry["pending"]) /\ telemetry["pending"] <= k + n
  BY <1>1 DEF Timing!Least
<1> QED BY <1>2 DEF Balances, Counters

LEMMA CensoredHolds ==
    ASSUME Balances(telemetry)
    PROVE  /\ Balances([telemetry EXCEPT !["persistenceCensored"] = @ + 1])
           /\ [telemetry EXCEPT !["persistenceCensored"] = @ + 1]["pending"] = telemetry["pending"]
BY DEF Balances, Counters

LEMMA OpenNow ==
    ASSUME TimingConstants
    PROVE  /\ Open \in SUBSET (Alert \X Target) /\ Cardinality(Open) \in Nat
           /\ Taken \in SUBSET (Alert \X Target) /\ Cardinality(Taken) \in Nat
<1>1. Open \in SUBSET (Alert \X Target) /\ Taken \in SUBSET (Alert \X Target)
  BY DEF Open, Taken
<1> QED BY <1>1, PairsFinite

LEMMA OpenSame ==
    ASSUME \A b \in Alert : \/ ~context'[b].active /\ ~context[b].active
                            \/ context'[b].active /\ context[b].active /\ context'[b].remaining = context[b].remaining
    PROVE  Open' = Open
BY DEF Open

LEMMA CallbackSame ==
    ASSUME callback' = callback, UNCHANGED targets
    PROVE  OfCallback' = OfCallback
BY DEF OfCallback, Timing!NoCallback

LEMMA TakenSame ==
    ASSUME UNCHANGED outcome
    PROVE  Taken' = Taken
BY DEF Taken

LEMMA RememberCounts ==
    ASSUME TimingConstants, TimingInv, NEW a \in Alert, NEW T \in SUBSET Target, Timing!Remember(a, T)
    PROVE  PendingAwaited' /\ Balances(telemetry)'
<1>1. TimingTyped /\ Balances(telemetry) /\ PendingAwaited /\ \A b \in Alert : ContextOf(b) /\ CallbackOf(b)
  BY DEF TimingInv, TimingState
<1>2. Full => Head(order) \in Alert /\ Head(order) # a
  BY RememberKeeps DEF TimingInv
<1>3. /\ stage[a] = "new" /\ targets' = [targets EXCEPT ![a] = T]
      /\ context' = [b \in Alert |-> IF b = a THEN [Timing!NoContext EXCEPT !.remaining = T]
                                     ELSE IF Full /\ b = Head(order) THEN Timing!NoContext ELSE context[b]]
      /\ raced' = (raced \/ (Full /\ context[Head(order)].persisted /\ ~context[Head(order)].active))
      /\ callback' = callback /\ outcome' = outcome
  BY DEF Timing!Remember, Full
<1>4. ASSUME NEW b \in Alert
      PROVE  /\ b = a => ~context'[b].active /\ ~context[b].active
             /\ b # a /\ Full /\ b = Head(order) => ~context'[b].active
             /\ b # a /\ ~(Full /\ b = Head(order)) => context'[b] = context[b]
  <2>1. CASE b = a
    <3>1. ~context[b].active
      BY <1>1, <1>3, <2>1, NoContextIsOne DEF ContextOf
    <3>2. context'[b] = [Timing!NoContext EXCEPT !.remaining = T]
      BY <1>3, <2>1
    <3> QED BY <2>1, <3>1, <3>2, FreshContext
  <2>2. CASE b # a
    BY <1>3, <2>2, NoContextIsOne
  <2> QED BY <2>1, <2>2
<1>5. OfCallback' = OfCallback
  <2>1. CASE callback.at = "activate"
    <3>1. callback.alert \in Alert
      BY <1>1, <2>1 DEF TimingTyped, CallbackType, Timing!NoCallback
    <3>2. callback.alert # a
      BY <1>1, <1>3, <2>1 DEF CallbackOf
    <3>3. targets'[callback.alert] = targets[callback.alert]
      BY <1>1, <1>3, <3>1, <3>2 DEF TimingTyped
    <3> QED BY <1>3, <3>3 DEF OfCallback, Timing!NoCallback
  <2>2. CASE callback.at # "activate"
    BY <1>3, <2>2 DEF OfCallback, Timing!NoCallback
  <2> QED BY <2>1, <2>2
<1>6. Taken' = Taken
  BY <1>3, TakenSame
<1>7. CASE ~Full
  <2>1. telemetry' = telemetry
    BY <1>7 DEF Timing!Remember, Full
  <2>2. Open' = Open
    BY <1>4, <1>7, OpenSame
  <2> QED BY <1>1, <1>3, <1>5, <1>6, <2>1, <2>2 DEF PendingAwaited
<1>8. CASE Full /\ ~context[Head(order)].persisted
  <2>1. \/ telemetry' = telemetry
        \/ telemetry' = [telemetry EXCEPT !["persistenceCensored"] = @ + 1]
    BY <1>8 DEF Timing!Remember, Full
  <2>2. Balances(telemetry') /\ telemetry'["pending"] = telemetry["pending"]
    BY <1>1, <2>1, CensoredHolds
  <2>3. ~context[Head(order)].active
    BY <1>1, <1>2, <1>8 DEF ContextOf
  <2>4. Open' = Open
    BY <1>4, <2>3, OpenSame
  <2> QED BY <1>1, <1>3, <1>5, <1>6, <2>2, <2>4 DEF PendingAwaited
<1>9. CASE Full /\ context[Head(order)].persisted
  <2>1. PICK h \in Alert : h = Head(order)
    BY <1>2, <1>9
  <2>2. PICK R \in SUBSET Target : R = context[h].remaining
    BY <1>1 DEF TimingTyped, ContextType
  <2>3. PICK n \in Nat : n = Cardinality(R)
    BY PairsFinite
  <2>4. telemetry' = [telemetry EXCEPT !["pending"] = @ - Timing!Least(n, @), !["evictedPending"] = @ + n]
    <3>1. Timing!Cardinality(R) = n
      BY <2>3, TimingCounts
    <3> QED BY <1>9, <2>1, <2>2, <3>1 DEF Timing!Remember, Full
  <2>5. Balances(telemetry')
        /\ telemetry'["pending"] = telemetry["pending"] - Timing!Least(n, telemetry["pending"])
    BY <1>1, <2>4, EvictedHolds
  <2>6. ASSUME ~raced' PROVE telemetry'["pending"] = Cardinality(Open') + Cardinality(Taken') + OfCallback'
    <3>1. ~raced /\ context[h].active
      BY <1>3, <1>9, <2>1, <2>6
    <3>2. {h} \X R \subseteq Open
      BY <2>2, <3>1 DEF Open
    <3>3. Open' = Open \ ({h} \X R)
      BY <1>4, <1>9, <2>1, <2>2, <3>1 DEF Open
    <3>4. Cardinality(Open') = Cardinality(Open) - n /\ Cardinality(Open) >= n
      <4>1. Open \in SUBSET (Alert \X Target)
        BY OpenNow
      <4>2. Cardinality(Open \ ({h} \X R)) = Cardinality(Open) - n /\ Cardinality(Open) >= n
        BY <2>3, <3>2, <4>1, PairsLeave
      <4> QED BY <3>3, <4>2
    <3>5. telemetry["pending"] = Cardinality(Open) + Cardinality(Taken) + OfCallback
      BY <1>1, <3>1 DEF PendingAwaited
    <3>6. OfCallback \in Nat /\ Cardinality(Taken) \in Nat /\ Cardinality(Open) \in Nat
      <4>1. callback # Timing!NoCallback => callback.left \in SUBSET Target /\ targets[callback.alert] \in SUBSET Target
        BY <1>1 DEF TimingTyped, CallbackType
      <4>2. OfCallback \in Nat
        BY <4>1, PairsFinite DEF OfCallback
      <4> QED BY <4>2, OpenNow
    <3>7. Timing!Least(n, telemetry["pending"]) = n
      BY <3>4, <3>5, <3>6 DEF Timing!Least
    <3> QED BY <1>5, <1>6, <2>5, <3>4, <3>5, <3>6, <3>7
  <2> QED BY <2>5, <2>6 DEF PendingAwaited
<1> QED BY <1>7, <1>8, <1>9

(* A step that counts nothing and opens nothing.                           *)
LEMMA CountsSame ==
    ASSUME TimingInv, raced' = raced, OfCallback' = OfCallback, Open' = Open, Taken' = Taken,
           Balances(telemetry'), telemetry'["pending"] = telemetry["pending"]
    PROVE  PendingAwaited' /\ Balances(telemetry)'
BY DEF TimingInv, PendingAwaited

LEMMA OfCallbackIsNat ==
    ASSUME TimingConstants, TimingTyped
    PROVE  OfCallback \in Nat
<1>1. callback # Timing!NoCallback => callback.left \in SUBSET Target /\ targets[callback.alert] \in SUBSET Target
  BY DEF TimingTyped, CallbackType
<1> QED BY <1>1, PairsFinite DEF OfCallback

LEMMA PersistFailsCounts ==
    ASSUME TimingInv, NEW a \in Alert, Timing!PersistFails(a)
    PROVE  PendingAwaited' /\ Balances(telemetry)'
<1>1. /\ stage[a] = "submitted" /\ Timing!Drop(a)
      /\ UNCHANGED <<targets, callback, outcome, telemetry, raced>>
  BY DEF Timing!PersistFails
<1>2. TimingTyped /\ ContextOf(a) /\ Balances(telemetry)
  BY DEF TimingInv, TimingState
<1>3. ~context[a].active
  BY <1>1, <1>2 DEF ContextOf
<1>4. context' = [context EXCEPT ![a] = Timing!NoContext]
  BY <1>1 DEF Timing!Drop
<1>5. \A b \in Alert : context'[b] = IF b = a THEN Timing!NoContext ELSE context[b]
  BY <1>2, <1>4 DEF TimingTyped
<1>6. Open' = Open
  BY <1>3, <1>5, NoContextIsOne, OpenSame
<1>7. Taken' = Taken /\ OfCallback' = OfCallback
  BY <1>1, TakenSame, CallbackSame
<1> QED BY <1>1, <1>2, <1>6, <1>7, CountsSame

LEMMA MarkPersistedCounts ==
    ASSUME TimingConstants, TimingInv, NEW a \in Alert, Timing!MarkPersisted(a)
    PROVE  PendingAwaited' /\ Balances(telemetry)'
<1>1. /\ callback = Timing!NoCallback /\ stage[a] = "committed"
      /\ UNCHANGED <<targets, outcome, raced>>
  BY DEF Timing!MarkPersisted
<1>2. TimingTyped /\ ContextOf(a) /\ Balances(telemetry)
  BY DEF TimingInv, TimingState
<1>3. ~context[a].active /\ context[a] \in ContextType
  BY <1>1, <1>2 DEF ContextOf, TimingTyped
<1>4. Open' = Open
  <2>1. \/ context' = context
        \/ context' = [context EXCEPT ![a] = Timing!NoContext]
        \/ context' = [context EXCEPT ![a].persisted = TRUE]
    BY DEF Timing!MarkPersisted, Timing!Drop
  <2>2. ~context'[a].active
    <3>1. CASE context' = context
      BY <1>3, <3>1
    <3>2. CASE context' = [context EXCEPT ![a] = Timing!NoContext]
      <4>1. context'[a] = Timing!NoContext
        BY <1>2, <3>2 DEF TimingTyped
      <4> QED BY <4>1, NoContextIsOne
    <3>3. CASE context' = [context EXCEPT ![a].persisted = TRUE]
      <4>1. context'[a] = [context[a] EXCEPT !.persisted = TRUE]
        BY <1>2, <3>3 DEF TimingTyped
      <4> QED BY <1>3, <4>1, PersistedContext
    <3> QED BY <2>1, <3>1, <3>2, <3>3
  <2>3. \A b \in Alert : b # a => context'[b] = context[b]
    BY <1>2, <2>1 DEF TimingTyped
  <2> QED BY <1>3, <2>2, <2>3, OpenSame
<1>5. Taken' = Taken
  BY <1>1, TakenSame
<1>6. OfCallback' = OfCallback
  <2>1. OfCallback = 0
    BY <1>1 DEF OfCallback
  <2>2. CASE callback' = callback
    BY <1>1, <2>2, CallbackSame
  <2>3. CASE callback' = [at |-> "register", alert |-> a, left |-> {}]
    <3>1. OfCallback' = Cardinality({})
      BY <2>3 DEF OfCallback, Timing!NoCallback
    <3>2. Cardinality({}) = 0
      BY FS_EmptySet
    <3> QED BY <2>1, <3>1, <3>2
  <2> QED BY <2>2, <2>3 DEF Timing!MarkPersisted
<1>7. Balances(telemetry') /\ telemetry'["pending"] = telemetry["pending"]
  <2>1. telemetry' = telemetry \/ telemetry' = [telemetry EXCEPT !["persistenceCensored"] = @ + 1]
    BY DEF Timing!MarkPersisted
  <2> QED BY <1>2, <2>1, CensoredHolds
<1> QED BY <1>1, <1>4, <1>5, <1>6, <1>7, CountsSame

LEMMA RegisterTargetsCounts ==
    ASSUME TimingConstants, TimingInv, Timing!RegisterTargets
    PROVE  PendingAwaited' /\ Balances(telemetry)'
<1>1. TimingTyped /\ Balances(telemetry) /\ PendingAwaited /\ callback.at = "register"
  BY DEF TimingInv, TimingState, Timing!RegisterTargets
<1>2. callback \in CallbackType
  BY <1>1 DEF TimingTyped, Timing!NoCallback
<1>3. PICK a \in Alert : a = callback.alert
  BY <1>2 DEF CallbackType
<1>4. PICK R \in SUBSET Target : R = targets[a]
  BY <1>1 DEF TimingTyped
<1>5. PICK n \in Nat : n = Cardinality(R)
  BY PairsFinite
<1>6. /\ telemetry' = [telemetry EXCEPT !["eligible"] = @ + n, !["pending"] = @ + n]
      /\ callback' = [callback EXCEPT !.at = "activate"]
      /\ UNCHANGED <<stage, targets, order, context, outcome, raced>>
  <2>1. Timing!Cardinality(targets[callback.alert]) = n
    BY <1>3, <1>4, <1>5, TimingCounts
  <2> QED BY <2>1 DEF Timing!RegisterTargets
<1>7. Balances(telemetry') /\ telemetry'["pending"] = telemetry["pending"] + n
  BY <1>1, <1>6, RegisteredHolds
<1>8. OfCallback = 0
  <2>1. callback.left = {}
    BY <1>1, <1>3 DEF CallbackOf, TimingInv, TimingState
  <2>2. callback # Timing!NoCallback
    BY <1>1 DEF Timing!NoCallback
  <2>3. OfCallback = Cardinality({})
    BY <1>1, <2>1, <2>2 DEF OfCallback
  <2>4. Cardinality({}) = 0
    BY FS_EmptySet
  <2> QED BY <2>3, <2>4
<1>9. OfCallback' = n
  <2>1. callback'.at = "activate" /\ callback'.alert = a
    BY <1>2, <1>3, <1>6 DEF CallbackType
  <2>2. callback' # Timing!NoCallback
    BY <2>1 DEF Timing!NoCallback
  <2>3. targets'[callback'.alert] = R
    BY <1>4, <1>6, <2>1
  <2> QED BY <1>5, <2>1, <2>2, <2>3 DEF OfCallback, Timing!NoCallback
<1>10. Open' = Open /\ Taken' = Taken
  BY <1>6 DEF Open, Taken
<1> QED BY <1>1, <1>6, <1>7, <1>8, <1>9, <1>10, OpenNow DEF PendingAwaited

LEMMA ActivateCounts ==
    ASSUME TimingConstants, TimingInv, Timing!Activate
    PROVE  PendingAwaited' /\ Balances(telemetry)'
<1>1. TimingTyped /\ Balances(telemetry) /\ callback.at = "activate"
      /\ UNCHANGED <<stage, targets, outcome, telemetry, raced>>
  BY DEF TimingInv, TimingState, Timing!Activate
<1>2. callback \in CallbackType /\ callback # Timing!NoCallback
  BY <1>1 DEF TimingTyped, Timing!NoCallback
<1>3. PICK a \in Alert : a = callback.alert
  BY <1>2 DEF CallbackType
<1>4. PICK R \in SUBSET Target, D \in SUBSET Target : R = context[a].remaining /\ D = context[a].deferred
  BY <1>1 DEF TimingTyped, ContextType
<1>5. SUFFICES ASSUME ~raced PROVE OfCallback' + Cardinality(Open') = OfCallback + Cardinality(Open)
  <2>1. Taken' = Taken /\ raced' = raced /\ telemetry' = telemetry
    BY <1>1, TakenSame
  <2>2. Cardinality(Open) \in Nat /\ Cardinality(Taken) \in Nat /\ OfCallback \in Nat
    BY <1>1, OpenNow, OfCallbackIsNat
  <2>3. TimingState'
    BY ActivateState DEF TimingInv
  <2>4. Cardinality(Open') \in Nat /\ OfCallback' \in Nat
    <3>1. TimingTyped'
      BY <2>3 DEF TimingState
    <3>2. Open' \in SUBSET (Alert \X Target)
      BY DEF Open
    <3>3. callback' # Timing!NoCallback => callback'.left \in SUBSET Target /\ targets'[callback'.alert] \in SUBSET Target
      BY <3>1 DEF TimingTyped, CallbackType, Timing!NoCallback
    <3>4. OfCallback' \in Nat
      BY <3>3, PairsFinite DEF OfCallback, Timing!NoCallback
    <3> QED BY <3>2, <3>4, PairsFinite
  <2> QED BY <2>1, <2>2, <2>4 DEF TimingInv, PendingAwaited
<1>6. OfCallback = Cardinality(targets[a])
  BY <1>1, <1>2, <1>3 DEF OfCallback
<1>7. /\ ContextOf(a)
      /\ \/ targets[a] = {} /\ ~Timing!Kept(a)
         \/ Timing!Kept(a) /\ context[a].persisted /\ ~context[a].active
  BY <1>1, <1>3, <1>5 DEF CallbackOf, TimingInv, TimingState
<1>8. CASE targets[a] = {} /\ ~Timing!Kept(a)
  <2>1. context' = context /\ callback' = Timing!NoCallback
    BY <1>3, <1>8 DEF Timing!Activate
  <2>2. Open' = Open /\ OfCallback' = 0
    BY <2>1 DEF Open, OfCallback, Timing!NoCallback
  <2>3. Cardinality({}) = 0
    BY FS_EmptySet
  <2> QED BY <1>6, <1>8, <2>2, <2>3
<1>9. CASE Timing!Kept(a) /\ ~context[a].active
  <2>1. R \cup D = targets[a] /\ R \cap D = {}
    BY <1>4, <1>7, <1>9 DEF ContextOf
  <2>2. Cardinality(R \cup D) = Cardinality(R) + Cardinality(D)
    <3>1. IsFiniteSet(R) /\ IsFiniteSet(D) /\ Cardinality(R) \in Nat /\ Cardinality(D) \in Nat
      BY PairsFinite
    <3>2. Cardinality(R \cup D) = Cardinality(R) + Cardinality(D) - Cardinality(R \cap D)
      BY <3>1, FS_Union
    <3>3. Cardinality({}) = 0
      BY FS_EmptySet
    <3>4. Cardinality(R \cap D) = 0
      BY <2>1, <3>3
    <3> QED BY <3>1, <3>2, <3>4
  <2>3. OfCallback' = Cardinality(D)
    <3>1. callback' = [callback EXCEPT !.at = "drain", !.left = D]
      BY <1>3, <1>4, <1>9 DEF Timing!Activate
    <3>2. callback'.at = "drain" /\ callback'.left = D
      BY <1>2, <3>1 DEF CallbackType
    <3>3. callback' # Timing!NoCallback
      BY <3>2 DEF Timing!NoCallback
    <3> QED BY <3>2, <3>3 DEF OfCallback, Timing!NoCallback
  <2>4. Cardinality(Open') = Cardinality(Open) + Cardinality(R)
    <3>1. CASE R = {}
      <4>1. context' = [context EXCEPT ![a] = Timing!NoContext]
        BY <1>3, <1>4, <1>9, <3>1 DEF Timing!Activate, Timing!Drop
      <4>2. \A b \in Alert : context'[b] = IF b = a THEN Timing!NoContext ELSE context[b]
        BY <1>1, <4>1 DEF TimingTyped
      <4>3. Open' = Open
        BY <1>9, <4>2, NoContextIsOne, OpenSame
      <4>4. Cardinality({}) = 0
        BY FS_EmptySet
      <4> QED BY <3>1, <4>3, <4>4, OpenNow
    <3>2. CASE R # {}
      <4>1. context' = [context EXCEPT ![a].active = TRUE, ![a].deferred = {}]
        BY <1>3, <1>4, <1>9, <3>2 DEF Timing!Activate
      <4>2. context[a] \in ContextType
        BY <1>1 DEF TimingTyped
      <4>3. context'[a].active /\ context'[a].remaining = R
        <5>1. context'[a] = [context[a] EXCEPT !.active = TRUE, !.deferred = {}]
          BY <1>1, <4>1 DEF TimingTyped
        <5> QED BY <1>4, <4>2, <5>1, ActiveContext
      <4>4. \A b \in Alert : b # a => context'[b] = context[b]
        BY <1>1, <4>1 DEF TimingTyped
      <4>5. Open' = Open \cup ({a} \X R) /\ ({a} \X R) \cap Open = {}
        BY <1>9, <4>3, <4>4 DEF Open
      <4>6. Open \in SUBSET (Alert \X Target)
        BY OpenNow
      <4>7. Cardinality(Open \cup ({a} \X R)) = Cardinality(Open) + Cardinality(R)
        BY <4>5, <4>6, PairsJoin
      <4> QED BY <4>5, <4>7
    <3> QED BY <3>1, <3>2
  <2>5. Cardinality(R) \in Nat /\ Cardinality(D) \in Nat /\ Cardinality(Open) \in Nat
    BY PairsFinite, OpenNow
  <2> QED BY <1>6, <2>1, <2>2, <2>3, <2>4, <2>5
<1> QED BY <1>7, <1>8, <1>9

LEMMA DrainCounts ==
    ASSUME TimingConstants, TimingInv, Timing!Drain
    PROVE  PendingAwaited' /\ Balances(telemetry)'
<1>1. TimingTyped /\ Balances(telemetry) /\ callback.at = "drain"
      /\ UNCHANGED <<stage, targets, order, context, outcome, raced>>
  BY DEF TimingInv, TimingState, Timing!Drain
<1>2. callback \in CallbackType /\ callback # Timing!NoCallback
  BY <1>1 DEF TimingTyped, Timing!NoCallback
<1>3. Open' = Open /\ Taken' = Taken
  BY <1>1 DEF Open, Taken
<1>4. PICK L \in SUBSET Target : L = callback.left
  BY <1>2 DEF CallbackType
<1>5. OfCallback = Cardinality(L)
  BY <1>1, <1>2, <1>4 DEF OfCallback
<1>6. CASE L = {}
  <2>1. callback' = Timing!NoCallback /\ telemetry' = telemetry
    BY <1>4, <1>6 DEF Timing!Drain
  <2>2. OfCallback' = 0
    BY <2>1 DEF OfCallback, Timing!NoCallback
  <2>3. Cardinality({}) = 0
    BY FS_EmptySet
  <2>4. OfCallback' = OfCallback
    BY <1>5, <1>6, <2>2, <2>3
  <2> QED BY <1>1, <1>3, <2>1, <2>4, CountsSame
<1>7. CASE L # {}
  <2>1. PICK t \in L : callback' = [callback EXCEPT !.left = L \ {t}] /\ telemetry' = Timing!Counted(TRUE)
    BY <1>4, <1>7 DEF Timing!Drain
  <2>2. callback'.at = "drain" /\ callback'.left = L \ {t}
    BY <1>1, <1>2, <2>1 DEF CallbackType
  <2>3. OfCallback' = Cardinality(L \ {t})
    <3>1. callback' # Timing!NoCallback
      BY <2>2 DEF Timing!NoCallback
    <3> QED BY <2>2, <3>1 DEF OfCallback, Timing!NoCallback
  <2>4. Cardinality(L \ {t}) = Cardinality(L) - 1 /\ Cardinality(L) \in Nat /\ Cardinality(L) > 0
    <3>1. IsFiniteSet(L) /\ Cardinality(L) \in Nat
      BY PairsFinite
    <3>2. Cardinality(L \ {t}) = Cardinality(L) - 1
      BY <3>1, FS_RemoveElement
    <3>3. L \ {t} \in SUBSET Target
      OBVIOUS
    <3>4. Cardinality(L \ {t}) \in Nat
      BY <3>3, PairsFinite
    <3> QED BY <3>1, <3>2, <3>4
  <2>5. Balances(telemetry') /\ telemetry'["pending"] = IF telemetry["pending"] > 0 THEN telemetry["pending"] - 1
                                                         ELSE telemetry["pending"]
    BY <1>1, <2>1, CountedHolds
  <2> QED BY <1>1, <1>3, <1>5, <2>3, <2>4, <2>5, OpenNow DEF TimingInv, PendingAwaited
<1> QED BY <1>6, <1>7

LEMMA CountOutcomeCounts ==
    ASSUME TimingConstants, TimingInv, NEW a \in Alert, NEW t \in Target, Timing!CountOutcome(a, t)
    PROVE  PendingAwaited' /\ Balances(telemetry)'
<1>1. TimingTyped /\ Balances(telemetry)
      /\ outcome[a][t] = "taken" /\ outcome' = [outcome EXCEPT ![a][t] = "final"]
      /\ telemetry' = Timing!Counted(TRUE) /\ UNCHANGED <<stage, targets, order, context, callback, raced>>
  BY DEF TimingInv, TimingState, Timing!CountOutcome
<1>2. Open' = Open /\ OfCallback' = OfCallback
  BY <1>1, CallbackSame DEF Open
<1>3. \A b \in Alert, u \in Target : outcome'[b][u] = IF b = a /\ u = t THEN "final" ELSE outcome[b][u]
  BY <1>1 DEF TimingTyped
<1>4. Taken' = Taken \ {<<a, t>>} /\ <<a, t>> \in Taken
  BY <1>1, <1>3 DEF Taken
<1>5. Cardinality(Taken \ {<<a, t>>}) = Cardinality(Taken) - 1 /\ Cardinality(Taken \ {<<a, t>>}) \in Nat
  <2>1. IsFiniteSet(Taken) /\ Taken \ {<<a, t>>} \in SUBSET (Alert \X Target)
    BY PairsFinite, OpenNow
  <2>2. Cardinality(Taken \ {<<a, t>>}) = Cardinality(Taken) - 1
    BY <1>4, <2>1, FS_RemoveElement
  <2> QED BY <2>1, <2>2, PairsFinite
<1>6. Cardinality(Taken') = Cardinality(Taken) - 1 /\ Cardinality(Taken) > 0
  BY <1>4, <1>5, OpenNow
<1>7. Balances(telemetry') /\ telemetry'["pending"] = IF telemetry["pending"] > 0 THEN telemetry["pending"] - 1
                                                       ELSE telemetry["pending"]
  BY <1>1, CountedHolds
<1>8. ~raced => telemetry["pending"] = Cardinality(Open) + Cardinality(Taken) + OfCallback
  BY DEF TimingInv, PendingAwaited
<1>9. OfCallback \in Nat /\ Cardinality(Open) \in Nat /\ Cardinality(Taken) \in Nat
  BY <1>1, OpenNow, OfCallbackIsNat
<1>10. ~raced => telemetry'["pending"] = Cardinality(Open) + (Cardinality(Taken) - 1) + OfCallback
  BY <1>6, <1>7, <1>8, <1>9
<1> QED BY <1>1, <1>2, <1>6, <1>7, <1>10 DEF PendingAwaited

LEMMA RecordOutcomeCounts ==
    ASSUME TimingConstants, TimingInv, NEW a \in Alert, NEW t \in Target, Timing!RecordOutcome(a, t)
    PROVE  PendingAwaited' /\ Balances(telemetry)'
<1>1. TimingTyped /\ Balances(telemetry) /\ outcome[a][t] = "none" /\ context[a] \in ContextType
      /\ UNCHANGED <<stage, targets, callback, raced>>
  BY DEF TimingInv, TimingState, TimingTyped, Timing!RecordOutcome
<1>2. OfCallback' = OfCallback
  BY <1>1, CallbackSame
<1>3. CASE ~(t \in context[a].remaining /\ context[a].active)
  <2>1. Taken' = Taken
    <3>1. outcome' = [outcome EXCEPT ![a][t] = "final"]
      BY <1>3 DEF Timing!RecordOutcome
    <3>2. \A b \in Alert, u \in Target : outcome'[b][u] = IF b = a /\ u = t THEN "final" ELSE outcome[b][u]
      BY <1>1, <3>1 DEF TimingTyped
    <3> QED BY <1>1, <3>2 DEF Taken
  <2>2. Open' = Open
    <3>1. CASE t \notin context[a].remaining
      <4>1. context' = context
        BY <3>1 DEF Timing!RecordOutcome
      <4> QED BY <4>1 DEF Open
    <3>2. CASE t \in context[a].remaining
      <4>1. context' = [context EXCEPT ![a].remaining = @ \ {t},
                                       ![a].deferred = IF context[a].active THEN @ ELSE @ \cup {t}]
        BY <1>3, <3>2 DEF Timing!RecordOutcome
      <4>2. /\ ~context'[a].active
            /\ \A b \in Alert : b # a => context'[b] = context[b]
        BY <1>1, <1>3, <3>2, <4>1 DEF TimingTyped, ContextType
      <4> QED BY <1>3, <3>2, <4>2, OpenSame
    <3> QED BY <3>1, <3>2
  <2>3. Balances(telemetry') /\ telemetry'["pending"] = telemetry["pending"]
    <3>1. telemetry' = telemetry \/ telemetry' = Timing!Counted(FALSE)
      BY DEF Timing!RecordOutcome
    <3>2. Balances(Timing!Counted(FALSE)) /\ Timing!Counted(FALSE)["pending"] = telemetry["pending"]
      BY <1>1, CountedHolds
    <3> QED BY <1>1, <3>1, <3>2
  <2> QED BY <1>1, <1>2, <2>1, <2>2, <2>3, CountsSame
<1>4. CASE t \in context[a].remaining /\ context[a].active
  <2>1. Cardinality(Taken') = Cardinality(Taken) + 1
    <3>1. outcome' = [outcome EXCEPT ![a][t] = "taken"]
      BY <1>4 DEF Timing!RecordOutcome
    <3>2. \A b \in Alert, u \in Target : outcome'[b][u] = IF b = a /\ u = t THEN "taken" ELSE outcome[b][u]
      BY <1>1, <3>1 DEF TimingTyped
    <3>3. Taken' = Taken \cup {<<a, t>>} /\ <<a, t>> \notin Taken
      BY <1>1, <3>2 DEF Taken
    <3>4. IsFiniteSet(Taken)
      BY PairsFinite, OpenNow
    <3>5. Cardinality(Taken \cup {<<a, t>>}) = Cardinality(Taken) + 1
      BY <3>3, <3>4, FS_AddElement
    <3> QED BY <3>3, <3>5
  <2>2. Open' = Open \ {<<a, t>>} /\ <<a, t>> \in Open
    <3>1. \/ context'[a].active /\ context'[a].remaining = context[a].remaining \ {t}
          \/ ~context'[a].active /\ context[a].remaining = {t}
      <4>1. CASE context[a].remaining = {t}
        <5>1. context' = [context EXCEPT ![a] = Timing!NoContext]
          BY <1>4, <4>1 DEF Timing!RecordOutcome, Timing!Drop
        <5>2. context'[a] = Timing!NoContext
          BY <1>1, <5>1 DEF TimingTyped
        <5> QED BY <4>1, <5>2, NoContextIsOne
      <4>2. CASE context[a].remaining # {t}
        <5>1. context' = [context EXCEPT ![a].remaining = @ \ {t},
                                         ![a].deferred = IF context[a].active THEN @ ELSE @ \cup {t}]
          BY <1>4, <4>2 DEF Timing!RecordOutcome
        <5>2. context'[a] = [context[a] EXCEPT !.remaining = context[a].remaining \ {t}, !.deferred = context[a].deferred]
          BY <1>1, <1>4, <5>1 DEF TimingTyped
        <5>3. context'[a].active /\ context'[a].remaining = context[a].remaining \ {t}
          BY <1>1, <1>4, <5>2 DEF ContextType
        <5> QED BY <5>3
      <4> QED BY <4>1, <4>2
    <3>2. \A b \in Alert : b # a => context'[b] = context[b]
      <4>1. \E R : context' = [context EXCEPT ![a] = R]
        BY <1>4 DEF Timing!RecordOutcome, Timing!Drop
      <4> QED BY <1>1, <4>1 DEF TimingTyped
    <3> QED BY <1>4, <3>1, <3>2 DEF Open
  <2>3. Cardinality(Open \ {<<a, t>>}) = Cardinality(Open) - 1
    <3>1. IsFiniteSet(Open)
      BY PairsFinite, OpenNow
    <3> QED BY <2>2, <3>1, FS_RemoveElement
  <2>4. telemetry' = telemetry
    BY <1>4 DEF Timing!RecordOutcome
  <2> QED BY <1>1, <1>2, <2>1, <2>2, <2>3, <2>4, OpenNow, OfCallbackIsNat DEF TimingInv, PendingAwaited
<1> QED BY <1>3, <1>4

LEMMA TimingNext ==
    ASSUME TimingConstants, TimingInv, Timing!Next
    PROVE  TimingInv'
<1>1. TimingState
  BY DEF TimingInv
<1>2. CASE \E a \in Alert : \E T \in SUBSET Target : Timing!Remember(a, T)
  BY <1>1, <1>2, RememberState, RememberCounts DEF TimingInv
<1>3. CASE \E a \in Alert : Timing!Commit(a)
  <2>1. PICK a \in Alert : Timing!Commit(a)
    BY <1>3
  <2>2. UNCHANGED <<targets, order, context, callback, outcome, telemetry, raced>>
    BY <2>1 DEF Timing!Commit
  <2>3. Open' = Open /\ Taken' = Taken /\ OfCallback' = OfCallback
    BY <2>2, TakenSame, CallbackSame DEF Open
  <2> QED BY <1>1, <2>1, <2>2, <2>3, CommitState, CountsSame DEF TimingInv
<1>4. CASE \E a \in Alert : Timing!PersistFails(a)
  BY <1>1, <1>4, PersistFailsState, PersistFailsCounts DEF TimingInv
<1>5. CASE \E a \in Alert : Timing!MarkPersisted(a)
  BY <1>1, <1>5, MarkPersistedState, MarkPersistedCounts DEF TimingInv
<1>6. CASE \E a \in Alert : \E t \in Target : Timing!RecordOutcome(a, t)
  BY <1>1, <1>6, RecordOutcomeState, RecordOutcomeCounts DEF TimingInv
<1>7. CASE \E a \in Alert : \E t \in Target : Timing!CountOutcome(a, t)
  BY <1>1, <1>7, CountOutcomeState, CountOutcomeCounts DEF TimingInv
<1>8. CASE Timing!RegisterTargets
  BY <1>1, <1>8, RegisterTargetsState, RegisterTargetsCounts DEF TimingInv
<1>9. CASE Timing!Activate
  BY <1>1, <1>9, ActivateState, ActivateCounts DEF TimingInv
<1>10. CASE Timing!Drain
  BY <1>1, <1>10, DrainState, DrainCounts DEF TimingInv
<1> QED BY <1>2, <1>3, <1>4, <1>5, <1>6, <1>7, <1>8, <1>9, <1>10 DEF Timing!Next

LEMMA TimingStart ==
    ASSUME TimingConstants, Timing!Init
    PROVE  TimingInv
<1>1. /\ stage = [a \in Alert |-> "new"] /\ targets = [a \in Alert |-> {}] /\ order = << >>
      /\ context = [a \in Alert |-> Timing!NoContext] /\ callback = Timing!NoCallback
      /\ outcome = [a \in Alert |-> [t \in Target |-> "none"]]
      /\ telemetry = [k \in Counters |-> 0] /\ raced = FALSE
  BY DEF Timing!Init, Counters
<1>2. order \in Seq(Alert) /\ DOMAIN order = {}
  BY <1>1, EmptySeq, LenProperties
<1>3. TimingTyped
  BY <1>1, <1>2, NoContextIsOne DEF TimingTyped
<1>4. Once(order) /\ \A a \in Alert : ~Timing!Kept(a)
  BY <1>2 DEF Once, Timing!Kept
<1>5. ASSUME NEW a \in Alert PROVE ContextOf(a) /\ CallbackOf(a)
  <2>1. context[a] = Timing!NoContext
    BY <1>1
  <2> QED BY <1>1, <1>4, <2>1, NoContextIsOne DEF ContextOf, CallbackOf, Timing!NoCallback
<1>6. Open = {} /\ Taken = {} /\ OfCallback = 0
  BY <1>1, NoContextIsOne DEF Open, Taken, OfCallback
<1>7. Cardinality({}) = 0
  BY FS_EmptySet
<1>8. PendingAwaited /\ Balances(telemetry)
  <2>1. \A k \in Counters : telemetry[k] = 0
    BY <1>1
  <2>2. telemetry \in [Counters -> Nat]
    BY <1>1
  <2>3. Cardinality(Open) = 0 /\ Cardinality(Taken) = 0
    BY <1>6, <1>7
  <2> QED BY <1>6, <2>1, <2>2, <2>3 DEF PendingAwaited, Balances, Counters
<1> QED BY <1>3, <1>4, <1>5, <1>8 DEF TimingInv, TimingState

LEMMA TimingStays == ASSUME TimingConstants PROVE TimingInv /\ [Timing!Next]_(Timing!vars) => TimingInv'
<1> SUFFICES ASSUME TimingInv, [Timing!Next]_(Timing!vars) PROVE TimingInv'
  OBVIOUS
<1>1. CASE Timing!Next
  BY <1>1, TimingNext
<1>2. CASE UNCHANGED Timing!vars
  <2>1. UNCHANGED <<stage, targets, order, context, callback, outcome, telemetry, raced>>
    BY <1>2 DEF Timing!vars
  <2>2. Open' = Open /\ Taken' = Taken /\ OfCallback' = OfCallback
    BY <2>1, TakenSame, CallbackSame DEF Open
  <2>3. TimingState'
    BY <2>1 DEF TimingInv, TimingState, TimingTyped, Once, ContextOf, CallbackOf, Timing!Kept, Timing!NoCallback
  <2> QED BY <2>1, <2>2, <2>3, CountsSame DEF TimingInv
<1> QED BY <1>1, <1>2

(* For every set of alerts and targets and every size of the registry: as  *)
(* long as no context is evicted between its persistence and its           *)
(* activation, the pending deliveries of the telemetry are exactly those   *)
(* it will still hear of, whichever of the delivery and the persistence    *)
(* callback comes first, and no eligible delivery is ever unaccounted for. *)
THEOREM DeliveriesAreAccounted ==
    ASSUME TimingConstants
    PROVE  Timing!Spec => []Timing!TimingConserved
<1>1. Timing!Init => TimingInv
  BY TimingStart
<1>2. TimingInv /\ [Timing!Next]_(Timing!vars) => TimingInv'
  BY TimingStays
<1>3. TimingInv => Timing!TimingConserved
  <2> SUFFICES ASSUME TimingInv PROVE Timing!TimingConserved
    OBVIOUS
  <2>1. Timing!Awaited = Cardinality(Open) + Cardinality(Taken) + OfCallback
    BY TimingCounts DEF Timing!Awaited, Open, Taken, OfCallback
  <2> QED BY <2>1 DEF TimingInv, PendingAwaited, Balances, Timing!TimingConserved
<1> QED BY <1>1, <1>2, <1>3, PTL DEF Timing!Spec

-----------------------------------------------------------------------------
(* The types of AlertTiming.                                               *)
(* Beside: the registry stays within its size.                             *)
Bounded == Len(order) <= MaximumTimings

LEMMA TimingIsTyped == ASSUME TimingInv, Bounded PROVE Timing!TypeOK
BY DEF TimingInv, TimingState, TimingTyped, Balances, Bounded, Timing!TypeOK, ContextType, CallbackType, Counters

LEMMA DropShortens ==
    ASSUME TimingState, NEW a \in Alert, Timing!Drop(a) PROVE Len(order') \in Nat /\ Len(order') <= Len(order)
<1>1. order \in Seq(Alert) /\ Len(order) \in Nat
  BY LenProperties DEF TimingState, TimingTyped
<1>2. CASE ~Timing!Kept(a)
  BY <1>1, <1>2 DEF Timing!Drop
<1>3. CASE Timing!Kept(a)
  <2>1. \E j \in DOMAIN order : order[j] = a
    BY <1>3 DEF Timing!Kept
  <2>2. PICK i \in DOMAIN order : order' = Less(order, i)
    BY <1>3, <2>1 DEF Timing!Drop, Timing!RemoveAt, Less
  <2> PICK n, s1, s2 : n = Len(order) /\ s1 = SubSeq(order, 1, i - 1) /\ s2 = SubSeq(order, i + 1, n)
    OBVIOUS
  <2>3. n \in Nat /\ i \in 1 .. n /\ \A j \in 1 .. n : order[j] \in Alert
    BY <1>1, <2>2, LenProperties, ElementOfSeq
  <2>4. s1 \in Seq(Alert) /\ Len(s1) = i - 1
    <3>1. 1 \in Int /\ i - 1 \in Int /\ \A j \in 1 .. i - 1 : order[j] \in Alert
      BY <2>3
    <3>2. Len(SubSeq(order, 1, i - 1)) = IF 1 <= i - 1 THEN i - 1 - 1 + 1 ELSE 0
      BY <3>1, SubSeqProperties, <1>1
    <3>3. SubSeq(order, 1, i - 1) \in Seq(Alert)
      BY <3>1, SubSeqProperties, <1>1
    <3> QED BY <2>3, <3>2, <3>3
  <2>5. s2 \in Seq(Alert) /\ Len(s2) = n - i
    <3>1. i + 1 \in Int /\ n \in Int /\ \A j \in i + 1 .. n : order[j] \in Alert
      BY <2>3
    <3>2. Len(SubSeq(order, i + 1, n)) = IF i + 1 <= n THEN n - (i + 1) + 1 ELSE 0
      BY <3>1, SubSeqProperties, <1>1
    <3>3. SubSeq(order, i + 1, n) \in Seq(Alert)
      BY <3>1, SubSeqProperties, <1>1
    <3> QED BY <2>3, <3>2, <3>3
  <2>6. order' = s1 \o s2
    BY <2>2 DEF Less
  <2>7. Len(order') = Len(s1) + Len(s2)
    BY <2>4, <2>5, <2>6, ConcatIs
  <2> QED BY <2>3, <2>4, <2>5, <2>7
<1> QED BY <1>2, <1>3

LEMMA BoundedHolds ==
    ASSUME TimingConstants, TimingInv, Bounded, [Timing!Next]_(Timing!vars) PROVE Bounded'
<1>1. /\ TimingState /\ order \in Seq(Alert) /\ Len(order) \in Nat /\ Len(order) <= MaximumTimings
      /\ MaximumTimings \in Nat /\ MaximumTimings # 0
  BY LenProperties DEF TimingInv, TimingState, TimingTyped, Bounded, TimingConstants
<1>2. ASSUME NEW a \in Alert, NEW T \in SUBSET Target, Timing!Remember(a, T) PROVE Bounded'
  <2>1. order' = Append(IF Full THEN Tail(order) ELSE order, a)
    BY <1>2 DEF Timing!Remember, Full
  <2>2. CASE Full
    <3> PICK r : r = Tail(order)
      OBVIOUS
    <3>1. order # << >>
      BY <1>1, <2>2, EmptySeq DEF Full
    <3>2. r \in Seq(Alert) /\ Len(r) = Len(order) - 1
      BY <1>1, <3>1, HeadTailProperties
    <3>3. Len(Append(r, a)) = Len(r) + 1
      BY <3>2, AppendProperties
    <3> QED BY <1>1, <2>1, <2>2, <3>2, <3>3 DEF Bounded
  <2>3. CASE ~Full
    <3>1. Len(Append(order, a)) = Len(order) + 1
      BY <1>1, AppendProperties
    <3> QED BY <1>1, <2>1, <2>3, <3>1 DEF Bounded, Full
  <2> QED BY <2>2, <2>3
<1>3. ASSUME NEW a \in Alert, Timing!Drop(a) PROVE Bounded'
  <2>1. Len(order') \in Nat /\ Len(order') <= Len(order)
    BY <1>1, <1>3, DropShortens
  <2> QED BY <1>1, <2>1 DEF Bounded
<1>4. ASSUME UNCHANGED order PROVE Bounded'
  BY <1>4 DEF Bounded
<1>5. ASSUME NEW a \in Alert, Timing!Commit(a) \/ Timing!PersistFails(a) \/ Timing!MarkPersisted(a) PROVE Bounded'
  BY <1>3, <1>4, <1>5 DEF Timing!Commit, Timing!PersistFails, Timing!MarkPersisted
<1>6. ASSUME NEW a \in Alert, NEW t \in Target, Timing!RecordOutcome(a, t) \/ Timing!CountOutcome(a, t) PROVE Bounded'
  BY <1>3, <1>4, <1>6 DEF Timing!RecordOutcome, Timing!CountOutcome
<1>7. ASSUME Timing!Activate PROVE Bounded'
  <2>1. callback.alert \in Alert
    BY <1>1, <1>7 DEF Timing!Activate, TimingState, TimingTyped, Timing!NoCallback, CallbackType
  <2> QED BY <1>3, <1>4, <1>7, <2>1 DEF Timing!Activate
<1>8. ASSUME Timing!RegisterTargets \/ Timing!Drain \/ UNCHANGED Timing!vars PROVE Bounded'
  BY <1>4, <1>8 DEF Timing!RegisterTargets, Timing!Drain, Timing!vars
<1> QED BY <1>2, <1>5, <1>6, <1>7, <1>8 DEF Timing!Next

(* AlertTiming keeps its types: the registry stays within its size.        *)
THEOREM TimingKeepsTypes == ASSUME TimingConstants PROVE Timing!Spec => []Timing!TypeOK
<1>1. Timing!Init => TimingInv /\ Bounded
  <2>1. Timing!Init => order = << >>
    BY DEF Timing!Init
  <2>2. Len(<< >>) = 0
    OBVIOUS
  <2>3. order = << >> => Bounded
    BY <2>2 DEF Bounded, TimingConstants
  <2> QED BY <2>1, <2>3, TimingStart
<1>2. TimingInv /\ Bounded /\ [Timing!Next]_(Timing!vars) => (TimingInv /\ Bounded)'
  BY TimingStays, BoundedHolds
<1>3. TimingInv /\ Bounded => Timing!TypeOK
  BY TimingIsTyped
<1> QED BY <1>1, <1>2, <1>3, PTL DEF Timing!Spec

-----------------------------------------------------------------------------
(* The components side by side.                                            *)

(* Whatever the others do, each component behaves as its module says.      *)
THEOREM SideBySide ==
    Spec => /\ Frames!Spec /\ Catalog!Spec /\ Config!Spec /\ Installer!Spec /\ Vlm!Spec
            /\ Batch!Spec /\ Violations!Spec /\ Fanout!Spec /\ Timing!Spec
<1>1. Init => /\ Frames!Init /\ Catalog!Init /\ Config!Init /\ Installer!Init /\ Vlm!Init
              /\ Batch!Init /\ Violations!Init /\ Fanout!Init /\ Timing!Init
  BY DEF Init
<1>2. [Next]_vars => [Frames!Next]_(Frames!vars)
  <2>1. Next => Frames!Next \/ UNCHANGED framesVars
    BY DEF Next, FramesStep, CatalogStep, ConfigStep, InstallerStep, VlmStep,
       BatchStep, ViolationsStep, FanoutStep, TimingStep,
       BesideCatalog, BesideConfig, BesideInstaller, BesideVlm, BesideBatch, BesideViolations, BesideFanout, BesideTiming
  <2>2. UNCHANGED vars => UNCHANGED framesVars
    BY DEF vars
  <2> QED BY <2>1, <2>2 DEF framesVars, Frames!vars
<1>3. [Next]_vars => [Catalog!Next]_(Catalog!vars)
  <2>1. Next => Catalog!Next \/ UNCHANGED catalogVars
    BY DEF Next, FramesStep, CatalogStep, ConfigStep, InstallerStep, VlmStep,
       BatchStep, ViolationsStep, FanoutStep, TimingStep,
       BesideFrames, BesideConfig, BesideInstaller, BesideVlm, BesideBatch, BesideViolations, BesideFanout, BesideTiming
  <2>2. UNCHANGED vars => UNCHANGED catalogVars
    BY DEF vars
  <2> QED BY <2>1, <2>2 DEF catalogVars, Catalog!vars
<1>4. [Next]_vars => [Config!Next]_(Config!vars)
  <2>1. Next => Config!Next \/ UNCHANGED configVars
    BY DEF Next, FramesStep, CatalogStep, ConfigStep, InstallerStep, VlmStep,
       BatchStep, ViolationsStep, FanoutStep, TimingStep,
       BesideFrames, BesideCatalog, BesideInstaller, BesideVlm, BesideBatch, BesideViolations, BesideFanout, BesideTiming
  <2>2. UNCHANGED vars => UNCHANGED configVars
    BY DEF vars
  <2> QED BY <2>1, <2>2 DEF configVars, Config!vars
<1>5. [Next]_vars => [Installer!Next]_(Installer!vars)
  <2>1. Next => Installer!Next \/ UNCHANGED installerVars
    BY DEF Next, FramesStep, CatalogStep, ConfigStep, InstallerStep, VlmStep,
       BatchStep, ViolationsStep, FanoutStep, TimingStep,
       BesideFrames, BesideCatalog, BesideConfig, BesideVlm, BesideBatch, BesideViolations, BesideFanout, BesideTiming
  <2>2. UNCHANGED vars => UNCHANGED installerVars
    BY DEF vars
  <2> QED BY <2>1, <2>2 DEF installerVars, Installer!vars
<1>6. [Next]_vars => [Vlm!Next]_(Vlm!vars)
  <2>1. Next => Vlm!Next \/ UNCHANGED vlmVars
    BY DEF Next, FramesStep, CatalogStep, ConfigStep, InstallerStep, VlmStep,
       BatchStep, ViolationsStep, FanoutStep, TimingStep,
       BesideFrames, BesideCatalog, BesideConfig, BesideInstaller, BesideBatch, BesideViolations, BesideFanout, BesideTiming
  <2>2. UNCHANGED vars => UNCHANGED vlmVars
    BY DEF vars
  <2> QED BY <2>1, <2>2 DEF vlmVars, Vlm!vars
<1>7. [Next]_vars => [Batch!Next]_(Batch!vars)
  <2>1. Next => Batch!Next \/ UNCHANGED batchVars
    BY DEF Next, FramesStep, CatalogStep, ConfigStep, InstallerStep, VlmStep,
       BatchStep, ViolationsStep, FanoutStep, TimingStep,
       BesideFrames, BesideCatalog, BesideConfig, BesideInstaller, BesideVlm, BesideViolations, BesideFanout, BesideTiming
  <2>2. UNCHANGED vars => UNCHANGED batchVars
    BY DEF vars
  <2> QED BY <2>1, <2>2 DEF batchVars, Batch!vars
<1>8. [Next]_vars => [Violations!Next]_(Violations!vars)
  <2>1. Next => Violations!Next \/ UNCHANGED violationsVars
    BY DEF Next, FramesStep, CatalogStep, ConfigStep, InstallerStep, VlmStep,
       BatchStep, ViolationsStep, FanoutStep, TimingStep,
       BesideFrames, BesideCatalog, BesideConfig, BesideInstaller, BesideVlm, BesideBatch, BesideFanout, BesideTiming
  <2>2. UNCHANGED vars => UNCHANGED violationsVars
    BY DEF vars
  <2> QED BY <2>1, <2>2 DEF violationsVars, Violations!vars
<1>9. [Next]_vars => [Fanout!Next]_(Fanout!vars)
  <2>1. Next => Fanout!Next \/ UNCHANGED fanoutVars
    BY DEF Next, FramesStep, CatalogStep, ConfigStep, InstallerStep, VlmStep,
       BatchStep, ViolationsStep, FanoutStep, TimingStep,
       BesideFrames, BesideCatalog, BesideConfig, BesideInstaller, BesideVlm, BesideBatch, BesideViolations, BesideTiming
  <2>2. UNCHANGED vars => UNCHANGED fanoutVars
    BY DEF vars
  <2> QED BY <2>1, <2>2 DEF fanoutVars, Fanout!vars
<1>10. [Next]_vars => [Timing!Next]_(Timing!vars)
  <2>1. Next => Timing!Next \/ UNCHANGED timingVars
    BY DEF Next, FramesStep, CatalogStep, ConfigStep, InstallerStep, VlmStep,
       BatchStep, ViolationsStep, FanoutStep, TimingStep,
       BesideFrames, BesideCatalog, BesideConfig, BesideInstaller, BesideVlm, BesideBatch, BesideViolations, BesideFanout
  <2>2. UNCHANGED vars => UNCHANGED timingVars
    BY DEF vars
  <2> QED BY <2>1, <2>2 DEF timingVars, Timing!vars
<1> QED
  BY <1>1, <1>2, <1>3, <1>4, <1>5, <1>6, <1>7, <1>8, <1>9, <1>10, PTL
  DEF Spec, Frames!Spec, Catalog!Spec, Config!Spec, Installer!Spec, Vlm!Spec, Batch!Spec, Violations!Spec, Fanout!Spec, Timing!Spec

(* FrameLoop: nothing that the loop of a camera shows or confirms is of an *)
(* earlier connection (video_processing.py).                               *)
THEOREM CamerasStayCurrent == ASSUME MaxDebt \in Nat \ {0} PROVE Spec => []ObservationsCurrent
BY SideBySide, NothingOld, FramesTyped, PTL DEF ObservationsCurrent

(* ModelCatalog: nobody is handed a catalogue from before the invalidation *)
(* that preceded the call (model_manager.py).                              *)
THEOREM CatalogueStaysFenced == ASSUME CallersNamed PROVE Spec => []CatalogueFenced
BY SideBySide, NothingStale, CatalogTyped, PTL DEF CatalogueFenced

(* ConfigStore: no refresh of a process undoes what the process saved      *)
(* (config_manager.py).                                                    *)
THEOREM SavesAreKept == ASSUME ConfigBounds PROVE Spec => []SavesStay
BY SideBySide, NothingUndone, ConfigKeepsTypes, PTL DEF SavesStay, ConfigBounds

(* ModelInstall: the status of a model is what its jobs made of it         *)
(* (model_manager.py).                                                     *)
THEOREM InstallsAreTruthful == ASSUME InstallConstants PROVE Spec => []InstallTruthful
BY SideBySide, StatusTruthful, InstallKeepsTypes, PTL DEF InstallTruthful

(* VlmEnrichment: a camera is silenced only by an alert of its own, one a  *)
(* spell, whatever generation of its companion raised it                   *)
(* (vlm_enrichment.py, video_processing.py).                               *)
THEOREM IncidentsAreHonest == ASSUME VlmConstants PROVE Spec => []IncidentHonest
BY SideBySide, SilenceJustified, VlmTyped, PTL DEF IncidentHonest

(* FrameBatcher: every frame handed to a batcher is in one place until it  *)
(* is answered (model_manager.py).                                         *)
THEOREM BatchesAreWhole == ASSUME BatchConstants PROVE Spec => []FrameInOnePlace
BY SideBySide, FramesAreInOnePlace, BatchTyped, PTL DEF FrameInOnePlace

(* MjpegFanout: the viewers of the live pictures are counted once each,    *)
(* and one abreast of its channel has its newest frame (mjpeg_fanout.py).  *)
THEOREM ViewersStayCounted == ASSUME FanoutConstants PROVE Spec => []ViewersCounted
BY SideBySide, ViewersAreCounted, FanoutKeepsTypes, PTL DEF ViewersCounted

(* AlertTiming: the pending deliveries of the telemetry are those it will  *)
(* still hear of (alert_timing.py).                                        *)
THEOREM TimingIsConserved == ASSUME TimingConstants PROVE Spec => []TimingConserved
BY SideBySide, DeliveriesAreAccounted, TimingKeepsTypes, PTL DEF TimingConserved

(* ViolationIncidents: an alert has its confirmations, and names the       *)
(* beginning of the run that led to it (video_processing.py).              *)
THEOREM AlertsStayJustified == ASSUME ViolationConstants PROVE Spec => AlertJustified
<1>1. [Violations!Justified]_(Violations!vars) => [Violations!Justified]_violationsVars
  BY DEF Violations!vars, violationsVars
<1> QED BY <1>1, SideBySide, AlertsAreJustified, PTL DEF AlertJustified, Violations!AlertJustified

-----------------------------------------------------------------------------
(* ObjectLifecycle, a watched zone, which has variables of its own.  The   *)
(* run that refutes DwellReachesLoop needs a poll of the dashboard; this   *)
(* is the proof that nothing else can break it.                            *)
CONSTANTS RemovalAfter, DwellAfter, MaxTime
VARIABLES now, detections, evaluating, zone, told, intended

Zone == INSTANCE ObjectLifecycle WITH shown <- detections, frame <- evaluating, row <- zone

\* The frame loop, whose source may disconnect, and time: no requests.
LoopNext ==
    \/ \E object \in BOOLEAN : Zone!Publish(object)
    \/ Zone!Evaluate
    \/ Zone!PublishPartial
    \/ Zone!Tick

LoopSpec == Zone!Init /\ [][LoopNext]_(Zone!vars)

ZoneInv ==
    /\ zone \in [present : BOOLEAN, first : Nat, last : Nat, alerted : BOOLEAN]
    /\ now \in Nat /\ told \in BOOLEAN
    /\ zone = intended
    /\ Zone!DwellReachesLoop

LEMMA LoopKeepsZone == ASSUME ZoneInv, [LoopNext]_(Zone!vars) PROVE ZoneInv'
<1>1. CASE Zone!Evaluate
  <2> DEFINE object == evaluating = "object"
             seen1 == Zone!Seen(zone)
             next == Zone!Updated(zone, object)
  <2>1. /\ zone' = next /\ intended' = next /\ now' = now
        /\ told' = IF ~next.present THEN FALSE ELSE told \/ Zone!Dwells(zone, object)
    BY <1>1 DEF Zone!Evaluate, ZoneInv
  <2>2. /\ seen1 \in [present : BOOLEAN, first : Nat, last : Nat, alerted : BOOLEAN]
        /\ seen1.alerted <=> zone.present /\ zone.alerted
    BY DEF ZoneInv, Zone!Seen
  <2>3. Zone!Dwells(zone, object) \in BOOLEAN
    BY DEF Zone!Dwells
  <2>4. CASE object
    <3>1. next = [seen1 EXCEPT !.alerted = @ \/ Zone!Dwells(zone, object)]
      BY <2>4 DEF Zone!Updated
    <3> HIDE DEF object, next, seen1
    <3>2. /\ next \in [present : BOOLEAN, first : Nat, last : Nat, alerted : BOOLEAN]
          /\ next.alerted => seen1.alerted \/ Zone!Dwells(zone, object)
      BY <2>2, <2>3, <3>1
    <3> QED BY <2>1, <2>2, <2>3, <3>2 DEF ZoneInv, Zone!DwellReachesLoop
  <2>5. CASE ~object
    <3>1. next = IF Zone!Leaves(zone, object) THEN [zone EXCEPT !.present = FALSE] ELSE zone
      BY <2>5 DEF Zone!Updated
    <3> HIDE DEF object, next, seen1
    <3>2. /\ next \in [present : BOOLEAN, first : Nat, last : Nat, alerted : BOOLEAN]
          /\ next.present => next = zone
      BY <3>1 DEF ZoneInv
    <3> QED BY <2>1, <2>3, <3>2 DEF ZoneInv, Zone!DwellReachesLoop
  <2> QED BY <2>4, <2>5
<1>2. CASE UNCHANGED <<zone, told, intended>> /\ (now' = now \/ now' = now + 1)
  BY <1>2 DEF ZoneInv, Zone!DwellReachesLoop
<1> QED BY <1>1, <1>2 DEF LoopNext, Zone!Publish, Zone!PublishPartial, Zone!Tick, Zone!vars

(* Without requests to the dashboard, a dwell that the frames of the loop  *)
(* establish is always returned to the loop, whatever the thresholds, the  *)
(* partial frames and the gaps between frames (update_object_lifecycle).   *)
THEOREM LoopAloneIsTold == LoopSpec => []Zone!DwellReachesLoop
<1>1. Zone!Init => ZoneInv
  <2>1. /\ Zone!Unseen \in [present : BOOLEAN, first : Nat, last : Nat, alerted : BOOLEAN]
        /\ ~Zone!Unseen.present
    BY DEF Zone!Unseen
  <2>2. ASSUME Zone!Init PROVE zone = Zone!Unseen /\ intended = Zone!Unseen /\ now = 0 /\ told = FALSE
    BY <2>2 DEF Zone!Init
  <2>3. ASSUME Zone!Init PROVE told \in BOOLEAN /\ ~intended.present
    <3>1. told \in BOOLEAN
      BY <2>2, <2>3, SMT
    <3>2. ~intended.present
      BY <2>1, <2>2, <2>3, Zenon
    <3> QED BY <3>1, <3>2
  <2> QED BY <2>1, <2>2, <2>3 DEF ZoneInv, Zone!DwellReachesLoop
<1> QED BY <1>1, LoopKeepsZone, PTL DEF LoopSpec, ZoneInv

=============================================================================
