----------------------- MODULE InferenceFairnessProofs -----------------------
(***************************************************************************)
(* Proofs about InferenceFairness, for any cameras, profiles and bursts.   *)
(***************************************************************************)
EXTENDS InferenceFairness, DispatchPolicyProofs

(* The order of registration gives each camera a place of its own.         *)
LEMMA OrderPlaces ==
    /\ IsFiniteSet(Camera)
    /\ Len(Order) \in Nat
    /\ Placed(Place, Len(Order), Camera)
<1>1. /\ Len(Order) \in Nat /\ DOMAIN Order = 1 .. Len(Order)
      /\ \A i, j \in DOMAIN Order : Order[i] = Order[j] => i = j
  BY FairnessAssumption
<1>2. \A c \in Camera : \E i \in DOMAIN Order : Order[i] = c
  BY DEF Camera
<1>3. \A c \in Camera : Place[c] + 1 \in DOMAIN Order /\ Order[Place[c] + 1] = c
  <2> SUFFICES ASSUME NEW c \in Camera
               PROVE  Place[c] + 1 \in DOMAIN Order /\ Order[Place[c] + 1] = c
    OBVIOUS
  <2> DEFINE i == CHOOSE i \in DOMAIN Order : Order[i] = c
  <2>1. i \in DOMAIN Order /\ Order[i] = c
    BY <1>2
  <2>2. Place[c] = i - 1
    BY DEF Place
  <2> HIDE DEF i
  <2> QED BY <2>1, <2>2, <1>1
<1>4. Place \in [Camera -> 0 .. Len(Order) - 1]
  <2>1. \A c \in Camera : (CHOOSE i \in DOMAIN Order : Order[i] = c) \in DOMAIN Order
    BY <1>2
  <2>2. \A i \in DOMAIN Order : i - 1 \in 0 .. Len(Order) - 1
    BY <1>1
  <2> QED BY <2>1, <2>2 DEF Place
<1>5. Placed(Place, Len(Order), Camera)
  BY <1>1, <1>3, <1>4 DEF Placed
<1>6. IsFiniteSet(Camera)
  <2>1. Order \in Surjection(1 .. Len(Order), Camera)
    BY <1>1, <1>2, FairnessAssumption DEF Surjection
  <2>2. IsFiniteSet(1 .. Len(Order))
    BY <1>1, FS_Interval
  <2> QED BY <2>1, <2>2, FS_Surjection
<1> QED BY <1>1, <1>5, <1>6

LEMMA Modulo == \A m, n \in Nat : n > 0 => m % n \in 0 .. n - 1
OBVIOUS

(* What is due can be dispatched.                                          *)
LEMMA DueLegal ==
    ASSUME TypeOK, NEW choice \in Due
    PROVE  /\ Legal(choice.batch, Queue, Ready, Capacity, choice.seed)
           /\ choice.streak \in 0 .. UrgentBurst
<1>1. IsFiniteSet(Camera) /\ Placed(Place, Len(Order), Camera)
  BY OrderPlaces
<1>2. Ready \in SUBSET Camera /\ Running \in SUBSET Camera
  BY DEF Ready, Running
<1>3. IsFiniteSet(Ready) /\ Cardinality(Running) \in Nat
  BY <1>1, <1>2, FS_Subset, FS_CardinalityType
<1>4. Placed(Place, Len(Order), Ready)
  BY <1>1, <1>2 DEF Placed
<1>5. Capacity \in Int
  BY <1>3, FairnessAssumption DEF Capacity
<1>6. \A c \in Ready : Queue[c].profile \in DOMAIN BatchLimit
  BY <1>2, FairnessAssumption DEF Queue
<1>7. streak \in 0 .. UrgentBurst
  BY DEF TypeOK
<1> QED BY <1>3, <1>4, <1>5, <1>6, <1>7, ChoicesLegal DEF Due

LEMMA DispatchTyped == ASSUME TypeOK, Dispatch PROVE TypeOK'
<1>1. PICK choice \in Due :
        /\ mode' = [c \in Camera |-> IF c \in choice.batch THEN "running" ELSE mode[c]]
        /\ \E last \in LastOf(Place, Len(Order), choice) :
                cursor' = CursorAfter(Place, Len(Order), last)
        /\ streak' = choice.streak
  BY DEF Dispatch
<1>2. choice.batch \subseteq Camera /\ choice.streak \in 0 .. UrgentBurst
  BY DueLegal DEF Legal, Group, Ready
<1>3. PICK last \in Camera : cursor' = (Place[last] + 1) % Len(Order)
  BY <1>1, <1>2 DEF LastOf, CursorAfter
<1>4. Place[last] \in 0 .. Len(Order) - 1 /\ Len(Order) \in Nat
  BY OrderPlaces DEF Placed
<1>5. Place[last] + 1 \in Nat /\ Len(Order) > 0
  BY <1>4
<1>6. cursor' \in 0 .. Len(Order) - 1
  BY <1>3, <1>4, <1>5, Modulo
<1> QED BY <1>1, <1>2, <1>4, <1>6 DEF TypeOK

(* Type correctness: the cursor is a camera's place, the burst is bounded. *)
THEOREM TypeCorrect == Spec => []TypeOK
<1>1. Init => TypeOK
  BY PolicyAssumption DEF Init, TypeOK
<1>2. TypeOK /\ [Next]_vars => TypeOK'
  <2> SUFFICES ASSUME TypeOK, [Next]_vars PROVE TypeOK'
    OBVIOUS
  <2>1. CASE Dispatch
    BY <2>1, DispatchTyped
  <2>2. CASE \E c \in Camera : CameraStep(c)
    BY <2>2 DEF CameraStep, Offer, End, TakeResult, TypeOK
  <2>3. CASE UNCHANGED vars
    BY <2>3 DEF vars, TypeOK
  <2> QED BY <2>1, <2>2, <2>3 DEF Next
<1> QED BY <1>1, <1>2, PTL DEF Spec

(* _select_dispatch_locked never raises "Scheduler selected an invalid     *)
(* cohort size", and its batch fits into the pool and into its profile,    *)
(* whoever waits and whichever camera is the seed.                         *)
THEOREM SelectionIsLegal == Spec => []SelectionLegal
<1>1. TypeOK => SelectionLegal
  <2> SUFFICES ASSUME TypeOK, NEW choice \in Due
               PROVE  LET size == Cardinality(choice.batch)
                      IN  /\ size \in {1, 2, 4}
                          /\ size <= Capacity
                          /\ choice.batch \subseteq Ready
                          /\ \A c, d \in choice.batch : ProfileOf[c] = ProfileOf[d]
                          /\ \A c \in choice.batch : size <= BatchLimit[ProfileOf[c]]
    BY DEF SelectionLegal
  <2>1. Legal(choice.batch, Queue, Ready, Capacity, choice.seed)
    BY DueLegal
  <2>2. \A c \in Ready : Queue[c].profile = ProfileOf[c]
    BY DEF Queue
  <2>3. \A c \in choice.batch : c \in Ready /\ ProfileOf[c] = ProfileOf[choice.seed]
    BY <2>1, <2>2 DEF Legal, Group
  <2> QED BY <2>1, <2>2, <2>3 DEF Legal, Limit
<1> QED BY <1>1, TypeCorrect, PTL

=============================================================================
