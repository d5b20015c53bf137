--------------------------- MODULE ServicesProofs ---------------------------
(***************************************************************************)
(* Proofs about components of RuntimeServices, for any cameras, callers,   *)
(* models and bounds: the loop of a capture thread, the model catalogue,   *)
(* the configuration store, the installer of models, the companions and    *)
(* the frame batchers.  Each component has a section of its own: its       *)
(* inductive invariant, a lemma for each of its operations, and the        *)
(* theorems about it alone.  RuntimeServicesProofs goes on with the others *)
(* and has the theorems about the components side by side.                 *)
(***************************************************************************)
EXTENDS RuntimeServices, FiniteSetTheorems, SequenceTheorems, TLAPS

-----------------------------------------------------------------------------
(* FrameLoop.                                                              *)

(* What inference a connection has decides what may be under way: without  *)
(* this, a drain could leave something in the mailbox and a take something *)
(* of the thread.                                                          *)
ModeOK ==
    /\ mode = "none" <=> pc \in {"waiting", "ended"}
    /\ mode # "local" => pending = "none"
    /\ mode = "none" => slot = "none" /\ mail = Frames!NoMail

FramesInv == Frames!TypeOK /\ ModeOK /\ Frames!ObservationsCurrent

Loop ==
    \/ Frames!OpenFails \/ (\E m \in {"shared", "local"} : Frames!Open(m))
    \/ Frames!Read \/ Frames!ReadFails \/ Frames!StopSeen \/ Frames!Leave \/ Frames!Raise \/ Frames!Start
    \/ Frames!TakeResult \/ Frames!TakePending \/ Frames!TakeNothing
    \/ Frames!Pass \/ Frames!Skip \/ Frames!Offer \/ Frames!OfferRefused \/ Frames!Submit

Outside ==
    \/ Frames!Dispatch \/ Frames!Expire \/ Frames!ThreadRuns
    \/ \E whose \in {"cur", "old"} :
        Frames!CallExpires(whose) \/ \E ok \in BOOLEAN : Frames!CallEnds(whose, ok)
    \/ \E ok \in BOOLEAN : Frames!ThreadEnds(ok)
    \/ Frames!SlotComes \/ Frames!GrowsOld \/ Frames!WindowEnds \/ Frames!Licence \/ Frames!Stop

-----------------------------------------------------------------------------
(* The connection tracker.                                                 *)

Tracker == [rtsp : BOOLEAN, outage : BOOLEAN, debt : 0 .. MaxDebt,
            stable : {"none", "started", "elapsed"}]
InDebt(t) == t.rtsp => (t.outage <=> t.debt > 0)

LEMMA FirstTracker ==
    ASSUME MaxDebt \in Nat \ {0}, NEW rtsp \in BOOLEAN
    PROVE  Frames!NewTracker(rtsp) \in Tracker /\ InDebt(Frames!NewTracker(rtsp))
<1>1. Frames!NewTracker(rtsp) \in Tracker
  BY DEF Tracker, Frames!NewTracker
<1>2. InDebt(Frames!NewTracker(rtsp))
  BY DEF InDebt, Frames!NewTracker
<1> QED BY <1>1, <1>2

LEMMA TrackerSteps ==
    ASSUME MaxDebt \in Nat \ {0}, NEW t \in Tracker, InDebt(t)
    PROVE  /\ Frames!Failed(t) \in Tracker /\ InDebt(Frames!Failed(t))
           /\ Frames!Framed(t) \in Tracker /\ InDebt(Frames!Framed(t))
           /\ Frames!NewTracker(t.rtsp) \in Tracker /\ InDebt(Frames!NewTracker(t.rtsp))
<1>1. t.rtsp \in BOOLEAN /\ t.debt \in 0 .. MaxDebt /\ 0 \in 0 .. MaxDebt
  BY DEF Tracker
<1>2. Frames!Failed(t) \in Tracker
  <2>1. ASSUME NEW d \in 0 .. MaxDebt, NEW o \in BOOLEAN
        PROVE  [t EXCEPT !.debt = d, !.outage = o, !.stable = "none"] \in Tracker
    BY DEF Tracker
  <2>2. (IF t.debt < MaxDebt THEN t.debt + 1 ELSE t.debt) \in 0 .. MaxDebt
    BY <1>1
  <2> QED BY <1>1, <2>1, <2>2 DEF Frames!Failed
<1>3. Frames!Framed(t) \in Tracker
  <2>1. [t EXCEPT !.stable = "started"] \in Tracker
    BY DEF Tracker
  <2>2. ASSUME NEW d \in 0 .. MaxDebt, NEW o \in BOOLEAN
        PROVE  [t EXCEPT !.outage = o, !.debt = d] \in Tracker
    BY DEF Tracker
  <2> QED BY <1>1, <2>1, <2>2 DEF Frames!Framed
<1>4. InDebt(Frames!Failed(t))
  BY DEF Tracker, InDebt, Frames!Failed
<1>5. InDebt(Frames!Framed(t))
  BY DEF Tracker, InDebt, Frames!Framed
<1> QED BY <1>1, <1>2, <1>3, <1>4, <1>5, FirstTracker

(* The gate of the submissions.                                            *)

Gate == [due : BOOLEAN, signature : BOOLEAN, recent : BOOLEAN, confirm : BOOLEAN]

LEMMA GateSteps ==
    ASSUME NEW g \in Gate
    PROVE  /\ Frames!NewGate \in Gate
           /\ [g EXCEPT !.due = TRUE] \in Gate
           /\ [g EXCEPT !.due = FALSE] \in Gate
           /\ [g EXCEPT !.recent = FALSE] \in Gate
           /\ \A r, c \in BOOLEAN :
                [g EXCEPT !.signature = TRUE, !.recent = r, !.confirm = c] \in Gate
<1>1. Frames!NewGate \in Gate
  BY DEF Gate, Frames!NewGate
<1>2. ASSUME NEW b \in BOOLEAN
      PROVE  [g EXCEPT !.due = b] \in Gate /\ [g EXCEPT !.recent = b] \in Gate
  BY DEF Gate
<1>3. ASSUME NEW r \in BOOLEAN, NEW c \in BOOLEAN
      PROVE  [g EXCEPT !.signature = TRUE, !.recent = r, !.confirm = c] \in Gate
  BY DEF Gate
<1> QED BY <1>1, <1>2, <1>3

LEMMA DoneSteps ==
    ASSUME gate \in Gate, NEW ok, NEW whose, Frames!Done(ok, whose)
    PROVE  /\ gate' \in Gate
           /\ \/ shown' = whose /\ window' = window \cup {whose}
              \/ UNCHANGED <<shown, window>>
<1>1. ASSUME NEW recent \in BOOLEAN, NEW confirm \in BOOLEAN, Frames!Observe(whose, recent, confirm)
      PROVE  gate' \in Gate
  BY <1>1, GateSteps DEF Frames!Observe
<1>2. \/ \E recent, confirm \in BOOLEAN : Frames!Observe(whose, recent, confirm)
      \/ UNCHANGED <<shown, window, gate>>
  BY DEF Frames!Done, Frames!observation
<1>3. gate' \in Gate
  BY <1>1, <1>2
<1> QED BY <1>2, <1>3 DEF Frames!Observe

-----------------------------------------------------------------------------
LEMMA FramesBegin ==
    ASSUME MaxDebt \in Nat \ {0}, Frames!Init
    PROVE  FramesInv
<1>1. tracker \in Tracker /\ InDebt(tracker)
  BY FirstTracker DEF Frames!Init
<1>2. Frames!NewGate \in Gate
  BY DEF Gate, Frames!NewGate
<1>3. Frames!TypeOK
  BY <1>1, <1>2 DEF Frames!Init, Frames!TypeOK, Frames!Whose, Tracker, Gate
<1>4. ModeOK
  BY DEF Frames!Init, ModeOK
<1>5. Frames!ObservationsCurrent
  BY <1>1 DEF Frames!Init, Frames!ObservationsCurrent, InDebt, Frames!NoMail
<1> QED BY <1>3, <1>4, <1>5 DEF FramesInv

LEMMA LoopHolds ==
    ASSUME MaxDebt \in Nat \ {0}, FramesInv, Loop
    PROVE  FramesInv'
<1> USE DEF FramesInv, Frames!TypeOK, ModeOK, Frames!ObservationsCurrent, Frames!Whose,
      Frames!Outcome, Frames!NoMail, Frames!inference, Frames!observation, Frames!world
<1>t. tracker \in Tracker /\ InDebt(tracker)
  BY DEF Tracker, InDebt
<1>1. CASE Frames!OpenFails
  BY <1>1, <1>t, TrackerSteps DEF Frames!OpenFails, Frames!Forget, Tracker, InDebt
<1>2. ASSUME NEW m \in {"shared", "local"}, Frames!Open(m) PROVE FramesInv'
  <2>1. slot' = "none" /\ shown' = "none" /\ window' = {}
    BY <1>2 DEF Frames!Open, Frames!Aged
  <2>2. mail' = Frames!NoMail
    <3>1. mail = Frames!NoMail
      BY <1>2 DEF Frames!Open
    <3>2. mail' = [mail EXCEPT !.whose = "none"]
      BY <1>2, <3>1 DEF Frames!Open, Frames!Aged
    <3> QED BY <3>1, <3>2
  <2>3. calls' \subseteq {"cur", "old"}
    BY <1>2 DEF Frames!Open, Frames!Aged
  <2>4. gate' \in Gate
    BY <1>2, GateSteps DEF Frames!Open, Gate
  <2> QED BY <1>2, <2>1, <2>2, <2>3, <2>4 DEF Frames!Open, Gate
<1>3. CASE Frames!Read
  BY <1>3, <1>t, TrackerSteps DEF Frames!Read, Tracker, InDebt
<1>4. CASE Frames!ReadFails
  BY <1>4 DEF Frames!ReadFails, Frames!Forget
<1>5. CASE Frames!StopSeen
  BY <1>5 DEF Frames!StopSeen
<1>6. CASE Frames!Leave
  <2>1. tracker' \in Tracker /\ InDebt(tracker')
    BY <1>6, <1>t, TrackerSteps DEF Frames!Leave
  <2>2. slot' = "none" /\ mail' = Frames!NoMail /\ pending' = "none" /\ calls' = calls
    BY <1>6 DEF Frames!Leave, Frames!Unregister, Frames!Drain
  <2> QED BY <1>6, <2>1, <2>2 DEF Frames!Leave, Frames!Forget, Tracker, InDebt
<1>7. CASE Frames!Raise
  <2>1. slot' = "none" /\ mail' = Frames!NoMail /\ pending' = "none" /\ calls' = calls
    BY <1>7 DEF Frames!Raise, Frames!Unregister, Frames!Drain
  <2> QED BY <1>7, <2>1 DEF Frames!Raise, Frames!Forget
<1>8. CASE Frames!Start
  BY <1>8, <1>t, TrackerSteps DEF Frames!Start, Tracker, InDebt
<1>g. gate \in Gate
  BY DEF Gate
<1>9. CASE Frames!TakeResult
  <2>1. mail \in Frames!Outcome /\ mail.whose = "cur"
    BY <1>9 DEF Frames!TakeResult
  <2>2. Frames!Done(mail.ok, mail.whose)
    BY <1>9 DEF Frames!TakeResult
  <2>3. gate' \in Gate
    BY ONLY <1>g, <2>2, DoneSteps
  <2>4. \/ shown' = "cur" /\ window' = window \cup {"cur"}
        \/ UNCHANGED <<shown, window>>
    BY ONLY <1>g, <2>1, <2>2, DoneSteps
  <2>5. /\ pc = "taking" /\ pc' = "offering" /\ mode = "shared" /\ mail' = Frames!NoMail
        /\ UNCHANGED <<mode, slot, calls, pending, tracker, allowed, stop>>
    BY <1>9 DEF Frames!TakeResult
  <2> QED BY <2>3, <2>4, <2>5 DEF Gate
<1>10. CASE Frames!TakePending
  <2>1. Frames!Done(pending = "ok", "cur")
    BY <1>10 DEF Frames!TakePending
  <2>2. /\ gate' \in Gate
        /\ \/ shown' = "cur" /\ window' = window \cup {"cur"}
           \/ UNCHANGED <<shown, window>>
    BY ONLY <1>g, <2>1, DoneSteps
  <2>3. /\ pc = "taking" /\ pc' = "offering" /\ mode = "local" /\ pending' = "none"
        /\ UNCHANGED <<mode, slot, calls, mail, tracker, allowed, stop>>
    BY <1>10 DEF Frames!TakePending, Frames!Settled
  <2> QED BY <2>2, <2>3 DEF Gate
<1>11. CASE Frames!TakeNothing
  BY <1>11 DEF Frames!TakeNothing
<1>12. CASE Frames!Pass
  BY <1>12 DEF Frames!Pass
<1>13. CASE Frames!Skip
  <2>1. gate' = [gate EXCEPT !.due = FALSE]
    BY <1>13 DEF Frames!Skip
  <2>2. gate' \in Gate
    BY ONLY <1>g, <2>1, GateSteps
  <2> QED BY <1>13, <2>2 DEF Frames!Skip, Gate
<1>s. ASSUME Frames!Submits
      PROVE  /\ pc = "offering" /\ pc' = "reading" /\ gate' \in Gate
             /\ UNCHANGED <<mode, calls, mail, shown, window, tracker, allowed, stop>>
  <2>1. gate' = [gate EXCEPT !.due = FALSE]
    BY <1>s DEF Frames!Submits
  <2>2. gate' \in Gate
    BY ONLY <1>g, <2>1, GateSteps
  <2> QED BY <1>s, <2>2 DEF Frames!Submits
<1>14. CASE Frames!Offer
  BY <1>14, <1>s DEF Frames!Offer, Gate
<1>15. CASE Frames!OfferRefused
  BY <1>15, <1>s DEF Frames!OfferRefused, Gate
<1>16. CASE Frames!Submit
  BY <1>16, <1>s DEF Frames!Submit, Gate
<1> QED
  BY <1>1, <1>2, <1>3, <1>4, <1>5, <1>6, <1>7, <1>8, <1>9, <1>10, <1>11, <1>12, <1>13,
     <1>14, <1>15, <1>16 DEF Loop

LEMMA OutsideHolds ==
    ASSUME MaxDebt \in Nat \ {0}, FramesInv, Outside
    PROVE  FramesInv'
<1> USE DEF FramesInv, Frames!TypeOK, ModeOK, Frames!ObservationsCurrent, Frames!Whose,
      Frames!Outcome, Frames!NoMail, Frames!inference, Frames!observation, Frames!world
<1>g. gate \in Gate
  BY DEF Gate
<1>1. CASE Frames!Dispatch
  BY <1>1 DEF Frames!Dispatch
<1>2. CASE Frames!Expire
  BY <1>2 DEF Frames!Expire
<1>3. CASE Frames!ThreadRuns
  BY <1>3 DEF Frames!ThreadRuns
<1>4. ASSUME NEW whose \in {"cur", "old"}, Frames!CallExpires(whose) PROVE FramesInv'
  BY <1>4 DEF Frames!CallExpires
<1>5. ASSUME NEW whose \in {"cur", "old"}, NEW ok \in BOOLEAN, Frames!CallEnds(whose, ok) PROVE FramesInv'
  <2>1. mail' = mail \/ (whose = "cur" /\ mode = "shared" /\ mail' = [whose |-> "cur", ok |-> ok])
    BY <1>5 DEF Frames!CallEnds, Frames!Fenced
  <2>2. [whose |-> "cur", ok |-> ok] \in Frames!Outcome /\ [whose |-> "cur", ok |-> ok].whose = "cur"
    BY DEF Frames!Outcome
  <2>3. mail' \in Frames!Outcome \cup {Frames!NoMail} /\ mail'.whose # "old"
    BY <2>1, <2>2
  <2>4. calls' \subseteq {"cur", "old"}
    BY <1>5 DEF Frames!CallEnds
  <2>5. mail' # mail => mode = "shared"
    BY <2>1
  <2>6. /\ UNCHANGED <<pc, mode, slot, pending, gate, tracker, allowed, stop>>
        /\ shown' = shown /\ window' = window
    BY <1>5 DEF Frames!CallEnds
  <2>7. Frames!TypeOK'
    BY <2>3, <2>4, <2>6
  <2>8. ModeOK'
    BY <2>5, <2>6
  <2>9. Frames!ObservationsCurrent'
    BY <2>3, <2>5, <2>6
  <2> QED BY <2>7, <2>8, <2>9
<1>6. ASSUME NEW ok \in BOOLEAN, Frames!ThreadEnds(ok) PROVE FramesInv'
  BY <1>6 DEF Frames!ThreadEnds
<1>7. CASE Frames!SlotComes
  <2>1. gate' = [gate EXCEPT !.due = TRUE]
    BY <1>7 DEF Frames!SlotComes
  <2>2. gate' \in Gate
    BY ONLY <1>g, <2>1, GateSteps
  <2> QED BY <1>7, <2>2 DEF Frames!SlotComes, Gate
<1>8. CASE Frames!GrowsOld
  <2>1. gate' = [gate EXCEPT !.recent = FALSE]
    BY <1>8 DEF Frames!GrowsOld
  <2>2. gate' \in Gate
    BY ONLY <1>g, <2>1, GateSteps
  <2> QED BY <1>8, <2>2 DEF Frames!GrowsOld, Gate
<1>9. CASE Frames!WindowEnds
  BY <1>9 DEF Frames!WindowEnds
<1>10. CASE Frames!Licence
  BY <1>10 DEF Frames!Licence
<1>11. CASE Frames!Stop
  BY <1>11 DEF Frames!Stop
<1> QED
  BY <1>1, <1>2, <1>3, <1>4, <1>5, <1>6, <1>7, <1>8, <1>9, <1>10, <1>11 DEF Outside

-----------------------------------------------------------------------------
LEMMA FramesStay ==
    ASSUME MaxDebt \in Nat \ {0}
    PROVE  Frames!Spec => []FramesInv
<1>1. Frames!Init => FramesInv
  BY FramesBegin
<1>2. FramesInv /\ [Frames!Next]_(Frames!vars) => FramesInv'
  <2>1. Frames!Next => Loop \/ Outside
    BY DEF Frames!Next, Loop, Outside
  <2>2. FramesInv /\ UNCHANGED Frames!vars => FramesInv'
    BY DEF FramesInv, Frames!TypeOK, ModeOK, Frames!ObservationsCurrent, Frames!vars
  <2> QED BY <2>1, <2>2, LoopHolds, OutsideHolds
<1> QED BY <1>1, <1>2, PTL DEF Frames!Spec

(* In every reachable state nothing shown, queued or about to be confirmed *)
(* is of an earlier connection, and the debt that delays reconnects is     *)
(* there exactly during an outage (_video_processor_loop).                 *)
THEOREM NothingOld ==
    ASSUME MaxDebt \in Nat \ {0}
    PROVE  Frames!Spec => []Frames!ObservationsCurrent
<1>1. FramesInv => Frames!ObservationsCurrent
  BY DEF FramesInv
<1> QED BY <1>1, FramesStay, PTL

(* FrameLoop keeps its types.                                              *)
THEOREM FramesTyped ==
    ASSUME MaxDebt \in Nat \ {0}
    PROVE  Frames!Spec => []Frames!TypeOK
<1>1. FramesInv => Frames!TypeOK
  BY DEF FramesInv
<1> QED BY <1>1, FramesStay, PTL

-----------------------------------------------------------------------------
(* ModelCatalog.                                                           *)

LEMMA CatalogCounts == \A S : Catalog!Cardinality(S) = Cardinality(S)
BY DEF Cardinality, Catalog!Cardinality

CallersNamed == MaxEpoch \in Nat /\ "nobody" \notin Caller /\ "gone" \notin Caller

Refresher == {"asking", "leading", "have"}
Leads(c) == caller[c].pc \in Refresher /\ caller[c].epoch = epoch

(* Epochs only grow: a caller leads in an epoch that is not before its     *)
(* call, and the server read what it has in an epoch not before that one.  *)
CallersInOrder ==
    \A c \in Caller :
        /\ caller[c].since <= epoch /\ caller[c].epoch <= epoch
        /\ caller[c].pc \in Refresher => caller[c].since <= caller[c].epoch
        /\ caller[c].pc = "have" => /\ caller[c].value # Catalog!None
                                    /\ caller[c].epoch <= caller[c].value
                                    /\ caller[c].value <= epoch
        /\ caller[c].pc = "idle" /\ caller[c].value # Catalog!None => caller[c].value >= caller[c].since

TransportInOrder ==
    /\ transport.read # Catalog!None => transport.read <= epoch
    /\ transport.for \in Caller =>
         /\ caller[transport.for].pc = "leading"
         /\ transport.read # Catalog!None => caller[transport.for].epoch <= transport.read

CatalogCurrent == catalog # Catalog!None => catalog = epoch

CallerType ==
    [pc : {"idle", "waiting", "asking", "leading", "have"},
     epoch : 0 .. MaxEpoch, since : 0 .. MaxEpoch, value : Catalog!Value]
TransportType == [for : Caller \cup {"nobody", "gone"}, read : Catalog!Value]

OneLeads ==
    /\ \A c, d \in Caller : Leads(c) /\ Leads(d) => c = d
    /\ refreshing <=> \E c \in Caller : Leads(c)

CatalogInv == Catalog!TypeOK /\ CallersInOrder /\ TransportInOrder /\ CatalogCurrent /\ OneLeads

-----------------------------------------------------------------------------
(* A caller's record keeps its type.                                       *)
LEMMA CallerTyped ==
    ASSUME Catalog!TypeOK, NEW c \in Caller, NEW at \in {"idle", "waiting", "asking", "leading", "have"}
    PROVE  /\ [caller EXCEPT ![c].pc = at] \in [Caller -> CallerType]
           /\ \A v \in Catalog!Value :
                [caller EXCEPT ![c].pc = at, ![c].value = v] \in [Caller -> CallerType]
           /\ \A v \in Catalog!Value, s \in 0 .. MaxEpoch :
                [caller EXCEPT ![c].pc = at, ![c].since = s, ![c].value = v] \in [Caller -> CallerType]
           /\ \A v \in Catalog!Value, s, e \in 0 .. MaxEpoch :
                [caller EXCEPT ![c].pc = at, ![c].epoch = e, ![c].since = s, ![c].value = v]
                  \in [Caller -> CallerType]
<1>1. caller \in [Caller -> CallerType] /\ caller[c] \in CallerType
  BY DEF Catalog!TypeOK, CallerType
<1>2. ASSUME NEW r \in CallerType
      PROVE  [caller EXCEPT ![c] = r] \in [Caller -> CallerType]
  BY <1>1
<1>3. [caller EXCEPT ![c].pc = at] \in [Caller -> CallerType]
  <2>1. [caller[c] EXCEPT !.pc = at] \in CallerType
    BY <1>1 DEF CallerType
  <2> QED BY <1>2, <2>1, ZenonT(60)
<1>4. ASSUME NEW v \in Catalog!Value
      PROVE  [caller EXCEPT ![c].pc = at, ![c].value = v] \in [Caller -> CallerType]
  <2>1. [caller[c] EXCEPT !.pc = at, !.value = v] \in CallerType
    BY <1>1 DEF CallerType
  <2> QED BY <1>2, <2>1, ZenonT(60)
<1>5. ASSUME NEW v \in Catalog!Value, NEW s \in 0 .. MaxEpoch
      PROVE  [caller EXCEPT ![c].pc = at, ![c].since = s, ![c].value = v] \in [Caller -> CallerType]
  <2>1. [caller[c] EXCEPT !.pc = at, !.since = s, !.value = v] \in CallerType
    BY <1>1 DEF CallerType
  <2> QED BY <1>2, <2>1, ZenonT(60)
<1>6. ASSUME NEW v \in Catalog!Value, NEW s \in 0 .. MaxEpoch, NEW e \in 0 .. MaxEpoch
      PROVE  [caller EXCEPT ![c].pc = at, ![c].epoch = e, ![c].since = s, ![c].value = v]
               \in [Caller -> CallerType]
  <2>1. [caller[c] EXCEPT !.pc = at, !.epoch = e, !.since = s, !.value = v] \in CallerType
    BY <1>1 DEF CallerType
  <2> QED BY <1>2, <2>1, ZenonT(60)
<1> QED BY <1>3, <1>4, <1>5, <1>6

-----------------------------------------------------------------------------
(* Who leads after a step of one caller.                                   *)

OnlyOf(c) == \A d \in Caller : d # c => caller'[d] = caller[d]

LEMMA LeadKept ==
    ASSUME OneLeads, epoch' = epoch, NEW c \in Caller, OnlyOf(c),
           (caller[c].pc \in Refresher) <=> (caller'[c].pc \in Refresher),
           caller'[c].epoch = caller[c].epoch, refreshing' = refreshing
    PROVE  OneLeads'
BY DEF OneLeads, Leads, OnlyOf

LEMMA LeadTaken ==
    ASSUME OneLeads, epoch' = epoch, NEW c \in Caller, OnlyOf(c),
           ~refreshing, refreshing',
           caller'[c].pc \in Refresher, caller'[c].epoch = epoch
    PROVE  OneLeads'
BY DEF OneLeads, Leads, OnlyOf

LEMMA LeadGivenUp ==
    ASSUME OneLeads, epoch' = epoch, NEW c \in Caller, OnlyOf(c),
           caller'[c].pc \notin Refresher,
           IF Leads(c) THEN ~refreshing' ELSE refreshing' = refreshing
    PROVE  OneLeads'
BY DEF OneLeads, Leads, OnlyOf

-----------------------------------------------------------------------------
LEMMA CatalogBegins ==
    ASSUME CallersNamed, Catalog!Init
    PROVE  CatalogInv
<1> USE DEF Catalog!Init, Catalog!None, Catalog!Value, Catalog!NoTransport
<1>1. Catalog!TypeOK
  <2>1. 0 \in 0 .. MaxEpoch /\ MaxEpoch + 1 \in Catalog!Value
    BY DEF CallersNamed
  <2>2. [pc |-> "idle", epoch |-> 0, since |-> 0, value |-> Catalog!None] \in CallerType
    BY <2>1 DEF CallerType
  <2>3. caller \in [Caller -> CallerType]
    BY <2>2
  <2>4. transport \in TransportType
    BY <2>1 DEF TransportType
  <2> QED BY <2>1, <2>3, <2>4 DEF Catalog!TypeOK, CallerType, TransportType
<1>2. CallersInOrder
  BY DEF CallersInOrder, Refresher
<1>3. TransportInOrder
  BY DEF CallersNamed, TransportInOrder
<1>4. CatalogCurrent
  BY DEF CatalogCurrent
<1>5. OneLeads
  BY DEF OneLeads, Leads, Refresher
<1> QED BY <1>1, <1>2, <1>3, <1>4, <1>5 DEF CatalogInv

(* A caller that need not wait.                                            *)
LEMMA Decides ==
    ASSUME CallersNamed, CatalogInv, NEW c \in Caller, NEW since \in 0 .. MaxEpoch, since <= epoch,
           caller[c].pc \notin Refresher, Catalog!Cached \/ ~refreshing,
           Catalog!Decide(c, since), UNCHANGED <<catalog, fresh, epoch, backoff, transport>>
    PROVE  CatalogInv'
<1> USE DEF CallersNamed, CatalogInv
<1>1. CASE Catalog!Cached
  <2>1. /\ caller' = [caller EXCEPT ![c].pc = "idle", ![c].since = since, ![c].value = catalog]
        /\ refreshing' = refreshing
    BY <1>1 DEF Catalog!Decide
  <2>2. catalog = epoch /\ catalog \in Catalog!Value
    BY <1>1 DEF Catalog!Cached, CatalogCurrent, Catalog!TypeOK
  <2>3. Catalog!TypeOK'
    <3>1. caller' \in [Caller -> CallerType]
      BY <2>1, <2>2, CallerTyped
    <3> QED BY <2>1, <3>1 DEF Catalog!TypeOK, CallerType
  <2>4. CallersInOrder'
    BY <2>1, <2>2 DEF Catalog!TypeOK, CallersInOrder, Refresher
  <2>5. TransportInOrder'
    BY <2>1 DEF Catalog!TypeOK, TransportInOrder, Refresher
  <2>6. OneLeads'
    BY <2>1, LeadKept DEF Catalog!TypeOK, OnlyOf, Refresher
  <2> QED BY <2>3, <2>4, <2>5, <2>6 DEF CatalogCurrent, Catalog!None
<1>2. CASE ~Catalog!Cached /\ backoff
  <2>1. /\ caller' = [caller EXCEPT ![c].pc = "idle", ![c].since = since, ![c].value = Catalog!None]
        /\ refreshing' = refreshing
    BY <1>2 DEF Catalog!Decide
  <2>2. Catalog!None \in Catalog!Value
    BY DEF Catalog!None, Catalog!Value
  <2>3. Catalog!TypeOK'
    <3>1. caller' \in [Caller -> CallerType]
      BY <2>1, <2>2, CallerTyped
    <3> QED BY <2>1, <3>1 DEF Catalog!TypeOK, CallerType
  <2>4. CallersInOrder'
    BY <2>1 DEF Catalog!TypeOK, CallersInOrder, Refresher
  <2>5. TransportInOrder'
    BY <2>1 DEF Catalog!TypeOK, TransportInOrder, Refresher
  <2>6. OneLeads'
    BY <2>1, LeadKept DEF Catalog!TypeOK, OnlyOf, Refresher
  <2> QED BY <2>3, <2>4, <2>5, <2>6 DEF CatalogCurrent, Catalog!None
<1>3. CASE ~Catalog!Cached /\ ~backoff
  <2>1. /\ caller' = [caller EXCEPT ![c].pc = "asking", ![c].epoch = epoch, ![c].since = since,
                                    ![c].value = Catalog!None]
        /\ ~refreshing /\ refreshing' = TRUE
    BY <1>3 DEF Catalog!Decide
  <2>2. Catalog!None \in Catalog!Value
    BY DEF Catalog!None, Catalog!Value
  <2>3. Catalog!TypeOK'
    <3>1. epoch \in 0 .. MaxEpoch
      BY DEF Catalog!TypeOK
    <3>2. [caller EXCEPT ![c].pc = "asking", ![c].epoch = epoch, ![c].since = since,
                         ![c].value = Catalog!None]
             \in [Caller -> CallerType]
      <4>1. "asking" \in {"idle", "waiting", "asking", "leading", "have"}
        OBVIOUS
      <4> QED BY <2>2, <3>1, <4>1, CallerTyped
    <3>3. caller' \in [Caller -> CallerType]
      BY <2>1, <3>2
    <3> QED BY <2>1, <3>3 DEF Catalog!TypeOK, CallerType
  <2>4. CallersInOrder'
    BY <2>1 DEF Catalog!TypeOK, CallersInOrder, Refresher
  <2>5. TransportInOrder'
    BY <2>1 DEF Catalog!TypeOK, TransportInOrder, Refresher
  <2>6. OneLeads'
    BY <2>1, LeadTaken DEF Catalog!TypeOK, OnlyOf, Refresher
  <2> QED BY <2>3, <2>4, <2>5, <2>6 DEF CatalogCurrent, Catalog!None
<1> QED BY <1>1, <1>2, <1>3

(* A refresh ends; a catalogue there is was read in the leader's epoch or  *)
(* later.                                                                  *)
LEMMA RefreshEnds ==
    ASSUME CallersNamed, CatalogInv, NEW c \in Caller, NEW value \in Catalog!Value,
           caller[c].pc \in Refresher,
           value # Catalog!None => caller[c].epoch <= value /\ value <= epoch,
           Catalog!EndRefresh(c, value), epoch' = epoch, transport' \in TransportType
    PROVE  Catalog!TypeOK' /\ CallersInOrder' /\ CatalogCurrent' /\ OneLeads' /\ OnlyOf(c)
<1> USE DEF CallersNamed, CatalogInv
<1>1. CASE caller[c].epoch = epoch
  <2>1. /\ ~refreshing' /\ catalog' = value
        /\ fresh' = (value # Catalog!None) /\ backoff' = (value = Catalog!None)
        /\ caller' = [caller EXCEPT ![c].pc = "idle", ![c].value = value]
    BY <1>1 DEF Catalog!EndRefresh, Catalog!Returns
  <2>2. OnlyOf(c)
    BY <2>1 DEF OnlyOf, Catalog!TypeOK
  <2>3. CallersInOrder'
    <3>1. caller'[c].pc = "idle" /\ caller'[c].value = value
      BY <2>1 DEF Catalog!TypeOK
    <3>2. caller'[c].since = caller[c].since /\ caller'[c].epoch = caller[c].epoch
      BY <2>1 DEF Catalog!TypeOK
    <3>3. value # Catalog!None => value >= caller[c].since
      BY DEF Catalog!TypeOK, CallersInOrder, Catalog!Value, Catalog!None
    <3> QED BY <2>2, <3>1, <3>2, <3>3 DEF CallersInOrder, OnlyOf, Refresher
  <2>4. CatalogCurrent'
    <3>1. value # Catalog!None => value = epoch
      BY <1>1 DEF Catalog!TypeOK, Catalog!Value, Catalog!None
    <3> QED BY <2>1, <3>1 DEF CatalogCurrent, Catalog!None
  <2>5. OneLeads'
    BY <2>1, <2>2, <1>1, LeadGivenUp DEF Catalog!TypeOK, Leads, Refresher
  <2>6. refreshing' = FALSE
    BY <1>1 DEF Catalog!EndRefresh
  <2>7. fresh' \in BOOLEAN /\ backoff' \in BOOLEAN
    BY <2>1
  <2>8. Catalog!TypeOK'
    <3>1. caller' \in [Caller -> CallerType]
      BY <2>1, CallerTyped
    <3>2. catalog' \in Catalog!Value /\ epoch' \in 0 .. MaxEpoch
      BY <2>1 DEF Catalog!TypeOK
    <3> QED BY <2>6, <2>7, <3>1, <3>2 DEF Catalog!TypeOK, CallerType, TransportType
  <2> QED BY <2>2, <2>3, <2>4, <2>5, <2>8
<1>2. CASE caller[c].epoch # epoch
  <2>1. /\ UNCHANGED <<catalog, fresh, refreshing, backoff>>
        /\ caller' = [caller EXCEPT ![c].pc = "idle", ![c].value = Catalog!None]
    BY <1>2 DEF Catalog!EndRefresh, Catalog!Returns
  <2>2. OnlyOf(c)
    BY <2>1 DEF OnlyOf, Catalog!TypeOK
  <2>3. CallersInOrder'
    BY <2>1 DEF Catalog!TypeOK, CallersInOrder, Refresher
  <2>4. CatalogCurrent'
    BY <2>1 DEF CatalogCurrent, Catalog!None
  <2>5. OneLeads'
    BY <2>1, <2>2, <1>2, LeadGivenUp DEF Catalog!TypeOK, Leads, Refresher
  <2>6. Catalog!None \in Catalog!Value
    BY DEF Catalog!None, Catalog!Value
  <2>7. Catalog!TypeOK'
    <3>1. caller' \in [Caller -> CallerType]
      BY <2>1, <2>6, CallerTyped
    <3> QED BY <2>1, <3>1 DEF Catalog!TypeOK, CallerType, TransportType
  <2> QED BY <2>2, <2>3, <2>4, <2>5, <2>7
<1> QED BY <1>1, <1>2

-----------------------------------------------------------------------------
LEMMA CallerSteps ==
    ASSUME CallersNamed, CatalogInv, NEW c \in Caller,
           \/ Catalog!Call(c) \/ Catalog!Resume(c) \/ Catalog!GiveUp(c)
           \/ Catalog!StartTransport(c) \/ Catalog!FailRefresh(c) \/ Catalog!Receive(c)
    PROVE  CatalogInv'
<1> USE DEF CallersNamed, CatalogInv
<1>0. Catalog!None \in Catalog!Value
  BY DEF Catalog!None, Catalog!Value
<1>1. CASE Catalog!Call(c) /\ (Catalog!Cached \/ ~refreshing)
  BY <1>1, Decides DEF Catalog!Call, Catalog!TypeOK, Refresher
<1>2. CASE Catalog!Call(c) /\ ~Catalog!Cached /\ refreshing
  <2>1. /\ caller[c].pc = "idle"
        /\ caller' = [caller EXCEPT ![c].pc = "waiting", ![c].since = epoch, ![c].value = Catalog!None]
        /\ UNCHANGED <<catalog, fresh, refreshing, epoch, backoff, transport>>
    BY <1>2 DEF Catalog!Call
  <2>2. Catalog!TypeOK'
    <3> epoch \in 0 .. MaxEpoch
      BY DEF Catalog!TypeOK
    <3>1. caller' \in [Caller -> CallerType]
      <4>1. "waiting" \in {"idle", "waiting", "asking", "leading", "have"}
        OBVIOUS
      <4>2. [caller EXCEPT ![c].pc = "waiting", ![c].since = epoch, ![c].value = Catalog!None] \in [Caller -> CallerType]
        BY <1>0, <4>1, CallerTyped, Zenon
      <4> QED BY <2>1, <4>2
    <3> QED BY <2>1, <3>1 DEF Catalog!TypeOK, CallerType
  <2>3. CallersInOrder'
    <3>1. caller'[c].pc = "waiting" /\ caller'[c].since = epoch /\ caller'[c].epoch = caller[c].epoch
      BY <2>1 DEF Catalog!TypeOK
    <3> QED BY <2>1, <3>1 DEF Catalog!TypeOK, CallersInOrder, Refresher
  <2>4. TransportInOrder'
    BY <2>1 DEF Catalog!TypeOK, TransportInOrder
  <2>5. OneLeads'
    BY <2>1, LeadKept DEF Catalog!TypeOK, OnlyOf, Refresher
  <2> QED BY <2>1, <2>2, <2>3, <2>4, <2>5 DEF CatalogCurrent, Catalog!None
<1>3. CASE Catalog!Resume(c)
  BY <1>3, Decides DEF Catalog!Resume, Catalog!TypeOK, CallersInOrder, Refresher
<1>4. CASE Catalog!GiveUp(c)
  <2>1. /\ caller[c].pc = "waiting"
        /\ caller' = [caller EXCEPT ![c].pc = "idle", ![c].value = Catalog!None]
        /\ UNCHANGED <<catalog, fresh, refreshing, epoch, backoff, transport>>
    BY <1>4 DEF Catalog!GiveUp, Catalog!Returns, Catalog!shared
  <2>2. Catalog!TypeOK'
    <3>1. caller' \in [Caller -> CallerType]
      BY <1>0, <2>1, CallerTyped
    <3> QED BY <2>1, <3>1 DEF Catalog!TypeOK, CallerType
  <2>3. CallersInOrder'
    BY <2>1 DEF Catalog!TypeOK, CallersInOrder, Refresher
  <2>4. TransportInOrder'
    BY <2>1 DEF Catalog!TypeOK, TransportInOrder
  <2>5. OneLeads'
    BY <2>1, LeadKept DEF Catalog!TypeOK, OnlyOf, Refresher
  <2> QED BY <2>1, <2>2, <2>3, <2>4, <2>5 DEF CatalogCurrent, Catalog!None
<1>5. CASE Catalog!StartTransport(c)
  <2>1. /\ caller[c].pc = "asking"
        /\ caller' = [caller EXCEPT ![c].pc = "leading"]
        /\ transport' = [for |-> c, read |-> Catalog!None]
        /\ UNCHANGED <<catalog, fresh, refreshing, epoch, backoff>>
    BY <1>5 DEF Catalog!StartTransport, Catalog!shared
  <2>2. Catalog!TypeOK'
    <3>1. caller' \in [Caller -> CallerType]
      BY <2>1, CallerTyped
    <3>2. transport' \in TransportType
      BY <1>0, <2>1 DEF TransportType
    <3> QED BY <2>1, <3>1, <3>2 DEF Catalog!TypeOK, CallerType, TransportType
  <2>3. CallersInOrder'
    BY <2>1 DEF Catalog!TypeOK, CallersInOrder, Refresher
  <2>4. TransportInOrder'
    BY <2>1 DEF Catalog!TypeOK, TransportInOrder, Catalog!None
  <2>5. OneLeads'
    BY <2>1, LeadKept DEF Catalog!TypeOK, OnlyOf, Refresher
  <2> QED BY <2>1, <2>2, <2>3, <2>4, <2>5 DEF CatalogCurrent, Catalog!None
<1>6. CASE Catalog!FailRefresh(c)
  <2>1. /\ caller[c].pc \in {"asking", "leading"}
        /\ Catalog!EndRefresh(c, Catalog!None) /\ epoch' = epoch
        /\ transport' = IF transport.for = c THEN [transport EXCEPT !.for = "gone"] ELSE transport
    BY <1>6 DEF Catalog!FailRefresh
  <2>2. transport' \in TransportType
    BY <2>1 DEF Catalog!TypeOK, TransportType
  <2>3. Catalog!TypeOK' /\ CallersInOrder' /\ CatalogCurrent' /\ OneLeads' /\ OnlyOf(c)
    BY <1>0, <2>1, <2>2, RefreshEnds DEF Refresher
  <2>4. TransportInOrder'
    BY <2>1, <2>3 DEF Catalog!TypeOK, TransportInOrder, OnlyOf, Catalog!None
  <2> QED BY <2>3, <2>4
<1>7. CASE Catalog!Receive(c)
  <2>1. /\ caller[c].pc = "have"
        /\ Catalog!EndRefresh(c, caller[c].value) /\ epoch' = epoch /\ transport' = transport
    BY <1>7 DEF Catalog!Receive
  <2>2. /\ caller[c].value \in Catalog!Value
        /\ caller[c].epoch <= caller[c].value /\ caller[c].value <= epoch
    BY <2>1 DEF Catalog!TypeOK, CallersInOrder
  <2>3. Catalog!TypeOK' /\ CallersInOrder' /\ CatalogCurrent' /\ OneLeads' /\ OnlyOf(c)
    BY <2>1, <2>2, RefreshEnds DEF Refresher, Catalog!TypeOK, TransportType
  <2>4. TransportInOrder'
    BY <2>1, <2>3 DEF Catalog!TypeOK, TransportInOrder, OnlyOf, Catalog!None
  <2> QED BY <2>3, <2>4
<1> QED BY <1>1, <1>2, <1>3, <1>4, <1>5, <1>6, <1>7

LEMMA OtherSteps ==
    ASSUME CallersNamed, CatalogInv,
           \/ Catalog!ServerReads \/ Catalog!TransportEnds
           \/ Catalog!Expire \/ Catalog!BackoffEnds \/ Catalog!Invalidate
    PROVE  CatalogInv'
<1> USE DEF CallersNamed, CatalogInv
<1>1. CASE Catalog!ServerReads
  <2>1. /\ transport' = [transport EXCEPT !.read = epoch]
        /\ UNCHANGED <<catalog, fresh, refreshing, epoch, backoff, caller>>
    BY <1>1 DEF Catalog!ServerReads, Catalog!shared
  <2>2. Catalog!TypeOK'
    BY <2>1 DEF Catalog!TypeOK, Catalog!Value, Catalog!None
  <2>3. TransportInOrder'
    BY <2>1 DEF Catalog!TypeOK, TransportInOrder, CallersInOrder
  <2> QED BY <2>1, <2>2, <2>3 DEF CallersInOrder, CatalogCurrent, OneLeads, Leads, Catalog!None
<1>2. CASE Catalog!TransportEnds /\ UNCHANGED caller
  <2>1. /\ transport' = Catalog!NoTransport
        /\ UNCHANGED <<catalog, fresh, refreshing, epoch, backoff, caller>>
    BY <1>2 DEF Catalog!TransportEnds, Catalog!shared
  <2>2. Catalog!TypeOK'
    BY <2>1 DEF Catalog!TypeOK, Catalog!NoTransport, Catalog!Value, Catalog!None
  <2>3. TransportInOrder'
    BY <2>1 DEF TransportInOrder, Catalog!NoTransport, Catalog!None
  <2> QED BY <2>1, <2>2, <2>3 DEF CallersInOrder, CatalogCurrent, OneLeads, Leads, Catalog!None
<1>3. CASE Catalog!TransportEnds /\ transport.for \in Caller /\ transport.read # Catalog!None
           /\ caller' = [caller EXCEPT ![transport.for].pc = "have",
                                       ![transport.for].value = transport.read]
  <2> DEFINE c == transport.for
  <2>1. /\ transport' = Catalog!NoTransport /\ c \in Caller
        /\ caller' = [caller EXCEPT ![c].pc = "have", ![c].value = transport.read]
        /\ UNCHANGED <<catalog, fresh, refreshing, epoch, backoff>>
    BY <1>3 DEF Catalog!TransportEnds, Catalog!shared
  <2>2. /\ caller[c].pc = "leading" /\ transport.read \in Catalog!Value /\ transport.read # Catalog!None
        /\ caller[c].epoch <= transport.read /\ transport.read <= epoch
    BY <1>3 DEF TransportInOrder, Catalog!TypeOK
  <2> HIDE DEF c
  <2>3. Catalog!TypeOK'
    <3>1. caller' \in [Caller -> CallerType]
      BY <2>1, <2>2, CallerTyped
    <3>2. transport' \in TransportType
      BY <2>1 DEF TransportType, Catalog!NoTransport, Catalog!Value, Catalog!None
    <3> QED BY <2>1, <3>1, <3>2 DEF Catalog!TypeOK, CallerType, TransportType
  <2>4. CallersInOrder'
    BY <2>1, <2>2 DEF Catalog!TypeOK, CallersInOrder, Refresher, Catalog!None
  <2>5. TransportInOrder'
    BY <2>1 DEF TransportInOrder, Catalog!NoTransport, Catalog!None
  <2>6. OneLeads'
    BY <2>1, <2>2, LeadKept DEF Catalog!TypeOK, OnlyOf, Refresher
  <2> QED BY <2>1, <2>3, <2>4, <2>5, <2>6 DEF CatalogCurrent, Catalog!None
<1>4. CASE Catalog!Expire \/ Catalog!BackoffEnds
  <2>1. /\ UNCHANGED <<catalog, refreshing, epoch, caller, transport>>
        /\ fresh' \in BOOLEAN /\ backoff' \in BOOLEAN
    BY <1>4 DEF Catalog!Expire, Catalog!BackoffEnds, Catalog!TypeOK
  <2>2. Catalog!TypeOK'
    BY <2>1 DEF Catalog!TypeOK
  <2> QED BY <2>1, <2>2 DEF CallersInOrder, TransportInOrder, CatalogCurrent, OneLeads, Leads,
        Catalog!None
<1>5. CASE Catalog!Invalidate
  <2>1. /\ epoch' = epoch + 1 /\ epoch < MaxEpoch /\ catalog' = Catalog!None
        /\ fresh' = FALSE /\ refreshing' = FALSE /\ backoff' = FALSE
        /\ UNCHANGED <<caller, transport>>
    BY <1>5 DEF Catalog!Invalidate
  <2>2. Catalog!TypeOK'
    <3>1. epoch' \in 0 .. MaxEpoch /\ catalog' \in Catalog!Value
      BY <2>1 DEF Catalog!TypeOK, Catalog!None, Catalog!Value
    <3> QED BY <2>1, <3>1 DEF Catalog!TypeOK
  <2>3. CallersInOrder'
    BY <2>1 DEF Catalog!TypeOK, CallersInOrder, Catalog!Value, Catalog!None
  <2>4. TransportInOrder'
    BY <2>1 DEF Catalog!TypeOK, TransportInOrder, Catalog!Value, Catalog!None
  <2>5. OneLeads'
    BY <2>1 DEF Catalog!TypeOK, OneLeads, Leads, CallersInOrder
  <2> QED BY <2>1, <2>2, <2>3, <2>4, <2>5 DEF CatalogCurrent, Catalog!None
<1> QED BY <1>1, <1>2, <1>3, <1>4, <1>5 DEF Catalog!TransportEnds

-----------------------------------------------------------------------------
LEMMA CatalogStays ==
    ASSUME CallersNamed
    PROVE  Catalog!Spec => []CatalogInv
<1>1. Catalog!Init => CatalogInv
  BY CatalogBegins
<1>2. CatalogInv /\ [Catalog!Next]_(Catalog!vars) => CatalogInv'
  <2>1. CASE UNCHANGED Catalog!vars
    BY <2>1 DEF Catalog!vars, CatalogInv, Catalog!TypeOK, CallersInOrder, TransportInOrder,
         CatalogCurrent, OneLeads, Leads, Catalog!None
  <2> QED BY <2>1, CallerSteps, OtherSteps DEF Catalog!Next
<1> QED BY <1>1, <1>2, PTL DEF Catalog!Spec

(* In every reachable state what is cached is of the current epoch, no     *)
(* caller holds a result from before the last invalidation that preceded   *)
(* its call, and one caller refreshes per epoch                            *)
(* (_get_remote_model_catalog, invalidate_remote_model_catalog).           *)
THEOREM NothingStale ==
    ASSUME CallersNamed
    PROVE  Catalog!Spec => []Catalog!CatalogueFenced
<1>1. CatalogInv => Catalog!CatalogueFenced
  <2> SUFFICES ASSUME CatalogInv PROVE Catalog!CatalogueFenced
    OBVIOUS
  <2>1. \A c \in Caller : c \in Catalog!Leaders <=> Leads(c)
    BY DEF Catalog!Leaders, Leads, Refresher
  <2>2. refreshing <=> Catalog!Leaders # {}
    BY <2>1 DEF CatalogInv, OneLeads, Catalog!Leaders
  <2>3. Cardinality(Catalog!Leaders) <= 1
    <3>1. CASE Catalog!Leaders = {}
      BY <3>1, FS_EmptySet
    <3>2. CASE Catalog!Leaders # {}
      <4>1. PICK c \in Caller : c \in Catalog!Leaders
        BY <3>2 DEF Catalog!Leaders
      <4>2. Catalog!Leaders = {c}
        BY <2>1, <4>1 DEF CatalogInv, OneLeads, Catalog!Leaders
      <4> QED BY <4>2, FS_Singleton
    <3> QED BY <3>1, <3>2
  <2>4. Catalog!Cardinality(Catalog!Leaders) <= 1
    BY <2>3, CatalogCounts
  <2> QED BY <2>2, <2>4 DEF CatalogInv, CatalogCurrent, CallersInOrder, Catalog!CatalogueFenced
<1> QED BY <1>1, CatalogStays, PTL

(* ModelCatalog keeps its types.                                           *)
THEOREM CatalogTyped ==
    ASSUME CallersNamed
    PROVE  Catalog!Spec => []Catalog!TypeOK
<1>1. CatalogInv => Catalog!TypeOK
  BY DEF CatalogInv
<1> QED BY <1>1, CatalogStays, PTL

-----------------------------------------------------------------------------
(* ConfigStore.                                                            *)

(* A refresh reads the version of the row after that of the cache, and the *)
(* row after its version, so that what it installs is newer than what it   *)
(* replaces, if that is what it found; and a cache that has a version is   *)
(* not older than the last save of its process.                            *)
IsRefresh(x) ==
    x \in [pc : {"idle", "checking", "loading", "installing"}, known : Nat, current : Nat,
           loaded : {x.loaded}, at : Nat]

ConfigTyped ==
    /\ row.version \in Nat
    /\ version \in [Proc -> Nat] /\ lastSave \in [Proc -> Nat]
    /\ refresh = [r \in Refresh |-> refresh[r]]
    /\ \A r \in Refresh : IsRefresh(refresh[r])

InOrder(x, last) ==
    /\ x.known <= last
    /\ x.pc \in {"loading", "installing"} => x.known < x.current /\ x.current <= last
    /\ x.pc = "installing" => x.current <= x.at /\ x.at <= last

ConfigInv ==
    /\ ConfigTyped
    /\ \A p \in Proc : lastSave[p] <= version[p] /\ version[p] <= row.version
    /\ \A r \in Refresh : InOrder(refresh[r], row.version)

ConfigConstants == EditorOf \in [Edit -> Proc] /\ ReaderOf \in [Refresh -> Proc]

(* A write of the row keeps the order: nothing that was read is newer.     *)
LEMMA NewRowKeepsOrder ==
    ASSUME ConfigInv, row'.version \in Nat, row'.version >= row.version, UNCHANGED refresh
    PROVE  \A r \in Refresh : InOrder(refresh'[r], row'.version)
BY DEF ConfigInv, ConfigTyped, IsRefresh, InOrder

(* A step of a refresh concerns its own record only.                       *)
LEMMA OneRefreshMoves ==
    ASSUME ConfigInv, NEW r \in Refresh, NEW x, IsRefresh(x), InOrder(x, row.version),
           refresh' = [refresh EXCEPT ![r] = x], UNCHANGED row
    PROVE  /\ refresh' = [s \in Refresh |-> refresh'[s]]
           /\ \A s \in Refresh : IsRefresh(refresh'[s]) /\ InOrder(refresh'[s], row'.version)
BY DEF ConfigInv, ConfigTyped

LEMMA NotRefreshingInOrder ==
    ASSUME NEW last \in Nat
    PROVE  IsRefresh(Config!NotRefreshing) /\ InOrder(Config!NotRefreshing, last)
BY DEF Config!NotRefreshing, Config!None, IsRefresh, InOrder

LEMMA ConfigInit == ConfigConstants /\ Config!Init => ConfigInv
<1> SUFFICES ASSUME Config!Init PROVE ConfigInv
  OBVIOUS
<1>1. row.version = 1 /\ version = [p \in Proc |-> 1] /\ lastSave = [p \in Proc |-> 0]
  BY DEF Config!Init, Config!None
<1>2. refresh = [r \in Refresh |-> Config!NotRefreshing]
  BY DEF Config!Init
<1> QED BY <1>1, <1>2, NotRefreshingInOrder DEF ConfigInv, ConfigTyped

LEMMA ConfigNext == ConfigConstants /\ ConfigInv /\ [Config!Next]_Config!vars => ConfigInv'
<1> SUFFICES ASSUME ConfigConstants, ConfigInv, [Config!Next]_Config!vars PROVE ConfigInv'
  OBVIOUS
<1> USE DEF ConfigConstants
<1>1. ASSUME UNCHANGED <<row, version, refresh, lastSave>> PROVE ConfigInv'
  BY <1>1 DEF ConfigInv, ConfigTyped
<1>2. ASSUME UNCHANGED <<row, version, lastSave>>, NEW r \in Refresh, NEW x, IsRefresh(x),
             InOrder(x, row.version), refresh' = [refresh EXCEPT ![r] = x]
      PROVE  ConfigInv'
  BY <1>2, OneRefreshMoves DEF ConfigInv, ConfigTyped
<1>3. ASSUME NEW e \in Edit, Config!Save(e) PROVE ConfigInv'
  <2>1. row'.version = row.version + 1
    BY <1>3 DEF Config!Save, Config!Written
  <2>2. /\ version' = [version EXCEPT ![EditorOf[e]] = row'.version]
        /\ lastSave' = [lastSave EXCEPT ![EditorOf[e]] = row'.version]
        /\ UNCHANGED refresh
    BY <1>3 DEF Config!Save
  <2> QED BY <2>1, <2>2, NewRowKeepsOrder DEF ConfigInv, ConfigTyped
<1>4. ASSUME NEW e \in Edit, NEW commits \in BOOLEAN, Config!SaveFails(e, commits) PROVE ConfigInv'
  <2>1. row'.version = row.version + 1 \/ row' = row
    BY <1>4 DEF Config!SaveFails, Config!Written
  <2>2. UNCHANGED <<version, lastSave, refresh>>
    BY <1>4 DEF Config!SaveFails
  <2> QED BY <2>1, <2>2, NewRowKeepsOrder DEF ConfigInv, ConfigTyped
<1>5. ASSUME NEW p \in Proc, Config!Mark(p) PROVE ConfigInv'
  <2>1. row'.version = row.version + 1
    BY <1>5 DEF Config!Mark
  <2>2. version' = [version EXCEPT ![p] = 0] /\ lastSave' = [lastSave EXCEPT ![p] = 0] /\ UNCHANGED refresh
    BY <1>5 DEF Config!Mark, Config!MarkedVersion, Config!None
  <2> QED BY <2>1, <2>2, NewRowKeepsOrder DEF ConfigInv, ConfigTyped
<1>6. ASSUME NEW p \in Proc, Config!Restart(p) PROVE ConfigInv'
  <2>1. version' = [version EXCEPT ![p] = row.version] /\ UNCHANGED <<row, lastSave>>
    BY <1>6 DEF Config!Restart
  <2>2. refresh' = [r \in Refresh |-> IF ReaderOf[r] = p THEN Config!NotRefreshing ELSE refresh[r]]
    BY <1>6 DEF Config!Restart
  <2>3. \A q \in Proc : lastSave'[q] <= version'[q] /\ version'[q] <= row'.version
    BY <2>1 DEF ConfigInv, ConfigTyped
  <2>4. \A r \in Refresh : IsRefresh(refresh'[r]) /\ InOrder(refresh'[r], row'.version)
    BY <2>1, <2>2, NotRefreshingInOrder DEF ConfigInv, ConfigTyped
  <2> QED BY <2>1, <2>2, <2>3, <2>4 DEF ConfigInv, ConfigTyped
<1>7. ASSUME NEW r \in Refresh, Config!StartRefresh(r) PROVE ConfigInv'
  <2> DEFINE x == [refresh[r] EXCEPT !.pc = "checking", !.known = version[ReaderOf[r]]]
  <2>1. refresh' = [refresh EXCEPT ![r] = x] /\ UNCHANGED <<row, version, lastSave>>
    BY <1>7 DEF Config!StartRefresh, ConfigInv, ConfigTyped
  <2>2. x.pc = "checking" /\ x.known = version[ReaderOf[r]] /\ x.known \in Nat /\ x.known <= row.version
    BY DEF ConfigInv, ConfigTyped, IsRefresh
  <2>3. IsRefresh(x)
    <3>1. IsRefresh(refresh[r])
      BY DEF ConfigInv, ConfigTyped
    <3>2. PICK k \in Nat : k = version[ReaderOf[r]]
      BY <2>2
    <3>3. IsRefresh([refresh[r] EXCEPT !.pc = "checking", !.known = k])
      BY <3>1 DEF IsRefresh
    <3> QED BY <3>2, <3>3
  <2>4. InOrder(x, row.version)
    BY <2>2 DEF InOrder
  <2> QED BY <1>2, <2>1, <2>3, <2>4
<1>8. ASSUME NEW r \in Refresh, Config!ReadVersion(r) PROVE ConfigInv'
  <2>1. UNCHANGED <<row, version, lastSave>>
    BY <1>8 DEF Config!ReadVersion
  <2>2. CASE row.version = refresh[r].known
    <3>1. refresh' = [refresh EXCEPT ![r] = Config!NotRefreshing]
      BY <1>8, <2>2 DEF Config!ReadVersion, ConfigInv, ConfigTyped
    <3> QED BY <1>2, <2>1, <3>1, NotRefreshingInOrder DEF ConfigInv, ConfigTyped
  <2>3. CASE row.version # refresh[r].known
    <3> DEFINE x == [refresh[r] EXCEPT !.pc = "loading", !.current = row.version]
    <3>1. refresh' = [refresh EXCEPT ![r] = x]
      BY <1>8, <2>3 DEF Config!ReadVersion, ConfigInv, ConfigTyped
    <3>2. /\ x.pc = "loading" /\ x.current = row.version
          /\ x.known = refresh[r].known /\ x.known <= row.version /\ x.known \in Nat
      BY DEF ConfigInv, ConfigTyped, IsRefresh, InOrder
    <3>3. IsRefresh(x)
      BY DEF ConfigInv, ConfigTyped, IsRefresh
    <3>4. InOrder(x, row.version)
      BY <2>3, <3>2 DEF InOrder, ConfigInv, ConfigTyped
    <3> QED BY <1>2, <2>1, <3>1, <3>3, <3>4
  <2> QED BY <2>2, <2>3
<1>9. ASSUME NEW r \in Refresh, Config!LoadRow(r) PROVE ConfigInv'
  <2> DEFINE x == [refresh[r] EXCEPT !.pc = "installing", !.loaded = row.document, !.at = row.version]
  <2>1. refresh' = [refresh EXCEPT ![r] = x] /\ UNCHANGED <<row, version, lastSave>>
    BY <1>9 DEF Config!LoadRow, ConfigInv, ConfigTyped
  <2>2. x.known = refresh[r].known /\ x.current = refresh[r].current /\ x.at = row.version
    BY DEF ConfigInv, ConfigTyped, IsRefresh
  <2>3. IsRefresh(x)
    BY DEF ConfigInv, ConfigTyped, IsRefresh
  <2>4. refresh[r].pc = "loading" /\ InOrder(refresh[r], row.version) /\ row.version \in Nat
    BY <1>9 DEF Config!LoadRow, ConfigInv, ConfigTyped
  <2>5. InOrder(x, row.version)
    BY <2>2, <2>4 DEF InOrder
  <2> QED BY <1>2, <2>1, <2>3, <2>5
<1>10. ASSUME NEW r \in Refresh, Config!Install(r) PROVE ConfigInv'
  <2> DEFINE p == ReaderOf[r]
  <2>1. refresh' = [refresh EXCEPT ![r] = Config!NotRefreshing] /\ UNCHANGED <<row, lastSave>>
    BY <1>10 DEF Config!Install
  <2>2. /\ refresh' = [s \in Refresh |-> refresh'[s]]
        /\ \A s \in Refresh : IsRefresh(refresh'[s]) /\ InOrder(refresh'[s], row'.version)
    <3>1. row.version \in Nat
      BY DEF ConfigInv, ConfigTyped
    <3> QED BY <2>1, <3>1, NotRefreshingInOrder, OneRefreshMoves
  <2>3. CASE Config!Wins(r)
    <3>1. version' = [version EXCEPT ![p] = refresh[r].current] /\ version[p] = refresh[r].known
      BY <1>10, <2>3 DEF Config!Install, Config!Wins
    <3>2. version[p] <= refresh[r].current /\ refresh[r].current <= row.version /\ refresh[r].current \in Nat
      BY <1>10, <3>1 DEF Config!Install, ConfigInv, ConfigTyped, IsRefresh, InOrder
    <3> QED BY <2>1, <2>2, <3>1, <3>2 DEF ConfigInv, ConfigTyped
  <2>4. CASE ~Config!Wins(r)
    <3>1. UNCHANGED version
      BY <1>10, <2>4 DEF Config!Install
    <3> QED BY <2>1, <2>2, <3>1 DEF ConfigInv, ConfigTyped
  <2> QED BY <2>3, <2>4
<1>11. ASSUME NEW r \in Refresh, Config!RefreshFails(r) PROVE ConfigInv'
  <2>1. refresh' = [refresh EXCEPT ![r] = Config!NotRefreshing] /\ UNCHANGED <<row, version, lastSave>>
    BY <1>11 DEF Config!RefreshFails
  <2> QED BY <1>2, <2>1, NotRefreshingInOrder DEF ConfigInv, ConfigTyped
<1>12. ASSUME NEW e \in Edit, Config!Get(e) \/ Config!Change(e) PROVE ConfigInv'
  BY <1>1, <1>12 DEF Config!Get, Config!Change
<1>13. ASSUME NEW p \in Proc, Config!IntervalEnds(p) PROVE ConfigInv'
  BY <1>1, <1>13 DEF Config!IntervalEnds
<1>14. CASE UNCHANGED Config!vars
  BY <1>1, <1>14 DEF Config!vars
<1> QED
  BY <1>3, <1>4, <1>5, <1>6, <1>7, <1>8, <1>9, <1>10, <1>11, <1>12, <1>13, <1>14
  DEF Config!Next, Config!RequestStep, Config!RefreshStep

(* What a process saved is not replaced by an older row as long as the     *)
(* process marks no rule, for any number of processes, requests, marks and *)
(* concurrent refreshes: SavesStay of ConfigStore.                         *)
THEOREM NothingUndone == ASSUME ConfigConstants PROVE Config!Spec => []Config!SavesStay
<1>1. ConfigInv => Config!SavesStay
  BY DEF ConfigInv, ConfigTyped, IsRefresh, InOrder, ConfigConstants, Config!SavesStay, Config!Wins
<1> QED BY <1>1, ConfigInit, ConfigNext, PTL DEF Config!Spec

-----------------------------------------------------------------------------
(* The types of ConfigStore.                                               *)
(* A finite set of numbers that is not empty has a least member.           *)
LEMMA LeastMember ==
    ASSUME NEW T, IsFiniteSet(T), T \subseteq Nat, T # {}
    PROVE  \E x \in T : \A y \in T : x <= y
<1> DEFINE Below(x) == {y \in T : y < x}
           rank == [x \in T |-> Cardinality(Below(x))]
           n == Cardinality(T)
<1>1. n \in Nat /\ n > 0
  BY FS_CardinalityType, FS_EmptySet
<1>2. \A x \in T : Below(x) \in SUBSET T /\ x \notin Below(x)
  OBVIOUS
<1>3. \A x \in T : IsFiniteSet(Below(x)) /\ Cardinality(Below(x)) \in 0 .. n - 1
  <2> SUFFICES ASSUME NEW x \in T PROVE IsFiniteSet(Below(x)) /\ Cardinality(Below(x)) \in 0 .. n - 1
    OBVIOUS
  <2>1. IsFiniteSet(Below(x)) /\ Cardinality(Below(x)) <= n /\ (n = Cardinality(Below(x)) => T = Below(x))
    BY <1>2, FS_Subset
  <2>2. Cardinality(Below(x)) \in Nat
    BY <2>1, FS_CardinalityType
  <2> QED BY <1>1, <1>2, <2>1, <2>2
<1>4. \A x, z \in T : x < z => Cardinality(Below(x)) # Cardinality(Below(z))
  <2> SUFFICES ASSUME NEW x \in T, NEW z \in T, x < z PROVE Cardinality(Below(x)) # Cardinality(Below(z))
    OBVIOUS
  <2>1. ~(x < x) /\ \A y \in T : y < x => y < z
    <3> SUFFICES ASSUME NEW y \in T, y < x PROVE ~(x < x) /\ y < z
      OBVIOUS
    <3>1. x \in Nat /\ y \in Nat /\ z \in Nat
      OBVIOUS
    <3> HIDE DEF Below, rank, n
    <3> QED BY <3>1
  <2>2. Below(x) \in SUBSET Below(z) /\ x \in Below(z) /\ x \notin Below(x)
    BY <2>1
  <2>3. Cardinality(Below(z)) = Cardinality(Below(x)) => Below(z) = Below(x)
    BY <1>3, <2>2, FS_Subset
  <2> QED BY <2>2, <2>3
<1>5. rank \in [T -> 0 .. n - 1]
  BY <1>3
<1>6. rank \in Injection(T, 0 .. n - 1)
  <2>1. \A x, z \in T : rank[x] = rank[z] => x = z
    <3> SUFFICES ASSUME NEW x \in T, NEW z \in T, x # z PROVE rank[x] # rank[z]
      OBVIOUS
    <3>1. x < z \/ z < x
      OBVIOUS
    <3>2. rank[x] = Cardinality(Below(x)) /\ rank[z] = Cardinality(Below(z))
      OBVIOUS
    <3> HIDE DEF Below, rank
    <3> QED BY <1>4, <3>1, <3>2
  <2> QED BY <1>5, <2>1 DEF Injection, IsInjective
<1>7. IsFiniteSet(0 .. n - 1) /\ Cardinality(0 .. n - 1) = n
  <2>1. /\ IsFiniteSet(0 .. n - 1)
        /\ Cardinality(0 .. n - 1) = IF 0 > n - 1 THEN 0 ELSE n - 1 - 0 + 1
    BY <1>1, FS_Interval
  <2> QED BY <1>1, <2>1
<1>8. PICK x \in T : rank[x] = 0
  <2>1. rank \in Surjection(T, 0 .. n - 1)
    BY <1>6, <1>7, FS_Injection
  <2>2. 0 \in 0 .. n - 1
    BY <1>1
  <2> HIDE DEF rank
  <2> QED BY <2>1, <2>2 DEF Surjection
<1>9. Below(x) = {}
  BY <1>3, <1>8, FS_EmptySet
<1> QED BY <1>9

(* ConfigStore keeps its types: the numbers of the writes stay within      *)
(* those of the edits to come and the marks, and there is a dictionary     *)
(* for every request and one more.                                         *)
ConfigBounds ==
    IsFiniteSet(Edit) /\ MaxMarks \in Nat /\ MaxFaults \in Nat /\ ConfigConstants

ToCome == {e \in Edit : ~Config!Ended(e)}
VersionBounded == row.version + Cardinality(ToCome) <= 1 + Cardinality(Edit) + MaxMarks

LEMMA ConfigCounts == \A S : Config!Cardinality(S) = Cardinality(S)
BY DEF Cardinality, Config!Cardinality

LEMMA UpdatesAre ==
    ASSUME ConfigBounds
    PROVE  /\ Cardinality(Edit) \in Nat
           /\ Config!Updates = 1 .. 1 + Cardinality(Edit) + MaxMarks
           /\ Config!Max(Config!Updates) = 1 + Cardinality(Edit) + MaxMarks
           /\ Config!Dictionary = 1 .. Cardinality(Edit) + 2
<1> DEFINE n == 1 + Cardinality(Edit) + MaxMarks
<1>1. Cardinality(Edit) \in Nat /\ n \in Nat \ {0}
  BY FS_CardinalityType DEF ConfigBounds
<1>2. Config!Updates = 1 .. n /\ Config!Dictionary = 1 .. Cardinality(Edit) + 2
  BY ConfigCounts DEF Config!Updates, Config!Dictionary
<1> HIDE DEF n
<1>3. Config!Max(1 .. n) = n
  <2>1. n \in 1 .. n /\ \A y \in 1 .. n : n >= y
    BY <1>1
  <2>2. \A x \in 1 .. n : (\A y \in 1 .. n : x >= y) => x = n
    BY <1>1
  <2> QED BY <2>1, <2>2 DEF Config!Max
<1> QED BY <1>1, <1>2, <1>3 DEF n

LEMMA EditsCounted ==
    ASSUME ConfigBounds
    PROVE  \A S \in SUBSET Edit : IsFiniteSet(S) /\ Cardinality(S) \in Nat /\ Cardinality(S) <= Cardinality(Edit)
<1>1. \A S \in SUBSET Edit : IsFiniteSet(S) /\ Cardinality(S) <= Cardinality(Edit)
  BY FS_Subset DEF ConfigBounds
<1> QED BY <1>1, FS_CardinalityType

LEMMA ToComeCounted ==
    ASSUME ConfigBounds
    PROVE  /\ IsFiniteSet(ToCome) /\ Cardinality(ToCome) \in Nat
           /\ IsFiniteSet(ToCome') /\ Cardinality(ToCome') \in Nat
           /\ \A S \in SUBSET ToCome : Cardinality(S) <= Cardinality(ToCome)
<1>1. ToCome \in SUBSET Edit /\ ToCome' \in SUBSET Edit
  BY DEF ToCome
<1>2. IsFiniteSet(ToCome) /\ IsFiniteSet(ToCome')
  BY <1>1, EditsCounted
<1> QED BY <1>1, <1>2, EditsCounted, FS_Subset

\* There is always a dictionary nobody has.
LEMMA FreshExists ==
    ASSUME ConfigBounds, NEW p \in Proc
    PROVE  Config!Fresh(p) \in Config!Dictionary
<1> DEFINE D == Config!Dictionary
           Had == [e \in Edit |-> request[e].dictionary]
           All == {Had[e] : e \in Edit}
           Rest == D \ (Config!Held(p) \cup {cached[p]})
<1>1. Cardinality(Edit) \in Nat /\ D = 1 .. Cardinality(Edit) + 2
  BY UpdatesAre
<1>2. IsFiniteSet(D) /\ Cardinality(D) = Cardinality(Edit) + 2
  <2>1. /\ IsFiniteSet(1 .. Cardinality(Edit) + 2)
        /\ Cardinality(1 .. Cardinality(Edit) + 2) =
             IF 1 > Cardinality(Edit) + 2 THEN 0 ELSE Cardinality(Edit) + 2 - 1 + 1
    BY <1>1, FS_Interval
  <2> QED BY <1>1, <2>1
<1>3. IsFiniteSet(All) /\ Cardinality(All) <= Cardinality(Edit)
  <2>1. Had \in Surjection(Edit, All)
    BY DEF Surjection
  <2> QED BY <2>1, FS_Surjection DEF ConfigBounds
<1>4. Config!Held(p) \subseteq All
  BY DEF Config!Held
<1> HIDE DEF All
<1>5. Rest # {}
  <2>0. Cardinality(All) \in Nat
    BY <1>3, FS_CardinalityType
  <2>1. IsFiniteSet(All \cup {cached[p]}) /\ Cardinality(All \cup {cached[p]}) <= Cardinality(Edit) + 1
    <3>1. PICK d : d = cached[p]
      OBVIOUS
    <3>2. /\ IsFiniteSet(All \cup {d})
          /\ Cardinality(All \cup {d}) = IF d \in All THEN Cardinality(All) ELSE Cardinality(All) + 1
      BY <1>3, FS_AddElement
    <3> QED BY <1>1, <1>3, <2>0, <3>1, <3>2
  <2> SUFFICES ASSUME Rest = {} PROVE FALSE
    OBVIOUS
  <2>2. D \subseteq All \cup {cached[p]}
    BY <1>4
  <2>3. Cardinality(D) <= Cardinality(All \cup {cached[p]})
    BY <2>1, <2>2, FS_Subset
  <2> QED BY <1>1, <1>2, <2>1, <2>3, FS_CardinalityType
<1>6. IsFiniteSet(Rest) /\ Rest \subseteq Nat /\ Rest \subseteq D
  BY <1>1, <1>2, FS_Subset
<1>7. Config!Fresh(p) = Config!Min(Rest)
  BY DEF Config!Fresh
<1> HIDE DEF Rest, D
<1>8. \E x \in Rest : \A y \in Rest : x <= y
  BY <1>5, <1>6, LeastMember
<1>9. Config!Min(Rest) \in Rest
  BY <1>8 DEF Config!Min
<1> QED BY <1>6, <1>7, <1>9 DEF D

Numbers == Config!Updates \cup {0}
RequestType == [pc : {"idle", "reading", "editing", "saved", "failed"}, dictionary : Config!Dictionary \cup {0}]
RefreshType ==
    [pc : {"idle", "checking", "loading", "installing"}, known : Numbers, current : Numbers,
     loaded : Config!Document, at : Numbers]
Heap == [Config!Dictionary -> Config!Document]

Shape ==
    /\ row \in [document : Config!Document, version : Config!Updates]
    /\ heap \in [Proc -> Heap] /\ cached \in [Proc -> Config!Dictionary]
    /\ version \in [Proc -> Numbers] /\ lastSave \in [Proc -> Numbers] /\ due \in [Proc -> BOOLEAN]
    /\ request \in [Edit -> RequestType] /\ refresh \in [Refresh -> RefreshType]
    /\ faults \in 0 .. MaxFaults

\* A request that runs has a dictionary.
HasDictionary == \A e \in Edit : request[e].pc \in {"reading", "editing"} => request[e].dictionary # 0

ConfigShaped == Shape /\ HasDictionary /\ VersionBounded

LEMMA ShapeIsType == Shape => Config!TypeOK
BY DEF Config!TypeOK, Config!None, Shape, Numbers, RequestType, RefreshType, Heap

LEMMA BlankTyped ==
    /\ Config!Nothing \in Config!Document
    /\ Config!NotRefreshing \in RefreshType
    /\ Config!NoRequest \in RequestType
BY DEF Config!Nothing, Config!Document, Config!NotRefreshing, Config!NoRequest, Config!None, RefreshType,
   RequestType, Numbers

LEMMA CollectedTyped ==
    ASSUME NEW p, NEW h \in Heap, NEW keeps PROVE Config!Collected(p, h, keeps) \in Heap
BY BlankTyped DEF Config!Collected, Heap

LEMMA PutTyped ==
    ASSUME ConfigBounds, ConfigShaped, NEW p \in Proc, NEW d \in Config!Document, Config!Put(p, d)
    PROVE  cached' \in [Proc -> Config!Dictionary] /\ heap' \in [Proc -> Heap]
<1>1. Config!Fresh(p) \in Config!Dictionary
  BY FreshExists
<1>2. heap \in [Proc -> Heap] /\ cached \in [Proc -> Config!Dictionary]
  BY DEF ConfigShaped, Shape
<1>3. cached' \in [Proc -> Config!Dictionary]
  BY <1>1, <1>2 DEF Config!Put
<1>4. PICK f, keeps : f = [heap[p] EXCEPT ![Config!Fresh(p)] = d] /\ keeps = Config!Held(p) \cup {Config!Fresh(p)}
  OBVIOUS
<1>5. f \in Heap
  BY <1>1, <1>2, <1>4 DEF Heap
<1>6. heap' = [heap EXCEPT ![p] = Config!Collected(p, f, keeps)]
  BY <1>4 DEF Config!Put
<1>7. Config!Collected(p, f, keeps) \in Heap
  BY <1>5, CollectedTyped
<1> QED BY <1>2, <1>3, <1>6, <1>7

\* Neither the row nor the requests change, or a request ends, with a write or without.
LEMMA VersionStays ==
    ASSUME ConfigBounds, ConfigShaped, row'.version = row.version, ToCome' \subseteq ToCome
    PROVE  VersionBounded'
<1>1. row.version \in Nat /\ Cardinality(Edit) \in Nat /\ MaxMarks \in Nat
  BY UpdatesAre DEF ConfigShaped, Shape, ConfigBounds
<1>2. Cardinality(ToCome') \in Nat /\ Cardinality(ToCome') <= Cardinality(ToCome)
  BY ToComeCounted
<1> QED BY <1>1, <1>2, ToComeCounted DEF ConfigShaped, VersionBounded

LEMMA VersionMoves ==
    ASSUME ConfigBounds, ConfigShaped, NEW e \in Edit, request[e].pc = "editing",
           request' = [request EXCEPT ![e] = [pc |-> "saved", dictionary |-> 0]] \/
           request' = [request EXCEPT ![e] = [pc |-> "failed", dictionary |-> 0]],
           row'.version \in {row.version, row.version + 1}
    PROVE  VersionBounded' /\ request' \in [Edit -> RequestType]
<1>1. row.version \in Nat /\ Cardinality(Edit) \in Nat /\ MaxMarks \in Nat /\ request \in [Edit -> RequestType]
  BY UpdatesAre DEF ConfigShaped, Shape, ConfigBounds
<1>2. request'[e].pc \in {"saved", "failed"} /\ \A x \in Edit \ {e} : request'[x] = request[x]
  BY <1>1
<1>3. ToCome' = ToCome \ {e} /\ e \in ToCome
  BY <1>2 DEF ToCome, Config!Ended
<1>4. Cardinality(ToCome') = Cardinality(ToCome) - 1
  BY <1>3, ToComeCounted, FS_RemoveElement
<1>5. request' \in [Edit -> RequestType]
  BY <1>1 DEF RequestType
<1> QED BY <1>1, <1>4, <1>5, ToComeCounted DEF ConfigShaped, VersionBounded

LEMMA VersionTyped ==
    ASSUME ConfigBounds, VersionBounded', row'.version \in Nat \ {0} PROVE row'.version \in Config!Updates
BY UpdatesAre, ToComeCounted DEF VersionBounded, ConfigBounds

LEMMA WrittenTyped ==
    ASSUME ConfigBounds, ConfigShaped, NEW e \in Edit, request[e].pc = "editing", request[e].dictionary # 0
    PROVE  Config!Written(e).document \in Config!Document /\ Config!Written(e).version = row.version + 1
<1>1. request[e].dictionary \in Config!Dictionary /\ heap[EditorOf[e]] \in Heap
  BY DEF ConfigShaped, Shape, RequestType, ConfigBounds, ConfigConstants
<1> QED BY <1>1 DEF Heap, Config!Written

LEMMA DictionaryHeld ==
    ASSUME ConfigBounds, ConfigShaped, [Config!Next]_(Config!vars)
    PROVE  HasDictionary'
<1>1. HasDictionary /\ request \in [Edit -> RequestType] /\ cached \in [Proc -> Config!Dictionary] /\ EditorOf \in [Edit -> Proc]
      /\ 0 \notin Config!Dictionary
  BY UpdatesAre DEF ConfigShaped, Shape, ConfigBounds, ConfigConstants
<1>2. ASSUME NEW e \in Edit, Config!Get(e) PROVE HasDictionary'
  BY <1>1, <1>2 DEF Config!Get, HasDictionary
<1>3. ASSUME NEW e \in Edit, Config!Change(e) PROVE HasDictionary'
  BY <1>1, <1>3 DEF Config!Change, HasDictionary, RequestType
<1>4. ASSUME NEW e \in Edit, Config!Save(e) \/ \E commits \in BOOLEAN : Config!SaveFails(e, commits)
      PROVE  HasDictionary'
  BY <1>1, <1>4 DEF Config!Save, Config!SaveFails, Config!Ends, HasDictionary
<1>5. ASSUME NEW p \in Proc, Config!Restart(p) PROVE HasDictionary'
  BY <1>1, <1>5 DEF Config!Restart, HasDictionary
<1>6. ASSUME request' = request PROVE HasDictionary'
  BY <1>1, <1>6 DEF HasDictionary
<1> QED
  BY <1>2, <1>3, <1>4, <1>5, <1>6
  DEF Config!Next, Config!RequestStep, Config!RefreshStep, Config!Mark, Config!IntervalEnds, Config!StartRefresh,
      Config!ReadVersion, Config!LoadRow, Config!Install, Config!RefreshFails, Config!vars

LEMMA ShapeBegins == ASSUME ConfigBounds, Config!Init PROVE ConfigShaped
<1>1. 1 \in Config!Updates /\ 1 \in Config!Dictionary /\ Cardinality(Edit) \in Nat
  BY UpdatesAre DEF ConfigBounds
<1>2. row = [document |-> Config!Nothing, version |-> 1]
  BY DEF Config!Init
<1>3. Shape
  <2>1. /\ heap \in [Proc -> Heap] /\ cached \in [Proc -> Config!Dictionary]
        /\ version \in [Proc -> Numbers] /\ lastSave \in [Proc -> Numbers] /\ due \in [Proc -> BOOLEAN]
    BY <1>1, BlankTyped DEF Config!Init, Heap, Numbers, Config!None
  <2>2. request \in [Edit -> RequestType] /\ refresh \in [Refresh -> RefreshType] /\ faults \in 0 .. MaxFaults
    BY BlankTyped DEF Config!Init, ConfigBounds
  <2> QED BY <1>1, <1>2, <2>1, <2>2, BlankTyped DEF Shape
<1>4. VersionBounded
  <2>1. ToCome \in SUBSET Edit
    BY DEF ToCome
  <2>2. Cardinality(ToCome) <= Cardinality(Edit)
    BY <2>1, FS_Subset DEF ConfigBounds
  <2> QED BY <1>1, <1>2, <2>2, ToComeCounted DEF VersionBounded, ConfigBounds
<1>5. HasDictionary
  BY DEF Config!Init, Config!NoRequest, HasDictionary
<1> QED BY <1>3, <1>4, <1>5 DEF ConfigShaped

LEMMA RequestsShaped ==
    ASSUME ConfigBounds, ConfigShaped, NEW e \in Edit,
           Config!Get(e) \/ Config!RequestStep(e)
    PROVE  ConfigShaped'
<1>1. /\ row \in [document : Config!Document, version : Config!Updates]
      /\ heap \in [Proc -> Heap] /\ cached \in [Proc -> Config!Dictionary]
      /\ version \in [Proc -> Numbers] /\ lastSave \in [Proc -> Numbers] /\ due \in [Proc -> BOOLEAN]
      /\ request \in [Edit -> RequestType] /\ refresh \in [Refresh -> RefreshType]
      /\ faults \in 0 .. MaxFaults
  BY DEF ConfigShaped, Shape
<1>2. HasDictionary' /\ EditorOf[e] \in Proc /\ Config!Updates \subseteq Nat \ {0} /\ MaxFaults \in Nat
  BY UpdatesAre, DictionaryHeld DEF ConfigBounds, ConfigConstants, Config!Next
<1>3. CASE Config!Get(e)
  <2>1. request' \in [Edit -> RequestType]
    BY <1>1, <1>2, <1>3 DEF Config!Get, RequestType
  <2>2. ToCome' \subseteq ToCome
    BY <1>1, <1>3 DEF Config!Get, ToCome, Config!Ended
  <2>3. VersionBounded'
    BY <1>3, <2>2, VersionStays DEF Config!Get
  <2> QED BY <1>1, <1>3, <2>1, <2>3, <1>2 DEF Config!Get, ConfigShaped, Shape
<1>4. CASE Config!Change(e)
  <2>1. request' \in [Edit -> RequestType]
    BY <1>1, <1>4 DEF Config!Change, RequestType
  <2>2. ToCome' \subseteq ToCome
    BY <1>1, <1>4 DEF Config!Change, ToCome, Config!Ended, RequestType
  <2>3. VersionBounded'
    BY <1>4, <2>2, VersionStays DEF Config!Change
  <2>4. heap' \in [Proc -> Heap]
    <3> DEFINE d == request[e].dictionary
               h == heap[EditorOf[e]]
    <3>1. d \in Config!Dictionary /\ h \in Heap /\ h[d] \in Config!Document
      BY <1>1, <1>2, <1>4 DEF Config!Change, ConfigShaped, HasDictionary, RequestType, Heap
    <3>2. PICK x : x = [h[d] EXCEPT !.edits = h[d].edits \cup {e}]
      OBVIOUS
    <3>3. x \in Config!Document
      BY <3>1, <3>2 DEF Config!Document
    <3>4. PICK f : f = [h EXCEPT ![d] = x]
      OBVIOUS
    <3>5. f \in Heap
      BY <3>1, <3>3, <3>4 DEF Heap
    <3>6. heap' = [heap EXCEPT ![EditorOf[e]] = f]
      BY <1>4, <3>2, <3>4 DEF Config!Change
    <3> QED BY <1>1, <1>2, <3>5, <3>6
  <2> QED BY <1>1, <1>4, <2>1, <2>3, <2>4, <1>2 DEF Config!Change, ConfigShaped, Shape
<1>5. ASSUME NEW keeps, heap' = Config!Released(e, keeps) PROVE heap' \in [Proc -> Heap]
  <2>1. PICK k : heap' = [heap EXCEPT ![EditorOf[e]] = Config!Collected(EditorOf[e], heap[EditorOf[e]], k)]
    BY <1>5 DEF Config!Released
  <2> QED BY <1>1, <1>2, <2>1, CollectedTyped
<1>6. CASE Config!Save(e)
  <2>1. /\ row' = Config!Written(e) /\ request[e].pc = "editing" /\ request[e].dictionary # 0
        /\ request' = [request EXCEPT ![e] = [pc |-> "saved", dictionary |-> 0]]
    BY <1>6 DEF Config!Save, Config!Ends, ConfigShaped, HasDictionary
  <2>2. row'.version = row.version + 1 /\ row'.document \in Config!Document
    BY <2>1, WrittenTyped
  <2>3. VersionBounded' /\ request' \in [Edit -> RequestType]
    BY <2>1, <2>2, VersionMoves
  <2>4. row'.version \in Config!Updates
    <3>1. row.version \in Nat \ {0}
      BY <1>1, <1>2
    <3>2. row'.version \in Nat \ {0}
      BY <2>2, <3>1
    <3> QED BY <2>3, <3>2, VersionTyped
  <2>5. row' \in [document : Config!Document, version : Config!Updates]
    BY <2>1, <2>2, <2>4 DEF Config!Written
  <2>6. /\ version' \in [Proc -> Numbers] /\ lastSave' \in [Proc -> Numbers] /\ due' \in [Proc -> BOOLEAN]
        /\ refresh' = refresh /\ faults' = faults
    BY <1>1, <1>6, <2>4 DEF Config!Save, Numbers
  <2>7. cached' \in [Proc -> Config!Dictionary] /\ heap' \in [Proc -> Heap]
    BY <1>1, <1>5, <1>6, <2>1 DEF Config!Save, RequestType
  <2> QED BY <1>1, <1>2, <2>3, <2>5, <2>6, <2>7 DEF ConfigShaped, Shape
<1>7. ASSUME NEW commits \in BOOLEAN, Config!SaveFails(e, commits) PROVE ConfigShaped'
  <2>1. /\ row' = Config!Written(e) \/ row' = row
        /\ request[e].pc = "editing" /\ request[e].dictionary # 0
        /\ request' = [request EXCEPT ![e] = [pc |-> "failed", dictionary |-> 0]]
    BY <1>7 DEF Config!SaveFails, Config!Ends, ConfigShaped, HasDictionary
  <2>2. row'.version \in {row.version, row.version + 1} /\ row'.document \in Config!Document
    BY <1>1, <2>1, WrittenTyped
  <2>3. VersionBounded' /\ request' \in [Edit -> RequestType]
    BY <2>1, <2>2, VersionMoves
  <2>4. row'.version \in Config!Updates
    <3>1. row.version \in Nat \ {0}
      BY <1>1, <1>2
    <3>2. row'.version \in Nat \ {0}
      BY <2>2, <3>1
    <3> QED BY <2>3, <3>2, VersionTyped
  <2>5. row' \in [document : Config!Document, version : Config!Updates]
    BY <1>1, <2>1, <2>2, <2>4 DEF Config!Written
  <2>6. UNCHANGED <<cached, version, due, refresh, lastSave>> /\ heap' \in [Proc -> Heap]
        /\ faults' \in 0 .. MaxFaults
    BY <1>1, <1>2, <1>5, <1>7 DEF Config!SaveFails, Config!Fault
  <2> QED BY <1>1, <1>2, <2>3, <2>5, <2>6 DEF ConfigShaped, Shape
<1> QED BY <1>3, <1>4, <1>6, <1>7 DEF Config!RequestStep

LEMMA MarkShaped ==
    ASSUME ConfigBounds, ConfigShaped, NEW p \in Proc, Config!Mark(p)
    PROVE  ConfigShaped'
<1>1. /\ row \in [document : Config!Document, version : Config!Updates] /\ heap \in [Proc -> Heap]
      /\ cached \in [Proc -> Config!Dictionary] /\ version \in [Proc -> Numbers]
      /\ lastSave \in [Proc -> Numbers] /\ due \in [Proc -> BOOLEAN]
      /\ request \in [Edit -> RequestType] /\ refresh \in [Refresh -> RefreshType]
      /\ faults \in 0 .. MaxFaults
  BY DEF ConfigShaped, Shape
<1>2. row.version + Cardinality(ToCome) \in Config!Updates /\ row.version + Cardinality(ToCome) # Config!Max(Config!Updates)
  BY ConfigCounts DEF Config!Mark, ToCome
<1>3. row' = [document |-> [row.document EXCEPT !.mark = row.version + 1], version |-> row.version + 1]
      /\ Config!Put(p, [heap[p][cached[p]] EXCEPT !.mark = row.version + 1])
      /\ UNCHANGED <<request, refresh, faults>>
  BY DEF Config!Mark
<1>4. ToCome' = ToCome
  BY <1>3 DEF ToCome, Config!Ended
<1>5. row.version + 1 \in Config!Updates /\ VersionBounded'
  <2>1. row.version \in Nat \ {0} /\ Cardinality(ToCome) \in Nat /\ Cardinality(Edit) \in Nat /\ MaxMarks \in Nat
    BY <1>1, UpdatesAre, ToComeCounted DEF ConfigBounds
  <2>2. row.version + Cardinality(ToCome) + 1 <= 1 + Cardinality(Edit) + MaxMarks
    BY <1>2, <2>1, UpdatesAre
  <2>3. row'.version = row.version + 1
    BY <1>3
  <2>4. VersionBounded'
    BY <1>4, <2>1, <2>2, <2>3 DEF VersionBounded
  <2> QED BY <2>1, <2>3, <2>4, VersionTyped
<1>6. \A d \in Config!Document : [d EXCEPT !.mark = row.version + 1] \in Config!Document
  BY <1>5 DEF Config!Document
<1>7. heap[p][cached[p]] \in Config!Document
  BY <1>1 DEF Heap
<1>8. cached' \in [Proc -> Config!Dictionary] /\ heap' \in [Proc -> Heap]
  BY <1>3, <1>6, <1>7, PutTyped
<1>9. row' \in [document : Config!Document, version : Config!Updates]
  BY <1>1, <1>3, <1>5, <1>6
<1>10. HasDictionary'
  BY DictionaryHeld DEF Config!Next
<1>11. version' \in [Proc -> Numbers] /\ lastSave' \in [Proc -> Numbers] /\ due' \in [Proc -> BOOLEAN]
  BY <1>1 DEF Config!Mark, Config!MarkedVersion, Config!None, Numbers
<1> QED BY <1>1, <1>3, <1>5, <1>8, <1>9, <1>10, <1>11 DEF ConfigShaped, Shape

\* What has to do with the requests alone stays when a step leaves them.
LEMMA RowKept ==
    ASSUME ConfigBounds, ConfigShaped, [Config!Next]_(Config!vars), row' = row, ToCome' \subseteq ToCome, Shape'
    PROVE  ConfigShaped'
BY DictionaryHeld, VersionStays DEF ConfigShaped

LEMMA RefreshShaped ==
    ASSUME ConfigBounds, ConfigShaped, NEW r \in Refresh, Config!RefreshStep(r) \/ Config!RefreshFails(r)
    PROVE  ConfigShaped'
<1>1. Shape /\ refresh[r] \in RefreshType /\ ReaderOf[r] \in Proc /\ MaxFaults \in Nat
  BY DEF ConfigShaped, Shape, ConfigBounds, ConfigConstants
<1>2. row' = row /\ ToCome' \subseteq ToCome /\ [Config!Next]_(Config!vars)
  BY DEF Config!RefreshStep, Config!StartRefresh, Config!ReadVersion, Config!LoadRow, Config!Install,
     Config!RefreshFails, ToCome, Config!Ended, Config!Next
<1>3. CASE Config!StartRefresh(r)
  <2>1. PICK k \in Numbers : k = version[ReaderOf[r]]
    BY <1>1 DEF Shape
  <2>2. refresh' = [refresh EXCEPT ![r] = [refresh[r] EXCEPT !.pc = "checking", !.known = k]]
    BY <1>1, <1>3, <2>1 DEF Config!StartRefresh, Shape
  <2>3. refresh' \in [Refresh -> RefreshType]
    BY <1>1, <2>2 DEF Shape, RefreshType
  <2> QED BY <1>1, <1>2, <1>3, <2>3, RowKept DEF Config!StartRefresh, Shape
<1>4. CASE Config!ReadVersion(r) \/ Config!LoadRow(r)
  <2>1. row.version \in Numbers /\ row.document \in Config!Document
    BY <1>1 DEF Shape, Numbers
  <2>2. PICK x : refresh' = [refresh EXCEPT ![r] = x] /\ x \in RefreshType
    <3>1. CASE Config!LoadRow(r)
      <4>1. [refresh[r] EXCEPT !.pc = "installing", !.loaded = row.document, !.at = row.version] \in RefreshType
        BY <1>1, <2>1 DEF RefreshType
      <4>2. refresh' = [refresh EXCEPT ![r] = [refresh[r] EXCEPT !.pc = "installing", !.loaded = row.document, !.at = row.version]]
        BY <1>1, <3>1 DEF Config!LoadRow, Shape
      <4> QED BY <4>1, <4>2
    <3>2. CASE Config!ReadVersion(r) /\ row.version = refresh[r].known
      <4>1. refresh' = [refresh EXCEPT ![r] = Config!NotRefreshing]
        BY <3>2 DEF Config!ReadVersion
      <4> QED BY <4>1, BlankTyped
    <3>3. CASE Config!ReadVersion(r) /\ row.version # refresh[r].known
      <4>1. refresh' = [refresh EXCEPT ![r] = [refresh[r] EXCEPT !.pc = "loading", !.current = row.version]]
        BY <3>3 DEF Config!ReadVersion
      <4>2. [refresh[r] EXCEPT !.pc = "loading", !.current = row.version] \in RefreshType
        BY <1>1, <2>1 DEF RefreshType
      <4> QED BY <4>1, <4>2
    <3> QED BY <1>4, <3>1, <3>2, <3>3
  <2>3. refresh' \in [Refresh -> RefreshType]
    BY <1>1, <2>2 DEF Shape
  <2>4. UNCHANGED <<row, heap, cached, version, due, request, lastSave, faults>>
    BY <1>4 DEF Config!ReadVersion, Config!LoadRow
  <2> QED BY <1>1, <1>2, <2>3, <2>4, RowKept DEF Shape
<1>5. CASE Config!Install(r)
  <2>1. refresh' \in [Refresh -> RefreshType] /\ UNCHANGED <<row, due, request, lastSave, faults>>
    BY <1>1, <1>5, BlankTyped DEF Config!Install, Shape
  <2>2. /\ cached' \in [Proc -> Config!Dictionary] /\ heap' \in [Proc -> Heap]
        /\ version' \in [Proc -> Numbers]
    <3>1. CASE Config!Wins(r)
      <4>1. refresh[r].loaded \in Config!Document /\ refresh[r].current \in Numbers
        BY <1>1 DEF RefreshType
      <4>2. Config!Put(ReaderOf[r], refresh[r].loaded) /\ version' = [version EXCEPT ![ReaderOf[r]] = refresh[r].current]
        BY <1>5, <3>1 DEF Config!Install
      <4>3. cached' \in [Proc -> Config!Dictionary] /\ heap' \in [Proc -> Heap]
        BY <1>1, <4>1, <4>2, PutTyped
      <4> QED BY <1>1, <4>1, <4>2, <4>3 DEF Shape
    <3>2. CASE ~Config!Wins(r)
      BY <1>1, <1>5, <3>2 DEF Config!Install, Shape
    <3> QED BY <3>1, <3>2
  <2> QED BY <1>1, <1>2, <2>1, <2>2, RowKept DEF Shape
<1>6. CASE Config!RefreshFails(r)
  BY <1>1, <1>2, <1>6, BlankTyped, RowKept DEF Config!RefreshFails, Config!Fault, Shape
<1> QED BY <1>3, <1>4, <1>5, <1>6 DEF Config!RefreshStep

LEMMA RestartShaped ==
    ASSUME ConfigBounds, ConfigShaped, NEW p \in Proc, Config!Restart(p)
    PROVE  ConfigShaped'
<1>1. Shape /\ 1 \in Config!Dictionary /\ MaxFaults \in Nat /\ row.document \in Config!Document /\ row.version \in Numbers
  BY UpdatesAre DEF ConfigShaped, Shape, ConfigBounds, Numbers
<1>2. /\ request' = [e \in Edit |-> IF EditorOf[e] = p /\ request[e].pc \in {"reading", "editing"}
                                    THEN [pc |-> "failed", dictionary |-> 0] ELSE request[e]]
      /\ row' = row /\ lastSave' = lastSave
  BY DEF Config!Restart
<1>3. request' \in [Edit -> RequestType] /\ ToCome' \subseteq ToCome
  BY <1>1, <1>2 DEF Shape, RequestType, ToCome, Config!Ended
<1>4. PICK h : h = [d \in Config!Dictionary |-> IF d = 1 THEN row.document ELSE Config!Nothing]
  OBVIOUS
<1>5. h \in Heap
  BY <1>1, <1>4, BlankTyped DEF Heap
<1>6. /\ heap' \in [Proc -> Heap] /\ cached' \in [Proc -> Config!Dictionary] /\ version' \in [Proc -> Numbers]
      /\ due' \in [Proc -> BOOLEAN] /\ faults' \in 0 .. MaxFaults
  BY <1>1, <1>4, <1>5 DEF Config!Restart, Config!Fault, Shape
<1>7. refresh' \in [Refresh -> RefreshType]
  BY <1>1, BlankTyped DEF Config!Restart, Shape
<1>8. Shape'
  BY <1>1, <1>2, <1>3, <1>6, <1>7 DEF Shape
<1> QED BY <1>2, <1>3, <1>8, RowKept DEF Config!Next

LEMMA ShapeHolds == ASSUME ConfigBounds, ConfigShaped, [Config!Next]_(Config!vars) PROVE ConfigShaped'
<1>1. CASE (\E p \in Proc : Config!IntervalEnds(p)) \/ UNCHANGED Config!vars
  <2>1. UNCHANGED <<row, heap, cached, version, request, refresh, lastSave, faults>> /\ due' \in [Proc -> BOOLEAN]
    BY <1>1 DEF Config!IntervalEnds, Config!vars, ConfigShaped, Shape
  <2>2. Shape' /\ ToCome' \subseteq ToCome
    BY <2>1 DEF ConfigShaped, Shape, ToCome, Config!Ended
  <2> QED BY <2>1, <2>2, RowKept
<1> QED BY <1>1, RequestsShaped, MarkShaped, RestartShaped, RefreshShaped DEF Config!Next

(* ConfigStore keeps its types: no version passes what the requests and    *)
(* marks can still write, and there is always a free dictionary.           *)
THEOREM ConfigKeepsTypes == ASSUME ConfigBounds PROVE Config!Spec => []Config!TypeOK
<1>1. Config!Init => ConfigShaped
  BY ShapeBegins
<1>2. ConfigShaped /\ [Config!Next]_(Config!vars) => ConfigShaped'
  BY ShapeHolds
<1>3. ConfigShaped => Config!TypeOK
  BY ShapeIsType DEF ConfigShaped
<1> QED BY <1>1, <1>2, <1>3, PTL DEF Config!Spec

-----------------------------------------------------------------------------
(* ModelInstall.                                                           *)

InstallConstants == AssetOf \in [Model -> Asset] /\ MaxJobs \in Nat

AtWork == {"work", "check", "verify", "load"}
Stage == AtWork \cup {"failing", "leaving", "ended"}

IsJob(x) ==
    /\ x \in [models : SUBSET Model, left : SUBSET Asset, asset : {x.asset}, found : {x.found},
              todo : SUBSET Model, total : {x.total}, status : {"running", "ready", "failed"}, stage : Stage]
    /\ x.status = "running" <=> x.stage \in AtWork
    /\ x.stage = "failing" => x.status = "failed"

JobsTyped ==
    /\ \E n \in Nat : DOMAIN job = 1 .. n
    /\ job = [j \in DOMAIN job |-> job[j]]
    /\ \A j \in DOMAIN job : IsJob(job[j])

ModelsTyped ==
    /\ file \in [Asset -> Installer!Contents]
    /\ status \in [Model -> {"not_downloaded", "installing", "ready", "failed"}]
    /\ owner \in [Model -> Nat] /\ active \in Nat

(* The job that has not finished is the one that is active, and the last.  *)
OneAtWork ==
    \A j \in DOMAIN job : job[j].status = "running" => active = j /\ \A k \in DOMAIN job : k <= j

IsLast(m, j) ==
    /\ j \in DOMAIN job /\ m \in job[j].models
    /\ \A k \in DOMAIN job : m \in job[k].models => k <= j

HasLast == \A m \in Model : (\E j \in DOMAIN job : m \in job[j].models) => \E j \in DOMAIN job : IsLast(m, j)

IsMarked(x) == x.stage \in {"leaving", "ended"}

(* A model still being installed is ahead of the job it belongs to: this   *)
(* is why a job that has done every asset has decided about each model.    *)
Ahead(x, m) ==
    \/ AssetOf[m] \in x.left
    \/ x.stage \in {"check", "verify"} /\ AssetOf[m] = x.asset
    \/ x.stage = "load" /\ m \in x.todo

InstallingOwned ==
    \A m \in Model : status[m] = "installing" =>
        /\ IsLast(m, owner[m]) /\ ~IsMarked(job[owner[m]])
        /\ job[owner[m]].status = "running" => Ahead(job[owner[m]], m)

Decided(x, m) ==
    /\ IsMarked(x) => status[m] = x.status
    /\ x.status = "running" => status[m] \in {"ready", "installing"}

LastDecides == \A m \in Model \ overtaken : \A j \in DOMAIN job : IsLast(m, j) => Decided(job[j], m)

TodoOfJob == \A j \in DOMAIN job : job[j].todo \subseteq job[j].models

InstallInv ==
    JobsTyped /\ ModelsTyped /\ OneAtWork /\ HasLast /\ InstallingOwned /\ LastDecides /\ TodoOfJob

-----------------------------------------------------------------------------
LEMMA InstallCounts == \A S : Installer!Cardinality(S) = Cardinality(S)
BY DEF Cardinality, Installer!Cardinality

LEMMA OneJobChanges ==
    ASSUME InstallInv, NEW j \in DOMAIN job, NEW x, IsJob(x), x.models = job[j].models, x.todo \subseteq x.models,
           x.status = "running" => job[j].status = "running",
           job' = [job EXCEPT ![j] = x]
    PROVE  /\ JobsTyped' /\ HasLast' /\ TodoOfJob'
           /\ \A m, k : IsLast(m, k)' <=> IsLast(m, k)
           /\ DOMAIN job' = DOMAIN job /\ job'[j] = x
           /\ \A k \in DOMAIN job : k # j => job'[k] = job[k]
<1>1. DOMAIN job' = DOMAIN job /\ job'[j] = x /\ \A k \in DOMAIN job : k # j => job'[k] = job[k]
  BY DEF InstallInv, JobsTyped
<1>2. JobsTyped'
  BY <1>1 DEF InstallInv, JobsTyped
<1>3. \A k \in DOMAIN job : job'[k].models = job[k].models
  BY <1>1
<1>4. \A m, k : IsLast(m, k)' <=> IsLast(m, k)
  BY <1>1, <1>3 DEF IsLast
<1>5. HasLast'
  BY <1>1, <1>3, <1>4 DEF InstallInv, HasLast
<1>6. TodoOfJob'
  BY <1>1 DEF InstallInv, TodoOfJob
<1> QED BY <1>1, <1>2, <1>4, <1>5, <1>6

(* A step of a job's thread that leaves the models alone.                  *)
LEMMA ThreadMoves ==
    ASSUME InstallInv, NEW j \in DOMAIN job, NEW x, IsJob(x), x.models = job[j].models, x.todo \subseteq x.models,
           x.status = "running" => job[j].status = "running",
           job' = [job EXCEPT ![j] = x],
           UNCHANGED <<status, owner, overtaken>>, ModelsTyped',
           x.status = "running" => active' = active,
           active' # active => active = j,
           x.status = "running" => \A m \in x.models : Ahead(job[j], m) => Ahead(x, m),
           \A m \in x.models : IsMarked(x) =>
              /\ IsLast(m, j) => status[m] # "installing"
              /\ IsLast(m, j) /\ m \notin overtaken => status[m] = x.status
    PROVE  InstallInv'
<1>1. /\ JobsTyped' /\ HasLast' /\ TodoOfJob'
      /\ \A m, k : IsLast(m, k)' <=> IsLast(m, k)
      /\ DOMAIN job' = DOMAIN job /\ job'[j] = x
      /\ \A k \in DOMAIN job : k # j => job'[k] = job[k]
  BY OneJobChanges
<1>2. OneAtWork'
  <2> SUFFICES ASSUME NEW k \in DOMAIN job, job'[k].status = "running"
               PROVE  active' = k /\ \A i \in DOMAIN job : i <= k
    BY <1>1 DEF OneAtWork
  <2>1. job[k].status = "running"
    BY <1>1
  <2>2. active = k /\ \A i \in DOMAIN job : i <= k
    BY <2>1 DEF InstallInv, OneAtWork
  <2> QED BY <1>1, <2>2
<1>3. InstallingOwned'
  <2> SUFFICES ASSUME NEW m \in Model, status[m] = "installing"
               PROVE  /\ IsLast(m, owner[m])' /\ ~IsMarked(job'[owner[m]])
                      /\ job'[owner[m]].status = "running" => Ahead(job'[owner[m]], m)
    BY DEF InstallingOwned
  <2>1. /\ IsLast(m, owner[m]) /\ ~IsMarked(job[owner[m]])
        /\ job[owner[m]].status = "running" => Ahead(job[owner[m]], m)
    BY DEF InstallInv, InstallingOwned
  <2>2. IsLast(m, owner[m])'
    BY <1>1, <2>1
  <2>3. owner[m] \in DOMAIN job /\ m \in job[owner[m]].models
    BY <2>1 DEF IsLast
  <2>4. CASE owner[m] # j
    BY <1>1, <2>1, <2>2, <2>3, <2>4
  <2>5. CASE owner[m] = j
    BY <1>1, <2>1, <2>2, <2>3, <2>5
  <2> QED BY <2>4, <2>5
<1>4. LastDecides'
  <2> SUFFICES ASSUME NEW m \in Model \ overtaken, NEW k \in DOMAIN job, IsLast(m, k)
               PROVE  Decided(job[k], m)'
    BY <1>1 DEF LastDecides
  <2>1. Decided(job[k], m) /\ m \in job[k].models
    BY DEF InstallInv, LastDecides, IsLast
  <2>2. CASE k # j
    BY <1>1, <2>1, <2>2 DEF Decided
  <2>3. CASE k = j
    BY <1>1, <2>1, <2>3 DEF Decided
  <2> QED BY <2>2, <2>3
<1> QED BY <1>1, <1>2, <1>3, <1>4 DEF InstallInv

-----------------------------------------------------------------------------
LEMMA InstallBegins == InstallConstants /\ Installer!Init => InstallInv
<1> SUFFICES ASSUME Installer!Init PROVE InstallInv
  OBVIOUS
<1>1. /\ file = [a \in Asset |-> "absent"] /\ status = [m \in Model |-> "not_downloaded"]
      /\ owner = [m \in Model |-> 0] /\ active = 0 /\ job = <<>>
  BY DEF Installer!Init
<1>2. DOMAIN job = {} /\ DOMAIN job = 1 .. 0
  BY <1>1
<1>3. JobsTyped
  BY <1>1, <1>2 DEF JobsTyped
<1>4. ModelsTyped
  BY <1>1 DEF ModelsTyped, Installer!Contents
<1> QED
  BY <1>1, <1>2, <1>3, <1>4
  DEF InstallInv, OneAtWork, HasLast, InstallingOwned, LastDecides, TodoOfJob

LEMMA InstallHolds ==
    ASSUME InstallConstants, InstallInv, NEW M \in SUBSET Model, Installer!Install(M) PROVE InstallInv'
<1> PICK n \in Nat : DOMAIN job = 1 .. n
  BY DEF InstallInv, JobsTyped
<1> DEFINE new == [models |-> M, left |-> {AssetOf[m] : m \in M}, asset |-> Installer!NoAsset,
                   found |-> "absent", todo |-> {}, total |-> Installer!NoAsset, status |-> "running", stage |-> "work"]
<1>1. /\ active # 0 => job[active].status # "running"
      /\ job' = [k \in 1 .. n + 1 |-> IF k < n + 1 THEN job[k] ELSE new]
      /\ active' = n + 1
      /\ status' = [m \in Model |-> IF m \in M THEN "installing" ELSE status[m]]
      /\ owner' = [m \in Model |-> IF m \in M THEN n + 1 ELSE owner[m]]
      /\ overtaken' = overtaken \ M
      /\ UNCHANGED <<file, legacy>>
  <2>1. Installer!Cardinality(DOMAIN job) + 1 = n + 1
    <3>1. Cardinality(1 .. n) = n
      BY FS_Interval, 1 \in Int, n \in Int
    <3> QED BY <3>1, InstallCounts
  <2> QED BY <2>1 DEF Installer!Install, Installer!Final
<1>2. /\ DOMAIN job' = 1 .. n + 1 /\ job'[n + 1] = new
      /\ \A k \in 1 .. n : job'[k] = job[k] /\ k \in DOMAIN job' /\ k < n + 1
      /\ \A k \in DOMAIN job' : k \in 1 .. n \/ k = n + 1
  BY <1>1
<1>3. IsJob(new) /\ new.models = M /\ new.status = "running" /\ new.stage = "work" /\ new.todo = {}
      /\ \A m \in M : AssetOf[m] \in new.left
  BY DEF IsJob, InstallConstants, Stage, AtWork
<1> HIDE DEF new
<1>4. JobsTyped'
  <2>1. job' = [k \in DOMAIN job' |-> job'[k]]
    BY <1>1
  <2> QED BY <1>2, <1>3, <2>1 DEF InstallInv, JobsTyped
<1>5. ModelsTyped'
  BY <1>1 DEF InstallInv, ModelsTyped
<1>6. \A k \in 1 .. n : job[k].status # "running"
  BY <1>1 DEF InstallInv, OneAtWork
<1>7. OneAtWork'
  BY <1>1, <1>2, <1>6 DEF OneAtWork
<1>8. \A m \in M : IsLast(m, n + 1)'
  BY <1>2, <1>3 DEF IsLast
<1>9. \A m \in Model \ M : \A k : IsLast(m, k)' <=> IsLast(m, k)
  BY <1>2, <1>3 DEF IsLast
<1>10. HasLast'
  <2> SUFFICES ASSUME NEW m \in Model, NEW j \in DOMAIN job', m \in job'[j].models
               PROVE  \E k \in DOMAIN job' : IsLast(m, k)'
    BY DEF HasLast
  <2>1. CASE m \in M
    BY <1>2, <1>8, <2>1
  <2>2. CASE m \notin M
    <3>1. j \in 1 .. n /\ m \in job[j].models
      BY <1>2, <1>3, <2>2
    <3>2. PICK k \in DOMAIN job : IsLast(m, k)
      BY <3>1 DEF InstallInv, HasLast
    <3> QED BY <1>2, <1>9, <2>2, <3>2
  <2> QED BY <2>1, <2>2
<1>11. InstallingOwned'
  <2> SUFFICES ASSUME NEW m \in Model, status'[m] = "installing"
               PROVE  /\ IsLast(m, owner[m])' /\ ~IsMarked(job'[owner'[m]])
                      /\ job'[owner'[m]].status = "running" => Ahead(job'[owner'[m]], m)
    BY DEF InstallingOwned
  <2>1. CASE m \in M
    BY <1>1, <1>2, <1>3, <1>8, <2>1 DEF IsMarked, Ahead
  <2>2. CASE m \notin M
    <3>1. status[m] = "installing" /\ owner'[m] = owner[m]
      BY <1>1, <2>2
    <3>2. /\ IsLast(m, owner[m]) /\ ~IsMarked(job[owner[m]])
          /\ job[owner[m]].status = "running" => Ahead(job[owner[m]], m)
      BY <3>1 DEF InstallInv, InstallingOwned
    <3>3. owner[m] \in 1 .. n
      BY <3>2 DEF IsLast
    <3> QED BY <1>2, <1>9, <2>2, <3>1, <3>2, <3>3
  <2> QED BY <2>1, <2>2
<1>12. LastDecides'
  <2> SUFFICES ASSUME NEW m \in Model \ overtaken', NEW j \in DOMAIN job', IsLast(m, j)'
               PROVE  Decided(job[j], m)'
    BY DEF LastDecides
  <2>1. CASE m \in M
    <3>1. j = n + 1
      <4>1. n + 1 \in DOMAIN job' /\ m \in job'[n + 1].models
        BY <1>2, <1>3, <2>1
      <4>2. n + 1 <= j
        BY <4>1 DEF IsLast
      <4> QED BY <1>2, <4>2
    <3> QED BY <1>1, <1>2, <1>3, <2>1, <3>1 DEF Decided, IsMarked
  <2>2. CASE m \notin M
    <3>1. IsLast(m, j) /\ m \notin overtaken
      BY <1>1, <1>9, <2>2
    <3>2. j \in 1 .. n
      BY <3>1 DEF IsLast
    <3>3. Decided(job[j], m)
      BY <3>1, <3>2 DEF InstallInv, LastDecides
    <3> QED BY <1>1, <1>2, <2>2, <3>2, <3>3 DEF Decided
  <2> QED BY <2>1, <2>2
<1>13. TodoOfJob'
  BY <1>2, <1>3 DEF InstallInv, TodoOfJob
<1> QED BY <1>4, <1>5, <1>7, <1>10, <1>11, <1>12, <1>13 DEF InstallInv
-----------------------------------------------------------------------------
(* The thread of a job.                                                    *)

(* An exception leaves the models to a later step.                         *)
LEMMA RaiseHolds ==
    ASSUME InstallInv, NEW j \in DOMAIN job, job[j].status = "running", Installer!Raise(j),
           UNCHANGED <<file, legacy, status, owner, active, overtaken>>
    PROVE  InstallInv'
<1> DEFINE x == [job[j] EXCEPT !.status = "failed", !.stage = "failing"]
<1>1. job' = [job EXCEPT ![j] = x]
  BY DEF Installer!Raise, InstallInv, JobsTyped
<1>2. IsJob(job[j]) /\ job[j].todo \subseteq job[j].models
  BY DEF InstallInv, JobsTyped, TodoOfJob
<1>3. IsJob(x) /\ x.models = job[j].models /\ x.todo = job[j].todo /\ x.status = "failed" /\ x.stage = "failing"
  BY <1>2 DEF IsJob, Stage, AtWork
<1> HIDE DEF x
<1>4. ModelsTyped'
  BY DEF InstallInv, ModelsTyped
<1>5. ~IsMarked(x)
  BY <1>3 DEF IsMarked
<1> QED BY <1>1, <1>2, <1>3, <1>4, <1>5, ThreadMoves

LEMMA NextAssetHolds ==
    ASSUME InstallInv, NEW j \in DOMAIN job, NEW a, Installer!NextAsset(j, a) PROVE InstallInv'
<1> DEFINE x == [job[j] EXCEPT !.asset = a, !.left = @ \ {a}, !.stage = "check"]
<1>1. /\ job' = [job EXCEPT ![j] = x] /\ job[j].stage = "work"
      /\ UNCHANGED <<file, legacy, status, owner, active, overtaken>>
  BY DEF Installer!NextAsset, InstallInv, JobsTyped
<1>2. IsJob(job[j]) /\ job[j].todo \subseteq job[j].models /\ job[j].status = "running"
  BY <1>1 DEF InstallInv, JobsTyped, TodoOfJob, IsJob, AtWork
<1>3. /\ IsJob(x) /\ x.models = job[j].models /\ x.todo = job[j].todo /\ x.status = "running"
      /\ x.left = job[j].left \ {a} /\ x.asset = a /\ x.stage = "check"
  BY <1>2 DEF IsJob, Stage, AtWork
<1> HIDE DEF x
<1>4. ModelsTyped'
  BY <1>1 DEF InstallInv, ModelsTyped
<1>5. ~IsMarked(x)
  BY <1>3 DEF IsMarked
<1>6. \A m \in x.models : Ahead(job[j], m) => Ahead(x, m)
  BY <1>1, <1>3 DEF Ahead
<1> QED BY <1>1, <1>2, <1>3, <1>4, <1>5, <1>6, ThreadMoves

LEMMA FetchHolds ==
    ASSUME InstallInv, NEW j \in DOMAIN job, Installer!Fetch(j) PROVE InstallInv'
<1>1. IsJob(job[j]) /\ job[j].todo \subseteq job[j].models /\ job[j].status = "running" /\ job[j].stage = "check"
  BY DEF InstallInv, JobsTyped, TodoOfJob, IsJob, AtWork, Installer!Fetch
<1>2. UNCHANGED <<legacy, status, owner, active, overtaken>>
  BY DEF Installer!Fetch
<1>3. file' \in [Asset -> Installer!Contents]
  BY DEF Installer!Fetch, Installer!FindsFile, Installer!Promotes, Installer!Downloads, Installer!DownloadFails,
         Installer!Contents, InstallInv, ModelsTyped
<1>4. ModelsTyped'
  BY <1>2, <1>3 DEF InstallInv, ModelsTyped
<1>5. ASSUME NEW found, NEW total, Installer!Verifying(j, found, total) PROVE InstallInv'
  <2> DEFINE x == [job[j] EXCEPT !.stage = "verify", !.found = found, !.total = total]
  <2>1. job' = [job EXCEPT ![j] = x]
    BY <1>5 DEF Installer!Verifying, InstallInv, JobsTyped
  <2>2. /\ IsJob(x) /\ x.models = job[j].models /\ x.todo = job[j].todo /\ x.status = "running"
        /\ x.left = job[j].left /\ x.asset = job[j].asset /\ x.stage = "verify"
    BY <1>1 DEF IsJob, Stage, AtWork
  <2> HIDE DEF x
  <2>3. ~IsMarked(x)
    BY <2>2 DEF IsMarked
  <2>4. \A m \in x.models : Ahead(job[j], m) => Ahead(x, m)
    BY <1>1, <2>2 DEF Ahead
  <2> QED BY <1>1, <1>2, <1>4, <2>1, <2>2, <2>3, <2>4, ThreadMoves
<1>6. CASE Installer!Raise(j) /\ UNCHANGED file
  BY <1>1, <1>2, <1>6, RaiseHolds
<1> QED
  BY <1>5, <1>6
  DEF Installer!Fetch, Installer!FindsFile, Installer!Promotes, Installer!Downloads, Installer!DownloadFails

LEMMA VerifyHolds ==
    ASSUME InstallInv, NEW j \in DOMAIN job, Installer!Verify(j) PROVE InstallInv'
<1>1. IsJob(job[j]) /\ job[j].todo \subseteq job[j].models /\ job[j].status = "running" /\ job[j].stage = "verify"
  BY DEF InstallInv, JobsTyped, TodoOfJob, IsJob, AtWork, Installer!Verify
<1>2. UNCHANGED <<file, legacy, status, owner, active, overtaken>>
  BY DEF Installer!Verify
<1>3. CASE Installer!Raise(j)
  BY <1>1, <1>2, <1>3, RaiseHolds
<1>4. CASE job' = [job EXCEPT ![j].stage = "load",
                              ![j].todo = job[j].models \cap Installer!Loads(job[j].asset)]
  <2> DEFINE loads == job[j].models \cap Installer!Loads(job[j].asset)
             x == [job[j] EXCEPT !.stage = "load", !.todo = loads]
  <2>1. job' = [job EXCEPT ![j] = x]
    BY <1>4 DEF InstallInv, JobsTyped
  <2>2. /\ IsJob(x) /\ x.models = job[j].models /\ x.todo = loads /\ x.status = "running"
        /\ x.left = job[j].left /\ x.stage = "load"
    <3>1. loads \in SUBSET job[j].models
      OBVIOUS
    <3> HIDE DEF loads
    <3> QED BY <1>1, <3>1 DEF IsJob, Stage, AtWork
  <2>3. \A m \in job[j].models : AssetOf[m] = job[j].asset => m \in loads
    BY <1>1 DEF Installer!Loads, IsJob
  <2> HIDE DEF x, loads
  <2>4. ~IsMarked(x)
    BY <2>2 DEF IsMarked
  <2>5. \A m \in x.models : Ahead(job[j], m) => Ahead(x, m)
    BY <1>1, <2>2, <2>3 DEF Ahead
  <2>6. x.todo \subseteq x.models
    BY <2>2 DEF loads
  <2>7. ModelsTyped'
    BY <1>2 DEF InstallInv, ModelsTyped
  <2> QED BY <1>1, <1>2, <2>1, <2>2, <2>4, <2>5, <2>6, <2>7, ThreadMoves
<1> QED BY <1>3, <1>4 DEF Installer!Verify

(* Every asset is done: none of the models is ahead of the job.            *)
LEMMA SucceedHolds ==
    ASSUME InstallInv, NEW j \in DOMAIN job, Installer!Succeed(j) PROVE InstallInv'
<1> DEFINE x == [job[j] EXCEPT !.status = "ready", !.stage = "leaving"]
<1>1. /\ job' = [job EXCEPT ![j] = x] /\ job[j].stage = "work" /\ job[j].left = {}
      /\ UNCHANGED <<file, legacy, status, owner, active, overtaken>>
  BY DEF Installer!Succeed, InstallInv, JobsTyped
<1>2. IsJob(job[j]) /\ job[j].todo \subseteq job[j].models /\ job[j].status = "running"
  BY <1>1 DEF InstallInv, JobsTyped, TodoOfJob, IsJob, AtWork
<1>3. IsJob(x) /\ x.models = job[j].models /\ x.todo = job[j].todo /\ x.status = "ready" /\ x.stage = "leaving"
  BY <1>2 DEF IsJob, Stage, AtWork
<1> HIDE DEF x
<1>4. ModelsTyped'
  BY <1>1 DEF InstallInv, ModelsTyped
<1>5. ASSUME NEW m \in x.models, IsLast(m, j)
      PROVE  status[m] # "installing" /\ (m \notin overtaken => status[m] = "ready")
  <2>1. m \in Model
    BY <1>3 DEF IsJob
  <2>2. ~Ahead(job[j], m)
    BY <1>1 DEF Ahead
  <2>3. status[m] # "installing"
    <3> SUFFICES ASSUME status[m] = "installing" PROVE FALSE
      OBVIOUS
    <3>1. IsLast(m, owner[m]) /\ (job[owner[m]].status = "running" => Ahead(job[owner[m]], m))
      BY <2>1 DEF InstallInv, InstallingOwned
    <3>2. owner[m] = j
      <4>1. j \in Nat /\ owner[m] \in Nat
        BY <2>1 DEF InstallInv, JobsTyped, ModelsTyped
      <4>2. j <= owner[m] /\ owner[m] <= j
        BY <1>5, <3>1 DEF IsLast
      <4> QED BY <4>1, <4>2
    <3> QED BY <1>2, <2>2, <3>1, <3>2
  <2>4. m \notin overtaken => status[m] = "ready"
    BY <1>2, <1>5, <2>1, <2>3 DEF InstallInv, LastDecides, Decided
  <2> QED BY <2>3, <2>4
<1> QED BY <1>1, <1>2, <1>3, <1>4, <1>5, ThreadMoves

LEMMA ReleaseHolds ==
    ASSUME InstallInv, NEW j \in DOMAIN job, Installer!Release(j) PROVE InstallInv'
<1> DEFINE x == [job[j] EXCEPT !.stage = "ended"]
<1>1. /\ job' = [job EXCEPT ![j] = x] /\ job[j].stage = "leaving"
      /\ active' = IF active = j THEN 0 ELSE active
      /\ UNCHANGED <<file, legacy, status, owner, overtaken>>
  BY DEF Installer!Release, InstallInv, JobsTyped
<1>2. IsJob(job[j]) /\ job[j].todo \subseteq job[j].models /\ job[j].status # "running"
  BY <1>1 DEF InstallInv, JobsTyped, TodoOfJob, IsJob, AtWork
<1>3. IsJob(x) /\ x.models = job[j].models /\ x.todo = job[j].todo /\ x.status = job[j].status
  BY <1>1, <1>2 DEF Stage, IsJob, AtWork
<1> HIDE DEF x
<1>4. ModelsTyped'
  BY <1>1 DEF InstallInv, ModelsTyped
<1>5. ASSUME NEW m \in x.models, IsLast(m, j)
      PROVE  status[m] # "installing" /\ (m \notin overtaken => status[m] = x.status)
  <2>1. m \in Model
    BY <1>3 DEF IsJob
  <2>2. IsMarked(job[j])
    BY <1>1 DEF IsMarked
  <2>3. status[m] # "installing"
    <3> SUFFICES ASSUME status[m] = "installing" PROVE FALSE
      OBVIOUS
    <3>1. IsLast(m, owner[m]) /\ ~IsMarked(job[owner[m]])
      BY <2>1 DEF InstallInv, InstallingOwned
    <3>2. owner[m] = j
      <4>1. j \in Nat /\ owner[m] \in Nat
        BY <2>1 DEF InstallInv, JobsTyped, ModelsTyped
      <4>2. j <= owner[m] /\ owner[m] <= j
        BY <1>5, <3>1 DEF IsLast
      <4> QED BY <4>1, <4>2
    <3> QED BY <2>2, <3>1, <3>2
  <2>4. m \notin overtaken => status[m] = x.status
    BY <1>3, <1>5, <2>1, <2>2 DEF InstallInv, LastDecides, Decided
  <2> QED BY <2>3, <2>4
<1> QED BY <1>1, <1>2, <1>3, <1>4, <1>5, ThreadMoves

(* A model is loaded and no longer waits for its job.                      *)
LEMMA LoadHolds ==
    ASSUME InstallInv, NEW j \in DOMAIN job, NEW m \in Model, Installer!Load(j, m) PROVE InstallInv'
<1>1. /\ IsJob(job[j]) /\ job[j].todo \subseteq job[j].models /\ job[j].status = "running"
      /\ job[j].stage = "load" /\ m \in job[j].todo
  BY DEF InstallInv, JobsTyped, TodoOfJob, IsJob, AtWork, Installer!Load
<1>2. UNCHANGED <<file, legacy, active, overtaken>>
  BY DEF Installer!Load
<1>3. CASE Installer!Raise(j) /\ UNCHANGED <<status, owner>>
  BY <1>1, <1>2, <1>3, RaiseHolds
<1>4. CASE ~(Installer!Raise(j) /\ UNCHANGED <<status, owner>>)
  <2> DEFINE left == job[j].todo \ {m}
             phase == IF left = {} THEN "work" ELSE "load"
             x == [job[j] EXCEPT !.stage = phase, !.todo = left]
  <2>1. /\ status' = [status EXCEPT ![m] = "ready"] /\ owner' = [owner EXCEPT ![m] = 0]
        /\ job' = [job EXCEPT ![j] = x]
    <3>1. /\ status' = [status EXCEPT ![m] = "ready"] /\ owner' = [owner EXCEPT ![m] = 0]
          /\ job' = [job EXCEPT ![j].todo = left, ![j].stage = IF left = {} THEN "work" ELSE @]
      BY <1>4 DEF Installer!Load
    <3>2. job' = [job EXCEPT ![j] = [job[j] EXCEPT !.todo = left, !.stage = phase]]
      BY <1>1, <3>1
    <3>3. [job[j] EXCEPT !.todo = left, !.stage = phase] = x
      BY <1>1 DEF IsJob
    <3> QED BY <3>1, <3>2, <3>3
  <2>2. /\ IsJob(x) /\ x.models = job[j].models /\ x.todo = left /\ x.status = "running"
        /\ x.left = job[j].left /\ x.stage = phase
    <3>1. left \in SUBSET job[j].models /\ phase \in Stage /\ phase \in AtWork
      BY <1>1 DEF Stage, AtWork
    <3> HIDE DEF left, phase
    <3> QED BY <1>1, <3>1 DEF IsJob, Stage, AtWork
  <2>3. /\ \A k \in job[j].todo \ {m} : Ahead(x, k)
        /\ \A k : k # m /\ Ahead(job[j], k) => Ahead(x, k)
        /\ ~IsMarked(x)
    BY <1>1, <2>2 DEF Ahead, IsMarked
  <2>4. x.todo \subseteq x.models
    BY <1>1, <2>2
  <2> HIDE DEF x
  <2>5. /\ JobsTyped' /\ HasLast' /\ TodoOfJob'
        /\ \A i, k : IsLast(i, k)' <=> IsLast(i, k)
        /\ DOMAIN job' = DOMAIN job /\ job'[j] = x
        /\ \A k \in DOMAIN job : k # j => job'[k] = job[k]
    BY <1>1, <2>1, <2>2, <2>4, OneJobChanges
  <2>6. /\ status'[m] = "ready" /\ \A i \in Model : i # m => status'[i] = status[i] /\ owner'[i] = owner[i]
    BY <2>1 DEF InstallInv, ModelsTyped
  <2>7. ModelsTyped'
    BY <1>2, <2>1 DEF InstallInv, ModelsTyped
  <2>8. OneAtWork'
    BY <1>1, <1>2, <2>5 DEF InstallInv, OneAtWork
  <2>9. \A k \in DOMAIN job : k # j => job[k].status # "running"
    <3> SUFFICES ASSUME NEW k \in DOMAIN job, k # j, job[k].status = "running" PROVE FALSE
      OBVIOUS
    <3> QED BY <1>1 DEF InstallInv, OneAtWork
  <2>10. InstallingOwned'
    <3> SUFFICES ASSUME NEW i \in Model, status'[i] = "installing"
                 PROVE  /\ IsLast(i, owner[i])' /\ ~IsMarked(job'[owner'[i]])
                        /\ job'[owner'[i]].status = "running" => Ahead(job'[owner'[i]], i)
      BY DEF InstallingOwned
    <3>1. i # m /\ status[i] = "installing" /\ owner'[i] = owner[i]
      BY <2>6
    <3>2. /\ IsLast(i, owner[i]) /\ ~IsMarked(job[owner[i]]) /\ owner[i] \in DOMAIN job
          /\ job[owner[i]].status = "running" => Ahead(job[owner[i]], i)
      BY <3>1 DEF InstallInv, InstallingOwned, IsLast
    <3>3. IsLast(i, owner[i])'
      <4> DEFINE o == owner[i]
      <4>1. IsLast(i, o)'
        BY <2>5, <3>1, <3>2
      <4> QED BY <3>1, <4>1 DEF IsLast
    <3>4. CASE owner[i] # j
      BY <2>5, <3>1, <3>2, <3>3, <3>4
    <3>5. CASE owner[i] = j
      BY <1>1, <2>3, <2>5, <3>1, <3>2, <3>3, <3>5
    <3> QED BY <3>4, <3>5
  <2>11. LastDecides'
    <3> SUFFICES ASSUME NEW i \in Model \ overtaken, NEW k \in DOMAIN job, IsLast(i, k)
                 PROVE  Decided(job[k], i)'
      BY <1>2, <2>5 DEF LastDecides
    <3>1. Decided(job[k], i) /\ \A l \in DOMAIN job : i \in job[l].models => l <= k
      BY DEF InstallInv, LastDecides, IsLast
    <3>2. CASE i # m
      <4>1. k # j => Decided(job[k], i)'
        BY <2>5, <2>6, <3>1, <3>2 DEF Decided
      <4>2. k = j => Decided(job[k], i)'
        BY <1>1, <2>2, <2>3, <2>5, <2>6, <3>1, <3>2 DEF Decided
      <4> QED BY <4>1, <4>2
    <3>3. CASE i = m
      <4>1. k = j
        <5>1. j <= k
          BY <1>1, <3>1, <3>3
        <5>2. k <= j
          BY <1>1 DEF InstallInv, OneAtWork
        <5>3. j \in Nat /\ k \in Nat
          BY DEF InstallInv, JobsTyped
        <5> QED BY <5>1, <5>2, <5>3
      <4> QED BY <2>2, <2>3, <2>5, <2>6, <3>3, <4>1 DEF Decided
    <3> QED BY <3>2, <3>3
  <2> QED BY <2>5, <2>7, <2>8, <2>10, <2>11 DEF InstallInv
<1> QED BY <1>3, <1>4

(* A failed job marks its models; one that belongs to a later job is then  *)
(* overtaken.                                                              *)
LEMMA MarkFailedHolds ==
    ASSUME InstallInv, NEW j \in DOMAIN job, Installer!MarkFailed(j) PROVE InstallInv'
<1> DEFINE x == [job[j] EXCEPT !.stage = "leaving"]
<1>1. /\ job' = [job EXCEPT ![j] = x] /\ job[j].stage = "failing"
      /\ status' = [m \in Model |-> IF m \in job[j].models THEN "failed" ELSE status[m]]
      /\ owner' = [m \in Model |-> IF m \in job[j].models THEN 0 ELSE owner[m]]
      /\ overtaken' = overtaken \cup {m \in job[j].models : \E k \in DOMAIN job : k > j /\ m \in job[k].models}
      /\ UNCHANGED <<file, legacy, active>>
  BY DEF Installer!MarkFailed, InstallInv, JobsTyped
<1>2. IsJob(job[j]) /\ job[j].todo \subseteq job[j].models /\ job[j].status = "failed"
  BY <1>1 DEF InstallInv, JobsTyped, TodoOfJob, IsJob, AtWork
<1>3. IsJob(x) /\ x.models = job[j].models /\ x.todo = job[j].todo /\ x.status = "failed"
  BY <1>1, <1>2 DEF Stage, IsJob, AtWork
<1> HIDE DEF x
<1>4. /\ JobsTyped' /\ HasLast' /\ TodoOfJob'
      /\ \A i, k : IsLast(i, k)' <=> IsLast(i, k)
      /\ DOMAIN job' = DOMAIN job /\ job'[j] = x
      /\ \A k \in DOMAIN job : k # j => job'[k] = job[k]
  BY <1>1, <1>2, <1>3, OneJobChanges
<1>5. ModelsTyped'
  BY <1>1 DEF InstallInv, ModelsTyped
<1>6. OneAtWork'
  BY <1>1, <1>3, <1>4 DEF InstallInv, OneAtWork
<1>7. InstallingOwned'
  <2> SUFFICES ASSUME NEW i \in Model, status'[i] = "installing"
               PROVE  /\ IsLast(i, owner[i])' /\ ~IsMarked(job'[owner'[i]])
                      /\ job'[owner'[i]].status = "running" => Ahead(job'[owner'[i]], i)
    BY DEF InstallingOwned
  <2>1. i \notin job[j].models /\ status[i] = "installing" /\ owner'[i] = owner[i]
    BY <1>1
  <2>2. /\ IsLast(i, owner[i]) /\ ~IsMarked(job[owner[i]]) /\ owner[i] \in DOMAIN job /\ i \in job[owner[i]].models
        /\ job[owner[i]].status = "running" => Ahead(job[owner[i]], i)
    BY <2>1 DEF InstallInv, InstallingOwned, IsLast
  <2>3. owner[i] # j /\ job'[owner[i]] = job[owner[i]]
    BY <1>4, <2>1, <2>2
  <2>4. IsLast(i, owner[i])'
    <3> DEFINE o == owner[i]
    <3>1. IsLast(i, o)'
      BY <1>4, <2>1, <2>2
    <3> QED BY <2>1, <3>1 DEF IsLast
  <2> QED BY <2>1, <2>2, <2>3, <2>4
<1>8. LastDecides'
  <2> SUFFICES ASSUME NEW i \in Model \ overtaken', NEW k \in DOMAIN job, IsLast(i, k)
               PROVE  Decided(job[k], i)'
    BY <1>4 DEF LastDecides
  <2>1. Decided(job[k], i) /\ i \in job[k].models
    BY <1>1 DEF InstallInv, LastDecides, IsLast
  <2>2. CASE i \notin job[j].models
    <3>1. k # j /\ status'[i] = status[i]
      BY <1>1, <2>1, <2>2
    <3> QED BY <1>4, <2>1, <3>1 DEF Decided
  <2>3. CASE i \in job[j].models
    <3>1. k = j
      <4>1. j <= k /\ ~(k > j)
        BY <1>1, <2>1, <2>3 DEF IsLast
      <4>2. j \in Nat /\ k \in Nat
        BY DEF InstallInv, JobsTyped
      <4> QED BY <4>1, <4>2
    <3>2. status'[i] = "failed"
      BY <1>1, <2>3
    <3> QED BY <1>3, <1>4, <3>1, <3>2 DEF Decided
  <2> QED BY <2>2, <2>3
<1> QED BY <1>4, <1>5, <1>6, <1>7, <1>8 DEF InstallInv

-----------------------------------------------------------------------------
LEMMA RestartHolds ==
    ASSUME InstallInv, Installer!Restart PROVE InstallInv'
<1>1. job' = <<>> /\ active' = 0 /\ owner' = [m \in Model |-> 0] /\ UNCHANGED legacy
  BY DEF Installer!Restart
<1>2. DOMAIN job' = {} /\ DOMAIN job' = 1 .. 0
  BY <1>1
<1>3. /\ file' \in [Asset -> Installer!Contents]
      /\ status' \in [Model -> {"not_downloaded", "ready", "failed"}]
  BY DEF Installer!Restart
<1>4. JobsTyped' /\ ModelsTyped'
  BY <1>1, <1>2, <1>3 DEF JobsTyped, ModelsTyped
<1>5. \A m \in Model : status'[m] # "installing"
  BY <1>3
<1> QED
  BY <1>2, <1>4, <1>5 DEF InstallInv, OneAtWork, HasLast, InstallingOwned, LastDecides, TodoOfJob

LEMMA SupplyHolds ==
    ASSUME InstallInv, NEW a \in Asset, Installer!Supply(a) PROVE InstallInv'
<1>1. legacy \subseteq legacy' /\ UNCHANGED <<file, status, owner, active, job, overtaken>>
  BY DEF Installer!Supply
<1>2. JobsTyped' /\ ModelsTyped' /\ OneAtWork' /\ TodoOfJob'
  BY <1>1 DEF InstallInv, JobsTyped, ModelsTyped, OneAtWork, TodoOfJob
<1>3. HasLast' /\ InstallingOwned' /\ LastDecides'
  BY <1>1 DEF InstallInv, HasLast, IsLast, InstallingOwned, LastDecides, Decided
<1> QED BY <1>2, <1>3 DEF InstallInv

LEMMA InstallStays == InstallConstants /\ InstallInv /\ [Installer!Next]_(Installer!vars) => InstallInv'
<1> SUFFICES ASSUME InstallConstants, InstallInv, [Installer!Next]_(Installer!vars) PROVE InstallInv'
  OBVIOUS
<1>1. CASE UNCHANGED Installer!vars
  BY <1>1
  DEF Installer!vars, InstallInv, JobsTyped, ModelsTyped, OneAtWork, HasLast, IsLast, InstallingOwned,
      LastDecides, Decided, TodoOfJob
<1> QED
  BY <1>1, InstallHolds, NextAssetHolds, FetchHolds, VerifyHolds, LoadHolds, SucceedHolds, MarkFailedHolds,
     ReleaseHolds, RestartHolds, SupplyHolds
  DEF Installer!Next

-----------------------------------------------------------------------------
(* A model is ready only on a file that can be loaded: the thread of a job *)
(* loads from a copy that it found complete, and files stay what they are. *)
Good == {a \in Asset : Installer!Loadable(a)}

Supported(x, good) ==
    /\ x.stage \in {"check", "verify", "load"} => x.asset \in Asset
    /\ x.stage \in {"verify", "load"} /\ x.found = "whole" => x.asset \in good
    /\ x.stage = "load" => \A m \in x.todo : AssetOf[m] = x.asset

JobsServed == \A j \in DOMAIN job : Supported(job[j], Good)

Requested(m) == \E j \in DOMAIN job : m \in job[j].models

ReadyServed == \A m \in Model : status[m] = "ready" /\ (m \in Lazy => Requested(m)) => AssetOf[m] \in Good

Served == JobsServed /\ ReadyServed

LEMMA ServedBegins == InstallConstants /\ Installer!Init => Served
<1> SUFFICES ASSUME Installer!Init PROVE Served
  OBVIOUS
<1>1. status = [m \in Model |-> "not_downloaded"] /\ job = <<>>
  BY DEF Installer!Init
<1>2. DOMAIN job = {}
  BY <1>1
<1> QED BY <1>1, <1>2 DEF Served, JobsServed, ReadyServed

(* A step of one job, after which no file is worse.                        *)
LEMMA ServedMoves ==
    ASSUME InstallInv, Served, NEW j \in DOMAIN job, NEW x, x.models = job[j].models,
           job' = [job EXCEPT ![j] = x],
           Good \subseteq Good', Supported(x, Good'),
           \A m \in Model : status'[m] = "ready" => status[m] = "ready" \/ AssetOf[m] \in Good'
    PROVE  Served'
<1>1. DOMAIN job' = DOMAIN job /\ job'[j] = x /\ \A k \in DOMAIN job : k # j => job'[k] = job[k]
  BY DEF InstallInv, JobsTyped
<1>2. JobsServed'
  <2> SUFFICES ASSUME NEW k \in DOMAIN job PROVE Supported(job'[k], Good')
    BY <1>1 DEF JobsServed
  <2>1. CASE k = j
    BY <1>1, <2>1
  <2>2. CASE k # j
    <3>1. Supported(job[k], Good) /\ job'[k] = job[k]
      BY <1>1, <2>2 DEF Served, JobsServed
    <3> QED BY <3>1 DEF Supported
  <2> QED BY <2>1, <2>2
<1>3. ReadyServed'
  <2>1. \A m : Requested(m)' <=> Requested(m)
    BY <1>1 DEF Requested
  <2> QED BY <2>1 DEF Served, ReadyServed
<1> QED BY <1>2, <1>3 DEF Served

(* The steps after which the job has no asset in hand.                     *)
LEMMA ServedLeaves ==
    ASSUME InstallInv, Served, NEW j \in DOMAIN job, NEW x, x.models = job[j].models,
           x.stage \in {"failing", "leaving", "ended"},
           job' = [job EXCEPT ![j] = x],
           UNCHANGED <<file, legacy>>,
           \A m \in Model : status'[m] = "ready" => status[m] = "ready"
    PROVE  Served'
<1>1. Good' = Good
  BY DEF Good, Installer!Loadable
<1>2. Supported(x, Good')
  BY DEF Supported
<1> QED BY <1>1, <1>2, ServedMoves

LEMMA ServedRaises ==
    ASSUME InstallInv, Served, NEW j \in DOMAIN job, Installer!Raise(j), UNCHANGED <<file, legacy, status>>
    PROVE  Served'
<1> DEFINE x == [job[j] EXCEPT !.status = "failed", !.stage = "failing"]
<1>1. job' = [job EXCEPT ![j] = x]
  BY DEF Installer!Raise, InstallInv, JobsTyped
<1>2. IsJob(job[j])
  BY DEF InstallInv, JobsTyped
<1>3. x.models = job[j].models /\ x.stage = "failing"
  BY <1>2 DEF IsJob
<1> HIDE DEF x
<1> QED BY <1>1, <1>3, ServedLeaves

LEMMA ServedFetch ==
    ASSUME InstallInv, Served, NEW j \in DOMAIN job, Installer!Fetch(j) PROVE Served'
<1> DEFINE a == job[j].asset
<1>1. /\ IsJob(job[j]) /\ job[j].stage = "check" /\ a \in Asset
      /\ file \in [Asset -> Installer!Contents] /\ UNCHANGED <<legacy, status, owner, active, overtaken>>
  BY DEF InstallInv, JobsTyped, ModelsTyped, Served, JobsServed, Supported, Installer!Fetch
<1>2. CASE Installer!DownloadFails(j, a)
  <2>1. UNCHANGED file /\ Installer!Raise(j)
    BY <1>2 DEF Installer!DownloadFails
  <2> QED BY <1>1, <2>1, ServedRaises
<1>3. ASSUME NEW found, NEW total, Installer!Verifying(j, found, total), Good \subseteq Good',
             found = "whole" => a \in Good'
      PROVE  Served'
  <2> DEFINE x == [job[j] EXCEPT !.stage = "verify", !.found = found, !.total = total]
  <2>1. job' = [job EXCEPT ![j] = x]
    BY <1>3 DEF Installer!Verifying, InstallInv, JobsTyped
  <2>2. x.models = job[j].models /\ x.stage = "verify" /\ x.asset = a /\ x.found = found
    BY <1>1 DEF IsJob
  <2> HIDE DEF x
  <2>3. Supported(x, Good')
    BY <1>1, <1>3, <2>2 DEF Supported
  <2> QED BY <1>1, <1>3, <2>1, <2>2, <2>3, ServedMoves
<1>4. ASSUME file[a] = "absent", NEW content, file' = [file EXCEPT ![a] = content]
      PROVE  Good \subseteq Good' /\ file'[a] = content
  BY <1>1, <1>4 DEF Good, Installer!Loadable
<1>5. CASE Installer!FindsFile(j, a)
  <2>1. Installer!Verifying(j, file[a], job[j].total) /\ file' = file
    BY <1>5 DEF Installer!FindsFile
  <2>2. Good' = Good /\ (file[a] = "whole" => a \in Good)
    BY <1>1, <2>1 DEF Good, Installer!Loadable
  <2> QED BY <1>3, <2>1, <2>2
<1>6. CASE Installer!Promotes(j, a)
  <2>1. PICK content \in Installer!Contents : file' = [file EXCEPT ![a] = content]
    BY <1>6 DEF Installer!Promotes
  <2>2. Installer!Verifying(j, "whole", job[j].total) /\ file[a] = "absent" /\ a \in legacy
    BY <1>6 DEF Installer!Promotes
  <2>3. a \in Good'
    BY <1>1, <2>2 DEF Good, Installer!Loadable
  <2> QED BY <1>3, <1>4, <2>1, <2>2, <2>3
<1>7. CASE Installer!Downloads(j, a)
  <2>1. PICK content \in Installer!Contents, declared \in {a, Installer!NoAsset} : Installer!Verifying(j, content, declared) /\ file' = [file EXCEPT ![a] = content]
    BY <1>7 DEF Installer!Downloads
  <2>2. file[a] = "absent"
    BY <1>7 DEF Installer!Downloads
  <2>3. content = "whole" => a \in Good'
    BY <1>1, <1>4, <2>1, <2>2 DEF Good, Installer!Loadable
  <2> QED BY <1>3, <1>4, <2>1, <2>2, <2>3
<1> QED BY <1>2, <1>5, <1>6, <1>7 DEF Installer!Fetch

LEMMA ServedVerify ==
    ASSUME InstallInv, Served, NEW j \in DOMAIN job, Installer!Verify(j) PROVE Served'
<1>1. /\ IsJob(job[j]) /\ job[j].stage = "verify" /\ Supported(job[j], Good)
      /\ UNCHANGED <<file, legacy, status, owner, active, overtaken>>
  BY DEF InstallInv, JobsTyped, Served, JobsServed, Installer!Verify
<1>2. CASE Installer!Raise(j)
  BY <1>1, <1>2, ServedRaises
<1>3. CASE job' = [job EXCEPT ![j].stage = "load",
                              ![j].todo = job[j].models \cap Installer!Loads(job[j].asset)]
  <2> DEFINE loads == job[j].models \cap Installer!Loads(job[j].asset)
             x == [job[j] EXCEPT !.stage = "load", !.todo = loads]
  <2>1. job' = [job EXCEPT ![j] = x]
    BY <1>3 DEF InstallInv, JobsTyped
  <2>2. /\ x.models = job[j].models /\ x.stage = "load" /\ x.asset = job[j].asset /\ x.found = job[j].found
        /\ x.todo = loads
    <3> HIDE DEF loads
    <3> QED BY <1>1 DEF IsJob
  <2>3. \A m \in loads : AssetOf[m] = job[j].asset
    BY DEF Installer!Loads
  <2> HIDE DEF x, loads
  <2>4. Good' = Good
    BY <1>1 DEF Good, Installer!Loadable
  <2>5. Supported(x, Good')
    BY <1>1, <2>2, <2>3, <2>4 DEF Supported
  <2> QED BY <1>1, <2>1, <2>2, <2>4, <2>5, ServedMoves
<1> QED BY <1>2, <1>3 DEF Installer!Verify

LEMMA ServedLoad ==
    ASSUME InstallInv, Served, NEW j \in DOMAIN job, NEW m \in Model, Installer!Load(j, m) PROVE Served'
<1>1. /\ IsJob(job[j]) /\ job[j].stage = "load" /\ Supported(job[j], Good) /\ m \in job[j].todo
      /\ UNCHANGED <<file, legacy, active, overtaken>> /\ status \in [Model -> {"not_downloaded", "installing", "ready", "failed"}]
  BY DEF InstallInv, JobsTyped, ModelsTyped, Served, JobsServed, Installer!Load
<1>2. Good' = Good
  BY <1>1 DEF Good, Installer!Loadable
<1>3. CASE Installer!Raise(j) /\ UNCHANGED <<status, owner>>
  BY <1>1, <1>3, ServedRaises
<1>4. CASE ~(Installer!Raise(j) /\ UNCHANGED <<status, owner>>)
  <2> DEFINE left == job[j].todo \ {m}
             phase == IF left = {} THEN "work" ELSE "load"
             x == [job[j] EXCEPT !.todo = left, !.stage = phase]
  <2>1. /\ job[j].found = "whole" /\ status' = [status EXCEPT ![m] = "ready"]
        /\ job' = [job EXCEPT ![j].todo = left, ![j].stage = IF left = {} THEN "work" ELSE @]
    BY <1>4 DEF Installer!Load
  <2>2. job' = [job EXCEPT ![j] = x]
    BY <1>1, <2>1 DEF InstallInv, JobsTyped
  <2>3. /\ x.models = job[j].models /\ x.stage = phase /\ x.asset = job[j].asset /\ x.found = job[j].found
        /\ x.todo = left
    <3> HIDE DEF left, phase
    <3> QED BY <1>1 DEF IsJob
  <2>4. phase \in {"work", "load"}
    OBVIOUS
  <2> HIDE DEF x, phase
  <2>5. Supported(x, Good')
    BY <1>1, <1>2, <2>3, <2>4 DEF Supported
  <2>6. AssetOf[m] \in Good'
    BY <1>1, <1>2, <2>1 DEF Supported
  <2>7. \A k \in Model : status'[k] = "ready" => status[k] = "ready" \/ AssetOf[k] \in Good'
    BY <1>1, <2>1, <2>6
  <2> QED BY <1>2, <2>2, <2>3, <2>5, <2>7, ServedMoves
<1> QED BY <1>3, <1>4

LEMMA ServedInstall ==
    ASSUME InstallInv, Served, NEW M \in SUBSET Model, Installer!Install(M) PROVE Served'
<1> PICK n \in Nat : DOMAIN job = 1 .. n
  BY DEF InstallInv, JobsTyped
<1>1. Installer!Cardinality(DOMAIN job) + 1 = n + 1
  <2>1. Cardinality(1 .. n) = n
    BY FS_Interval, 1 \in Int, n \in Int
  <2> QED BY <2>1, InstallCounts
<1>2. /\ DOMAIN job' = 1 .. n + 1 /\ \A k \in 1 .. n : job'[k] = job[k]
      /\ job'[n + 1].stage = "work" /\ job'[n + 1].models = M
      /\ status' = [m \in Model |-> IF m \in M THEN "installing" ELSE status[m]]
      /\ UNCHANGED <<file, legacy>>
  BY <1>1 DEF Installer!Install
<1>3. Good' = Good
  BY <1>2 DEF Good, Installer!Loadable
<1>4. \A k \in DOMAIN job' : k \in 1 .. n \/ k = n + 1
  BY <1>2
<1>5. JobsServed'
  <2> SUFFICES ASSUME NEW k \in DOMAIN job' PROVE Supported(job'[k], Good')
    BY DEF JobsServed
  <2>1. CASE k \in 1 .. n
    BY <1>2, <1>3, <2>1 DEF Served, JobsServed
  <2>2. CASE k = n + 1
    BY <1>2, <2>2 DEF Supported
  <2> QED BY <1>4, <2>1, <2>2
<1>6. \A m \in Model \ M : Requested(m)' => Requested(m)
  BY <1>2, <1>4 DEF Requested
<1>7. ReadyServed'
  BY <1>2, <1>3, <1>6 DEF Served, ReadyServed
<1> QED BY <1>5, <1>7 DEF Served

LEMMA ServedRestart ==
    ASSUME InstallConstants, InstallInv, Served, Installer!Restart PROVE Served'
<1>1. job' = <<>> /\ UNCHANGED legacy
  BY DEF Installer!Restart
<1>2. DOMAIN job' = {}
  BY <1>1
<1>3. ASSUME NEW m \in Model, status'[m] = "ready", m \notin Lazy PROVE AssetOf[m] \in Good'
  <2> DEFINE a == AssetOf[m]
  <2>1. a \in Asset
    BY DEF InstallConstants
  <2>2. status'[m] \in Installer!Starts(m)
    BY DEF Installer!Restart
  <2>3. ~(file[a] = "absent" /\ a \notin legacy) /\ file[a] \notin {"empty", "partial"}
    BY <1>3, <2>2 DEF Installer!Starts
  <2>4. file[a] \in {"absent", "empty", "partial", "whole"}
    BY <2>1 DEF InstallInv, ModelsTyped, Installer!Contents
  <2>5. (file[a] = "absent" /\ a \in legacy) \/ file'[a] = file[a]
    BY <2>1 DEF Installer!Restart
  <2> QED BY <1>1, <2>1, <2>3, <2>4, <2>5 DEF Good, Installer!Loadable
<1>4. \A m : ~Requested(m)'
  BY <1>2 DEF Requested
<1> QED BY <1>2, <1>3, <1>4 DEF Served, JobsServed, ReadyServed

LEMMA ServedStays ==
    ASSUME InstallConstants, InstallInv, Served, [Installer!Next]_(Installer!vars) PROVE Served'
<1>1. CASE UNCHANGED Installer!vars
  BY <1>1 DEF Installer!vars, Served, JobsServed, ReadyServed, Requested, Good, Installer!Loadable
<1>2. ASSUME NEW j \in DOMAIN job, NEW a \in Asset, Installer!NextAsset(j, a) PROVE Served'
  <2> DEFINE x == [job[j] EXCEPT !.asset = a, !.left = @ \ {a}, !.stage = "check"]
  <2>1. job' = [job EXCEPT ![j] = x] /\ UNCHANGED <<file, legacy, status>> /\ IsJob(job[j])
    BY <1>2 DEF Installer!NextAsset, InstallInv, JobsTyped
  <2>2. x.models = job[j].models /\ x.stage = "check" /\ x.asset = a
    BY <2>1 DEF IsJob
  <2> HIDE DEF x
  <2>3. Good' = Good
    BY <2>1 DEF Good, Installer!Loadable
  <2> QED BY <2>1, <2>2, <2>3, ServedMoves DEF Supported
<1>3. ASSUME NEW j \in DOMAIN job, Installer!Succeed(j) \/ Installer!MarkFailed(j) \/ Installer!Release(j)
      PROVE  Served'
  <2>1. IsJob(job[j])
    BY DEF InstallInv, JobsTyped
  <2>2. UNCHANGED <<file, legacy>> /\ \A m \in Model : status'[m] = "ready" => status[m] = "ready"
    BY <1>3 DEF Installer!Succeed, Installer!MarkFailed, Installer!Release
  <2>3. CASE Installer!Succeed(j)
    <3> DEFINE x == [job[j] EXCEPT !.status = "ready", !.stage = "leaving"]
    <3>1. job' = [job EXCEPT ![j] = x]
      BY <2>3 DEF Installer!Succeed, InstallInv, JobsTyped
    <3>2. x.models = job[j].models /\ x.stage = "leaving"
      BY <2>1 DEF IsJob
    <3> HIDE DEF x
    <3> QED BY <2>2, <3>1, <3>2, ServedLeaves
  <2>4. ASSUME NEW s \in {"leaving", "ended"}, job' = [job EXCEPT ![j].stage = s] PROVE Served'
    <3> DEFINE x == [job[j] EXCEPT !.stage = s]
    <3>1. job' = [job EXCEPT ![j] = x]
      BY <2>4 DEF InstallInv, JobsTyped
    <3>2. x.models = job[j].models /\ x.stage = s
      BY <2>1 DEF IsJob
    <3> HIDE DEF x
    <3> QED BY <2>2, <3>1, <3>2, ServedLeaves
  <2> QED BY <1>3, <2>3, <2>4 DEF Installer!MarkFailed, Installer!Release
<1>4. ASSUME NEW a \in Asset, Installer!Supply(a) PROVE Served'
  <2>1. legacy \subseteq legacy' /\ UNCHANGED <<file, status, job>>
    BY <1>4 DEF Installer!Supply
  <2>2. Good \subseteq Good'
    BY <2>1 DEF Good, Installer!Loadable
  <2>3. JobsServed'
    BY <2>1, <2>2 DEF Served, JobsServed, Supported
  <2>4. ReadyServed'
    BY <2>1, <2>2 DEF Served, ReadyServed, Requested
  <2> QED BY <2>3, <2>4 DEF Served
<1> QED
  BY <1>1, <1>2, <1>3, <1>4, ServedInstall, ServedFetch, ServedVerify, ServedLoad, ServedRestart
  DEF Installer!Next

LEMMA InstallTrue ==
    ASSUME InstallConstants, InstallInv, Served PROVE Installer!InstallTruthful
<1>1. Installer!Cardinality({j \in DOMAIN job : ~Installer!Final(j)}) <= 1
  <2> DEFINE J == {j \in DOMAIN job : ~Installer!Final(j)}
  <2>1. \A j \in J : j = active
    BY DEF InstallInv, OneAtWork, Installer!Final
  <2>2. J = {} \/ J = {active}
    BY <2>1
  <2> HIDE DEF J
  <2>3. Cardinality({}) = 0 /\ Cardinality({active}) = 1
    BY FS_EmptySet, FS_Singleton
  <2>4. Cardinality(J) <= 1
    BY <2>2, <2>3
  <2> QED BY <2>4, InstallCounts DEF J
<1>2. ASSUME NEW m \in Model, NEW j \in DOMAIN job, IsLast(m, j)
      PROVE  Installer!LastJob(m) = j
  <2> DEFINE J == {k \in DOMAIN job : m \in job[k].models}
             c == CHOOSE i \in J : \A k \in J : k <= i
  <2>1. j \in J /\ \A k \in J : k <= j
    BY <1>2 DEF IsLast
  <2>2. c \in J /\ \A k \in J : k <= c
    BY <2>1
  <2>3. c <= j /\ j <= c
    BY <2>1, <2>2
  <2>4. \A k \in J : k \in Nat
    BY DEF InstallInv, JobsTyped
  <2>5. c = j
    <3> HIDE DEF c, J
    <3> QED BY <2>1, <2>2, <2>3, <2>4
  <2>6. Installer!LastJob(m) = IF J = {} THEN 0 ELSE c
    BY DEF Installer!LastJob
  <2> QED BY <2>1, <2>5, <2>6
<1>3. ASSUME NEW m \in Model, \A j \in DOMAIN job : m \notin job[j].models
      PROVE  Installer!LastJob(m) = 0
  BY <1>3 DEF Installer!LastJob
<1>4. 0 \notin DOMAIN job
  BY DEF InstallInv, JobsTyped
<1>5. ASSUME NEW m \in Model
      PROVE  LET j == Installer!LastJob(m)
             IN  /\ status[m] = "installing" => j # 0 /\ owner[m] = j /\ ~Installer!Marked(j)
                 /\ j # 0 /\ m \notin overtaken =>
                      /\ Installer!Marked(j) => status[m] = job[j].status
                      /\ ~Installer!Final(j) => status[m] = "ready" \/ (status[m] = "installing" /\ active = j)
                 /\ status[m] = "ready" /\ (m \in Lazy => j # 0) => Installer!Loadable(AssetOf[m])
  <2>1. CASE \A j \in DOMAIN job : m \notin job[j].models
    <3>1. Installer!LastJob(m) = 0
      BY <1>3, <2>1
    <3>2. status[m] # "installing"
      BY <2>1 DEF InstallInv, InstallingOwned, IsLast
    <3>3. status[m] = "ready" /\ m \notin Lazy => Installer!Loadable(AssetOf[m])
      BY DEF Served, ReadyServed, Good
    <3> QED BY <3>1, <3>2, <3>3
  <2>2. CASE \E j \in DOMAIN job : m \in job[j].models
    <3>1. PICK j \in DOMAIN job : IsLast(m, j)
      BY <2>2 DEF InstallInv, HasLast
    <3>2. Installer!LastJob(m) = j /\ j # 0
      BY <1>2, <1>4, <3>1
    <3>3. status[m] = "installing" => owner[m] = j /\ ~IsMarked(job[j])
      <4> HAVE status[m] = "installing"
      <4>1. IsLast(m, owner[m]) /\ ~IsMarked(job[owner[m]])
        BY DEF InstallInv, InstallingOwned
      <4>2. Installer!LastJob(m) = owner[m]
        BY <1>2, <4>1 DEF IsLast
      <4> QED BY <3>2, <4>1, <4>2
    <3>4. m \notin overtaken => Decided(job[j], m)
      BY <3>1 DEF InstallInv, LastDecides
    <3>5. job[j].status = "running" => active = j
      BY DEF InstallInv, OneAtWork
    <3>6. status[m] = "ready" => Installer!Loadable(AssetOf[m])
      BY <2>2 DEF Served, ReadyServed, Requested, Good
    <3> QED
      BY <3>2, <3>3, <3>4, <3>5, <3>6 DEF Installer!Marked, Installer!Final, IsMarked, Decided
  <2> QED BY <2>1, <2>2
<1> QED BY <1>1, <1>5 DEF Installer!InstallTruthful

(* The status of a model is what its jobs made of it, one job works at a   *)
(* time, and a model that was loaded was loaded from a complete file,      *)
(* whatever downloads left in its place, for any models and assets and any *)
(* number of jobs and restarts: InstallTruthful of ModelInstall.           *)
THEOREM StatusTruthful == ASSUME InstallConstants PROVE Installer!Spec => []Installer!InstallTruthful
<1>1. Installer!Init => InstallInv /\ Served
  BY InstallBegins, ServedBegins
<1>2. InstallInv /\ Served /\ [Installer!Next]_(Installer!vars) => (InstallInv /\ Served)'
  BY InstallStays, ServedStays
<1>3. InstallInv /\ Served => Installer!InstallTruthful
  BY InstallTrue
<1> QED BY <1>1, <1>2, <1>3, PTL DEF Installer!Spec

-----------------------------------------------------------------------------
(* The types of ModelInstall.                                              *)
(* What the steps of the installer keep beside: numbers within the bound,  *)
(* and an asset where one is due.                                          *)
JobShape(x) ==
    /\ x.asset \in Asset \cup {Installer!NoAsset} /\ x.total \in Asset \cup {Installer!NoAsset}
    /\ x.found \in Installer!Contents
    /\ x.stage = "check" => x.asset \in Asset

InstallShaped ==
    /\ \E n \in 0 .. MaxJobs : DOMAIN job = 1 .. n
    /\ \A j \in DOMAIN job : JobShape(job[j])
    /\ owner \in [Model -> 0 .. MaxJobs] /\ active \in 0 .. MaxJobs
    /\ legacy \subseteq Legacy /\ overtaken \subseteq Model

LEMMA InstallIsTyped == ASSUME InstallInv, InstallShaped PROVE Installer!TypeOK
<1>1. DOMAIN job \in {1 .. n : n \in Installer!Job}
  BY DEF InstallShaped, Installer!Job
<1>2. ASSUME NEW j \in DOMAIN job
      PROVE  job[j] \in [models : SUBSET Model, left : SUBSET Asset, asset : Asset \cup {Installer!NoAsset},
                         found : Installer!Contents, todo : SUBSET Model,
                         total : Asset \cup {Installer!NoAsset}, status : {"running", "ready", "failed"},
                         stage : {"work", "check", "verify", "load", "failing", "leaving", "ended"}]
  <2> DEFINE x == job[j]
  <2>1. IsJob(x) /\ JobShape(x)
    BY DEF InstallInv, JobsTyped, InstallShaped
  <2> HIDE DEF x
  <2>2. x \in [models : SUBSET Model, left : SUBSET Asset, asset : Asset \cup {Installer!NoAsset},
               found : Installer!Contents, todo : SUBSET Model,
               total : Asset \cup {Installer!NoAsset}, status : {"running", "ready", "failed"},
               stage : {"work", "check", "verify", "load", "failing", "leaving", "ended"}]
    BY <2>1 DEF IsJob, JobShape, Stage, AtWork
  <2> QED BY <2>2 DEF x
<1> QED BY <1>1, <1>2 DEF InstallInv, ModelsTyped, InstallShaped, Installer!TypeOK, Installer!Job

LEMMA JobKeepsShape ==
    ASSUME InstallInv, InstallShaped, NEW j \in DOMAIN job, NEW x, JobShape(x), job' = [job EXCEPT ![j] = x],
           owner' \in [Model -> 0 .. MaxJobs], active' \in 0 .. MaxJobs, overtaken' \subseteq Model,
           UNCHANGED legacy
    PROVE  InstallShaped'
<1>1. DOMAIN job' = DOMAIN job /\ \A k \in DOMAIN job : job'[k] = IF k = j THEN x ELSE job[k]
  BY DEF InstallInv, JobsTyped
<1> QED BY <1>1 DEF InstallShaped

LEMMA RaiseKeepsShape ==
    ASSUME InstallInv, InstallShaped, NEW j \in DOMAIN job, Installer!Raise(j),
           UNCHANGED <<legacy, owner, active, overtaken>>
    PROVE  InstallShaped'
<1> DEFINE x == [job[j] EXCEPT !.status = "failed", !.stage = "failing"]
<1>1. job' = [job EXCEPT ![j] = x]
  BY DEF Installer!Raise, InstallInv, JobsTyped
<1>2. IsJob(job[j]) /\ JobShape(job[j])
  BY DEF InstallInv, JobsTyped, InstallShaped
<1>3. JobShape(x)
  BY <1>2 DEF IsJob, JobShape
<1> HIDE DEF x
<1> QED BY <1>1, <1>3, JobKeepsShape DEF InstallShaped

LEMMA InstallShapeBegins == ASSUME InstallConstants, Installer!Init PROVE InstallShaped
<1>1. DOMAIN job = {} /\ DOMAIN job = 1 .. 0 /\ 0 \in 0 .. MaxJobs
  BY DEF Installer!Init, InstallConstants
<1> QED BY <1>1 DEF Installer!Init, InstallShaped

LEMMA InstallShapeHolds ==
    ASSUME InstallConstants, InstallInv, InstallShaped, [Installer!Next]_(Installer!vars) PROVE InstallShaped'
<1> USE DEF InstallInv, InstallShaped
<1>1. ASSUME NEW M \in SUBSET Model, Installer!Install(M) PROVE InstallShaped'
  <2> PICK n \in 0 .. MaxJobs : DOMAIN job = 1 .. n
    OBVIOUS
  <2> DEFINE new == [models |-> M, left |-> {AssetOf[m] : m \in M}, asset |-> Installer!NoAsset,
                     found |-> "absent", todo |-> {}, total |-> Installer!NoAsset, status |-> "running", stage |-> "work"]
  <2>1. Installer!Cardinality(DOMAIN job) + 1 = n + 1
    <3>1. Cardinality(1 .. n) = n
      BY FS_Interval, 1 \in Int, n \in Int
    <3> QED BY <3>1, InstallCounts
  <2>2. /\ n + 1 \in 0 .. MaxJobs
        /\ job' = [k \in 1 .. n + 1 |-> IF k < n + 1 THEN job[k] ELSE new]
        /\ active' = n + 1
        /\ owner' = [m \in Model |-> IF m \in M THEN n + 1 ELSE owner[m]]
        /\ overtaken' = overtaken \ M /\ legacy' = legacy
    BY <1>1, <2>1 DEF Installer!Install, Installer!Job
  <2>3. JobShape(new)
    BY DEF JobShape, Installer!Contents
  <2> HIDE DEF new
  <2>4. DOMAIN job' = 1 .. n + 1 /\ \A k \in DOMAIN job' : job'[k] = new \/ (k \in DOMAIN job /\ job'[k] = job[k])
    BY <2>2
  <2>5. \A k \in DOMAIN job' : JobShape(job'[k])
    BY <2>3, <2>4
  <2>6. owner' \in [Model -> 0 .. MaxJobs]
    BY <2>2
  <2> QED BY <2>2, <2>4, <2>5, <2>6
<1>2. ASSUME NEW j \in DOMAIN job, NEW a \in Asset, Installer!NextAsset(j, a) PROVE InstallShaped'
  <2> DEFINE x == [job[j] EXCEPT !.asset = a, !.left = @ \ {a}, !.stage = "check"]
  <2>1. job' = [job EXCEPT ![j] = x] /\ UNCHANGED <<legacy, owner, active, overtaken>>
    BY <1>2 DEF Installer!NextAsset, JobsTyped
  <2>2. IsJob(job[j]) /\ JobShape(job[j])
    BY DEF JobsTyped
  <2>3. JobShape(x)
    BY <2>2 DEF IsJob, JobShape
  <2> HIDE DEF x
  <2> QED BY <2>1, <2>3, JobKeepsShape
<1>3. ASSUME NEW j \in DOMAIN job, NEW m \in Model, Installer!Load(j, m) PROVE InstallShaped'
  <2>1. UNCHANGED <<legacy, active, overtaken>>
    BY <1>3 DEF Installer!Load
  <2>2. CASE Installer!Raise(j) /\ UNCHANGED owner
    BY <2>1, <2>2, RaiseKeepsShape
  <2>3. CASE ~(Installer!Raise(j) /\ UNCHANGED owner)
    <3>1. IsJob(job[j]) /\ JobShape(job[j])
      BY DEF JobsTyped
    <3> DEFINE left == job[j].todo \ {m}
               stage1 == IF left = {} THEN "work" ELSE job[j].stage
               x == [job[j] EXCEPT !.todo = left, !.stage = stage1]
    <3>2. /\ owner' = [owner EXCEPT ![m] = 0]
          /\ job' = [job EXCEPT ![j].todo = left, ![j].stage = IF left = {} THEN "work" ELSE @]
      BY <1>3, <2>3 DEF Installer!Load
    <3>3. job' = [job EXCEPT ![j] = x]
      BY <3>1, <3>2 DEF IsJob
    <3>4. JobShape(x)
      <4>1. stage1 # "check"
        BY <1>3 DEF Installer!Load
      <4> HIDE DEF left, stage1
      <4> QED BY <3>1, <4>1 DEF IsJob, JobShape
    <3> HIDE DEF x
    <3>5. owner' \in [Model -> 0 .. MaxJobs]
      BY <3>2, 0 \in 0 .. MaxJobs DEF InstallConstants
    <3> QED BY <2>1, <3>3, <3>4, <3>5, JobKeepsShape
  <2> QED BY <2>2, <2>3
<1>4. ASSUME NEW j \in DOMAIN job, Installer!Fetch(j) PROVE InstallShaped'
  <2>1. UNCHANGED <<legacy, owner, active, overtaken>>
    BY <1>4 DEF Installer!Fetch
  <2>2. IsJob(job[j]) /\ JobShape(job[j])
    BY DEF JobsTyped
  <2>3. ASSUME NEW found \in Installer!Contents, NEW total \in Asset \cup {Installer!NoAsset},
               Installer!Verifying(j, found, total)
        PROVE  InstallShaped'
    <3> DEFINE x == [job[j] EXCEPT !.stage = "verify", !.found = found, !.total = total]
    <3>1. job' = [job EXCEPT ![j] = x]
      BY <2>3 DEF Installer!Verifying, JobsTyped
    <3>2. JobShape(x)
      BY <2>2 DEF IsJob, JobShape
    <3> HIDE DEF x
    <3> QED BY <2>1, <3>1, <3>2, JobKeepsShape
  <2>4. CASE Installer!Raise(j)
    BY <2>1, <2>4, RaiseKeepsShape
  <2> DEFINE a == job[j].asset
  <2>5. a \in Asset /\ job[j].total \in Asset \cup {Installer!NoAsset} /\ file[a] \in Installer!Contents
    BY <1>4, <2>2 DEF JobShape, ModelsTyped, Installer!Fetch
  <2>6. CASE Installer!FindsFile(j, a) \/ Installer!Promotes(j, a)
    <3>1. "whole" \in Installer!Contents
      BY DEF Installer!Contents
    <3> QED BY <2>3, <2>5, <2>6, <3>1 DEF Installer!FindsFile, Installer!Promotes
  <2>7. CASE Installer!Downloads(j, a)
    <3>1. PICK content \in Installer!Contents, declared \in {a, Installer!NoAsset} :
              Installer!Verifying(j, content, declared)
      BY <2>7 DEF Installer!Downloads
    <3> QED BY <2>3, <2>5, <3>1
  <2>8. CASE Installer!DownloadFails(j, a)
    BY <2>4, <2>8 DEF Installer!DownloadFails
  <2> QED BY <1>4, <2>6, <2>7, <2>8 DEF Installer!Fetch
<1>5. ASSUME NEW j \in DOMAIN job, Installer!Verify(j) PROVE InstallShaped'
  <2>1. UNCHANGED <<legacy, owner, active, overtaken>>
    BY <1>5 DEF Installer!Verify
  <2>2. CASE Installer!Raise(j)
    BY <2>1, <2>2, RaiseKeepsShape
  <2>3. CASE ~Installer!Raise(j)
    <3> DEFINE loads == job[j].models \cap Installer!Loads(job[j].asset)
               x == [job[j] EXCEPT !.stage = "load", !.todo = loads]
    <3>1. job' = [job EXCEPT ![j] = x]
      BY <1>5, <2>3 DEF Installer!Verify, JobsTyped
    <3>2. IsJob(job[j]) /\ JobShape(job[j])
      BY DEF JobsTyped
    <3>3. JobShape(x)
      <4> HIDE DEF loads
      <4> QED BY <3>2 DEF IsJob, JobShape
    <3> HIDE DEF x
    <3> QED BY <2>1, <3>1, <3>3, JobKeepsShape
  <2> QED BY <2>2, <2>3
<1>6. ASSUME NEW j \in DOMAIN job, Installer!Succeed(j) \/ Installer!Release(j) \/ Installer!MarkFailed(j)
      PROVE  InstallShaped'
  <2>1. IsJob(job[j]) /\ JobShape(job[j])
    BY DEF JobsTyped
  <2>2. \E s \in {"ready", job[j].status}, t \in {"leaving", "ended"} :
             job' = [job EXCEPT ![j] = [job[j] EXCEPT !.status = s, !.stage = t]]
    <3>1. job[j] = [job[j] EXCEPT !.status = job[j].status]
      BY <2>1 DEF IsJob
    <3>2. Installer!Succeed(j) => job' = [job EXCEPT ![j] = [job[j] EXCEPT !.status = "ready", !.stage = "leaving"]]
      BY DEF Installer!Succeed, JobsTyped
    <3>3. Installer!Release(j) => job' = [job EXCEPT ![j] = [job[j] EXCEPT !.status = job[j].status, !.stage = "ended"]]
      BY <3>1 DEF Installer!Release, JobsTyped
    <3>4. Installer!MarkFailed(j) => job' = [job EXCEPT ![j] = [job[j] EXCEPT !.status = job[j].status, !.stage = "leaving"]]
      BY <3>1 DEF Installer!MarkFailed, JobsTyped
    <3> QED BY <1>6, <3>2, <3>3, <3>4
  <2>3. PICK s \in {"ready", job[j].status}, t \in {"leaving", "ended"} :
             job' = [job EXCEPT ![j] = [job[j] EXCEPT !.status = s, !.stage = t]]
    BY <2>2
  <2>4. JobShape([job[j] EXCEPT !.status = s, !.stage = t])
    BY <2>1 DEF IsJob, JobShape
  <2>5. owner' \in [Model -> 0 .. MaxJobs] /\ active' \in 0 .. MaxJobs /\ overtaken' \subseteq Model /\ legacy' = legacy
    <3>1. job[j].models \subseteq Model
      BY <2>1 DEF IsJob
    <3>2. 0 \in 0 .. MaxJobs
      BY DEF InstallConstants
    <3> QED BY <1>6, <3>1, <3>2 DEF Installer!Succeed, Installer!Release, Installer!MarkFailed
  <2> QED BY <2>3, <2>4, <2>5, JobKeepsShape
<1>7. CASE Installer!Restart
  <2>1. DOMAIN job' = {} /\ DOMAIN job' = 1 .. 0 /\ 0 \in 0 .. MaxJobs
    BY <1>7 DEF Installer!Restart, InstallConstants
  <2> QED BY <1>7, <2>1 DEF Installer!Restart
<1>8. CASE \E a \in Asset : Installer!Supply(a)
  BY <1>8 DEF Installer!Supply
<1>9. CASE UNCHANGED Installer!vars
  BY <1>9 DEF Installer!vars
<1> QED BY <1>1, <1>2, <1>3, <1>4, <1>5, <1>6, <1>7, <1>8, <1>9 DEF Installer!Next

(* ModelInstall keeps its types: no job is numbered beyond the bound, and  *)
(* a job's thread has an asset of its models in hand, or none.             *)
THEOREM InstallKeepsTypes == ASSUME InstallConstants PROVE Installer!Spec => []Installer!TypeOK
<1>1. Installer!Init => InstallInv /\ InstallShaped
  BY InstallBegins, InstallShapeBegins
<1>2. InstallInv /\ InstallShaped /\ [Installer!Next]_(Installer!vars) => (InstallInv /\ InstallShaped)'
  BY InstallStays, InstallShapeHolds
<1>3. InstallInv /\ InstallShaped => Installer!TypeOK
  BY InstallIsTyped
<1> QED BY <1>1, <1>2, <1>3, PTL DEF Installer!Spec

-----------------------------------------------------------------------------
(* VlmEnrichment.                                                          *)

Offers == {w \in [camera : Camera, generation : Nat \ {0}] : w.generation <= companion[w.camera].generation}
Submission == [camera : Camera, generation : Nat, recent : BOOLEAN, status : {"pending", "persisted", "failed"}]
JobStage == {"process", "judge", "recheck", "submit", "unmark"}

CompanionsTyped ==
    /\ companion \in [Camera -> [stage : {"off", "on", "leaving"}, generation : Nat]]
    /\ generations \in [Camera -> Nat]
    /\ queue \in Seq(Offers)
    /\ errand = Vlm!NoJob \/ errand \in [stage : JobStage, work : Offers]
    /\ incidents \in [Camera -> Nat]

SubmissionsTyped ==
    /\ submissions \in Seq(Submission)
    /\ misled \in [Camera -> BOOLEAN]

(* The dispatcher knows the generation of a companion that has not begun   *)
(* to leave, and no other.                                                 *)
Registered ==
    \A c \in Camera :
        /\ generations[c] # 0 => companion[c].stage = "on" /\ companion[c].generation = generations[c]
        /\ companion[c].stage = "on" => generations[c] = companion[c].generation /\ generations[c] # 0

RecentAreNew ==
    \A i \in DOMAIN submissions :
        submissions[i].recent => submissions[i].generation = companion[submissions[i].camera].generation

Raises(c) == errand # Vlm!NoJob /\ errand.stage \in {"recheck", "submit", "unmark"} /\ errand.work.camera = c

Alone(S) == \A i, k \in S : i = k
AtMostOne(c) == Alone(Vlm!Of(c)) \/ misled[c]
None(c) == Vlm!Of(c) = {} \/ misled[c]

(* What is under way for an incident, per camera: an alert is raised from  *)
(* the mark that silences the camera on, and without a mark no alert of    *)
(* the spell is there, unless the failure of an older one intervened.      *)
IncidentOf(c) ==
    /\ incidents[c] # 0 =>
         /\ companion[c].stage # "off" /\ companion[c].generation = incidents[c]
         /\ Vlm!Of(c) # {} \/ Raises(c) \/ companion[c].stage = "leaving"
    /\ incidents[c] = 0 /\ companion[c].stage = "on" => None(c)
    /\ Raises(c) => incidents[c] \in {0, errand.work.generation}
    /\ Raises(c) /\ generations[c] = errand.work.generation =>
         misled[c] \/ (incidents[c] = errand.work.generation /\ Vlm!Of(c) = {})
    /\ AtMostOne(c)

VlmInv ==
    /\ CompanionsTyped /\ SubmissionsTyped /\ Registered /\ RecentAreNew
    /\ \A c \in Camera : IncidentOf(c)

-----------------------------------------------------------------------------
(* The queue.                                                              *)
LEMMA WithoutTyped ==
    ASSUME NEW c, NEW S, queue \in Seq(S) PROVE Vlm!Without(c) \in Seq(S)
<1>1. CASE ~(\E i \in DOMAIN queue : queue[i].camera = c)
  BY <1>1 DEF Vlm!Without
<1>2. CASE \E i \in DOMAIN queue : queue[i].camera = c
  <2> DEFINE i == CHOOSE i \in DOMAIN queue : queue[i].camera = c
  <2>1. i \in 1 .. Len(queue) /\ Len(queue) \in Nat
    BY <1>2, LenProperties
  <2>2. Vlm!Without(c) = SubSeq(queue, 1, i - 1) \o SubSeq(queue, i + 1, Len(queue))
    BY <1>2 DEF Vlm!Without, Vlm!RemoveAt
  <2> HIDE DEF i
  <2>3. \A j \in 1 .. Len(queue) : queue[j] \in S
    BY ElementOfSeq
  <2>4. SubSeq(queue, 1, i - 1) \in Seq(S)
    BY <2>1, <2>3, SubSeqProperties
  <2>5. SubSeq(queue, i + 1, Len(queue)) \in Seq(S)
    BY <2>1, <2>3, SubSeqProperties
  <2> QED BY <2>2, <2>4, <2>5, ConcatProperties
<1> QED BY <1>1, <1>2

LEMMA OffersStay ==
    ASSUME \A c \in Camera : companion[c].generation \in Nat /\ companion'[c].generation \in Nat
                              /\ companion[c].generation <= companion'[c].generation
    PROVE  Offers \subseteq Offers' /\ Seq(Offers) \subseteq Seq(Offers')
<1>1. Offers \subseteq Offers'
  BY DEF Offers
<1>2. \A n \in Nat : [1 .. n -> Offers] \subseteq [1 .. n -> Offers']
  BY <1>1
<1> QED BY <1>1, <1>2, SeqDef

-----------------------------------------------------------------------------
(* The submissions.                                                        *)
LEMMA NewSpellForgets ==
    ASSUME CompanionsTyped, SubmissionsTyped, NEW c \in Camera, Vlm!NewSpell(c)
    PROVE  /\ SubmissionsTyped'
           /\ Vlm!Of(c)' = {} /\ \A d \in Camera \ {c} : Vlm!Of(d)' = Vlm!Of(d)
           /\ \A d \in Camera \ {c} : misled'[d] = misled[d]
           /\ DOMAIN submissions' = DOMAIN submissions
           /\ \A i \in DOMAIN submissions :
                /\ submissions'[i].recent => submissions[i].recent /\ submissions[i].camera # c
                /\ submissions'[i].camera = submissions[i].camera
                /\ submissions'[i].generation = submissions[i].generation
<1>1. /\ submissions' = [i \in DOMAIN submissions |->
                            [submissions[i] EXCEPT !.recent = @ /\ submissions[i].camera # c]]
      /\ misled' = [misled EXCEPT ![c] = FALSE]
  BY DEF Vlm!NewSpell
<1>2. DOMAIN submissions = 1 .. Len(submissions) /\ Len(submissions) \in Nat
  BY LenProperties DEF SubmissionsTyped
<1>3. \A i \in DOMAIN submissions : submissions[i] \in Submission
  BY <1>2, ElementOfSeq DEF SubmissionsTyped
<1>4. ASSUME NEW i \in DOMAIN submissions
      PROVE  /\ submissions'[i] \in Submission
             /\ submissions'[i].recent <=> submissions[i].recent /\ submissions[i].camera # c
             /\ submissions'[i].camera = submissions[i].camera
             /\ submissions'[i].generation = submissions[i].generation
             /\ submissions'[i].status = submissions[i].status
  <2>1. submissions'[i] = [submissions[i] EXCEPT !.recent = @ /\ submissions[i].camera # c]
    BY <1>1
  <2>2. submissions[i] \in Submission
    BY <1>3
  <2> QED BY <2>1, <2>2 DEF Submission
<1>5. DOMAIN submissions' = DOMAIN submissions
  BY <1>1
<1>6. submissions' \in Seq(Submission)
  <2>1. submissions' \in [1 .. Len(submissions) -> Submission]
    BY <1>1, <1>2, <1>4
  <2> QED BY <1>2, <2>1, SeqDef
<1>7. misled' \in [Camera -> BOOLEAN] /\ \A d \in Camera \ {c} : misled'[d] = misled[d]
  BY <1>1 DEF SubmissionsTyped
<1>8. Vlm!Of(c)' = {} /\ \A d \in Camera \ {c} : Vlm!Of(d)' = Vlm!Of(d)
  BY <1>4, <1>5 DEF Vlm!Of
<1> QED BY <1>4, <1>5, <1>6, <1>7, <1>8 DEF SubmissionsTyped

LEMMA StatusChanges ==
    ASSUME SubmissionsTyped, NEW i \in DOMAIN submissions, NEW s \in {"persisted", "failed"},
           submissions[i].status = "pending",
           submissions' = [submissions EXCEPT ![i].status = s]
    PROVE  /\ submissions' \in Seq(Submission)
           /\ \A d : Vlm!Of(d)' = IF s = "failed" THEN Vlm!Of(d) \ {i} ELSE Vlm!Of(d)
           /\ DOMAIN submissions' = DOMAIN submissions
           /\ \A k \in DOMAIN submissions :
                /\ submissions'[k].recent <=> submissions[k].recent
                /\ submissions'[k].camera = submissions[k].camera
                /\ submissions'[k].generation = submissions[k].generation
<1>2. DOMAIN submissions = 1 .. Len(submissions) /\ Len(submissions) \in Nat
  BY LenProperties DEF SubmissionsTyped
<1>3. \A k \in DOMAIN submissions : submissions[k] \in Submission
  BY <1>2, ElementOfSeq DEF SubmissionsTyped
<1>4. DOMAIN submissions' = DOMAIN submissions /\ \A k \in DOMAIN submissions : k # i => submissions'[k] = submissions[k]
  BY <1>2 DEF SubmissionsTyped
<1>5. submissions'[i] = [submissions[i] EXCEPT !.status = s]
  BY <1>2 DEF SubmissionsTyped
<1>6. /\ submissions'[i] \in Submission
      /\ submissions'[i].recent <=> submissions[i].recent
      /\ submissions'[i].camera = submissions[i].camera
      /\ submissions'[i].generation = submissions[i].generation
      /\ submissions'[i].status = s
  <2>1. submissions[i] \in Submission
    BY <1>3
  <2> QED BY <1>5, <2>1 DEF Submission
<1>7. submissions' \in Seq(Submission)
  <2>1. \A k \in 1 .. Len(submissions) : submissions'[k] \in Submission
    BY <1>2, <1>3, <1>4, <1>6
  <2>2. submissions' = [k \in 1 .. Len(submissions) |-> submissions'[k]]
    BY <1>2 DEF SubmissionsTyped
  <2>3. submissions' \in [1 .. Len(submissions) -> Submission]
    BY <2>1, <2>2
  <2>4. [1 .. Len(submissions) -> Submission] \subseteq Seq(Submission)
    BY <1>2, SeqDef
  <2> QED BY <2>3, <2>4
<1>8. ASSUME NEW d PROVE Vlm!Of(d)' = IF s = "failed" THEN Vlm!Of(d) \ {i} ELSE Vlm!Of(d)
  BY <1>4, <1>6 DEF Vlm!Of
<1>9. \A k \in DOMAIN submissions :
        /\ submissions'[k].recent <=> submissions[k].recent
        /\ submissions'[k].camera = submissions[k].camera
        /\ submissions'[k].generation = submissions[k].generation
  BY <1>4, <1>6
<1> QED BY <1>4, <1>7, <1>8, <1>9

LEMMA SubmissionAdded ==
    ASSUME SubmissionsTyped, NEW c \in Camera, NEW g \in Nat,
           submissions' = Append(submissions, [camera |-> c, generation |-> g, recent |-> TRUE, status |-> "pending"])
    PROVE  /\ submissions' \in Seq(Submission)
           /\ \E n : Vlm!Of(c)' = Vlm!Of(c) \cup {n}
           /\ \A d : d # c => Vlm!Of(d)' = Vlm!Of(d)
           /\ \A i \in DOMAIN submissions' :
                \/ i \in DOMAIN submissions /\ submissions'[i] = submissions[i]
                \/ submissions'[i].camera = c /\ submissions'[i].generation = g
<1> DEFINE x == [camera |-> c, generation |-> g, recent |-> TRUE, status |-> "pending"]
           n == Len(submissions) + 1
<1>1. x \in Submission /\ x.camera = c /\ x.generation = g /\ x.status = "pending" /\ x.recent = TRUE
  BY DEF Submission
<1> HIDE DEF x
<1>2. DOMAIN submissions = 1 .. Len(submissions) /\ Len(submissions) \in Nat
  BY LenProperties DEF SubmissionsTyped
<1>3. /\ submissions' \in Seq(Submission) /\ Len(submissions') = n /\ submissions'[n] = x
      /\ \A i \in 1 .. Len(submissions) : submissions'[i] = submissions[i]
  BY <1>1, AppendProperties DEF SubmissionsTyped, x
<1>4. DOMAIN submissions' = 1 .. n
  BY <1>3, LenProperties
<1>5. /\ \A i \in DOMAIN submissions' : i \in DOMAIN submissions \/ i = n
      /\ n \in DOMAIN submissions' /\ DOMAIN submissions \subseteq DOMAIN submissions'
  BY <1>2, <1>4
<1>6. Vlm!Of(c)' = Vlm!Of(c) \cup {n}
  BY <1>1, <1>2, <1>3, <1>5 DEF Vlm!Of
<1>7. \A d : d # c => Vlm!Of(d)' = Vlm!Of(d)
  BY <1>1, <1>2, <1>3, <1>5 DEF Vlm!Of
<1> QED BY <1>1, <1>2, <1>3, <1>5, <1>6, <1>7
-----------------------------------------------------------------------------
(* Steps that leave the submissions alone.                                 *)
LEMMA OfSame ==
    ASSUME UNCHANGED submissions PROVE \A c : Vlm!Of(c)' = Vlm!Of(c)
BY DEF Vlm!Of

(* The dispatcher's thread, between marks: nothing is raised before or     *)
(* after, or the same goes on.                                             *)
LEMMA SameOffers == ASSUME UNCHANGED companion PROVE Offers' = Offers
BY DEF Offers

LEMMA JobGoesOn ==
    ASSUME VlmInv, errand' = Vlm!NoJob \/ errand' \in [stage : JobStage, work : Offers],
           UNCHANGED <<companion, generations, incidents, submissions, misled>>,
           queue' \in Seq(Offers),
           \A c \in Camera : \/ Raises(c)' <=> Raises(c)
                             \/ Raises(c) /\ generations[c] # errand.work.generation,
           \A c \in Camera : Raises(c)' => errand'.work = errand.work /\ Raises(c)
    PROVE  VlmInv'
<1>1. CompanionsTyped' /\ SubmissionsTyped' /\ Registered' /\ RecentAreNew'
  BY SameOffers DEF VlmInv, CompanionsTyped, SubmissionsTyped, Registered, RecentAreNew
<1>2. ASSUME NEW c \in Camera PROVE IncidentOf(c)'
  <2>1. IncidentOf(c) /\ Vlm!Of(c)' = Vlm!Of(c)
    BY OfSame DEF VlmInv
  <2>2. CASE Raises(c)' <=> Raises(c)
    BY <2>1, <2>2 DEF IncidentOf, None, AtMostOne
  <2>3. CASE Raises(c) /\ generations[c] # errand.work.generation
    <3>1. incidents[c] # 0 => companion[c].stage = "leaving"
      <4> HAVE incidents[c] # 0
      <4>1. incidents[c] = errand.work.generation /\ companion[c].stage # "off" /\ companion[c].generation = incidents[c]
        BY <2>1, <2>3 DEF IncidentOf
      <4>2. companion[c].stage # "on"
        BY <2>3, <4>1 DEF VlmInv, Registered
      <4> QED BY <4>1, <4>2 DEF VlmInv, CompanionsTyped
    <3> QED BY <2>1, <2>3, <3>1 DEF IncidentOf, None, AtMostOne
  <2> QED BY <2>2, <2>3
<1> QED BY <1>1, <1>2 DEF VlmInv

LEMMA WorkTyped ==
    ASSUME VlmInv, errand.stage \in JobStage
    PROVE  /\ errand # Vlm!NoJob /\ errand \in [stage : JobStage, work : Offers]
           /\ errand.work.camera \in Camera /\ errand.work.generation \in Nat \ {0}
           /\ errand.work.generation <= companion[errand.work.camera].generation
<1>1. errand # Vlm!NoJob
  BY DEF Vlm!NoJob, JobStage
<1>2. errand \in [stage : JobStage, work : Offers]
  BY <1>1 DEF VlmInv, CompanionsTyped
<1>3. errand.work \in Offers
  BY <1>2
<1> QED BY <1>1, <1>2, <1>3 DEF Offers

LEMMA DoneRaisesNothing ==
    ASSUME errand' = Vlm!NoJob PROVE \A c : ~Raises(c)'
BY DEF Raises

LEMMA VlmBegins == Vlm!Init => VlmInv
<1> SUFFICES ASSUME Vlm!Init PROVE VlmInv
  OBVIOUS
<1>1. /\ companion = [c \in Camera |-> [stage |-> "off", generation |-> 0]]
      /\ generations = [c \in Camera |-> 0] /\ queue = <<>> /\ errand = Vlm!NoJob
      /\ incidents = [c \in Camera |-> 0] /\ submissions = <<>> /\ misled = [c \in Camera |-> FALSE]
  BY DEF Vlm!Init
<1>2. <<>> \in Seq(Offers) /\ <<>> \in Seq(Submission) /\ DOMAIN submissions = {}
  BY <1>1, EmptySeq
<1>3. CompanionsTyped /\ SubmissionsTyped
  BY <1>1, <1>2 DEF CompanionsTyped, SubmissionsTyped
<1>4. \A c \in Camera : Vlm!Of(c) = {} /\ ~Raises(c)
  BY <1>1, <1>2 DEF Vlm!Of, Raises
<1>5. \A c \in Camera : IncidentOf(c)
  BY <1>1, <1>4 DEF IncidentOf, AtMostOne, Alone
<1> QED BY <1>1, <1>2, <1>3, <1>5 DEF VlmInv, Registered, RecentAreNew

-----------------------------------------------------------------------------
(* The companion of a camera.                                              *)
LEMMA RegisterHolds ==
    ASSUME VlmInv, NEW c \in Camera, Vlm!Register(c) PROVE VlmInv'
<1> DEFINE g == companion[c].generation + 1
<1>1. /\ companion[c].stage = "off"
      /\ companion' = [companion EXCEPT ![c] = [stage |-> "on", generation |-> companion[c].generation + 1]]
      /\ queue' = Vlm!Without(c) /\ Vlm!NewSpell(c) /\ UNCHANGED <<errand, incidents>>
  BY DEF Vlm!Register
<1>2. companion'[c] = [stage |-> "on", generation |-> g] /\ \A d \in Camera \ {c} : companion'[d] = companion[d]
  BY <1>1 DEF VlmInv, CompanionsTyped
<1>3. generations' = [generations EXCEPT ![c] = g] /\ g \in Nat \ {0}
  BY <1>2 DEF Vlm!Register, VlmInv, CompanionsTyped
<1> HIDE DEF g
<1>4. /\ SubmissionsTyped'
      /\ Vlm!Of(c)' = {} /\ \A d \in Camera \ {c} : Vlm!Of(d)' = Vlm!Of(d)
      /\ \A d \in Camera \ {c} : misled'[d] = misled[d]
      /\ DOMAIN submissions' = DOMAIN submissions
      /\ \A i \in DOMAIN submissions :
           /\ submissions'[i].recent => submissions[i].recent /\ submissions[i].camera # c
           /\ submissions'[i].camera = submissions[i].camera
           /\ submissions'[i].generation = submissions[i].generation
  BY <1>1, NewSpellForgets DEF VlmInv
<1>5. CompanionsTyped'
  <2>1. companion' \in [Camera -> [stage : {"off", "on", "leaving"}, generation : Nat]]
    BY <1>1, <1>2, <1>3 DEF VlmInv, CompanionsTyped
  <2>2. Offers \subseteq Offers' /\ Seq(Offers) \subseteq Seq(Offers')
    <3>1. companion \in [Camera -> [stage : {"off", "on", "leaving"}, generation : Nat]]
      BY DEF VlmInv, CompanionsTyped
    <3>2. companion'[c].generation = companion[c].generation + 1
      BY <1>2 DEF g
    <3>3. \A d \in Camera : /\ companion[d].generation \in Nat /\ companion'[d].generation \in Nat
                            /\ companion[d].generation <= companion'[d].generation
      BY <1>2, <2>1, <3>1, <3>2
    <3> QED BY <3>3, OffersStay
  <2>3. queue' \in Seq(Offers)
    BY <1>1, WithoutTyped DEF VlmInv, CompanionsTyped
  <2>4. errand' = Vlm!NoJob \/ errand' \in [stage : JobStage, work : Offers']
    <3>1. [stage : JobStage, work : Offers] \subseteq [stage : JobStage, work : Offers']
      BY <2>2
    <3> QED BY <1>1, <3>1 DEF VlmInv, CompanionsTyped
  <2> QED BY <1>1, <1>3, <2>1, <2>2, <2>3, <2>4 DEF VlmInv, CompanionsTyped
<1>6. Registered'
  BY <1>2, <1>3 DEF VlmInv, Registered, CompanionsTyped
<1>7. RecentAreNew'
  <2> SUFFICES ASSUME NEW i \in DOMAIN submissions, submissions'[i].recent
               PROVE  submissions[i].generation = companion'[submissions[i].camera].generation
    BY <1>4 DEF RecentAreNew
  <2>1. submissions[i] \in Submission
    BY ElementOfSeq, LenProperties DEF VlmInv, SubmissionsTyped
  <2>2. submissions[i].camera \in Camera
    BY <2>1 DEF Submission
  <2> QED BY <1>2, <1>4, <2>2 DEF VlmInv, RecentAreNew
<1>8. ASSUME NEW d \in Camera PROVE IncidentOf(d)'
  <2>1. IncidentOf(d) /\ (Raises(d)' <=> Raises(d))
    BY <1>1 DEF VlmInv, Raises
  <2>2. CASE d # c
    BY <1>1, <1>2, <1>3, <1>4, <2>1, <2>2 DEF IncidentOf, None, AtMostOne, VlmInv, CompanionsTyped
  <2>3. CASE d = c
    <3>1. incidents'[c] = 0
      BY <1>1, <2>1, <2>3 DEF IncidentOf
    <3>2. Raises(c) => errand.work.generation \in Nat /\ errand.work.generation <= companion[c].generation
      BY WorkTyped DEF Raises, JobStage
    <3>3. Raises(c) => generations'[c] # errand'.work.generation
      BY <1>1, <1>3, <3>2 DEF VlmInv, CompanionsTyped, g
    <3> QED BY <1>1, <1>2, <1>4, <2>1, <2>3, <3>1, <3>3 DEF IncidentOf, None, AtMostOne, Alone
  <2> QED BY <2>2, <2>3
<1> QED BY <1>4, <1>5, <1>6, <1>7, <1>8 DEF VlmInv
LEMMA VlmOfferHolds ==
    ASSUME VlmInv, NEW c \in Camera, Vlm!Offer(c) PROVE VlmInv'
<1> DEFINE w == [camera |-> c, generation |-> companion[c].generation]
<1>1. /\ companion[c].stage = "on" /\ queue' = Append(Vlm!Without(c), w)
      /\ UNCHANGED <<companion, generations, errand, incidents, submissions, misled>>
  BY DEF Vlm!Offer, Vlm!alertVars
<1>2. w \in Offers
  <2>1. companion[c].generation \in Nat \ {0}
    BY <1>1 DEF VlmInv, CompanionsTyped, Registered
  <2> QED BY <2>1 DEF Offers
<1> HIDE DEF w
<1>3. queue' \in Seq(Offers)
  BY <1>1, <1>2, WithoutTyped, AppendProperties DEF VlmInv, CompanionsTyped
<1>4. errand' = Vlm!NoJob \/ errand' \in [stage : JobStage, work : Offers]
  BY <1>1 DEF VlmInv, CompanionsTyped
<1>5. \A d \in Camera : Raises(d)' <=> Raises(d)
  BY <1>1 DEF Raises
<1> QED BY <1>1, <1>3, <1>4, <1>5, JobGoesOn

(* An incident that ends takes its mark, and leaves nothing of the spell.  *)
LEMMA ClearMarks ==
    ASSUME VlmInv, NEW c \in Camera, NEW g \in Nat, Vlm!Clear(c, g)
    PROVE  /\ incidents' \in [Camera -> Nat]
           /\ \A d \in Camera \ {c} : incidents'[d] = incidents[d]
           /\ incidents'[c] = IF incidents[c] = g THEN 0 ELSE incidents[c]
BY DEF VlmInv, CompanionsTyped, Vlm!Clear

LEMMA LeaveQueueHolds ==
    ASSUME VlmInv, NEW c \in Camera, Vlm!LeaveQueue(c) PROVE VlmInv'
<1>1. /\ companion[c].stage = "on" /\ companion' = [companion EXCEPT ![c].stage = "leaving"]
      /\ UNCHANGED <<errand, incidents, submissions, misled>>
  BY DEF Vlm!LeaveQueue, Vlm!alertVars
<1>2. /\ generations' = [generations EXCEPT ![c] = 0] /\ queue' = Vlm!Without(c)
  BY <1>1 DEF Vlm!LeaveQueue, Vlm!IsCurrent, Vlm!Discard, VlmInv, Registered
<1>3. /\ companion' \in [Camera -> [stage : {"off", "on", "leaving"}, generation : Nat]]
      /\ companion'[c].stage = "leaving" /\ companion'[c].generation = companion[c].generation
      /\ \A d \in Camera \ {c} : companion'[d] = companion[d]
      /\ \A d \in Camera : companion'[d].generation = companion[d].generation /\ companion[d].generation \in Nat
  BY <1>1 DEF VlmInv, CompanionsTyped
<1>4. CompanionsTyped'
  <2>1. Offers \subseteq Offers' /\ Seq(Offers) \subseteq Seq(Offers')
    BY <1>3, OffersStay
  <2>2. queue' \in Seq(Offers)
    BY <1>2, WithoutTyped DEF VlmInv, CompanionsTyped
  <2>3. errand' = Vlm!NoJob \/ errand' \in [stage : JobStage, work : Offers']
    <3>1. [stage : JobStage, work : Offers] \subseteq [stage : JobStage, work : Offers']
      BY <2>1
    <3> QED BY <1>1, <3>1 DEF VlmInv, CompanionsTyped
  <2> QED BY <1>1, <1>2, <1>3, <2>1, <2>2, <2>3 DEF VlmInv, CompanionsTyped
<1>5. Registered'
  BY <1>2, <1>3 DEF VlmInv, Registered, CompanionsTyped
<1>6. RecentAreNew' /\ SubmissionsTyped'
  <2>1. \A i \in DOMAIN submissions : submissions[i].camera \in Camera
    <3>1. \A i \in DOMAIN submissions : submissions[i] \in Submission
      BY ElementOfSeq, LenProperties DEF VlmInv, SubmissionsTyped
    <3> QED BY <3>1 DEF Submission
  <2> QED BY <1>1, <1>3, <2>1 DEF VlmInv, RecentAreNew, SubmissionsTyped
<1>7. ASSUME NEW d \in Camera PROVE IncidentOf(d)'
  <2>1. IncidentOf(d) /\ (Raises(d)' <=> Raises(d)) /\ Vlm!Of(d)' = Vlm!Of(d)
    BY <1>1, OfSame DEF VlmInv, Raises
  <2>2. CASE d # c
    BY <1>1, <1>2, <1>3, <2>1, <2>2 DEF IncidentOf, None, AtMostOne, VlmInv, CompanionsTyped
  <2>3. CASE d = c
    <3>1. Raises(c) => errand.work.generation # 0
      BY WorkTyped DEF Raises, JobStage
    <3>2. generations'[c] = 0
      BY <1>2 DEF VlmInv, CompanionsTyped
    <3> QED BY <1>1, <1>3, <2>1, <2>3, <3>1, <3>2 DEF IncidentOf, None, AtMostOne
  <2> QED BY <2>2, <2>3
<1> QED BY <1>4, <1>5, <1>6, <1>7 DEF VlmInv

LEMMA LeaveHolds ==
    ASSUME VlmInv, NEW c \in Camera, Vlm!Leave(c) PROVE VlmInv'
<1>1. /\ companion[c].stage = "leaving" /\ companion' = [companion EXCEPT ![c].stage = "off"]
      /\ Vlm!Clear(c, companion[c].generation)
      /\ UNCHANGED <<generations, queue, errand, submissions, misled>>
  BY DEF Vlm!Leave, Vlm!queueVars
<1>2. /\ companion' \in [Camera -> [stage : {"off", "on", "leaving"}, generation : Nat]]
      /\ companion'[c].stage = "off" /\ companion'[c].generation = companion[c].generation
      /\ \A d \in Camera \ {c} : companion'[d] = companion[d]
      /\ \A d \in Camera : companion'[d].generation = companion[d].generation /\ companion[d].generation \in Nat
  BY <1>1 DEF VlmInv, CompanionsTyped
<1>3. /\ incidents' \in [Camera -> Nat] /\ \A d \in Camera \ {c} : incidents'[d] = incidents[d]
      /\ incidents'[c] = 0
  <2>1. /\ incidents' \in [Camera -> Nat] /\ \A d \in Camera \ {c} : incidents'[d] = incidents[d]
        /\ incidents'[c] = IF incidents[c] = companion[c].generation THEN 0 ELSE incidents[c]
    BY <1>1, <1>2, ClearMarks
  <2>2. incidents[c] # 0 => companion[c].generation = incidents[c]
    BY DEF VlmInv, IncidentOf
  <2> QED BY <2>1, <2>2
<1>4. CompanionsTyped'
  <2>1. Offers \subseteq Offers' /\ Seq(Offers) \subseteq Seq(Offers')
    BY <1>2, OffersStay
  <2>2. errand' = Vlm!NoJob \/ errand' \in [stage : JobStage, work : Offers']
    <3>1. [stage : JobStage, work : Offers] \subseteq [stage : JobStage, work : Offers']
      BY <2>1
    <3> QED BY <1>1, <3>1 DEF VlmInv, CompanionsTyped
  <2> QED BY <1>1, <1>2, <1>3, <2>1, <2>2 DEF VlmInv, CompanionsTyped
<1>5. Registered'
  BY <1>1, <1>2 DEF VlmInv, Registered
<1>6. RecentAreNew' /\ SubmissionsTyped'
  <2>1. \A i \in DOMAIN submissions : submissions[i].camera \in Camera
    <3>1. \A i \in DOMAIN submissions : submissions[i] \in Submission
      BY ElementOfSeq, LenProperties DEF VlmInv, SubmissionsTyped
    <3> QED BY <3>1 DEF Submission
  <2> QED BY <1>1, <1>2, <2>1 DEF VlmInv, RecentAreNew, SubmissionsTyped
<1>7. ASSUME NEW d \in Camera PROVE IncidentOf(d)'
  <2>1. IncidentOf(d) /\ (Raises(d)' <=> Raises(d)) /\ Vlm!Of(d)' = Vlm!Of(d)
    BY <1>1, OfSame DEF VlmInv, Raises
  <2>2. CASE d # c
    BY <1>1, <1>2, <1>3, <2>1, <2>2 DEF IncidentOf, None, AtMostOne
  <2>3. CASE d = c
    <3>1. Raises(c) => generations[c] # errand.work.generation
      <4>1. Raises(c) => errand.work.generation # 0
        BY WorkTyped DEF Raises, JobStage
      <4>2. generations[c] = 0
        BY <1>1 DEF VlmInv, Registered
      <4> QED BY <4>1, <4>2
    <3> QED BY <1>1, <1>2, <1>3, <2>1, <2>3, <3>1 DEF IncidentOf, None, AtMostOne
  <2> QED BY <2>2, <2>3
<1> QED BY <1>4, <1>5, <1>6, <1>7 DEF VlmInv

-----------------------------------------------------------------------------
(* The dispatcher's thread.                                                *)
LEMMA TakeHolds == ASSUME VlmInv, Vlm!Take PROVE VlmInv'
<1>1. /\ errand = Vlm!NoJob /\ queue # <<>> /\ queue' = Tail(queue)
      /\ errand' = Vlm!NoJob \/ errand' = [stage |-> "process", work |-> Head(queue)]
      /\ UNCHANGED <<companion, generations, incidents, submissions, misled>>
  BY DEF Vlm!Take, Vlm!Done, Vlm!alertVars
<1>2. queue' \in Seq(Offers) /\ Head(queue) \in Offers
  BY <1>1, HeadTailProperties DEF VlmInv, CompanionsTyped
<1>3. errand' = Vlm!NoJob \/ errand' \in [stage : JobStage, work : Offers]
  BY <1>1, <1>2 DEF JobStage
<1>4. \A c : ~Raises(c) /\ ~Raises(c)'
  BY <1>1 DEF Raises
<1> QED BY <1>1, <1>2, <1>3, <1>4, JobGoesOn

(* A step with a job in hand that ends it or goes on to another phase.     *)
LEMMA StageHolds ==
    ASSUME VlmInv, errand.stage \in JobStage, NEW phase \in JobStage,
           Vlm!Done \/ Vlm!Continue(phase),
           UNCHANGED <<companion, generations, queue, incidents, submissions, misled>>,
           \/ errand.stage \notin {"recheck", "submit", "unmark"}
                /\ (Vlm!Done \/ phase \notin {"recheck", "submit", "unmark"})
           \/ errand.stage \in {"recheck", "submit", "unmark"}
                /\ Vlm!Continue(phase) /\ phase \in {"recheck", "submit", "unmark"}
           \/ Vlm!Done /\ ~Vlm!IsCurrent(errand.work)
    PROVE  VlmInv'
<1>1. /\ errand # Vlm!NoJob /\ errand \in [stage : JobStage, work : Offers]
      /\ errand.work.camera \in Camera /\ errand.work.generation \in Nat \ {0}
  BY WorkTyped
<1>2. Vlm!Continue(phase) => errand' \in [stage : JobStage, work : Offers] /\ errand'.work = errand.work
                             /\ errand'.stage = phase /\ errand' # Vlm!NoJob
  <2> HAVE Vlm!Continue(phase)
  <2>1. errand' = [errand EXCEPT !.stage = phase]
    BY DEF Vlm!Continue
  <2>2. errand' \in [stage : JobStage, work : Offers] /\ errand'.work = errand.work /\ errand'.stage = phase
    BY <1>1, <2>1
  <2> QED BY <2>2 DEF Vlm!NoJob, JobStage
<1>3. Vlm!Done => errand' = Vlm!NoJob
  BY DEF Vlm!Done
<1>4. errand' = Vlm!NoJob \/ errand' \in [stage : JobStage, work : Offers]
  BY <1>2, <1>3
<1>5. queue' \in Seq(Offers)
  BY DEF VlmInv, CompanionsTyped
<1>6. ASSUME NEW c \in Camera
      PROVE  /\ (Raises(c)' <=> Raises(c)) \/ (Raises(c) /\ generations[c] # errand.work.generation)
             /\ Raises(c)' => errand'.work = errand.work /\ Raises(c)
  <2>1. CASE Vlm!Done
    <3>1. ~Raises(c)' /\ ~Vlm!Continue(phase)
      BY <1>2, <1>3, <2>1 DEF Raises
    <3>2. CASE errand.stage \notin {"recheck", "submit", "unmark"}
      BY <3>1, <3>2 DEF Raises
    <3>3. CASE ~Vlm!IsCurrent(errand.work)
      BY <3>1, <3>3 DEF Raises, Vlm!IsCurrent
    <3> QED BY <3>1, <3>2, <3>3
  <2>2. CASE Vlm!Continue(phase) /\ ~Vlm!Done
    BY <1>1, <1>2, <2>2 DEF Raises
  <2> QED BY <2>1, <2>2
<1> QED BY <1>4, <1>5, <1>6, JobGoesOn

LEMMA AnswerHolds == ASSUME VlmInv, Vlm!Answer PROVE VlmInv'
<1>1. /\ errand.stage = "process" /\ errand.stage \in JobStage /\ "judge" \in JobStage
      /\ UNCHANGED <<companion, generations, queue, incidents, submissions, misled>>
      /\ Vlm!Done \/ Vlm!Continue("judge")
  BY DEF Vlm!Answer, Vlm!queueVars, Vlm!alertVars, JobStage
<1> QED BY <1>1, StageHolds

LEMMA EndsQuietly ==
    ASSUME VlmInv, errand.stage \in {"process", "judge"}, Vlm!Done,
           UNCHANGED <<companion, generations, queue, incidents, submissions, misled>>
    PROVE  VlmInv'
<1>1. errand.stage \in JobStage /\ "judge" \in JobStage
  BY DEF JobStage
<1> QED BY <1>1, StageHolds

LEMMA FailHolds == ASSUME VlmInv, Vlm!Fail \/ Vlm!Abandon PROVE VlmInv'
<1>1. /\ errand.stage \in {"process", "judge"} /\ Vlm!Done
      /\ UNCHANGED <<companion, generations, queue, incidents, submissions, misled>>
  BY DEF Vlm!Fail, Vlm!Abandon, Vlm!queueVars, Vlm!alertVars
<1> QED BY <1>1, EndsQuietly

LEMMA CoolHolds ==
    ASSUME VlmInv, UNCHANGED <<companion, generations, queue, errand, incidents, submissions, misled>> PROVE VlmInv'
<1>1. \A c \in Camera : Raises(c)' <=> Raises(c)
  BY DEF Raises
<1>2. \A c \in Camera : Raises(c)' => errand'.work = errand.work
  OBVIOUS
<1> QED BY <1>1, <1>2, JobGoesOn DEF VlmInv, CompanionsTyped

LEMMA RecheckHolds == ASSUME VlmInv, Vlm!Recheck PROVE VlmInv'
<1>1. /\ errand.stage = "recheck" /\ UNCHANGED <<companion, generations, queue, incidents, submissions, misled>>
      /\ Vlm!Continue("unmark") \/ Vlm!Continue("submit")
  BY DEF Vlm!Recheck, Vlm!queueVars, Vlm!alertVars
<1>2. errand.stage \in JobStage /\ "unmark" \in JobStage /\ "submit" \in JobStage
  BY <1>1 DEF JobStage
<1> QED BY <1>1, <1>2, StageHolds

(* Typing and registration after a step that ends the job or goes on, with *)
(* the companions and the queue as they are.                               *)
LEMMA StillTyped ==
    ASSUME VlmInv, UNCHANGED <<companion, generations, queue>>, incidents' \in [Camera -> Nat],
           errand' = Vlm!NoJob \/ errand' \in [stage : JobStage, work : Offers]
    PROVE  CompanionsTyped' /\ Registered'
BY SameOffers DEF VlmInv, CompanionsTyped, Registered

LEMMA JudgeSafeHolds == ASSUME VlmInv, Vlm!JudgeSafe PROVE VlmInv'
<1> PICK c, g : c = errand.work.camera /\ g = errand.work.generation
  OBVIOUS
<1>1. /\ errand.stage = "judge" /\ generations[c] = g /\ Vlm!Clear(c, g) /\ Vlm!NewSpell(c) /\ errand' = Vlm!NoJob
      /\ UNCHANGED <<companion, generations, queue>>
  BY DEF Vlm!JudgeSafe, Vlm!IsCurrent, Vlm!Done, Vlm!queueVars
<1>2. c \in Camera /\ g \in Nat \ {0} /\ \A d : ~Raises(d)
  <2>1. errand.stage \in JobStage
    BY <1>1 DEF JobStage
  <2> QED BY <1>1, <2>1, WorkTyped DEF Raises
<1>3. /\ SubmissionsTyped'
      /\ Vlm!Of(c)' = {} /\ \A d \in Camera \ {c} : Vlm!Of(d)' = Vlm!Of(d)
      /\ \A d \in Camera \ {c} : misled'[d] = misled[d]
      /\ DOMAIN submissions' = DOMAIN submissions
      /\ \A i \in DOMAIN submissions :
           /\ submissions'[i].recent => submissions[i].recent /\ submissions[i].camera # c
           /\ submissions'[i].camera = submissions[i].camera
           /\ submissions'[i].generation = submissions[i].generation
  BY <1>1, <1>2, NewSpellForgets DEF VlmInv
<1>4. /\ incidents' \in [Camera -> Nat] /\ \A d \in Camera \ {c} : incidents'[d] = incidents[d]
      /\ incidents'[c] = IF incidents[c] = g THEN 0 ELSE incidents[c]
  BY <1>1, <1>2, ClearMarks
<1>5. incidents'[c] = 0
  BY <1>1, <1>2, <1>4 DEF VlmInv, IncidentOf, Registered
<1>6. CompanionsTyped' /\ Registered'
  BY <1>1, <1>4, StillTyped
<1>7. RecentAreNew'
  BY <1>1, <1>3 DEF VlmInv, RecentAreNew
<1>8. ASSUME NEW d \in Camera PROVE IncidentOf(d)'
  <2>1. IncidentOf(d) /\ ~Raises(d) /\ ~Raises(d)'
    BY <1>1, <1>2, DoneRaisesNothing DEF VlmInv
  <2>2. CASE d # c
    BY <1>1, <1>3, <1>4, <2>1, <2>2 DEF IncidentOf, None, AtMostOne
  <2>3. CASE d = c
    BY <1>1, <1>3, <1>5, <2>1, <2>3 DEF IncidentOf, None, AtMostOne, Alone
  <2> QED BY <2>2, <2>3
<1> QED BY <1>3, <1>6, <1>7, <1>8 DEF VlmInv

LEMMA JudgeViolationHolds == ASSUME VlmInv, Vlm!JudgeViolation PROVE VlmInv'
<1> PICK c, g : c = errand.work.camera /\ g = errand.work.generation
  OBVIOUS
<1>1. /\ errand.stage = "judge" /\ generations[c] = g
      /\ UNCHANGED <<companion, generations, queue, submissions, misled>>
  BY DEF Vlm!JudgeViolation, Vlm!IsCurrent, Vlm!queueVars
<1>2. c \in Camera /\ g \in Nat \ {0} /\ errand \in [stage : JobStage, work : Offers]
  <2>1. errand.stage \in JobStage
    BY <1>1 DEF JobStage
  <2> QED BY <2>1, WorkTyped
<1>3. CASE incidents[c] = g
  BY <1>1, <1>3, EndsQuietly DEF Vlm!JudgeViolation
<1>4. CASE incidents[c] # g
  <2>1. incidents' = [incidents EXCEPT ![c] = g] /\ errand' = [errand EXCEPT !.stage = "recheck"]
    BY <1>4 DEF Vlm!JudgeViolation, Vlm!Continue
  <2>2. /\ errand' \in [stage : JobStage, work : Offers] /\ errand'.work = errand.work /\ errand'.stage = "recheck"
    BY <1>2, <2>1 DEF JobStage
  <2>3. companion[c].stage = "on" /\ companion[c].generation = g /\ incidents[c] = 0 /\ None(c)
    BY <1>1, <1>2, <1>4 DEF VlmInv, Registered, IncidentOf
  <2>4. /\ incidents' \in [Camera -> Nat] /\ incidents'[c] = g /\ \A d \in Camera \ {c} : incidents'[d] = incidents[d]
    BY <1>2, <2>1 DEF VlmInv, CompanionsTyped
  <2>5. CompanionsTyped' /\ Registered'
    BY <1>1, <2>2, <2>4, StillTyped
  <2>6. RecentAreNew' /\ SubmissionsTyped'
    BY <1>1 DEF VlmInv, RecentAreNew, SubmissionsTyped
  <2>7. ASSUME NEW d \in Camera PROVE IncidentOf(d)'
    <3>1. IncidentOf(d) /\ ~Raises(d) /\ Vlm!Of(d)' = Vlm!Of(d)
      BY <1>1, OfSame DEF VlmInv, Raises
    <3>2. Raises(d)' <=> d = c
      <4>1. errand' # Vlm!NoJob
        BY <2>2 DEF Vlm!NoJob
      <4> QED BY <2>2, <4>1 DEF Raises
    <3>3. CASE d # c
      BY <1>1, <2>4, <3>1, <3>2, <3>3 DEF IncidentOf, None, AtMostOne
    <3>4. CASE d = c
      <4>1. errand'.work.generation = g /\ generations'[c] = g
        BY <1>1, <2>2
      <4> QED BY <1>1, <1>2, <2>3, <2>4, <3>1, <3>2, <3>4, <4>1 DEF IncidentOf, None, AtMostOne
    <3> QED BY <3>3, <3>4
  <2> QED BY <2>5, <2>6, <2>7 DEF VlmInv
<1> QED BY <1>3, <1>4

LEMMA SubmitHolds == ASSUME VlmInv, Vlm!Submit PROVE VlmInv'
<1> PICK c, g : c = errand.work.camera /\ g = errand.work.generation
  OBVIOUS
<1>1. /\ errand.stage = "submit" /\ errand.stage \in JobStage /\ "unmark" \in JobStage
      /\ UNCHANGED <<companion, generations, queue, incidents, misled>>
  BY DEF Vlm!Submit, Vlm!queueVars, JobStage
<1>2. c \in Camera /\ g \in Nat \ {0} /\ Raises(c) /\ \A d : Raises(d) => d = c
  BY <1>1, WorkTyped DEF Raises
<1>3. CASE ~Vlm!IsCurrent(errand.work)
  <2>1. Vlm!Done /\ UNCHANGED submissions
    BY <1>3 DEF Vlm!Submit
  <2> QED BY <1>1, <1>3, <2>1, StageHolds
<1>4. CASE Vlm!Continue("unmark") /\ UNCHANGED submissions
  BY <1>1, <1>4, StageHolds
<1>5. CASE /\ Vlm!IsCurrent(errand.work) /\ Vlm!Done
           /\ submissions' = Append(submissions,
                [camera |-> c, generation |-> g, recent |-> TRUE, status |-> "pending"])
  <2>1. generations[c] = g /\ companion[c].generation = g /\ companion[c].stage = "on" /\ errand' = Vlm!NoJob
    BY <1>2, <1>5 DEF Vlm!IsCurrent, Vlm!Done, VlmInv, Registered
  <2>2. misled[c] \/ (incidents[c] = g /\ Vlm!Of(c) = {})
    BY <1>2, <2>1 DEF VlmInv, IncidentOf
  <2>3. /\ submissions' \in Seq(Submission)
        /\ \E n : Vlm!Of(c)' = Vlm!Of(c) \cup {n}
        /\ \A d : d # c => Vlm!Of(d)' = Vlm!Of(d)
        /\ \A i \in DOMAIN submissions' :
             \/ i \in DOMAIN submissions /\ submissions'[i] = submissions[i]
             \/ submissions'[i].camera = c /\ submissions'[i].generation = g
    BY <1>2, <1>5, SubmissionAdded DEF VlmInv
  <2>4. CompanionsTyped' /\ Registered'
    <3>1. incidents' \in [Camera -> Nat]
      BY <1>1 DEF VlmInv, CompanionsTyped
    <3> QED BY <1>1, <2>1, <3>1, StillTyped
  <2>5. SubmissionsTyped'
    BY <1>1, <2>3 DEF VlmInv, SubmissionsTyped
  <2>6. RecentAreNew'
    BY <1>1, <2>1, <2>3 DEF VlmInv, RecentAreNew
  <2>7. ASSUME NEW d \in Camera PROVE IncidentOf(d)'
    <3>1. IncidentOf(d) /\ ~Raises(d)'
      BY <2>1, DoneRaisesNothing DEF VlmInv
    <3>2. CASE d # c
      BY <1>1, <1>2, <2>3, <3>1, <3>2 DEF IncidentOf, None, AtMostOne
    <3>3. CASE d = c
      <4>1. misled[c] \/ (\E n : Vlm!Of(c)' = {n})
        BY <2>2, <2>3
      <4>2. (incidents[c] # 0 \/ misled[c]) /\ Vlm!Of(c)' # {}
        BY <1>2, <2>2, <2>3
      <4> QED BY <1>1, <2>1, <3>1, <3>3, <4>1, <4>2 DEF IncidentOf, None, AtMostOne, Alone
    <3> QED BY <3>2, <3>3
  <2> QED BY <2>4, <2>5, <2>6, <2>7 DEF VlmInv
<1> QED BY <1>3, <1>4, <1>5 DEF Vlm!Submit

LEMMA UnmarkHolds == ASSUME VlmInv, Vlm!Unmark PROVE VlmInv'
<1> PICK c, g : c = errand.work.camera /\ g = errand.work.generation
  OBVIOUS
<1>1. /\ errand.stage = "unmark" /\ errand.stage \in JobStage /\ Vlm!Clear(c, g) /\ errand' = Vlm!NoJob
      /\ UNCHANGED <<companion, generations, queue, submissions, misled>>
  BY DEF Vlm!Unmark, Vlm!Done, Vlm!queueVars, JobStage
<1>2. c \in Camera /\ g \in Nat \ {0} /\ Raises(c) /\ \A d : Raises(d) => d = c
  BY <1>1, WorkTyped DEF Raises
<1>3. incidents[c] \in {0, g} /\ (generations[c] = g => None(c))
  BY <1>2 DEF VlmInv, IncidentOf, None
<1>4. /\ incidents' \in [Camera -> Nat] /\ \A d \in Camera \ {c} : incidents'[d] = incidents[d]
      /\ incidents'[c] = 0
  BY <1>1, <1>2, <1>3, ClearMarks
<1>5. CompanionsTyped' /\ Registered'
  BY <1>1, <1>4, StillTyped
<1>6. RecentAreNew' /\ SubmissionsTyped'
  BY <1>1 DEF VlmInv, RecentAreNew, SubmissionsTyped
<1>7. ASSUME NEW d \in Camera PROVE IncidentOf(d)'
  <2>1. IncidentOf(d) /\ ~Raises(d)' /\ Vlm!Of(d)' = Vlm!Of(d)
    BY <1>1, DoneRaisesNothing, OfSame DEF VlmInv
  <2>2. CASE d # c
    BY <1>1, <1>2, <1>4, <2>1, <2>2 DEF IncidentOf, None, AtMostOne
  <2>3. CASE d = c
    <3>1. companion[c].stage = "on" => None(c)
      <4> HAVE companion[c].stage = "on"
      <4>1. CASE incidents[c] = 0
        BY <1>2, <4>1 DEF VlmInv, IncidentOf
      <4>2. CASE incidents[c] = g
        BY <1>2, <1>3, <4>2 DEF VlmInv, IncidentOf, Registered
      <4> QED BY <1>3, <4>1, <4>2
    <3> QED BY <1>1, <1>4, <2>1, <2>3, <3>1 DEF IncidentOf, None, AtMostOne
  <2> QED BY <2>2, <2>3
<1> QED BY <1>5, <1>6, <1>7 DEF VlmInv

-----------------------------------------------------------------------------
(* The alert pipeline.                                                     *)
LEMMA PersistHolds ==
    ASSUME VlmInv, NEW i \in DOMAIN submissions, Vlm!Persist(i) PROVE VlmInv'
<1>1. /\ submissions[i].status = "pending" /\ submissions' = [submissions EXCEPT ![i].status = "persisted"]
      /\ UNCHANGED <<companion, generations, queue, errand, incidents, misled>>
  BY DEF Vlm!Persist, Vlm!queueVars
<1>2. /\ submissions' \in Seq(Submission) /\ \A d : Vlm!Of(d)' = Vlm!Of(d)
      /\ DOMAIN submissions' = DOMAIN submissions
      /\ \A k \in DOMAIN submissions :
           /\ submissions'[k].recent <=> submissions[k].recent
           /\ submissions'[k].camera = submissions[k].camera
           /\ submissions'[k].generation = submissions[k].generation
  BY <1>1, StatusChanges DEF VlmInv
<1>3. CompanionsTyped' /\ Registered'
  BY <1>1, SameOffers DEF VlmInv, CompanionsTyped, Registered
<1>4. SubmissionsTyped' /\ RecentAreNew'
  BY <1>1, <1>2 DEF VlmInv, SubmissionsTyped, RecentAreNew
<1>5. ASSUME NEW d \in Camera PROVE IncidentOf(d)'
  <2>1. IncidentOf(d) /\ (Raises(d)' <=> Raises(d)) /\ Vlm!Of(d)' = Vlm!Of(d)
    BY <1>1, <1>2 DEF VlmInv, Raises
  <2> QED BY <1>1, <2>1 DEF IncidentOf, None, AtMostOne
<1> QED BY <1>3, <1>4, <1>5 DEF VlmInv

LEMMA PersistFailsHolds ==
    ASSUME VlmInv, NEW i \in DOMAIN submissions, Vlm!PersistFails(i) PROVE VlmInv'
<1> PICK c, g, recent : c = submissions[i].camera /\ g = submissions[i].generation /\ recent = submissions[i].recent
  OBVIOUS
<1> DEFINE ends == incidents[c] = g
<1>1. /\ submissions[i].status = "pending" /\ submissions' = [submissions EXCEPT ![i].status = "failed"]
      /\ Vlm!Clear(c, g) /\ misled' = [misled EXCEPT ![c] = @ \/ (ends /\ ~submissions[i].recent)]
      /\ UNCHANGED <<companion, generations, queue, errand>>
  BY DEF Vlm!PersistFails, Vlm!queueVars
<1>2. c \in Camera /\ g \in Nat /\ submissions[i].recent \in BOOLEAN
  <2>1. submissions[i] \in Submission
    BY ElementOfSeq, LenProperties DEF VlmInv, SubmissionsTyped
  <2> QED BY <2>1 DEF Submission
<1>3. submissions[i].recent => i \in Vlm!Of(c) /\ g = companion[c].generation
  BY <1>1 DEF VlmInv, RecentAreNew, Vlm!Of
<1>4. /\ misled' \in [Camera -> BOOLEAN] /\ \A d \in Camera : misled[d] => misled'[d]
      /\ ends /\ ~submissions[i].recent => misled'[c]
      /\ \A d \in Camera \ {c} : misled'[d] = misled[d]
  BY <1>1, <1>2 DEF VlmInv, SubmissionsTyped
<1>5. recent \in BOOLEAN /\ (recent => i \in Vlm!Of(c) /\ g = companion[c].generation)
      /\ (ends /\ ~recent => misled'[c])
  BY <1>2, <1>3, <1>4
<1>6. ~recent => i \notin Vlm!Of(c)
  BY DEF Vlm!Of
<1> HIDE DEF ends
<1>7. /\ submissions' \in Seq(Submission) /\ \A d : Vlm!Of(d)' = Vlm!Of(d) \ {i}
      /\ DOMAIN submissions' = DOMAIN submissions
      /\ \A k \in DOMAIN submissions :
           /\ submissions'[k].recent <=> submissions[k].recent
           /\ submissions'[k].camera = submissions[k].camera
           /\ submissions'[k].generation = submissions[k].generation
  BY <1>1, StatusChanges DEF VlmInv
<1>8. \A d \in Camera \ {c} : i \notin Vlm!Of(d)
  BY DEF Vlm!Of
<1>9. /\ incidents' \in [Camera -> Nat] /\ \A d \in Camera \ {c} : incidents'[d] = incidents[d]
      /\ incidents'[c] = IF incidents[c] = g THEN 0 ELSE incidents[c]
  BY <1>1, <1>2, ClearMarks
<1>10. CompanionsTyped' /\ Registered'
  BY <1>1, <1>9, SameOffers DEF VlmInv, CompanionsTyped, Registered
<1>11. SubmissionsTyped' /\ RecentAreNew'
  BY <1>1, <1>4, <1>7 DEF VlmInv, SubmissionsTyped, RecentAreNew
<1>12. ASSUME NEW d \in Camera PROVE IncidentOf(d)'
  <2>1. IncidentOf(d) /\ (Raises(d)' <=> Raises(d))
    BY <1>1 DEF VlmInv, Raises
  <2>2. CASE d # c
    <3>1. Vlm!Of(d)' = Vlm!Of(d)
      BY <1>7, <1>8, <2>2
    <3> QED BY <1>1, <1>4, <1>9, <2>1, <2>2, <3>1 DEF IncidentOf, None, AtMostOne
  <2>3. CASE d = c
    <3>1. AtMostOne(c)'
      BY <1>2, <1>4, <1>7, <2>1, <2>3 DEF IncidentOf, AtMostOne, Alone
    <3>2. CASE incidents[c] = g
      <4>1. incidents'[c] = 0
        BY <1>9, <3>2
      <4>2. Vlm!Of(c)' = {} \/ misled'[c]
        <5>1. CASE recent
          BY <1>2, <1>4, <1>5, <1>7, <2>1, <2>3, <5>1 DEF IncidentOf, AtMostOne, Alone
        <5>2. CASE ~recent
          BY <1>5, <3>2, <5>2 DEF ends
        <5> QED BY <1>5, <5>1, <5>2
      <4>3. Raises(c) /\ generations[c] = errand.work.generation => misled'[c]
        <5> HAVE Raises(c) /\ generations[c] = errand.work.generation
        <5>1. misled[c] \/ Vlm!Of(c) = {}
          BY <2>1, <2>3 DEF IncidentOf
        <5> QED BY <1>2, <1>4, <1>5, <1>7, <3>2, <5>1 DEF ends
      <4> QED BY <1>1, <2>1, <2>3, <3>1, <4>1, <4>2, <4>3 DEF IncidentOf, None
    <3>3. CASE incidents[c] # g
      <4>1. incidents'[c] = incidents[c]
        BY <1>9, <3>3
      <4>2. incidents[c] # 0 => i \notin Vlm!Of(c)
        BY <1>5, <1>6, <2>1, <2>3, <3>3 DEF IncidentOf
      <4>3. Vlm!Of(c)' \subseteq Vlm!Of(c) /\ (incidents[c] # 0 => Vlm!Of(c)' = Vlm!Of(c))
        BY <1>7, <4>2
      <4> QED BY <1>1, <1>2, <1>4, <2>1, <2>3, <3>1, <4>1, <4>3 DEF IncidentOf, None
    <3> QED BY <3>2, <3>3
  <2> QED BY <2>2, <2>3
<1> QED BY <1>10, <1>11, <1>12 DEF VlmInv

-----------------------------------------------------------------------------
LEMMA VlmCounts == \A S : Vlm!Cardinality(S) = Cardinality(S)
BY DEF Cardinality, Vlm!Cardinality

LEMMA VlmHonest == ASSUME VlmInv PROVE Vlm!IncidentHonest
<1>1. Vlm!IncidentBacked
  BY DEF VlmInv, IncidentOf, Raises, Vlm!IncidentBacked
<1>2. ASSUME NEW c \in Camera, Vlm!Cardinality(Vlm!Of(c)) > 1 PROVE misled[c]
  <2> SUFFICES ASSUME Alone(Vlm!Of(c)) PROVE FALSE
    BY DEF VlmInv, IncidentOf, AtMostOne
  <2>1. Vlm!Of(c) = {} \/ \E i : Vlm!Of(c) = {i}
    BY DEF Alone
  <2>2. Cardinality({}) = 0 /\ \A i : Cardinality({i}) = 1
    BY FS_EmptySet, FS_Singleton
  <2>3. Cardinality(Vlm!Of(c)) \in {0, 1}
    BY <2>1, <2>2
  <2> QED BY <1>2, <2>3, VlmCounts
<1> QED BY <1>1, <1>2 DEF Vlm!OneAlertPerSpell, Vlm!IncidentHonest

LEMMA VlmHolds == VlmInv /\ [Vlm!Next]_(Vlm!vars) => VlmInv'
<1> SUFFICES ASSUME VlmInv, [Vlm!Next]_(Vlm!vars) PROVE VlmInv'
  OBVIOUS
<1>1. CASE UNCHANGED Vlm!vars \/ Vlm!Cool
  BY <1>1, CoolHolds DEF Vlm!vars, Vlm!Cool, Vlm!queueVars, Vlm!alertVars
<1> QED
  BY <1>1, RegisterHolds, VlmOfferHolds, LeaveQueueHolds, LeaveHolds, TakeHolds, AnswerHolds, FailHolds,
     JudgeSafeHolds, JudgeViolationHolds, RecheckHolds, SubmitHolds, UnmarkHolds, PersistHolds, PersistFailsHolds
  DEF Vlm!Next

(* An incident neither silences a camera for nothing nor raises a second   *)
(* alert, for any cameras and any number of companions, offers, failures   *)
(* of the provider and alerts: IncidentHonest of VlmEnrichment.            *)
THEOREM SilenceJustified == Vlm!Spec => []Vlm!IncidentHonest
BY VlmBegins, VlmHolds, VlmHonest, PTL DEF Vlm!Spec

VlmConstants == MaxGenerations \in Nat /\ MaximumPending \in Nat /\ FailureThreshold \in Nat

(* The bounds: only a companion's start raises a generation, and whatever  *)
(* else carries one has it from a companion.                               *)
CompanionsBounded == \A c \in Camera : companion[c].generation <= MaxGenerations
SubmissionsBounded == \A i \in DOMAIN submissions : submissions[i].generation <= MaxGenerations
QueueBounded == Len(queue) <= MaximumPending
Circuit == failures \in 0 .. FailureThreshold /\ open \in BOOLEAN

LEMMA WithoutIsNoLonger ==
    ASSUME NEW c, NEW S, queue \in Seq(S) PROVE Len(Vlm!Without(c)) <= Len(queue)
<1>1. CASE ~(\E i \in DOMAIN queue : queue[i].camera = c)
  <2>1. Len(queue) \in Nat
    BY LenProperties
  <2> QED BY <1>1, <2>1 DEF Vlm!Without
<1>2. CASE \E i \in DOMAIN queue : queue[i].camera = c
  <2> DEFINE i == CHOOSE i \in DOMAIN queue : queue[i].camera = c
  <2>1. i \in 1 .. Len(queue) /\ Len(queue) \in Nat
    BY <1>2, LenProperties
  <2>2. Vlm!Without(c) = SubSeq(queue, 1, i - 1) \o SubSeq(queue, i + 1, Len(queue))
    BY <1>2 DEF Vlm!Without, Vlm!RemoveAt
  <2> HIDE DEF i
  <2>3. \A j \in 1 .. Len(queue) : queue[j] \in S
    BY ElementOfSeq
  <2>4. SubSeq(queue, 1, i - 1) \in Seq(S) /\ Len(SubSeq(queue, 1, i - 1)) = i - 1
    BY <2>1, <2>3, SubSeqProperties
  <2>5. /\ SubSeq(queue, i + 1, Len(queue)) \in Seq(S)
        /\ Len(SubSeq(queue, i + 1, Len(queue))) = Len(queue) - i
    BY <2>1, <2>3, SubSeqProperties
  <2>6. Len(Vlm!Without(c)) = (i - 1) + (Len(queue) - i)
    BY <2>2, <2>4, <2>5, ConcatProperties
  <2> QED BY <2>1, <2>6
<1> QED BY <1>1, <1>2

LEMMA CompanionsBoundedHold ==
    ASSUME VlmConstants, VlmInv, CompanionsBounded, [Vlm!Next]_(Vlm!vars)
    PROVE  CompanionsBounded'
<1>1. companion \in [Camera -> [stage : {"off", "on", "leaving"}, generation : Nat]]
  BY DEF VlmInv, CompanionsTyped
<1>2. ASSUME NEW c \in Camera, Vlm!Register(c) PROVE CompanionsBounded'
  BY <1>1, <1>2 DEF Vlm!Register, CompanionsBounded, VlmConstants
<1>3. ASSUME NEW c \in Camera, Vlm!LeaveQueue(c) \/ Vlm!Leave(c) PROVE CompanionsBounded'
  BY <1>1, <1>3 DEF Vlm!LeaveQueue, Vlm!Leave, CompanionsBounded
<1>4. CASE UNCHANGED companion
  BY <1>4 DEF CompanionsBounded
<1> QED BY <1>2, <1>3, <1>4 DEF Vlm!Next, Vlm!vars, Vlm!Offer, Vlm!Take, Vlm!Answer, Vlm!Fail, Vlm!Cool,
     Vlm!Abandon, Vlm!JudgeSafe, Vlm!JudgeViolation, Vlm!Recheck, Vlm!Submit, Vlm!Unmark, Vlm!Persist,
     Vlm!PersistFails

LEMMA SubmissionsBoundedHold ==
    ASSUME VlmConstants, VlmInv, CompanionsBounded, SubmissionsBounded, [Vlm!Next]_(Vlm!vars)
    PROVE  SubmissionsBounded'
<1>1. submissions \in Seq(Submission) /\ Len(submissions) \in Nat /\ DOMAIN submissions = 1 .. Len(submissions)
      /\ \A i \in DOMAIN submissions : submissions[i] \in Submission
  <2>1. submissions \in Seq(Submission)
    BY DEF VlmInv, SubmissionsTyped
  <2> QED BY <2>1, LenProperties, ElementOfSeq
<1>2. ASSUME NEW c, Vlm!NewSpell(c) PROVE SubmissionsBounded'
  BY <1>1, <1>2 DEF Vlm!NewSpell, SubmissionsBounded, Submission
<1>3. CASE Vlm!Submit
  <2>1. CASE UNCHANGED submissions
    BY <2>1 DEF SubmissionsBounded
  <2>2. ASSUME NEW s, s.generation = errand.work.generation, submissions' = Append(submissions, s)
        PROVE  SubmissionsBounded'
    <3>1. errand \in [stage : JobStage, work : Offers]
      BY <1>3 DEF VlmInv, CompanionsTyped, Vlm!Submit, Vlm!NoJob
    <3>2. errand.work.generation <= MaxGenerations
      BY <3>1 DEF Offers, CompanionsBounded, VlmInv, CompanionsTyped, VlmConstants
    <3>3. DOMAIN submissions' = 1 .. Len(submissions) + 1 /\ submissions'[Len(submissions) + 1] = s
          /\ \A i \in 1 .. Len(submissions) : submissions'[i] = submissions[i]
      BY <1>1, <2>2
    <3> QED BY <1>1, <2>2, <3>2, <3>3 DEF SubmissionsBounded
  <2> QED BY <1>3, <2>1, <2>2 DEF Vlm!Submit
<1>4. ASSUME NEW i \in DOMAIN submissions, Vlm!Persist(i) \/ Vlm!PersistFails(i) PROVE SubmissionsBounded'
  <2>1. PICK finish : submissions' = [submissions EXCEPT ![i].status = finish]
    BY <1>4 DEF Vlm!Persist, Vlm!PersistFails
  <2> QED BY <1>1, <2>1 DEF SubmissionsBounded, Submission
<1>5. CASE UNCHANGED submissions
  BY <1>5 DEF SubmissionsBounded
<1> QED BY <1>2, <1>3, <1>4, <1>5 DEF Vlm!Next, Vlm!vars, Vlm!alertVars, Vlm!Register, Vlm!Offer,
     Vlm!LeaveQueue, Vlm!Leave, Vlm!Take, Vlm!Answer, Vlm!Fail, Vlm!Cool, Vlm!Abandon, Vlm!JudgeSafe,
     Vlm!JudgeViolation, Vlm!Recheck, Vlm!Unmark

LEMMA QueueBoundedHolds ==
    ASSUME VlmConstants, VlmInv, QueueBounded, [Vlm!Next]_(Vlm!vars)
    PROVE  QueueBounded'
<1>1. queue \in Seq(Offers) /\ Len(queue) \in Nat
  BY LenProperties DEF VlmInv, CompanionsTyped
<1>2. \A c : Vlm!Without(c) \in Seq(Offers) /\ Len(Vlm!Without(c)) \in Nat /\ Len(Vlm!Without(c)) <= Len(queue)
  BY <1>1, WithoutTyped, WithoutIsNoLonger, LenProperties
<1>3. ASSUME NEW c, queue' = Vlm!Without(c) PROVE QueueBounded'
  BY <1>1, <1>2, <1>3 DEF QueueBounded, VlmConstants
<1>4. ASSUME NEW c \in Camera, Vlm!Offer(c) PROVE QueueBounded'
  <2>1. PICK w : queue' = Append(Vlm!Without(c), w)
    BY <1>4 DEF Vlm!Offer
  <2>2. Len(queue') = Len(Vlm!Without(c)) + 1
    BY <1>2, <2>1
  <2> QED BY <1>1, <1>2, <1>4, <2>2 DEF Vlm!Offer, QueueBounded, VlmConstants
<1>5. CASE Vlm!Take
  BY <1>1, <1>5, HeadTailProperties DEF Vlm!Take, QueueBounded, VlmConstants
<1>6. CASE UNCHANGED queue
  BY <1>6 DEF QueueBounded
<1> QED BY <1>3, <1>4, <1>5, <1>6 DEF Vlm!Next, Vlm!vars, Vlm!queueVars, Vlm!Register, Vlm!Discard,
     Vlm!LeaveQueue, Vlm!Leave, Vlm!Answer, Vlm!Fail, Vlm!Cool, Vlm!Abandon, Vlm!JudgeSafe,
     Vlm!JudgeViolation, Vlm!Recheck, Vlm!Submit, Vlm!Unmark, Vlm!Persist, Vlm!PersistFails

LEMMA CircuitHolds ==
    ASSUME VlmConstants, Circuit, [Vlm!Next]_(Vlm!vars)
    PROVE  Circuit'
<1>1. CASE Vlm!Answer
  <2>1. failures' = 0 /\ open' = FALSE
    BY <1>1 DEF Vlm!Answer
  <2>2. failures' \in 0 .. FailureThreshold
    BY <2>1 DEF VlmConstants
  <2>3. open' \in BOOLEAN
    BY <2>1, Zenon
  <2> QED BY <2>2, <2>3 DEF Circuit
<1>2. CASE Vlm!Fail
  BY <1>2 DEF Vlm!Fail, Circuit, VlmConstants
<1>3. CASE Vlm!Cool
  BY <1>3 DEF Vlm!Cool, Circuit
<1>4. CASE UNCHANGED <<failures, open>>
  BY <1>4 DEF Circuit
<1> QED BY <1>1, <1>2, <1>3, <1>4 DEF Vlm!Next, Vlm!vars, Vlm!circuit, Vlm!Register, Vlm!Offer,
     Vlm!LeaveQueue, Vlm!Leave, Vlm!Take, Vlm!Abandon, Vlm!JudgeSafe, Vlm!JudgeViolation, Vlm!Recheck,
     Vlm!Submit, Vlm!Unmark, Vlm!Persist, Vlm!PersistFails

(* VlmEnrichment keeps its types; its queue and its breaker their bounds.  *)
THEOREM VlmTyped == ASSUME VlmConstants PROVE Vlm!Spec => []Vlm!TypeOK
<1> DEFINE I == VlmInv /\ CompanionsBounded /\ SubmissionsBounded /\ QueueBounded /\ Circuit
<1>1. Vlm!Init => I
  <2> SUFFICES ASSUME Vlm!Init PROVE CompanionsBounded /\ SubmissionsBounded /\ QueueBounded /\ Circuit
    BY VlmBegins
  <2>1. CompanionsBounded
    BY DEF Vlm!Init, VlmConstants, CompanionsBounded
  <2>2. SubmissionsBounded /\ QueueBounded
    <3>1. submissions = <<>> /\ queue = <<>>
      BY DEF Vlm!Init
    <3> QED BY <3>1 DEF VlmConstants, SubmissionsBounded, QueueBounded
  <2>3. Circuit
    <3>1. failures = 0 /\ open = FALSE
      BY DEF Vlm!Init
    <3>2. failures \in 0 .. FailureThreshold
      BY <3>1 DEF VlmConstants
    <3>3. open \in BOOLEAN
      BY <3>1, Zenon
    <3> QED BY <3>2, <3>3 DEF Circuit
  <2> QED BY <2>1, <2>2, <2>3
<1>2. I /\ [Vlm!Next]_(Vlm!vars) => I'
  BY VlmHolds, CompanionsBoundedHold, SubmissionsBoundedHold, QueueBoundedHolds, CircuitHolds
<1>3. I => Vlm!TypeOK
  <2> SUFFICES ASSUME I PROVE Vlm!TypeOK
    OBVIOUS
  <2>1. companion \in [Camera -> [stage : {"off", "on", "leaving"}, generation : Vlm!Generation]]
    BY DEF VlmInv, CompanionsTyped, CompanionsBounded, Vlm!Generation, VlmConstants
  <2>2. generations \in [Camera -> Vlm!Generation] /\ incidents \in [Camera -> Vlm!Generation]
    <3>1. generations \in [Camera -> Nat] /\ incidents \in [Camera -> Nat]
      BY DEF VlmInv, CompanionsTyped
    <3>2. ASSUME NEW c \in Camera
          PROVE  companion[c].generation \in 0 .. MaxGenerations /\ 0 \in 0 .. MaxGenerations
      BY <2>1 DEF Vlm!Generation, VlmConstants
    <3>3. \A c \in Camera : generations[c] \in {0, companion[c].generation}
      BY DEF VlmInv, Registered
    <3>4. \A c \in Camera : incidents[c] \in {0, companion[c].generation}
      BY DEF VlmInv, IncidentOf
    <3> QED BY <3>1, <3>2, <3>3, <3>4 DEF Vlm!Generation
  <2>3. Offers \subseteq Vlm!Work
    BY <2>1 DEF Offers, Vlm!Work, Vlm!Generation, VlmConstants
  <2>4. queue \in Seq(Vlm!Work)
    <3>1. queue \in Seq(Offers) /\ Len(queue) \in Nat /\ \A i \in 1 .. Len(queue) : queue[i] \in Offers
      BY LenProperties, ElementOfSeq DEF VlmInv, CompanionsTyped
    <3> QED BY <2>3, <3>1, SeqDef
  <2>5. errand = Vlm!NoJob \/ errand \in [stage : JobStage, work : Vlm!Work]
    BY <2>3 DEF VlmInv, CompanionsTyped
  <2>6. submissions \in Seq([camera : Camera, generation : Vlm!Generation, recent : BOOLEAN,
                             status : {"pending", "persisted", "failed"}])
    <3>1. submissions \in Seq(Submission) /\ Len(submissions) \in Nat /\ DOMAIN submissions = 1 .. Len(submissions)
          /\ \A i \in 1 .. Len(submissions) : submissions[i] \in Submission
      BY LenProperties, ElementOfSeq DEF VlmInv, SubmissionsTyped
    <3> DEFINE T == [camera : Camera, generation : Vlm!Generation, recent : BOOLEAN,
                     status : {"pending", "persisted", "failed"}]
    <3>2. \A i \in 1 .. Len(submissions) : submissions[i] \in T
      BY <3>1 DEF SubmissionsBounded, Submission, Vlm!Generation, VlmConstants
    <3>3. submissions = [i \in 1 .. Len(submissions) |-> submissions[i]]
      BY <3>1, SeqDef
    <3> HIDE DEF T
    <3>4. submissions \in [1 .. Len(submissions) -> T]
      BY <3>2, <3>3
    <3>5. submissions \in Seq(T)
      BY <3>1, <3>4, SeqDef
    <3> QED BY <3>5 DEF T
  <2> QED BY <2>1, <2>2, <2>4, <2>5, <2>6 DEF VlmInv, SubmissionsTyped, QueueBounded, Circuit, JobStage, Vlm!TypeOK
<1> HIDE DEF I
<1> QED BY <1>1, <1>2, <1>3, PTL DEF Vlm!Spec

-----------------------------------------------------------------------------
(* FrameBatcher.                                                           *)

BatchConstants ==
    /\ IsFiniteSet(Caller)
    /\ Hint \subseteq {"none", "single", "pair", "full"}
    /\ FullSize \in Nat \ {0} /\ PairSize \in Nat \ {0} /\ Permits \in Nat

Hints == {"none", "pair", "full"}
Place == {"idle", "early", "late", "taken", "leading", "sending", "alone", "single"}
CallType ==
    [pc : Place, hint : Hints \cup {"single"}, items : SUBSET Caller,
     answer : {"open", "handled", "unhandled", "error"}, sent : Nat]

CallsTyped ==
    /\ kind \in {"grouped", "phone"}
    /\ call \in [Caller -> CallType] /\ partners \in [Hints -> SUBSET Caller]

Sends(c) == call[c].pc \in {"leading", "sending"}
Waits(c) == call[c].pc \in {"early", "late", "taken"}

PendingWaits ==
    \A h \in Hints : \A c \in partners[h] :
        /\ call[c].pc \in {"early", "late"} /\ call[c].hint = h
        /\ call[c].answer = "open" /\ call[c].sent = 0
        /\ \A l \in Caller : c \notin call[l].items

(* What a caller that sends a batch carries waits for it.                  *)
Carries(l, d) ==
    /\ call[d].hint = call[l].hint
    /\ call[d].sent = IF call[l].pc = "sending" THEN 1 ELSE 0
    /\ d # l => Waits(d) /\ call[d].answer = "open"

BatchesCarry ==
    \A l \in Caller :
        /\ ~Sends(l) => call[l].items = {}
        /\ Sends(l) => l \in call[l].items /\ (kind = "grouped" => Cardinality(call[l].items) \in {PairSize, FullSize})
        /\ \A d \in call[l].items : Carries(l, d)

OneBatch == \A l, k \in Caller : \A d \in call[l].items : d \in call[k].items => l = k

OwnWay(c) ==
    /\ call[c].sent <= 1
    /\ call[c].pc \in {"idle", "alone"} => call[c].sent = 0
    /\ Waits(c) =>
         /\ call[c].hint \in Hints
         /\ call[c].answer = "unhandled" => call[c].sent = 0
         /\ call[c].answer = "open" => c \in partners[call[c].hint] \/ \E l \in Caller : c \in call[l].items

Busy == {c \in Caller : call[c].pc \in {"sending", "single"}}
Waiting == UNION {partners[h] : h \in Hints}

FramesPlaced == CallsTyped /\ PendingWaits /\ BatchesCarry /\ OneBatch /\ \A c \in Caller : OwnWay(c)
Balanced == balance = Cardinality(Waiting)
Admitted == permits \in Nat /\ permits + Cardinality(Busy) = Permits

BatchInv == FramesPlaced /\ Balanced /\ Admitted

-----------------------------------------------------------------------------
LEMMA BatchCounts == \A S : Batch!Cardinality(S) = Cardinality(S)
BY DEF Cardinality, Batch!Cardinality

(* A step of one caller that carries nothing before and after it, and of   *)
(* the frames that wait.                                                   *)
LEMMA OneCallerMoves ==
    ASSUME FramesPlaced, NEW c \in Caller, NEW x \in CallType, kind' = kind, call' = [call EXCEPT ![c] = x],
           ~Sends(c), x.pc \notin {"leading", "sending"}, x.items = {},
           partners' \in [Hints -> SUBSET Caller],
           \A h \in Hints : partners'[h] \subseteq partners[h] \cup {c} /\ partners[h] \subseteq partners'[h] \cup {c},
           \A h \in Hints : c \in partners'[h] =>
              /\ x.pc \in {"early", "late"} /\ x.hint = h /\ x.answer = "open" /\ x.sent = 0
              /\ \A l \in Caller : c \notin call[l].items,
           \A l \in Caller : c \in call[l].items =>
              /\ x.pc \in {"early", "late", "taken"} /\ x.hint = call[c].hint
              /\ x.answer = "open" /\ x.sent = call[c].sent,
           x.sent <= 1, x.pc \in {"idle", "alone"} => x.sent = 0,
           x.pc \in {"early", "late", "taken"} =>
              /\ x.hint \in Hints
              /\ x.answer = "unhandled" => x.sent = 0
              /\ x.answer = "open" => c \in partners'[x.hint] \/ \E l \in Caller : c \in call[l].items
    PROVE  FramesPlaced'
<1>1. /\ CallsTyped' /\ call'[c] = x /\ \A d \in Caller : d # c => call'[d] = call[d]
  BY DEF FramesPlaced, CallsTyped
<1>2. \A l \in Caller : call'[l].items = call[l].items
  BY <1>1 DEF FramesPlaced, BatchesCarry
<1>3. PendingWaits'
  BY <1>1, <1>2 DEF FramesPlaced, CallsTyped, PendingWaits
<1>4. BatchesCarry'
  <2> SUFFICES ASSUME NEW l \in Caller
               PROVE  /\ ~Sends(l)' => call'[l].items = {}
                      /\ Sends(l)' => l \in call'[l].items
                                      /\ (kind = "grouped" => Cardinality(call'[l].items) \in {PairSize, FullSize})
                      /\ \A d \in call'[l].items : Carries(l, d)'
    BY DEF BatchesCarry
  <2>1. /\ ~Sends(l) => call[l].items = {}
        /\ Sends(l) => l \in call[l].items
                       /\ (kind = "grouped" => Cardinality(call[l].items) \in {PairSize, FullSize})
        /\ \A d \in call[l].items : Carries(l, d)
    BY DEF FramesPlaced, BatchesCarry
  <2>2. Sends(l)' <=> Sends(l)
    BY <1>1 DEF Sends
  <2>3. ASSUME NEW d \in call[l].items PROVE Carries(l, d)'
    <3>1. l # c /\ d \in Caller
      BY <2>1 DEF FramesPlaced, CallsTyped, CallType
    <3> QED BY <1>1, <2>1, <3>1 DEF Carries, Waits
  <2> QED BY <1>2, <2>1, <2>2, <2>3
<1>5. OneBatch'
  BY <1>2 DEF FramesPlaced, OneBatch
<1>6. ASSUME NEW d \in Caller PROVE OwnWay(d)'
  <2>1. CASE d = c
    BY <1>1, <1>2, <2>1 DEF OwnWay, Waits
  <2>2. CASE d # c
    BY <1>1, <1>2, <2>2 DEF FramesPlaced, OwnWay, Waits
  <2> QED BY <2>1, <2>2
<1> QED BY <1>1, <1>3, <1>4, <1>5, <1>6 DEF FramesPlaced

(* A caller takes a batch of frames that wait, its own among them.         *)
LEMMA BatchFormed ==
    ASSUME FramesPlaced, NEW c \in Caller, NEW x \in CallType, kind' = kind, call' = [call EXCEPT ![c] = x],
           ~Sends(c), x.pc = "leading", x.sent = 0, c \in x.items,
           \A l \in Caller : c \notin call[l].items,
           kind = "grouped" => Cardinality(x.items) \in {PairSize, FullSize},
           \A d \in x.items : d # c => x.hint \in Hints /\ d \in partners[x.hint],
           partners' \in [Hints -> SUBSET Caller],
           \A g \in Hints : partners'[g] = partners[g] \ x.items
    PROVE  FramesPlaced'
<1>h. PICK h, items : h = x.hint /\ items = x.items
  OBVIOUS
<1>1. CallsTyped' /\ call'[c] = x /\ \A d \in Caller : d # c => call'[d] = call[d]
  BY DEF FramesPlaced, CallsTyped
<1>2. \A d \in items : d # c => /\ call[d].pc \in {"early", "late"} /\ call[d].hint = h /\ call[d].answer = "open"
                                /\ call[d].sent = 0 /\ \A l \in Caller : d \notin call[l].items
  BY <1>h DEF FramesPlaced, PendingWaits
<1>3. \A d \in items : \A l \in Caller : d \notin call[l].items
  BY <1>2
<1>4. PendingWaits'
  <2> SUFFICES ASSUME NEW g \in Hints, NEW d \in partners'[g]
               PROVE  /\ call'[d].pc \in {"early", "late"} /\ call'[d].hint = g
                      /\ call'[d].answer = "open" /\ call'[d].sent = 0
                      /\ \A l \in Caller : d \notin call'[l].items
    BY DEF PendingWaits
  <2>1. d \in Caller /\ d # c /\ d \in partners[g] /\ d \notin items
    BY <1>h DEF FramesPlaced, CallsTyped
  <2> QED BY <1>1, <2>1 DEF FramesPlaced, PendingWaits
<1>5. BatchesCarry'
  <2> SUFFICES ASSUME NEW l \in Caller
               PROVE  /\ ~Sends(l)' => call'[l].items = {}
                      /\ Sends(l)' => l \in call'[l].items
                                      /\ (kind = "grouped" => Cardinality(call'[l].items) \in {PairSize, FullSize})
                      /\ \A d \in call'[l].items : Carries(l, d)'
    BY DEF BatchesCarry
  <2>1. CASE l = c
    BY <1>h, <1>1, <1>2, <2>1 DEF Sends, Carries, Waits
  <2>2. CASE l # c
    <3>1. /\ ~Sends(l) => call[l].items = {}
          /\ Sends(l) => l \in call[l].items
                         /\ (kind = "grouped" => Cardinality(call[l].items) \in {PairSize, FullSize})
          /\ \A d \in call[l].items : Carries(l, d)
      BY DEF FramesPlaced, BatchesCarry
    <3>2. \A d \in call[l].items : d # c /\ d \in Caller
      BY DEF FramesPlaced, CallsTyped, CallType
    <3> QED BY <1>1, <2>2, <3>1, <3>2 DEF Sends, Carries, Waits
  <2> QED BY <2>1, <2>2
<1>6. OneBatch'
  BY <1>h, <1>1, <1>3 DEF FramesPlaced, OneBatch
<1>7. ASSUME NEW d \in Caller PROVE OwnWay(d)'
  <2>1. CASE d = c
    BY <1>h, <1>1, <2>1 DEF OwnWay, Waits
  <2>2. CASE d # c
    <3>1. call'[d] = call[d] /\ OwnWay(d) /\ call[c].items = {}
      BY <1>1, <2>2 DEF FramesPlaced, BatchesCarry
    <3>2. Waits(d) /\ call[d].answer = "open" => d \in partners'[call[d].hint] \/ \E l \in Caller : d \in call'[l].items
      <4> HAVE Waits(d) /\ call[d].answer = "open"
      <4>1. CASE d \in partners[call[d].hint]
        <5>1. call[d].hint \in Hints
          BY <3>1 DEF OwnWay
        <5>2. d \in items \/ d \in partners'[call[d].hint]
          BY <1>h, <4>1, <5>1
        <5> QED BY <1>h, <1>1, <5>2
      <4>2. CASE \E l \in Caller : d \in call[l].items
        BY <1>h, <1>1, <3>1, <4>2
      <4> QED BY <3>1, <4>1, <4>2 DEF OwnWay
    <3> QED BY <1>1, <2>2, <3>1, <3>2 DEF OwnWay, Waits
  <2> QED BY <2>1, <2>2
<1> QED BY <1>1, <1>4, <1>5, <1>6, <1>7 DEF FramesPlaced

(* Every frame of a batch learns the answer.                               *)
LEMMA AnswerArrives ==
    ASSUME FramesPlaced, NEW c \in Caller, Sends(c), NEW answer \in {"handled", "unhandled", "error"},
           answer = "unhandled" => call[c].pc = "sending",
           call' = Batch!Answered(c, answer), UNCHANGED <<kind, partners>>
    PROVE  FramesPlaced' /\ \A d \in Caller : (d # c => call'[d].pc = call[d].pc) /\ call'[c].pc \in {"alone", "idle"}
<1> DEFINE items == call[c].items
<1>1. /\ c \in items /\ items \subseteq Caller
      /\ \A d \in items : Carries(c, d)
      /\ \A l \in Caller : l # c => \A d \in call[l].items : d \notin items
  BY DEF FramesPlaced, BatchesCarry, OneBatch, CallsTyped, CallType
<1>2. /\ call'[c] = IF answer = "unhandled" THEN [Batch!Resting EXCEPT !.pc = "alone", !.hint = call[c].hint]
                    ELSE Batch!Resting
      /\ \A d \in items : d # c =>
           call'[d] = [call[d] EXCEPT !.answer = answer, !.sent = IF answer = "unhandled" THEN @ - 1 ELSE @]
      /\ \A d \in Caller : d \notin items => call'[d] = call[d]
      /\ call' = [d \in Caller |-> call'[d]]
  BY <1>1 DEF Batch!Answered
<1>3. /\ call'[c] \in CallType /\ call'[c].items = {} /\ call'[c].pc \in {"alone", "idle"} /\ call'[c].sent = 0
  <2>1. call[c].hint \in Hints \cup {"single"}
    BY DEF FramesPlaced, CallsTyped, CallType
  <2>2. CASE answer = "unhandled"
    <3>1. call'[c] = [pc |-> "alone", hint |-> call[c].hint, items |-> {}, answer |-> "open", sent |-> 0]
      BY <1>2, <2>2 DEF Batch!Resting
    <3> QED BY <2>1, <3>1 DEF CallType, Place
  <2>3. CASE answer # "unhandled"
    <3>1. call'[c] = [pc |-> "idle", hint |-> "none", items |-> {}, answer |-> "open", sent |-> 0]
      BY <1>2, <2>3 DEF Batch!Resting
    <3> QED BY <3>1 DEF CallType, Place, Hints
  <2> QED BY <2>2, <2>3
<1>4. \A d \in items : d # c =>
        /\ call'[d] \in CallType /\ call'[d].pc = call[d].pc /\ call'[d].hint = call[d].hint
        /\ call'[d].items = call[d].items /\ call'[d].answer = answer
        /\ call'[d].sent <= 1 /\ (answer = "unhandled" => call'[d].sent = 0) /\ Waits(d)
  <2> SUFFICES ASSUME NEW d \in items, d # c
               PROVE  /\ call'[d] \in CallType /\ call'[d].pc = call[d].pc /\ call'[d].hint = call[d].hint
                      /\ call'[d].items = call[d].items /\ call'[d].answer = answer
                      /\ call'[d].sent <= 1 /\ (answer = "unhandled" => call'[d].sent = 0) /\ Waits(d)
    OBVIOUS
  <2>1. call[d] \in CallType /\ Waits(d) /\ call[d].sent = IF call[c].pc = "sending" THEN 1 ELSE 0
    BY <1>1 DEF FramesPlaced, CallsTyped, Carries
  <2>2. ASSUME NEW n \in Nat
        PROVE  LET r == [call[d] EXCEPT !.answer = answer, !.sent = n]
               IN  /\ r \in CallType /\ r.pc = call[d].pc /\ r.hint = call[d].hint /\ r.items = call[d].items
                   /\ r.answer = answer /\ r.sent = n
    BY <2>1 DEF CallType
  <2>3. CASE answer = "unhandled"
    <3>1. call'[d] = [call[d] EXCEPT !.answer = answer, !.sent = call[d].sent - 1]
      BY <1>2, <2>3
    <3>2. call[d].sent - 1 = 0
      BY <2>1, <2>3
    <3>3. call'[d] = [call[d] EXCEPT !.answer = answer, !.sent = 0]
      BY <3>1, <3>2
    <3>4. /\ call'[d] \in CallType /\ call'[d].pc = call[d].pc /\ call'[d].hint = call[d].hint
          /\ call'[d].items = call[d].items /\ call'[d].answer = answer /\ call'[d].sent = 0
      <4>1. /\ [call[d] EXCEPT !.answer = answer, !.sent = 0] \in CallType
            /\ [call[d] EXCEPT !.answer = answer, !.sent = 0].pc = call[d].pc
            /\ [call[d] EXCEPT !.answer = answer, !.sent = 0].hint = call[d].hint
            /\ [call[d] EXCEPT !.answer = answer, !.sent = 0].items = call[d].items
            /\ [call[d] EXCEPT !.answer = answer, !.sent = 0].answer = answer
            /\ [call[d] EXCEPT !.answer = answer, !.sent = 0].sent = 0
        BY <2>1 DEF CallType
      <4> QED BY <3>3, <4>1, Zenon
    <3> QED BY <2>1, <3>4
  <2>4. CASE answer # "unhandled"
    <3>1. call'[d] = [call[d] EXCEPT !.answer = answer, !.sent = call[d].sent]
      BY <1>2, <2>4
    <3>2. call[d].sent <= 1 /\ call[d].sent \in Nat
      BY <2>1
    <3>3. PICK n \in Nat : n = call[d].sent
      BY <3>2
    <3>4. call'[d] = [call[d] EXCEPT !.answer = answer, !.sent = n]
      BY <3>1, <3>3
    <3>5. /\ call'[d] \in CallType /\ call'[d].pc = call[d].pc /\ call'[d].hint = call[d].hint
          /\ call'[d].items = call[d].items /\ call'[d].answer = answer /\ call'[d].sent = n
      BY <2>2, <3>4
    <3> QED BY <2>1, <2>4, <3>2, <3>3, <3>5
  <2> QED BY <2>3, <2>4
<1>5. \A d \in Caller : call'[d] \in CallType /\ (d # c => call'[d].pc = call[d].pc /\ call'[d].items = call[d].items)
  BY <1>2, <1>3, <1>4 DEF FramesPlaced, CallsTyped
<1> HIDE DEF items
<1>6. CallsTyped'
  BY <1>2, <1>5 DEF FramesPlaced, CallsTyped
<1>7. PendingWaits'
  <2>1. \A h \in Hints : \A d \in partners[h] : d \in Caller /\ d \notin items
    BY DEF FramesPlaced, PendingWaits, CallsTyped, items
  <2>2. \A l \in Caller : call'[l].items \subseteq call[l].items
    BY <1>3, <1>5
  <2> SUFFICES ASSUME NEW h \in Hints, NEW d \in partners[h]
               PROVE  /\ call'[d].pc \in {"early", "late"} /\ call'[d].hint = h
                      /\ call'[d].answer = "open" /\ call'[d].sent = 0
                      /\ \A l \in Caller : d \notin call'[l].items
    BY DEF PendingWaits
  <2>3. call'[d] = call[d]
    BY <1>2, <2>1
  <2> QED BY <2>2, <2>3 DEF FramesPlaced, PendingWaits
<1>8. BatchesCarry'
  <2> SUFFICES ASSUME NEW l \in Caller
               PROVE  /\ ~Sends(l)' => call'[l].items = {}
                      /\ Sends(l)' => l \in call'[l].items
                                      /\ (kind = "grouped" => Cardinality(call'[l].items) \in {PairSize, FullSize})
                      /\ \A d \in call'[l].items : Carries(l, d)'
    BY DEF BatchesCarry
  <2>1. CASE l = c
    BY <1>3, <2>1 DEF Sends
  <2>2. CASE l # c
    <3>1. /\ ~Sends(l) => call[l].items = {}
          /\ Sends(l) => l \in call[l].items
                         /\ (kind = "grouped" => Cardinality(call[l].items) \in {PairSize, FullSize})
          /\ \A d \in call[l].items : Carries(l, d)
      BY DEF FramesPlaced, BatchesCarry
    <3>2. Sends(l)' <=> Sends(l)
      BY <1>5, <2>2 DEF Sends
    <3>3. call'[l].items = call[l].items
      BY <1>5, <2>2
    <3>4. \A d \in call[l].items : d \notin items /\ d \in Caller
      BY <1>1, <2>2 DEF FramesPlaced, CallsTyped, CallType
    <3>5. ASSUME NEW d \in call[l].items PROVE Carries(l, d)'
      <4>1. l \in call[l].items
        BY <3>1, <3>5
      <4>2. call'[d] = call[d] /\ call'[l] = call[l]
        BY <1>2, <3>4, <4>1
      <4> QED BY <3>1, <4>2 DEF Carries, Waits
    <3> QED BY <3>1, <3>2, <3>3, <3>5
  <2> QED BY <2>1, <2>2
<1>9. OneBatch'
  BY <1>3, <1>5 DEF FramesPlaced, OneBatch
<1>10. ASSUME NEW d \in Caller PROVE OwnWay(d)'
  <2>1. CASE d = c
    BY <1>3, <2>1 DEF OwnWay, Waits
  <2>2. CASE d # c /\ d \in items
    <3>1. call[d].hint \in Hints
      BY <1>4, <2>2 DEF FramesPlaced, OwnWay
    <3> QED BY <1>4, <2>2, <3>1 DEF OwnWay, Waits
  <2>3. CASE d \notin items
    <3>1. call'[d] = call[d] /\ OwnWay(d)
      BY <1>2, <2>3 DEF FramesPlaced
    <3>2. \A l \in Caller : d \in call[l].items => d \in call'[l].items
      BY <1>5, <2>3 DEF items
    <3> QED BY <3>1, <3>2 DEF OwnWay, Waits
  <2> QED BY <2>1, <2>2, <2>3
<1> QED BY <1>3, <1>5, <1>6, <1>7, <1>8, <1>9, <1>10 DEF FramesPlaced

(* The frames of a batch enter its request.                                *)
LEMMA BatchAdmitted ==
    ASSUME FramesPlaced, NEW c \in Caller, call[c].pc = "leading", Batch!Acquire(c)
    PROVE  FramesPlaced' /\ call'[c].pc = "sending" /\ \A d \in Caller : d # c => call'[d].pc = call[d].pc
<1> DEFINE items == call[c].items
<1>1. /\ c \in items /\ items \subseteq Caller
      /\ kind = "grouped" => Cardinality(items) \in {PairSize, FullSize}
      /\ \A d \in items : Carries(c, d) /\ call[d].sent = 0
      /\ \A l \in Caller : l # c => \A d \in call[l].items : d \notin items
  BY DEF FramesPlaced, BatchesCarry, OneBatch, CallsTyped, CallType, Sends, Carries
<1>2. /\ call' = [d \in Caller |-> call'[d]]
      /\ call'[c] = [call[c] EXCEPT !.pc = "sending", !.sent = call[c].sent + 1]
      /\ \A d \in items : d # c => call'[d] = [call[d] EXCEPT !.sent = call[d].sent + 1]
      /\ \A d \in Caller : d \notin items => call'[d] = call[d]
      /\ partners' = partners /\ kind' = kind
  BY <1>1 DEF Batch!Acquire
<1>3. \A d \in Caller : call[d] \in CallType
  BY DEF FramesPlaced, CallsTyped
<1>4. /\ call'[c] \in CallType /\ call'[c].pc = "sending" /\ call'[c].sent = 1 /\ call'[c].items = items
      /\ call'[c].hint = call[c].hint /\ call'[c].answer = call[c].answer
  <2>1. call[c].sent = 0 /\ call[c].sent + 1 = 1
    BY <1>1
  <2>2. call'[c] = [call[c] EXCEPT !.pc = "sending", !.sent = 1]
    BY <1>2, <2>1
  <2>3. call[c] \in CallType
    BY <1>3
  <2>4. /\ [call[c] EXCEPT !.pc = "sending", !.sent = 1] \in CallType
        /\ [call[c] EXCEPT !.pc = "sending", !.sent = 1].pc = "sending"
        /\ [call[c] EXCEPT !.pc = "sending", !.sent = 1].sent = 1
        /\ [call[c] EXCEPT !.pc = "sending", !.sent = 1].items = call[c].items
        /\ [call[c] EXCEPT !.pc = "sending", !.sent = 1].hint = call[c].hint
        /\ [call[c] EXCEPT !.pc = "sending", !.sent = 1].answer = call[c].answer
    BY <2>3 DEF CallType, Place
  <2> QED BY <2>2, <2>4, Zenon
<1>5. \A d \in items : d # c =>
        /\ call'[d] \in CallType /\ call'[d].pc = call[d].pc /\ call'[d].hint = call[d].hint
        /\ call'[d].items = call[d].items /\ call'[d].answer = call[d].answer /\ call'[d].sent = 1
  <2> SUFFICES ASSUME NEW d \in items, d # c
               PROVE  /\ call'[d] \in CallType /\ call'[d].pc = call[d].pc /\ call'[d].hint = call[d].hint
                      /\ call'[d].items = call[d].items /\ call'[d].answer = call[d].answer /\ call'[d].sent = 1
    OBVIOUS
  <2>1. call'[d] = [call[d] EXCEPT !.sent = 1]
    BY <1>1, <1>2
  <2>2. call[d] \in CallType
    BY <1>1, <1>3
  <2> QED BY <2>1, <2>2 DEF CallType
<1>6. \A d \in Caller : /\ call'[d] \in CallType /\ call'[d].items = call[d].items
                        /\ call'[d].hint = call[d].hint /\ call'[d].answer = call[d].answer
                        /\ d # c => call'[d].pc = call[d].pc
  BY <1>2, <1>3, <1>4, <1>5
<1> HIDE DEF items
<1>7. CallsTyped'
  BY <1>2, <1>6 DEF FramesPlaced, CallsTyped
<1>8. PendingWaits'
  <2> SUFFICES ASSUME NEW h \in Hints, NEW d \in partners[h]
               PROVE  /\ call'[d].pc \in {"early", "late"} /\ call'[d].hint = h
                      /\ call'[d].answer = "open" /\ call'[d].sent = 0
                      /\ \A l \in Caller : d \notin call'[l].items
    BY <1>2 DEF PendingWaits
  <2>1. d \in Caller /\ d \notin items
    BY DEF FramesPlaced, PendingWaits, CallsTyped, items
  <2>2. call'[d] = call[d]
    BY <1>2, <2>1
  <2> QED BY <1>6, <2>2 DEF FramesPlaced, PendingWaits
<1>9. BatchesCarry'
  <2> SUFFICES ASSUME NEW l \in Caller
               PROVE  /\ ~Sends(l)' => call'[l].items = {}
                      /\ Sends(l)' => l \in call'[l].items
                                      /\ (kind = "grouped" => Cardinality(call'[l].items) \in {PairSize, FullSize})
                      /\ \A d \in call'[l].items : Carries(l, d)'
    BY <1>2 DEF BatchesCarry
  <2>1. CASE l = c
    <3>1. \A d \in items : Carries(l, d)'
      BY <1>1, <1>4, <1>5, <2>1 DEF Carries, Waits
    <3> QED BY <1>1, <1>4, <2>1, <3>1 DEF Sends
  <2>2. CASE l # c
    <3>1. /\ ~Sends(l) => call[l].items = {}
          /\ Sends(l) => l \in call[l].items
                         /\ (kind = "grouped" => Cardinality(call[l].items) \in {PairSize, FullSize})
          /\ \A d \in call[l].items : Carries(l, d)
      BY DEF FramesPlaced, BatchesCarry
    <3>2. Sends(l)' <=> Sends(l)
      BY <1>6, <2>2 DEF Sends
    <3>3. call'[l].items = call[l].items
      BY <1>6
    <3>4. \A d \in call[l].items : d \notin items /\ d \in Caller
      BY <1>1, <2>2 DEF FramesPlaced, CallsTyped, CallType
    <3>5. ASSUME NEW d \in call[l].items PROVE Carries(l, d)'
      <4>1. l \in call[l].items
        BY <3>1, <3>5
      <4>2. call'[d] = call[d] /\ call'[l] = call[l]
        BY <1>2, <3>4, <4>1
      <4> QED BY <3>1, <4>2 DEF Carries, Waits
    <3> QED BY <3>1, <3>2, <3>3, <3>5
  <2> QED BY <2>1, <2>2
<1>10. OneBatch'
  BY <1>6 DEF FramesPlaced, OneBatch
<1>11. ASSUME NEW d \in Caller PROVE OwnWay(d)'
  <2>1. CASE d = c
    BY <1>4, <2>1 DEF OwnWay, Waits
  <2>2. CASE d # c /\ d \in items
    <3>1. Carries(c, d) /\ OwnWay(d)
      BY <1>1, <2>2 DEF FramesPlaced
    <3>2. \E l \in Caller : d \in call'[l].items
      BY <1>6, <2>2 DEF items
    <3> QED BY <1>5, <2>2, <3>1, <3>2 DEF OwnWay, Waits, Carries
  <2>3. CASE d \notin items
    <3>1. call'[d] = call[d] /\ OwnWay(d)
      BY <1>2, <2>3 DEF FramesPlaced
    <3>2. \A l \in Caller : d \in call[l].items => d \in call'[l].items
      BY <1>6
    <3> QED BY <1>2, <3>1, <3>2 DEF OwnWay, Waits
  <2> QED BY <1>1, <2>1, <2>2, <2>3 DEF items
<1> QED BY <1>4, <1>6, <1>7, <1>8, <1>9, <1>10, <1>11 DEF FramesPlaced

(* A caller that neither waits nor sends a batch is in nobody's hands.     *)
LEMMA OnItsOwn ==
    ASSUME FramesPlaced, NEW c \in Caller, ~Sends(c), ~Waits(c) \/ call[c].answer # "open"
    PROVE  /\ call[c] \in CallType /\ call[c].items = {}
           /\ \A l \in Caller : c \notin call[l].items
           /\ \A h \in Hints : c \notin partners[h]
<1>1. call[c] \in CallType /\ call[c].items = {}
  BY DEF FramesPlaced, CallsTyped, BatchesCarry
<1>2. \A l \in Caller : c \notin call[l].items
  BY <1>1 DEF FramesPlaced, BatchesCarry, Carries
<1>3. \A h \in Hints : c \notin partners[h]
  BY DEF FramesPlaced, PendingWaits, Waits
<1> QED BY <1>1, <1>2, <1>3

(* The permits, when one caller moves.                                     *)
LEMMA PermitsCount ==
    ASSUME BatchConstants, Admitted, NEW c \in Caller, \A d \in Caller : d # c => call'[d].pc = call[d].pc,
           \/ c \in Busy /\ c \notin Busy' /\ permits' = permits + 1
           \/ c \notin Busy /\ c \in Busy' /\ permits > 0 /\ permits' = permits - 1
           \/ (c \in Busy <=> c \in Busy') /\ permits' = permits
    PROVE  Admitted'
<1>1. IsFiniteSet(Busy) /\ Cardinality(Busy) \in Nat
  <2>1. IsFiniteSet(Busy)
    BY FS_Subset DEF BatchConstants, Busy
  <2> QED BY <2>1, FS_CardinalityType
<1>2. \A d \in Caller : d # c => (d \in Busy <=> d \in Busy')
  BY DEF Busy
<1>3. Busy \subseteq Caller /\ Busy' \subseteq Caller
  BY DEF Busy
<1>4. CASE c \in Busy /\ c \notin Busy' /\ permits' = permits + 1
  <2>1. Busy' = Busy \ {c}
    BY <1>2, <1>3, <1>4
  <2>2. Cardinality(Busy') = Cardinality(Busy) - 1
    BY <1>1, <1>4, <2>1, FS_RemoveElement
  <2> QED BY <1>1, <1>4, <2>2 DEF Admitted
<1>5. CASE c \notin Busy /\ c \in Busy' /\ permits > 0 /\ permits' = permits - 1
  <2>1. Busy' = Busy \cup {c}
    BY <1>2, <1>3, <1>5
  <2>2. Cardinality(Busy') = Cardinality(Busy) + 1
    BY <1>1, <1>5, <2>1, FS_AddElement
  <2> QED BY <1>1, <1>5, <2>2 DEF Admitted
<1>6. CASE (c \in Busy <=> c \in Busy') /\ permits' = permits
  <2>1. Busy' = Busy
    BY <1>2, <1>3, <1>6
  <2> QED BY <1>6, <2>1 DEF Admitted
<1> QED BY <1>4, <1>5, <1>6

(* The counters, when a frame starts to wait and when frames leave.        *)
LEMMA WaitingFinite ==
    ASSUME BatchConstants, FramesPlaced
    PROVE  /\ Waiting \subseteq Caller /\ IsFiniteSet(Waiting) /\ Cardinality(Waiting) \in Nat
           /\ \A h \in Hints : IsFiniteSet(partners[h]) /\ Cardinality(partners[h]) \in Nat
<1>1. Waiting \subseteq Caller /\ \A h \in Hints : partners[h] \subseteq Caller
  BY DEF FramesPlaced, CallsTyped, Waiting
<1>2. IsFiniteSet(Waiting) /\ \A h \in Hints : IsFiniteSet(partners[h])
  BY <1>1, FS_Subset DEF BatchConstants
<1> QED BY <1>1, <1>2, FS_CardinalityType

LEMMA BalanceGrows ==
    ASSUME BatchConstants, FramesPlaced, Balanced, NEW c \in Caller, NEW h \in Hints,
           \A g \in Hints : c \notin partners[g],
           partners' = [partners EXCEPT ![h] = partners[h] \cup {c}], balance' = balance + 1
    PROVE  Balanced'
<1>1. Waiting' = Waiting \cup {c}
  BY DEF FramesPlaced, CallsTyped, Waiting
<1>2. c \notin Waiting
  BY DEF Waiting
<1> QED BY <1>1, <1>2, WaitingFinite, FS_AddElement DEF Balanced

LEMMA BalanceFalls ==
    ASSUME BatchConstants, FramesPlaced, Balanced, NEW h \in Hints, NEW gone \in SUBSET partners[h],
           partners' = [partners EXCEPT ![h] = partners[h] \ gone], balance' = balance - Cardinality(gone)
    PROVE  Balanced'
<1>1. \A g \in Hints : g # h => \A d \in gone : d \notin partners[g]
  BY DEF FramesPlaced, PendingWaits
<1>2. partners'[h] = partners[h] \ gone /\ \A g \in Hints : g # h => partners'[g] = partners[g]
  BY DEF FramesPlaced, CallsTyped
<1>3. Waiting' = Waiting \ gone /\ gone \subseteq Waiting
  BY <1>1, <1>2 DEF Waiting
<1>4. Waiting \cap gone = gone
  BY <1>3
<1> QED BY <1>3, <1>4, WaitingFinite, FS_Difference DEF Balanced

(* A caller between two frames.                                            *)
LEMMA RestsTyped ==
    /\ Batch!Resting \in CallType /\ Batch!Resting.pc = "idle" /\ Batch!Resting.items = {}
    /\ Batch!Resting.sent = 0 /\ Batch!Resting.answer = "open"
BY DEF Batch!Resting, CallType, Place, Hints

LEMMA BypassHolds ==
    ASSUME BatchConstants, BatchInv, NEW c \in Caller, NEW h \in Hint, Batch!Bypass(c, h) PROVE BatchInv'
<1>1. h \in Hints \cup {"single"} /\ kind \in {"grouped", "phone"} /\ FramesPlaced /\ CallsTyped
  BY DEF BatchConstants, BatchInv, FramesPlaced, CallsTyped, Hints
<1>2. kind' = kind /\ call[c].pc = "idle" /\ partners' = partners /\ permits' = permits /\ balance' = balance
  BY DEF Batch!Bypass
<1>3. /\ ~Sends(c) /\ call[c].items = {}
      /\ \A l \in Caller : c \notin call[l].items
      /\ \A g \in Hints : c \notin partners[g]
  BY <1>1, <1>2, OnItsOwn DEF Sends, Waits
<1>4. CASE kind = "phone"
  <2> DEFINE x == [Batch!Resting EXCEPT !.pc = "leading", !.hint = h, !.items = {c}]
  <2>1. x \in CallType /\ x.pc = "leading" /\ x.hint = h /\ x.items = {c} /\ x.sent = 0
    BY <1>1, RestsTyped DEF CallType, Place
  <2>2. call' = [call EXCEPT ![c] = x]
    BY <1>4 DEF Batch!Bypass
  <2> HIDE DEF x
  <2>3. FramesPlaced'
    <3>1. /\ partners' \in [Hints -> SUBSET Caller]
          /\ \A g \in Hints : partners'[g] = partners[g] \ x.items
      BY <1>1, <1>2, <1>3, <2>1 DEF CallsTyped
    <3>2. /\ c \in x.items /\ (kind = "grouped" => Cardinality(x.items) \in {PairSize, FullSize})
          /\ \A d \in x.items : d # c => x.hint \in Hints /\ d \in partners[x.hint]
      BY <1>4, <2>1
    <3> QED BY <1>1, <1>2, <1>3, <2>1, <2>2, <3>1, <3>2, BatchFormed
  <2>4. call'[c] = x /\ \A d \in Caller : d # c => call'[d] = call[d]
    BY <1>1, <2>2 DEF CallsTyped
  <2>5. Admitted'
    BY <1>2, <2>1, <2>4, PermitsCount DEF BatchInv, Busy
  <2> QED BY <1>2, <2>3, <2>5 DEF BatchInv, Balanced, Waiting
<1>5. CASE kind = "grouped"
  <2> DEFINE x == [Batch!Resting EXCEPT !.pc = "alone", !.hint = h]
  <2>1. x \in CallType /\ x.pc = "alone" /\ x.hint = h /\ x.items = {} /\ x.sent = 0
    BY <1>1, RestsTyped DEF CallType, Place
  <2>2. call' = [call EXCEPT ![c] = x]
    BY <1>5 DEF Batch!Bypass
  <2> HIDE DEF x
  <2>3. FramesPlaced'
    <3>1. /\ partners' \in [Hints -> SUBSET Caller]
          /\ \A g \in Hints : partners'[g] \subseteq partners[g] \cup {c} /\ partners[g] \subseteq partners'[g] \cup {c}
          /\ \A g \in Hints : c \notin partners'[g]
      BY <1>1, <1>2, <1>3 DEF CallsTyped
    <3>2. x.pc \notin {"leading", "sending"} /\ x.pc \notin {"early", "late", "taken"} /\ x.sent <= 1
      BY <2>1
    <3> QED BY <1>1, <1>2, <1>3, <2>1, <2>2, <3>1, <3>2, OneCallerMoves
  <2>4. call'[c] = x /\ \A d \in Caller : d # c => call'[d] = call[d]
    BY <1>1, <2>2 DEF CallsTyped
  <2>5. Admitted'
    BY <1>2, <2>1, <2>4, PermitsCount DEF BatchInv, Busy
  <2> QED BY <1>2, <2>3, <2>5 DEF BatchInv, Balanced, Waiting
<1> QED BY <1>1, <1>4, <1>5

LEMMA CompleteHolds ==
    ASSUME BatchConstants, BatchInv, NEW c \in Caller, NEW h \in Hint, Batch!Complete(c, h) PROVE BatchInv'
<1> DEFINE items == partners[h] \cup {c}
<1> DEFINE x == [Batch!Resting EXCEPT !.pc = "leading", !.hint = h, !.items = items]
<1>1. h \in Hints /\ FramesPlaced /\ CallsTyped /\ Balanced /\ PairSize \in Nat /\ FullSize \in Nat
  BY DEF BatchConstants, BatchInv, FramesPlaced, Hints, Batch!Complete
<1>2. /\ kind' = kind /\ call[c].pc = "idle" /\ permits' = permits /\ balance' = balance + 1 - Batch!TargetSize(h)
      /\ Cardinality(items) = Batch!TargetSize(h)
      /\ call' = [call EXCEPT ![c] = x] /\ partners' = [partners EXCEPT ![h] = {}]
  BY BatchCounts DEF Batch!Complete
<1>3. /\ ~Sends(c) /\ call[c].items = {}
      /\ \A l \in Caller : c \notin call[l].items
      /\ \A g \in Hints : c \notin partners[g]
  BY <1>1, <1>2, OnItsOwn DEF Sends, Waits
<1>4. items \subseteq Caller /\ IsFiniteSet(partners[h]) /\ Cardinality(partners[h]) \in Nat
  BY <1>1, WaitingFinite DEF CallsTyped
<1>5. x \in CallType /\ x.pc = "leading" /\ x.hint = h /\ x.items = items /\ x.sent = 0
  BY <1>1, <1>4, RestsTyped DEF CallType, Place
<1>6. Cardinality(items) \in {PairSize, FullSize}
  BY <1>2 DEF Batch!TargetSize
<1>7. /\ partners' \in [Hints -> SUBSET Caller] /\ partners'[h] = {}
      /\ \A g \in Hints : g # h => partners'[g] = partners[g]
      /\ call'[c] = x /\ \A d \in Caller : d # c => call'[d] = call[d]
  BY <1>1, <1>2 DEF CallsTyped
<1>8. \A g \in Hints : partners'[g] = partners[g] \ items
  <2>1. \A g \in Hints : g # h => \A d \in partners[g] : d \notin items
    BY <1>1, <1>3 DEF FramesPlaced, PendingWaits
  <2> QED BY <1>7, <2>1
<1>9. FramesPlaced'
  <2> HIDE DEF items, x
  <2>1. \A d \in items : d # c => h \in Hints /\ d \in partners[h]
    BY <1>1 DEF items
  <2>2. c \in items
    BY DEF items
  <2> QED BY <1>1, <1>2, <1>3, <1>4, <1>5, <1>6, <1>7, <1>8, <2>1, <2>2, BatchFormed
<1>10. Cardinality(items) = Cardinality(partners[h]) + 1
  BY <1>1, <1>3, <1>4, FS_AddElement
<1>11. Balanced'
  <2>1. balance' = balance - Cardinality(partners[h])
    <3>1. balance \in Nat
      BY <1>1, WaitingFinite DEF Balanced
    <3> QED BY <1>2, <1>4, <1>10, <3>1
  <2>2. partners' = [partners EXCEPT ![h] = partners[h] \ partners[h]]
    BY <1>2
  <2> QED BY <1>1, <2>1, <2>2, BalanceFalls
<1>12. Admitted'
  BY <1>2, <1>5, <1>7, PermitsCount DEF BatchInv, Busy
<1> QED BY <1>9, <1>11, <1>12 DEF BatchInv

LEMMA WaitHolds ==
    ASSUME BatchConstants, BatchInv, NEW c \in Caller, NEW h \in Hint, Batch!Wait(c, h) PROVE BatchInv'
<1> DEFINE to == IF kind = "grouped" /\ Batch!TargetSize(h) = FullSize THEN "early" ELSE "late"
<1> DEFINE x == [Batch!Resting EXCEPT !.pc = to, !.hint = h]
<1>1. h \in Hints /\ FramesPlaced /\ CallsTyped /\ Balanced
  BY DEF BatchConstants, BatchInv, FramesPlaced, Hints, Batch!Wait
<1>2. /\ kind' = kind /\ call[c].pc = "idle" /\ permits' = permits /\ balance' = balance + 1
      /\ call' = [call EXCEPT ![c] = x] /\ partners' = [partners EXCEPT ![h] = partners[h] \cup {c}]
  BY DEF Batch!Wait
<1>3. /\ ~Sends(c) /\ call[c].items = {}
      /\ \A l \in Caller : c \notin call[l].items
      /\ \A g \in Hints : c \notin partners[g]
  BY <1>1, <1>2, OnItsOwn DEF Sends, Waits
<1>4. to \in {"early", "late"} /\ to \in Place
  BY DEF Place
<1>5. x \in CallType /\ x.pc = to /\ x.hint = h /\ x.items = {} /\ x.sent = 0 /\ x.answer = "open"
  BY <1>1, <1>4, RestsTyped DEF CallType
<1> HIDE DEF to, x
<1>6. /\ partners' \in [Hints -> SUBSET Caller] /\ partners'[h] = partners[h] \cup {c}
      /\ \A g \in Hints : g # h => partners'[g] = partners[g]
      /\ call'[c] = x /\ \A d \in Caller : d # c => call'[d] = call[d]
  BY <1>1, <1>2 DEF CallsTyped
<1>7. FramesPlaced'
  <2>1. \A g \in Hints : partners'[g] \subseteq partners[g] \cup {c} /\ partners[g] \subseteq partners'[g] \cup {c}
    BY <1>6
  <2>2. \A g \in Hints : c \in partners'[g] => g = h
    BY <1>3, <1>6
  <2>3. /\ \A g \in Hints : c \in partners'[g] => x.pc \in {"early", "late"} /\ x.hint = g /\ x.answer = "open" /\ x.sent = 0
        /\ c \in partners'[x.hint] /\ x.hint \in Hints
        /\ x.pc \notin {"leading", "sending"} /\ x.pc \notin {"idle", "alone"} /\ x.sent <= 1
    BY <1>1, <1>4, <1>5, <1>6, <2>2
  <2> QED BY <1>1, <1>2, <1>3, <1>5, <1>6, <2>1, <2>3, OneCallerMoves
<1>8. Balanced'
  BY <1>1, <1>2, <1>3, BalanceGrows
<1>9. Admitted'
  BY <1>2, <1>4, <1>5, <1>6, PermitsCount DEF BatchInv, Busy
<1> QED BY <1>7, <1>8, <1>9 DEF BatchInv

(* A caller goes on waiting, its frame where it was.                       *)
LEMMA StillWaits ==
    ASSUME FramesPlaced, NEW c \in Caller, NEW x \in CallType, kind' = kind, call' = [call EXCEPT ![c] = x], partners' = partners,
           Waits(c), call[c].answer = "open", call[c].items = {},
           x.pc \in {"late", "taken"}, x.hint = call[c].hint, x.items = {},
           x.sent = call[c].sent, x.answer = "open",
           x.pc = "taken" => \A h \in Hints : c \notin partners[h]
    PROVE  FramesPlaced'
<1>1. /\ OwnWay(c) /\ ~Sends(c) /\ x.hint \in Hints /\ x.sent <= 1
      /\ c \in partners[x.hint] \/ \E l \in Caller : c \in call[l].items
  BY DEF FramesPlaced, OwnWay, Waits, Sends
<1>2. \A h \in Hints : c \in partners[h] =>
         /\ x.pc \in {"early", "late"} /\ x.hint = h /\ x.answer = "open" /\ x.sent = 0
         /\ \A l \in Caller : c \notin call[l].items
  BY DEF FramesPlaced, PendingWaits
<1>3. /\ partners' \in [Hints -> SUBSET Caller]
      /\ \A h \in Hints : partners'[h] \subseteq partners[h] \cup {c} /\ partners[h] \subseteq partners'[h] \cup {c}
  BY DEF FramesPlaced, CallsTyped
<1>4. x.pc \in {"early", "late", "taken"} /\ x.pc \notin {"leading", "sending"} /\ x.pc \notin {"idle", "alone"}
  OBVIOUS
<1> QED BY <1>1, <1>2, <1>3, <1>4, OneCallerMoves

LEMMA EarlyFlushHolds ==
    ASSUME BatchConstants, BatchInv, NEW c \in Caller, Batch!EarlyFlush(c) PROVE BatchInv'
<1> PICK h : h = call[c].hint
  OBVIOUS
<1>1. FramesPlaced /\ CallsTyped /\ Balanced /\ call[c] \in CallType /\ OwnWay(c) /\ BatchesCarry
  BY DEF BatchInv, FramesPlaced, CallsTyped
<1>2. /\ kind' = kind /\ call[c].pc = "early" /\ call[c].answer = "open" /\ permits' = permits
      /\ ~Sends(c) /\ Waits(c) /\ h \in Hints /\ call[c].items = {} /\ call[c].sent <= 1
  BY <1>1 DEF Batch!EarlyFlush, Sends, Waits, OwnWay, BatchesCarry
<1>3. CASE Batch!MayRun(PairSize) /\ Batch!Claimable(c, h)
  <2> DEFINE x == [call[c] EXCEPT !.pc = "leading", !.items = partners[h]]
  <2>1. /\ c \in partners[h] /\ Cardinality(partners[h]) = PairSize
        /\ call' = [call EXCEPT ![c] = x] /\ partners' = [partners EXCEPT ![h] = {}] /\ balance' = balance - PairSize
    BY <1>1, <1>3, BatchCounts DEF Batch!EarlyFlush, Batch!Claimable, CallsTyped
  <2>2. partners[h] \subseteq Caller /\ call[c].sent = 0 /\ \A l \in Caller : c \notin call[l].items
    BY <1>1, <1>2, <2>1 DEF CallsTyped, FramesPlaced, PendingWaits
  <2>3. x \in CallType /\ x.pc = "leading" /\ x.hint = h /\ x.items = partners[h] /\ x.sent = 0
    BY <1>1, <2>2 DEF CallType, Place
  <2> HIDE DEF x
  <2>4. /\ partners' \in [Hints -> SUBSET Caller] /\ partners'[h] = {}
        /\ \A g \in Hints : g # h => partners'[g] = partners[g]
        /\ call'[c] = x /\ \A d \in Caller : d # c => call'[d] = call[d]
    BY <1>1, <1>2, <2>1 DEF CallsTyped
  <2>5. \A g \in Hints : partners'[g] = partners[g] \ x.items
    <3>1. \A g \in Hints : g # h => \A d \in partners[g] : d \notin partners[h]
      BY <1>1, <1>2 DEF FramesPlaced, PendingWaits
    <3> QED BY <2>3, <2>4, <3>1
  <2>6. /\ c \in x.items /\ (kind = "grouped" => Cardinality(x.items) \in {PairSize, FullSize})
        /\ \A d \in x.items : d # c => x.hint \in Hints /\ d \in partners[x.hint]
    BY <1>2, <2>1, <2>3
  <2>7. FramesPlaced'
    BY <1>1, <1>2, <2>1, <2>2, <2>3, <2>4, <2>5, <2>6, BatchFormed
  <2>8. Balanced'
    <3>1. partners' = [partners EXCEPT ![h] = partners[h] \ partners[h]] /\ balance' = balance - Cardinality(partners[h])
      BY <2>1
    <3> QED BY <1>1, <1>2, <3>1, BalanceFalls
  <2>9. Admitted'
    BY <1>2, <2>3, <2>4, PermitsCount DEF BatchInv, Busy
  <2> QED BY <2>7, <2>8, <2>9 DEF BatchInv
<1>4. CASE ~(Batch!MayRun(PairSize) /\ Batch!Claimable(c, h))
  <2> DEFINE x == [call[c] EXCEPT !.pc = "late"]
  <2>1. call' = [call EXCEPT ![c] = x] /\ partners' = partners /\ balance' = balance
    BY <1>1, <1>4 DEF Batch!EarlyFlush, Batch!Goto, CallsTyped
  <2>2. /\ x \in CallType /\ x.pc = "late" /\ x.hint = h /\ x.items = {}
        /\ x.sent = call[c].sent /\ x.answer = "open"
    BY <1>1, <1>2 DEF CallType, Place
  <2> HIDE DEF x
  <2>3. FramesPlaced'
    BY <1>1, <1>2, <2>1, <2>2, StillWaits
  <2>4. call'[c] = x /\ \A d \in Caller : d # c => call'[d] = call[d]
    BY <1>1, <2>1 DEF CallsTyped
  <2>5. Admitted'
    BY <1>2, <2>2, <2>4, PermitsCount DEF BatchInv, Busy
  <2> QED BY <1>1, <2>1, <2>3, <2>5 DEF BatchInv, Balanced, Waiting
<1> QED BY <1>3, <1>4

LEMMA TimeOutHolds ==
    ASSUME BatchConstants, BatchInv, NEW c \in Caller, Batch!TimeOut(c) PROVE BatchInv'
<1> PICK h : h = call[c].hint
  OBVIOUS
<1>1. FramesPlaced /\ CallsTyped /\ Balanced /\ call[c] \in CallType /\ OwnWay(c) /\ BatchesCarry
  BY DEF BatchInv, FramesPlaced, CallsTyped
<1>2. /\ kind' = kind /\ call[c].pc = "late" /\ call[c].answer = "open" /\ permits' = permits /\ balance' = balance - 1
      /\ ~Sends(c) /\ Waits(c) /\ h \in Hints /\ call[c].items = {} /\ c \in partners[h]
      /\ partners' = [partners EXCEPT ![h] = partners[h] \ {c}]
  BY <1>1 DEF Batch!TimeOut, Batch!Withdraw, Sends, Waits, OwnWay, BatchesCarry
<1>3. call[c].sent = 0 /\ \A l \in Caller : c \notin call[l].items
  BY <1>1, <1>2 DEF FramesPlaced, PendingWaits
<1>4. \A g \in Hints : g # h => c \notin partners[g]
  BY <1>1, <1>2 DEF FramesPlaced, PendingWaits
<1>5. /\ partners' \in [Hints -> SUBSET Caller] /\ partners'[h] = partners[h] \ {c}
      /\ \A g \in Hints : g # h => partners'[g] = partners[g]
  BY <1>1, <1>2 DEF CallsTyped
<1>6. Balanced'
  <2>1. Cardinality({c}) = 1
    BY FS_Singleton
  <2>2. balance' = balance - Cardinality({c})
    BY <1>2, <2>1
  <2>3. PICK gone \in SUBSET partners[h] : gone = {c}
    BY <1>2
  <2>4. h \in Hints /\ partners' = [partners EXCEPT ![h] = partners[h] \ gone] /\ balance' = balance - Cardinality(gone)
    BY <1>2, <2>2, <2>3
  <2> QED BY <1>1, <2>4, BalanceFalls
<1>7. CASE kind = "phone"
  <2> DEFINE x == [call[c] EXCEPT !.pc = "leading", !.items = {c}]
  <2>1. call' = [call EXCEPT ![c] = x]
    BY <1>1, <1>7 DEF Batch!TimeOut, CallsTyped
  <2>2. x \in CallType /\ x.pc = "leading" /\ x.hint = h /\ x.items = {c} /\ x.sent = 0
    BY <1>1, <1>3 DEF CallType, Place
  <2> HIDE DEF x
  <2>3. FramesPlaced'
    <3>1. \A g \in Hints : partners'[g] = partners[g] \ x.items
      BY <1>4, <1>5, <2>2
    <3>2. /\ c \in x.items /\ (kind = "grouped" => Cardinality(x.items) \in {PairSize, FullSize})
          /\ \A d \in x.items : d # c => x.hint \in Hints /\ d \in partners[x.hint]
      BY <1>7, <2>2
    <3> QED BY <1>1, <1>2, <1>3, <1>5, <2>1, <2>2, <3>1, <3>2, BatchFormed
  <2>4. call'[c] = x /\ \A d \in Caller : d # c => call'[d] = call[d]
    BY <1>1, <2>1 DEF CallsTyped
  <2>5. Admitted'
    BY <1>2, <2>2, <2>4, PermitsCount DEF BatchInv, Busy
  <2> QED BY <1>6, <2>3, <2>5 DEF BatchInv
<1>8. CASE kind # "phone"
  <2> DEFINE x == [call[c] EXCEPT !.pc = "alone"]
  <2>1. call' = [call EXCEPT ![c] = x]
    BY <1>1, <1>8 DEF Batch!TimeOut, CallsTyped
  <2>2. x \in CallType /\ x.pc = "alone" /\ x.hint = h /\ x.items = {} /\ x.sent = 0
    BY <1>1, <1>2, <1>3 DEF CallType, Place
  <2> HIDE DEF x
  <2>3. FramesPlaced'
    <3>1. /\ \A g \in Hints : partners'[g] \subseteq partners[g] \cup {c} /\ partners[g] \subseteq partners'[g] \cup {c}
          /\ \A g \in Hints : c \notin partners'[g]
      BY <1>4, <1>5
    <3>2. x.pc \notin {"leading", "sending"} /\ x.pc \notin {"early", "late", "taken"} /\ x.sent <= 1
      BY <2>2
    <3> QED BY <1>1, <1>2, <1>3, <1>5, <2>1, <2>2, <3>1, <3>2, OneCallerMoves
  <2>4. call'[c] = x /\ \A d \in Caller : d # c => call'[d] = call[d]
    BY <1>1, <2>1 DEF CallsTyped
  <2>5. Admitted'
    BY <1>2, <2>2, <2>4, PermitsCount DEF BatchInv, Busy
  <2> QED BY <1>6, <2>3, <2>5 DEF BatchInv
<1> QED BY <1>7, <1>8

LEMMA TimeOutTakenHolds ==
    ASSUME BatchConstants, BatchInv, NEW c \in Caller, Batch!TimeOutTaken(c) PROVE BatchInv'
<1> DEFINE x == [call[c] EXCEPT !.pc = "taken"]
<1>1. FramesPlaced /\ CallsTyped /\ Balanced /\ call[c] \in CallType /\ OwnWay(c) /\ BatchesCarry
  BY DEF BatchInv, FramesPlaced, CallsTyped
<1>2. /\ kind' = kind /\ call[c].pc = "late" /\ call[c].answer = "open" /\ permits' = permits /\ balance' = balance
      /\ ~Sends(c) /\ Waits(c) /\ call[c].items = {} /\ c \notin partners[call[c].hint]
      /\ partners' = partners /\ call' = [call EXCEPT ![c] = x]
  BY <1>1 DEF Batch!TimeOutTaken, Batch!Goto, Sends, Waits, BatchesCarry, CallsTyped
<1>3. \A h \in Hints : c \notin partners[h]
  BY <1>1, <1>2 DEF FramesPlaced, PendingWaits
<1>4. /\ x \in CallType /\ x.pc = "taken" /\ x.hint = call[c].hint /\ x.items = {}
      /\ x.sent = call[c].sent /\ x.answer = "open"
  BY <1>1, <1>2 DEF CallType, Place
<1> HIDE DEF x
<1>5. FramesPlaced'
  BY <1>1, <1>2, <1>3, <1>4, StillWaits
<1>6. call'[c] = x /\ \A d \in Caller : d # c => call'[d] = call[d]
  BY <1>1, <1>2 DEF CallsTyped
<1>7. Admitted'
  BY <1>2, <1>4, <1>6, PermitsCount DEF BatchInv, Busy
<1> QED BY <1>1, <1>2, <1>5, <1>7 DEF BatchInv, Balanced, Waiting

(* A caller on its own way takes its next step.                            *)
LEMMA AloneGoesOn ==
    ASSUME FramesPlaced, NEW c \in Caller, NEW x \in CallType, kind' = kind, call' = [call EXCEPT ![c] = x], partners' = partners,
           ~Sends(c), ~Waits(c) \/ call[c].answer # "open",
           x.pc \in {"idle", "alone", "single"}, x.items = {}, x.sent <= 1, x.pc # "single" => x.sent = 0
    PROVE  FramesPlaced'
<1>1. /\ \A l \in Caller : c \notin call[l].items
      /\ \A h \in Hints : c \notin partners[h]
  BY OnItsOwn
<1>2. /\ partners' \in [Hints -> SUBSET Caller]
      /\ \A h \in Hints : partners'[h] \subseteq partners[h] \cup {c} /\ partners[h] \subseteq partners'[h] \cup {c}
      /\ \A h \in Hints : c \notin partners'[h]
  BY <1>1 DEF FramesPlaced, CallsTyped
<1>3. /\ x.pc \notin {"leading", "sending"} /\ x.pc \notin {"early", "late", "taken"}
      /\ x.pc \in {"idle", "alone"} => x.sent = 0
  OBVIOUS
<1> QED BY <1>1, <1>2, <1>3, OneCallerMoves

LEMMA AcquireHolds ==
    ASSUME BatchConstants, BatchInv, NEW c \in Caller, Batch!Acquire(c) PROVE BatchInv'
<1>1. FramesPlaced /\ CallsTyped /\ Balanced /\ call[c] \in CallType /\ OwnWay(c)
  BY DEF BatchInv, FramesPlaced, CallsTyped
<1>2. kind' = kind /\ permits > 0 /\ permits' = permits - 1 /\ partners' = partners /\ balance' = balance
  BY DEF Batch!Acquire
<1>3. FramesPlaced' /\ call'[c].pc \in {"sending", "single"} /\ \A d \in Caller : d # c => call'[d].pc = call[d].pc
  <2>1. CASE call[c].pc = "leading"
    BY <1>1, <2>1, BatchAdmitted
  <2>2. CASE call[c].pc = "alone"
    <3> DEFINE x == [call[c] EXCEPT !.pc = "single", !.sent = 1]
    <3>1. /\ ~Sends(c) /\ ~Waits(c) /\ call[c].items = {} /\ call[c].sent + 1 = 1
      BY <1>1, <2>2, OnItsOwn DEF Sends, Waits, OwnWay
    <3>2. call' = [call EXCEPT ![c] = x]
      <4>1. call' = [d \in Caller |-> IF d = c THEN x ELSE call[d]]
        BY <2>2, <3>1 DEF Batch!Acquire
      <4> QED BY <1>1, <4>1 DEF CallsTyped
    <3>3. x \in CallType /\ x.pc = "single" /\ x.items = {} /\ x.sent = 1
      BY <1>1, <3>1 DEF CallType, Place
    <3> HIDE DEF x
    <3>4. FramesPlaced'
      <4>1. x.sent <= 1 /\ x.pc \in {"idle", "alone", "single"}
        BY <3>3
      <4> QED BY <1>1, <1>2, <3>1, <3>2, <3>3, <4>1, AloneGoesOn
    <3>5. call'[c] = x /\ \A d \in Caller : d # c => call'[d] = call[d]
      BY <1>1, <3>2 DEF CallsTyped
    <3> QED BY <3>3, <3>4, <3>5
  <2> QED BY <2>1, <2>2 DEF Batch!Acquire
<1>4. Admitted'
  <2>1. c \notin Busy /\ c \in Busy'
    BY <1>3 DEF Busy, Batch!Acquire
  <2> QED BY <1>2, <1>3, <2>1, PermitsCount DEF BatchInv
<1> QED BY <1>1, <1>2, <1>3, <1>4 DEF BatchInv, Balanced, Waiting

LEMMA OverloadHolds ==
    ASSUME BatchConstants, BatchInv, NEW c \in Caller, Batch!Overload(c) PROVE BatchInv'
<1>1. FramesPlaced /\ CallsTyped /\ Balanced
  BY DEF BatchInv, FramesPlaced
<1>2. kind' = kind /\ permits' = permits /\ partners' = partners /\ balance' = balance /\ call[c].pc \in {"leading", "alone"}
  BY DEF Batch!Overload
<1>3. /\ FramesPlaced' /\ call'[c].pc \in {"idle", "alone"}
      /\ \A d \in Caller : d # c => call'[d].pc = call[d].pc
  <2>1. CASE call[c].pc = "leading"
    <3>1. Sends(c) /\ call' = Batch!Answered(c, "error") /\ "error" \in {"handled", "unhandled", "error"}
      BY <2>1 DEF Sends, Batch!Overload
    <3>2. "error" = "unhandled" => call[c].pc = "sending"
      OBVIOUS
    <3> QED BY <1>1, <1>2, <3>1, <3>2, AnswerArrives
  <2>2. CASE call[c].pc = "alone"
    <3>1. call' = [call EXCEPT ![c] = Batch!Resting] /\ ~Sends(c) /\ ~Waits(c)
      BY <2>2 DEF Batch!Overload, Sends, Waits
    <3>2. FramesPlaced'
      <4>1. Batch!Resting.sent <= 1 /\ Batch!Resting.pc \in {"idle", "alone", "single"}
        BY RestsTyped
      <4> QED BY <1>1, <1>2, <3>1, <4>1, RestsTyped, AloneGoesOn
    <3>3. call'[c] = Batch!Resting /\ \A d \in Caller : d # c => call'[d] = call[d]
      BY <1>1, <3>1 DEF CallsTyped
    <3> QED BY <3>2, <3>3, RestsTyped
  <2> QED BY <1>2, <2>1, <2>2
<1>4. Admitted'
  <2>1. c \notin Busy /\ c \notin Busy'
    BY <1>2, <1>3 DEF Busy
  <2> QED BY <1>2, <1>3, <2>1, PermitsCount DEF BatchInv
<1> QED BY <1>1, <1>2, <1>3, <1>4 DEF BatchInv, Balanced, Waiting

(* A request of a batch ends.                                              *)
LEMMA ReplyHolds ==
    ASSUME BatchConstants, BatchInv, NEW c \in Caller, kind' = kind, Batch!Replies(c),
           NEW answer \in {"handled", "unhandled", "error"}, call' = Batch!Answered(c, answer)
    PROVE  BatchInv'
<1>1. FramesPlaced /\ Balanced /\ Sends(c) /\ call[c].pc = "sending"
      /\ kind' = kind /\ permits' = permits + 1 /\ partners' = partners /\ balance' = balance
  BY DEF BatchInv, Batch!Replies, Sends
<1>2. FramesPlaced' /\ \A d \in Caller : (d # c => call'[d].pc = call[d].pc) /\ call'[c].pc \in {"alone", "idle"}
  BY <1>1, AnswerArrives
<1>3. c \in Busy /\ c \notin Busy'
  BY <1>1, <1>2 DEF Busy
<1>4. Admitted'
  BY <1>1, <1>2, <1>3, PermitsCount DEF BatchInv
<1> QED BY <1>1, <1>2, <1>4 DEF BatchInv, Balanced, Waiting

LEMMA WokenHolds ==
    ASSUME BatchConstants, BatchInv, NEW c \in Caller, Batch!Woken(c) PROVE BatchInv'
<1> DEFINE x == IF call[c].answer = "unhandled" THEN [call[c] EXCEPT !.pc = "alone", !.answer = "open"] ELSE Batch!Resting
<1>1. FramesPlaced /\ CallsTyped /\ Balanced /\ call[c] \in CallType /\ OwnWay(c)
  BY DEF BatchInv, FramesPlaced, CallsTyped
<1>2. /\ kind' = kind /\ permits' = permits /\ partners' = partners /\ balance' = balance
      /\ ~Sends(c) /\ Waits(c) /\ call[c].answer # "open" /\ call[c].items = {}
  BY <1>1 DEF Batch!Woken, Sends, Waits, FramesPlaced, BatchesCarry
<1>3. call' = [call EXCEPT ![c] = x]
  BY <1>1 DEF Batch!Woken, CallsTyped
<1>4. x \in CallType /\ x.pc \in {"idle", "alone"} /\ x.items = {} /\ x.sent = 0
  <2>1. CASE call[c].answer = "unhandled"
    <3>1. /\ [call[c] EXCEPT !.pc = "alone", !.answer = "open"] \in CallType
          /\ [call[c] EXCEPT !.pc = "alone", !.answer = "open"].pc = "alone"
          /\ [call[c] EXCEPT !.pc = "alone", !.answer = "open"].items = {}
          /\ [call[c] EXCEPT !.pc = "alone", !.answer = "open"].sent = 0
      BY <1>1, <1>2, <2>1 DEF CallType, Place, OwnWay
    <3> QED BY <2>1, <3>1
  <2>2. CASE call[c].answer # "unhandled"
    BY <2>2, RestsTyped
  <2> QED BY <2>1, <2>2
<1> HIDE DEF x
<1>5. FramesPlaced'
  <2>1. x.sent <= 1 /\ x.pc \in {"idle", "alone", "single"}
    BY <1>4
  <2> QED BY <1>1, <1>2, <1>3, <1>4, <2>1, AloneGoesOn
<1>6. call'[c] = x /\ \A d \in Caller : d # c => call'[d] = call[d]
  BY <1>1, <1>3 DEF CallsTyped
<1>7. Admitted'
  <2>1. c \notin Busy /\ c \notin Busy'
    BY <1>2, <1>4, <1>6 DEF Busy, Waits
  <2> QED BY <1>2, <1>6, <2>1, PermitsCount DEF BatchInv
<1> QED BY <1>1, <1>2, <1>5, <1>7 DEF BatchInv, Balanced, Waiting

LEMMA SingleEndsHolds ==
    ASSUME BatchConstants, BatchInv, NEW c \in Caller, Batch!SingleEnds(c) PROVE BatchInv'
<1>1. FramesPlaced /\ CallsTyped /\ Balanced
  BY DEF BatchInv, FramesPlaced
<1>2. /\ kind' = kind /\ permits' = permits + 1 /\ partners' = partners /\ balance' = balance
      /\ call[c].pc = "single" /\ ~Sends(c) /\ ~Waits(c) /\ call' = [call EXCEPT ![c] = Batch!Resting]
  BY DEF Batch!SingleEnds, Sends, Waits
<1>3. FramesPlaced'
  <2>1. Batch!Resting.sent <= 1 /\ Batch!Resting.pc \in {"idle", "alone", "single"}
    BY RestsTyped
  <2> QED BY <1>1, <1>2, <2>1, RestsTyped, AloneGoesOn
<1>4. call'[c] = Batch!Resting /\ \A d \in Caller : d # c => call'[d] = call[d]
  BY <1>1, <1>2 DEF CallsTyped
<1>5. Admitted'
  <2>1. c \in Busy /\ c \notin Busy'
    BY <1>2, <1>4, RestsTyped DEF Busy
  <2> QED BY <1>2, <1>4, <2>1, PermitsCount DEF BatchInv
<1> QED BY <1>1, <1>2, <1>3, <1>5 DEF BatchInv, Balanced, Waiting

-----------------------------------------------------------------------------
LEMMA BatchInit == ASSUME BatchConstants, Batch!Init PROVE BatchInv
<1>1. /\ kind \in {"grouped", "phone"} /\ call = [c \in Caller |-> Batch!Resting] /\ partners = [h \in Hints |-> {}]
      /\ permits = Permits /\ balance = 0
  BY DEF Batch!Init, Hints
<1>2. \A c \in Caller : call[c] = Batch!Resting
  BY <1>1
<1>3. FramesPlaced
  <2>1. CallsTyped
    BY <1>1, RestsTyped DEF CallsTyped
  <2>2. PendingWaits /\ BatchesCarry /\ OneBatch
    BY <1>1, <1>2, RestsTyped DEF PendingWaits, BatchesCarry, OneBatch, Sends
  <2>3. \A c \in Caller : OwnWay(c)
    BY <1>2, RestsTyped DEF OwnWay, Waits
  <2> QED BY <2>1, <2>2, <2>3 DEF FramesPlaced
<1>4. Balanced
  <2>1. Waiting = {}
    BY <1>1 DEF Waiting
  <2> QED BY <1>1, <2>1, FS_EmptySet DEF Balanced
<1>5. Admitted
  <2>1. Busy = {}
    BY <1>2, RestsTyped DEF Busy
  <2> QED BY <1>1, <2>1, FS_EmptySet DEF Admitted, BatchConstants
<1> QED BY <1>3, <1>4, <1>5 DEF BatchInv

LEMMA BatchNext == ASSUME BatchConstants, BatchInv, [Batch!Next]_(Batch!vars) PROVE BatchInv'
<1>1. ASSUME NEW c \in Caller, Batch!Step(c) PROVE BatchInv'
  <2>1. CASE \E h \in Hint : Batch!Bypass(c, h) \/ Batch!Complete(c, h) \/ Batch!Wait(c, h)
    BY <2>1, BypassHolds, CompleteHolds, WaitHolds
  <2>2. CASE Batch!EarlyFlush(c) \/ Batch!TimeOut(c) \/ Batch!TimeOutTaken(c) \/ Batch!Woken(c)
    BY <2>2, EarlyFlushHolds, TimeOutHolds, TimeOutTakenHolds, WokenHolds
  <2>3. CASE Batch!Acquire(c) \/ Batch!Overload(c) \/ Batch!SingleEnds(c)
    BY <2>3, AcquireHolds, OverloadHolds, SingleEndsHolds
  <2>4. CASE \E answer \in {"handled", "error"} : Batch!BatchComputed(c, answer)
    <3>1. PICK answer \in {"handled", "error"} : Batch!Replies(c) /\ kind' = kind /\ call' = Batch!Answered(c, answer)
      BY <2>4 DEF Batch!BatchComputed, Batch!Replies
    <3>2. answer \in {"handled", "unhandled", "error"}
      OBVIOUS
    <3> QED BY <3>1, <3>2, ReplyHolds
  <2>5. CASE Batch!BatchRefused(c)
    <3>1. PICK answer \in {"handled", "unhandled", "error"} : Batch!Replies(c) /\ kind' = kind /\ call' = Batch!Answered(c, answer)
      BY <2>5 DEF Batch!BatchRefused, Batch!Replies
    <3> QED BY <3>1, ReplyHolds
  <2> QED BY <1>1, <2>1, <2>2, <2>3, <2>4, <2>5 DEF Batch!Step
<1>2. CASE Batch!Upgrade \/ UNCHANGED Batch!vars
  <2>1. UNCHANGED <<kind, call, partners, permits, balance>>
    BY <1>2 DEF Batch!Upgrade, Batch!vars
  <2>2. FramesPlaced'
    <3>1. CallsTyped' /\ PendingWaits' /\ OneBatch'
      BY <2>1 DEF BatchInv, FramesPlaced, CallsTyped, PendingWaits, OneBatch
    <3>2. BatchesCarry'
      BY <2>1 DEF BatchInv, FramesPlaced, BatchesCarry, Sends, Carries, Waits
    <3>3. \A c \in Caller : OwnWay(c)'
      BY <2>1 DEF BatchInv, FramesPlaced, OwnWay, Waits
    <3> QED BY <3>1, <3>2, <3>3 DEF FramesPlaced
  <2>3. Balanced' /\ Admitted'
    BY <2>1 DEF BatchInv, Balanced, Waiting, Admitted, Busy
  <2> QED BY <2>2, <2>3 DEF BatchInv
<1> QED BY <1>1, <1>2 DEF Batch!Next

LEMMA BatchSafe == ASSUME BatchConstants, BatchInv PROVE Batch!FrameInOnePlace
<1>1. DOMAIN partners = Hints /\ FramesPlaced
  BY DEF BatchInv, FramesPlaced, CallsTyped
<1>2. ASSUME NEW c \in Caller
      PROVE  /\ Cardinality(Batch!Carried(c))
                  + Cardinality({h \in DOMAIN partners : c \in partners[h]})
                  + (IF call[c].pc \in {"alone", "single"} THEN 1 ELSE 0) <= 1
             /\ call[c].sent <= 1
             /\ call[c].pc = "taken" => call[c].answer # "open" \/ Batch!Carried(c) # {}
             /\ call[c].items # {} => /\ c \in call[c].items
                                      /\ \A d \in call[c].items : call[d].hint = call[c].hint
                                      /\ kind = "grouped" => Cardinality(call[c].items) \in {PairSize, FullSize}
  <2> DEFINE Places == {h \in DOMAIN partners : c \in partners[h]}
  <2>1. /\ \A l \in Batch!Carried(c) : l \in Caller /\ Sends(l) /\ c \in call[l].items
        /\ \A l \in Caller : c \in call[l].items => l \in Batch!Carried(c)
    BY <1>1 DEF FramesPlaced, BatchesCarry, Batch!Carried, Sends
  <2>2. Batch!Carried(c) = {} \/ \E l \in Caller : Batch!Carried(c) = {l}
    BY <1>1, <2>1 DEF FramesPlaced, OneBatch
  <2>3. Places = {} \/ \E h \in Hints : Places = {h}
    <3>1. \A h, g \in Hints : c \in partners[h] /\ c \in partners[g] => h = g
      BY <1>1 DEF FramesPlaced, PendingWaits
    <3> QED BY <1>1, <3>1
  <2>4. Places # {} => Batch!Carried(c) = {} /\ call[c].pc \notin {"alone", "single"}
    BY <1>1, <2>1 DEF FramesPlaced, PendingWaits
  <2>5. Batch!Carried(c) # {} => call[c].pc \notin {"alone", "single"}
    BY <1>1, <2>1 DEF FramesPlaced, BatchesCarry, Carries, Waits, Sends
  <2> HIDE DEF Places
  <2>6. Cardinality({}) = 0 /\ (\A l : Cardinality({l}) = 1)
    BY FS_EmptySet, FS_Singleton
  <2>7. ASSUME NEW S, S = {} \/ \E l : S = {l}
        PROVE  Cardinality(S) = IF S = {} THEN 0 ELSE 1
    <3>1. CASE S = {}
      BY <2>6, <3>1
    <3>2. CASE \E l : S = {l}
      <4>1. PICK l : S = {l}
        BY <3>2
      <4> QED BY <2>6, <4>1
    <3> QED BY <2>7, <3>1, <3>2
  <2>8. Cardinality(Batch!Carried(c)) + Cardinality(Places) + (IF call[c].pc \in {"alone", "single"} THEN 1 ELSE 0) <= 1
    <3>1. Cardinality(Batch!Carried(c)) = IF Batch!Carried(c) = {} THEN 0 ELSE 1
      BY <2>2, <2>7
    <3>2. Cardinality(Places) = IF Places = {} THEN 0 ELSE 1
      BY <2>3, <2>7
    <3> QED BY <2>4, <2>5, <3>1, <3>2
  <2>9. call[c].sent <= 1 /\ (call[c].pc = "taken" => call[c].answer # "open" \/ Batch!Carried(c) # {})
    <3>1. OwnWay(c)
      BY <1>1 DEF FramesPlaced
    <3>2. call[c].pc = "taken" => \A h \in Hints : c \notin partners[h]
      BY <1>1 DEF FramesPlaced, PendingWaits
    <3> QED BY <2>1, <3>1, <3>2 DEF OwnWay, Waits
  <2>10. call[c].items # {} => /\ c \in call[c].items
                               /\ \A d \in call[c].items : call[d].hint = call[c].hint
                               /\ kind = "grouped" => Cardinality(call[c].items) \in {PairSize, FullSize}
    BY <1>1 DEF FramesPlaced, BatchesCarry, Carries
  <2> QED BY <2>8, <2>9, <2>10 DEF Places
<1>3. balance = Cardinality(UNION {partners[h] : h \in DOMAIN partners})
  BY <1>1 DEF BatchInv, Balanced, Waiting
<1>4. permits + Cardinality({c \in Caller : call[c].pc \in {"sending", "single"}}) = Permits
  BY DEF BatchInv, Admitted, Busy
<1> QED BY <1>2, <1>3, <1>4, BatchCounts DEF Batch!FrameInOnePlace, Batch!Size

(* Every frame of the frame batchers is in one place (model_manager.py).   *)
THEOREM FramesAreInOnePlace == ASSUME BatchConstants PROVE Batch!Spec => []Batch!FrameInOnePlace
<1>1. Batch!Init => BatchInv
  BY BatchInit
<1>2. BatchInv /\ [Batch!Next]_(Batch!vars) => BatchInv'
  BY BatchNext
<1>3. BatchInv => Batch!FrameInOnePlace
  BY BatchSafe
<1> QED BY <1>1, <1>2, <1>3, PTL DEF Batch!Spec

(* A batch has a size there is a route for, or is the frame of the phone   *)
(* caller that sends it, so that what is learnt of the server is about     *)
(* such a size.                                                            *)
BatchSizes == \A l \in Caller : Sends(l) => Cardinality(call[l].items) \in {1, PairSize, FullSize}
Routes == known \subseteq {PairSize, FullSize} /\ serves \subseteq {PairSize, FullSize}

LEMMA AnsweredSizes ==
    ASSUME BatchInv, BatchSizes, NEW c \in Caller, NEW answer, call' = Batch!Answered(c, answer)
    PROVE  BatchSizes'
<1>1. call \in [Caller -> CallType]
  BY DEF BatchInv, FramesPlaced, CallsTyped
<1>2. ASSUME NEW l \in Caller, Sends(l)' PROVE Sends(l) /\ call'[l].items = call[l].items
  BY <1>1, <1>2, RestsTyped DEF Batch!Answered, Sends, CallType, Batch!Resting
<1> QED BY <1>2 DEF BatchSizes

LEMMA BatchSizesHold ==
    ASSUME BatchConstants, BatchInv, BatchSizes, NEW c \in Caller, Batch!Step(c)
    PROVE  BatchSizes'
<1>1. call \in [Caller -> CallType]
  BY DEF BatchInv, FramesPlaced, CallsTyped
<1>2. Cardinality({c}) = 1
  BY FS_Singleton
<1>3. ASSUME NEW x, call' = [call EXCEPT ![c] = x],
             x.pc \in {"leading", "sending"} => Cardinality(x.items) \in {1, PairSize, FullSize}
      PROVE  BatchSizes'
  BY <1>1, <1>3 DEF BatchSizes, Sends
<1>4. ASSUME NEW h \in Hint, Batch!Bypass(c, h) PROVE BatchSizes'
  BY <1>2, <1>3, <1>4 DEF Batch!Bypass, Batch!Resting
<1>5. ASSUME NEW h \in Hint, Batch!Complete(c, h) PROVE BatchSizes'
  BY <1>3, <1>5, BatchCounts DEF Batch!Complete, Batch!TargetSize, Batch!Resting
<1>6. ASSUME NEW h \in Hint, Batch!Wait(c, h) PROVE BatchSizes'
  <2>1. call' = [call EXCEPT ![c] =
                  [Batch!Resting EXCEPT !.pc = IF kind = "grouped" /\ Batch!TargetSize(h) = FullSize THEN "early" ELSE "late",
                                  !.hint = h]]
    BY <1>6 DEF Batch!Wait
  <2>2. ASSUME NEW p \in {"early", "late"} PROVE [Batch!Resting EXCEPT !.pc = p, !.hint = h].pc = p
    BY DEF Batch!Resting
  <2>3. PICK p \in {"early", "late"} : call' = [call EXCEPT ![c] = [Batch!Resting EXCEPT !.pc = p, !.hint = h]]
    BY <2>1
  <2> QED BY <1>3, <2>2, <2>3
<1>7. CASE Batch!EarlyFlush(c)
  BY <1>1, <1>7, BatchCounts DEF Batch!EarlyFlush, Batch!Claimable, Batch!Goto, BatchSizes, Sends, CallType
<1>8. CASE Batch!TimeOut(c) \/ Batch!TimeOutTaken(c)
  <2>1. /\ [call[c] EXCEPT !.pc = "leading", !.items = {c}].items = {c}
        /\ [call[c] EXCEPT !.pc = "alone"].pc = "alone"
        /\ [call[c] EXCEPT !.pc = "taken"].pc = "taken"
    BY <1>1 DEF CallType
  <2>2. \/ call' = [call EXCEPT ![c] = [call[c] EXCEPT !.pc = "leading", !.items = {c}]]
        \/ call' = [call EXCEPT ![c] = [call[c] EXCEPT !.pc = "alone"]]
        \/ call' = [call EXCEPT ![c] = [call[c] EXCEPT !.pc = "taken"]]
    BY <1>1, <1>8 DEF Batch!TimeOut, Batch!TimeOutTaken, Batch!Goto
  <2>3. ASSUME NEW x, x.items = {c} \/ x.pc = "alone" \/ x.pc = "taken", call' = [call EXCEPT ![c] = x]
        PROVE  BatchSizes'
    BY <1>2, <1>3, <2>3
  <2> QED BY <2>1, <2>2, <2>3
<1>9. CASE Batch!Woken(c) \/ Batch!SingleEnds(c)
  <2>1. Batch!Resting.pc = "idle" /\ [call[c] EXCEPT !.pc = "alone", !.answer = "open"].pc = "alone"
    BY <1>1 DEF Batch!Resting, CallType
  <2>2. call' = [call EXCEPT ![c] = [call[c] EXCEPT !.pc = "alone", !.answer = "open"]]
          \/ call' = [call EXCEPT ![c] = Batch!Resting]
    BY <1>1, <1>9 DEF Batch!Woken, Batch!SingleEnds
  <2> QED BY <1>3, <2>1, <2>2
<1>10. CASE Batch!Acquire(c)
  <2>1. ASSUME NEW l \in Caller, Sends(l)' PROVE Sends(l) /\ call'[l].items = call[l].items
    BY <1>1, <1>10, <2>1 DEF Batch!Acquire, Sends, CallType
  <2> QED BY <2>1 DEF BatchSizes
<1>11. CASE Batch!Overload(c)
  BY <1>3, <1>11, AnsweredSizes DEF Batch!Overload, Batch!Resting
<1>12. ASSUME NEW answer \in {"handled", "error"}, Batch!BatchComputed(c, answer) PROVE BatchSizes'
  BY <1>12, AnsweredSizes DEF Batch!BatchComputed
<1>13. CASE Batch!BatchRefused(c)
  BY <1>13, AnsweredSizes DEF Batch!BatchRefused
<1> QED BY <1>4, <1>5, <1>6, <1>7, <1>8, <1>9, <1>10, <1>11, <1>12, <1>13 DEF Batch!Step

LEMMA RoutesHold ==
    ASSUME BatchInv, BatchSizes, Routes, [Batch!Next]_(Batch!vars)
    PROVE  Routes'
<1>1. ASSUME NEW c \in Caller, Batch!BatchRefused(c) PROVE Routes'
  <2>1. Cardinality(call[c].items) \in {1, PairSize, FullSize}
    BY <1>1 DEF Batch!BatchRefused, Batch!Replies, BatchSizes, Sends
  <2> QED BY <1>1, <2>1, BatchCounts DEF Batch!BatchRefused, Batch!Replies, Routes
<1>2. ASSUME NEW c \in Caller, NEW answer \in {"handled", "error"}, Batch!BatchComputed(c, answer) PROVE Routes'
  BY <1>2 DEF Batch!BatchComputed, Batch!Replies, Routes
<1>3. ASSUME NEW c \in Caller, Batch!Step(c), ~Batch!BatchRefused(c),
             \A answer \in {"handled", "error"} : ~Batch!BatchComputed(c, answer)
      PROVE  Routes'
  <2>1. UNCHANGED <<known, serves>>
    BY <1>3 DEF Batch!Step, Batch!Bypass, Batch!Complete, Batch!Wait, Batch!EarlyFlush, Batch!TimeOut,
       Batch!TimeOutTaken, Batch!Woken, Batch!Acquire, Batch!Overload, Batch!SingleEnds
  <2> QED BY <2>1 DEF Routes
<1>4. CASE Batch!Upgrade
  BY <1>4 DEF Batch!Upgrade, Batch!Size, Routes
<1>5. CASE UNCHANGED Batch!vars
  BY <1>5 DEF Batch!vars, Routes
<1> QED BY <1>1, <1>2, <1>3, <1>4, <1>5 DEF Batch!Next

(* FrameBatcher keeps its types.                                           *)
THEOREM BatchTyped == ASSUME BatchConstants PROVE Batch!Spec => []Batch!TypeOK
<1> DEFINE I == BatchInv /\ BatchSizes /\ Routes
<1>1. Batch!Init => I
  <2> SUFFICES ASSUME Batch!Init PROVE BatchSizes /\ Routes
    BY BatchInit
  <2> QED BY DEF Batch!Init, Batch!Size, Batch!Resting, BatchSizes, Routes, Sends
<1>2. I /\ [Batch!Next]_(Batch!vars) => I'
  <2> SUFFICES ASSUME I, [Batch!Next]_(Batch!vars) PROVE BatchSizes'
    BY BatchNext, RoutesHold
  <2>1. CASE Batch!Upgrade \/ UNCHANGED Batch!vars
    BY <2>1 DEF Batch!Upgrade, Batch!vars, BatchSizes, Sends
  <2> QED BY <2>1, BatchSizesHold DEF Batch!Next
<1>3. I => Batch!TypeOK
  <2> SUFFICES ASSUME I PROVE Batch!TypeOK
    OBVIOUS
  <2>1. kind \in {"grouped", "phone"} /\ call \in [Caller -> CallType] /\ partners \in [Hints -> SUBSET Caller]
    BY DEF BatchInv, FramesPlaced, CallsTyped
  <2>2. permits \in 0 .. Permits
    <3>1. IsFiniteSet(Busy)
      BY FS_Subset DEF Busy, BatchConstants
    <3> QED BY <3>1, FS_CardinalityType DEF BatchInv, Admitted, BatchConstants
  <2>3. balance \in Nat
    BY WaitingFinite, FS_CardinalityType DEF BatchInv, Balanced
  <2> QED BY <2>1, <2>2, <2>3 DEF Batch!TypeOK, Batch!Size, Routes, CallType, Hints, Place
<1> HIDE DEF I
<1> QED BY <1>1, <1>2, <1>3, PTL DEF Batch!Spec
=============================================================================
