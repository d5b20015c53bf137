------------------------- MODULE ViolationIncidents -------------------------
(***************************************************************************)
(* From detections to alerts: the loop of one camera worker keeps, per     *)
(* rule, a window of fresh observations, the time of the first positive    *)
(* one and whether an incident is active (video_processing.py); a          *)
(* confirmed candidate becomes an alert when a policy wants one and its    *)
(* cooldown has passed (policy_engine.py).                                 *)
(*                                                                         *)
(* A processed frame is one Observe, then one step per candidate, then     *)
(* CloseFrame.  A plan says which models ran for the frame; a rule whose   *)
(* model did not run has no fresh observation.  Times are left out: a      *)
(* cooldown is hot until it lapses, an anchor is how many fresh            *)
(* observations of its rule ago it was taken.                              *)
(***************************************************************************)
EXTENDS Naturals, Sequences, FiniteSets

CONSTANTS
    Rule,
    Order,      \* [Rule -> Nat], the order their candidates are collected in
    Policy,
    Setup,      \* configurations of a camera: for each rule what has to run for it,
                \* kind \in {"ppe", "phone", "zone", "fall"}, and the automation rules
                \* its candidates match, matching \subseteq Policy
    Threshold,  \* [Rule -> Nat], confirmations needed
    WindowSize

VARIABLES
    setup,   \* the configuration of the camera, a function on Rule
    window,  \* violation_window; its domain: the rules that have one
    active,  \* active_violations
    anchor,  \* first_positive_by_rule
    hot,     \* cooldowns running: of policies, and of rules without one
    plan,    \* the plan of the frame being processed, or Between
    todo,    \* candidates of this frame still to look at
    seen     \* history: fresh observations of each rule since its last alert

vars == <<setup, window, active, anchor, hot, plan, todo, seen>>

Between == [partial |-> "no", ppe |-> FALSE, fall |-> FALSE, open |-> FALSE]
Plan ==
    [partial : {"no"}, ppe : BOOLEAN, fall : BOOLEAN, open : {TRUE}]
        \cup [partial : {"phone"}, ppe : {FALSE}, fall : {FALSE}, open : {TRUE}]
        \cup [partial : {"ppe"}, ppe : {TRUE}, fall : {FALSE}, open : {TRUE}]

TypeOK ==
    /\ setup \in Setup
    /\ DOMAIN window \subseteq Rule
    /\ \A r \in DOMAIN window : window[r] \in Seq(BOOLEAN) /\ Len(window[r]) <= WindowSize
    /\ active \subseteq Rule
    /\ DOMAIN anchor \subseteq Rule
    /\ \A r \in DOMAIN anchor : anchor[r] \in 1 .. WindowSize
    /\ hot \subseteq Policy \cup Rule
    /\ plan \in Plan \cup {Between}
    /\ todo \subseteq Rule
    /\ seen \in [Rule -> Seq(BOOLEAN)]

\* A partial plan refreshes the alert rules of its capabilities only.
Refreshed(r, p) == p.partial \in {"no", setup[r].kind} \ {"ppe"}

\* Mutant of Fresh: a rule is fresh whenever detection ran.
FreshWithDetection(r, p) == Refreshed(r, p) \/ setup[r].kind = "ppe"

Fresh(r, p) ==
    CASE setup[r].kind = "fall" -> p.fall
      [] setup[r].kind = "ppe" -> p.ppe
      [] OTHER -> Refreshed(r, p)

\* The loops over incidents and windows leave such a rule alone.
Skipped(r, p) == ~Refreshed(r, p) /\ setup[r].kind # "ppe"

Hits(observations) == Cardinality({i \in DOMAIN observations : observations[i]})

\* An observation enters a window of the given size.
Push(observations, o) ==
    LET longer == Append(observations, o)
    IN  IF Len(longer) > WindowSize THEN Tail(longer) ELSE longer

Windowed(r) == IF r \in DOMAIN window THEN window[r] ELSE <<>>

Advance(p, found) ==
    [r \in DOMAIN window \cup found |->
        IF Fresh(r, p) THEN Push(Windowed(r), r \in found) ELSE Windowed(r)]

\* A fresh positive keeps the anchor of its run or begins one; a fresh negative ends it.
Anchors(p, found, incidents) ==
    LET tracked == DOMAIN anchor \cup found
        ended == {r \in tracked : Fresh(r, p) /\ (r \notin found \/ r \in incidents)}
    IN  [r \in {s \in tracked \ ended : s \in DOMAIN anchor \/ Fresh(s, p)} |->
            IF r \notin DOMAIN anchor THEN 1
            ELSE IF Fresh(r, p) /\ anchor[r] < WindowSize THEN anchor[r] + 1 ELSE anchor[r]]

\* What really was observed.
Witness(p, found) ==
    seen' = [r \in Rule |->
                IF CASE setup[r].kind = "fall" -> p.fall
                     [] setup[r].kind = "ppe" -> p.ppe
                     [] OTHER -> p.partial \in {"no", setup[r].kind}
                THEN Push(seen[r], r \in found) ELSE seen[r]]

\* A policy that never triggered counts as triggered when the host booted.
Init ==
    /\ setup \in Setup
    /\ window = <<>>
    /\ active = {}
    /\ anchor = <<>>
    /\ hot \in {{}, Policy}
    /\ plan = Between
    /\ todo = {}
    /\ seen = [r \in Rule |-> <<>>]

-----------------------------------------------------------------------------
(* A frame.                                                                *)

\* A plan finds candidates only for rules it evaluates.
Found(p) == SUBSET {r \in Rule : Fresh(r, p)}

\* Mutant of Over: an incident ends when its window holds a full round of absences.
OverWhenAbsent(p, windows) ==
    {r \in active \cap DOMAIN windows :
        ~Skipped(r, p) /\ Len(windows[r]) = WindowSize /\ Hits(windows[r]) = 0}

\* Incidents with fewer than two hits left in their window are over.
Over(p, windows) ==
    {r \in active : ~Skipped(r, p) /\ (r \in DOMAIN windows => Hits(windows[r]) < 2)}

\* _process_detection_observation with something in the frame, up to the candidates.
Observe(p, found) ==
    LET windows == Advance(p, found)
        over == Over(p, windows)
    IN  /\ plan = Between
        /\ plan' = p
        /\ window' = windows
        /\ active' = active \ over
        /\ anchor' = Anchors(p, found, active \ over)
        /\ todo' = found
        /\ Witness(p, found)
        /\ UNCHANGED <<setup, hot>>

\* _process_detection_observation with nothing in the frame.
ObserveEmpty(p) ==
    LET pushed == [r \in DOMAIN window |->
                      IF Fresh(r, p) THEN Push(window[r], FALSE) ELSE window[r]]
        cleared == {r \in DOMAIN window : Fresh(r, p) /\ Hits(pushed[r]) = 0}
    IN  /\ plan = Between
        /\ window' = [r \in DOMAIN window \ cleared |-> pushed[r]]
        /\ active' = active \ cleared
        /\ anchor' = Anchors(p, {}, active \ cleared)
        /\ Witness(p, {})
        /\ UNCHANGED <<setup, hot, plan, todo>>

-----------------------------------------------------------------------------
(* Its candidates, one after the other.                                    *)

Unconfirmed(r) == r \in active \/ Hits(Windowed(r)) < Threshold[r]

\* What wants an alert for a candidate of r: the matching policies whose
\* schedule allows it and whose cooldown has passed, or the fallback.
Deciders(r, scheduled) == IF setup[r].matching = {} THEN {r} \ hot ELSE (setup[r].matching \cap scheduled) \ hot

NextCandidate(r) ==
    /\ r \in todo
    /\ \A s \in todo : Order[r] <= Order[s]
    /\ todo' = todo \ {r}

Pass(r) ==
    /\ NextCandidate(r)
    /\ Unconfirmed(r)
    /\ UNCHANGED <<setup, window, active, anchor, hot, plan, seen>>

Suppress(r, scheduled) ==
    /\ NextCandidate(r)
    /\ ~Unconfirmed(r)
    /\ Deciders(r, scheduled) = {}
    /\ UNCHANGED <<setup, window, active, anchor, hot, plan, seen>>

\* No submission was admitted; the incident remains retryable.
Refuse(r, scheduled) ==
    /\ NextCandidate(r)
    /\ ~Unconfirmed(r)
    /\ Deciders(r, scheduled) # {}
    /\ UNCHANGED <<setup, window, active, anchor, hot, plan, seen>>

\* Some of the decisions became alerts; each starts its own cooldown.
Admit(r, scheduled, admitted) ==
    /\ NextCandidate(r)
    /\ ~Unconfirmed(r)
    /\ admitted # {}
    /\ admitted \subseteq Deciders(r, scheduled)
    /\ hot' = hot \cup admitted
    /\ active' = active \cup {r}
    /\ window' = [window EXCEPT ![r] = <<>>]
    /\ anchor' = [s \in DOMAIN anchor \ {r} |-> anchor[s]]
    /\ seen' = [seen EXCEPT ![r] = <<>>]
    /\ UNCHANGED <<setup, plan>>

\* The end of the frame: windows that hold a full round of absences go.
CloseFrame ==
    /\ plan # Between
    /\ todo = {}
    /\ window' = [r \in {s \in DOMAIN window :
                            Skipped(s, plan) \/ Len(window[s]) < WindowSize \/ Hits(window[s]) > 0}
                     |-> window[r]]
    /\ plan' = Between
    /\ UNCHANGED <<setup, active, anchor, hot, todo, seen>>

-----------------------------------------------------------------------------
(* Around the frames.                                                      *)

Lapse(x) ==
    /\ x \in hot
    /\ hot' = hot \ {x}
    /\ UNCHANGED <<setup, window, active, anchor, plan, todo, seen>>

Forget ==
    /\ window' = <<>>
    /\ active' = {}
    /\ anchor' = <<>>
    /\ seen' = [r \in Rule |-> <<>>]

\* The capture failed: what was observed says nothing of what comes.
Reconnect ==
    /\ plan = Between
    /\ Forget
    /\ UNCHANGED <<setup, hot, plan, todo>>

\* The worker ends, at an exception perhaps in the middle of a frame, and
\* another begins; the cooldowns of policies belong to the process.
Restart ==
    /\ Forget
    /\ hot' = hot \ Rule
    /\ plan' = Between
    /\ todo' = {}
    /\ UNCHANGED setup

Frame(p) == (\E found \in Found(p) : Observe(p, found)) \/ ObserveEmpty(p)
Candidate(r) ==
    \/ Pass(r)
    \/ \E scheduled \in SUBSET setup[r].matching :
        \/ Suppress(r, scheduled) \/ Refuse(r, scheduled)
        \/ \E admitted \in SUBSET (setup[r].matching \cup {r}) : Admit(r, scheduled, admitted)

Next ==
    \/ \E p \in Plan : Frame(p)
    \/ \E r \in Rule : Candidate(r)
    \/ CloseFrame
    \/ \E x \in Policy \cup Rule : Lapse(x)
    \/ Reconnect
    \/ Restart

Spec == Init /\ [][Next]_vars

\* The worker's loop goes on; a cooldown is a span of time.
Fairness ==
    /\ WF_vars(\E p \in Plan : Frame(p))
    /\ WF_vars(\E r \in Rule : Candidate(r))
    /\ WF_vars(CloseFrame)
    /\ \A x \in Policy \cup Rule : WF_vars(Lapse(x))

FairSpec == Spec /\ Fairness

-----------------------------------------------------------------------------
Run(observations) ==
    CHOOSE n \in 0 .. Len(observations) :
        /\ \A i \in 1 .. Len(observations) : i > Len(observations) - n => observations[i]
        /\ n < Len(observations) => ~observations[Len(observations) - n]

\* An alert has its confirmations: enough of the rule's last WindowSize fresh
\* observations since its previous alert, whatever plans ran in between and
\* whatever windows were dropped, and the last of them positive; and it names as
\* first positive the beginning of the unbroken run that led to it.
Justified ==
    \A r \in active' \ active :
        /\ Hits(seen[r]) >= Threshold[r]
        /\ r \in DOMAIN anchor
        /\ anchor[r] = Run(seen[r])
AlertJustified == [][Justified]_vars

\* What keeps a violation that is there from being alerted for good reason.
Missed(r) ==
    \E p \in {q \in Plan : Fresh(r, q)} :
        ObserveEmpty(p) \/ \E found \in Found(p) \ {f \in Found(p) : r \in f} : Observe(p, found)
Declined(r) ==
    \E scheduled \in SUBSET setup[r].matching :
        \/ Refuse(r, scheduled)
        \/ Suppress(r, scheduled) /\ scheduled # setup[r].matching
Interrupted(r) == Missed(r) \/ Declined(r) \/ Reconnect \/ Restart
Sighted(r) == \E p \in Plan : \E found \in Found(p) : Observe(p, found) /\ r \in found
Alerted(r) == \E s \in active' \ active : s = r \/ setup[s].matching \cap setup[r].matching # {}

\* A violation every fresh observation confirms, whose alerts are not refused,
\* is alerted again and again; rules that share a policy share its
\* cooldown, and one of them does.
SustainedAlerts ==
    \A r \in Rule :
        (<>[][~Interrupted(r)]_vars /\ []<><<Sighted(r)>>_vars) => []<><<Alerted(r)>>_vars
=============================================================================
