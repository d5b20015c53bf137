--------------------------- MODULE ObjectLifecycle ---------------------------
(***************************************************************************)
(* A watched zone of one camera (object_lifecycle_analytics.py): an object *)
(* that stays raises one dwell event, an object that is gone one removal   *)
(* event.  The frame loop makes alert candidates of the events.  The GET   *)
(* of the dashboard advances the same row, with the detections that are    *)
(* published at the moment, and throws the events away.                    *)
(*                                                                         *)
(* A full frame shows the objects; a partial frame (phone or PPE models    *)
(* alone) publishes detections without any and leaves the row alone.       *)
(* Zones do not interact; the event_linger of the display is left out.     *)
(***************************************************************************)
EXTENDS Naturals

CONSTANTS
    RemovalAfter,  \* ticks of removal_after_seconds
    DwellAfter,    \* ticks of dwell_after_seconds
    MaxTime        \* bound on now

VARIABLES
    now,
    shown,      \* state.camera_detections has a watched object
    frame,      \* the full frame the loop has published and not evaluated yet
    row,        \* the row of the zone in _LIFECYCLE_STATE
    told,       \* the dwell event of this presence reached the loop (history)
    intended    \* the row the loop alone would have (history)

vars == <<now, shown, frame, row, told, intended>>

Unseen == [present |-> FALSE, first |-> 0, last |-> 0, alerted |-> FALSE]
Row == [present : BOOLEAN, first : 0 .. MaxTime, last : 0 .. MaxTime, alerted : BOOLEAN]

TypeOK ==
    /\ now \in 0 .. MaxTime
    /\ shown \in BOOLEAN
    /\ frame \in {"none", "object", "empty"}
    /\ row \in Row /\ intended \in Row
    /\ told \in BOOLEAN

Init ==
    /\ now = 0
    /\ shown = FALSE
    /\ frame = "none"
    /\ row = Unseen /\ intended = Unseen
    /\ told = FALSE

-----------------------------------------------------------------------------
Seen(r) ==
    [r EXCEPT !.present = TRUE, !.last = now,
              !.first = IF r.present THEN @ ELSE now,
              !.alerted = IF r.present THEN @ ELSE FALSE]

\* update_object_lifecycle for one zone: the row, and the event it returns.
Dwells(r, object) == object /\ ~Seen(r).alerted /\ now - Seen(r).first >= DwellAfter
Leaves(r, object) == ~object /\ r.present /\ now - r.last >= RemovalAfter
Updated(r, object) ==
    IF object THEN [Seen(r) EXCEPT !.alerted = @ \/ Dwells(r, object)]
    ELSE IF Leaves(r, object) THEN [r EXCEPT !.present = FALSE] ELSE r

-----------------------------------------------------------------------------
\* The frame loop: it publishes the detections of a full frame ...
Publish(object) ==
    /\ frame = "none"
    /\ shown' = object
    /\ frame' = IF object THEN "object" ELSE "empty"
    /\ UNCHANGED <<now, row, told, intended>>

\* ... and evaluates them; what the update returns becomes a candidate.
Evaluate ==
    LET object == frame = "object"
    IN  /\ frame # "none"
        /\ row' = Updated(row, object)
        /\ intended' = Updated(intended, object)
        /\ told' = IF ~intended'.present THEN FALSE ELSE told \/ Dwells(row, object)
        /\ frame' = "none"
        /\ UNCHANGED <<now, shown>>

\* A partial frame; and a source that disconnects, with no detections at all.
PublishPartial ==
    /\ frame = "none"
    /\ shown' = FALSE
    /\ UNCHANGED <<now, frame, row, told, intended>>

\* get_object_lifecycle_snapshot: the events are not used.
Poll ==
    /\ row' = Updated(row, shown)
    /\ UNCHANGED <<now, shown, frame, told, intended>>

\* Evaluating what was published takes no time.
Tick ==
    /\ frame = "none"
    /\ now < MaxTime
    /\ now' = now + 1
    /\ UNCHANGED <<shown, frame, row, told, intended>>

Next ==
    \/ \E object \in BOOLEAN : Publish(object)
    \/ Evaluate
    \/ PublishPartial
    \/ Poll
    \/ Tick

Spec == Init /\ [][Next]_vars

-----------------------------------------------------------------------------
\* "Advance watched-zone state and return one-shot lifecycle alert candidates":
\* a dwell the loop's own frames establish has been returned to the loop, which
\* is the only one that makes alerts of candidates.
DwellReachesLoop ==
    intended.present /\ intended.alerted => told
=============================================================================
