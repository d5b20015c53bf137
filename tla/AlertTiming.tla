----------------------------- MODULE AlertTiming -----------------------------
(***************************************************************************)
(* The latency accounting of alerts (alert_timing.py and its callers): the *)
(* clock anchors of an alert wait in a bounded registry from create_alert  *)
(* to the last outcome of its initial targets, while camera threads,       *)
(* the persistence callback and the delivery threads update the registry   *)
(* and, under another lock, the telemetry counters.                        *)
(*                                                                         *)
(* Which final outcome a target has (delivered, terminal, cancelled) and   *)
(* the clock values are abstracted; an outcome can come as soon as alert   *)
(* and outbox rows are committed, before the persistence callback.         *)
(***************************************************************************)
EXTENDS Naturals, Sequences, FiniteSets, SequencesExt

CONSTANTS
    Alert,
    Target,
    MaximumPending   \* maximum_pending of the registry

VARIABLES
    stage,     \* of each alert: new, submitted, committed, failed, observed
    targets,   \* the initial targets it was created with
    order,     \* the registry: the alerts it keeps, oldest first ...
    context,   \* ... and what it keeps of each
    callback,  \* the persistence thread's _observe_persisted_alert_timing
    outcome,   \* of each alert and target: none, taken (tracked, not yet counted), final
    telemetry, \* the delivery counters of pipeline_telemetry
    raced      \* history: a context was evicted between its persistence and its activation

vars == <<stage, targets, order, context, callback, outcome, telemetry, raced>>

NoContext == [remaining |-> {}, deferred |-> {}, persisted |-> FALSE, active |-> FALSE]
NoCallback == [at |-> "idle"]
Kept(a) == \E i \in DOMAIN order : order[i] = a

TypeOK ==
    /\ stage \in [Alert -> {"new", "submitted", "committed", "failed", "observed"}]
    /\ targets \in [Alert -> SUBSET Target]
    /\ order \in Seq(Alert) /\ Len(order) <= MaximumPending
    /\ context \in [Alert -> [remaining : SUBSET Target, deferred : SUBSET Target,
                              persisted : BOOLEAN, active : BOOLEAN]]
    /\ \/ callback = NoCallback
       \/ callback \in [at : {"register", "activate", "drain"}, alert : Alert, left : SUBSET Target]
    /\ outcome \in [Alert -> [Target -> {"none", "taken", "final"}]]
    /\ telemetry \in [{"eligible", "resolved", "pending", "outcomeCensored",
                       "evictedPending", "persistenceCensored"} -> Nat]
    /\ raced \in BOOLEAN

Init ==
    /\ stage = [a \in Alert |-> "new"]
    /\ targets = [a \in Alert |-> {}]
    /\ order = <<>>
    /\ context = [a \in Alert |-> NoContext]
    /\ callback = NoCallback
    /\ outcome = [a \in Alert |-> [t \in Target |-> "none"]]
    /\ telemetry = [k \in {"eligible", "resolved", "pending", "outcomeCensored",
                           "evictedPending", "persistenceCensored"} |-> 0]
    /\ raced = FALSE

Least(m, n) == IF m < n THEN m ELSE n
Drop(a) ==
    /\ order' = IF Kept(a) THEN RemoveAt(order, CHOOSE i \in DOMAIN order : order[i] = a) ELSE order
    /\ context' = [context EXCEPT ![a] = NoContext]

-----------------------------------------------------------------------------
(* create_alert, on a camera thread.                                       *)

\* remember: a full registry gives up its oldest context, and its targets are
\* counted as evicted if it was persisted.
Remember(a, T) ==
    LET full == Len(order) = MaximumPending
        old == context[Head(order)]
        n == Cardinality(old.remaining)
    IN  /\ stage[a] = "new"
        /\ stage' = [stage EXCEPT ![a] = "submitted"]
        /\ targets' = [targets EXCEPT ![a] = T]
        /\ order' = Append(IF full THEN Tail(order) ELSE order, a)
        /\ context' = [b \in Alert |->
                         IF b = a THEN [NoContext EXCEPT !.remaining = T]
                         ELSE IF full /\ b = Head(order) THEN NoContext ELSE context[b]]
        /\ telemetry' = IF ~full THEN telemetry
                        ELSE IF old.persisted
                        THEN [telemetry EXCEPT !["pending"] = @ - Least(n, @), !["evictedPending"] = @ + n]
                        ELSE IF old.deferred # {}
                        THEN [telemetry EXCEPT !["persistenceCensored"] = @ + 1]
                        ELSE telemetry
        /\ raced' = (raced \/ (full /\ old.persisted /\ ~old.active))
        /\ UNCHANGED <<callback, outcome>>

\* The pipeline's future: the transaction of alert and outbox, or its failure,
\* after which the context is discarded.
Commit(a) ==
    /\ stage[a] = "submitted"
    /\ stage' = [stage EXCEPT ![a] = "committed"]
    /\ UNCHANGED <<targets, order, context, callback, outcome, telemetry, raced>>

PersistFails(a) ==
    /\ stage[a] = "submitted"
    /\ stage' = [stage EXCEPT ![a] = "failed"]
    /\ Drop(a)
    /\ UNCHANGED <<targets, callback, outcome, telemetry, raced>>

-----------------------------------------------------------------------------
(* _observe_persisted_alert_timing, on the persistence thread.             *)

\* mark_persisted
MarkPersisted(a) ==
    LET done == context[a].remaining \cup context[a].deferred = {}
    IN  /\ callback = NoCallback
        /\ stage[a] = "committed"
        /\ stage' = [stage EXCEPT ![a] = "observed"]
        /\ IF ~Kept(a)
           THEN /\ telemetry' = [telemetry EXCEPT !["persistenceCensored"] = @ + 1]
                /\ UNCHANGED <<order, context, callback>>
           ELSE /\ callback' = [at |-> "register", alert |-> a, left |-> {}]
                /\ IF done THEN Drop(a)
                   ELSE context' = [context EXCEPT ![a].persisted = TRUE] /\ UNCHANGED order
                /\ UNCHANGED telemetry
        /\ UNCHANGED <<targets, outcome, raced>>

\* register_alert_delivery_targets
RegisterTargets ==
    LET n == Cardinality(targets[callback.alert])
    IN  /\ callback.at = "register"
        /\ telemetry' = [telemetry EXCEPT !["eligible"] = @ + n, !["pending"] = @ + n]
        /\ callback' = [callback EXCEPT !.at = "activate"]
        /\ UNCHANGED <<stage, targets, order, context, outcome, raced>>

\* Mutant of Activate: the outcomes deferred until then are left behind.
ActivateForgetting ==
    LET a == callback.alert
    IN  /\ callback.at = "activate"
        /\ callback' = NoCallback
        /\ context' = [context EXCEPT ![a].active = Kept(a), ![a].deferred = {}]
        /\ UNCHANGED <<stage, targets, order, outcome, telemetry, raced>>

\* activate_delivery_tracking: later outcomes count at once, earlier ones are drained.
Activate ==
    LET a == callback.alert
    IN  /\ callback.at = "activate"
        /\ IF Kept(a)
           THEN /\ callback' = [callback EXCEPT !.at = "drain", !.left = context[a].deferred]
                /\ IF context[a].remaining = {} THEN Drop(a)
                   ELSE /\ context' = [context EXCEPT ![a].active = TRUE, ![a].deferred = {}]
                        /\ UNCHANGED order
           ELSE callback' = NoCallback /\ UNCHANGED <<order, context>>
        /\ UNCHANGED <<stage, targets, outcome, telemetry, raced>>

\* record_alert_delivery_outcome
Counted(tracked) ==
    IF tracked /\ telemetry["pending"] > 0
    THEN [telemetry EXCEPT !["resolved"] = @ + 1, !["pending"] = @ - 1]
    ELSE [telemetry EXCEPT !["outcomeCensored"] = @ + 1]

Drain ==
    /\ callback.at = "drain"
    /\ IF callback.left = {}
       THEN callback' = NoCallback /\ UNCHANGED telemetry
       ELSE \E t \in callback.left :
               /\ callback' = [callback EXCEPT !.left = @ \ {t}]
               /\ telemetry' = Counted(TRUE)
    /\ UNCHANGED <<stage, targets, order, context, outcome, raced>>

-----------------------------------------------------------------------------
(* _record_initial_outcome, on a delivery thread.                          *)

\* record_initial_outcome: the outcome is tracked, deferred to the callback of an
\* alert not yet activated, or unknown and censored.
RecordOutcome(a, t) ==
    LET c == context[a]
        last == c.active /\ c.remaining = {t}
    IN  /\ stage[a] \in {"committed", "observed"} /\ t \in targets[a]
        /\ outcome[a][t] = "none"
        /\ IF t \notin c.remaining
           THEN /\ outcome' = [outcome EXCEPT ![a][t] = "final"]
                /\ telemetry' = Counted(FALSE)
                /\ UNCHANGED <<order, context>>
           ELSE /\ outcome' = [outcome EXCEPT ![a][t] = IF c.active THEN "taken" ELSE "final"]
                /\ IF last THEN Drop(a)
                   ELSE /\ context' = [context EXCEPT ![a].remaining = @ \ {t},
                                                      ![a].deferred = IF c.active THEN @ ELSE @ \cup {t}]
                        /\ UNCHANGED order
                /\ UNCHANGED telemetry
        /\ UNCHANGED <<stage, targets, callback, raced>>

CountOutcome(a, t) ==
    /\ outcome[a][t] = "taken"
    /\ outcome' = [outcome EXCEPT ![a][t] = "final"]
    /\ telemetry' = Counted(TRUE)
    /\ UNCHANGED <<stage, targets, order, context, callback, raced>>

Next ==
    \/ \E a \in Alert :
        \/ \E T \in SUBSET Target : Remember(a, T)
        \/ Commit(a) \/ PersistFails(a) \/ MarkPersisted(a)
        \/ \E t \in Target : RecordOutcome(a, t) \/ CountOutcome(a, t)
    \/ RegisterTargets \/ Activate \/ Drain

Spec == Init /\ [][Next]_vars

-----------------------------------------------------------------------------
\* The targets the telemetry still has to hear of: those of activated contexts,
\* those of the callback that has registered them, and outcomes on their way.
Awaited ==
    Cardinality({p \in Alert \X Target : context[p[1]].active /\ p[2] \in context[p[1]].remaining})
    + Cardinality({p \in Alert \X Target : outcome[p[1]][p[2]] = "taken"})
    + (IF callback = NoCallback THEN 0
       ELSE IF callback.at = "activate" THEN Cardinality(targets[callback.alert])
       ELSE Cardinality(callback.left))

\* The telemetry's pending count is exactly what it will still hear of, so every
\* eligible target ends as resolved or evicted, whichever of the outcome and the
\* callback comes first; the one exception is a context evicted from a full
\* registry between its persistence and its activation, whose targets are taken
\* off before they are added.
TimingConserved ==
    /\ ~raced => telemetry["pending"] = Awaited
    /\ telemetry["eligible"] <= telemetry["resolved"] + telemetry["pending"] + telemetry["evictedPending"]
=============================================================================
