----------------------------- MODULE MCSiteState -----------------------------
(***************************************************************************)
(* Values for the constants of SiteState.  A behaviour is one in which     *)
(* only the outbox or only the evidence moves, as subject says: they share *)
(* no state, so this shows what the interleavings would.                   *)
(***************************************************************************)
EXTENDS SiteState, TLC

CONSTANTS
    a1, a2, annotated,                      \* alerts and their image
    p1, s1, s2, new, old, first, step,      \* a process, slots, alerts, targets
    webhook, telegram

VARIABLE subject

\* Two alerts that are raised on one and the same frame.
MCContentOf == [n \in {a1, a2} \X {annotated} |-> n[2]]

\* One process with one provider worker, the initial delivery of a new alert
\* and the escalation of an alert from before the outbox, on different channels
\* and of different priority.
MCOwner == [s \in {s1, s2} |-> p1]
MCAlertOf == (first :> new) @@ (step :> old)
MCKindOf == (first :> "initial") @@ (step :> "escalation")
MCChannelOf == (first :> webhook) @@ (step :> telegram)
MCPriorityOf == (first :> 2) @@ (step :> 1)
MCDelayOf == (first :> 0) @@ (step :> 1)
MCChannelLimit == [c \in {webhook, telegram} |-> 1]

MCInit ==
    /\ SiteInit
    /\ \/ subject = "outbox"
       \/ subject = "evidence" /\ \A a \in Alert : alert[a] = "absent"

\* The subject moves.
Deliveries(A) == subject = "outbox" /\ A /\ UNCHANGED <<evidenceVars, subject>>
\* Alerts without images are alike, so a1 has the first.
Files(A) ==
    /\ subject = "evidence" /\ A
    /\ result'[a2] # "none" => result'[a1] # "none"
    /\ UNCHANGED <<vars, subject>>

MCNext == Deliveries(Next) \/ Files(Evidence!Next)

MCVars == <<vars, evidenceVars, subject>>

\* The fairness AlertEvidence states for its FairSpec.
Fairly ==
    /\ WF_evidenceVars(Files(Evidence!CreatorStep))
    /\ WF_evidenceVars(Files(Evidence!CleanerStep))
    /\ WF_evidenceVars(Files(Evidence!SettleStep))
    /\ WF_evidenceVars(Files(Evidence!Tick))

MCSpec == MCInit /\ [][MCNext]_MCVars /\ Fairly

\* What no row names is deleted in the end (AlertEvidence).
OrphansRemoved ==
    \A n \in {a1, a2} \X {annotated} :
        (subject = "evidence" /\ Evidence!Orphan(n)) ~> (~Evidence!Orphan(n) \/ cleaner.pc = "dead")
=============================================================================
