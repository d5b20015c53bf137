------------------------------ MODULE SiteState ------------------------------
(***************************************************************************)
(* What a site keeps across restarts: the durable outbox with its workers, *)
(* AlertDeliveryWorker, and the image files of its alerts with the threads *)
(* that write and delete them, AlertEvidence.  They share the database     *)
(* server and nothing of their state, so their steps interleave.           *)
(***************************************************************************)
EXTENDS AlertDeliveryWorker

CONSTANTS
    Pictured,   \* alerts with images
    Kind, ContentOf, CacheMax, Attempts, Grace, MaxFaults, NoAlert

VARIABLES files, age, cache, rows, late, result, creator, cleaner, origin, faults

evidenceVars == <<files, age, cache, rows, late, result, creator, cleaner, origin, faults>>

Evidence == INSTANCE AlertEvidence WITH Alert <- Pictured

SiteInit == Init /\ Evidence!Init

SiteNext ==
    \/ Next /\ UNCHANGED evidenceVars
    \/ Evidence!Next /\ UNCHANGED vars

SiteSpec == SiteInit /\ [][SiteNext]_<<vars, evidenceVars>>

\* Written evidence of an unresolved alert is never deleted (AlertEvidence).
EvidenceKept == Evidence!EvidenceKept
=============================================================================
