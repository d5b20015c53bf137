-------------------------- MODULE MCAlertPipeline --------------------------
(***************************************************************************)
(* Values for the constants of AlertPipeline: an alert that waits for a    *)
(* full queue and an advisory one, two delivery workers.                   *)
(***************************************************************************)
EXTENDS AlertPipeline

CONSTANTS a1, n1, w1, w2

=============================================================================
