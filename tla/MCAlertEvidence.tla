-------------------------- MODULE MCAlertEvidence ---------------------------
(***************************************************************************)
(* Values for the constants of AlertEvidence: alerts raised on one and the *)
(* same frame.                                                             *)
(***************************************************************************)
EXTENDS AlertEvidence

CONSTANTS a1, a2, annotated, clean

MCSameFrame == [n \in Name |-> n[2]]

=============================================================================
