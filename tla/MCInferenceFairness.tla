------------------------ MODULE MCInferenceFairness ------------------------
(***************************************************************************)
(* Six cameras share four workers, so that some have to wait.              *)
(***************************************************************************)
EXTENDS InferenceFairness, TLC

CONSTANTS n1, n2, n3, n4, n5, u1, u2, single, quad

\* Two urgent cameras that are not batched; four others whose frames may fill
\* the pool together.
MCMixedOrder == <<n1, u1, n2, u2, n3, n4>>
MCMixedProfiles == [c \in {n1, n2, n3, n4, u1, u2} |-> IF c \in {u1, u2} THEN single ELSE quad]
MCLimits == single :> 1 @@ quad :> 4

\* One urgent camera; nothing is batched.
MCSingleOrder == <<n1, n2, u1, n3, n4, n5>>
MCSingleProfiles == [c \in {n1, n2, n3, n4, n5, u1} |-> single]

=============================================================================
