------------------------ MODULE MCInferenceScheduler ------------------------
(***************************************************************************)
(* Values for the constants of SharedInferenceScheduler: cameras whose     *)
(* frames may form batches of two.                                         *)
(***************************************************************************)
EXTENDS SharedInferenceScheduler, TLC

CONSTANTS c1, c2, pair

MCSymmetry == Permutations(Camera)
MCOneProfile == pair :> 2
MCLifetimes == {1, 3}

=============================================================================
