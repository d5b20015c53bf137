-------------------------- MODULE MCCameraLifecycle --------------------------
(***************************************************************************)
(* Values for the constants of CameraLifecycle.                            *)
(***************************************************************************)
EXTENDS CameraLifecycle

CONSTANTS c1, c2, h1

=============================================================================
