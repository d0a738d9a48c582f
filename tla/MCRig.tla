------------------------------- MODULE MCRig -------------------------------
(***************************************************************************)
(* Instances of Rig for TLC: two cameras.  The order of the cameras counts *)
(* only for the preview, so the runs without preview commands may exchange *)
(* the cameras.                                                            *)
(***************************************************************************)
EXTENDS Rig, TLC

CONSTANTS c1, c2

FirstThenSecond == <<c1, c2>>
CameraSymmetry == Permutations(Cameras)
=============================================================================
