------------------------------ MODULE MCScreen ------------------------------
(* Instances of Screen for TLC: the cameras are alike.                     *)
EXTENDS Screen, TLC

CameraSymmetry == Permutations(Cameras)
=============================================================================
