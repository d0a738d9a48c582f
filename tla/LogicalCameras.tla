--------------------------- MODULE LogicalCameras ---------------------------
(***************************************************************************)
(* The cameras of the rig.  The configuration maps each node's permanent   *)
(* UID to one logical camera, so a camera stands for its node as well.     *)
(***************************************************************************)
EXTENDS Integers, FiniteSets

CONSTANT Cameras

ASSUME CamerasAssumption == Cameras # {} /\ IsFiniteSet(Cameras)

(* A capture transaction of a camera is a positive number; NoTx is none.   *)
NoTx == 0
=============================================================================
