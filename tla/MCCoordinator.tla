--------------------------- MODULE MCCoordinator ---------------------------
(* Coordinator on two cameras with two transactions each, a history of two *)
(* entries and at most four transactions filed.                            *)
EXTENDS Coordinator, TLC

CameraSymmetry == Permutations(Cameras)
=============================================================================
