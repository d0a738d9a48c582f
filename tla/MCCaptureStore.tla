--------------------------- MODULE MCCaptureStore ---------------------------
(* Instances of CaptureStore for TLC: the sets are alike, and so are the   *)
(* cameras.                                                                *)
EXTENDS CaptureStore, TLC

StoreSymmetry == Permutations(Sets) \cup Permutations(Cameras)
=============================================================================
