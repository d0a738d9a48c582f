----------------------------- MODULE MCNodeLoop -----------------------------
(* Instances of NodeLoop for TLC.                                           *)
EXTENDS NodeLoop
=============================================================================
