------------------------------- MODULE MCStorage -------------------------------
(* Instances of Storage for TLC: the preferred drive has the later path.   *)
EXTENDS Storage

PathOrder == [d \in Drives |-> IF d = "usb1" THEN 1 ELSE 2]
=============================================================================
