----------------------------- MODULE CaptureSets -----------------------------
(***************************************************************************)
(* What the grouping of node events promises to the rest of the receiver,  *)
(* without transactions, clocks or history: cameras join a set, each one's *)
(* contribution only improves, and closing the set gives every expected    *)
(* camera exactly one outcome and loses no image.  Coordinator implements  *)
(* this specification.                                                     *)
(***************************************************************************)
CONSTANT Cameras

VARIABLES fate,     \* what each camera has contributed to the open set
          outcome   \* each camera's outcome in the set closed last

Init ==
  /\ fate = [c \in Cameras |-> "absent"]
  /\ outcome = [c \in Cameras |-> "none"]

Announce(c) ==
  /\ fate[c] = "absent"
  /\ fate' = [fate EXCEPT ![c] = "started"]
  /\ UNCHANGED outcome

Report(c, contribution) ==
  /\ fate[c] \in {"started", "failed"}
  /\ fate' = [fate EXCEPT ![c] = contribution]
  /\ UNCHANGED outcome

Close ==
  /\ \E c \in Cameras : fate[c] # "absent"
  /\ outcome' = [c \in Cameras |-> IF fate[c] = "imaged" THEN "imaged" ELSE "failed"]
  /\ fate' = [c \in Cameras |-> "absent"]

Next ==
  \/ \E c \in Cameras : Announce(c) \/ Report(c, "failed") \/ Report(c, "imaged")
  \/ Close

Spec == Init /\ [][Next]_<<fate, outcome>>
=============================================================================
