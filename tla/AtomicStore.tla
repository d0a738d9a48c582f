----------------------------- MODULE AtomicStore -----------------------------
(***************************************************************************)
(* What the rest of the program may rely on in the capture store, without  *)
(* files, directories, syncs or cleanup: a set appears as a whole and      *)
(* once, it is promised only when no power failure can take it away, and   *)
(* what is promised stays until the user gives it up.                      *)
(***************************************************************************)
CONSTANT Sets

VARIABLES
  pending,   \* sets that may still be published
  visible,   \* sets that can be read now
  possible,  \* sets that can be read after a power failure, or not
  safe,      \* sets that can be read after any power failure
  promised   \* sets whose photos nobody else keeps

storeVars == <<pending, visible, possible, safe, promised>>

Init ==
  /\ pending = Sets
  /\ visible = {} /\ possible = {} /\ safe = {} /\ promised = {}

Publish(s) ==
  /\ s \in pending
  /\ pending' = pending \ {s}
  /\ visible' = visible \cup {s} /\ possible' = possible \cup {s}
  /\ UNCHANGED <<safe, promised>>

(* A commit that failed, or leftovers that were removed.                   *)
Forget(s) ==
  /\ s \in pending
  /\ pending' = pending \ {s}
  /\ UNCHANGED <<visible, possible, safe, promised>>

(* The drive catches up with what it shows.                                *)
Secure ==
  /\ safe' \in SUBSET visible /\ safe \subseteq safe'
  /\ possible' \in SUBSET possible /\ visible \subseteq possible'
  /\ UNCHANGED <<pending, visible, promised>>

Promise(s) ==
  /\ s \in safe
  /\ promised' = promised \cup {s}
  /\ UNCHANGED <<pending, visible, possible, safe>>

(* The user confirms the deletion of a set, and later it is gone; whether  *)
(* a power failure brings it back is open.                                 *)
GiveUp(s) ==
  /\ s \in visible
  /\ promised' = promised \ {s}
  /\ UNCHANGED <<pending, visible, possible, safe>>

Remove(s) ==
  /\ s \in visible \ promised
  /\ visible' = visible \ {s} /\ safe' = safe \ {s}
  /\ UNCHANGED <<pending, possible, promised>>

PowerFails ==
  /\ \E forgotten \in SUBSET pending : pending' = pending \ forgotten
  /\ visible' \in SUBSET possible /\ safe \subseteq visible'
  /\ safe' = visible' /\ possible' = visible'
  /\ UNCHANGED promised

Next ==
  \/ \E s \in Sets : Publish(s) \/ Forget(s) \/ Promise(s) \/ GiveUp(s) \/ Remove(s)
  \/ Secure \/ PowerFails

Spec == Init /\ [][Next]_storeVars
=============================================================================
