----------------------------- MODULE PhotoFates -----------------------------
(***************************************************************************)
(* What the rig promises about the photos its nodes take, without links,   *)
(* sessions, clocks or tables: a photo is taken, and then it is stored     *)
(* together with the others of its capture set, or refused, or it stays    *)
(* as it is because its node was lost.  Stored and refused are final.      *)
(***************************************************************************)
EXTENDS Integers

CONSTANTS Cameras, MaxShots

VARIABLE fate   \* of the photo q of camera c, at <<c, q>>

Photo == Cameras \X (1..MaxShots)
Taken == {p \in Photo : fate[p] = "taken"}

(* A camera takes its photos one after the other.                          *)
Take(p) ==
  /\ fate[p] = "untaken"
  /\ \A q \in 1..(p[2] - 1) : fate[<<p[1], q>>] # "untaken"
  /\ fate' = [fate EXCEPT ![p] = "taken"]

OnePerCamera(S) == \A p, r \in S : p[1] = r[1] => p = r

(* A set is stored as a whole.  The answers given with it may refuse other *)
(* photos, two of a camera too: the one whose commit fails, and a later    *)
(* one that was not accepted, when that one's end closes the set.          *)
Settle(S, R) ==
  /\ OnePerCamera(S)
  /\ fate' = [p \in Photo |-> CASE p \in S     -> "stored"
                                [] p \in R \ S -> "refused"
                                [] OTHER       -> fate[p]]

Init == fate = [p \in Photo |-> "untaken"]

Next ==
  \/ \E p \in Photo : Take(p)
  \/ \E S, R \in SUBSET Taken : S \cap R = {} /\ Settle(S, R)

Spec == Init /\ [][Next]_fate
=============================================================================
