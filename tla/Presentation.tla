---------------------------- MODULE Presentation ----------------------------
(***************************************************************************)
(* PresentationState, the reducer of the touchscreen: what one event of    *)
(* the receiver makes of the state that is shown, as operators on records. *)
(* Reviews are numbered by their capture set; no message text is kept, but *)
(* whether a review carries one (partial).  The USB badge is left out.     *)
(***************************************************************************)
EXTENDS Integers, FiniteSets

CONSTANT Cameras

NoCam == "no camera"
NoReview == 0
Phases == {"idle", "capturing", "transferring", "building", "complete"}
Working == {"capturing", "transferring", "building"}
CameraStates == {"disconnected", "ready", "waiting", "capturing", "transferring", "complete",
                 "error"}
States == {"STARTING", "READY", "LOADING", "REVIEW", "REVIEW_WITH_ERROR", "ERROR"}

(* An event as send_status() builds it.  told: it carries the connected    *)
(* cameras; done and failed: completed_camera_ids and failed_camera_ids;   *)
(* image and manifest: of which set.                                       *)
Event(state) ==
  [state |-> state, phase |-> "", cam |-> NoCam, status |-> "", done |-> {}, failed |-> {},
   told |-> FALSE, conn |-> {}, image |-> NoReview, manifest |-> NoReview]

Starting ==
  [state |-> "STARTING", image |-> NoReview, review |-> NoReview, partial |-> FALSE,
   capturing |-> FALSE, phase |-> "idle", connected |-> {},
   cams |-> [c \in Cameras |-> "disconnected"], views |-> 0, failed |-> {}]

(* _snapshot()                                                             *)
Screen(p) ==
  IF p.capturing THEN "progress"
  ELSE IF p.image # NoReview THEN "review"
  ELSE IF p.state = "ERROR" THEN "error" ELSE "ready"

(* _apply_connected_cameras()                                              *)
WithConnected(p, e) ==
  LET conn == IF e.told THEN e.conn ELSE p.connected
      Badge(c) == CASE ~p.capturing /\ c \in conn -> "ready"
                    [] (~p.capturing \/ e.told) /\ c \notin conn -> "disconnected"
                    [] OTHER -> p.cams[c]
  IN [p EXCEPT !.connected = conn, !.cams = [c \in Cameras |-> Badge(c)]]

(* The first LOADING of a capture clears what the last one has left.       *)
Reset(p) ==
  IF p.capturing THEN p
  ELSE [p EXCEPT !.cams = [c \in Cameras |-> IF c \in p.connected THEN "waiting" ELSE "disconnected"],
                 !.failed = {}, !.views = 0]

(* Faulty variant: the phase of the event is taken as it is.               *)
PhaseTaken(p, e) == e.phase

(* _capture_phase()                                                        *)
PhaseAfter(p, e) ==
  IF e.phase \in Working THEN e.phase
  ELSE IF p.phase \in Working THEN p.phase ELSE "capturing"

(* _apply_progress(): the camera of the event, then what is complete and   *)
(* what has failed, a failure outdoing a completion.                       *)
WithProgress(p, e) ==
  LET r      == Reset(p)
      named  == IF e.cam = NoCam THEN r.cams ELSE [r.cams EXCEPT ![e.cam] = e.status]
      own    == {e.cam} \ {NoCam}
      failed == IF e.status = "complete" THEN (r.failed \cup e.failed) \ own
                ELSE r.failed \cup e.failed \cup (IF e.status = "error" THEN own ELSE {})
      done   == ({c \in Cameras : named[c] = "complete"} \cup e.done) \ failed
  IN [r EXCEPT !.capturing = TRUE,
               !.phase = PhaseAfter(p, e),
               !.cams = [c \in Cameras |-> IF c \in done THEN "complete"
                                           ELSE IF c \in failed THEN "error" ELSE named[c]],
               !.failed = failed,
               !.views = Cardinality(done),
               !.state = "LOADING", !.image = NoReview]

(* _apply_manifest(): each camera completed or failed.                     *)
WithManifest(p, e) ==
  IF e.manifest = NoReview THEN p
  ELSE [p EXCEPT !.cams = [c \in Cameras |-> IF c \in e.done THEN "complete"
                                             ELSE IF c \in e.failed THEN "error" ELSE @[c]],
                 !.views = Cardinality(e.done), !.failed = e.failed]

WithReview(p, e) ==
  LET review == IF e.image # NoReview THEN e.image ELSE p.review
  IN [WithManifest(p, e) EXCEPT
        !.capturing = FALSE, !.phase = "complete",
        !.review = review, !.image = review,
        !.partial = (e.state = "REVIEW_WITH_ERROR"), !.state = e.state]

WithReady(p) ==
  [p EXCEPT !.capturing = FALSE, !.phase = "idle", !.state = "READY", !.image = p.review]

(* An error outside a capture leaves the review, and a partial review its  *)
(* own message; an error that ends a capture shows none.                   *)
WithError(p) ==
  LET kept == IF p.capturing THEN NoReview ELSE p.review
  IN [p EXCEPT !.capturing = FALSE, !.phase = "idle", !.image = kept,
               !.state = IF kept # NoReview /\ p.partial THEN "REVIEW_WITH_ERROR" ELSE "ERROR"]

(* apply()                                                                 *)
Apply(p, e) ==
  LET q == WithConnected(p, e)
  IN CASE e.state = "LOADING" -> WithProgress(q, e)
       [] e.state \in {"REVIEW", "REVIEW_WITH_ERROR"} -> WithReview(q, e)
       [] e.state = "READY" -> WithReady(q)
       [] e.state = "ERROR" -> WithError(q)
=============================================================================
