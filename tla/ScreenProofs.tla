----------------------------- MODULE ScreenProofs -----------------------------
(***************************************************************************)
(* Theorems about Screen, for any number of cameras, sets, events and      *)
(* faults: its types, that the preview follows the page and that no        *)
(* completion is invented.                                                 *)
(***************************************************************************)
EXTENDS Screen, FiniteSetTheorems, SequenceTheorems, TLAPS

(* What is sent and what is shown, with sets of the numbers 1..n.          *)
Sendable == {"READY", "LOADING", "REVIEW", "REVIEW_WITH_ERROR", "ERROR"}
AnyEvent(n) ==
  [state : Sendable, phase : Phases \cup {""}, cam : Cameras \cup {NoCam},
   status : CameraStates \cup {""}, done : SUBSET Cameras, failed : SUBSET Cameras,
   told : BOOLEAN, conn : SUBSET Cameras, image : 0..n, manifest : 0..n]
Named(e) == e.cam # NoCam => e.status # ""
EventType(n) == {e \in AnyEvent(n) : Named(e)}
UiType(n) ==
  [state : States, image : 0..n, review : 0..n, partial : BOOLEAN, capturing : BOOLEAN,
   phase : Phases, connected : SUBSET Cameras, cams : [Cameras -> CameraStates], views : Nat,
   failed : SUBSET Cameras]
Commands == {"CAPTURE", "PREVIEW_START", "PREVIEW_STOP"}

Shown(p) == {c \in Cameras : p.cams[c] = "complete"}
Viewed(p) == p.views = Cardinality(Shown(p)) \/ ~p.capturing

(* What is sent when a commit is over: of the next set or of none.         *)
IsResult(e, n) ==
  /\ e \in AnyEvent(n + 1) /\ e.cam = NoCam /\ e.state \in {"REVIEW", "REVIEW_WITH_ERROR", "ERROR"}
  /\ e.image \in {0, e.manifest} /\ e.manifest \in {0, n + 1}
  /\ e.manifest # 0 => n < MaxSets

SessionTypes ==
  /\ conn \subseteq Cameras /\ busy \subseteq conn
  /\ announce \in [Cameras -> [kind : {"none", "connected", "lost"}, conn : SUBSET Cameras]]
  /\ stage \in [Cameras -> {"idle", "shooting", "sent"}]
  /\ wanted \in BOOLEAN /\ sets \in 0..MaxSets /\ faults \in 0..MaxFaults
SetTypes ==
  /\ open \in BOOLEAN /\ out \in [Cameras -> Outcomes]
  /\ rejected \subseteq Cameras /\ pending \in BOOLEAN
  /\ open => closing = Nothing
  /\ closing = Nothing \/ IsResult(closing, sets)
QueueTypes == events \in Seq(EventType(sets)) /\ Len(events) <= MaxEvents
CommandTypes == commands \in Seq(Commands)
PageTypes ==
  /\ ui \in UiType(sets) /\ Viewed(ui) /\ route \in Routes
  /\ untimed \in 0..sets /\ manifests \in [1..MaxSets -> 1..MaxSets]

(* The completions that an event claims, and those that can be claimed     *)
(* when it is applied: an event other than LOADING ends the capture that   *)
(* is shown, and what was claimed before it is forgotten.                  *)
Claims(e) == e.done \cup (IF e.status = "complete" THEN {e.cam} ELSE {})
AllLoading(q, j) == \A i \in j..Len(q) : q[i].state = "LOADING"
Claimed(q, cams) == \A j \in 1..Len(q) : AllLoading(q, j) => Claims(q[j]) \subseteq cams
Delivered == Cams("done", out)
Honest ==
  closing = Nothing =>
    /\ Claimed(events, Delivered)
    /\ (ui.capturing /\ AllLoading(events, 1)) => Shown(ui) \subseteq Delivered

ScreenInv ==
  /\ SessionTypes /\ SetTypes /\ QueueTypes /\ CommandTypes /\ PageTypes
  /\ PreviewFollowsRoute /\ Honest

USE ScreenAssumption
-----------------------------------------------------------------------------
(* PresentationState.                                                      *)

LEMMA EventFields ==
  ASSUME NEW n, NEW e \in EventType(n)
  PROVE  /\ e.state \in Sendable /\ e.phase \in Phases \cup {""} /\ e.cam \in Cameras \cup {NoCam}
         /\ e.done \subseteq Cameras /\ e.failed \subseteq Cameras /\ e.told \in BOOLEAN
         /\ e.conn \subseteq Cameras /\ e.image \in 0..n /\ e.manifest \in 0..n
         /\ e.status \in CameraStates \cup {""} /\ (e.cam # NoCam => e.status \in CameraStates)
BY DEF EventType, AnyEvent, Named

LEMMA ConnectedTypes ==
  ASSUME NEW n \in Nat, NEW p \in UiType(n), NEW e \in EventType(n), NEW q, q = WithConnected(p, e)
  PROVE  /\ q \in UiType(n) /\ q.capturing = p.capturing /\ q.review = p.review /\ q.image = p.image
         /\ q.partial = p.partial /\ q.phase = p.phase
         /\ p.capturing => Shown(q) \subseteq Shown(p)
<1>1. PICK conn1 : conn1 = IF e.told THEN e.conn ELSE p.connected
  OBVIOUS
<1>2. PICK cams1 : cams1 = [c \in Cameras |-> CASE ~p.capturing /\ c \in conn1 -> "ready"
                    [] (~p.capturing \/ e.told) /\ c \notin conn1 -> "disconnected"
                    [] OTHER -> p.cams[c]]
  OBVIOUS
<1>3. conn1 \subseteq Cameras
  BY <1>1, EventFields DEF UiType
<1>4. p.cams \in [Cameras -> CameraStates] /\ p.capturing \in BOOLEAN
  BY DEF UiType
<1>5. ASSUME NEW c \in Cameras
      PROVE  cams1[c] \in CameraStates /\ ((p.capturing /\ cams1[c] = "complete") => p.cams[c] = "complete")
  <2>1. cams1[c] = CASE ~p.capturing /\ c \in conn1 -> "ready"
                    [] (~p.capturing \/ e.told) /\ c \notin conn1 -> "disconnected"
                    [] OTHER -> p.cams[c]
    BY <1>2
  <2>2. CASE ~p.capturing /\ c \in conn1
    BY <2>1, <2>2 DEF CameraStates
  <2>3. CASE (~p.capturing \/ e.told) /\ c \notin conn1
    BY <2>1, <2>3 DEF CameraStates
  <2>4. CASE ~(~p.capturing /\ c \in conn1) /\ ~((~p.capturing \/ e.told) /\ c \notin conn1)
    BY <1>4, <2>1, <2>4
  <2> QED  BY <2>2, <2>3, <2>4
<1>6. cams1 \in [Cameras -> CameraStates]
  BY <1>2, <1>5
<1>7. q = [p EXCEPT !.connected = conn1, !.cams = cams1]
  BY <1>1, <1>2 DEF WithConnected
<1>8. q \in UiType(n) /\ q.cams = cams1 /\ q.capturing = p.capturing /\ q.review = p.review
      /\ q.image = p.image /\ q.partial = p.partial /\ q.phase = p.phase
  BY <1>3, <1>6, <1>7 DEF UiType
<1> QED  BY <1>5, <1>8 DEF Shown

(* A LOADING event: what is complete then was complete before, in the same *)
(* capture, or the event says so.                                          *)
LEMMA ProgressTypes ==
  ASSUME NEW n \in Nat, NEW p \in UiType(n), NEW e \in EventType(n), NEW q, q = WithProgress(p, e)
  PROVE  /\ q \in UiType(n) /\ Viewed(q)
         /\ Shown(q) \subseteq (IF p.capturing THEN Shown(p) ELSE {}) \cup Claims(e)
<1>1. PICK r : r = Reset(p)
  OBVIOUS
<1>2. PICK named : named = IF e.cam = NoCam THEN r.cams ELSE [r.cams EXCEPT ![e.cam] = e.status]
  OBVIOUS
<1>3. PICK failed : failed = IF e.status = "complete" THEN (r.failed \cup e.failed) \ ({e.cam} \ {NoCam})
                ELSE r.failed \cup e.failed \cup (IF e.status = "error" THEN {e.cam} \ {NoCam} ELSE {})
  OBVIOUS
<1>4. PICK done : done = ({c \in Cameras : named[c] = "complete"} \cup e.done) \ failed
  OBVIOUS
<1>5. PICK cams1 : cams1 = [c \in Cameras |-> IF c \in done THEN "complete"
                                           ELSE IF c \in failed THEN "error" ELSE named[c]]
  OBVIOUS
<1>6. r \in UiType(n) /\ Shown(r) \subseteq (IF p.capturing THEN Shown(p) ELSE {})
  <2>1. CASE p.capturing
    BY <1>1, <2>1 DEF Reset
  <2>2. CASE ~p.capturing
    <3>1. PICK fresh : fresh = [c \in Cameras |-> IF c \in p.connected THEN "waiting" ELSE "disconnected"]
      OBVIOUS
    <3>2. fresh \in [Cameras -> CameraStates] /\ \A c \in Cameras : fresh[c] # "complete"
      BY <3>1 DEF CameraStates
    <3>3. r = [p EXCEPT !.cams = fresh, !.failed = {}, !.views = 0]
      BY <1>1, <2>2, <3>1 DEF Reset
    <3>4. r \in UiType(n) /\ r.cams = fresh
      BY <3>2, <3>3 DEF UiType
    <3> QED  BY <3>2, <3>4 DEF Shown
  <2> QED  BY <2>1, <2>2
<1>7. named \in [Cameras -> CameraStates]
      /\ {c \in Cameras : named[c] = "complete"} \subseteq Shown(r) \cup Claims(e)
  <2>1. r.cams \in [Cameras -> CameraStates]
    BY <1>6 DEF UiType
  <2>2. CASE e.cam = NoCam
    BY <1>2, <2>1, <2>2 DEF Shown
  <2>3. CASE e.cam # NoCam
    <3>1. e.cam \in Cameras /\ e.status \in CameraStates
      BY <2>3, EventFields
    <3>2. named = [r.cams EXCEPT ![e.cam] = e.status]
      BY <1>2, <2>3
    <3>3. named \in [Cameras -> CameraStates]
      BY <2>1, <3>1, <3>2
    <3>4. ASSUME NEW c \in Cameras, named[c] = "complete" PROVE c \in Shown(r) \cup Claims(e)
      <4>1. CASE c = e.cam
        <5>1. e.status = "complete"
          BY <2>1, <3>1, <3>2, <3>4, <4>1
        <5> QED  BY <4>1, <5>1 DEF Claims
      <4>2. CASE c # e.cam
        <5>1. r.cams[c] = "complete"
          BY <2>1, <3>2, <3>4, <4>2
        <5> QED  BY <5>1 DEF Shown
      <4> QED  BY <4>1, <4>2
    <3> QED  BY <3>3, <3>4
  <2> QED  BY <2>2, <2>3
<1>8. failed \subseteq Cameras
  <2>1. r.failed \subseteq Cameras /\ e.failed \subseteq Cameras /\ {e.cam} \ {NoCam} \subseteq Cameras
    BY <1>6, EventFields DEF UiType
  <2> QED  BY <1>3, <2>1
<1>9. done \subseteq Cameras /\ done \subseteq Shown(r) \cup Claims(e)
  <2>1. e.done \subseteq Cameras /\ e.done \subseteq Claims(e)
    BY EventFields DEF Claims
  <2> QED  BY <1>4, <1>7, <2>1
<1>10. cams1 \in [Cameras -> CameraStates] /\ {c \in Cameras : cams1[c] = "complete"} = done
  <2>1. ASSUME NEW c \in Cameras
        PROVE  cams1[c] \in CameraStates /\ (cams1[c] = "complete" <=> c \in done)
    <3>1. cams1[c] = IF c \in done THEN "complete" ELSE IF c \in failed THEN "error" ELSE named[c]
      BY <1>5
    <3>2. named[c] \in CameraStates
      BY <1>7
    <3>3. (c \notin done /\ c \notin failed) => named[c] # "complete"
      BY <1>4
    <3> QED  BY <3>1, <3>2, <3>3 DEF CameraStates
  <2> QED  BY <1>5, <1>9, <2>1
<1>11. Cardinality(done) \in Nat
  BY <1>9, FS_Subset, FS_CardinalityType
<1>12. PICK phase : phase = PhaseAfter(p, e)
  OBVIOUS
<1>13. phase \in Phases
  BY <1>12 DEF PhaseAfter, Phases, Working
<1>14. q = [r EXCEPT !.capturing = TRUE, !.phase = phase, !.cams = cams1, !.failed = failed,
                     !.views = Cardinality(done), !.state = "LOADING", !.image = NoReview]
  BY <1>1, <1>2, <1>3, <1>4, <1>5, <1>12 DEF WithProgress
<1>15. q \in UiType(n) /\ q.cams = cams1 /\ q.views = Cardinality(done)
  <2>1. PICK v \in Nat : v = Cardinality(done)
    BY <1>11
  <2>2. "LOADING" \in States /\ NoReview \in 0..n
    BY DEF States, NoReview
  <2>3. q = [r EXCEPT !.capturing = TRUE, !.phase = phase, !.cams = cams1, !.failed = failed,
                      !.views = v, !.state = "LOADING", !.image = NoReview]
    BY <1>14, <2>1
  <2>4. q.cams = cams1 /\ q.views = v
    BY <1>6, <2>3 DEF UiType
  <2>5. q \in UiType(n)
    BY <1>6, <1>8, <1>10, <1>13, <2>2, <2>3, ZenonT(40) DEF UiType
  <2> QED  BY <2>1, <2>4, <2>5
<1>16. Shown(q) = done
  BY <1>10, <1>15 DEF Shown
<1> QED  BY <1>6, <1>9, <1>15, <1>16 DEF Viewed

(* Every other event ends the capture that is shown.                       *)
LEMMA ReviewTypes ==
  ASSUME NEW n \in Nat, NEW p \in UiType(n), NEW e \in EventType(n), NEW q, q = WithReview(p, e),
         e.state \in {"REVIEW", "REVIEW_WITH_ERROR"}
  PROVE  q \in UiType(n) /\ ~q.capturing
<1>1. PICK r : r = WithManifest(p, e)
  OBVIOUS
<1>2. r \in UiType(n)
  <2>1. CASE e.manifest = NoReview
    BY <1>1, <2>1 DEF WithManifest
  <2>2. CASE e.manifest # NoReview
    <3>1. PICK cams1 : cams1 = [c \in Cameras |-> IF c \in e.done THEN "complete"
                                             ELSE IF c \in e.failed THEN "error" ELSE p.cams[c]]
      OBVIOUS
    <3>2. p.cams \in [Cameras -> CameraStates]
      BY DEF UiType
    <3>3. cams1 \in [Cameras -> CameraStates]
      BY <3>1, <3>2 DEF CameraStates
    <3>4. Cardinality(e.done) \in Nat /\ e.failed \subseteq Cameras
      BY EventFields, FS_Subset, FS_CardinalityType
    <3>5. r = [p EXCEPT !.cams = cams1, !.views = Cardinality(e.done), !.failed = e.failed]
      BY <1>1, <2>2, <3>1 DEF WithManifest, UiType
    <3> QED  BY <3>3, <3>4, <3>5 DEF UiType
  <2> QED  BY <2>1, <2>2
<1>3. PICK review : review = IF e.image # NoReview THEN e.image ELSE p.review
  OBVIOUS
<1>4. review \in 0..n
  BY <1>3, EventFields DEF UiType
<1>5. PICK partial \in BOOLEAN : partial = (e.state = "REVIEW_WITH_ERROR")
  BY Zenon
<1>6. q = [r EXCEPT !.capturing = FALSE, !.phase = "complete", !.review = review, !.image = review,
                    !.partial = partial, !.state = e.state]
  BY Zenon, <1>1, <1>3, <1>5 DEF WithReview
<1> QED  BY <1>2, <1>4, <1>6, ZenonT(40) DEF UiType, States, Phases

LEMMA ErrorTypes ==
  ASSUME NEW n \in Nat, NEW p \in UiType(n)
  PROVE  /\ WithReady(p) \in UiType(n) /\ ~WithReady(p).capturing
         /\ WithError(p) \in UiType(n) /\ ~WithError(p).capturing
<1>1. WithReady(p) \in UiType(n) /\ ~WithReady(p).capturing
  BY DEF WithReady, UiType, States, Phases
<1>2. WithError(p) \in UiType(n) /\ ~WithError(p).capturing
  <2>1. PICK kept : kept = IF p.capturing THEN NoReview ELSE p.review
    OBVIOUS
  <2>2. PICK st : st = IF kept # NoReview /\ p.partial THEN "REVIEW_WITH_ERROR" ELSE "ERROR"
    OBVIOUS
  <2>3. kept \in 0..n /\ st \in States
    BY <2>1, <2>2 DEF UiType, NoReview, States
  <2>4. WithError(p) = [p EXCEPT !.capturing = FALSE, !.phase = "idle", !.image = kept, !.state = st]
    BY <2>1, <2>2 DEF WithError
  <2> QED  BY <2>3, <2>4 DEF UiType, Phases
<1> QED  BY <1>1, <1>2

LEMMA ApplyTypes ==
  ASSUME NEW n \in Nat, NEW p \in UiType(n), NEW e \in EventType(n), NEW q, q = Apply(p, e)
  PROVE  /\ q \in UiType(n) /\ Viewed(q)
         /\ e.state # "LOADING" => ~q.capturing
         /\ e.state = "LOADING" => Shown(q) \subseteq (IF p.capturing THEN Shown(p) ELSE {}) \cup Claims(e)
<1>1. PICK r : r = WithConnected(p, e)
  OBVIOUS
<1>2. r \in UiType(n) /\ r.capturing = p.capturing /\ (p.capturing => Shown(r) \subseteq Shown(p))
  BY <1>1, ConnectedTypes
<1>3. e.state \in Sendable
  BY EventFields
<1>4. CASE e.state = "LOADING"
  <2>1. q = WithProgress(r, e)
    BY <1>1, <1>4 DEF Apply
  <2>2. q \in UiType(n) /\ Viewed(q) /\ Shown(q) \subseteq (IF r.capturing THEN Shown(r) ELSE {}) \cup Claims(e)
    BY <1>2, <2>1, ProgressTypes
  <2> QED  BY <1>2, <1>4, <2>2
<1>5. CASE e.state \in {"REVIEW", "REVIEW_WITH_ERROR"}
  <2>1. q = WithReview(r, e)
    BY <1>1, <1>5 DEF Apply
  <2> QED  BY <1>2, <1>5, <2>1, ReviewTypes DEF Viewed
<1>6. CASE e.state = "READY"
  <2>1. q = WithReady(r)
    BY <1>1, <1>6 DEF Apply
  <2> QED  BY <1>2, <1>6, <2>1, ErrorTypes DEF Viewed
<1>7. CASE e.state = "ERROR"
  <2>1. q = WithError(r)
    BY <1>1, <1>7 DEF Apply
  <2> QED  BY <1>2, <1>7, <2>1, ErrorTypes DEF Viewed
<1> QED  BY <1>3, <1>4, <1>5, <1>6, <1>7 DEF Sendable

-----------------------------------------------------------------------------
(* The events that are sent.                                               *)

Fine(e, n, cams) == e \in EventType(n) /\ (e.state = "LOADING" => Claims(e) \subseteq cams)

LEMMA Larger ==
  ASSUME NEW n \in Nat, NEW m \in Nat, n <= m
  PROVE  EventType(n) \subseteq EventType(m) /\ UiType(n) \subseteq UiType(m)
<1>1. 0..n \subseteq 0..m
  OBVIOUS
<1>2. EventType(n) \subseteq EventType(m)
  BY <1>1 DEF EventType, AnyEvent
<1>3. UiType(n) \subseteq UiType(m)
  BY <1>1 DEF UiType
<1> QED  BY <1>2, <1>3

LEMMA EventMade ==
  ASSUME NEW n \in Nat, NEW cams, NEW state \in Sendable \ {"LOADING"}
  PROVE  Fine(Event(state), n, cams)
<1>1. PICK no \in BOOLEAN : no = FALSE
  BY Zenon
<1>2. PICK e : e = Event(state)
  OBVIOUS
<1>3. e = [state |-> state, phase |-> "", cam |-> NoCam, status |-> "", done |-> {},
           failed |-> {}, told |-> no, conn |-> {}, image |-> 0, manifest |-> 0]
  BY Zenon, <1>1, <1>2 DEF Event, NoReview
<1>4. e.state # "LOADING" /\ e.cam = NoCam
  BY <1>3
<1>5. 0 \in 0..n
  OBVIOUS
<1>6. e \in AnyEvent(n)
  BY <1>3, <1>5 DEF AnyEvent
<1> QED  BY <1>2, <1>4, <1>6 DEF Fine, EventType, Named

LEMMA ZeroIsIn ==
  ASSUME NEW n \in Nat
  PROVE  0 \in 0..n
OBVIOUS

(* A LOADING event has a camera with its status, or neither.               *)
Reports(c, status) ==
  \/ c = NoCam /\ status = ""
  \/ c \in Cameras /\ status \in {"capturing", "transferring", "error", "complete"}
IsLoading(e, n, c, status) ==
  e \in EventType(n) /\ e.state = "LOADING" /\ e.cam = c /\ e.status = status

LEMMA LoadingMade ==
  ASSUME NEW n \in Nat, NEW cams, NEW phase \in Phases \cup {""}, NEW c, NEW status, Reports(c, status)
  PROVE  /\ IsLoading(Loading(phase, c, status), n, c, status)
         /\ status # "complete" => Fine(Loading(phase, c, status), n, cams)
<1>1. PICK failed : failed = IF status = "error" THEN {c} ELSE {}
  OBVIOUS
<1>2. PICK e : e = Loading(phase, c, status)
  OBVIOUS
<1>3. PICK no \in BOOLEAN : no = FALSE
  BY Zenon
<1>4. 0 \in 0..n
  BY ZeroIsIn
<1>5. e = [state |-> "LOADING", phase |-> phase, cam |-> c, status |-> status, done |-> {},
           failed |-> failed, told |-> no, conn |-> {}, image |-> 0, manifest |-> 0]
  <2>1. e = [state |-> "LOADING", phase |-> phase, cam |-> c, status |-> status, done |-> {},
             failed |-> failed, told |-> FALSE, conn |-> {}, image |-> 0, manifest |-> 0]
    BY <1>1, <1>2 DEF Loading, Event, NoReview
  <2> QED  BY Zenon, <1>3, <2>1
<1>6. failed \subseteq Cameras /\ c \in Cameras \cup {NoCam} /\ status \in CameraStates \cup {""}
  BY <1>1 DEF CameraStates, Reports
<1>7. c # NoCam => status # ""
  BY DEF Reports
<1>8. e \in AnyEvent(n)
  BY <1>5, <1>6, <1>4 DEF AnyEvent, Sendable
<1>9. e.state = "LOADING" /\ e.cam = c /\ e.status = status /\ e.done = {}
  BY <1>5
<1>10. e \in EventType(n)
  BY <1>7, <1>8, <1>9 DEF EventType, Named
<1>11. status # "complete" => Claims(e) = {}
  BY <1>9 DEF Claims
<1> QED  BY <1>2, <1>9, <1>10, <1>11 DEF Fine, IsLoading

LEMMA ToldMade ==
  ASSUME NEW n \in Nat, NEW cams, NEW e, Fine(e, n, cams), NEW told \in SUBSET Cameras
  PROVE  Fine(Told(e, told), n, cams)
<1>1. PICK t : t = [e EXCEPT !.told = TRUE, !.conn = told]
  OBVIOUS
<1>2. e \in AnyEvent(n) /\ Named(e) /\ (e.state = "LOADING" => Claims(e) \subseteq cams)
  BY DEF Fine, EventType
<1>3. /\ t \in AnyEvent(n) /\ t.state = e.state /\ t.cam = e.cam /\ t.status = e.status
      /\ t.done = e.done
  BY <1>1, <1>2 DEF AnyEvent
<1> QED  BY <1>1, <1>2, <1>3 DEF Fine, EventType, Named, Claims, Told

(* The event of a lost session, and that of an error outside a set.        *)
LEMMA LostMade ==
  ASSUME NEW n \in Nat, NEW cams, NEW c \in Cameras, NEW state \in {"LOADING", "ERROR"},
         NEW phase \in {"", "transferring"}
  PROVE  /\ Fine([Loading(phase, c, "error") EXCEPT !.failed = {}, !.state = state], n, cams)
         /\ Fine([Loading(phase, c, "error") EXCEPT !.state = state], n, cams)
<1>1. PICK e : e = Loading(phase, c, "error")
  OBVIOUS
<1>2. phase \in Phases \cup {""}
  BY DEF Phases
<1>3. Fine(e, n, cams) /\ e.state = "LOADING" /\ e.cam = c
  <2>1. PICK status : status = "error"
    OBVIOUS
  <2>2. Reports(c, status) /\ status # "complete"
    BY <2>1 DEF Reports
  <2>3. IsLoading(Loading(phase, c, status), n, c, status) /\ Fine(Loading(phase, c, status), n, cams)
    BY <1>2, <2>2, LoadingMade
  <2> QED  BY <1>1, <2>1, <2>3 DEF IsLoading
<1>4. e \in AnyEvent(n) /\ Named(e) /\ Claims(e) \subseteq cams
  BY <1>3 DEF Fine, EventType
<1>5. ASSUME NEW t, t = [e EXCEPT !.failed = {}, !.state = state] \/ t = [e EXCEPT !.state = state]
      PROVE  Fine(t, n, cams)
  <2>1. /\ t \in AnyEvent(n) /\ t.cam = e.cam /\ t.status = e.status /\ t.done = e.done
    BY <1>4, <1>5, ZenonT(40) DEF AnyEvent, Sendable
  <2> QED  BY <1>4, <2>1 DEF Fine, EventType, Named, Claims
<1> QED  BY <1>1, <1>5

LEMMA CompleteMade ==
  ASSUME NEW n \in Nat, NEW cams \in SUBSET Cameras, NEW c \in cams
  PROVE  Fine([Loading("transferring", c, "complete") EXCEPT !.done = cams], n, cams)
<1>1. PICK e, t : e = Loading("transferring", c, "complete") /\ t = [e EXCEPT !.done = cams]
  OBVIOUS
<1>2. e \in EventType(n) /\ e.cam = c /\ e.status = "complete" /\ c \in Cameras
  <2>1. PICK phase, status : phase = "transferring" /\ status = "complete"
    OBVIOUS
  <2>2. phase \in Phases \cup {""} /\ Reports(c, status)
    BY <2>1 DEF Phases, Reports
  <2>3. IsLoading(Loading(phase, c, status), n, c, status)
    BY <2>2, LoadingMade
  <2> QED  BY <1>1, <2>1, <2>3 DEF IsLoading
<1>3. e \in AnyEvent(n) /\ Named(e)
  BY <1>2 DEF EventType
<1>4. t \in AnyEvent(n) /\ t.cam = e.cam /\ t.status = e.status /\ t.done = cams
  BY <1>1, <1>3 DEF AnyEvent
<1> QED  BY <1>1, <1>2, <1>3, <1>4 DEF Fine, EventType, Named, Claims

LEMMA BuildingMade ==
  ASSUME NEW n \in Nat, NEW done \in SUBSET Cameras
  PROVE  [Loading("building", NoCam, "") EXCEPT !.done = done, !.failed = Cameras \ done] \in EventType(n)
<1>1. PICK e : e = Loading("building", NoCam, "")
  OBVIOUS
<1>2. e \in EventType(n)
  <2>1. PICK phase, status : phase = "building" /\ status = ""
    OBVIOUS
  <2>2. phase \in Phases \cup {""} /\ Reports(NoCam, status)
    BY <2>1 DEF Phases, Reports
  <2>3. IsLoading(Loading(phase, NoCam, status), n, NoCam, status)
    BY <2>2, LoadingMade
  <2> QED  BY <1>1, <2>1, <2>3 DEF IsLoading
<1>3. e \in AnyEvent(n) /\ Named(e)
  BY <1>2 DEF EventType
<1>4. PICK t : t = [e EXCEPT !.done = done, !.failed = Cameras \ done]
  OBVIOUS
<1>5. t \in AnyEvent(n) /\ t.cam = e.cam /\ t.status = e.status
  BY <1>3, <1>4 DEF AnyEvent
<1> QED  BY <1>1, <1>3, <1>4, <1>5 DEF EventType, Named

LEMMA ResultMade ==
  ASSUME NEW done \in SUBSET Cameras, sets \in Nat, sets < MaxSets
  PROVE  IsResult(Result(done), sets) /\ Result(done) # Nothing
<1>1. PICK e : e = [Event("") EXCEPT !.done = done, !.failed = Cameras \ done, !.manifest = sets + 1]
  OBVIOUS
<1>2. e = [state |-> "", phase |-> "", cam |-> NoCam, status |-> "", done |-> done,
           failed |-> Cameras \ done, told |-> FALSE, conn |-> {}, image |-> 0, manifest |-> sets + 1]
  BY <1>1 DEF Event, NoReview
<1>3. PICK no \in BOOLEAN : no = FALSE
  BY Zenon
<1>4. PICK r : r = Result(done)
  OBVIOUS
<1>5. PICK state \in {"REVIEW", "REVIEW_WITH_ERROR", "ERROR"}, image \in {0, sets + 1} :
        r = [state |-> state, phase |-> "", cam |-> NoCam, status |-> "", done |-> done,
             failed |-> Cameras \ done, told |-> no, conn |-> {}, image |-> image, manifest |-> sets + 1]
  <2>1. PICK state \in {"REVIEW", "REVIEW_WITH_ERROR", "ERROR"}, image \in {0, sets + 1} :
          \/ r = [e EXCEPT !.state = state, !.image = image]
          \/ r = [e EXCEPT !.state = state] /\ image = 0
    BY <1>1, <1>4 DEF Result
  <2>2. r = [state |-> state, phase |-> "", cam |-> NoCam, status |-> "", done |-> done,
             failed |-> Cameras \ done, told |-> FALSE, conn |-> {}, image |-> image, manifest |-> sets + 1]
    BY <1>2, <2>1
  <2>3. r = [state |-> state, phase |-> "", cam |-> NoCam, status |-> "", done |-> done,
             failed |-> Cameras \ done, told |-> no, conn |-> {}, image |-> image, manifest |-> sets + 1]
    BY Zenon, <1>3, <2>2
  <2> QED  BY <2>3
<1>6. r \in AnyEvent(sets + 1)
  <2>1. image \in 0..(sets + 1) /\ sets + 1 \in 0..(sets + 1)
    OBVIOUS
  <2> QED  BY <1>5, <2>1 DEF AnyEvent, Sendable
<1>7. r.state = state /\ r.cam = NoCam /\ r.image = image /\ r.manifest = sets + 1
  BY <1>5
<1>8. Nothing.state = ""
  BY DEF Nothing, Event
<1> QED  BY <1>4, <1>6, <1>7, <1>8 DEF IsResult

LEMMA ErrorResult ==
  ASSUME sets \in Nat
  PROVE  IsResult(Event("ERROR"), sets) /\ Event("ERROR") # Nothing
<1>1. Nothing.state = ""
  BY DEF Nothing, Event
<1>2. PICK e : e = Event("ERROR")
  OBVIOUS
<1>3. e.state = "ERROR" /\ e.cam = NoCam /\ e.image = 0 /\ e.manifest = 0
  BY <1>2 DEF Event, NoReview
<1>4. PICK state \in Sendable \ {"LOADING"} : state = "ERROR"
  BY DEF Sendable
<1>5. Fine(Event(state), sets + 1, {})
  BY EventMade
<1>6. e \in AnyEvent(sets + 1)
  BY <1>2, <1>4, <1>5 DEF Fine, EventType
<1> QED  BY <1>1, <1>2, <1>3, <1>6 DEF IsResult

(* The queue q, with x behind it.                                          *)
Joins(r, q, x) == r = q \o x

LEMMA QueueGrows ==
  ASSUME NEW T, NEW q \in Seq(T), NEW x \in Seq(T), NEW r, Joins(r, q, x)
  PROVE  /\ r \in Seq(T) /\ Len(r) = Len(q) + Len(x) /\ Len(q) \in Nat /\ Len(x) \in Nat
         /\ \A i \in 1..Len(q) : r[i] = q[i]
         /\ \A i \in 1..Len(r) : i \notin 1..Len(q) => i - Len(q) \in 1..Len(x) /\ r[i] = x[i - Len(q)]
         /\ \A i \in 1..Len(x) : r[Len(q) + i] = x[i]
<1>1. /\ r \in Seq(T) /\ Len(r) = Len(q) + Len(x) /\ Len(q) \in Nat /\ Len(x) \in Nat
      /\ \A i \in 1..(Len(q) + Len(x)) : r[i] = IF i <= Len(q) THEN q[i] ELSE x[i - Len(q)]
  BY ConcatProperties, LenProperties DEF Joins
<1>2. PICK N, K : N = Len(q) /\ K = Len(x)
  OBVIOUS
<1>3. N \in Nat /\ K \in Nat /\ \A i \in 1..(N + K) : r[i] = IF i <= N THEN q[i] ELSE x[i - N]
  BY <1>1, <1>2
<1>4. \A i \in 1..N : r[i] = q[i]
  BY <1>3
<1>5. ASSUME NEW i \in 1..(N + K), i \notin 1..N PROVE i - N \in 1..K /\ r[i] = x[i - N]
  BY <1>3, <1>5
<1>6. ASSUME NEW i \in 1..K PROVE r[N + i] = x[i]
  <2>1. PICK j : j = N + i
    OBVIOUS
  <2>2. j \in 1..(N + K) /\ ~(j <= N) /\ j - N = i
    BY <1>3, <2>1
  <2> QED  BY <1>3, <2>1, <2>2
<1> QED  BY <1>1, <1>2, <1>4, <1>5, <1>6

LEMMA ClaimsGrow ==
  ASSUME NEW n, NEW q \in Seq(EventType(n)), NEW x \in Seq(EventType(n)), NEW r, Joins(r, q, x),
         NEW cams, NEW more, cams \subseteq more, Claimed(q, cams),
         \A i \in 1..Len(x) : Fine(x[i], n, more)
  PROVE  Claimed(r, more) /\ (AllLoading(r, 1) => AllLoading(q, 1))
<1>1. PICK N, K : N = Len(q) /\ K = Len(x)
  OBVIOUS
<1>2. /\ N \in Nat /\ K \in Nat /\ Len(r) = N + K
      /\ \A i \in 1..N : r[i] = q[i]
      /\ \A i \in 1..(N + K) : i \notin 1..N => i - N \in 1..K /\ r[i] = x[i - N]
  BY <1>1, QueueGrows
<1>3. ASSUME NEW j \in 1..N, AllLoading(r, j) PROVE AllLoading(q, j)
  <2>1. ASSUME NEW i \in j..N PROVE q[i].state = "LOADING"
    <3>1. i \in j..(N + K) /\ i \in 1..N
      BY <1>2
    <3> QED  BY <1>2, <1>3, <3>1 DEF AllLoading
  <2> QED  BY <1>1, <2>1 DEF AllLoading
<1>4. ASSUME NEW j \in 1..(N + K), AllLoading(r, j) PROVE Claims(r[j]) \subseteq more
  <2>1. CASE j \in 1..N
    <3>1. Claims(q[j]) \subseteq cams
      BY <1>1, <1>3, <1>4, <2>1 DEF Claimed
    <3> QED  BY <1>2, <2>1, <3>1
  <2>2. CASE j \notin 1..N
    <3>1. j - N \in 1..K /\ r[j] = x[j - N]
      BY <1>2, <2>2
    <3>2. Fine(r[j], n, more)
      BY <1>1, <3>1
    <3>3. r[j].state = "LOADING"
      <4>1. j \in j..(N + K)
        OBVIOUS
      <4> QED  BY <1>2, <1>4, <4>1 DEF AllLoading
    <3> QED  BY <3>2, <3>3 DEF Fine
  <2> QED  BY <2>1, <2>2
<1>5. AllLoading(r, 1) => AllLoading(q, 1)
  <2>1. CASE N = 0
    BY <1>1, <2>1 DEF AllLoading
  <2>2. CASE N # 0
    BY <1>2, <1>3, <2>2
  <2> QED  BY <2>1, <2>2
<1> QED  BY <1>2, <1>4, <1>5 DEF Claimed

(* An event other than LOADING ends all claims.                            *)
LEMMA ClaimsEnd ==
  ASSUME NEW T, NEW q \in Seq(T), NEW e \in T, NEW r, Joins(r, q, <<e>>), e.state # "LOADING", NEW cams
  PROVE  Claimed(r, cams) /\ ~AllLoading(r, 1)
<1>1. PICK N : N = Len(q)
  OBVIOUS
<1>2. N \in Nat /\ Len(r) = N + 1 /\ r[N + 1] = e
  <2>1. PICK x : x = <<e>>
    OBVIOUS
  <2>2. Len(x) = 1 /\ x[1] = e
    BY <2>1
  <2>3. x \in Seq(T) /\ Joins(r, q, x)
    BY <2>1
  <2>4. Len(r) = Len(q) + Len(x) /\ Len(q) \in Nat /\ \A i \in 1..Len(x) : r[Len(q) + i] = x[i]
    BY <2>3, QueueGrows
  <2>5. PICK K : K = Len(x)
    OBVIOUS
  <2>6. K = 1 /\ Len(r) = N + K /\ N \in Nat /\ \A i \in 1..K : r[N + i] = x[i]
    BY <1>1, <2>2, <2>4, <2>5
  <2>7. 1 \in 1..K
    BY <2>6
  <2> QED  BY <2>2, <2>6, <2>7
<1>3. ASSUME NEW j \in 1..(N + 1) PROVE ~AllLoading(r, j)
  <2>1. N + 1 \in j..(N + 1)
    BY <1>2
  <2> QED  BY <1>2, <2>1 DEF AllLoading
<1>4. 1 \in 1..(N + 1)
  BY <1>2
<1> QED  BY <1>2, <1>3, <1>4 DEF Claimed

(* The first event is taken.                                               *)
Rest(r, q) == r = Tail(q)

LEMMA ClaimsTaken ==
  ASSUME NEW T, NEW q \in Seq(T), q # <<>>, NEW r, Rest(r, q), NEW cams, Claimed(q, cams)
  PROVE  /\ r \in Seq(T) /\ Head(q) = q[1] /\ q[1] \in T /\ Len(r) = Len(q) - 1 /\ Len(q) \in Nat
         /\ Claimed(r, cams)
         /\ (q[1].state = "LOADING" /\ AllLoading(r, 1)) =>
              AllLoading(q, 1) /\ Claims(q[1]) \subseteq cams
<1>1. PICK N : N = Len(q)
  OBVIOUS
<1>2. N \in Nat \ {0} /\ q[1] \in T
  BY <1>1, LenProperties, EmptySeq
<1>3. r \in Seq(T) /\ Len(r) = N - 1 /\ Head(q) = q[1] /\ \A i \in 1..Len(r) : r[i] = q[i + 1]
  BY <1>1, HeadTailProperties DEF Rest
<1>4. ASSUME NEW j \in 1..(N - 1), AllLoading(r, j) PROVE AllLoading(q, j + 1)
  <2>1. ASSUME NEW i \in (j + 1)..N PROVE q[i].state = "LOADING"
    <3>1. PICK l : l = i - 1
      OBVIOUS
    <3>2. l \in j..(N - 1) /\ l \in 1..(N - 1) /\ i = l + 1
      BY <1>2, <3>1
    <3>3. r[l].state = "LOADING" /\ r[l] = q[l + 1]
      BY <1>3, <1>4, <3>2 DEF AllLoading
    <3> QED  BY <3>2, <3>3
  <2> QED  BY <1>1, <2>1 DEF AllLoading
<1>5. ASSUME NEW j \in 1..(N - 1), AllLoading(r, j) PROVE Claims(r[j]) \subseteq cams
  <2>1. j + 1 \in 1..N
    BY <1>2
  <2>2. Claims(q[j + 1]) \subseteq cams
    BY <1>1, <1>4, <1>5, <2>1 DEF Claimed
  <2> QED  BY <1>3, <2>2
<1>6. ASSUME q[1].state = "LOADING", AllLoading(r, 1) PROVE AllLoading(q, 1)
  <2>1. ASSUME NEW i \in 1..N, i # 1 PROVE q[i].state = "LOADING"
    <3>1. 1 \in 1..(N - 1) /\ i \in (1 + 1)..N
      BY <1>2, <2>1
    <3>2. AllLoading(q, 1 + 1)
      BY <1>4, <1>6, <3>1
    <3> QED  BY <1>1, <3>1, <3>2 DEF AllLoading
  <2> QED  BY <1>1, <1>6, <2>1 DEF AllLoading
<1>7. 1 \in 1..N
  BY <1>2
<1>8. Claimed(r, cams)
  BY <1>3, <1>5 DEF Claimed
<1>9. (q[1].state = "LOADING" /\ AllLoading(r, 1)) => AllLoading(q, 1) /\ Claims(q[1]) \subseteq cams
  BY <1>1, <1>6, <1>7 DEF Claimed
<1> QED  BY <1>1, <1>2, <1>3, <1>8, <1>9

-----------------------------------------------------------------------------
(* What a step of the receiver leaves.                                     *)

AllFine(x, n, cams) == x \in Seq(EventType(n)) /\ \A i \in 1..Len(x) : Fine(x[i], n, cams)

LEMMA OneFine ==
  ASSUME NEW n, NEW cams, NEW e, Fine(e, n, cams)
  PROVE  AllFine(<<e>>, n, cams)
<1>1. e \in EventType(n)
  BY DEF Fine
<1>2. PICK x : x = <<e>>
  OBVIOUS
<1>3. x \in Seq(EventType(n)) /\ Len(x) = 1 /\ x[1] = e
  BY <1>1, <1>2
<1> QED  BY <1>2, <1>3 DEF AllFine

LEMMA NoneFine ==
  ASSUME NEW n, NEW cams
  PROVE  AllFine(<<>>, n, cams)
BY DEF AllFine

LEMMA SentTypes ==
  ASSUME QueueTypes, NEW x \in Seq(EventType(sets)), Send(x), sets' = sets
  PROVE  QueueTypes'
<1>1. Joins(events', events, x) /\ Len(events) + Len(x) <= MaxEvents
  BY DEF Send, Joins
<1>2. events \in Seq(EventType(sets))
  BY DEF QueueTypes
<1>3. events' \in Seq(EventType(sets)) /\ Len(events') = Len(events) + Len(x)
  BY <1>1, <1>2, QueueGrows
<1> QED  BY <1>1, <1>3 DEF QueueTypes

(* The set that is collected stays what it is, or grows by a photo.        *)
LEMMA SentKeeps ==
  ASSUME QueueTypes, Honest, NEW x, AllFine(x, sets, Delivered'), Send(x),
         sets' = sets, ui' = ui, closing # Nothing => closing' # Nothing, Delivered \subseteq Delivered'
  PROVE  QueueTypes' /\ Honest'
<1>1. x \in Seq(EventType(sets)) /\ \A i \in 1..Len(x) : Fine(x[i], sets, Delivered')
  BY DEF AllFine
<1>2. QueueTypes'
  BY <1>1, SentTypes
<1>3. ASSUME closing' = Nothing
      PROVE  /\ Claimed(events', Delivered')
             /\ (ui'.capturing /\ AllLoading(events', 1)) => Shown(ui') \subseteq Delivered'
  <2>1. /\ Claimed(events, Delivered)
        /\ (ui.capturing /\ AllLoading(events, 1)) => Shown(ui) \subseteq Delivered
    BY <1>3 DEF Honest
  <2>2. Joins(events', events, x) /\ events \in Seq(EventType(sets))
    BY DEF Send, Joins, QueueTypes
  <2>3. Claimed(events', Delivered') /\ (AllLoading(events', 1) => AllLoading(events, 1))
    BY <1>1, <2>1, <2>2, ClaimsGrow
  <2> QED  BY <2>1, <2>3
<1>4. (closing = Nothing)' => closing' = Nothing
  BY DEF Nothing, Event
<1> QED  BY <1>2, <1>3, <1>4 DEF Honest

LEMMA SilentKeeps ==
  ASSUME QueueTypes, Honest, UNCHANGED <<events, sets, ui, closing>>, Delivered \subseteq Delivered'
  PROVE  QueueTypes' /\ Honest'
<1>1. QueueTypes'
  BY DEF QueueTypes
<1>2. Claimed(events, Delivered) => Claimed(events, Delivered')
  BY DEF Claimed
<1> QED  BY <1>1, <1>2 DEF Honest, Nothing

(* The receiver never touches the screen.                                  *)
LEMMA ScreenKept ==
  ASSUME ScreenInv, UNCHANGED <<commands, screenVars, wanted, sets>>
  PROVE  CommandTypes' /\ PageTypes' /\ PreviewFollowsRoute'
<1>1. CommandTypes' /\ PageTypes'
  BY DEF ScreenInv, CommandTypes, PageTypes, screenVars, timing
<1>2. PreviewFollowsRoute'
  BY DEF ScreenInv, PreviewFollowsRoute, WantedAfter, screenVars
<1> QED  BY <1>1, <1>2

LEMMA FinalizeKeeps ==
  ASSUME SetTypes, QueueTypes, NEW outs \in [Cameras -> Outcomes], NEW sent \in Seq(EventType(sets)),
         sets \in 0..MaxSets, Finalize(outs, sent), sets' = sets
  PROVE  SetTypes' /\ QueueTypes' /\ Honest'
<1>1. PICK done : done = Cams("done", outs)
  OBVIOUS
<1>2. PICK building :
        building = [Loading("building", NoCam, "") EXCEPT !.done = done, !.failed = Cameras \ done]
  OBVIOUS
<1>3. /\ open' = FALSE /\ out' = [c \in Cameras |-> "none"] /\ rejected' = {} /\ pending' = FALSE
      /\ Send(sent \o <<building>>)
      /\ (sets < MaxSets /\ closing' = Result(done)) \/ closing' = Event("ERROR")
  BY <1>1, <1>2 DEF Finalize
<1>4. done \in SUBSET Cameras
  BY <1>1 DEF Cams
<1>5. sets \in Nat
  OBVIOUS
<1>6. IsResult(closing', sets) /\ closing' # Nothing
  BY <1>3, <1>4, <1>5, ResultMade, ErrorResult
<1>7. building \in EventType(sets)
  BY <1>2, <1>4, <1>5, BuildingMade
<1>8. PICK x : x = sent \o <<building>>
  OBVIOUS
<1>9. x \in Seq(EventType(sets))
  BY <1>7, <1>8, ConcatProperties
<1>10. QueueTypes'
  BY <1>3, <1>8, <1>9, SentTypes
<1>11. Nothing' = Nothing
  BY DEF Nothing, Event
<1>12. Honest'
  BY <1>6, <1>11 DEF Honest
<1>13. SetTypes'
  BY <1>3, <1>6 DEF SetTypes, Outcomes
<1> QED  BY <1>10, <1>12, <1>13

(* The outcomes outs are known, the photos that were delivered among them. *)
Known(outs) == outs \in [Cameras -> Outcomes] /\ Delivered \subseteq Cams("done", outs)

LEMMA ResolveKeeps ==
  ASSUME SetTypes, QueueTypes, Honest, NEW outs, Known(outs), NEW rej \in SUBSET Cameras, NEW sent,
         AllFine(sent, sets, Cams("done", outs)), sets \in 0..MaxSets, Resolve(outs, rej, sent),
         sets' = sets, ui' = ui
  PROVE  SetTypes' /\ QueueTypes' /\ Honest'
<1>1. outs \in [Cameras -> Outcomes] /\ sent \in Seq(EventType(sets))
  BY DEF Known, AllFine
<1>2. CASE open /\ AllResolved(outs)
  <2>1. Finalize(outs, sent)
    BY <1>2 DEF Resolve
  <2> QED  BY <1>1, <2>1, FinalizeKeeps
<1>3. CASE ~(open /\ AllResolved(outs))
  <2>1. out' = outs /\ rejected' = rej /\ Send(sent) /\ UNCHANGED <<open, closing, pending>>
    BY <1>3 DEF Resolve
  <2>2. Delivered' = Cams("done", outs)
    BY <2>1 DEF Delivered
  <2>3. Delivered \subseteq Delivered' /\ AllFine(sent, sets, Delivered')
    BY <2>2 DEF Known
  <2>4. QueueTypes' /\ Honest'
    BY <2>1, <2>3, SentKeeps
  <2>5. SetTypes'
    BY <1>1, <2>1 DEF SetTypes, Nothing
  <2> QED  BY <2>4, <2>5
<1> QED  BY <1>2, <1>3
-----------------------------------------------------------------------------
(* The steps of the receiver.                                              *)

Received == SessionTypes /\ SetTypes /\ QueueTypes /\ Honest

LEMMA SendResultKeeps ==
  ASSUME ScreenInv, SendResult
  PROVE  ScreenInv'
<1>1. /\ closing # Nothing /\ closing' = Nothing /\ Send(<<closing>>)
      /\ sets' = (IF closing.manifest = NoReview THEN sets ELSE closing.manifest)
      /\ UNCHANGED <<conn, announce, open, out, stage, busy, rejected, pending, wanted,
                     faults, commands, screenVars>>
  BY DEF SendResult
<1>2. SessionTypes /\ SetTypes /\ QueueTypes /\ CommandTypes /\ PageTypes /\ PreviewFollowsRoute
  BY DEF ScreenInv
<1>3. IsResult(closing, sets) /\ sets \in 0..MaxSets
  BY <1>1, <1>2 DEF SetTypes, SessionTypes
<1>4. PICK e : e = closing
  OBVIOUS
<1>5. /\ e \in AnyEvent(sets + 1) /\ e.cam = NoCam /\ e.state \in {"REVIEW", "REVIEW_WITH_ERROR", "ERROR"}
      /\ e.image \in {0, e.manifest} /\ e.manifest \in {0, sets + 1}
      /\ (e.manifest # 0 => sets < MaxSets)
  BY <1>3, <1>4 DEF IsResult
<1>6. sets' \in 0..MaxSets /\ sets <= sets' /\ e.image \in 0..sets' /\ e.manifest \in 0..sets'
  <2>1. sets' = IF e.manifest = 0 THEN sets ELSE e.manifest
    BY <1>1, <1>4 DEF NoReview
  <2>2. PICK m, i, n : m = e.manifest /\ i = e.image /\ n = sets'
    OBVIOUS
  <2>3. m \in {0, sets + 1} /\ i \in {0, m} /\ (m # 0 => sets < MaxSets) /\ n = IF m = 0 THEN sets ELSE m
    BY <1>5, <2>1, <2>2
  <2>4. n \in 0..MaxSets /\ sets <= n /\ i \in 0..n /\ m \in 0..n
    BY <1>3, <2>3
  <2> QED  BY <2>2, <2>4
<1>7. e \in EventType(sets')
  <2>1. e \in AnyEvent(sets')
    BY <1>5, <1>6 DEF AnyEvent
  <2> QED  BY <1>5, <2>1 DEF EventType, Named
<1>8. sets \in Nat /\ sets' \in Nat
  BY <1>3, <1>6
<1>9. EventType(sets) \subseteq EventType(sets') /\ UiType(sets) \subseteq UiType(sets')
  BY <1>6, <1>8, Larger
<1>10. events \in Seq(EventType(sets'))
  <2>1. events \in Seq(EventType(sets))
    BY <1>2 DEF QueueTypes
  <2> QED  BY <1>9, <2>1
<1>11. Joins(events', events, <<e>>) /\ Len(events) + Len(<<e>>) <= MaxEvents
  BY <1>1, <1>4 DEF Send, Joins
<1>12. QueueTypes'
  <2>1. PICK x : x = <<e>>
    OBVIOUS
  <2>2. x \in Seq(EventType(sets')) /\ Joins(events', events, x) /\ Len(events) + Len(x) <= MaxEvents
    BY <1>7, <1>11, <2>1
  <2>3. events' \in Seq(EventType(sets')) /\ Len(events') = Len(events) + Len(x)
    BY <1>10, <2>2, QueueGrows
  <2> QED  BY <2>2, <2>3 DEF QueueTypes
<1>13. Honest'
  <2>1. e.state # "LOADING"
    BY <1>5
  <2>2. Claimed(events', Delivered') /\ ~AllLoading(events', 1)
    BY <1>7, <1>10, <1>11, <2>1, ClaimsEnd
  <2> QED  BY <2>2 DEF Honest
<1>14. SessionTypes' /\ SetTypes'
  <2>1. SessionTypes'
    BY <1>1, <1>2, <1>6 DEF SessionTypes
  <2>2. SetTypes'
    BY <1>1, <1>2 DEF SetTypes, Nothing
  <2> QED  BY <2>1, <2>2
<1>15. CommandTypes' /\ PageTypes' /\ PreviewFollowsRoute'
  <2>1. UNCHANGED <<ui, route, untimed, manifests, commands, wanted>>
    BY <1>1 DEF screenVars, timing
  <2>2. ui \in UiType(sets') /\ untimed \in 0..sets'
    BY <1>2, <1>6, <1>8, <1>9 DEF PageTypes
  <2>3. PageTypes'
    BY <1>2, <2>1, <2>2 DEF PageTypes, Viewed, Shown
  <2>4. CommandTypes'
    BY <1>2, <2>1 DEF CommandTypes
  <2>5. PreviewFollowsRoute'
    BY <1>2, <2>1 DEF PreviewFollowsRoute, WantedAfter
  <2> QED  BY <2>3, <2>4, <2>5
<1> QED  BY <1>12, <1>13, <1>14, <1>15 DEF ScreenInv

LEMMA ConnectKeeps ==
  ASSUME ScreenInv, NEW c \in Cameras, Connect(c)
  PROVE  Received'
<1>1. /\ conn' = conn \cup {c}
      /\ announce' = [announce EXCEPT ![c] = [kind |-> "connected", conn |-> conn']]
      /\ UNCHANGED <<open, out, closing, stage, busy, rejected, pending, wanted, sets, faults,
                     events, commands, screenVars>>
  BY DEF Connect
<1>2. SessionTypes /\ SetTypes /\ QueueTypes /\ Honest
  BY DEF ScreenInv
<1>3. SessionTypes'
  BY <1>1, <1>2 DEF SessionTypes
<1>4. SetTypes'
  BY <1>1, <1>2 DEF SetTypes, Nothing
<1>5. Delivered' = Delivered /\ ui' = ui
  BY <1>1 DEF Delivered, screenVars
<1>6. QueueTypes' /\ Honest'
  BY <1>1, <1>2, <1>5, SilentKeeps
<1> QED  BY <1>3, <1>4, <1>6 DEF Received

LEMMA AnnounceKeeps ==
  ASSUME ScreenInv, NEW c \in Cameras, Announce(c)
  PROVE  Received'
<1>1. /\ announce' = [announce EXCEPT ![c] = Silent]
      /\ UNCHANGED <<conn, open, out, closing, stage, busy, rejected, pending, wanted, sets,
                     faults, commands, screenVars>>
  BY DEF Announce
<1>2. SessionTypes /\ SetTypes /\ QueueTypes /\ Honest /\ sets \in Nat
  BY DEF ScreenInv, SessionTypes
<1>3. SessionTypes'
  BY <1>1, <1>2 DEF SessionTypes, Silent
<1>4. SetTypes'
  BY <1>1, <1>2 DEF SetTypes, Nothing
<1>5. Delivered' = Delivered /\ ui' = ui
  BY <1>1 DEF Delivered, screenVars
<1>6. PICK told \in SUBSET Cameras : told = announce[c].conn
  BY <1>2 DEF SessionTypes
<1>7. PICK e : Send(<<e>>) /\ Fine(e, sets, Delivered')
  <2>1. CASE announce[c].kind = "connected"
    <3>1. Send(<<Told(Event("READY"), told)>>)
      BY <1>6, <2>1 DEF Announce
    <3>2. Fine(Event("READY"), sets, Delivered')
      <4>1. PICK state \in Sendable \ {"LOADING"} : state = "READY"
        BY DEF Sendable
      <4> QED  BY <1>2, <4>1, EventMade
    <3>3. Fine(Told(Event("READY"), told), sets, Delivered')
      BY <1>2, <3>2, ToldMade
    <3> QED  BY <3>1, <3>3
  <2>2. CASE announce[c].kind # "connected"
    <3>1. PICK state \in {"LOADING", "ERROR"} : state = IF open THEN "LOADING" ELSE "ERROR"
      OBVIOUS
    <3>2. PICK phase \in {"", "transferring"} : phase = "transferring"
      OBVIOUS
    <3>3. PICK t : t = [Loading(phase, c, "error") EXCEPT !.failed = {}, !.state = state]
      OBVIOUS
    <3>4. Send(<<Told(t, told)>>)
      BY <1>6, <2>2, <3>1, <3>2, <3>3 DEF Announce
    <3>5. Fine(t, sets, Delivered')
      BY <1>2, <3>3, LostMade
    <3>6. Fine(Told(t, told), sets, Delivered')
      BY <1>2, <3>5, ToldMade
    <3> QED  BY <3>4, <3>6
  <2> QED  BY <2>1, <2>2
<1>8. PICK x : x = <<e>>
  OBVIOUS
<1>9. AllFine(x, sets, Delivered') /\ Send(x)
  BY <1>7, <1>8, OneFine
<1>10. QueueTypes' /\ Honest'
  BY <1>1, <1>2, <1>5, <1>9, SentKeeps
<1> QED  BY <1>3, <1>4, <1>10 DEF Received

LEMMA DisconnectKeeps ==
  ASSUME ScreenInv, closing = Nothing, NEW c \in Cameras, Disconnect(c)
  PROVE  Received'
<1>1. /\ Fault /\ conn' = conn \ {c} /\ stage' = [stage EXCEPT ![c] = "idle"] /\ busy' = busy \ {c}
      /\ UNCHANGED <<wanted, sets, commands, screenVars>>
  BY DEF Disconnect, Staged
<1>2. SessionTypes /\ SetTypes /\ QueueTypes /\ Honest
  BY DEF ScreenInv
<1>3. SessionTypes'
  <2>1. announce' = announce \/ announce' = [announce EXCEPT ![c] = [kind |-> "lost", conn |-> conn']]
    BY DEF Disconnect
  <2>2. announce' \in [Cameras -> [kind : {"none", "connected", "lost"}, conn : SUBSET Cameras]]
    BY <1>1, <1>2, <2>1 DEF SessionTypes
  <2>3. faults' \in 0..MaxFaults
    BY <1>1, <1>2 DEF SessionTypes, Fault
  <2> QED  BY <1>1, <1>2, <2>2, <2>3 DEF SessionTypes
<1>4. SetTypes' /\ QueueTypes' /\ Honest'
  <2>1. CASE c \in busy /\ open /\ out[c] \in {"started", "imaged", "failed"}
    <3>1. PICK outs : outs = [out EXCEPT ![c] = "failed"]
      OBVIOUS
    <3>2. Resolve(outs, rejected, <<>>)
      BY <2>1, <3>1 DEF Disconnect
    <3>3. Known(outs)
      <4>1. out \in [Cameras -> Outcomes] /\ out[c] # "done"
        BY <1>2, <2>1 DEF SetTypes
      <4> QED  BY <3>1, <4>1 DEF Known, Delivered, Cams, Outcomes
    <3>4. AllFine(<<>>, sets, Cams("done", outs))
      BY NoneFine
    <3>5. rejected \in SUBSET Cameras /\ sets \in 0..MaxSets /\ sets' = sets /\ ui' = ui
      BY <1>1, <1>2 DEF SetTypes, SessionTypes, screenVars
    <3> QED  BY <1>2, <3>2, <3>3, <3>4, <3>5, ResolveKeeps
  <2>2. CASE ~(c \in busy /\ open /\ out[c] \in {"started", "imaged", "failed"})
    <3>1. UNCHANGED <<open, out, closing, rejected, pending, events>>
      BY <2>2 DEF Disconnect
    <3>2. SetTypes'
      BY <1>1, <1>2, <3>1 DEF SetTypes, Nothing
    <3>3. Delivered' = Delivered /\ ui' = ui
      BY <1>1, <3>1 DEF Delivered, screenVars
    <3> QED  BY <1>1, <1>2, <3>1, <3>2, <3>3, SilentKeeps
  <2> QED  BY <2>1, <2>2
<1> QED  BY <1>3, <1>4 DEF Received

LEMMA LoadingFine ==
  ASSUME NEW n \in Nat, NEW cams
  PROVE  /\ AllFine(<<Loading("", NoCam, "")>>, n, cams)
         /\ AllFine(<<Loading("capturing", NoCam, "")>>, n, cams)
         /\ \A c \in Cameras : AllFine(<<Loading("capturing", c, "capturing")>>, n, cams)
         /\ \A c \in Cameras : AllFine(<<Loading("transferring", c, "transferring")>>, n, cams)
         /\ \A c \in Cameras : AllFine(<<Loading("transferring", c, "error")>>, n, cams)
<1>1. ASSUME NEW phase \in Phases \cup {""}, NEW c, NEW status, Reports(c, status), status # "complete"
      PROVE  AllFine(<<Loading(phase, c, status)>>, n, cams)
  <2>1. Fine(Loading(phase, c, status), n, cams)
    BY <1>1, LoadingMade
  <2> QED  BY <2>1, OneFine
<1>2. Reports(NoCam, "") /\ \A c \in Cameras : Reports(c, "capturing") /\ Reports(c, "transferring") /\ Reports(c, "error")
  BY DEF Reports
<1>3. "" \in Phases \cup {""} /\ "capturing" \in Phases \cup {""} /\ "transferring" \in Phases \cup {""}
  BY DEF Phases
<1>4. "" # "complete" /\ "capturing" # "complete" /\ "transferring" # "complete" /\ "error" # "complete"
  OBVIOUS
<1> QED  BY <1>1, <1>2, <1>3, <1>4
LEMMA StartKeeps ==
  ASSUME ScreenInv, closing = Nothing, NEW c \in Cameras, Start(c)
  PROVE  Received'
<1>1. /\ Attached(c) /\ stage' = [stage EXCEPT ![c] = "shooting"]
      /\ UNCHANGED <<conn, announce, closing, pending, wanted, sets, faults, commands, screenVars>>
  BY DEF Start, Staged
<1>2. SessionTypes /\ SetTypes /\ QueueTypes /\ Honest /\ sets \in Nat
  BY DEF ScreenInv, SessionTypes
<1>3. ui' = ui
  BY <1>1 DEF screenVars
<1>4. CASE /\ out[c] = "none" /\ open' = TRUE /\ out' = [out EXCEPT ![c] = "started"]
           /\ busy' = busy \cup {c} /\ Send(<<Loading("capturing", c, "capturing")>>) /\ UNCHANGED rejected
  <2>1. SessionTypes'
    BY <1>1, <1>2, <1>4 DEF SessionTypes, Attached
  <2>2. SetTypes'
    <3>1. out' \in [Cameras -> Outcomes]
      BY <1>2, <1>4 DEF SetTypes, Outcomes
    <3>2. closing' = Nothing'
      BY <1>1 DEF Nothing, Event
    <3> QED  BY <1>1, <1>2, <1>4, <3>1, <3>2 DEF SetTypes
  <2>3. Delivered \subseteq Delivered'
    BY <1>2, <1>4 DEF Delivered, Cams, SetTypes
  <2>4. AllFine(<<Loading("capturing", c, "capturing")>>, sets, Delivered')
    BY <1>2, LoadingFine
  <2>5. QueueTypes' /\ Honest'
    BY <1>1, <1>2, <1>3, <1>4, <2>3, <2>4, SentKeeps
  <2> QED  BY <2>1, <2>2, <2>5 DEF Received
<1>5. CASE /\ open /\ rejected' = rejected \cup {c} /\ Send(<<Loading("", NoCam, "")>>)
           /\ UNCHANGED <<open, out, busy>>
  <2>1. SessionTypes'
    BY <1>1, <1>2, <1>5 DEF SessionTypes
  <2>2. SetTypes'
    BY <1>1, <1>2, <1>5 DEF SetTypes, Nothing
  <2>3. Delivered' = Delivered
    BY <1>5 DEF Delivered
  <2>4. AllFine(<<Loading("", NoCam, "")>>, sets, Delivered')
    BY <1>2, LoadingFine
  <2>5. QueueTypes' /\ Honest'
    BY <1>1, <1>2, <1>3, <1>5, <2>3, <2>4, SentKeeps
  <2> QED  BY <2>1, <2>2, <2>5 DEF Received
<1> QED  BY <1>4, <1>5 DEF Start

LEMMA ImageKeeps ==
  ASSUME ScreenInv, closing = Nothing, NEW c \in Cameras, Image(c)
  PROVE  Received'
<1>1. /\ stage' = [stage EXCEPT ![c] = "sent"]
      /\ UNCHANGED <<conn, announce, open, closing, busy, pending, wanted, sets, commands, screenVars>>
  BY DEF Image, Staged
<1>2. SessionTypes /\ SetTypes /\ QueueTypes /\ Honest /\ sets \in Nat
  BY DEF ScreenInv, SessionTypes
<1>3. ui' = ui
  BY <1>1 DEF screenVars
<1>4. faults' \in 0..MaxFaults
  BY <1>2 DEF Image, Fault, SessionTypes
<1>5. SessionTypes'
  BY <1>1, <1>2, <1>4 DEF SessionTypes
<1>6. CASE c \in rejected \/ out[c] # "started"
  <2>1. rejected' = rejected \cup {c} /\ UNCHANGED <<out, events, faults>>
    BY <1>6 DEF Image
  <2>2. SetTypes'
    BY <1>1, <1>2, <2>1 DEF SetTypes, Nothing
  <2>3. Delivered' = Delivered
    BY <2>1 DEF Delivered
  <2>4. QueueTypes' /\ Honest'
    BY <1>1, <1>2, <1>3, <2>1, <2>3, SilentKeeps
  <2> QED  BY <1>5, <2>2, <2>4 DEF Received
<1>7. CASE ~(c \in rejected \/ out[c] # "started")
  <2>1. PICK status \in {"transferring", "error"}, outcome \in {"imaged", "failed"} :
          /\ out' = [out EXCEPT ![c] = outcome] /\ Send(<<Loading("transferring", c, status)>>)
          /\ rejected' = rejected \/ rejected' = rejected \cup {c}
    BY <1>7 DEF Image
  <2>2. SetTypes'
    <3>1. out' \in [Cameras -> Outcomes]
      BY <1>2, <2>1 DEF SetTypes, Outcomes
    <3> QED  BY <1>1, <1>2, <2>1, <3>1 DEF SetTypes, Nothing
  <2>3. Delivered \subseteq Delivered'
    BY <1>2, <1>7, <2>1 DEF Delivered, Cams, SetTypes
  <2>4. AllFine(<<Loading("transferring", c, status)>>, sets, Delivered')
    BY <1>2, <2>1, LoadingFine
  <2>5. QueueTypes' /\ Honest'
    BY <1>1, <1>2, <1>3, <2>1, <2>3, <2>4, SentKeeps
  <2> QED  BY <1>5, <2>2, <2>5 DEF Received
<1> QED  BY <1>6, <1>7

LEMMA TransferCompleteKeeps ==
  ASSUME ScreenInv, closing = Nothing, NEW c \in Cameras, TransferComplete(c)
  PROVE  Received'
<1>1. /\ stage' = [stage EXCEPT ![c] = "idle"]
      /\ UNCHANGED <<conn, announce, wanted, sets, faults, commands, screenVars>>
  BY DEF TransferComplete, Staged
<1>2. SessionTypes /\ SetTypes /\ QueueTypes /\ Honest /\ sets \in Nat
  BY DEF ScreenInv, SessionTypes
<1>3. ui' = ui /\ sets \in 0..MaxSets
  BY <1>1, <1>2 DEF screenVars, SessionTypes
<1>4. SessionTypes'
  <2>1. busy' = busy \/ busy' = busy \ {c}
    BY DEF TransferComplete
  <2> QED  BY <1>1, <1>2, <2>1 DEF SessionTypes
<1>5. CASE c \in rejected
  <2>1. Resolve(out, rejected \ {c}, <<>>)
    BY <1>5 DEF TransferComplete
  <2>2. Known(out) /\ rejected \ {c} \in SUBSET Cameras
    BY <1>2 DEF Known, Delivered, SetTypes
  <2>3. AllFine(<<>>, sets, Cams("done", out))
    BY NoneFine
  <2>4. SetTypes' /\ QueueTypes' /\ Honest'
    BY <1>1, <1>2, <1>3, <2>1, <2>2, <2>3, ResolveKeeps
  <2> QED  BY <1>4, <2>4 DEF Received
<1>6. CASE c \notin rejected /\ out[c] = "imaged"
  <2>1. PICK outs : outs = [out EXCEPT ![c] = "done"]
    OBVIOUS
  <2>2. PICK e : e = [Loading("transferring", c, "complete") EXCEPT !.done = Cams("done", outs)]
    OBVIOUS
  <2>3. Resolve(outs, rejected, <<e>>)
    BY <1>6, <2>1, <2>2 DEF TransferComplete, CompletedIds
  <2>4. Known(outs) /\ rejected \in SUBSET Cameras
    BY <1>2, <2>1 DEF Known, Delivered, Cams, SetTypes, Outcomes
  <2>5. PICK cams \in SUBSET Cameras : cams = Cams("done", outs)
    BY DEF Cams
  <2>6. c \in cams
    BY <1>2, <2>1, <2>5 DEF Cams, SetTypes
  <2>7. Fine(e, sets, Cams("done", outs))
    BY <1>2, <2>2, <2>5, <2>6, CompleteMade
  <2>8. PICK x : x = <<e>>
    OBVIOUS
  <2>9. AllFine(x, sets, Cams("done", outs)) /\ Resolve(outs, rejected, x)
    BY <2>3, <2>7, <2>8, OneFine
  <2>10. SetTypes' /\ QueueTypes' /\ Honest'
    BY <1>1, <1>2, <1>3, <2>4, <2>9, ResolveKeeps
  <2> QED  BY <1>4, <2>10 DEF Received
<1>7. CASE c \notin rejected /\ out[c] # "imaged"
  <2>1. UNCHANGED <<busy, open, out, closing, rejected, pending, events>>
    BY <1>7 DEF TransferComplete
  <2>2. SetTypes'
    BY <1>1, <1>2, <2>1 DEF SetTypes, Nothing
  <2>3. Delivered' = Delivered
    BY <2>1 DEF Delivered
  <2>4. QueueTypes' /\ Honest'
    BY <1>1, <1>2, <1>3, <2>1, <2>3, SilentKeeps
  <2> QED  BY <1>4, <2>2, <2>4 DEF Received
<1> QED  BY <1>5, <1>6, <1>7

LEMMA NodeErrorKeeps ==
  ASSUME ScreenInv, closing = Nothing, NEW c \in Cameras, NodeError(c)
  PROVE  Received'
<1>1. /\ stage' = [stage EXCEPT ![c] = "idle"] /\ Fault
      /\ UNCHANGED <<conn, announce, wanted, sets, commands, screenVars>>
  BY DEF NodeError, Staged
<1>2. SessionTypes /\ SetTypes /\ QueueTypes /\ Honest /\ sets \in Nat
  BY DEF ScreenInv, SessionTypes
<1>3. ui' = ui /\ sets \in 0..MaxSets
  BY <1>1, <1>2 DEF screenVars, SessionTypes
<1>4. SessionTypes'
  <2>1. busy' = busy \/ busy' = busy \ {c}
    BY DEF NodeError
  <2>2. faults' \in 0..MaxFaults
    BY <1>1, <1>2 DEF Fault, SessionTypes
  <2> QED  BY <1>1, <1>2, <2>1, <2>2 DEF SessionTypes
<1>5. CASE c \notin rejected /\ out[c] = "started"
  <2>1. PICK outs : outs = [out EXCEPT ![c] = "failed"]
    OBVIOUS
  <2>2. Resolve(outs, rejected, <<Loading("transferring", c, "error")>>)
    BY <1>5, <2>1 DEF NodeError
  <2>3. Known(outs) /\ rejected \in SUBSET Cameras
    BY <1>2, <1>5, <2>1 DEF Known, Delivered, Cams, SetTypes, Outcomes
  <2>4. AllFine(<<Loading("transferring", c, "error")>>, sets, Cams("done", outs))
    BY <1>2, LoadingFine
  <2>5. SetTypes' /\ QueueTypes' /\ Honest'
    BY <1>1, <1>2, <1>3, <2>2, <2>3, <2>4, ResolveKeeps
  <2> QED  BY <1>4, <2>5 DEF Received
<1>6. CASE ~(c \notin rejected /\ out[c] = "started")
  <2>1. PICK phase \in {"", "transferring"}, state \in {"LOADING", "ERROR"} : phase = "" /\ state = "ERROR"
    OBVIOUS
  <2>2. PICK t, e : t = [Loading(phase, c, "error") EXCEPT !.state = state] /\ e = Told(t, conn)
    OBVIOUS
  <2>3. Send(<<e>>) /\ UNCHANGED <<busy, open, out, closing, rejected, pending>>
    BY <1>6, <2>1, <2>2 DEF NodeError
  <2>4. Fine(t, sets, Delivered')
    BY <1>2, <2>2, LostMade
  <2>5. conn \in SUBSET Cameras
    BY <1>2 DEF SessionTypes
  <2>6. Fine(e, sets, Delivered')
    BY <1>2, <2>2, <2>4, <2>5, ToldMade
  <2>7. PICK x : x = <<e>>
    OBVIOUS
  <2>8. AllFine(x, sets, Delivered') /\ Send(x)
    BY <2>3, <2>6, <2>7, OneFine
  <2>9. SetTypes'
    BY <1>1, <1>2, <2>3 DEF SetTypes, Nothing
  <2>10. Delivered' = Delivered
    BY <2>3 DEF Delivered
  <2>11. closing' = closing
    BY <2>3
  <2>12. QueueTypes' /\ Honest'
    BY <1>1, <1>2, <1>3, <2>8, <2>10, <2>11, SentKeeps
  <2> QED  BY <1>4, <2>9, <2>12 DEF Received
<1> QED  BY <1>5, <1>6

LEMMA TimeOutKeeps ==
  ASSUME ScreenInv, TimeOut
  PROVE  Received'
<1>1. /\ Fault /\ UNCHANGED <<conn, announce, stage, busy, wanted, sets, commands, screenVars>>
  BY DEF TimeOut
<1>2. SessionTypes /\ SetTypes /\ QueueTypes
  BY DEF ScreenInv
<1>3. PICK outs : outs = [c \in Cameras |-> IF out[c] = "done" THEN "done" ELSE "failed"]
  OBVIOUS
<1>4. outs \in [Cameras -> Outcomes] /\ sets \in 0..MaxSets
  BY <1>2, <1>3 DEF Outcomes, SessionTypes
<1>5. Finalize(outs, <<>>)
  BY <1>3 DEF TimeOut
<1>6. <<>> \in Seq(EventType(sets))
  OBVIOUS
<1>7. SetTypes' /\ QueueTypes' /\ Honest'
  BY <1>1, <1>2, <1>4, <1>5, <1>6, FinalizeKeeps
<1>8. SessionTypes'
  BY <1>1, <1>2 DEF SessionTypes, Fault
<1> QED  BY <1>7, <1>8 DEF Received

(* ERROR, with the connected cameras or without.                           *)
LEMMA ErrorFine ==
  ASSUME NEW n \in Nat, NEW cams
  PROVE  AllFine(<<Event("ERROR")>>, n, cams) /\ AllFine(<<Told(Event("ERROR"), {})>>, n, cams)
<1>1. PICK state \in Sendable \ {"LOADING"} : state = "ERROR"
  BY DEF Sendable
<1>2. Fine(Event("ERROR"), n, cams)
  BY <1>1, EventMade
<1>3. Fine(Told(Event("ERROR"), {}), n, cams)
  BY <1>2, ToldMade
<1> QED  BY <1>2, <1>3, OneFine

LEMMA ExpireTriggerKeeps ==
  ASSUME ScreenInv, ExpireTrigger
  PROVE  Received'
<1>1. /\ pending' = FALSE /\ Send(<<Event("ERROR")>>)
      /\ UNCHANGED <<conn, announce, open, out, closing, stage, busy, rejected, wanted, sets,
                     faults, commands, screenVars>>
  BY DEF ExpireTrigger
<1>2. SessionTypes /\ SetTypes /\ QueueTypes /\ Honest /\ sets \in Nat
  BY DEF ScreenInv, SessionTypes
<1>3. SessionTypes' /\ SetTypes'
  BY <1>1, <1>2 DEF SessionTypes, SetTypes, Nothing
<1>4. Delivered' = Delivered /\ ui' = ui /\ closing' = closing
  BY <1>1 DEF Delivered, screenVars
<1>5. AllFine(<<Event("ERROR")>>, sets, Delivered')
  BY <1>2, ErrorFine
<1>6. QueueTypes' /\ Honest'
  BY <1>1, <1>2, <1>4, <1>5, SentKeeps
<1> QED  BY <1>3, <1>6 DEF Received

LEMMA NoNodesKeeps ==
  ASSUME ScreenInv, NoNodes
  PROVE  Received'
<1>1. Send(<<Told(Event("ERROR"), {})>>) /\ UNCHANGED <<receiverVars, commands, screenVars>>
  BY DEF NoNodes
<1>2. SessionTypes /\ SetTypes /\ QueueTypes /\ Honest /\ sets \in Nat
  BY DEF ScreenInv, SessionTypes
<1>3. SessionTypes' /\ SetTypes'
  BY <1>1, <1>2 DEF SessionTypes, SetTypes, Nothing, receiverVars
<1>4. Delivered' = Delivered /\ ui' = ui /\ closing' = closing /\ sets' = sets
  BY <1>1 DEF Delivered, screenVars, receiverVars
<1>5. AllFine(<<Told(Event("ERROR"), {})>>, sets, Delivered')
  BY <1>2, ErrorFine
<1>6. QueueTypes' /\ Honest'
  BY <1>1, <1>2, <1>4, <1>5, SentKeeps
<1> QED  BY <1>3, <1>6 DEF Received
-----------------------------------------------------------------------------
(* The commands that are queued.                                           *)

(* preview_requested was w when the commands q are taken.                  *)
Toggles(q) == {i \in 1..Len(q) : q[i] # "CAPTURE"}
Wants(w, q) ==
  IF Toggles(q) = {} THEN w
  ELSE \E last \in Toggles(q) : q[last] = "PREVIEW_START" /\ \A i \in Toggles(q) : i <= last

LEMMA WantsOfQueue ==
  /\ \A q : WantedAfter(q) = Wants(wanted, q)
  /\ PreviewFollowsRoute <=> (Wants(wanted, commands) = (route = "capture"))
  /\ PreviewFollowsRoute' <=> (Wants(wanted', commands') = (route' = "capture"))
BY DEF PreviewFollowsRoute, WantedAfter, Wants, Toggles

LEMMA WantsNothing ==
  ASSUME NEW w
  PROVE  Wants(w, <<>>) = w
<1>1. Len(<<>>) = 0
  OBVIOUS
<1>2. Toggles(<<>>) = {}
  BY <1>1 DEF Toggles
<1> QED  BY <1>2 DEF Wants

(* A capture leaves the preview alone, the others decide about it.         *)
LEMMA WantsOneMore ==
  ASSUME NEW w, NEW q \in Seq(Commands), NEW a \in Commands, NEW r, Joins(r, q, <<a>>)
  PROVE  /\ r \in Seq(Commands)
         /\ a = "CAPTURE" => Wants(w, r) = Wants(w, q)
         /\ a = "PREVIEW_START" => Wants(w, r)
         /\ a = "PREVIEW_STOP" => ~Wants(w, r)
<1>1. PICK x : x = <<a>>
  OBVIOUS
<1>2. x \in Seq(Commands) /\ Joins(r, q, x)
  BY <1>1
<1>3. Len(x) = 1 /\ x[1] = a
  BY <1>1
<1>4. /\ r \in Seq(Commands) /\ Len(r) = Len(q) + Len(x) /\ Len(q) \in Nat
      /\ \A i \in 1..Len(q) : r[i] = q[i]
      /\ \A i \in 1..Len(x) : r[Len(q) + i] = x[i]
  BY <1>2, QueueGrows
<1>5. PICK N, K : N = Len(q) /\ K = Len(x)
  OBVIOUS
<1>6. N \in Nat /\ Len(r) = N + K /\ K = 1 /\ \A i \in 1..K : r[N + i] = x[i]
  BY <1>3, <1>4, <1>5
<1>7. 1 \in 1..K
  BY <1>6
<1>8. N \in Nat /\ Len(r) = N + 1 /\ r[N + 1] = a /\ \A i \in 1..N : r[i] = q[i]
  BY <1>3, <1>4, <1>5, <1>6, <1>7
<1>9. CASE a = "CAPTURE"
  <2>1. ASSUME NEW i PROVE i \in Toggles(r) <=> i \in Toggles(q)
    <3>1. i \in Toggles(r) => i \in 1..(N + 1) /\ r[i] # "CAPTURE"
      BY <1>8 DEF Toggles
    <3>2. i \in Toggles(r) => i \in 1..N
      BY <1>8, <1>9, <3>1
    <3>3. i \in Toggles(q) => i \in 1..N
      BY <1>5 DEF Toggles
    <3>4. i \in 1..N => i \in 1..(N + 1)
      BY <1>8
    <3>5. i \in 1..N => (i \in Toggles(r) <=> i \in Toggles(q))
      BY <1>5, <1>8, <3>4 DEF Toggles
    <3> QED  BY <3>2, <3>3, <3>5
  <2>2. Toggles(r) = Toggles(q)
    BY <2>1
  <2>3. \A i \in Toggles(q) : r[i] = q[i]
    BY <1>5, <1>8 DEF Toggles
  <2>4. Wants(w, r) = Wants(w, q)
    <3>1. CASE Toggles(q) = {}
      BY <2>2, <3>1 DEF Wants
    <3>2. CASE Toggles(q) # {}
      <4>1. Wants(w, r) = \E last \in Toggles(q) : r[last] = "PREVIEW_START" /\ \A i \in Toggles(q) : i <= last
        BY Zenon, <2>2, <3>2 DEF Wants
      <4>2. Wants(w, q) = \E last \in Toggles(q) : q[last] = "PREVIEW_START" /\ \A i \in Toggles(q) : i <= last
        BY Zenon, <3>2 DEF Wants
      <4>3. (\E last \in Toggles(q) : r[last] = "PREVIEW_START" /\ \A i \in Toggles(q) : i <= last)
              <=> (\E last \in Toggles(q) : q[last] = "PREVIEW_START" /\ \A i \in Toggles(q) : i <= last)
        BY <2>3
      <4> QED  BY Zenon, <4>1, <4>2, <4>3
    <3> QED  BY <3>1, <3>2
  <2> QED  BY <1>4, <1>9, <2>4
<1>10. CASE a # "CAPTURE"
  <2>1. N + 1 \in Toggles(r)
    BY <1>8, <1>10 DEF Toggles
  <2>2. \A i \in Toggles(r) : i \in Int /\ i <= N + 1
    BY <1>8 DEF Toggles
  <2>3. Wants(w, r) <=> (\E last \in Toggles(r) : r[last] = "PREVIEW_START" /\ \A i \in Toggles(r) : i <= last)
    BY <2>1 DEF Wants
  <2>4. ASSUME NEW last \in Toggles(r), \A i \in Toggles(r) : i <= last PROVE last = N + 1
    BY <1>8, <2>1, <2>2, <2>4
  <2>5. Wants(w, r) <=> a = "PREVIEW_START"
    BY <1>8, <2>1, <2>2, <2>3, <2>4
  <2> QED  BY <1>4, <1>10, <2>5
<1> QED  BY <1>9, <1>10

(* The preview that is wanted is that of the new page.                     *)
LEMMA RouteChanged ==
  ASSUME CommandTypes, PreviewFollowsRoute, wanted \in BOOLEAN, route \in Routes, NEW to \in Routes,
         NEW extra, extra = <<>> \/ extra = <<"CAPTURE">>, ChangeRoute(to, extra), wanted' = wanted
  PROVE  CommandTypes' /\ PreviewFollowsRoute' /\ route' \in Routes
<1>1. PICK mid : mid = commands \o Toggled(to)
  OBVIOUS
<1>2. commands' = mid \o extra /\ route' = to
  BY <1>1 DEF ChangeRoute
<1>3. commands \in Seq(Commands)
  BY DEF CommandTypes
<1>4. Wants(wanted, commands) <=> route = "capture"
  BY WantsOfQueue
<1>5. mid \in Seq(Commands) /\ (Wants(wanted, mid) <=> to = "capture")
  <2>1. CASE route = to
    <3>1. mid = commands
      BY <1>1, <1>3, <2>1 DEF Toggled
    <3> QED  BY <1>3, <1>4, <2>1, <3>1
  <2>2. CASE route # to /\ route = "capture"
    <3>1. PICK a \in Commands : a = "PREVIEW_STOP"
      BY DEF Commands
    <3>2. Toggled(to) = <<a>>
      <4>1. Toggled(to) = <<a>> \o <<>>
        BY <2>2, <3>1 DEF Toggled
      <4> QED  BY <4>1
    <3>3. Joins(mid, commands, <<a>>)
      BY <1>1, <3>2 DEF Joins
    <3>4. mid \in Seq(Commands) /\ ~Wants(wanted, mid)
      BY <1>3, <3>1, <3>3, WantsOneMore
    <3> QED  BY <2>2, <3>4
  <2>3. CASE route # to /\ to = "capture"
    <3>1. PICK a \in Commands : a = "PREVIEW_START"
      BY DEF Commands
    <3>2. Toggled(to) = <<a>>
      BY <2>3, <3>1 DEF Toggled
    <3>3. Joins(mid, commands, <<a>>)
      BY <1>1, <3>2 DEF Joins
    <3>4. mid \in Seq(Commands) /\ Wants(wanted, mid)
      BY <1>3, <3>1, <3>3, WantsOneMore
    <3> QED  BY <2>3, <3>4
  <2>4. CASE route # to /\ route # "capture" /\ to # "capture"
    <3>1. mid = commands
      BY <1>1, <1>3, <2>4 DEF Toggled
    <3> QED  BY <1>3, <1>4, <2>4, <3>1
  <2> QED  BY <2>1, <2>2, <2>3, <2>4
<1>6. commands' \in Seq(Commands) /\ (Wants(wanted, commands') = Wants(wanted, mid))
  <2>1. CASE extra = <<>>
    BY <1>2, <1>5, <2>1
  <2>2. CASE extra = <<"CAPTURE">>
    <3>1. PICK a \in Commands : a = "CAPTURE"
      BY DEF Commands
    <3>2. Joins(commands', mid, <<a>>)
      BY <1>2, <2>2, <3>1 DEF Joins
    <3> QED  BY <1>5, <3>1, <3>2, WantsOneMore
  <2> QED  BY <2>1, <2>2
<1>7. Wants(wanted, mid) \in BOOLEAN
  BY DEF Wants
<1>8. Wants(wanted', commands') = (route' = "capture")
  BY Zenon, <1>2, <1>5, <1>6, <1>7
<1> QED  BY <1>2, <1>6, <1>8, WantsOfQueue DEF CommandTypes

LEMMA TakeCommandsKeeps ==
  ASSUME ScreenInv, TakeCommands
  PROVE  ScreenInv'
<1>1. /\ commands' = <<>> /\ wanted' = WantedAfter(commands)
      /\ UNCHANGED <<conn, announce, open, out, closing, stage, busy, rejected, sets, faults,
                     screenVars>>
  BY DEF TakeCommands
<1>2. /\ SessionTypes /\ SetTypes /\ QueueTypes /\ CommandTypes /\ PageTypes /\ PreviewFollowsRoute
      /\ Honest /\ sets \in Nat
  BY DEF ScreenInv, SessionTypes
<1>3. ui' = ui /\ route' = route /\ Delivered' = Delivered
  BY <1>1 DEF screenVars, Delivered
<1>4. wanted' = (route = "capture")
  BY Zenon, <1>1, <1>2 DEF PreviewFollowsRoute
<1>5. SessionTypes' /\ PageTypes' /\ CommandTypes'
  <2>1. wanted' \in BOOLEAN
    BY Zenon, <1>4
  <2> QED  BY <1>1, <1>2, <2>1, SMTT(30) DEF SessionTypes, PageTypes, CommandTypes, screenVars, timing
<1>6. PreviewFollowsRoute'
  <2>1. Wants(wanted', commands') = wanted'
    BY <1>1, WantsNothing
  <2>2. Wants(wanted', commands') = (route' = "capture")
    BY Zenon, <1>3, <1>4, <2>1
  <2> QED  BY <2>2, WantsOfQueue
<1>7. SetTypes'
  <2>1. pending' \in BOOLEAN
    BY <1>2 DEF TakeCommands, SetTypes
  <2> QED  BY <1>1, <1>2, <2>1 DEF SetTypes, Nothing
<1>8. QueueTypes' /\ Honest'
  <2>1. CASE events' = events
    BY <1>1, <1>2, <1>3, <2>1, SilentKeeps
  <2>2. CASE events' # events
    <3>1. PICK x : AllFine(x, sets, Delivered') /\ Send(x)
      <4>1. \/ Send(<<Loading("", NoCam, "")>>) \/ Send(<<Told(Event("ERROR"), {})>>)
            \/ Send(<<Loading("capturing", NoCam, "")>>)
        BY <2>2 DEF TakeCommands
      <4> QED  BY <1>2, <4>1, LoadingFine, ErrorFine
    <3> QED  BY <1>1, <1>2, <1>3, <3>1, SentKeeps
  <2> QED  BY <2>1, <2>2
<1> QED  BY <1>2, <1>5, <1>6, <1>7, <1>8 DEF ScreenInv
-----------------------------------------------------------------------------
(* The steps of the Qt thread.                                             *)

(* The receiver is left alone.                                             *)
LEMMA ReceiverKept ==
  ASSUME ScreenInv, UNCHANGED receiverVars
  PROVE  SessionTypes' /\ SetTypes' /\ Delivered' = Delivered /\ wanted' = wanted /\ sets' = sets
         /\ closing' = closing /\ sets \in Nat
<1>1. /\ UNCHANGED <<conn, announce, open, out, closing, stage, busy, rejected, pending>>
      /\ UNCHANGED <<wanted, sets, faults>>
  BY DEF receiverVars
<1>2. SessionTypes' /\ sets \in Nat
  BY <1>1 DEF ScreenInv, SessionTypes
<1>3. SetTypes'
  BY <1>1 DEF ScreenInv, SetTypes, Nothing
<1> QED  BY <1>1, <1>2, <1>3 DEF Delivered

(* The page is left or entered, and nothing else happens.                  *)
LEMMA PageKeeps ==
  ASSUME ScreenInv, NEW to \in Routes, ChangeRoute(to, <<>>), UNCHANGED <<receiverVars,
                                                                          events, ui, timing>>
  PROVE  ScreenInv'
<1>1. /\ SessionTypes' /\ SetTypes' /\ Delivered' = Delivered /\ wanted' = wanted /\ sets' = sets
      /\ closing' = closing
  BY ReceiverKept
<1>2. /\ QueueTypes /\ CommandTypes /\ PageTypes /\ PreviewFollowsRoute /\ Honest
      /\ wanted \in BOOLEAN /\ route \in Routes
  BY DEF ScreenInv, SessionTypes, PageTypes
<1>3. CommandTypes' /\ PreviewFollowsRoute' /\ route' \in Routes
  BY <1>1, <1>2, RouteChanged
<1>4. PageTypes'
  BY <1>1, <1>2, <1>3 DEF PageTypes, timing, Viewed, Shown
<1>5. QueueTypes' /\ Honest'
  BY <1>1, <1>2, SilentKeeps
<1> QED  BY <1>1, <1>3, <1>4, <1>5 DEF ScreenInv

LEMMA StartingFine ==
  ASSUME NEW n \in Nat
  PROVE  Starting \in UiType(n)
<1>1. PICK no \in BOOLEAN : no = FALSE
  BY Zenon
<1>2. PICK p : p = Starting
  OBVIOUS
<1>3. PICK cams : cams = [c \in Cameras |-> "disconnected"]
  OBVIOUS
<1>4. p = [state |-> "STARTING", image |-> 0, review |-> 0, partial |-> no, capturing |-> no,
           phase |-> "idle", connected |-> {}, cams |-> cams, views |-> 0, failed |-> {}]
  BY Zenon, <1>1, <1>2, <1>3 DEF Starting, NoReview
<1>5. cams \in [Cameras -> CameraStates]
  BY <1>3 DEF CameraStates
<1>6. 0 \in 0..n
  BY ZeroIsIn
<1>7. p \in UiType(n)
  BY <1>1, <1>4, <1>5, <1>6 DEF UiType, States, Phases
<1> QED  BY <1>2, <1>7

LEMMA HandleEventKeeps ==
  ASSUME ScreenInv, HandleEvent
  PROVE  ScreenInv'
<1>1. events # <<>> /\ events' = Tail(events) /\ UNCHANGED <<receiverVars, manifests>>
  BY DEF HandleEvent
<1>2. /\ SessionTypes' /\ SetTypes' /\ Delivered' = Delivered /\ wanted' = wanted /\ sets' = sets
      /\ closing' = closing /\ sets \in Nat
  BY <1>1, ReceiverKept
<1>3. /\ QueueTypes /\ CommandTypes /\ PageTypes /\ PreviewFollowsRoute /\ Honest
      /\ wanted \in BOOLEAN /\ route \in Routes /\ ui \in UiType(sets)
  BY DEF ScreenInv, SessionTypes, PageTypes
<1>4. PICK e : e = Head(events)
  OBVIOUS
<1>5. events \in Seq(EventType(sets)) /\ Len(events) <= MaxEvents
  BY <1>3 DEF QueueTypes
<1>6. /\ events' \in Seq(EventType(sets)) /\ Head(events) = events[1] /\ events[1] \in EventType(sets)
      /\ Len(events') = Len(events) - 1 /\ Len(events) \in Nat
      /\ Claimed(events, Delivered) =>
           /\ Claimed(events', Delivered)
           /\ (events[1].state = "LOADING" /\ AllLoading(events', 1)) =>
                AllLoading(events, 1) /\ Claims(events[1]) \subseteq Delivered
  <2>1. Rest(events', events)
    BY <1>1 DEF Rest
  <2> QED  BY <1>1, <1>5, <2>1, ClaimsTaken
<1>7. e = events[1] /\ e \in EventType(sets)
  BY <1>4, <1>6
<1>8. QueueTypes'
  BY <1>2, <1>5, <1>6 DEF QueueTypes
<1>9. PICK p : p = Apply(ui, e)
  OBVIOUS
<1>10. /\ p \in UiType(sets) /\ Viewed(p)
       /\ e.state # "LOADING" => ~p.capturing
       /\ e.state = "LOADING" => Shown(p) \subseteq (IF ui.capturing THEN Shown(ui) ELSE {}) \cup Claims(e)
  BY <1>2, <1>3, <1>7, <1>9, ApplyTypes
<1>11. PICK to : to = CASE Screen(p) \in {"progress", "review"} -> Screen(p)
                        [] OTHER -> IF route \in RuntimeRoutes THEN "ready" ELSE route
  OBVIOUS
<1>12. to \in Routes
  BY <1>3, <1>11 DEF Routes
<1>13. \/ ui' = p /\ ChangeRoute(to, <<>>) /\ untimed' = e.manifest
       \/ ui' = Apply(Starting, Event("ERROR")) /\ ChangeRoute("ready", <<>>) /\ UNCHANGED untimed
  BY <1>4, <1>9, <1>11 DEF HandleEvent
<1>14. /\ ui' \in UiType(sets) /\ Viewed(ui') /\ untimed' \in 0..sets
       /\ \/ ui' = p
          \/ ~ui'.capturing
  <2>1. CASE ui' = p /\ untimed' = e.manifest
    BY <1>7, <1>10, <2>1, EventFields
  <2>2. CASE ui' = Apply(Starting, Event("ERROR")) /\ UNCHANGED untimed
    <3>1. PICK state \in Sendable \ {"LOADING"} : state = "ERROR"
      BY DEF Sendable
    <3>2. PICK error : error = Event(state)
      OBVIOUS
    <3>3. Fine(error, sets, {})
      BY <1>2, <3>2, EventMade
    <3>4. error \in EventType(sets) /\ error.state # "LOADING"
      BY <3>1, <3>2, <3>3 DEF Fine, Event
    <3>5. PICK st \in UiType(sets) : st = Starting
      BY <1>2, StartingFine
    <3>6. ui' = Apply(st, error)
      BY <2>2, <3>1, <3>2, <3>5
    <3>7. ui' \in UiType(sets) /\ Viewed(ui') /\ ~ui'.capturing
      BY <1>2, <3>4, <3>5, <3>6, ApplyTypes
    <3> QED  BY <1>3, <2>2, <3>7 DEF PageTypes
  <2> QED  BY <1>13, <2>1, <2>2
<1>15. CommandTypes' /\ PreviewFollowsRoute' /\ route' \in Routes
  <2>1. PICK page \in Routes : ChangeRoute(page, <<>>)
    BY <1>12, <1>13 DEF Routes
  <2> QED  BY <1>2, <1>3, <2>1, RouteChanged
<1>16. PageTypes'
  BY <1>1, <1>2, <1>3, <1>14, <1>15 DEF PageTypes, Viewed, Shown
<1>17. Honest'
  <2>1. SUFFICES ASSUME closing = Nothing
        PROVE  /\ Claimed(events', Delivered)
               /\ (ui'.capturing /\ AllLoading(events', 1)) => Shown(ui') \subseteq Delivered
    BY <1>2 DEF Honest, Nothing, Event
  <2>2. /\ Claimed(events, Delivered)
        /\ (ui.capturing /\ AllLoading(events, 1)) => Shown(ui) \subseteq Delivered
    BY <1>3, <2>1 DEF Honest
  <2>3. ASSUME ui'.capturing, AllLoading(events', 1) PROVE Shown(ui') \subseteq Delivered
    <3>1. ui' = p /\ e.state = "LOADING"
      BY <1>10, <1>14, <2>3
    <3>2. AllLoading(events, 1) /\ Claims(e) \subseteq Delivered
      BY <1>6, <1>7, <2>2, <2>3, <3>1
    <3> QED  BY <1>10, <2>2, <3>1, <3>2
  <2> QED  BY <1>6, <2>2, <2>3
<1> QED  BY <1>2, <1>8, <1>15, <1>16, <1>17 DEF ScreenInv

LEMMA FramePresentedKeeps ==
  ASSUME ScreenInv, FramePresented
  PROVE  ScreenInv'
<1>1. /\ untimed # NoReview /\ ui.image # NoReview
      /\ manifests' = [manifests EXCEPT ![ui.image] = untimed] /\ untimed' = NoReview
      /\ UNCHANGED <<receiverVars, events, commands, ui, route>>
  BY DEF FramePresented
<1>2. /\ SessionTypes' /\ SetTypes' /\ Delivered' = Delivered /\ wanted' = wanted
      /\ sets' = sets /\ closing' = closing
  BY <1>1, ReceiverKept
<1>3. QueueTypes /\ CommandTypes /\ PageTypes /\ PreviewFollowsRoute /\ Honest /\ sets \in 0..MaxSets
  BY DEF ScreenInv, SessionTypes
<1>4. manifests' \in [1..MaxSets -> 1..MaxSets] /\ untimed' \in 0..sets
  <2>1. untimed \in 0..sets /\ untimed # 0 /\ ui.image \in 0..sets /\ ui.image # 0
    BY <1>1, <1>3 DEF PageTypes, UiType, NoReview
  <2>2. untimed \in 1..MaxSets /\ ui.image \in 1..MaxSets
    BY <1>3, <2>1
  <2>3. manifests' \in [1..MaxSets -> 1..MaxSets]
    BY <1>1, <1>3, <2>2 DEF PageTypes
  <2>4. untimed' \in 0..sets
    BY <1>1, <1>3, ZeroIsIn DEF NoReview
  <2> QED  BY <2>3, <2>4
<1>5. PageTypes'
  BY <1>1, <1>2, <1>3, <1>4 DEF PageTypes, Viewed, Shown
<1>6. CommandTypes'
  BY <1>1, <1>3 DEF CommandTypes
<1>7. PreviewFollowsRoute'
  BY <1>1, <1>2, <1>3 DEF PreviewFollowsRoute, WantedAfter
<1>8. QueueTypes' /\ Honest'
  BY <1>1, <1>2, <1>3, SilentKeeps
<1> QED  BY <1>2, <1>5, <1>6, <1>7, <1>8 DEF ScreenInv

LEMMA TapCaptureKeeps ==
  ASSUME ScreenInv, TapCapture
  PROVE  ScreenInv'
<1>1. /\ ui' = Apply(ui, Loading("capturing", NoCam, "")) /\ ChangeRoute("progress", <<"CAPTURE">>)
      /\ UNCHANGED <<receiverVars, events, timing>>
  BY DEF TapCapture
<1>2. /\ SessionTypes' /\ SetTypes' /\ Delivered' = Delivered /\ wanted' = wanted /\ sets' = sets
      /\ closing' = closing /\ sets \in Nat
  BY <1>1, ReceiverKept
<1>3. /\ QueueTypes /\ CommandTypes /\ PageTypes /\ PreviewFollowsRoute /\ Honest
      /\ wanted \in BOOLEAN /\ route \in Routes /\ ui \in UiType(sets)
  BY DEF ScreenInv, SessionTypes, PageTypes
<1>4. PICK e : e = Loading("capturing", NoCam, "")
  OBVIOUS
<1>5. e \in EventType(sets) /\ e.state = "LOADING" /\ Claims(e) = {}
  <2>1. PICK phase, status : phase = "capturing" /\ status = ""
    OBVIOUS
  <2>2. phase \in Phases \cup {""} /\ Reports(NoCam, status) /\ status # "complete"
    BY <2>1 DEF Phases, Reports
  <2>3. IsLoading(Loading(phase, NoCam, status), sets, NoCam, status)
        /\ Fine(Loading(phase, NoCam, status), sets, {})
    BY <1>2, <2>2, LoadingMade
  <2> QED  BY <1>4, <2>1, <2>3 DEF IsLoading, Fine
<1>6. /\ ui' \in UiType(sets) /\ Viewed(ui')
      /\ Shown(ui') \subseteq (IF ui.capturing THEN Shown(ui) ELSE {})
  BY <1>1, <1>2, <1>3, <1>4, <1>5, ApplyTypes
<1>7. CommandTypes' /\ PreviewFollowsRoute' /\ route' \in Routes
  <2>1. "progress" \in Routes
    BY DEF Routes
  <2> QED  BY <1>1, <1>2, <1>3, <2>1, RouteChanged
<1>8. PageTypes'
  BY <1>1, <1>2, <1>3, <1>6, <1>7 DEF PageTypes, timing, Viewed, Shown
<1>9. QueueTypes'
  BY <1>1, <1>2, <1>3 DEF QueueTypes
<1>10. Honest'
  <2>1. SUFFICES ASSUME closing = Nothing
        PROVE  /\ Claimed(events, Delivered)
               /\ (ui'.capturing /\ AllLoading(events, 1)) => Shown(ui') \subseteq Delivered
    BY <1>1, <1>2 DEF Honest, Nothing, Event
  <2>2. /\ Claimed(events, Delivered)
        /\ (ui.capturing /\ AllLoading(events, 1)) => Shown(ui) \subseteq Delivered
    BY <1>3, <2>1 DEF Honest
  <2> QED  BY <1>6, <2>2
<1> QED  BY <1>2, <1>7, <1>8, <1>9, <1>10 DEF ScreenInv

-----------------------------------------------------------------------------
LEMMA ScreenInit ==
  Init => ScreenInv
<1> SUFFICES ASSUME Init PROVE ScreenInv
  OBVIOUS
<1> USE DEF Init
<1>1. SessionTypes
  <2>1. announce \in [Cameras -> [kind : {"none", "connected", "lost"}, conn : SUBSET Cameras]]
    <3>1. Silent \in [kind : {"none", "connected", "lost"}, conn : SUBSET Cameras]
      BY DEF Silent
    <3> QED  BY <3>1
  <2>2. conn \subseteq Cameras /\ busy \subseteq conn /\ wanted \in BOOLEAN
    OBVIOUS
  <2>3. sets \in 0..MaxSets /\ faults \in 0..MaxFaults
    BY ZeroIsIn
  <2>4. stage \in [Cameras -> {"idle", "shooting", "sent"}]
    OBVIOUS
  <2> QED  BY <2>1, <2>2, <2>3, <2>4 DEF SessionTypes
<1>2. SetTypes
  BY DEF SetTypes, Outcomes
<1>3. QueueTypes
  BY DEF QueueTypes
<1>4. CommandTypes
  BY DEF CommandTypes
<1>5. PageTypes
  <2>1. ui \in UiType(sets) /\ ~ui.capturing
    <3>1. sets \in Nat /\ ui = Starting
      OBVIOUS
    <3>2. ~Starting.capturing
      BY DEF Starting
    <3> QED  BY <3>1, <3>2, StartingFine
  <2> QED  BY <2>1 DEF PageTypes, Viewed, Routes, NoReview
<1>6. PreviewFollowsRoute
  <2>1. Wants(wanted, commands) = wanted
    BY WantsNothing
  <2>2. (route = "capture") = FALSE
    OBVIOUS
  <2>3. Wants(wanted, commands) = (route = "capture")
    BY Zenon, <2>1, <2>2
  <2> QED  BY <2>3, WantsOfQueue
<1>7. Honest
  <2>1. ~ui.capturing
    BY DEF Starting
  <2>2. Claimed(events, Delivered)
    BY DEF Claimed
  <2> QED  BY <2>1, <2>2 DEF Honest
<1> QED  BY <1>1, <1>2, <1>3, <1>4, <1>5, <1>6, <1>7 DEF ScreenInv

LEMMA ScreenStays ==
  ScreenInv /\ [Next]_vars => ScreenInv'
<1> SUFFICES ASSUME ScreenInv, [Next]_vars PROVE ScreenInv'
  OBVIOUS
<1>1. ASSUME Received', UNCHANGED <<commands, screenVars, wanted, sets>> PROVE ScreenInv'
  BY <1>1, ScreenKept DEF Received, ScreenInv
<1>2. CASE SendResult
  BY <1>2, SendResultKeeps
<1>3. ASSUME NEW c \in Cameras, Announce(c) PROVE ScreenInv'
  BY <1>1, <1>3, AnnounceKeeps DEF Announce
<1>4. ASSUME closing = Nothing, NEW c \in Cameras, Connect(c) PROVE ScreenInv'
  BY <1>1, <1>4, ConnectKeeps DEF Connect
<1>5. ASSUME closing = Nothing, NEW c \in Cameras, Disconnect(c) PROVE ScreenInv'
  BY <1>1, <1>5, DisconnectKeeps DEF Disconnect
<1>6. ASSUME closing = Nothing, NEW c \in Cameras, Start(c) PROVE ScreenInv'
  BY <1>1, <1>6, StartKeeps DEF Start
<1>7. ASSUME closing = Nothing, NEW c \in Cameras, Image(c) PROVE ScreenInv'
  BY <1>1, <1>7, ImageKeeps DEF Image
<1>8. ASSUME closing = Nothing, NEW c \in Cameras, TransferComplete(c) PROVE ScreenInv'
  BY <1>1, <1>8, TransferCompleteKeeps DEF TransferComplete
<1>9. ASSUME closing = Nothing, NEW c \in Cameras, NodeError(c) PROVE ScreenInv'
  BY <1>1, <1>9, NodeErrorKeeps DEF NodeError
<1>10. CASE TimeOut
  BY <1>1, <1>10, TimeOutKeeps DEF TimeOut
<1>11. CASE ExpireTrigger
  BY <1>1, <1>11, ExpireTriggerKeeps DEF ExpireTrigger
<1>12. CASE NoNodes
  BY <1>1, <1>12, NoNodesKeeps DEF NoNodes, receiverVars
<1>13. CASE TakeCommands
  BY <1>13, TakeCommandsKeeps
<1>14. CASE HandleEvent
  BY <1>14, HandleEventKeeps
<1>15. CASE FramePresented
  BY <1>15, FramePresentedKeeps
<1>16. CASE TapCapture
  BY <1>16, TapCaptureKeeps
<1>17. CASE WorkerShows
  BY <1>17, PageKeeps DEF WorkerShows, Routes
<1>18. ASSUME NEW to \in Routes, Navigate(to) PROVE ScreenInv'
  BY <1>18, PageKeeps DEF Navigate
<1>19. CASE UNCHANGED vars
  <2>1. UNCHANGED <<receiverVars, commands, screenVars, events>>
    BY <1>19 DEF vars
  <2>2. /\ SessionTypes' /\ SetTypes' /\ Delivered' = Delivered /\ wanted' = wanted
        /\ sets' = sets /\ closing' = closing
    BY <2>1, ReceiverKept
  <2>3. CommandTypes' /\ PageTypes' /\ PreviewFollowsRoute' /\ ui' = ui
    BY <2>1, <2>2, ScreenKept DEF screenVars
  <2>4. QueueTypes' /\ Honest'
    BY <2>1, <2>2, <2>3, SilentKeeps DEF ScreenInv
  <2> QED  BY <2>2, <2>3, <2>4 DEF ScreenInv
<1> QED
  BY <1>2, <1>3, <1>4, <1>5, <1>6, <1>7, <1>8, <1>9, <1>10, <1>11, <1>12, <1>13, <1>14, <1>15,
     <1>16,
     <1>17, <1>18, <1>19 DEF Next, ReceiverStep, ScreenStep

(* The invariant of the touchscreen and of what it is told: the types, the *)
(* preview that follows the page, and the claims of the events in the      *)
(* queue, which the photos that were delivered bear out.                   *)
THEOREM ScreenInvariance ==
  Spec => []ScreenInv
BY ScreenInit, ScreenStays, PTL DEF Spec

(* Every variable holds a value of its type: the queue is bounded, and the *)
(* number of views is that of the cameras shown as complete.               *)
THEOREM ScreenTypes ==
  Spec => []TypeOK
<1>1. ScreenInv => TypeOK
  <2> SUFFICES ASSUME ScreenInv PROVE TypeOK
    OBVIOUS
  <2>1. SessionTypes /\ SetTypes /\ QueueTypes /\ PageTypes
    BY DEF ScreenInv
  <2>2. closing.state \in States \cup {""}
    <3>1. CASE closing = Nothing
      BY <3>1 DEF Nothing, Event
    <3>2. CASE IsResult(closing, sets)
      BY <3>2 DEF IsResult, States
    <3> QED  BY <2>1, <3>1, <3>2 DEF SetTypes
  <2>3. /\ ui.state \in States /\ ui.phase \in Phases /\ ui.cams \in [Cameras -> CameraStates]
        /\ ui.image \in 0..sets /\ ui.review \in 0..sets
    BY <2>1 DEF PageTypes, UiType
  <2>4. ui.views = Cardinality({c \in Cameras : ui.cams[c] = "complete"}) \/ ~ui.capturing
    BY <2>1 DEF PageTypes, Viewed, Shown
  <2> QED  BY <2>1, <2>2, <2>3, <2>4 DEF TypeOK, SessionTypes, SetTypes, QueueTypes, PageTypes
<1> QED  BY <1>1, ScreenInvariance, PTL

(* However the capture page is left, by a button, an event or a worker,    *)
(* the commands that are queued leave the preview asked for if and only if *)
(* that page is shown.                                                     *)
THEOREM PreviewMatchesPage ==
  Spec => []PreviewFollowsRoute
<1>1. ScreenInv => PreviewFollowsRoute
  BY DEF ScreenInv
<1> QED  BY <1>1, ScreenInvariance, PTL

(* A camera that is shown as complete has delivered its photo in the set   *)
(* that is being collected: what an earlier set has claimed is forgotten   *)
(* when that set ends, whatever is still queued then.                      *)
THEOREM CompletionsAreReal ==
  Spec => []CompletionIsReal
<1>1. ScreenInv => CompletionIsReal
  <2> SUFFICES ASSUME ScreenInv, Quiet, ui.capturing, open, NEW c \in Cameras, ui.cams[c] = "complete"
               PROVE  out[c] = "done"
    BY DEF CompletionIsReal
  <2>1. events = <<>> /\ closing = Nothing
    BY DEF Quiet
  <2>2. AllLoading(events, 1)
    BY <2>1 DEF AllLoading
  <2>3. Shown(ui) \subseteq Delivered
    BY <2>1, <2>2 DEF ScreenInv, Honest
  <2> QED  BY <2>3 DEF Shown, Delivered, Cams
<1> QED  BY <1>1, ScreenInvariance, PTL
=============================================================================
