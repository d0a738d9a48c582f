-------------------------------- MODULE Screen --------------------------------
(***************************************************************************)
(* The touchscreen: QtUiController on the Qt thread, the queue of events   *)
(* that the receiver's threads fill and the queue of commands it drains.   *)
(*                                                                         *)
(* The receiver is reduced here to what decides which events it sends and  *)
(* when: the connected sessions, the open set and the outcome of each      *)
(* camera in it.  Module Receiver has the rest.  Two kinds of events are   *)
(* put in the queue after the lock was released, with cameras counted      *)
(* before: those of session_connected() and session_disconnected(); they   *)
(* alone can be sent while a set is being committed under the lock.        *)
(* The control centre, the library and the viewer are one page, "other":   *)
(* module Library has what they do.                                        *)
(* Preview frames, USB badge, camera recovery and the errors of a missing  *)
(* drive outside a commit are left out.                                    *)
(***************************************************************************)
EXTENDS Presentation, Sequences

CONSTANTS MaxSets,     \* bound on the capture sets that are committed
          MaxEvents,   \* bound on the queue of events
          MaxCommands, \* bound on the commands in the queue when a page is left by a button or a worker
          MaxFaults    \* bound on lost sessions, corrupt images, errors of nodes and timeouts

ASSUME ScreenAssumption ==
  /\ MaxSets \in Nat /\ MaxEvents \in Nat /\ MaxCommands \in Nat /\ MaxFaults \in Nat
  /\ IsFiniteSet(Cameras) /\ NoCam \notin Cameras

VARIABLES
  conn,      \* sessions_by_uid
  announce,  \* the event a session thread has yet to send, by camera
  open,      \* a capture set is being collected
  out,       \* the outcome of each camera in it
  closing,   \* what is sent when the set being committed is done with
  stage,     \* each node: idle, shooting, or its image is sent
  busy,      \* sessions with a current_metadata
  rejected,  \* cameras whose running transaction is in rejected_images
  pending,   \* pending_trigger is set
  wanted,    \* preview_requested
  sets,      \* capture sets committed so far
  faults,    \* faults so far
  events,    \* the queue of events
  commands,  \* the queue of commands
  ui,        \* PresentationState
  route,     \* the page that is shown
  untimed,   \* last_manifest, until its display_timing_recorded
  manifests  \* of which set the manifest in the directory of each set is

receiverVars == <<conn, announce, open, out, closing, stage, busy, rejected, pending, wanted, sets, faults>>
timing == <<untimed, manifests>>
screenVars == <<ui, route, timing>>
vars == <<receiverVars, events, commands, screenVars>>

Outcomes == {"none", "started", "imaged", "done", "failed"}
Routes == {"ready", "progress", "review", "capture", "other"}
RuntimeRoutes == {"ready", "progress", "review"}
CaptureStates == {"READY", "REVIEW", "REVIEW_WITH_ERROR", "ERROR"}
Silent == [kind |-> "none", conn |-> {}]
Nothing == Event("")

Init ==
  /\ conn = {} /\ announce = [c \in Cameras |-> Silent]
  /\ open = FALSE /\ out = [c \in Cameras |-> "none"] /\ closing = Nothing
  /\ stage = [c \in Cameras |-> "idle"]
  /\ busy = {} /\ rejected = {} /\ pending = FALSE /\ wanted = FALSE
  /\ sets = 0 /\ faults = 0
  /\ events = <<>> /\ commands = <<>>
  /\ ui = Starting /\ route = "ready"
  /\ untimed = NoReview /\ manifests = [s \in 1..MaxSets |-> s]

-----------------------------------------------------------------------------
(* The receiver.                                                           *)

Send(sent) ==
  /\ Len(events) + Len(sent) <= MaxEvents
  /\ events' = events \o sent

Loading(phase, c, status) ==
  [Event("LOADING") EXCEPT !.phase = phase, !.cam = c, !.status = status,
                           !.failed = IF status = "error" THEN {c} ELSE {}]
Told(e, cams) == [e EXCEPT !.told = TRUE, !.conn = cams]

Cams(outcome, outs) == {c \in Cameras : outs[c] = outcome}

(* What became of a committed set.  Cameras without an image have failed.  *)
(* A partial set of less than two cameras has no animation but is shown    *)
(* all the same, one without images is an error with a manifest.           *)
Result(done) ==
  LET to == [Event("") EXCEPT !.done = done, !.failed = Cameras \ done, !.manifest = sets + 1]
  IN IF done = Cameras THEN [to EXCEPT !.state = "REVIEW", !.image = sets + 1]
     ELSE IF done # {} THEN [to EXCEPT !.state = "REVIEW_WITH_ERROR", !.image = sets + 1]
     ELSE [to EXCEPT !.state = "ERROR"]

(* _finalize_if_ready() on the outcomes outs, as far as the commit ...     *)
Finalize(outs, sent) ==
  LET done == Cams("done", outs)
      building == [Loading("building", NoCam, "") EXCEPT !.done = done, !.failed = Cameras \ done]
  IN /\ open' = FALSE /\ out' = [c \in Cameras |-> "none"]
     /\ rejected' = {} /\ pending' = FALSE
     /\ Send(sent \o <<building>>)
     /\ \/ sets < MaxSets /\ closing' = Result(done)
        \/ closing' = Event("ERROR")

(* ... and what follows it.                                                *)
SendResult ==
  /\ closing # Nothing
  /\ closing' = Nothing
  /\ Send(<<closing>>)
  /\ sets' = IF closing.manifest = NoReview THEN sets ELSE closing.manifest
  /\ UNCHANGED <<conn, announce, open, out, stage, busy, rejected, pending, wanted, faults, commands, screenVars>>

AllResolved(outs) == \A c \in Cameras : outs[c] \in {"done", "failed"}

(* A handler leaves the outcomes outs, and the rejected transactions rej.  *)
Resolve(outs, rej, sent) ==
  IF open /\ AllResolved(outs)
    THEN Finalize(outs, sent)
    ELSE /\ out' = outs /\ rejected' = rej
         /\ Send(sent)
         /\ UNCHANGED <<open, closing, pending>>

(* session_connected() under the lock; what it sends follows later.        *)
Connect(c) ==
  /\ c \notin conn /\ announce[c] = Silent
  /\ conn' = conn \cup {c}
  /\ announce' = [announce EXCEPT ![c] = [kind |-> "connected", conn |-> conn']]
  /\ UNCHANGED <<open, out, closing, stage, busy, rejected, pending, wanted, sets, faults, events, commands, screenVars>>

(* The state of the capture is looked at when the event is sent.           *)
Announce(c) ==
  /\ announce[c] # Silent
  /\ announce' = [announce EXCEPT ![c] = Silent]
  /\ IF announce[c].kind = "connected"
       THEN Send(<<Told(Event("READY"), announce[c].conn)>>)
       ELSE Send(<<Told([Loading("transferring", c, "error")
                          EXCEPT !.failed = {}, !.state = IF open THEN "LOADING" ELSE "ERROR"],
                        announce[c].conn)>>)
  /\ UNCHANGED <<conn, open, out, closing, stage, busy, rejected, pending, wanted, sets, faults, commands, screenVars>>

Fault == faults < MaxFaults /\ faults' = faults + 1

Staged(c, to) == stage' = [stage EXCEPT ![c] = to]

(* session_disconnected(): silent if it has closed the set.                *)
Disconnect(c) ==
  /\ c \in conn /\ announce[c] = Silent
  /\ Fault
  /\ conn' = conn \ {c}
  /\ Staged(c, "idle") /\ busy' = busy \ {c}
  /\ IF c \in busy /\ open /\ out[c] \in {"started", "imaged", "failed"}
       THEN Resolve([out EXCEPT ![c] = "failed"], rejected, <<>>)
       ELSE UNCHANGED <<open, out, closing, rejected, pending, events>>
  /\ announce' = IF open /\ ~open' THEN announce
                 ELSE [announce EXCEPT ![c] = [kind |-> "lost", conn |-> conn']]
  /\ UNCHANGED <<wanted, sets, commands, screenVars>>

Attached(c) == c \in conn /\ announce[c] = Silent

(* _capture_started(): accepted, or rejected by the coordinator.           *)
Start(c) ==
  /\ Attached(c) /\ stage[c] = "idle"
  /\ open \/ sets < MaxSets
  /\ Staged(c, "shooting")
  /\ \/ /\ out[c] = "none"
        /\ open' = TRUE /\ out' = [out EXCEPT ![c] = "started"]
        /\ busy' = busy \cup {c}
        /\ Send(<<Loading("capturing", c, "capturing")>>)
        /\ UNCHANGED rejected
     \/ /\ open
        /\ rejected' = rejected \cup {c}
        /\ Send(<<Loading("", NoCam, "")>>)
        /\ UNCHANGED <<open, out, busy>>
  /\ UNCHANGED <<conn, announce, closing, pending, wanted, sets, faults, commands, screenVars>>

(* _image_received(): good, corrupt, or of a capture that is not known.    *)
Image(c) ==
  /\ Attached(c) /\ stage[c] = "shooting"
  /\ Staged(c, "sent")
  /\ IF c \in rejected \/ out[c] # "started"
       THEN /\ rejected' = rejected \cup {c}
            /\ UNCHANGED <<out, events, faults>>
       ELSE \/ /\ out' = [out EXCEPT ![c] = "imaged"]
               /\ Send(<<Loading("transferring", c, "transferring")>>)
               /\ UNCHANGED <<rejected, faults>>
            \/ /\ Fault
               /\ out' = [out EXCEPT ![c] = "failed"] /\ rejected' = rejected \cup {c}
               /\ Send(<<Loading("transferring", c, "error")>>)
  /\ UNCHANGED <<conn, announce, open, closing, busy, pending, wanted, sets, commands, screenVars>>

(* Faulty variant: an image without its TRANSFER_COMPLETE counts, too.     *)
ImagesIn(outs) == Cams("done", outs) \cup Cams("imaged", outs)

(* completed_camera_ids while a set is open: the cameras in pending_acks.  *)
CompletedIds(outs) == Cams("done", outs)

(* _transfer_complete(): rejected, complete, or without an image, when the *)
(* session stays busy and nothing is said.                                 *)
TransferComplete(c) ==
  /\ Attached(c) /\ stage[c] = "sent"
  /\ Staged(c, "idle")
  /\ CASE c \in rejected ->
            /\ busy' = busy \ {c}
            /\ Resolve(out, rejected \ {c}, <<>>)
       [] c \notin rejected /\ out[c] = "imaged" ->
            /\ busy' = busy \ {c}
            /\ LET outs == [out EXCEPT ![c] = "done"]
               IN Resolve(outs, rejected, <<[Loading("transferring", c, "complete")
                                               EXCEPT !.done = CompletedIds(outs)]>>)
       [] OTHER -> UNCHANGED <<busy, open, out, closing, rejected, pending, events>>
  /\ UNCHANGED <<conn, announce, wanted, sets, faults, commands, screenVars>>

(* _node_error(): an outcome, or an error that belongs to no open set, as  *)
(* that of a node which gives up waiting for the answer.                   *)
NodeError(c) ==
  /\ Attached(c) /\ Fault
  /\ stage[c] = "shooting" \/ (stage[c] = "idle" /\ out[c] = "done")
  /\ Staged(c, "idle")
  /\ IF c \notin rejected /\ out[c] = "started"
       THEN /\ busy' = busy \ {c}
            /\ Resolve([out EXCEPT ![c] = "failed"], rejected,
                       <<Loading("transferring", c, "error")>>)
       ELSE /\ Send(<<Told([Loading("", c, "error") EXCEPT !.state = "ERROR"], conn)>>)
            /\ UNCHANGED <<busy, open, out, closing, rejected, pending>>
  /\ UNCHANGED <<conn, announce, wanted, sets, commands, screenVars>>

(* The no-progress timeout closes the set.                                 *)
TimeOut ==
  /\ open /\ Fault
  /\ Finalize([c \in Cameras |-> IF out[c] = "done" THEN "done" ELSE "failed"], <<>>)
  /\ UNCHANGED <<conn, announce, stage, busy, wanted, sets, commands, screenVars>>

(* _expire_unanswered_trigger()                                            *)
ExpireTrigger ==
  /\ pending /\ ~open
  /\ pending' = FALSE
  /\ Send(<<Event("ERROR")>>)
  /\ UNCHANGED <<conn, announce, open, out, closing, stage, busy, rejected, wanted, sets, faults, commands, screenVars>>

(* _refresh_sessions(): in every cycle; one of them is enough.             *)
NoNodes ==
  /\ conn = {} /\ ~open /\ events = <<>>
  /\ Send(<<Told(Event("ERROR"), {})>>)
  /\ UNCHANGED <<receiverVars, commands, screenVars>>

(* preview_requested when these commands have been taken.                  *)
WantedAfter(queued) ==
  LET toggles == {i \in 1..Len(queued) : queued[i] # "CAPTURE"}
  IN IF toggles = {} THEN wanted
     ELSE \E last \in toggles : queued[last] = "PREVIEW_START" /\ \A i \in toggles : i <= last

(* _process_commands() and _request_capture()                              *)
TakeCommands ==
  /\ commands # <<>>
  /\ commands' = <<>>
  /\ wanted' = WantedAfter(commands)
  /\ IF \A i \in 1..Len(commands) : commands[i] # "CAPTURE"
       THEN UNCHANGED <<pending, events>>
       ELSE IF open \/ pending \/ busy # {}
         THEN Send(<<Loading("", NoCam, "")>>) /\ UNCHANGED pending
       ELSE IF conn = {}
         THEN Send(<<Told(Event("ERROR"), {})>>) /\ UNCHANGED pending
         ELSE pending' = TRUE /\ Send(<<Loading("capturing", NoCam, "")>>)
  /\ UNCHANGED <<conn, announce, open, out, closing, stage, busy, rejected, sets, faults, screenVars>>

(* All but these two need the lock.                                        *)
ReceiverStep ==
  \/ SendResult
  \/ \E c \in Cameras : Announce(c)
  \/ /\ closing = Nothing
     /\ \/ \E c \in Cameras : \/ Connect(c) \/ Disconnect(c) \/ Start(c) \/ Image(c)
                              \/ TransferComplete(c) \/ NodeError(c)
        \/ TimeOut \/ ExpireTrigger \/ NoNodes \/ TakeCommands

-----------------------------------------------------------------------------
(* The Qt thread.                                                          *)

(* Faulty variant: the preview is not stopped on the way out.              *)
ToggledOnEntry(to) == IF route # to /\ to = "capture" THEN <<"PREVIEW_START">> ELSE <<>>

(* _change_route(): the commands that go with it.                          *)
Toggled(to) ==
  IF route = to THEN <<>>
  ELSE (IF route = "capture" THEN <<"PREVIEW_STOP">> ELSE <<>>)
         \o (IF to = "capture" THEN <<"PREVIEW_START">> ELSE <<>>)

ChangeRoute(to, extra) ==
  /\ commands' = commands \o Toggled(to) \o extra
  /\ route' = to

(* handle_event().  A review that cannot be read, deleted or on a drive    *)
(* that was pulled, resets the presentation, connected cameras included.   *)
HandleEvent ==
  /\ events # <<>>
  /\ events' = Tail(events)
  /\ LET p == Apply(ui, Head(events))
         to == CASE Screen(p) \in {"progress", "review"} -> Screen(p)
                 [] OTHER -> IF route \in RuntimeRoutes THEN "ready" ELSE route
     IN \/ ui' = p /\ ChangeRoute(to, <<>>) /\ untimed' = Head(events).manifest
        \/ /\ p.image # NoReview
           /\ ui' = Apply(Starting, Event("ERROR"))
           /\ ChangeRoute("ready", <<>>)
           /\ UNCHANGED untimed
  /\ UNCHANGED <<receiverVars, manifests>>

(* record_display_timing(), after each frame: the manifest of the event is *)
(* written to the directory of the image.  If that fails, nothing happens  *)
(* until the next frame.                                                   *)
FramePresented ==
  /\ untimed # NoReview /\ ui.image # NoReview
  /\ manifests' = [manifests EXCEPT ![ui.image] = untimed]
  /\ untimed' = NoReview
  /\ UNCHANGED <<receiverVars, events, commands, ui, route>>

(* navigate(), from the buttons of each page.                              *)
Buttons ==
  [ready |-> {"other", "capture"},  capture  |-> {"ready", "other"},
   other |-> {"ready", "capture"},  progress |-> {},
   review |-> {"capture", "other"}]

Navigate(to) ==
  /\ to \in Buttons[route] /\ ~ui.capturing
  /\ Len(commands) < MaxCommands
  /\ ChangeRoute(to, <<>>)
  /\ UNCHANGED <<receiverVars, events, ui, timing>>

(* request_capture()                                                       *)
TapCapture ==
  /\ route = "capture" /\ ui.state \in CaptureStates
  /\ Len(commands) < MaxCommands
  /\ ui' = Apply(ui, Loading("capturing", NoCam, ""))
  /\ ChangeRoute("progress", <<"CAPTURE">>)
  /\ UNCHANGED <<receiverVars, events, timing>>

(* The result of a worker that opened or deleted a set shows the library   *)
(* or the viewer whenever it arrives: apply_opened_catalog() and           *)
(* apply_deleted_catalog().                                                *)
WorkerShows ==
  /\ route # "other"
  /\ Len(commands) < MaxCommands
  /\ ChangeRoute("other", <<>>)
  /\ UNCHANGED <<receiverVars, events, ui, timing>>

ScreenStep ==
  \/ HandleEvent \/ FramePresented \/ TapCapture \/ WorkerShows
  \/ \E to \in Routes : Navigate(to)

Next == ReceiverStep \/ ScreenStep

Spec == Init /\ [][Next]_vars

-----------------------------------------------------------------------------
(* Every variable holds a value of its type.                               *)
TypeOK ==
  /\ conn \subseteq Cameras
  /\ announce \in [Cameras -> [kind : {"none", "connected", "lost"}, conn : SUBSET Cameras]]
  /\ open \in BOOLEAN /\ out \in [Cameras -> Outcomes]
  /\ closing.state \in States \cup {""} /\ (open => closing = Nothing)
  /\ stage \in [Cameras -> {"idle", "shooting", "sent"}]
  /\ busy \subseteq conn /\ rejected \subseteq Cameras /\ pending \in BOOLEAN
  /\ wanted \in BOOLEAN
  /\ sets \in 0..MaxSets /\ faults \in 0..MaxFaults
  /\ Len(events) <= MaxEvents
  /\ ui.state \in States /\ ui.phase \in Phases
  /\ ui.cams \in [Cameras -> CameraStates]
  /\ ui.image \in 0..sets /\ ui.review \in 0..sets
  /\ ui.views = Cardinality({c \in Cameras : ui.cams[c] = "complete"}) \/ ~ui.capturing
  /\ route \in Routes
  /\ untimed \in 0..sets /\ manifests \in [1..MaxSets -> 1..MaxSets]

(* Nothing is on its way between the receiver and the screen.              *)
Quiet == events = <<>> /\ commands = <<>> /\ closing = Nothing /\ \A c \in Cameras : announce[c] = Silent

(* Once its commands are taken, the receiver asks for preview frames while *)
(* the capture page is shown and at no other time, however the page was    *)
(* left: by a button, an event of the receiver or a worker's result.       *)
PreviewFollowsRoute == WantedAfter(commands) = (route = "capture")

(* The screen invents no completion: a camera that is shown as complete    *)
(* has delivered its photo in the set that is being collected.             *)
CompletionIsReal ==
  (Quiet /\ ui.capturing /\ open) =>
    \A c \in Cameras : ui.cams[c] = "complete" => out[c] = "done"

-----------------------------------------------------------------------------
(* What the code does not do.                                              *)

(* A manifest stays in the directory of its own set, whatever else is      *)
(* written there.                                                          *)
ManifestStaysWithItsSet == \A s \in 1..sets : manifests[s] = s
=============================================================================
