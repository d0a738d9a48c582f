------------------------------- MODULE Receiver -------------------------------
(***************************************************************************)
(* The Pi's receiver: one NodeSession thread per serial port and the       *)
(* Receiver thread itself.  They share the tables of the capture that is   *)
(* being collected under one lock, so every handler is one step, with the  *)
(* commit and the answers to the nodes inside it.                          *)
(*                                                                         *)
(* Where a handler runs is in the action's name: those of a session read   *)
(* the head of its link, those of the Receiver thread need mainAlive.      *)
(* Configuration is the shipped one: hardware trigger, no fault injection, *)
(* and the four cameras are required of an automatic trigger.              *)
(***************************************************************************)
EXTENDS ActiveCapture, CameraNode

CONSTANTS CameraOrder,    \* the cameras in the order of their logical numbers
          AutoTriggers,   \* trigger_count: captures the Receiver asks for itself
          MaxCommands,    \* bound on the UI commands waiting in the queue
          MaxDown,        \* bound on the frames waiting for a node when a PING is added
          MaxPreviews,    \* bound on the preview requests and replies in all links
          UiCommands,     \* the commands the UI issues
          CommitOutcomes  \* subset of BOOLEAN: can the commit succeed, can it fail

ASSUME ReceiverAssumption ==
  /\ CameraOrder \in [1..Cardinality(Cameras) -> Cameras]
  /\ AutoTriggers \in Nat /\ MaxCommands \in Nat /\ MaxDown \in Nat \ {0} /\ MaxPreviews \in Nat
  /\ UiCommands \subseteq {"CAPTURE", "PREVIEW_START", "PREVIEW_STOP"}
  /\ CommitOutcomes \subseteq BOOLEAN /\ CommitOutcomes # {}

VARIABLES
  sess,        \* off, opening, registered (node_uid not set yet) or open
  current,     \* current_metadata of each session
  active,      \* coordinator._active
  seen,        \* coordinator._seen, whose limit of 1024 no run reaches
  tables,      \* capture_state, pending_images, rejected_images, pending_acks
  pending,     \* pending_trigger: ticks since it was issued, or NoTrigger
  auto,        \* automatic_triggers_remaining and _in_flight
  commands,    \* the queue of UI commands
  preview,     \* preview_requested, preview_outstanding, preview_camera_index
  request,     \* a capture _process_commands() is about to ask for: none, manual, automatic
  mainAlive,   \* the Receiver thread has not died of an exception
  published,   \* observer: the capture sets on the drive, in order
  answers      \* observer: the answers sent, as <<kind, c, q>>

captureVars == <<active, seen, tables, pending, auto, published, answers>>
mainVars == <<commands, preview, request, mainAlive>>
piVars == <<sess, current, captureVars, mainVars>>

NoTrigger == -1
NoCam == "none"
Txs == 1..MaxShots
Tx == Cameras \X Txs

NoTables == [started |-> {}, images |-> {}, rejected |-> {}, acks |-> <<>>]

ReceiverInit ==
  /\ sess = [c \in Cameras |-> "off"]
  /\ current = [c \in Cameras |-> NoTx]
  /\ active = Idle
  /\ seen = {}
  /\ tables = NoTables
  /\ pending = NoTrigger
  /\ auto = [remaining |-> AutoTriggers, inFlight |-> FALSE]
  /\ commands = <<>>
  /\ preview = [wanted |-> FALSE, outstanding |-> NoCam, index |-> 0]
  /\ request = "none"
  /\ mainAlive = TRUE
  /\ published = <<>>
  /\ answers = {}

ByUid == {c \in Cameras : sess[c] \in {"registered", "open"}}
Busy == \E c \in ByUid : current[c] # NoTx
TriggerAllowed == ~active.open

(* session.send() works on a live stream and raises on any other.          *)
Reachable(c) == sess[c] = "open" /\ link[c] = "attached"

-----------------------------------------------------------------------------
(* Faulty variant: a capture nobody asked for counts as an attempt.        *)
EveryCaptureCounted == [remaining |-> auto.remaining - 1, inFlight |-> FALSE]

(* _finish_automatic_attempt()                                             *)
AttemptFinished ==
  IF auto.inFlight THEN [remaining |-> auto.remaining - 1, inFlight |-> FALSE] ELSE auto

(* Faulty variants: the ACKs do not wait for the commit, and no answer is  *)
(* given when it fails.                                                    *)
AnswersBeforeCommit(acks, images, committed) ==
  {<<"ACK", acks[i].cam, acks[i].q>> :
     i \in {j \in 1..Len(acks) : acks[j].live /\ Reachable(acks[j].cam)}}

AnswersOnlyCommitted(acks, images, committed) ==
  IF committed THEN AnswersBeforeCommit(acks, images, committed) ELSE {}

(* The answers of _finalize_if_ready().  ACKs go out in the order in which *)
(* the transfers completed, up to the first dead session, whose send()     *)
(* raises: then, as after a failed commit, every live session gets a NACK. *)
AnswersSent(acks, images, committed) ==
  LET Lives(a) == a.live /\ Reachable(a.cam)
      wanted   == {i \in 1..Len(acks) : acks[i].cam \in images}
      raised   == {i \in wanted : ~Lives(acks[i])}
      acked    == {acks[i] : i \in {j \in wanted : \A r \in raised : j < r}}
      nacked   == {acks[i] : i \in {j \in 1..Len(acks) : Lives(acks[j])}}
      Send(kind, entries) == {<<kind, a.cam, a.q>> : a \in entries}
  IN IF committed /\ raised = {}
       THEN Send("ACK", acked)
       ELSE Send("NACK", nacked) \cup (IF committed THEN Send("ACK", acked) ELSE {})

(* The links after those answers: a camera gets its ACK before its NACK.   *)
Answered(links, sent) ==
  [c \in Cameras |->
     LET of(kind) == {m \in sent : m[1] = kind /\ m[2] = c}
         frames(kind) == IF of(kind) = {} THEN <<>>
                         ELSE <<Frame(kind, (CHOOSE m \in of(kind) : TRUE)[3])>>
     IN links[c] \o frames("ACK") \o frames("NACK")]

(* Faulty variant: the set that was closed is not forgotten.               *)
FinalizeNoReset(a, t, d, given, lag) ==
  IF MayFinalize(a, lag)
    THEN \E committed \in CommitOutcomes :
           LET sent == AnswersSent(t.acks, a.images, committed)
           IN /\ published' = IF committed /\ Len(published) < 3
                                THEN Append(published, Completed(a)) ELSE published
              /\ down' = Answered(d, sent)
              /\ answers' = answers \cup given \cup sent
              /\ active' = a
              /\ seen' = seen \cup Transactions(a)
              /\ tables' = NoTables
              /\ pending' = NoTrigger
              /\ auto' = AttemptFinished
    ELSE /\ active' = a /\ tables' = t /\ down' = d
         /\ answers' = answers \cup given
         /\ UNCHANGED <<seen, pending, auto, published>>

(* _finalize_if_ready(), called with the active set a, the tables t and    *)
(* the links d as the handler has left them so far, and the answers it has *)
(* already given: close the set, commit it, answer, clear.                 *)
FinalizeIfReady(a, t, d, given, lag) ==
  IF MayFinalize(a, lag)
    THEN \E committed \in CommitOutcomes :
           LET sent == AnswersSent(t.acks, a.images, committed)
           IN /\ published' = IF committed THEN Append(published, Completed(a)) ELSE published
              /\ down' = Answered(d, sent)
              /\ answers' = answers \cup given \cup sent
              /\ active' = Idle
              /\ seen' = seen \cup Transactions(a)
              /\ tables' = NoTables
              /\ pending' = NoTrigger
              /\ auto' = AttemptFinished
    ELSE /\ active' = a /\ tables' = t /\ down' = d
         /\ answers' = answers \cup given
         /\ UNCHANGED <<seen, pending, auto, published>>

-----------------------------------------------------------------------------
(* The life of a session.                                                  *)

(* _refresh_sessions(): the port is there and its retry delay is over.     *)
Discover(c) ==
  /\ mainAlive
  /\ sess[c] = "off" /\ link[c] = "up" /\ Len(down[c]) < MaxDown
  /\ sess' = [sess EXCEPT ![c] = "opening"]
  /\ link' = [link EXCEPT ![c] = "attached"]
  /\ up' = [up EXCEPT ![c] = <<>>]
  /\ down' = [down EXCEPT ![c] = Append(@, Frame("PING", 0))]
  /\ UNCHANGED <<node, shot, previewDue, pressed, breaks, current, captureVars, mainVars>>

(* _wait_for_hello() drops what is not HELLO; session_connected() enters   *)
(* the session in sessions_by_uid.                                         *)
ReadHello(c) ==
  /\ sess[c] = "opening" /\ up[c] # <<>>
  /\ up' = [up EXCEPT ![c] = Tail(@)]
  /\ sess' = IF Head(up[c]).kind = "HELLO" THEN [sess EXCEPT ![c] = "registered"] ELSE sess
  /\ UNCHANGED <<node, shot, previewDue, pressed, down, link, breaks, current, captureVars, mainVars>>

(* session_connected() has resolved the storage, outside the lock, and     *)
(* returns the UID that becomes node_uid.                                  *)
Identify(c) ==
  /\ sess[c] = "registered"
  /\ sess' = [sess EXCEPT ![c] = "open"]
  /\ UNCHANGED <<nodeVars, current, captureVars, mainVars>>

(* The stream broke, or no HELLO came within 15 seconds: the session ends  *)
(* without a UID.  A HELLO on its way is late only if Faults allow it.     *)
HelloComing(c) ==
  /\ link[c] = "attached"
  /\ \/ \E i \in 1..Len(up[c]) : up[c][i].kind = "HELLO"
     \/ node[c] = "booting"
     \/ node[c] = "idle" /\ \E i \in 1..Len(down[c]) : down[c][i].kind = "PING"

GiveUp(c) ==
  /\ sess[c] = "opening"
  /\ "late hello" \in Faults \/ ~HelloComing(c)
  /\ sess' = [sess EXCEPT ![c] = "off"]
  /\ link' = IF link[c] = "attached" THEN [link EXCEPT ![c] = "up"] ELSE link
  /\ up' = [up EXCEPT ![c] = <<>>]
  /\ UNCHANGED <<node, shot, previewDue, pressed, breaks, down, current, captureVars, mainVars>>

(* An outstanding preview request is forgotten (or, faulty variant, not).  *)
PreviewKept == preview
PreviewCancelled == [preview EXCEPT !.outstanding = NoCam]

(* A pending answer keeps the session it is meant for, and a later session *)
(* of the same camera does not take its place.                             *)
SessionLost(acks, c) ==
  [i \in 1..Len(acks) |-> IF acks[i].cam = c THEN [acks[i] EXCEPT !.live = FALSE] ELSE acks[i]]

(* session_disconnected(): the stream is gone and what it had delivered is *)
(* handled.                                                                *)
Disconnected(c) ==
  /\ sess[c] = "open" /\ link[c] # "attached" /\ up[c] = <<>>
  /\ sess' = [sess EXCEPT ![c] = "off"]
  /\ current' = [current EXCEPT ![c] = NoTx]
  /\ preview' = IF preview.outstanding = c THEN PreviewCancelled ELSE preview
  /\ LET q == current[c]
         t == [tables EXCEPT !.acks = SessionLost(@, c)]
     IN IF q = NoTx
          THEN /\ tables' = t
               /\ UNCHANGED <<active, seen, pending, auto, published, answers, down>>
          ELSE IF FailAccepted(active, c, q)
            THEN FinalizeIfReady(AfterFail(active, c, 0),
                                 [t EXCEPT !.images = @ \ {<<c, q>>},
                                           !.rejected = @ \cup {<<c, q>>}],
                                 down, {}, 0)
            ELSE FinalizeIfReady(active, t, down, {}, 0)
  /\ UNCHANGED <<node, shot, previewDue, pressed, up, link, breaks, commands, request, mainAlive>>

-----------------------------------------------------------------------------
(* handle_frame(): one frame of an open session, read at a moment that may *)
(* lie lag ticks before the lock was acquired.  The coordinator is never   *)
(* asked for something it refuses where the code does not expect it: see   *)
(* TablesAgree in module Rig.                                              *)
Received(c, kinds) ==
  /\ sess[c] = "open" /\ up[c] # <<>>
  /\ Head(up[c]).kind \in kinds
  /\ up' = [up EXCEPT ![c] = Tail(@)]

Got(c) == <<c, Head(up[c]).q>>

(* send(NACK) outside a commit: on a dead session it raises, and ends it.  *)
Nacked(c) == IF Reachable(c) THEN [down EXCEPT ![c] = Append(@, Frame("NACK", Got(c)[2]))] ELSE down
NackGiven(c) == IF Reachable(c) THEN {<<"NACK", Got(c)[1], Got(c)[2]>>} ELSE {}

CaptureStarted(c, lag) ==
  /\ Received(c, {"CAPTURE_STARTED"})
  /\ preview' = PreviewCancelled
  /\ IF StartAccepted(active, seen, c, Got(c)[2], lag)
       THEN /\ active' = AfterStart(active, c, Got(c)[2], lag)
            /\ current' = [current EXCEPT ![c] = Got(c)[2]]
            /\ tables' = [tables EXCEPT !.started = @ \cup {Got(c)}]
       ELSE /\ tables' = [tables EXCEPT !.rejected = @ \cup {Got(c)}]
            /\ UNCHANGED <<active, current>>
  /\ UNCHANGED <<node, shot, previewDue, pressed, down, link, breaks, sess, seen, pending, auto,
                 published, answers, commands, request, mainAlive>>

ImageReceived(c, lag) ==
  /\ Received(c, {"IMAGE", "BAD_IMAGE"})
  /\ CASE Got(c) \in tables.rejected -> UNCHANGED <<tables, active>>
       [] Got(c) \notin tables.rejected \cup tables.started ->
            /\ tables' = [tables EXCEPT !.rejected = @ \cup {Got(c)}]
            /\ UNCHANGED active
       [] OTHER ->
            IF Head(up[c]).kind = "IMAGE"
              THEN /\ tables' = [tables EXCEPT !.images = @ \cup {Got(c)}]
                   /\ UNCHANGED active
              ELSE /\ FailAccepted(active, c, Got(c)[2])
                   /\ active' = AfterFail(active, c, lag)
                   /\ tables' = [tables EXCEPT !.rejected = @ \cup {Got(c)}]
  /\ UNCHANGED <<node, shot, previewDue, pressed, down, link, breaks, sess, current, seen, pending, auto,
                 published, answers, mainVars>>

(* payload_progress(): part of the payload is in.                          *)
PayloadProgress(c) ==
  /\ sess[c] = "open" /\ up[c] # <<>> /\ link[c] = "attached"
  /\ Head(up[c]).kind \in {"IMAGE", "BAD_IMAGE"}
  /\ ProgressAccepted(active, c, Got(c)[2])
  /\ active' = AfterProgress(active, 0)
  /\ UNCHANGED <<nodeVars, sess, current, seen, tables, pending, auto, published, answers, mainVars>>

(* _transfer_complete(): a rejected image, no image, a good image.         *)
TransferComplete(c, lag) ==
  /\ Received(c, {"TRANSFER_COMPLETE"})
  /\ CASE Got(c) \in tables.rejected ->
            LET t == [tables EXCEPT !.rejected = @ \ {Got(c)}]
            IN IF Reachable(c)
                 THEN /\ current' = [current EXCEPT ![c] = NoTx]
                      /\ FinalizeIfReady(active, t, Nacked(c), NackGiven(c), lag)
                 ELSE /\ tables' = t
                      /\ UNCHANGED <<current, down, active, seen, pending, auto, published,
                                     answers>>
       [] Got(c) \notin tables.rejected \cup tables.images ->
            /\ down' = Nacked(c)
            /\ answers' = answers \cup NackGiven(c)
            /\ UNCHANGED <<current, active, seen, tables, pending, auto, published>>
       [] OTHER ->
            /\ CompleteAccepted(active, c, Got(c)[2])
            /\ current' = [current EXCEPT ![c] = NoTx]
            /\ FinalizeIfReady(
                 AfterComplete(active, c, lag),
                 [tables EXCEPT !.images = @ \ {Got(c)},
                                !.acks = Append(@, [cam |-> c, q |-> Got(c)[2], live |-> TRUE])],
                 down, {}, lag)
  /\ UNCHANGED <<node, shot, previewDue, pressed, link, breaks, sess, mainVars>>

NodeError(c, lag) ==
  /\ Received(c, {"ERROR"})
  /\ IF FailAccepted(active, c, Got(c)[2])
       THEN /\ current' = [current EXCEPT ![c] = NoTx]
            /\ FinalizeIfReady(AfterFail(active, c, lag), tables, down, {}, lag)
       ELSE UNCHANGED <<current, captureVars, down>>
  /\ UNCHANGED <<node, shot, previewDue, pressed, link, breaks, sess, mainVars>>

(* _preview_received(): shown or not, it ends the outstanding request.     *)
PreviewReceived(c) ==
  /\ Received(c, {"PREVIEW_IMAGE"})
  /\ preview' = PreviewCancelled
  /\ UNCHANGED <<node, shot, previewDue, pressed, down, link, breaks, sess, current, captureVars,
                 commands, request, mainAlive>>

HelloIgnored(c) ==
  /\ Received(c, {"HELLO"})
  /\ UNCHANGED <<node, shot, previewDue, pressed, down, link, breaks, sess, current, captureVars,
                 mainVars>>

HandleFrame(c) ==
  \/ \E lag \in Lags : \/ CaptureStarted(c, lag) \/ ImageReceived(c, lag)
                       \/ TransferComplete(c, lag) \/ NodeError(c, lag)
  \/ PreviewReceived(c)
  \/ HelloIgnored(c)

-----------------------------------------------------------------------------
(* The Receiver thread.                                                    *)

(* The UI puts a command in the queue.                                     *)
Command(kind) ==
  /\ Len(commands) < MaxCommands
  /\ commands' = Append(commands, kind)
  /\ UNCHANGED <<nodeVars, sess, current, captureVars, preview, request, mainAlive>>

(* _process_commands() drains the queue and decides, under the lock,       *)
(* whether an automatic trigger is due; the request itself follows after   *)
(* the lock was free in between.                                           *)
AutomaticDue ==
  /\ auto.remaining > 0 /\ ~auto.inFlight
  /\ ByUid = Cameras /\ ~Busy

ProcessCommands ==
  /\ mainAlive /\ request = "none"
  /\ LET queued == {commands[i] : i \in 1..Len(commands)}
         toggles == SelectSeq(commands, LAMBDA k : k # "CAPTURE")
     IN /\ commands # <<>> \/ AutomaticDue
        /\ \E automatic \in {AutomaticDue, FALSE} :
             request' = CASE automatic            -> "automatic"
                          [] ~automatic /\ "CAPTURE" \in queued -> "manual"
                          [] OTHER                -> "none"
        /\ preview' = IF toggles = <<>> THEN preview
                      ELSE [preview EXCEPT
                              !.wanted = toggles[Len(toggles)] = "PREVIEW_START",
                              !.outstanding = IF "PREVIEW_STOP" \in queued THEN NoCam ELSE @]
  /\ commands' = <<>>
  /\ UNCHANGED <<nodeVars, sess, current, captureVars, mainAlive>>

(* _request_capture(): refused while a set is open, a trigger is pending   *)
(* or a session is still in a capture, without storage or without cameras; *)
(* otherwise the shared trigger is pulsed, which every powered node sees.  *)
CaptureRefused ==
  \/ ~TriggerAllowed \/ pending # NoTrigger \/ Busy
  \/ ByUid = {} \/ FALSE \in CommitOutcomes

CapturePossible ==
  /\ TriggerAllowed /\ pending = NoTrigger /\ ~Busy
  /\ ByUid # {}

RequestCapture ==
  /\ mainAlive /\ request # "none"
  /\ request' = "none"
  /\ preview' = PreviewCancelled
  /\ \/ CaptureRefused /\ UNCHANGED <<pressed, pending, auto>>
     \/ /\ CapturePossible
        /\ pending' = 0
        /\ LineLow
        /\ auto' = [auto EXCEPT !.inFlight = @ \/ request = "automatic"]
  /\ UNCHANGED <<node, shot, previewDue, up, down, link, breaks, sess, current, active, seen, tables,
                 published, answers, commands, mainAlive>>

(* The three calls that run() makes under the lock in every cycle.         *)
FinalizeInLoop ==
  /\ mainAlive /\ request = "none"
  /\ MayFinalize(active, 0)
  /\ FinalizeIfReady(active, tables, down, {}, 0)
  /\ UNCHANGED <<node, shot, previewDue, pressed, up, link, breaks, sess, current, mainVars>>

(* Faulty variants: the attempt, or the trigger, outlives the timeout.     *)
ExpireNotCounted ==
  /\ mainAlive /\ request = "none"
  /\ pending >= Timeout /\ ~active.open
  /\ pending' = NoTrigger
  /\ UNCHANGED <<nodeVars, sess, current, active, seen, tables, auto, published, answers, mainVars>>

ExpireNoReset ==
  /\ mainAlive /\ request = "none"
  /\ pending >= Timeout /\ ~active.open
  /\ auto' = AttemptFinished
  /\ UNCHANGED <<nodeVars, sess, current, active, seen, tables, pending, published, answers,
                 mainVars>>

ExpireUnansweredTrigger ==
  /\ mainAlive /\ request = "none"
  /\ pending >= Timeout /\ ~active.open
  /\ pending' = NoTrigger
  /\ auto' = AttemptFinished
  /\ UNCHANGED <<nodeVars, sess, current, active, seen, tables, published, answers, mainVars>>

(* _service_preview(): an outstanding request blocks until its timeout.    *)
(* The sessions are sorted by the camera of their node_uid before they are *)
(* counted: a session that is registered but has no node_uid yet raises    *)
(* KeyError, and so does a send on a dead stream; nothing catches either.  *)
PreviewsUnderway ==
  LET At(links, kind) == UNION {{c} \X {i \in 1..Len(links[c]) : links[c][i].kind = kind} :
                                 c \in Cameras}
  IN Cardinality(previewDue) + Cardinality(At(down, "PREVIEW_REQUEST"))
       + Cardinality(At(up, "PREVIEW_IMAGE"))

PreviewBlocked ==
  ~preview.wanted \/ pending # NoTrigger \/ ~TriggerAllowed \/ Busy

ServicePreview ==
  /\ mainAlive /\ request = "none"
  /\ preview.wanted \/ preview.outstanding # NoCam
  /\ PreviewsUnderway < MaxPreviews
  /\ LET n      == Cardinality(Cameras)
         target == CameraOrder[preview.index + 1]
         raises == \E c \in ByUid : sess[c] = "registered"
         next   == [preview EXCEPT !.outstanding = NoCam, !.index = (@ + 1) % n]
     IN CASE PreviewBlocked \/ (~raises /\ ByUid # Cameras) ->
               /\ preview' = PreviewCancelled
               /\ UNCHANGED <<mainAlive, down>>
          [] ~PreviewBlocked /\ raises ->
               /\ preview' = PreviewCancelled
               /\ mainAlive' = FALSE
               /\ UNCHANGED down
          [] OTHER ->
               IF Reachable(target)
                 THEN /\ preview' = [next EXCEPT !.outstanding = target]
                      /\ down' = [down EXCEPT ![target] = Append(@, Frame("PREVIEW_REQUEST", 0))]
                      /\ UNCHANGED mainAlive
                 ELSE /\ preview' = next
                      /\ mainAlive' = FALSE
                      /\ UNCHANGED down
  /\ UNCHANGED <<node, shot, previewDue, pressed, up, link, breaks, sess, current, captureVars, commands,
                 request>>

MainLoop == ProcessCommands \/ RequestCapture \/ FinalizeInLoop \/ ExpireUnansweredTrigger

(* The monotonic clock.                                                    *)
Tick ==
  /\ active' = Aged(active)
  /\ pending' = IF pending = NoTrigger THEN NoTrigger ELSE Grown(pending)
  /\ UNCHANGED <<nodeVars, sess, current, seen, tables, auto, published, answers, mainVars>>
=============================================================================
