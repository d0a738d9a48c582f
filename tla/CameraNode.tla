----------------------------- MODULE CameraNode -----------------------------
(***************************************************************************)
(* The firmware of one camera node: the loop() that polls the serial port  *)
(* and the shared trigger, capturePhoto() with its blocking wait for the   *)
(* host's answer, and sendPreviewFrame().                                  *)
(*                                                                         *)
(* Frames travel over two FIFO links per camera, up to the Pi and down to  *)
(* the node.  A node draws its power from the same cable, so an unplugged  *)
(* node is off, and it boots when it is plugged in again.  What a node     *)
(* writes while no host holds the port open is lost.                       *)
(*                                                                         *)
(* capture_seq restarts at 1 with a fresh random boot_id: shot counts the  *)
(* captures of a camera over all its boots and stands for the pair.        *)
(***************************************************************************)
EXTENDS LogicalCameras, Sequences

CONSTANTS MaxShots,  \* bound on the captures of one camera
          MaxBreaks, \* bound on the streams that break, over all cameras
          Faults     \* the faults that can happen, a subset of FaultKinds

FaultKinds == {"capture error", "corrupt image", "ack timeout", "unplug", "glitch",
               "late hello"}

ASSUME NodeAssumption == MaxShots \in Nat /\ MaxBreaks \in Nat /\ Faults \subseteq FaultKinds

VARIABLES
  node,     \* what each node is doing: off, booting, idle, shooting or waiting
  shot,     \* captures made by each camera so far (boot_id, captureSequence)
  previewDue, \* cameras whose previewRequested flag is set
  pressed,  \* cameras that will sample the press of the shared trigger
  up,       \* frames on their way from each node to the Pi
  down,     \* frames on their way from the Pi to each node
  link,     \* each cable: down, up (no host has the port open) or attached
  breaks    \* streams broken so far

nodeVars == <<node, shot, previewDue, pressed, up, down, link, breaks>>

NodeStates == {"off", "booting", "idle", "shooting", "waiting"}
LinkStates == {"down", "up", "attached"}
UpKinds    == {"HELLO", "CAPTURE_STARTED", "IMAGE", "BAD_IMAGE", "TRANSFER_COMPLETE",
               "ERROR", "PREVIEW_IMAGE"}
DownKinds  == {"PING", "PREVIEW_REQUEST", "ACK", "NACK"}

Frame(kind, q) == [kind |-> kind, q |-> q]

NodeInit ==
  /\ node = [c \in Cameras |-> "idle"]
  /\ shot = [c \in Cameras |-> 0]
  /\ previewDue = {}
  /\ pressed = {}
  /\ up = [c \in Cameras |-> <<>>]
  /\ down = [c \in Cameras |-> <<>>]
  /\ link = [c \in Cameras |-> "up"]
  /\ breaks = 0

(* sendFrame(): a sequence of frames written by the node.                  *)
Emit(c, frames) ==
  up' = IF link[c] = "attached" THEN [up EXCEPT ![c] = @ \o frames] ELSE up

Become(c, state) == node' = [node EXCEPT ![c] = state]

(* pollForUsbCaptureRequest(): an idle node reads one frame.  An answer to *)
(* a capture that is over is read here and ignored.                        *)
Poll(c) ==
  /\ node[c] = "idle" /\ down[c] # <<>>
  /\ down' = [down EXCEPT ![c] = Tail(@)]
  /\ previewDue' = IF Head(down[c]).kind = "PREVIEW_REQUEST"
                     THEN previewDue \cup {c} ELSE previewDue
  /\ IF Head(down[c]).kind = "PING" THEN Emit(c, <<Frame("HELLO", 0)>>) ELSE UNCHANGED up
  /\ UNCHANGED <<node, shot, pressed, link, breaks>>

(* capturePhoto() starts: sharedTriggerPressed() returned true in loop(),  *)
(* or in sendPreviewFrame() after the preview request had been consumed.   *)
TakePhoto(c) ==
  /\ node[c] = "idle" /\ c \in pressed
  /\ Become(c, "shooting")
  /\ shot' = [shot EXCEPT ![c] = @ + 1]
  /\ pressed' = pressed \ {c}
  /\ previewDue' \in {previewDue, previewDue \ {c}}
  /\ Emit(c, <<Frame("CAPTURE_STARTED", shot[c] + 1)>>)
  /\ UNCHANGED <<down, link, breaks>>

(* An early return of capturePhoto(): sensor, settling or frame failed.    *)
CaptureError(c) ==
  /\ "capture error" \in Faults
  /\ node[c] = "shooting"
  /\ Become(c, "idle")
  /\ Emit(c, <<Frame("ERROR", shot[c])>>)
  /\ UNCHANGED <<shot, previewDue, pressed, down, link, breaks>>

(* IMAGE and TRANSFER_COMPLETE are written, and waitForHostAck() begins.   *)
(* With no host the write stalls, and capturePhoto() gives up.             *)
Transfer(c) ==
  /\ node[c] = "shooting"
  /\ Become(c, IF link[c] = "attached" THEN "waiting" ELSE "idle")
  /\ \E image \in {"IMAGE"} \cup (IF "corrupt image" \in Faults THEN {"BAD_IMAGE"} ELSE {}) :
       Emit(c, <<Frame(image, shot[c]), Frame("TRANSFER_COMPLETE", shot[c])>>)
  /\ UNCHANGED <<shot, previewDue, pressed, down, link, breaks>>

(* Faulty variant: any answer ends the wait.                               *)
ReadAnyReply(c) ==
  /\ node[c] = "waiting" /\ down[c] # <<>>
  /\ down' = [down EXCEPT ![c] = Tail(@)]
  /\ Become(c, IF Head(down[c]).kind \in {"ACK", "NACK"} THEN "idle" ELSE "waiting")
  /\ UNCHANGED <<shot, previewDue, pressed, up, link, breaks>>

(* waitForHostAck() reads a frame: only an answer to this capture counts,  *)
(* every other frame, a PING among them, is dropped.                       *)
ReadReply(c) ==
  /\ node[c] = "waiting" /\ down[c] # <<>>
  /\ down' = [down EXCEPT ![c] = Tail(@)]
  /\ Become(c, IF Head(down[c]) \in {Frame("ACK", shot[c]), Frame("NACK", shot[c])}
                 THEN "idle" ELSE "waiting")
  /\ UNCHANGED <<shot, previewDue, pressed, up, link, breaks>>

(* HOST_ACK_TIMEOUT: the node gives up waiting, whatever the host does.    *)
AckTimeout(c) ==
  /\ "ack timeout" \in Faults
  /\ node[c] = "waiting"
  /\ Become(c, "idle")
  /\ Emit(c, <<Frame("ERROR", shot[c])>>)
  /\ UNCHANGED <<shot, previewDue, pressed, down, link, breaks>>

(* sendPreviewFrame(): the frame is sent, or it failed and only a LOG is.  *)
SendPreview(c) ==
  /\ node[c] = "idle" /\ c \in previewDue
  /\ previewDue' = previewDue \ {c}
  /\ Emit(c, <<Frame("PREVIEW_IMAGE", 0)>>) \/ UNCHANGED up
  /\ UNCHANGED <<node, shot, pressed, down, link, breaks>>

(* The trigger line is pulled low, by the shutter button or by the Pi.     *)
(* Which nodes come to sample it is open: a node that is busy until the    *)
(* line is high again, or that sees a bounce, misses the press.            *)
LineLow ==
  pressed' \in SUBSET {c \in Cameras : node[c] # "off" /\ shot[c] < MaxShots}

Press ==
  /\ pressed = {}
  /\ LineLow
  /\ UNCHANGED <<node, shot, previewDue, up, down, link, breaks>>

(* The cable is pulled.  A frame the Pi has already read may survive.      *)
Unplug(c) ==
  /\ "unplug" \in Faults /\ breaks < MaxBreaks
  /\ link[c] # "down"
  /\ link' = [link EXCEPT ![c] = "down"]
  /\ Become(c, "off")
  /\ previewDue' = previewDue \ {c}
  /\ pressed' = pressed \ {c}
  /\ \E n \in {0, 1} \cap 0..Len(up[c]) : up' = [up EXCEPT ![c] = SubSeq(@, 1, n)]
  /\ down' = [down EXCEPT ![c] = <<>>]
  /\ breaks' = breaks + 1
  /\ UNCHANGED shot

(* The cable is back, and the port appears before setup() has run.         *)
PlugIn(c) ==
  /\ link[c] = "down"
  /\ link' = [link EXCEPT ![c] = "up"]
  /\ Become(c, "booting")
  /\ UNCHANGED <<shot, previewDue, pressed, up, down, breaks>>

(* setup() ends with a HELLO of its own, which no PING asked for.          *)
Setup(c) ==
  /\ node[c] = "booting"
  /\ Become(c, "idle")
  /\ Emit(c, <<Frame("HELLO", 0)>>)
  /\ UNCHANGED <<shot, previewDue, pressed, down, link, breaks>>

(* The serial stream fails while the node keeps running: a stall in the    *)
(* middle of a frame, or a header or metadata checksum that is wrong.      *)
Glitch(c) ==
  /\ "glitch" \in Faults /\ breaks < MaxBreaks
  /\ link[c] = "attached"
  /\ link' = [link EXCEPT ![c] = "up"]
  /\ \E n \in {0, 1} \cap 0..Len(up[c]) : up' = [up EXCEPT ![c] = SubSeq(@, 1, n)]
  /\ breaks' = breaks + 1
  /\ UNCHANGED <<node, shot, previewDue, pressed, down>>

NodeStep(c) ==
  \/ Setup(c) \/ Poll(c) \/ TakePhoto(c) \/ CaptureError(c) \/ Transfer(c)
  \/ ReadReply(c) \/ AckTimeout(c) \/ SendPreview(c)

Cable(c) == Unplug(c) \/ PlugIn(c) \/ Glitch(c)
=============================================================================
