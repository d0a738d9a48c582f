------------------------------- MODULE NodeLoop -------------------------------
(***************************************************************************)
(* loop() of the firmware in time: the serial port it reads, the debounced *)
(* trigger it polls and what keeps it from polling, with the line that the *)
(* shutter button and the pulse of the Pi pull low.  One node is enough:   *)
(* the nodes share the line and nothing else.                              *)
(*                                                                         *)
(* Time is counted in ticks.  Running code takes no time; a delay, a frame *)
(* of the sensor, a blocked read and a blocked write do.  A frame has a    *)
(* header of HeaderLen bytes behind its magic and one byte of metadata: a  *)
(* checksum is right if the bytes are those of one frame, in their order   *)
(* and undamaged.                                                          *)
(***************************************************************************)
EXTENDS Integers, Sequences, SequencesExt

CONSTANTS Wrap,          \* millis() counts modulo this
          Debounce,      \* TRIGGER_DEBOUNCE_MS
          MaxGap,        \* bound on delay(5); polls no further apart are prompt
          MaxBlock,      \* bound on a preview frame, and on a write to the Pi
          Pulse,         \* pulse_seconds
          Chatter,       \* bound on the time the contact of the button bounces
          ReadTimeout,   \* the timeout of Serial.readBytes()
          MaxShoot,      \* bound on the time a photo takes
          AckTimeout,    \* HOST_ACK_TIMEOUT_MS
          Attempts,      \* PREVIEW_FRAME_ATTEMPTS
          MaxInputs      \* bound on taps of the button, pulses and writes of the Pi

ASSUME NodeLoopAssumption ==
  /\ {Wrap, Debounce, MaxGap, MaxBlock, Pulse, ReadTimeout, MaxShoot, AckTimeout, Attempts}
       \subseteq Nat \ {0}
  /\ {Chatter, MaxInputs} \subseteq Nat
  /\ Chatter < Debounce
  /\ Pulse > Debounce + 2 * MaxGap
  /\ Wrap >= Debounce + MaxGap

VARIABLES
  button,    \* the button: where it is, and for how long its contact may still bounce
  contact,   \* the contact of the button is closed
  output,    \* GPIO17: ticks since pulse() wrote 1, or Idle
  closed,    \* close() was called
  pin,       \* lastRawTriggerState, stableTriggerState, millis() - lastTriggerChangeMs
  at,        \* where the node is in its loop
  caller,    \* who reads the serial port: loop() or waitForHostAck()
  spent,     \* ticks since the last poll, byte or photo
  waited,    \* ticks in waitForHostAck()
  preview,   \* previewRequested
  tries,     \* attempts left in sendPreviewFrame()
  wire,      \* bytes that wait in the serial port
  matched,   \* idleMagicMatched
  buf,       \* what was read behind the magic
  writes,    \* writes of the Pi so far
  actuations, presses, \* observers: taps and pulses, and those the node took for one
  owed,      \* observer: ticks a prompt node has had to notice the line, or NotOwed
  sent, got, \* observers: frames written whole, frames read
  torn,      \* observer: a frame was cut behind its magic
  window     \* observer: the last bytes that were scanned

environment == <<button, contact, output, closed, actuations>>
place == <<at, caller, spent, waited, preview, tries>>
serial == <<wire, matched, buf, got, window>>
host == <<writes, sent, torn>>
vars == <<environment, pin, place, serial, host, presses, owed>>

Idle == -1
NotOwed == -1
Magic == <<"B", "T", "C", "1">>
HeaderLen == 2
FrameLen == Len(Magic) + HeaderLen + 1
Kinds == {"PING", "PREVIEW_REQUEST", "CAPTURE_REQUEST", "ACK"}
Places == {"serial", "header", "body", "answer", "trigger", "requested",
           "preview", "send", "shoot", "rest"}

Init ==
  /\ button = [to |-> "up", bounce |-> 0] /\ contact = FALSE
  /\ output = Idle /\ closed = FALSE
  /\ pin = [raw |-> "high", stable |-> "high", since |-> 0]
  /\ at = "serial" /\ caller = "loop" /\ spent = 0 /\ waited = 0
  /\ preview = FALSE /\ tries = 0
  /\ wire = <<>> /\ matched = 0 /\ buf = <<>> /\ writes = 0
  /\ actuations = 0 /\ presses = 0 /\ owed = NotOwed
  /\ sent = <<>> /\ got = <<>> /\ torn = FALSE /\ window = <<>>

-----------------------------------------------------------------------------
(* The line: active low, shared by the button and the Pi's transistor.     *)

Level(closedNow, out) == IF closedNow \/ out # Idle THEN "low" ELSE "high"
line == Level(contact, output)

(* The node is in its loop, and its last poll was not long ago.            *)
Prompt ==
  /\ caller = "loop" /\ at \in {"serial", "trigger", "requested", "preview", "send", "rest"}
  /\ spent <= MaxGap

MoreInput == actuations + writes < MaxInputs

(* The line may have changed, and n ticks have passed.  From the moment it *)
(* falls an armed node owes a photo for it, as long as it is prompt.       *)
LineChanged(n) ==
  owed' = IF line' = "high" \/ ~Prompt' THEN NotOwed
          ELSE IF line = "high" THEN (IF pin.stable = "high" THEN 0 ELSE NotOwed)
          ELSE IF owed = NotOwed THEN NotOwed ELSE owed + n

Tap(to) ==
  /\ button.to # to
  /\ to = "down" => MoreInput
  /\ button' = [to |-> to, bounce |-> Chatter]
  /\ contact' = (to = "down")
  /\ actuations' = IF to = "down" THEN actuations + 1 ELSE actuations
  /\ UNCHANGED <<output, closed, pin, place, serial, host, presses>>
  /\ LineChanged(0)

(* pulse(), in a thread of the receiver, holding the lock of the trigger.  *)
PulseBegins ==
  /\ output = Idle /\ ~closed /\ MoreInput
  /\ output' = 0
  /\ actuations' = actuations + 1
  /\ UNCHANGED <<button, contact, closed, pin, place, serial, host, presses>>
  /\ LineChanged(0)

PulseEnds ==
  /\ output = Pulse
  /\ output' = Idle
  /\ UNCHANGED <<button, contact, closed, actuations, pin, place, serial, host, presses>>
  /\ LineChanged(0)

(* Faulty variant: close() does not wait for the lock.                     *)
CloseAtOnce ==
  /\ ~closed
  /\ closed' = TRUE /\ output' = Idle
  /\ UNCHANGED <<button, contact, actuations, pin, place, serial, host, presses>>
  /\ LineChanged(0)

(* close(), in the main thread: a pulse is over first.                     *)
Close ==
  /\ ~closed /\ output = Idle
  /\ closed' = TRUE
  /\ UNCHANGED <<button, contact, output, actuations, pin, place, serial, host, presses, owed>>

-----------------------------------------------------------------------------
(* Time.  A delay, a frame of the sensor, a photo, a read and a write last.*)

Lasts ==
  \/ at = "rest" /\ spent < MaxGap
  \/ at \in {"answer", "preview", "send"} /\ spent < MaxBlock
  \/ at \in {"header", "body"} /\ wire = <<>> /\ spent < ReadTimeout
  \/ at = "shoot" /\ spent < MaxShoot

Tick ==
  /\ Lasts /\ output < Pulse
  /\ pin' = [pin EXCEPT !.since = (@ + 1) % Wrap]
  /\ spent' = spent + 1
  /\ waited' = IF caller = "wait" THEN waited + 1 ELSE 0
  /\ output' = IF output = Idle THEN Idle ELSE output + 1
  /\ IF button.bounce > 0
       THEN contact' \in BOOLEAN /\ button' = [button EXCEPT !.bounce = @ - 1]
       ELSE contact' = (button.to = "down") /\ UNCHANGED button
  /\ UNCHANGED <<closed, actuations, at, caller, preview, tries, serial, host, presses>>
  /\ LineChanged(1)

-----------------------------------------------------------------------------
(* The serial port.                                                        *)

(* A frame as the Pi writes it: only its first cut bytes, or one byte of   *)
(* it damaged.                                                             *)
Bytes(f, kind, cut, damage) ==
  [k \in 1..cut |-> [v |-> IF k <= 4 /\ k # damage THEN Magic[k] ELSE "x",
                     f |-> f, k |-> k, ok |-> k # damage, kind |-> kind]]

(* session.send(): whole, damaged, or cut where the Pi was stopped.        *)
Write(kind, cut, damage) ==
  /\ MoreInput
  /\ writes' = writes + 1
  /\ wire' = wire \o Bytes(writes', kind, cut, damage)
  /\ sent' = IF cut = FrameLen /\ damage = 0 THEN Append(sent, writes') ELSE sent
  /\ torn' = (torn \/ cut \in 4..(FrameLen - 1))
  /\ UNCHANGED <<environment, pin, place, matched, buf, got, window, presses, owed>>

HostWrites ==
  \/ \E kind \in Kinds : Write(kind, FrameLen, 0)
  \/ \E cut \in {1, 3, 4, FrameLen - 1} : Write("PING", cut, 0)
  \/ \E damage \in {3, 5, FrameLen} : Write("PING", FrameLen, damage)

(* Faulty variant: a byte that does not match starts from nothing.         *)
MatchedFromNothing(v) == IF v = Magic[matched + 1] THEN matched + 1 ELSE 0

(* readInboundFrame(): how much of the magic has been matched.             *)
MatchedAfter(v) ==
  IF v = Magic[matched + 1] THEN matched + 1 ELSE IF v = "B" THEN 1 ELSE 0

(* The window of _seek_magic() in the Pi's reader.                         *)
Slide(w, v) == LET long == Append(w, v) IN IF Len(long) > 4 THEN Tail(long) ELSE long

Scan ==
  /\ at = "serial" /\ wire # <<>>
  /\ wire' = Tail(wire)
  /\ matched' = MatchedAfter(Head(wire).v)
  /\ window' = Slide(window, Head(wire).v)
  /\ IF matched' = 4 THEN at' = "header" /\ spent' = 0 ELSE UNCHANGED <<at, spent>>
  /\ UNCHANGED <<environment, pin, caller, waited, preview, tries, buf, got, host, presses, owed>>

(* No frame: false is returned to loop(), or waitForHostAck() delays.      *)
NoFrame ==
  IF caller = "loop" THEN at' = "trigger" /\ UNCHANGED spent
  ELSE at' = "rest" /\ spent' = 0

NothingToScan ==
  /\ at = "serial" /\ wire = <<>>
  /\ NoFrame
  /\ UNCHANGED <<environment, pin, caller, waited, preview, tries, serial, host, presses, owed>>

(* Faulty variant: the automaton is not reset.                             *)
ForgetBuffer == buf' = <<>> /\ window' = <<>> /\ UNCHANGED matched

Forget == matched' = 0 /\ buf' = <<>> /\ window' = <<>>

(* Faulty variant: the bytes are not looked at.                            *)
SameFrame(bytes) == \A i \in 1..Len(bytes) : bytes[i].f = bytes[1].f

(* The checksum of what was read is that of one frame.                     *)
Intact(bytes) ==
  \A i \in 1..Len(bytes) : bytes[i].ok /\ bytes[i].f = bytes[1].f /\ bytes[i].k = 4 + i

(* A frame is read by loop(), where pollForUsbCaptureRequest() looks at    *)
(* its type and answers a PING with a HELLO, or by waitForHostAck(), which *)
(* drops all but an answer.                                                *)
Received(byte) ==
  /\ got' = Append(got, byte.f)
  /\ spent' = 0
  /\ IF caller = "loop"
       THEN /\ preview' = (preview \/ byte.kind = "PREVIEW_REQUEST")
            /\ at' = CASE byte.kind = "CAPTURE_REQUEST" -> "requested"
                       [] byte.kind = "PING" -> "answer" [] OTHER -> "trigger"
            /\ UNCHANGED caller
       ELSE /\ IF byte.kind = "ACK" \/ waited >= AckTimeout
                 THEN at' = "rest" /\ caller' = "loop" ELSE at' = "serial" /\ UNCHANGED caller
            /\ UNCHANGED preview

ReadMore ==
  /\ at \in {"header", "body"} /\ wire # <<>>
  /\ wire' = Tail(wire)
  /\ LET bytes == Append(buf, Head(wire))
     IN IF Len(bytes) < HeaderLen
          THEN buf' = bytes /\ spent' = 0 /\ UNCHANGED <<at, caller, preview, matched, got, window>>
        ELSE IF ~Intact(bytes)
          THEN Forget /\ NoFrame /\ UNCHANGED <<caller, preview, got>>
        ELSE IF Len(bytes) = HeaderLen
          THEN buf' = bytes /\ at' = "body" /\ spent' = 0
               /\ UNCHANGED <<caller, preview, matched, got, window>>
        ELSE Forget /\ Received(Head(wire))
  /\ UNCHANGED <<environment, pin, waited, tries, host, presses, owed>>

(* Faulty variant: the read waits for as long as it takes.                 *)
NeverTimesOut == FALSE /\ UNCHANGED vars

(* Serial.readBytes() has waited for the next byte in vain.                *)
ReadTimesOut ==
  /\ at \in {"header", "body"} /\ wire = <<>> /\ spent = ReadTimeout
  /\ Forget /\ NoFrame
  /\ UNCHANGED <<environment, pin, caller, waited, preview, tries, wire, got, host, presses, owed>>

Answered ==
  /\ at = "answer" /\ at' = "trigger"
  /\ UNCHANGED <<environment, pin, caller, spent, waited, preview, tries, serial, host, presses, owed>>

-----------------------------------------------------------------------------
(* The trigger, the preview and the photo.                                 *)

(* Faulty variant: every change of the line is believed.                   *)
SettledAtOnce(p) == TRUE

(* The line has been the same for long enough.                             *)
Settled(p) == p.since >= Debounce

(* sharedTriggerPressed()                                                  *)
Sampled == IF line = pin.raw THEN pin ELSE [pin EXCEPT !.raw = line, !.since = 0]
Believed(p) == Settled(p) /\ p.raw # p.stable
Pressed == Believed(Sampled) /\ line = "low"

(* A poll: a press leads to capturePhoto(), else the node goes on to next. *)
Poll(next, requested) ==
  /\ pin' = IF Believed(Sampled) THEN [Sampled EXCEPT !.stable = line] ELSE Sampled
  /\ presses' = IF Pressed THEN presses + 1 ELSE presses
  /\ owed' = IF Pressed \/ requested THEN NotOwed ELSE owed
  /\ at' = IF Pressed \/ requested THEN "shoot" ELSE next
  /\ spent' = 0

(* loop(): previewRequested is consumed unless there is a press.           *)
PollTrigger ==
  /\ at \in {"trigger", "requested"}
  /\ Poll(IF preview THEN "preview" ELSE "rest", at = "requested")
  /\ IF at' = "preview" THEN preview' = FALSE /\ tries' = Attempts ELSE UNCHANGED <<preview, tries>>
  /\ UNCHANGED <<environment, caller, waited, serial, host>>

(* sendPreviewFrame(): the sensor has a frame of the wrong size, a frame   *)
(* to send, or none; the Pi is sent a frame or a message.                  *)
PreviewAttempt ==
  /\ at = "preview"
  /\ \/ Poll(IF tries > 1 THEN "preview" ELSE "send", FALSE) /\ tries' = tries - 1
     \/ Poll("send", FALSE) /\ tries' = 0
     \/ at' = "send" /\ tries' = 0 /\ UNCHANGED <<spent, pin, presses, owed>>
  /\ UNCHANGED <<environment, caller, waited, preview, serial, host>>

(* capturePhoto() gives up, or goes on to waitForHostAck().                *)
PhotoDone ==
  /\ at = "shoot"
  /\ spent' = 0 /\ waited' = 0
  /\ \/ at' = "rest" /\ UNCHANGED caller
     \/ at' = "serial" /\ caller' = "wait"
  /\ UNCHANGED <<environment, pin, preview, tries, serial, host, presses, owed>>

(* After delay(), behind the preview as well: the next round of loop() or  *)
(* of waitForHostAck(), or the end of the wait.                            *)
RestDone ==
  /\ at \in {"rest", "send"} /\ spent >= 1
  /\ IF caller = "wait" /\ waited >= AckTimeout
       THEN caller' = "loop" /\ spent' = 0 /\ UNCHANGED at
       ELSE at' = "serial" /\ UNCHANGED <<caller, spent>>
  /\ UNCHANGED <<environment, pin, waited, preview, tries, serial, host, presses, owed>>

NodeStep ==
  \/ Scan \/ NothingToScan \/ ReadMore \/ ReadTimesOut \/ Answered
  \/ PollTrigger \/ PreviewAttempt \/ PhotoDone \/ RestDone

Next ==
  \/ \E to \in {"up", "down"} : Tap(to)
  \/ PulseBegins \/ PulseEnds \/ Close \/ HostWrites
  \/ Tick \/ NodeStep

Spec == Init /\ [][Next]_vars

(* The firmware runs, and a pulse ends.                                    *)
FairSpec == Spec /\ WF_vars(Tick \/ NodeStep \/ PulseEnds)

-----------------------------------------------------------------------------
(* Every variable holds a value of its type.                               *)
TypeOK ==
  /\ button.bounce \in 0..Chatter /\ output \in Idle..Pulse
  /\ {pin.raw, pin.stable} \subseteq {"high", "low"} /\ pin.since \in 0..(Wrap - 1)
  /\ at \in Places /\ caller \in {"loop", "wait"} /\ spent \in Nat /\ waited \in Nat
  /\ matched \in 0..4 /\ (matched = 4 <=> at \in {"header", "body"})
  /\ Len(buf) <= HeaderLen /\ tries \in 0..Attempts
  /\ (at \in {"answer", "trigger", "requested", "preview", "send"} => caller = "loop")

(* No pulse of the Pi ends before a node that was in its loop and armed    *)
(* when the line fell, and has polled promptly since, has taken its photo: *)
(* neither bounces, a wrapping clock, prompt preview frames nor the end of *)
(* the program can make it miss the pulse.  A preview frame that keeps the *)
(* node longer than MaxGap can.                                            *)
PulseIsSeen == [][(output # Idle /\ output' = Idle) => owed = NotOwed]_vars

(* The node takes no more photos than there were taps and pulses, however  *)
(* the contacts bounce and however far apart its polls are.                *)
OnePressPerActuation == presses <= actuations

(* How much of BTC1 the last bytes are a beginning of.                     *)
Beginning(w) ==
  CHOOSE n \in 0..Len(w) :
    /\ SubSeq(w, Len(w) - n + 1, Len(w)) = SubSeq(Magic, 1, n)
    /\ \A m \in (n + 1)..Len(w) : SubSeq(w, Len(w) - m + 1, Len(w)) # SubSeq(Magic, 1, m)

(* The node's automaton and the Pi's window agree: the node has matched    *)
(* as much of the magic as the bytes since the last frame end in.          *)
ScannersAgree == matched = Beginning(window)

(* Noise, damaged frames and frames cut within their magic cost nothing:   *)
(* the frames that are read are those that were written whole, in order.   *)
WholeFramesArrive ==
  ~torn => /\ IsPrefix(got, sent)
           /\ (wire = <<>> /\ at \notin {"header", "body"}) => got = sent

(* The node always comes back to its trigger, whatever the Pi has written  *)
(* and wherever it stopped writing.                                        *)
PollsAgain == []<>(at = "trigger")
=============================================================================
