--------------------------- MODULE NodeLoopProofs ---------------------------
(***************************************************************************)
(* Theorems about NodeLoop, for any lengths of debounce, pulse, bounce,    *)
(* gap, timeouts and wrap: types, that an actuation is one photo at most   *)
(* and a pulse is seen, that the two scanners for BTC1 agree, and that     *)
(* frames written whole are read whole, in order.                          *)
(***************************************************************************)
EXTENDS NodeLoop, SequenceTheorems, TLAPS

Levels == {"high", "low"}
Values == {"B", "T", "C", "1", "x"}
ByteType == [v : Values, f : Nat, k : 1..FrameLen, ok : BOOLEAN, kind : Kinds]

(* TypeOK does not say what it does not need for the runs: the records,    *)
(* the flags, the counters and the sequences.                              *)
LineTypes ==
  /\ button \in [to : {"up", "down"}, bounce : 0..Chatter]
  /\ contact \in BOOLEAN /\ closed \in BOOLEAN
  /\ output \in Idle..Pulse
  /\ pin \in [raw : Levels, stable : Levels, since : 0..(Wrap - 1)]
  /\ actuations \in Nat /\ presses \in Nat
PlaceTypes ==
  /\ at \in Places /\ caller \in {"loop", "wait"} /\ spent \in Nat /\ waited \in Nat
  /\ preview \in BOOLEAN /\ tries \in 0..Attempts
SerialTypes ==
  /\ matched \in 0..4 /\ writes \in Nat
  /\ wire \in Seq(ByteType) /\ buf \in Seq(ByteType) /\ Len(buf) <= HeaderLen
  /\ got \in Seq(Nat) /\ sent \in Seq(Nat) /\ torn \in BOOLEAN
Types == LineTypes /\ PlaceTypes /\ SerialTypes

(* Where the node reads a frame, and what it has read of it.               *)
Reading ==
  /\ matched = 4 <=> at \in {"header", "body"}
  /\ at = "header" => Len(buf) < HeaderLen
  /\ at \notin {"header", "body"} => buf = <<>>
  /\ at \in {"answer", "trigger", "requested", "preview", "send"} => caller = "loop"
  /\ at = "preview" => tries > 0

(* The contact follows the button, but for the time it may still bounce.   *)
(* Noisy(l) : the line may be at l though the button has left it, and not  *)
(* for long enough to be believed.                                         *)
Brief(l) ==
  \/ pin.since + button.bounce < Debounce
  \/ button.bounce = 0 /\ (contact <=> l = "high")

(* All actuations so far have had their photo: then a node that is armed   *)
(* has seen the button up and the pulse over, and what it samples low is a *)
(* bounce; and one that is not armed samples high only as a bounce while   *)
(* the button is down.                                                     *)
NothingDue ==
  presses = actuations =>
    /\ pin.stable = "high" =>
         /\ button.to = "up" /\ output = Idle
         /\ pin.raw = "low" => Brief("low")
    /\ (pin.stable = "low" /\ pin.raw = "high") =>
         /\ output = Idle
         /\ button.to = "down" => Brief("high")

(* The last k bytes of a window are the first k of the magic.              *)
EndsIn(w, k) == \A j \in 1..k : w[Len(w) - k + j] = Magic[j]

ScannerAgrees ==
  /\ window \in Seq(Values) /\ Len(window) <= 4
  /\ matched <= Len(window)
  /\ \A k \in 1..Len(window) : EndsIn(window, k) <=> k = matched

(* How long the line has been low for a prompt node: no longer than the    *)
(* time since its last poll, or no longer than it has sampled it low and   *)
(* the gap before that.  The clock cannot wrap in this time.               *)
Gap == IF at \in {"serial", "preview", "send", "rest"} THEN spent ELSE MaxGap
Answering ==
  owed # NotOwed =>
    /\ owed \in Nat /\ spent <= MaxGap
    /\ caller = "loop" /\ at # "shoot" /\ line = "low" /\ pin.stable = "high"
    /\ output # Idle => output <= owed
    /\ \/ owed <= Gap
       \/ pin.raw = "low" /\ pin.since < Debounce + Gap /\ owed <= pin.since + MaxGap

(* What waits in the wire w when the frames s were written whole: each     *)
(* frame from where it is read, byte after byte, ending at its last byte   *)
(* or early, within its magic.                                             *)
IsSent(s, f) == \E j \in 1..Len(s) : s[j] = f
Early == {1, 3}
Ends(w, i) == i = Len(w) \/ w[i + 1].f # w[i].f
Broken(w, f) ==
  \E i \in 1..Len(w) : w[i].f = f /\ (~w[i].ok \/ (w[i].k \in Early /\ Ends(w, i)))
Follows(c, b) == c.f = b.f /\ c.k = b.k + 1
Starts(c, b) == c.f > b.f /\ c.k = 1 /\ b.k \in Early \cup {FrameLen}
WireOrder(w) ==
  /\ \A i \in 1..(Len(w) - 1) : Follows(w[i + 1], w[i]) \/ Starts(w[i + 1], w[i])
  /\ \A i, j \in 1..Len(w) : i < j => w[i].f <= w[j].f
  /\ w # <<>> => w[Len(w)].k \in Early \cup {FrameLen}
GoodByte(b, n) ==
  /\ b.f \in 1..n /\ b.k \in 1..FrameLen
  /\ b.v = IF b.k <= 4 /\ b.ok THEN Magic[b.k] ELSE "x"
  /\ ~b.ok => b.k \in {3, 5, FrameLen}
WireBytes(w, s, n) ==
  \A i \in 1..Len(w) :
    /\ GoodByte(w[i], n)
    /\ IsSent(s, w[i].f) => w[i].ok /\ (w[i].k \in Early => ~Ends(w, i))
    /\ w[i].k = 1 => IsSent(s, w[i].f) \/ Broken(w, w[i].f)

(* Behind the magic, the bytes that were read and those to come are of one *)
(* frame.  Before, the node has matched all that was read of a whole       *)
(* frame; and of another one not all, or there is more to spoil it.        *)
InFrame(w, s, b, place1) ==
  /\ w # <<>> /\ w[1].k = 5 + Len(b)
  /\ place1 = "body" <=> Len(b) = 2
  /\ \A j \in 1..Len(b) : b[j].f = w[1].f /\ b[j].k = 4 + j
  /\ place1 = "body" => \A j \in 1..Len(b) : b[j].ok
  /\ IsSent(s, w[1].f) => \A j \in 1..Len(b) : b[j].ok
  /\ ~IsSent(s, w[1].f) => Broken(w, w[1].f) \/ \E j \in 1..Len(b) : ~b[j].ok
Scanning(w, s, m) ==
  (w # <<>> /\ w[1].k > 1) =>
    /\ IsSent(s, w[1].f) => w[1].k <= 4 /\ m = w[1].k - 1
    /\ w[1].k > 4 => m = 0
    /\ (~IsSent(s, w[1].f) /\ w[1].k <= 4) => m # w[1].k - 1 \/ Broken(w, w[1].f)

(* The frames written whole and not read yet are those in the wire.        *)
Delivered(w, s, g, n) ==
  /\ \A j \in 1..Len(s) : s[j] \in 1..n
  /\ \A i, j \in 1..Len(s) : i < j => s[i] < s[j]
  /\ Len(g) <= Len(s) /\ \A j \in 1..Len(g) : g[j] = s[j]
  /\ \A j \in 1..Len(s) : j > Len(g) <=> \E i \in 1..Len(w) : w[i].f = s[j]

FramesAgree ==
  ~torn =>
    /\ WireOrder(wire) /\ WireBytes(wire, sent, writes) /\ Delivered(wire, sent, got, writes)
    /\ at \in {"header", "body"} => InFrame(wire, sent, buf, at)
    /\ at \notin {"header", "body"} => Scanning(wire, sent, matched)

NodeInv == Types /\ Reading /\ presses <= actuations /\ NothingDue /\ ScannerAgrees /\ Answering
           /\ FramesAgree
-----------------------------------------------------------------------------
(* The lengths, and what the magic is.                                     *)
LEMMA MagicFacts ==
  /\ Len(Magic) = 4 /\ HeaderLen = 2 /\ FrameLen = 7
  /\ Magic[1] = "B" /\ Magic[2] = "T" /\ Magic[3] = "C" /\ Magic[4] = "1"
  /\ Magic \in Seq(Values)
  BY DEF Magic, HeaderLen, FrameLen, Values

LEMMA BytesType ==
  ASSUME NEW f \in Nat, NEW kind \in Kinds, NEW cut \in 1..FrameLen, NEW damage \in 0..FrameLen
  PROVE  Bytes(f, kind, cut, damage) \in Seq(ByteType)
<1>1. \A k \in 1..cut : (k <= 4 /\ k # damage) => Magic[k] \in Values
  BY MagicFacts DEF Values
<1>2. ASSUME NEW k \in 1..cut
      PROVE  [v |-> IF k <= 4 /\ k # damage THEN Magic[k] ELSE "x",
              f |-> f, k |-> k, ok |-> k # damage, kind |-> kind] \in ByteType
  BY <1>1, MagicFacts DEF ByteType, Values
<1>3. cut \in Nat
  BY MagicFacts
<1> QED  BY <1>2, <1>3 DEF Bytes

(* The polls of the trigger.                                               *)
LEMMA PollTypes ==
  ASSUME Types
  PROVE  /\ line \in Levels
         /\ Sampled \in [raw : Levels, stable : Levels, since : 0..(Wrap - 1)]
         /\ Sampled.raw = line /\ Sampled.stable = pin.stable
         /\ Sampled.since = IF line = pin.raw THEN pin.since ELSE 0
<1>1. line \in Levels
  BY DEF line, Level, Levels
<1>2. 0 \in 0..(Wrap - 1)
  BY NodeLoopAssumption
<1> QED  BY <1>1, <1>2 DEF Types, LineTypes, PlaceTypes, SerialTypes, Sampled

LEMMA PollKeepsTypes ==
  ASSUME Types, NEW next \in Places, NEW requested \in BOOLEAN, Poll(next, requested)
  PROVE  /\ pin' \in [raw : Levels, stable : Levels, since : 0..(Wrap - 1)]
         /\ presses' \in Nat /\ at' \in {next, "shoot"} /\ at' \in Places /\ spent' = 0
<1>1. [Sampled EXCEPT !.stable = line] \in [raw : Levels, stable : Levels, since : 0..(Wrap - 1)]
  BY PollTypes
<1> QED  BY <1>1, PollTypes, SMTT(30) DEF Poll, Types, LineTypes, PlaceTypes, SerialTypes, Places

LEMMA InitTypes == Init => Types /\ Reading
<1>1. 0 \in 0..(Wrap - 1) /\ 0 \in 0..Chatter /\ 0 \in 0..Attempts /\ Idle \in Idle..Pulse
  BY NodeLoopAssumption DEF Idle
<1>2. Init => Types
  <2> SUFFICES ASSUME Init PROVE Types
    OBVIOUS
  <2>1. button \in [to : {"up", "down"}, bounce : 0..Chatter]
    BY <1>1 DEF Init
  <2>2. pin \in [raw : Levels, stable : Levels, since : 0..(Wrap - 1)]
    BY <1>1 DEF Init, Levels
  <2>3. wire \in Seq(ByteType) /\ buf \in Seq(ByteType) /\ Len(buf) <= HeaderLen
    BY MagicFacts DEF Init
  <2>4. got \in Seq(Nat) /\ sent \in Seq(Nat)
    BY DEF Init
  <2>5. LineTypes
    BY <1>1, <2>1, <2>2 DEF Init, LineTypes
  <2>6. PlaceTypes
    BY <1>1 DEF Init, PlaceTypes, Places
  <2>7. SerialTypes
    <3>1. matched \in 0..4 /\ writes \in Nat
      BY DEF Init
    <3>2. torn \in BOOLEAN
      BY Zenon DEF Init
    <3> QED  BY <2>3, <2>4, <3>1, <3>2 DEF SerialTypes
  <2> QED  BY <2>5, <2>6, <2>7 DEF Types
<1>3. Init => Reading
  BY DEF Init, Reading
<1> QED  BY <1>2, <1>3

(* The environment: the line, the Pi's writes and time.                    *)
LEMMA EnvironmentTypes ==
  ASSUME Types, Reading, NEW to \in {"up", "down"},
         Tap(to) \/ PulseBegins \/ PulseEnds \/ Close \/ Tick
  PROVE  Types' /\ Reading'
<1> USE DEF environment, place, serial, host
<1>1. CASE Tap(to)
  BY <1>1, NodeLoopAssumption DEF Tap, Types, LineTypes, PlaceTypes, SerialTypes, Reading
<1>2. CASE PulseBegins
  BY <1>2, NodeLoopAssumption
     DEF PulseBegins, Types, LineTypes, PlaceTypes, SerialTypes, Reading, Idle
<1>3. CASE PulseEnds
  BY <1>3, NodeLoopAssumption
     DEF PulseEnds, Types, LineTypes, PlaceTypes, SerialTypes, Reading, Idle
<1>4. CASE Close
  BY <1>4 DEF Close, Types, LineTypes, PlaceTypes, SerialTypes, Reading
<1>5. CASE Tick
  <2>1. (pin.since + 1) % Wrap \in 0..(Wrap - 1)
    <3>1. pin.since \in 0..(Wrap - 1) /\ Wrap \in Nat \ {0}
      BY NodeLoopAssumption DEF Types, LineTypes
    <3> QED  BY <3>1
  <2>2. pin' \in [raw : Levels, stable : Levels, since : 0..(Wrap - 1)]
    BY <1>5, <2>1 DEF Tick, Types, LineTypes, PlaceTypes, SerialTypes
  <2>3. output' \in Idle..Pulse
    <3>1. output \in Idle..Pulse /\ output < Pulse /\ Pulse \in Nat
          /\ output' = IF output = Idle THEN Idle ELSE output + 1
      BY <1>5, NodeLoopAssumption DEF Tick, Types, LineTypes, PlaceTypes, SerialTypes
    <3> QED  BY <3>1 DEF Idle
  <2>4. button' \in [to : {"up", "down"}, bounce : 0..Chatter] /\ contact' \in BOOLEAN
    <3>1. button.bounce \in 0..Chatter /\ Chatter \in Nat
      BY NodeLoopAssumption DEF Types, LineTypes, PlaceTypes, SerialTypes
    <3>2. CASE button.bounce > 0
      <4>1. button.bounce - 1 \in 0..Chatter
        BY <3>1, <3>2
      <4> QED  BY <1>5, <3>2, <4>1 DEF Tick, Types, LineTypes, PlaceTypes, SerialTypes
    <3>3. CASE ~(button.bounce > 0)
      BY <1>5, <3>3 DEF Tick, Types, LineTypes, PlaceTypes, SerialTypes
    <3> QED  BY <3>2, <3>3
  <2>5. spent' \in Nat /\ waited' \in Nat
    BY <1>5, SMTT(30) DEF Tick, Types, LineTypes, PlaceTypes, SerialTypes
  <2> QED  BY <1>5, <2>2, <2>3, <2>4, <2>5
              DEF Tick, Types, LineTypes, PlaceTypes, SerialTypes, Reading
<1> QED  BY <1>1, <1>2, <1>3, <1>4, <1>5

LEMMA WriteTypes ==
  ASSUME Types, Reading, HostWrites
  PROVE  Types' /\ Reading'
<1>1. PICK kind \in Kinds, cut \in 1..FrameLen, damage \in 0..FrameLen : Write(kind, cut, damage)
  BY MagicFacts DEF HostWrites, Kinds
<1>2. writes' \in Nat
  BY <1>1 DEF Write, Types, LineTypes, PlaceTypes, SerialTypes
<1>3. wire' \in Seq(ByteType)
  <2>1. PICK b \in Seq(ByteType) : b = Bytes(writes', kind, cut, damage)
    BY <1>2, BytesType
  <2> QED  BY <1>1, <2>1, ConcatProperties DEF Write, Types, LineTypes, PlaceTypes, SerialTypes
<1>4. sent' \in Seq(Nat)
  BY <1>1, <1>2, AppendProperties DEF Write, Types, LineTypes, PlaceTypes, SerialTypes
<1>5. torn' \in BOOLEAN
  BY <1>1 DEF Write, Types, LineTypes, PlaceTypes, SerialTypes
<1> QED
  BY <1>1, <1>2, <1>3, <1>4, <1>5
     DEF Write, Types, LineTypes, PlaceTypes, SerialTypes, Reading, environment, place
(* The node: its serial port, its trigger and what it does for long.       *)
LEMMA NodeTypes ==
  ASSUME Types, Reading, NodeStep
  PROVE  Types' /\ Reading'
<1> USE DEF environment, place, serial, host
<1>1. ASSUME NoFrame, at \in {"serial", "header", "body"}
      PROVE  /\ at' \in {"trigger", "rest"} /\ spent' \in Nat
             /\ at' = "trigger" => caller = "loop"
  BY <1>1 DEF NoFrame, Types, LineTypes, PlaceTypes, SerialTypes
<1>2. ASSUME wire # <<>>
      PROVE  /\ Head(wire) \in ByteType /\ Tail(wire) \in Seq(ByteType)
             /\ Append(buf, Head(wire)) \in Seq(ByteType)
             /\ Len(Append(buf, Head(wire))) = Len(buf) + 1 /\ Len(buf) \in Nat
  BY <1>2, HeadTailProperties, AppendProperties, LenProperties
     DEF Types, LineTypes, PlaceTypes, SerialTypes
<1>3. CASE Scan
  <2>1. wire # <<>> /\ Tail(wire) \in Seq(ByteType)
    BY <1>2, <1>3 DEF Scan
  <2>2. matched \in 0..3
    BY <1>3 DEF Scan, Types, LineTypes, PlaceTypes, SerialTypes, Reading
  <2>3. matched' \in 0..4
    BY <1>3, <2>2 DEF Scan, MatchedAfter
  <2> QED  BY <1>3, <2>1, <2>3, MagicFacts, SMTT(30)
              DEF Scan, Types, LineTypes, PlaceTypes, SerialTypes, Reading, Places
<1>4. CASE NothingToScan
  BY <1>1, <1>4 DEF NothingToScan, Types, LineTypes, PlaceTypes, SerialTypes, Reading, Places
<1>5. CASE ReadMore
  <2>1. wire # <<>> /\ at \in {"header", "body"} /\ wire' = Tail(wire)
        /\ UNCHANGED <<environment, pin, waited, tries, host, presses, owed>>
    BY <1>5 DEF ReadMore
  <2>2. PICK bytes : bytes = Append(buf, Head(wire))
    OBVIOUS
  <2>3. /\ bytes \in Seq(ByteType) /\ Len(bytes) = Len(buf) + 1 /\ Len(buf) \in 0..2
        /\ Tail(wire) \in Seq(ByteType) /\ Head(wire) \in ByteType
    <3>1. /\ Head(wire) \in ByteType /\ Tail(wire) \in Seq(ByteType)
          /\ Append(buf, Head(wire)) \in Seq(ByteType)
          /\ Len(Append(buf, Head(wire))) = Len(buf) + 1 /\ Len(buf) \in Nat
      BY <1>2, <2>1
    <3>2. Len(buf) \in 0..2
      <4>1. Len(buf) <= HeaderLen
        BY DEF Types, SerialTypes
      <4>2. PICK n : n = Len(buf)
        OBVIOUS
      <4>3. n \in Nat /\ n <= 2
        BY <3>1, <4>1, <4>2 DEF HeaderLen
      <4> QED  BY <4>2, <4>3
    <3> QED  BY <2>2, <3>1, <3>2
  <2>4. LineTypes'
    BY <2>1 DEF Types, LineTypes
  <2>5. wire' \in Seq(ByteType) /\ writes' \in Nat /\ sent' \in Seq(Nat) /\ torn' \in BOOLEAN
    BY <2>1, <2>3 DEF Types, SerialTypes
  <2>6. waited' \in Nat /\ tries' \in 0..Attempts
    BY <2>1 DEF Types, PlaceTypes
  <2>7. /\ matched = 4 /\ at \in Places /\ caller \in {"loop", "wait"} /\ preview \in BOOLEAN
        /\ at = "header" => Len(buf) < 2
        /\ got \in Seq(Nat)
    BY <2>1, MagicFacts DEF Types, SerialTypes, PlaceTypes, Reading
  <2>8. CASE Len(bytes) < HeaderLen
    <3>1. buf' = bytes /\ spent' = 0 /\ UNCHANGED <<at, caller, preview, matched, got, window>>
      BY <1>5, <2>2, <2>8 DEF ReadMore
    <3>2. SerialTypes'
      BY <2>3, <2>5, <2>7, <2>8, <3>1, MagicFacts DEF SerialTypes
    <3>3. PlaceTypes' /\ Reading'
      BY <2>1, <2>6, <2>7, <2>8, <3>1 DEF PlaceTypes, Reading
    <3> QED  BY <2>4, <3>2, <3>3 DEF Types
  <2>9. CASE ~(Len(bytes) < HeaderLen) /\ ~Intact(bytes)
    <3>1. Forget /\ NoFrame /\ UNCHANGED <<caller, preview, got>>
      BY <1>5, <2>2, <2>9 DEF ReadMore
    <3>2. SerialTypes'
      BY <2>5, <2>7, <3>1, MagicFacts DEF SerialTypes, Forget
    <3>3. PlaceTypes' /\ Reading'
      BY <1>1, <2>1, <2>6, <2>7, <3>1 DEF PlaceTypes, Reading, Forget, Places
    <3> QED  BY <2>4, <3>2, <3>3 DEF Types
  <2>10. CASE Len(bytes) = HeaderLen /\ Intact(bytes)
    <3>1. /\ buf' = bytes /\ at' = "body" /\ spent' = 0
          /\ UNCHANGED <<caller, preview, matched, got, window>>
      BY <1>5, <2>2, <2>10, MagicFacts DEF ReadMore
    <3>2. SerialTypes'
      <4>1. buf' \in Seq(ByteType) /\ Len(buf') <= HeaderLen
        <5>1. HeaderLen <= HeaderLen
          BY MagicFacts
        <5> QED  BY <2>3, <2>10, <3>1, <5>1
      <4> QED  BY <2>5, <2>7, <3>1, <4>1 DEF SerialTypes
    <3>3. PlaceTypes' /\ Reading'
      BY <2>6, <2>7, <3>1 DEF PlaceTypes, Reading, Places
    <3> QED  BY <2>4, <3>2, <3>3 DEF Types
  <2>11. CASE Len(bytes) > HeaderLen /\ Intact(bytes)
    <3>1. Forget /\ Received(Head(wire))
      BY <1>5, <2>2, <2>3, <2>11, MagicFacts DEF ReadMore
    <3>2. got' \in Seq(Nat)
      <4>1. Head(wire).f \in Nat
        BY <2>3 DEF ByteType
      <4> QED  BY <2>7, <3>1, <4>1, AppendProperties DEF Received
    <3>3. SerialTypes'
      BY <2>5, <3>1, <3>2, MagicFacts DEF SerialTypes, Forget
    <3>4. CASE caller = "loop"
      <4>1. PlaceTypes'
        BY <2>6, <2>7, <3>1, <3>4 DEF PlaceTypes, Received, Places
      <4>2. Reading'
        BY <3>1, <3>4 DEF Reading, Received, Forget
      <4> QED  BY <2>4, <3>3, <4>1, <4>2 DEF Types
    <3>5. CASE caller # "loop"
      <4>1. PlaceTypes'
        BY <2>6, <2>7, <3>1, <3>5 DEF PlaceTypes, Received, Places
      <4>2. Reading'
        BY <3>1, <3>5 DEF Reading, Received, Forget
      <4> QED  BY <2>4, <3>3, <4>1, <4>2 DEF Types
    <3> QED  BY <3>4, <3>5
  <2> QED  BY <2>3, <2>8, <2>9, <2>10, <2>11, MagicFacts
<1>6. CASE ReadTimesOut
  BY <1>1, <1>6, MagicFacts
     DEF ReadTimesOut, Forget, Types, LineTypes, PlaceTypes, SerialTypes, Reading, Places
<1>7. CASE PollTrigger
  <2>1. PICK next : next = IF preview THEN "preview" ELSE "rest"
    OBVIOUS
  <2>2. next \in Places /\ (at = "requested") \in BOOLEAN /\ Poll(next, at = "requested")
    BY <1>7, <2>1 DEF PollTrigger, Places
  <2>3. /\ pin' \in [raw : Levels, stable : Levels, since : 0..(Wrap - 1)]
        /\ presses' \in Nat /\ at' \in {"preview", "rest", "shoot"} /\ spent' = 0
    BY <2>1, <2>2, PollKeepsTypes
  <2>4. tries' \in 0..Attempts /\ preview' \in BOOLEAN /\ (at' = "preview" => tries' > 0)
    <3>1. Attempts \in 0..Attempts /\ Attempts > 0 /\ tries \in 0..Attempts /\ preview \in BOOLEAN
      BY NodeLoopAssumption DEF Types, PlaceTypes
    <3>2. IF at' = "preview" THEN preview' = FALSE /\ tries' = Attempts ELSE UNCHANGED <<preview, tries>>
      BY <1>7 DEF PollTrigger
    <3> QED  BY <3>1, <3>2
  <2> QED  BY <1>7, <2>3, <2>4
              DEF PollTrigger, Types, LineTypes, PlaceTypes, SerialTypes, Reading, Places
<1>8. CASE PreviewAttempt
  <2>1. caller = "loop" /\ tries \in 1..Attempts
    BY <1>8, NodeLoopAssumption
       DEF PreviewAttempt, Types, LineTypes, PlaceTypes, SerialTypes, Reading
  <2>2. CASE Poll(IF tries > 1 THEN "preview" ELSE "send", FALSE) /\ tries' = tries - 1
    <3>1. PICK next : next = IF tries > 1 THEN "preview" ELSE "send"
      OBVIOUS
    <3>2. next \in Places /\ Poll(next, FALSE)
      BY <2>2, <3>1 DEF Places
    <3>3. /\ pin' \in [raw : Levels, stable : Levels, since : 0..(Wrap - 1)]
          /\ presses' \in Nat /\ at' \in {next, "shoot"} /\ spent' = 0
      BY <3>2, PollKeepsTypes
    <3>4. tries' \in 0..Attempts /\ (at' = "preview" => tries' > 0)
      BY <2>1, <2>2, <3>1, <3>3, NodeLoopAssumption
    <3> QED  BY <1>8, <2>1, <3>1, <3>3, <3>4
                DEF PreviewAttempt, Types, LineTypes, PlaceTypes, SerialTypes, Reading, Places
  <2>3. CASE Poll("send", FALSE) /\ tries' = 0
    <3>1. /\ pin' \in [raw : Levels, stable : Levels, since : 0..(Wrap - 1)]
          /\ presses' \in Nat /\ at' \in {"send", "shoot"} /\ spent' = 0
      BY <2>3, PollKeepsTypes DEF Places
    <3>2. 0 \in 0..Attempts
      BY NodeLoopAssumption
    <3> QED  BY <1>8, <2>3, <3>1, <3>2
                DEF PreviewAttempt, Types, LineTypes, PlaceTypes, SerialTypes, Reading, Places
  <2>4. CASE at' = "send" /\ tries' = 0 /\ UNCHANGED <<spent, pin, presses, owed>>
    <3>1. 0 \in 0..Attempts
      BY NodeLoopAssumption
    <3> QED  BY <1>8, <2>4, <3>1
                DEF PreviewAttempt, Types, LineTypes, PlaceTypes, SerialTypes, Reading, Places
  <2> QED  BY <1>8, <2>2, <2>3, <2>4 DEF PreviewAttempt
<1>9. CASE PhotoDone
  BY <1>9 DEF PhotoDone, Types, LineTypes, PlaceTypes, SerialTypes, Reading, Places
<1>10. CASE RestDone
  BY <1>10 DEF RestDone, Types, LineTypes, PlaceTypes, SerialTypes, Reading, Places
<1>11. CASE Answered
  BY <1>11 DEF Answered, Types, LineTypes, PlaceTypes, SerialTypes, Reading, Places
<1> QED  BY <1>3, <1>4, <1>5, <1>6, <1>7, <1>8, <1>9, <1>10, <1>11 DEF NodeStep

LEMMA TypesStep == Types /\ Reading /\ [Next]_vars => Types' /\ Reading'
<1> SUFFICES ASSUME Types, Reading, [Next]_vars PROVE Types' /\ Reading'
  OBVIOUS
<1>1. CASE UNCHANGED vars
  BY <1>1
     DEF vars, environment, place, serial, host, Types, LineTypes, PlaceTypes, SerialTypes,
         Reading
<1>2. CASE Next
  BY <1>2, EnvironmentTypes, WriteTypes, NodeTypes DEF Next
<1> QED  BY <1>1, <1>2
-----------------------------------------------------------------------------
(* No photo without a tap or a pulse of its own.                           *)
LEMMA LineFacts ==
  ASSUME Types
  PROVE  /\ line = "high" => ~contact /\ output = Idle
         /\ (line = "low" /\ output = Idle) => contact
BY DEF line, Level

(* What has just been sampled is a bounce for all that is known.           *)
LEMMA JustSampled ==
  ASSUME Types
  PROVE  0 + button.bounce < Debounce /\ Debounce > 0
BY NodeLoopAssumption DEF Types, LineTypes

LEMMA PollDue ==
  ASSUME Types, presses <= actuations, NothingDue, UNCHANGED environment,
         NEW next, NEW requested, Poll(next, requested)
  PROVE  presses' <= actuations' /\ NothingDue'
<1>1. UNCHANGED <<button, contact, output, actuations>>
  BY DEF environment
<1>2. /\ line \in Levels /\ pin.raw \in Levels /\ pin.stable \in Levels
      /\ pin \in [raw : Levels, stable : Levels, since : 0..(Wrap - 1)]
      /\ presses \in Nat /\ actuations \in Nat /\ button.bounce \in Nat
      /\ Debounce \in Nat /\ pin.since \in Nat
  BY PollTypes, NodeLoopAssumption DEF Types, LineTypes
<1>3. PICK p : p = Sampled
  OBVIOUS
<1>4. /\ p \in [raw : Levels, stable : Levels, since : 0..(Wrap - 1)]
      /\ p.raw = line /\ p.stable = pin.stable
      /\ p.since = IF line = pin.raw THEN pin.since ELSE 0
  BY <1>3, PollTypes
<1>5. Believed(Sampled) <=> p.since >= Debounce /\ p.raw # p.stable
  BY <1>3 DEF Believed, Settled
<1>6. CASE Pressed
  <2>1. line = "low" /\ p.since >= Debounce /\ p.raw # p.stable
    BY <1>5, <1>6 DEF Pressed
  <2>2. pin.raw = "low" /\ pin.stable = "high" /\ pin.since >= Debounce
    BY <1>2, <1>4, <2>1, JustSampled DEF Levels
  <2>3. presses # actuations
    <3> SUFFICES ASSUME presses = actuations PROVE FALSE
      OBVIOUS
    <3>1. output = Idle /\ Brief("low")
      BY <2>2 DEF NothingDue
    <3>2. contact
      BY <2>1, <3>1, LineFacts
    <3>3. ~(pin.since + button.bounce < Debounce)
      BY <1>2, <2>2
    <3> QED  BY <3>1, <3>2, <3>3 DEF Brief
  <2>4. presses' = presses + 1 /\ actuations' = actuations
    BY <1>1, <1>6 DEF Poll
  <2>5. pin' = [p EXCEPT !.stable = "low"]
    BY <1>3, <1>6, <2>1 DEF Poll, Pressed
  <2>6. pin'.stable = "low" /\ pin'.raw = "low"
    BY <1>4, <2>1, <2>5
  <2> QED  BY <1>2, <2>3, <2>4, <2>6 DEF NothingDue
<1>7. CASE ~Pressed /\ Believed(Sampled)
  <2>1. line = "high" /\ p.since >= Debounce /\ p.raw # p.stable
    BY <1>2, <1>5, <1>7 DEF Pressed, Levels
  <2>2. pin.raw = "high" /\ pin.stable = "low" /\ pin.since >= Debounce
    BY <1>2, <1>4, <2>1, JustSampled DEF Levels
  <2>3. presses' = presses /\ pin' = [p EXCEPT !.stable = "high"]
    BY <1>3, <1>7, <2>1 DEF Poll
  <2>4. pin'.stable = "high" /\ pin'.raw = "high"
    BY <1>4, <2>1, <2>3
  <2>5. ASSUME presses = actuations
        PROVE  button.to = "up" /\ output = Idle
    <3>1. output = Idle /\ (button.to = "down" => Brief("high"))
      BY <2>2, <2>5 DEF NothingDue
    <3>2. ~contact
      BY <2>1, LineFacts
    <3>3. ~(pin.since + button.bounce < Debounce)
      BY <1>2, <2>2
    <3>4. button.to # "down"
      BY <3>1, <3>2, <3>3 DEF Brief
    <3> QED  BY <3>1, <3>4 DEF Types, LineTypes
  <2> QED  BY <1>1, <1>2, <2>3, <2>4, <2>5 DEF NothingDue
<1>8. CASE ~Believed(Sampled)
  <2>1. presses' = presses /\ pin' = p
    BY <1>3, <1>8 DEF Poll, Pressed
  <2>2. CASE line = pin.raw
    <3>1. pin' = pin
      BY <1>3, <2>1, <2>2 DEF Sampled
    <3> QED  BY <1>1, <2>1, <3>1 DEF NothingDue, Brief
  <2>3. CASE line # pin.raw
    <3>1. pin'.raw = line /\ pin'.since = 0 /\ pin'.stable = pin.stable
      BY <1>4, <2>1, <2>3
    <3>2. Brief("low")' /\ Brief("high")'
      BY <1>1, <3>1, JustSampled DEF Brief
    <3>3. ASSUME presses = actuations, pin.stable = "high"
          PROVE  button.to = "up" /\ output = Idle
      BY <3>3 DEF NothingDue
    <3>4. line = "high" => output = Idle
      BY LineFacts
    <3> QED  BY <1>1, <1>2, <2>1, <3>1, <3>2, <3>3, <3>4 DEF NothingDue
  <2> QED  BY <2>2, <2>3
<1> QED  BY <1>6, <1>7, <1>8

LEMMA TickDue ==
  ASSUME Types, presses <= actuations, NothingDue, Tick
  PROVE  presses' <= actuations' /\ NothingDue'
<1>1. UNCHANGED <<presses, actuations>> /\ button'.to = button.to
      /\ pin'.raw = pin.raw /\ pin'.stable = pin.stable
      /\ pin'.since = (pin.since + 1) % Wrap
      /\ output' = IF output = Idle THEN Idle ELSE output + 1
  BY DEF Tick, Types, LineTypes
<1>2. /\ pin.since \in Nat /\ button.bounce \in Nat /\ Debounce \in Nat
      /\ pin'.since \in Nat /\ pin'.since <= pin.since + 1
  <2>1. pin.since \in 0..(Wrap - 1) /\ Wrap \in Nat \ {0} /\ button.bounce \in Nat /\ Debounce \in Nat
    BY NodeLoopAssumption DEF Types, LineTypes
  <2>2. pin.since + 1 = Wrap => (pin.since + 1) % Wrap = 0
    BY <2>1
  <2>3. pin.since + 1 < Wrap => (pin.since + 1) % Wrap = pin.since + 1
    BY <2>1
  <2> QED  BY <1>1, <2>1, <2>2, <2>3
<1>3. CASE button.bounce > 0
  <2>1. button'.bounce = button.bounce - 1
    BY <1>3 DEF Tick, Types, LineTypes
  <2>2. ASSUME NEW l, Brief(l)
        PROVE  pin'.since + button'.bounce < Debounce
    BY <1>2, <1>3, <2>1, <2>2 DEF Brief
  <2>3. (Brief("low") => Brief("low")') /\ (Brief("high") => Brief("high")')
    BY <2>2 DEF Brief
  <2> QED  BY <1>1, <2>3 DEF NothingDue
<1>4. CASE ~(button.bounce > 0)
  <2>1. button' = button /\ button.bounce = 0 /\ (contact' <=> button.to = "down")
    <3>1. UNCHANGED button /\ contact' = (button.to = "down")
      BY <1>4, Zenon DEF Tick
    <3>2. contact' <=> button.to = "down"
      BY <3>1, Zenon
    <3>3. button.bounce = 0
      BY <1>2, <1>4
    <3> QED  BY <3>1, <3>2, <3>3
  <2>2. (button.to = "up" => Brief("low")') /\ (button.to = "down" => Brief("high")')
    BY <2>1 DEF Brief
  <2> QED  BY <1>1, <2>2 DEF NothingDue
<1> QED  BY <1>3, <1>4

LEMMA DueStep ==
  ASSUME Types, presses <= actuations, NothingDue, [Next]_vars
  PROVE  presses' <= actuations' /\ NothingDue'
<1>1. ASSUME UNCHANGED <<button, contact, output, actuations, presses, pin>>
      PROVE  presses' <= actuations' /\ NothingDue'
  BY <1>1 DEF NothingDue, Brief
<1>2. ASSUME presses' = presses, actuations' = actuations + 1
      PROVE  presses' <= actuations' /\ NothingDue'
  BY <1>2 DEF NothingDue, Types, LineTypes
<1>3. CASE UNCHANGED vars
  BY <1>1, <1>3 DEF vars, environment
<1>4. CASE Tap("down") \/ PulseBegins
  BY <1>2, <1>4 DEF Tap, PulseBegins
<1>5. CASE Tap("up")
  <2>1. /\ button.to = "down" /\ button'.to = "up"
        /\ UNCHANGED <<output, actuations, presses, pin>>
    BY <1>5 DEF Tap, Types, LineTypes
  <2> QED  BY <2>1 DEF NothingDue
<1>6. CASE PulseEnds
  BY <1>6 DEF PulseEnds, NothingDue, Brief
<1>7. CASE Close \/ HostWrites
  BY <1>1, <1>7 DEF Close, HostWrites, Write, environment
<1>8. CASE Tick
  BY <1>8, TickDue
<1>9. CASE Scan \/ NothingToScan \/ ReadMore \/ ReadTimesOut \/ Answered \/ PhotoDone \/ RestDone
  BY <1>1, <1>9
     DEF Scan, NothingToScan, ReadMore, ReadTimesOut, Answered, PhotoDone, RestDone, environment
<1>10. CASE PollTrigger
  BY <1>10, PollDue DEF PollTrigger
<1>11. CASE PreviewAttempt
  <2>1. CASE at' = "send" /\ tries' = 0 /\ UNCHANGED <<spent, pin, presses, owed>>
    BY <1>1, <1>11, <2>1 DEF PreviewAttempt, environment
  <2>2. UNCHANGED environment
    BY <1>11 DEF PreviewAttempt
  <2> QED  BY <1>11, <2>1, <2>2, PollDue DEF PreviewAttempt
<1> QED
  BY <1>3, <1>4, <1>5, <1>6, <1>7, <1>8, <1>9, <1>10, <1>11 DEF Next, NodeStep
-----------------------------------------------------------------------------
(* The scanners.  The letters of the magic are four, so that at most one   *)
(* beginning of it is an end of the window.                                *)
LEMMA MagicLetters ==
  \A i, j \in 1..4 : Magic[i] = Magic[j] => i = j
<1>1. 1..4 = {1, 2, 3, 4}
  OBVIOUS
<1> QED  BY <1>1, MagicFacts

LEMMA SlideProperties ==
  ASSUME NEW w \in Seq(Values), Len(w) <= 4, NEW v \in Values, NEW x, x = Slide(w, v)
  PROVE  /\ x \in Seq(Values) /\ Len(x) = IF Len(w) = 4 THEN 4 ELSE Len(w) + 1
         /\ x[Len(x)] = v
         /\ \A i \in 1..(Len(x) - 1) : x[Len(x) - i] = w[Len(w) + 1 - i]
<1>1. PICK long : long = Append(w, v)
  OBVIOUS
<1>2. /\ long \in Seq(Values) /\ Len(long) = Len(w) + 1 /\ long[Len(long)] = v
      /\ \A i \in 1..Len(w) : long[i] = w[i]
      /\ Len(w) \in Nat
  BY <1>1, AppendProperties, LenProperties
<1>3. x = IF Len(long) > 4 THEN Tail(long) ELSE long
  BY <1>1 DEF Slide
<1>4. CASE Len(w) = 4
  <2>1. long # <<>> /\ x = Tail(long)
    BY <1>2, <1>3, <1>4
  <2>2. x \in Seq(Values) /\ Len(x) = 4 /\ \A i \in 1..4 : x[i] = long[i + 1]
    <3>1. x \in Seq(Values) /\ Len(x) = Len(long) - 1 /\ \A i \in 1..Len(x) : x[i] = long[i + 1]
      BY <1>2, <2>1, HeadTailProperties
    <3>2. Len(x) = 4
      BY <1>2, <1>4, <3>1
    <3> QED  BY <3>1, <3>2
  <2>3. x[4] = v /\ \A i \in 1..3 : x[i] = w[i + 1]
    BY <1>2, <1>4, <2>2
  <2> QED  BY <1>4, <2>2, <2>3
<1>5. CASE Len(w) # 4
  <2>1. Len(w) \in 0..3 /\ Len(long) = Len(w) + 1
    <3>1. PICK n : n = Len(w)
      OBVIOUS
    <3>2. n \in Nat /\ n <= 4 /\ n # 4 /\ Len(long) = n + 1
      BY <1>2, <1>5, <3>1
    <3> QED  BY <3>1, <3>2
  <2>2. x = long
    BY <1>3, <2>1
  <2>3. \A i \in 1..(Len(x) - 1) : Len(x) - i \in 1..Len(w) /\ Len(x) - i = Len(w) + 1 - i
    BY <2>1, <2>2
  <2> QED  BY <1>2, <1>5, <2>1, <2>2, <2>3
<1> QED  BY <1>4, <1>5

LEMMA ScanAgrees ==
  ASSUME NEW w \in Seq(Values), Len(w) <= 4, NEW m \in 0..3, m <= Len(w),
         \A k \in 1..Len(w) : EndsIn(w, k) <=> k = m,
         NEW v \in Values, NEW x, x = Slide(w, v),
         NEW n, n = IF v = Magic[m + 1] THEN m + 1 ELSE IF v = "B" THEN 1 ELSE 0
  PROVE  /\ x \in Seq(Values) /\ Len(x) <= 4 /\ n <= Len(x)
         /\ \A k \in 1..Len(x) : EndsIn(x, k) <=> k = n
<1>1. PICK L : L = Len(x)
  OBVIOUS
<1>2. /\ x \in Seq(Values) /\ L = (IF Len(w) = 4 THEN 4 ELSE Len(w) + 1) /\ x[L] = v
      /\ \A i \in 1..(L - 1) : x[L - i] = w[Len(w) + 1 - i]
  <2>1. x \in Seq(Values) /\ Len(x) = (IF Len(w) = 4 THEN 4 ELSE Len(w) + 1)
    BY SlideProperties
  <2>2. x[Len(x)] = v
    BY SlideProperties
  <2>3. \A i \in 1..(Len(x) - 1) : x[Len(x) - i] = w[Len(w) + 1 - i]
    BY SlideProperties
  <2> QED  BY <1>1, <2>1, <2>2, <2>3
<1>3. Len(w) \in 0..4 /\ L \in 1..4 /\ L - 1 <= Len(w) /\ m + 1 <= L
  <2>1. PICK lw : lw = Len(w)
    OBVIOUS
  <2>2. lw \in Nat /\ lw <= 4 /\ m <= lw
    BY <2>1
  <2>3. L = IF lw = 4 THEN 4 ELSE lw + 1
    BY <1>2, <2>1
  <2> QED  BY <2>1, <2>2, <2>3
<1>4. ASSUME NEW k \in 1..L
      PROVE  EndsIn(x, k) <=> v = Magic[k] /\ (k = 1 \/ k = m + 1)
  <2>1. \A j \in 1..(k - 1) : x[L - k + j] = w[Len(w) - (k - 1) + j]
    <3> SUFFICES ASSUME NEW j \in 1..(k - 1) PROVE x[L - k + j] = w[Len(w) - (k - 1) + j]
      OBVIOUS
    <3>1. k - j \in 1..(L - 1) /\ L - (k - j) = L - k + j
          /\ Len(w) + 1 - (k - j) = Len(w) - (k - 1) + j
      BY <1>3
    <3> QED  BY <1>2, <3>1
  <2>2. L - k + k = L /\ 1..k = (1..(k - 1)) \cup {k}
    BY <1>3
  <2>3. EndsIn(x, k) <=> x[L] = Magic[k] /\ \A j \in 1..(k - 1) : x[L - k + j] = Magic[j]
    BY <1>1, <2>2 DEF EndsIn
  <2>4. EndsIn(x, k) <=> v = Magic[k] /\ EndsIn(w, k - 1)
    BY <1>2, <2>1, <2>3 DEF EndsIn
  <2>5. k = 1 => EndsIn(w, k - 1)
    BY DEF EndsIn
  <2>6. k # 1 => (EndsIn(w, k - 1) <=> k - 1 = m)
    <3>1. k # 1 => k - 1 \in 1..Len(w)
      BY <1>3
    <3> QED  BY <3>1
  <2>7. k - 1 = m <=> k = m + 1
    BY <1>3
  <2> QED  BY <2>4, <2>5, <2>6, <2>7
<1>5. \A k \in 1..L : k \in 1..4
  BY <1>3
<1>6. CASE v = Magic[m + 1]
  <2>1. n = m + 1 /\ n \in 1..4
    BY <1>6
  <2>2. \A k \in 1..L : v = Magic[k] <=> k = n
    BY <1>5, <1>6, <2>1, MagicLetters
  <2> QED  BY <1>1, <1>2, <1>3, <1>4, <2>1, <2>2, SMTT(30)
<1>7. CASE v # Magic[m + 1] /\ v = "B"
  <2>1. n = 1 /\ 1 \in 1..4 /\ v = Magic[1]
    BY <1>7, MagicFacts
  <2>2. \A k \in 1..L : v = Magic[k] <=> k = 1
    BY <1>5, <2>1, MagicLetters
  <2>3. \A k \in 1..L : EndsIn(x, k) <=> k = 1
    BY <1>4, <2>2
  <2>4. 1 <= L /\ L <= 4
    BY <1>3
  <2> QED  BY <1>1, <1>2, <2>1, <2>3, <2>4
<1>8. CASE v # Magic[m + 1] /\ v # "B"
  <2>1. n = 0 /\ v # Magic[1]
    BY <1>8, MagicFacts
  <2>2. \A k \in 1..L : ~EndsIn(x, k) /\ k # n
    BY <1>4, <1>8, <2>1
  <2> QED  BY <1>1, <1>2, <1>3, <2>1, <2>2
<1> QED  BY <1>6, <1>7, <1>8

LEMMA ScannerStep ==
  ASSUME Types, Reading, ScannerAgrees, [Next]_vars
  PROVE  ScannerAgrees'
<1>1. ASSUME UNCHANGED <<matched, window>> PROVE ScannerAgrees'
  BY <1>1 DEF ScannerAgrees, EndsIn
<1>2. ASSUME Forget PROVE ScannerAgrees'
  <2>1. matched' = 0 /\ window' = <<>>
    BY <1>2 DEF Forget
  <2>2. Len(window') = 0 /\ window' \in Seq(Values)
    BY <2>1
  <2> QED  BY <2>1, <2>2 DEF ScannerAgrees
<1>3. CASE UNCHANGED vars
  BY <1>1, <1>3 DEF vars, serial
<1>4. CASE Scan
  <2>1. wire # <<>> /\ wire \in Seq(ByteType) /\ matched \in 0..3
    BY <1>4 DEF Scan, Types, SerialTypes, Reading
  <2>2. PICK v : v = Head(wire).v
    OBVIOUS
  <2>3. v \in Values
    <3>1. Head(wire) \in ByteType
      BY <2>1, HeadTailProperties
    <3> QED  BY <2>2, <3>1 DEF ByteType
  <2>4. PICK m, w : m = matched /\ w = window
    OBVIOUS
  <2>5. /\ w \in Seq(Values) /\ Len(w) <= 4 /\ m \in 0..3 /\ m <= Len(w)
        /\ \A k \in 1..Len(w) : EndsIn(w, k) <=> k = m
    BY <2>1, <2>4 DEF ScannerAgrees
  <2>6. PICK x, n : x = Slide(w, v) /\ n = MatchedAfter(v)
    OBVIOUS
  <2>7. n = IF v = Magic[m + 1] THEN m + 1 ELSE IF v = "B" THEN 1 ELSE 0
    BY <2>4, <2>6 DEF MatchedAfter
  <2>8. window' = x /\ matched' = n
    BY <1>4, <2>2, <2>4, <2>6 DEF Scan
  <2>9. /\ x \in Seq(Values) /\ Len(x) <= 4 /\ n <= Len(x)
        /\ \A k \in 1..Len(x) : EndsIn(x, k) <=> k = n
    BY <2>3, <2>5, <2>6, <2>7, ScanAgrees
  <2> QED  BY <2>8, <2>9 DEF ScannerAgrees
<1>5. CASE ReadMore
  <2>1. Forget \/ UNCHANGED <<matched, window>>
    BY <1>5, Zenon DEF ReadMore
  <2> QED  BY <1>1, <1>2, <2>1
<1>6. CASE ReadTimesOut
  BY <1>2, <1>6 DEF ReadTimesOut
<1>7. ASSUME NEW to, Tap(to) \/ PulseBegins \/ PulseEnds \/ Close \/ HostWrites \/ Tick
      PROVE  ScannerAgrees'
  BY <1>1, <1>7 DEF Tap, PulseBegins, PulseEnds, Close, HostWrites, Write, Tick, serial
<1>8. CASE NothingToScan \/ Answered \/ PollTrigger \/ PreviewAttempt \/ PhotoDone \/ RestDone
  BY <1>1, <1>8 DEF NothingToScan, Answered, PollTrigger, PreviewAttempt, PhotoDone, RestDone, serial
<1> QED  BY <1>3, <1>4, <1>5, <1>6, <1>7, <1>8 DEF Next, NodeStep

(* The end of the window that Beginning chooses.                           *)
LEMMA BeginningIs ==
  ASSUME NEW w \in Seq(Values), Len(w) <= 4, NEW m \in 0..Len(w),
         \A k \in 1..Len(w) : EndsIn(w, k) <=> k = m
  PROVE  Beginning(w) = m
<1>1. PICK L : L = Len(w)
  OBVIOUS
<1>2. L \in 0..4
  BY <1>1
<1>3. ASSUME NEW k \in 0..L
      PROVE  SubSeq(w, L - k + 1, L) = SubSeq(Magic, 1, k) <=> EndsIn(w, k)
  <2>1. PICK s, b : s = SubSeq(w, L - k + 1, L) /\ b = SubSeq(Magic, 1, k)
    OBVIOUS
  <2>2. /\ s \in Seq(Values) /\ Len(s) = k
        /\ \A i \in 1..k : s[i] = w[L - k + i]
    <3>1. \A i \in (L - k + 1)..L : w[i] \in Values
      BY <1>1, <1>2
    <3>2. L - (L - k + 1) + 1 = k /\ L - k + 1 \in Int /\ L \in Int
          /\ (~(L - k + 1 <= L) => k = 0)
      BY <1>2
    <3>3. \A i \in 1..k : (L - k + 1) + i - 1 = L - k + i
      BY <1>2
    <3>4. /\ s \in Seq(Values) /\ Len(s) = (IF L - k + 1 <= L THEN L - (L - k + 1) + 1 ELSE 0)
          /\ \A i \in 1..(L - (L - k + 1) + 1) : s[i] = w[(L - k + 1) + i - 1]
      BY <2>1, <3>1, <3>2, SubSeqProperties, SMTT(30)
    <3> QED  BY <3>2, <3>3, <3>4
  <2>3. /\ b \in Seq(Values) /\ Len(b) = k
        /\ \A i \in 1..k : b[i] = Magic[i]
    <3>1. \A i \in 1..k : Magic[i] \in Values
      <4>1. \A i \in {1, 2, 3, 4} : Magic[i] \in Values
        BY MagicFacts DEF Values
      <4>2. \A i \in 1..k : i \in {1, 2, 3, 4}
        BY <1>2
      <4> QED  BY <4>1, <4>2
    <3>2. k - 1 + 1 = k /\ 1 \in Int /\ k \in Int /\ (~(1 <= k) => k = 0)
          /\ \A i \in 1..k : 1 + i - 1 = i
      BY <1>2
    <3> QED  BY <2>1, <3>1, <3>2, SubSeqProperties
  <2>4. s = b <=> \A i \in 1..k : s[i] = b[i]
    BY <2>2, <2>3
  <2> QED  BY <1>1, <2>1, <2>2, <2>3, <2>4 DEF EndsIn
<1>4. EndsIn(w, 0)
  BY DEF EndsIn
<1> DEFINE Is(n) == /\ SubSeq(w, Len(w) - n + 1, Len(w)) = SubSeq(Magic, 1, n)
                    /\ \A k \in (n + 1)..Len(w) :
                         SubSeq(w, Len(w) - k + 1, Len(w)) # SubSeq(Magic, 1, k)
<1>5. Is(m)
  <2>1. EndsIn(w, m)
    BY <1>1, <1>2, <1>4
  <2>2. \A k \in (m + 1)..L : k \in 1..L /\ k # m
    BY <1>1, <1>2
  <2> QED  BY <1>1, <1>3, <2>1, <2>2
<1>6. ASSUME NEW n \in 0..Len(w), Is(n) PROVE n = m
  <2>1. n # 0 => n = m
    BY <1>1, <1>2, <1>3, <1>6
  <2>2. n = 0 => m = 0
    <3> SUFFICES ASSUME n = 0, m # 0 PROVE FALSE
      OBVIOUS
    <3>1. m \in (n + 1)..L /\ m \in 1..L
      BY <1>1, <1>2
    <3> QED  BY <1>1, <1>3, <1>6, <3>1
  <2> QED  BY <2>1, <2>2
<1> HIDE DEF Is
<1>7. Beginning(w) = CHOOSE n \in 0..Len(w) : Is(n)
  BY DEF Beginning, Is
<1> QED  BY <1>5, <1>6, <1>7

-----------------------------------------------------------------------------
(* A pulse is seen before it ends.                                         *)
LEMMA GapFacts ==
  ASSUME Types, Answering
  PROVE  /\ Gap \in Nat /\ MaxGap \in Nat /\ spent \in Nat /\ pin.since \in Nat /\ Debounce \in Nat
         /\ owed # NotOwed => Gap <= MaxGap /\ spent <= MaxGap
<1>1. /\ MaxGap \in Nat /\ spent \in Nat /\ pin.since \in Nat /\ Debounce \in Nat
  BY NodeLoopAssumption DEF Types, LineTypes, PlaceTypes
<1> QED  BY <1>1 DEF Gap, Answering

(* The line moves, by the button or by the Pi; no time passes.             *)
LEMMA LineAnswers ==
  ASSUME Types, Answering, LineChanged(0), UNCHANGED <<pin, at, caller, spent>>,
         output' \in {output, 0, Idle}
  PROVE  Answering'
<1>1. Gap' = Gap
  BY DEF Gap
<1>2. ASSUME owed' # NotOwed
      PROVE  /\ line' = "low" /\ Prompt'
             /\ \/ line = "high" /\ pin.stable = "high" /\ owed' = 0
                \/ line # "high" /\ owed # NotOwed /\ owed' = owed + 0
  <2>1. line' \in Levels
    BY DEF line, Level, Levels
  <2>2. line' # "high" /\ Prompt'
    BY <1>2 DEF LineChanged
  <2> QED  BY <1>2, <2>1, <2>2 DEF LineChanged, Levels
<1>3. ASSUME owed' # NotOwed, line = "high"
      PROVE  Answering'
  <2>1. owed' = 0 /\ pin.stable = "high" /\ line' = "low" /\ caller = "loop" /\ at # "shoot"
        /\ spent <= MaxGap
    BY <1>2, <1>3 DEF Prompt
  <2>2. output = Idle
    BY <1>3, LineFacts
  <2>3. output' # Idle => output' <= 0
    BY <2>2 DEF Idle
  <2> QED  BY <1>1, <2>1, <2>3, GapFacts DEF Answering
<1>4. ASSUME owed' # NotOwed, line # "high"
      PROVE  Answering'
  <2>1. owed # NotOwed /\ owed' = owed + 0 /\ line' = "low"
    BY <1>2, <1>4
  <2>2. owed \in Nat
    BY <2>1 DEF Answering
  <2>3. owed' = owed
    BY <2>1, <2>2
  <2>4. output' # Idle => output' <= owed'
    BY <2>1, <2>2, <2>3 DEF Answering
  <2> QED  BY <1>1, <2>1, <2>3, <2>4 DEF Answering
<1>5. ASSUME owed' = NotOwed
      PROVE  Answering'
  BY <1>5 DEF Answering
<1> QED  BY <1>3, <1>4, <1>5

LEMMA TickAnswers ==
  ASSUME Types, Answering, Tick
  PROVE  Answering'
<1>1. /\ UNCHANGED <<at, caller>> /\ spent' = spent + 1 /\ LineChanged(1) /\ Lasts
      /\ output' = IF output = Idle THEN Idle ELSE output + 1
  BY DEF Tick
<1>2. pin'.raw = pin.raw /\ pin'.stable = pin.stable /\ pin'.since = (pin.since + 1) % Wrap
  BY DEF Tick, Types, LineTypes
<1>3. ASSUME owed' # NotOwed
      PROVE  /\ line' = "low" /\ Prompt'
             /\ \/ line = "high" /\ pin'.stable = "high" /\ owed' = 0
                \/ line # "high" /\ owed # NotOwed /\ owed' = owed + 1
  <2>1. line' \in Levels
    BY DEF line, Level, Levels
  <2>2. line' # "high" /\ Prompt'
    BY <1>3 , <1>1 DEF LineChanged
  <2> QED  BY <1>1, <1>2, <1>3, <2>1, <2>2 DEF LineChanged, Levels
<1>4. ASSUME owed' # NotOwed
      PROVE  /\ caller' = "loop" /\ at' # "shoot" /\ line' = "low"
             /\ Gap = spent /\ Gap' = spent + 1 /\ spent < MaxGap
  <2>1. caller' = "loop" /\ at' \in {"preview", "send", "rest"} /\ spent + 1 <= MaxGap
    BY <1>1, <1>3, <1>4 DEF Prompt, Lasts
  <2> QED  BY <1>1, <1>3, <1>4, <2>1, GapFacts DEF Gap
<1>5. ASSUME owed' # NotOwed, line = "high"
      PROVE  Answering'
  <2>1. owed' = 0 /\ pin'.stable = "high"
    BY <1>3, <1>5
  <2>2. output' = Idle
    BY <1>1, <1>5, LineFacts
  <2> QED  BY <1>1, <1>4, <1>5, <2>1, <2>2, GapFacts DEF Answering
<1>6. ASSUME owed' # NotOwed, line # "high"
      PROVE  Answering'
  <2>1. owed # NotOwed /\ owed' = owed + 1
    BY <1>3, <1>6
  <2>2. /\ owed \in Nat /\ pin.stable = "high"
        /\ output # Idle => output <= owed
        /\ \/ owed <= Gap
           \/ pin.raw = "low" /\ pin.since < Debounce + Gap /\ owed <= pin.since + MaxGap
    BY <2>1 DEF Answering
  <2>3. output' # Idle => output' <= owed'
    BY <1>1, <2>1, <2>2 DEF Types, LineTypes, Idle
  <2>4. CASE owed <= Gap
    <3>1. owed' <= Gap'
      BY <1>4, <1>6, <2>1, <2>2, <2>4, GapFacts
    <3> QED  BY <1>1, <1>2, <1>4, <1>6, <2>1, <2>2, <2>3, <3>1, GapFacts DEF Answering
  <2>5. CASE pin.raw = "low" /\ pin.since < Debounce + Gap /\ owed <= pin.since + MaxGap
    <3>1. pin.since + 1 < Wrap /\ Wrap \in Nat
      BY <1>4, <1>6, <2>5, GapFacts, NodeLoopAssumption
    <3>2. (pin.since + 1) % Wrap = pin.since + 1
      BY <3>1, GapFacts
    <3>3. pin'.since = pin.since + 1
      BY <1>2, <3>2
    <3>4. pin'.raw = "low" /\ pin'.since < Debounce + Gap' /\ owed' <= pin'.since + MaxGap
      BY <1>2, <1>4, <1>6, <2>1, <2>2, <2>5, <3>3, GapFacts
    <3> QED  BY <1>1, <1>2, <1>4, <1>6, <2>1, <2>2, <2>3, <3>4, GapFacts DEF Answering
  <2> QED  BY <2>2, <2>4, <2>5
<1>7. ASSUME owed' = NotOwed
      PROVE  Answering'
  BY <1>7 DEF Answering
<1> QED  BY <1>5, <1>6, <1>7

LEMMA PollAnswers ==
  ASSUME Types, Answering, UNCHANGED <<environment, caller>>, caller = "loop",
         NEW next \in {"preview", "send", "rest"}, NEW requested, Poll(next, requested)
  PROVE  Answering'
<1>1. spent' = 0 /\ line' = line /\ output' = output
  BY DEF Poll, environment, line
<1>2. spent' <= MaxGap
  BY <1>1, GapFacts
<1>3. CASE owed' = NotOwed
  BY <1>2, <1>3 DEF Answering
<1>4. CASE owed' # NotOwed
  <2>1. ~Pressed /\ owed' = owed /\ at' = next
    BY <1>4 DEF Poll
  <2>2. /\ owed \in Nat /\ line = "low" /\ pin.stable = "high"
        /\ output # Idle => output <= owed
        /\ \/ owed <= Gap
           \/ pin.raw = "low" /\ pin.since < Debounce + Gap /\ owed <= pin.since + MaxGap
    BY <1>4, <2>1 DEF Answering
  <2>3. ~Believed(Sampled)
    BY <2>1, <2>2 DEF Pressed
  <2>4. pin' = Sampled
    BY <2>3 DEF Poll
  <2>5. PICK p : p = Sampled
    OBVIOUS
  <2>6. /\ p.raw = "low" /\ p.stable = "high" /\ p.since \in Nat
        /\ p.since = IF line = pin.raw THEN pin.since ELSE 0
    BY <2>2, <2>5, PollTypes, NodeLoopAssumption
  <2>7. p.since < Debounce
    BY <2>3, <2>5, <2>6, GapFacts DEF Believed, Settled
  <2>8. owed <= p.since + MaxGap
    BY <1>4, <2>1, <2>2, <2>6, GapFacts
  <2>9. Gap' = 0
    BY <1>1, <2>1 DEF Gap
  <2>10. pin'.raw = "low" /\ pin'.since < Debounce + Gap' /\ owed' <= pin'.since + MaxGap
         /\ pin'.stable = "high"
    BY <2>1, <2>4, <2>5, <2>6, <2>7, <2>8, <2>9, GapFacts
  <2>11. at' # "shoot" /\ caller' = "loop" /\ line' = "low"
    BY <1>1, <2>1, <2>2
  <2> QED  BY <1>1, <1>2, <2>1, <2>2, <2>10, <2>11 DEF Answering
<1> QED  BY <1>3, <1>4

(* Nothing is sampled, and no time passes.                                 *)
LEMMA StepAnswers ==
  ASSUME Types, Answering, UNCHANGED <<environment, pin, owed>>,
         (owed # NotOwed /\ caller = "loop" /\ at # "shoot") =>
           /\ caller' = "loop" /\ at' # "shoot" /\ spent' <= MaxGap
           /\ Gap <= Gap' /\ Gap' \in Nat
  PROVE  Answering'
<1>1. line' = line /\ output' = output
  BY DEF environment, line
<1>2. CASE owed = NotOwed
  BY <1>2 DEF Answering
<1>3. CASE owed # NotOwed
  <2>1. /\ owed \in Nat /\ caller = "loop" /\ at # "shoot" /\ line = "low" /\ pin.stable = "high"
        /\ output # Idle => output <= owed
        /\ \/ owed <= Gap
           \/ pin.raw = "low" /\ pin.since < Debounce + Gap /\ owed <= pin.since + MaxGap
    BY <1>3 DEF Answering
  <2>2. caller' = "loop" /\ at' # "shoot" /\ spent' <= MaxGap /\ Gap <= Gap' /\ Gap' \in Nat
    BY <1>3, <2>1
  <2>3. \/ owed' <= Gap'
        \/ pin'.raw = "low" /\ pin'.since < Debounce + Gap' /\ owed' <= pin'.since + MaxGap
    <3>1. owed <= Gap => owed <= Gap'
      BY <2>1, <2>2, GapFacts
    <3>2. pin.since < Debounce + Gap => pin.since < Debounce + Gap'
      BY <2>2, GapFacts
    <3> QED  BY <2>1, <3>1, <3>2
  <2> QED  BY <1>1, <2>1, <2>2, <2>3 DEF Answering
<1> QED  BY <1>2, <1>3

LEMMA NodeAnswers ==
  ASSUME Types, Reading, Answering, NodeStep
  PROVE  Answering'
<1>1. /\ MaxGap \in Nat /\ spent \in Nat /\ Gap \in Nat
      /\ owed # NotOwed => Gap <= MaxGap /\ spent <= MaxGap
  BY GapFacts
<1>2. caller \in {"loop", "wait"}
  BY DEF Types, PlaceTypes
<1>3. at \in {"serial", "preview", "send", "rest"} => Gap = spent
  BY DEF Gap
<1>4. at \notin {"serial", "preview", "send", "rest"} => Gap = MaxGap
  BY DEF Gap
<1>5. at' \in {"serial", "preview", "send", "rest"} => Gap' = spent'
  BY DEF Gap
<1>6. at' \notin {"serial", "preview", "send", "rest"} => Gap' = MaxGap
  BY DEF Gap
<1>7. CASE Scan
  <2>1. /\ UNCHANGED <<environment, pin, caller, owed>> /\ at = "serial"
        /\ (at' = "header" /\ spent' = 0) \/ UNCHANGED <<at, spent>>
    BY <1>7 DEF Scan
  <2> QED  BY <1>1, <1>3, <1>5, <1>6, <2>1, StepAnswers DEF Answering
<1>8. ASSUME NoFrame, UNCHANGED <<environment, pin, caller, owed>>
      PROVE  Answering'
  <2>1. CASE caller = "loop"
    <3>1. at' = "trigger" /\ spent' = spent
      BY <1>8, <2>1 DEF NoFrame
    <3> QED  BY <1>1, <1>6, <1>8, <2>1, <3>1, StepAnswers DEF Answering
  <2>2. CASE caller # "loop"
    BY <1>8, <2>2, StepAnswers
  <2> QED  BY <2>1, <2>2
<1>9. CASE NothingToScan
  BY <1>8, <1>9 DEF NothingToScan
<1>10. CASE ReadTimesOut
  BY <1>8, <1>10 DEF ReadTimesOut
<1>11. CASE ReadMore
  <2>1. UNCHANGED <<environment, pin, owed>> /\ at \in {"header", "body"}
    BY <1>11 DEF ReadMore
  <2>2. CASE NoFrame /\ UNCHANGED caller
    BY <1>8, <2>1, <2>2
  <2>3. CASE at' \in {"header", "body"} /\ spent' = 0 /\ UNCHANGED caller
    BY <1>1, <1>4, <1>6, <2>1, <2>3, StepAnswers
  <2>4. CASE Received(Head(wire))
    <3>1. CASE caller = "loop"
      <4>1. at' \in {"answer", "trigger", "requested"} /\ caller' = "loop" /\ spent' = 0
        BY <2>4, <3>1 DEF Received
      <4> QED  BY <1>1, <1>4, <1>6, <2>1, <3>1, <4>1, StepAnswers
    <3>2. CASE caller # "loop"
      BY <2>1, <3>2, StepAnswers
    <3> QED  BY <3>1, <3>2
  <2>5. \/ NoFrame /\ UNCHANGED caller
        \/ at' \in {"header", "body"} /\ spent' = 0 /\ UNCHANGED caller
        \/ Received(Head(wire))
    BY <1>11, Zenon DEF ReadMore
  <2> QED  BY <2>2, <2>3, <2>4, <2>5
<1>12. CASE PollTrigger
  <2>1. UNCHANGED <<environment, caller>> /\ caller = "loop"
    BY <1>12 DEF PollTrigger, Reading
  <2>2. PICK next : next = IF preview THEN "preview" ELSE "rest"
    OBVIOUS
  <2>3. next \in {"preview", "send", "rest"} /\ Poll(next, at = "requested")
    BY <1>12, <2>2 DEF PollTrigger
  <2> QED  BY <2>1, <2>3, PollAnswers
<1>13. CASE PreviewAttempt
  <2>1. UNCHANGED <<environment, caller>> /\ caller = "loop" /\ at = "preview"
    BY <1>13 DEF PreviewAttempt, Reading
  <2>2. PICK next : next = IF tries > 1 THEN "preview" ELSE "send"
    OBVIOUS
  <2>3. next \in {"preview", "send", "rest"}
    BY <2>2
  <2>4. CASE Poll(next, FALSE) \/ Poll("send", FALSE)
    BY <2>1, <2>3, <2>4, PollAnswers
  <2>5. CASE at' = "send" /\ UNCHANGED <<spent, pin, presses, owed>>
    BY <1>1, <1>3, <1>5, <2>1, <2>5, StepAnswers DEF Answering
  <2> QED  BY <1>13, <2>2, <2>4, <2>5 DEF PreviewAttempt
<1>14. CASE PhotoDone
  <2>1. UNCHANGED <<environment, pin, owed>> /\ at = "shoot" /\ spent' = 0
    BY <1>14 DEF PhotoDone
  <2> QED  BY <1>1, <2>1, StepAnswers
<1>15. CASE RestDone
  <2>1. UNCHANGED <<environment, pin, owed>> /\ at \in {"send", "rest"}
    BY <1>15 DEF RestDone
  <2>2. CASE caller = "wait" /\ waited >= AckTimeout
    <3>1. spent' = 0
      BY <1>15, <2>2 DEF RestDone
    <3> QED  BY <1>1, <2>1, <2>2, <3>1, StepAnswers
  <2>3. CASE ~(caller = "wait" /\ waited >= AckTimeout)
    <3>1. at' = "serial" /\ UNCHANGED <<caller, spent>>
      BY <1>15, <2>3 DEF RestDone
    <3> QED  BY <1>1, <1>3, <1>5, <2>1, <3>1, StepAnswers DEF Answering
  <2> QED  BY <2>2, <2>3
<1>16. CASE Answered
  <2>1. UNCHANGED <<environment, pin, caller, spent, owed>> /\ at = "answer" /\ at' = "trigger"
    BY <1>16 DEF Answered
  <2> QED  BY <1>1, <1>4, <1>6, <2>1, StepAnswers
<1> QED
  BY <1>7, <1>9, <1>10, <1>11, <1>12, <1>13, <1>14, <1>15, <1>16 DEF NodeStep

LEMMA AnsweringStep ==
  ASSUME Types, Reading, Answering, [Next]_vars
  PROVE  Answering'
<1>1. ASSUME UNCHANGED <<environment, pin, owed, at, caller, spent>> PROVE Answering'
  BY <1>1 DEF Answering, environment, line, Gap
<1>2. CASE UNCHANGED vars
  BY <1>1, <1>2 DEF vars, place
<1>3. ASSUME NEW to, Tap(to) \/ PulseBegins \/ PulseEnds PROVE Answering'
  BY <1>3, LineAnswers DEF Tap, PulseBegins, PulseEnds, place
<1>4. CASE Close
  BY <1>4 DEF Close, Answering, line, Gap, place
<1>5. CASE HostWrites
  BY <1>1, <1>5 DEF HostWrites, Write, place
<1>6. CASE Tick
  BY <1>6, TickAnswers
<1>7. CASE NodeStep
  BY <1>7, NodeAnswers
<1> QED  BY <1>2, <1>3, <1>4, <1>5, <1>6, <1>7 DEF Next

LEMMA PulseEndsSeen ==
  ASSUME Types, Answering, [Next]_vars, output # Idle, output' = Idle
  PROVE  owed = NotOwed
<1>1. output \in 0..Pulse /\ Pulse \in Nat
  BY NodeLoopAssumption DEF Types, LineTypes, Idle
<1>2. PulseEnds
  <2>1. ASSUME UNCHANGED output PROVE FALSE
    BY <2>1
  <2>2. ~Tick
    BY <1>1 DEF Tick, Idle
  <2>3. ~PulseBegins
    BY DEF PulseBegins
  <2>4. ~(\E to \in {"up", "down"} : Tap(to)) /\ ~Close /\ ~HostWrites /\ ~UNCHANGED vars
    BY <2>1 DEF Tap, Close, HostWrites, Write, environment, vars
  <2>5. ~NodeStep
    BY <2>1
       DEF NodeStep, Scan, NothingToScan, ReadMore, ReadTimesOut, Answered, PollTrigger,
                PreviewAttempt, PhotoDone, RestDone, environment
  <2> QED  BY <2>2, <2>3, <2>4, <2>5 DEF Next
<1>3. output = Pulse
  BY <1>2 DEF PulseEnds
<1> SUFFICES ASSUME owed # NotOwed PROVE FALSE
  OBVIOUS
<1>4. /\ owed \in Nat /\ caller = "loop" /\ output <= owed
      /\ \/ owed <= Gap
         \/ pin.since < Debounce + Gap /\ owed <= pin.since + MaxGap
  BY DEF Answering
<1>5. Pulse > Debounce + 2 * MaxGap
  BY NodeLoopAssumption
<1> QED  BY <1>1, <1>3, <1>4, <1>5, GapFacts

-----------------------------------------------------------------------------
(* The frames.  What remains of a wire when its first byte is read.        *)
IsWire(w) == w \in Seq(ByteType)
IsList(s) == s \in Seq(Nat)
HasLen(b, l) == Len(b) = l
Rest(x, w) == x = Tail(w)
Joined(c, b, byte) == c = Append(b, byte)

LEMMA Seven == FrameLen = 7 /\ Early \cup {FrameLen} = {1, 3, 7}
  BY MagicFacts DEF Early

(* What is scanned next, of which frame.                                   *)
LEMMA ScanningIs ==
  ASSUME NEW x, NEW s, NEW m, NEW f, NEW k, x[1].f = f /\ x[1].k = k,
         IsSent(s, f) => k <= 4 /\ m = k - 1,
         k > 4 => m = 0,
         (~IsSent(s, f) /\ k <= 4) => m # k - 1 \/ Broken(x, f)
  PROVE  Scanning(x, s, m)
  BY Zenon DEF Scanning

LEMMA Consume ==
  ASSUME NEW w, IsWire(w), NEW s, IsList(s), NEW n \in Nat, w # <<>>,
         WireOrder(w), WireBytes(w, s, n), NEW x, Rest(x, w)
  PROVE  /\ IsWire(x) /\ Len(x) = Len(w) - 1 /\ \A i \in 1..Len(x) : x[i] = w[i + 1]
         /\ WireOrder(x) /\ WireBytes(x, s, n)
         /\ x # <<>> => Follows(x[1], w[1]) \/ Starts(x[1], w[1])
         /\ w[1].k \notin Early \cup {FrameLen} => x # <<>> /\ Follows(x[1], w[1])
         /\ (Broken(w, w[1].f) /\ w[1].ok /\ (w[1].k \in Early => x # <<>> /\ Follows(x[1], w[1])))
              => Broken(x, w[1].f)
         /\ (x # <<>> /\ Follows(x[1], w[1])) <=> ~Ends(w, 1)
<1>1. PICK L : L = Len(w)
  OBVIOUS
<1>2. L \in Nat \ {0} /\ \A i \in 1..L : w[i] \in ByteType
  BY <1>1, LenProperties, EmptySeq DEF IsWire
<1>3. IsWire(x) /\ Len(x) = L - 1 /\ \A i \in 1..Len(x) : x[i] = w[i + 1]
  BY <1>1, HeadTailProperties DEF Rest, IsWire
<1>4. \A i \in 1..(L - 1) : i + 1 \in 1..L /\ i \in 1..L /\ x[i] = w[i + 1]
  BY <1>2, <1>3
<1>5. x # <<>> <=> L # 1
  <2>1. x # <<>> => Len(x) \in Nat \ {0}
    BY <1>3, EmptySeq
  <2>2. x = <<>> => Len(x) = 0
    BY EmptySeq
  <2> QED  BY <1>2, <1>3, <2>1, <2>2
<1>6. /\ \A i \in 1..(L - 1) : Follows(w[i + 1], w[i]) \/ Starts(w[i + 1], w[i])
      /\ \A i, j \in 1..L : i < j => w[i].f <= w[j].f
      /\ w[L].k \in Early \cup {FrameLen}
  BY <1>1 DEF WireOrder
<1>7. \A i \in 1..L : w[i].f \in Nat /\ w[i].k \in Nat
  BY <1>2 DEF ByteType
<1>8. WireOrder(x)
  <2>1. ASSUME NEW i \in 1..(Len(x) - 1)
        PROVE  Follows(x[i + 1], x[i]) \/ Starts(x[i + 1], x[i])
    <3>1. i + 1 \in 1..(L - 1) /\ i \in 1..(L - 1)
      BY <1>2, <1>3
    <3> QED  BY <1>4, <1>6, <3>1
  <2>2. ASSUME NEW i \in 1..Len(x), NEW j \in 1..Len(x), i < j
        PROVE  x[i].f <= x[j].f
    <3>1. i \in 1..(L - 1) /\ j \in 1..(L - 1) /\ i + 1 < j + 1
      BY <1>3, <2>2
    <3> QED  BY <1>4, <1>6, <3>1
  <2>3. ASSUME x # <<>>
        PROVE  x[Len(x)].k \in Early \cup {FrameLen}
    <3>1. L - 1 \in 1..(L - 1) /\ L - 1 + 1 = L
      BY <1>2, <1>5, <2>3
    <3> QED  BY <1>3, <1>4, <1>6, <3>1
  <2> QED  BY <2>1, <2>2, <2>3 DEF WireOrder
<1>9. x # <<>> => x[1] = w[2] /\ (Follows(x[1], w[1]) \/ Starts(x[1], w[1]))
  <2> SUFFICES ASSUME x # <<>> PROVE x[1] = w[2] /\ (Follows(x[1], w[1]) \/ Starts(x[1], w[1]))
    OBVIOUS
  <2>1. 1 \in 1..(L - 1) /\ 1 + 1 = 2
    BY <1>2, <1>5
  <2> QED  BY <1>4, <1>6, <2>1
<1>10. (x # <<>> /\ Follows(x[1], w[1])) <=> ~Ends(w, 1)
  <2>1. Ends(w, 1) <=> 1 = L \/ w[2].f # w[1].f
    BY <1>1 DEF Ends
  <2>2. Starts(x[1], w[1]) => x[1].f > w[1].f
    BY DEF Starts
  <2>3. x # <<>> => w[2].f \in Nat /\ w[1].f \in Nat
    <3>1. x # <<>> => 2 \in 1..L /\ 1 \in 1..L
      BY <1>2, <1>5
    <3> QED  BY <1>7, <3>1
  <2> QED  BY <1>5, <1>9, <2>1, <2>2, <2>3 DEF Follows
<1>11. w[1].k \notin Early \cup {FrameLen} => x # <<>> /\ Follows(x[1], w[1])
  <2>1. w[1].k \notin Early \cup {FrameLen} => L # 1
    BY <1>6
  <2> QED  BY <1>5, <1>9, <2>1 DEF Starts
<1>12. \A i \in 1..(L - 1) : Ends(x, i) <=> Ends(w, i + 1)
  <2> SUFFICES ASSUME NEW i \in 1..(L - 1) PROVE Ends(x, i) <=> Ends(w, i + 1)
    OBVIOUS
  <2>1. CASE i = L - 1
    BY <1>1, <1>2, <1>3, <2>1 DEF Ends
  <2>2. CASE i # L - 1
    <3>1. i + 1 \in 1..(L - 1) /\ i + 1 # L
      BY <1>2, <2>2
    <3>2. x[i] = w[i + 1] /\ x[i + 1] = w[i + 1 + 1]
      BY <1>4, <3>1
    <3> QED  BY <1>1, <1>3, <2>2, <3>1, <3>2 DEF Ends
  <2> QED  BY <2>1, <2>2
<1>13. ASSUME NEW f, Broken(w, f), ~(w[1].f = f /\ (~w[1].ok \/ (w[1].k \in Early /\ Ends(w, 1))))
       PROVE  Broken(x, f)
  <2>1. PICK i \in 1..L : w[i].f = f /\ (~w[i].ok \/ (w[i].k \in Early /\ Ends(w, i)))
    BY <1>1, <1>13 DEF Broken
  <2>2. i # 1
    BY <1>13, <2>1
  <2>3. PICK j : j = i - 1
    OBVIOUS
  <2>4. j \in 1..(L - 1) /\ i = j + 1
    BY <1>2, <2>2, <2>3
  <2>5. x[j] = w[i] /\ (Ends(x, j) <=> Ends(w, i))
    BY <1>4, <1>12, <2>4
  <2> QED  BY <1>3, <2>1, <2>4, <2>5 DEF Broken
<1>14. (Broken(w, w[1].f) /\ w[1].ok /\ (w[1].k \in Early => x # <<>> /\ Follows(x[1], w[1])))
         => Broken(x, w[1].f)
  BY <1>10, <1>13
<1>15. WireBytes(x, s, n)
  <2> SUFFICES ASSUME NEW i \in 1..Len(x)
               PROVE  /\ GoodByte(x[i], n)
                      /\ IsSent(s, x[i].f) => x[i].ok /\ (x[i].k \in Early => ~Ends(x, i))
                      /\ x[i].k = 1 => IsSent(s, x[i].f) \/ Broken(x, x[i].f)
    BY DEF WireBytes
  <2>1. i \in 1..(L - 1) /\ i + 1 \in 1..L /\ x[i] = w[i + 1]
    BY <1>3, <1>4
  <2>2. /\ GoodByte(w[i + 1], n)
        /\ IsSent(s, w[i + 1].f) => w[i + 1].ok /\ (w[i + 1].k \in Early => ~Ends(w, i + 1))
        /\ w[i + 1].k = 1 => IsSent(s, w[i + 1].f) \/ Broken(w, w[i + 1].f)
    BY <1>1, <2>1 DEF WireBytes
  <2>3. ASSUME w[i + 1].k = 1, Broken(w, w[i + 1].f)
        PROVE  Broken(x, w[i + 1].f)
    <3>1. w[i].k \in Nat \ {0}
      <4>1. GoodByte(w[i], n)
        BY <1>1, <1>4, <2>1 DEF WireBytes
      <4>2. w[i].k \in 1..FrameLen
        BY <4>1 DEF GoodByte
      <4> QED  BY <4>2, Seven
    <3>2. Starts(w[i + 1], w[i])
      <4>1. ~Follows(w[i + 1], w[i])
        BY <2>3, <3>1 DEF Follows
      <4> QED  BY <1>6, <2>1, <4>1
    <3>3. w[1].f <= w[i].f
      <4>1. 1 \in 1..L /\ i \in 1..L /\ (i = 1 \/ 1 < i)
        BY <1>2, <2>1
      <4> QED  BY <1>6, <1>7, <4>1
    <3>4. w[1].f # w[i + 1].f
      <4>1. w[1].f \in Nat /\ w[i].f \in Nat /\ w[i + 1].f \in Nat
        BY <1>2, <1>4, <1>7, <2>1
      <4> QED  BY <3>2, <3>3, <4>1 DEF Starts
    <3> QED  BY <1>13, <2>3, <3>4
  <2> QED  BY <1>12, <2>1, <2>2, <2>3
<1> QED  BY <1>1, <1>3, <1>8, <1>9, <1>10, <1>11, <1>14, <1>15

(* A byte that ends no frame delivers none.                                *)
LEMMA ConsumeDelivers ==
  ASSUME NEW w, IsWire(w), NEW s, IsList(s), NEW n \in Nat, NEW g, IsList(g), w # <<>>,
         WireOrder(w), WireBytes(w, s, n), Delivered(w, s, g, n), NEW x, Rest(x, w),
         IsSent(s, w[1].f) => ~Ends(w, 1)
  PROVE  Delivered(x, s, g, n)
<1>1. /\ Len(x) = Len(w) - 1 /\ \A i \in 1..Len(x) : x[i] = w[i + 1]
      /\ (x # <<>> /\ Follows(x[1], w[1])) <=> ~Ends(w, 1)
      /\ IsWire(x)
  <2>1. IsWire(x) /\ Len(x) = Len(w) - 1 /\ \A i \in 1..Len(x) : x[i] = w[i + 1]
    BY HeadTailProperties DEF Rest, IsWire
  <2>2. (x # <<>> /\ Follows(x[1], w[1])) <=> ~Ends(w, 1)
    BY Consume
  <2> QED  BY <2>1, <2>2
<1>2. Len(w) \in Nat /\ Len(x) \in Nat /\ (x # <<>> => 1 \in 1..Len(x))
  BY <1>1, LenProperties, EmptySeq DEF IsWire
<1>3. ASSUME NEW j \in 1..Len(s)
      PROVE  (\E i \in 1..Len(w) : w[i].f = s[j]) <=> \E i \in 1..Len(x) : x[i].f = s[j]
  <2>1. ASSUME NEW i \in 1..Len(w), w[i].f = s[j]
        PROVE  \E k \in 1..Len(x) : x[k].f = s[j]
    <3>1. CASE i = 1
      <4>1. IsSent(s, w[1].f)
        BY <2>1, <3>1 DEF IsSent
      <4>2. x # <<>> /\ x[1].f = w[1].f
        BY <1>1, <4>1 DEF Follows
      <4> QED  BY <1>2, <2>1, <3>1, <4>2
    <3>2. CASE i # 1
      <4>1. PICK k : k = i - 1
        OBVIOUS
      <4>2. k \in 1..Len(x) /\ i = k + 1
        BY <1>1, <1>2, <3>2, <4>1
      <4> QED  BY <1>1, <2>1, <4>2
    <3> QED  BY <3>1, <3>2
  <2>2. ASSUME NEW i \in 1..Len(x), x[i].f = s[j]
        PROVE  \E k \in 1..Len(w) : w[k].f = s[j]
    <3>1. i + 1 \in 1..Len(w)
      BY <1>1, <1>2
    <3> QED  BY <1>1, <2>2, <3>1
  <2> QED  BY <2>1, <2>2
<1> QED  BY <1>3 DEF Delivered

(* What the automaton makes of the byte k of a frame.                      *)
LEMMA MatchedIs ==
  ASSUME NEW v \in Values, NEW n, n = MatchedAfter(v), matched \in 0..3
  PROVE  /\ \A k \in 1..4 : v = Magic[k] => n = IF k = matched + 1 \/ k = 1 THEN k ELSE 0
         /\ v = "x" => n = 0
<1>1. n = IF v = Magic[matched + 1] THEN matched + 1 ELSE IF v = "B" THEN 1 ELSE 0
  BY DEF MatchedAfter
<1>2. matched + 1 \in 1..4
  OBVIOUS
<1>3. ASSUME NEW k \in 1..4, v = Magic[k]
      PROVE  n = IF k = matched + 1 \/ k = 1 THEN k ELSE 0
  <2>1. v = Magic[matched + 1] <=> k = matched + 1
    BY <1>2, <1>3, MagicLetters
  <2>2. v = "B" <=> k = 1
    BY <1>3, MagicLetters, MagicFacts
  <2> QED  BY <1>1, <2>1, <2>2
<1>4. v = "x" => n = 0
  <2>1. \A k \in {1, 2, 3, 4} : Magic[k] # "x"
    BY MagicFacts
  <2>2. matched + 1 \in {1, 2, 3, 4}
    BY <1>2
  <2> QED  BY <1>1, <2>1, <2>2
<1> QED  BY <1>3, <1>4

(* One byte of the wire w is scanned, and x remains.                       *)
LEMMA ScanFrames ==
  ASSUME NEW w, IsWire(w), NEW s, IsList(s), NEW n \in Nat, NEW g, IsList(g), w # <<>>,
         WireOrder(w), WireBytes(w, s, n), Delivered(w, s, g, n), Scanning(w, s, matched),
         matched \in 0..3, NEW x, Rest(x, w), NEW m, m = MatchedAfter(w[1].v)
  PROVE  /\ WireOrder(x) /\ WireBytes(x, s, n) /\ Delivered(x, s, g, n)
         /\ m = 4 => InFrame(x, s, <<>>, "header")
         /\ m # 4 => Scanning(x, s, m)
<1>1. PICK h, f, k : h = w[1] /\ f = h.f /\ k = h.k
  OBVIOUS
<1>2. 1 \in 1..Len(w)
  BY EmptySeq
<1>3. /\ GoodByte(h, n)
      /\ IsSent(s, f) => h.ok /\ (k \in Early => ~Ends(w, 1))
      /\ k = 1 => IsSent(s, f) \/ Broken(w, f)
  BY <1>1, <1>2 DEF WireBytes
<1>4. h \in ByteType /\ h.v \in Values
  <2>1. h \in ByteType
    BY <1>1, <1>2 DEF IsWire
  <2> QED  BY <2>1 DEF ByteType
<1>5. /\ k \in 1..7 /\ (~h.ok => k \in {3, 5, 7})
      /\ h.v = IF k <= 4 /\ h.ok THEN Magic[k] ELSE "x"
  BY <1>1, <1>3, MagicFacts DEF GoodByte
<1>6. /\ WireOrder(x) /\ WireBytes(x, s, n) /\ IsWire(x)
  BY Consume
<1>7. /\ x # <<>> => Follows(x[1], h) \/ Starts(x[1], h)
      /\ k \notin {1, 3, 7} => x # <<>> /\ Follows(x[1], h)
      /\ (x # <<>> /\ Follows(x[1], h)) <=> ~Ends(w, 1)
  <2>1. Early \cup {FrameLen} = {1, 3, 7}
    BY MagicFacts DEF Early
  <2> QED  BY <1>1, <2>1, Consume
<1>8. (Broken(w, f) /\ h.ok /\ x # <<>> /\ Follows(x[1], h)) => Broken(x, f)
  BY <1>1, Consume
<1>9. k > 1 =>
        /\ IsSent(s, f) => k <= 4 /\ matched = k - 1
        /\ k > 4 => matched = 0
        /\ (~IsSent(s, f) /\ k <= 4) => matched # k - 1 \/ Broken(w, f)
  BY <1>1 DEF Scanning
<1>10. Delivered(x, s, g, n)
  <2>1. IsSent(s, f) => ~Ends(w, 1)
    <3>1. IsSent(s, f) => k # 7
      BY <1>9
    <3> QED  BY <1>3, <1>7, <3>1 DEF Early
  <2> QED  BY <1>1, <2>1, ConsumeDelivers
<1>11. CASE h.ok /\ k <= 4
  <2>1. m = IF k = matched + 1 \/ k = 1 THEN k ELSE 0
    <3>1. k \in 1..4 /\ h.v = Magic[k]
      BY <1>5, <1>11
    <3> QED  BY <1>1, <1>4, <3>1, MatchedIs
  <2>2. IsSent(s, f) => m = k
    BY <1>5, <1>9, <2>1
  <2>3. (~IsSent(s, f) /\ m = k) => Broken(w, f)
    <3>1. m = k => k = 1 \/ matched = k - 1
      BY <1>5, <2>1
    <3> QED  BY <1>3, <1>5, <1>9, <1>11, <3>1
  <2>4. m = 4 => InFrame(x, s, <<>>, "header")
    <3> SUFFICES ASSUME m = 4 PROVE InFrame(x, s, <<>>, "header")
      OBVIOUS
    <3>1. k = 4
      BY <1>5, <2>1
    <3>2. x # <<>> /\ x[1].f = f /\ x[1].k = 5
      BY <1>1, <1>7, <3>1 DEF Follows
    <3>3. ~IsSent(s, f) => Broken(x, f)
      BY <1>7, <1>8, <1>11, <2>3, <3>1
    <3>4. Len(<<>>) = 0 /\ 1..0 = {}
      BY EmptySeq
    <3> QED  BY <3>2, <3>3, <3>4 DEF InFrame
  <2>5. m # 4 => Scanning(x, s, m)
    <3> SUFFICES ASSUME m # 4, x # <<>>, x[1].k > 1 PROVE Scanning(x, s, m)
      BY DEF Scanning
    <3>1. Follows(x[1], h)
      BY <1>7 DEF Starts
    <3>2. x[1].f = f /\ x[1].k = k + 1
      BY <1>1, <3>1 DEF Follows
    <3>3. Broken(w, f) => Broken(x, f)
      BY <1>8, <1>11, <3>1
    <3>4. k + 1 > 4 => m = 0 /\ k = 4
      BY <1>5, <1>11, <2>1
    <3>5. IsSent(s, f) => k + 1 <= 4
      BY <1>5, <2>2, <3>4
    <3>6. m = k + 1 - 1 => m = k
      BY <1>5
    <3>7. IsSent(s, f) => m = k + 1 - 1
      BY <1>5, <2>2
    <3>8. IsSent(s, f) => k + 1 <= 4 /\ m = k + 1 - 1
      BY <3>5, <3>7
    <3>9. ~IsSent(s, f) => m # k + 1 - 1 \/ Broken(x, f)
      BY <2>3, <3>3, <3>6
    <3>10. k + 1 > 4 => m = 0
      BY <3>4
    <3>11. PICK q : q = k + 1
      OBVIOUS
    <3>12. x[1].f = f /\ x[1].k = q
      BY <3>2, <3>11
    <3>13. IsSent(s, f) => q <= 4 /\ m = q - 1
      BY <1>5, <3>8, <3>11
    <3>14. q > 4 => m = 0
      BY <3>10, <3>11
    <3>15. (~IsSent(s, f) /\ q <= 4) => m # q - 1 \/ Broken(x, f)
      BY <1>5, <3>9, <3>11
    <3> QED  BY Zenon, <3>12, <3>13, <3>14, <3>15, ScanningIs
  <2> QED  BY <1>6, <1>10, <2>4, <2>5
<1>12. CASE ~(h.ok /\ k <= 4)
  <2>1. m = 0
    BY <1>1, <1>4, <1>5, <1>12, MatchedIs
  <2>2. ~IsSent(s, f)
    <3>1. k > 4 => k > 1 /\ ~(k <= 4)
      BY <1>5
    <3> QED  BY <1>3, <1>5, <1>9, <1>12, <3>1
  <2>3. Scanning(x, s, m)
    <3> SUFFICES ASSUME x # <<>>, x[1].k > 1
                 PROVE  /\ ~IsSent(s, x[1].f)
                        /\ x[1].k <= 4 => m # x[1].k - 1
      BY <2>1 DEF Scanning
    <3>1. Follows(x[1], h)
      BY <1>7 DEF Starts
    <3>2. x[1].f = f /\ x[1].k = k + 1
      BY <1>1, <3>1 DEF Follows
    <3> QED  BY <1>5, <2>1, <2>2, <3>2
  <2> QED  BY <1>6, <1>10, <2>1, <2>3
<1> QED  BY <1>11, <1>12

(* A byte behind the magic is read: b was read before it, c is with it.    *)
AtByte(w, s, n, b, l, place1, c) ==
  /\ IsWire(w) /\ IsWire(b) /\ HasLen(b, l) /\ l \in 0..2
  /\ WireBytes(w, s, n) /\ InFrame(w, s, b, place1) /\ Joined(c, b, w[1])
LEMMA ReadFacts ==
  ASSUME NEW w, NEW s, NEW n, NEW b, NEW l, NEW place1, NEW c, AtByte(w, s, n, b, l, place1, c)
  PROVE  /\ HasLen(c, l + 1) /\ w[1].k = 5 + l /\ w # <<>>
         /\ \A j \in 1..(l + 1) : c[j].f = w[1].f /\ c[j].k = 4 + j
         /\ IsSent(s, w[1].f) => Intact(c)
         /\ (Intact(c) /\ ~IsSent(s, w[1].f)) => Broken(w, w[1].f)
         /\ Intact(c) <=> \A j \in 1..(l + 1) : c[j].ok
         /\ w[1].ok \/ ~c[l + 1].ok
<1>1. PICK h, f : h = w[1] /\ f = h.f
  OBVIOUS
<1> IsWire(w) /\ IsWire(b) /\ HasLen(b, l) /\ l \in 0..2 /\ WireBytes(w, s, n)
    /\ InFrame(w, s, b, place1) /\ Joined(c, b, w[1])
  BY DEF AtByte
<1>2. /\ w # <<>> /\ h.k = 5 + l
      /\ \A j \in 1..l : b[j].f = f /\ b[j].k = 4 + j
      /\ IsSent(s, f) => \A j \in 1..l : b[j].ok
      /\ ~IsSent(s, f) => Broken(w, f) \/ \E j \in 1..l : ~b[j].ok
  BY <1>1 DEF InFrame, HasLen
<1>3. 1 \in 1..Len(w)
  BY <1>2, EmptySeq DEF IsWire
<1>4. h \in ByteType /\ (IsSent(s, f) => h.ok)
  <2>1. h \in ByteType
    BY <1>1, <1>3 DEF IsWire
  <2>2. IsSent(s, f) => h.ok
    BY <1>1, <1>3 DEF WireBytes
  <2> QED  BY <2>1, <2>2
<1>5. /\ HasLen(c, l + 1) /\ c[l + 1] = h
      /\ \A j \in 1..l : c[j] = b[j]
  BY <1>1, <1>4, AppendProperties DEF IsWire, HasLen, Joined
<1>6. 1..(l + 1) = (1..l) \cup {l + 1} /\ 1 \in 1..(l + 1)
  OBVIOUS
<1>7. \A j \in 1..(l + 1) : c[j].f = f /\ c[j].k = 4 + j
  <2>1. c[l + 1].f = f /\ c[l + 1].k = 4 + (l + 1)
    BY <1>1, <1>2, <1>5
  <2>2. \A j \in 1..l : c[j].f = f /\ c[j].k = 4 + j
    BY <1>2, <1>5
  <2> QED  BY <1>6, <2>1, <2>2
<1>8. Intact(c) <=> \A j \in 1..(l + 1) : c[j].ok
  BY <1>5, <1>6, <1>7 DEF Intact, HasLen
<1>9. (\A j \in 1..(l + 1) : c[j].ok) <=> (h.ok /\ \A j \in 1..l : b[j].ok)
  BY <1>5, <1>6
<1>10. h.ok \/ ~c[l + 1].ok
  BY <1>5
<1>11. IsSent(s, f) => Intact(c)
  BY <1>2, <1>4, <1>8, <1>9
<1>12. (Intact(c) /\ ~IsSent(s, f)) => Broken(w, f)
  BY <1>2, <1>8, <1>9
<1> QED  BY <1>1, <1>2, <1>5, <1>7, <1>8, <1>10, <1>11, <1>12

(* It is not the last one.                                                 *)
LEMMA ReadOn ==
  ASSUME NEW w, IsWire(w), NEW s, IsList(s), NEW n \in Nat, NEW g, IsList(g),
         NEW b, IsWire(b), NEW l \in 0..1, HasLen(b, l), NEW place1 \in {"header", "body"},
         WireOrder(w), WireBytes(w, s, n), Delivered(w, s, g, n), InFrame(w, s, b, place1),
         NEW x, Rest(x, w), NEW c, Joined(c, b, w[1])
  PROVE  /\ Delivered(x, s, g, n)
         /\ l = 0 => InFrame(x, s, c, "header")
         /\ (l = 1 /\ Intact(c)) => InFrame(x, s, c, "body")
         /\ (l = 1 /\ ~Intact(c)) => Scanning(x, s, 0)
<1>1. PICK h, f : h = w[1] /\ f = h.f
  OBVIOUS
<1>2. /\ HasLen(c, l + 1) /\ h.k = 5 + l /\ w # <<>>
      /\ \A j \in 1..(l + 1) : c[j].f = f /\ c[j].k = 4 + j
      /\ IsSent(s, f) => Intact(c)
      /\ (Intact(c) /\ ~IsSent(s, f)) => Broken(w, f)
      /\ Intact(c) <=> \A j \in 1..(l + 1) : c[j].ok
      /\ h.ok \/ ~c[l + 1].ok
  <2>1. AtByte(w, s, n, b, l, place1, c)
    BY DEF AtByte
  <2>2. HasLen(c, l + 1) /\ w[1].k = 5 + l
    BY <2>1, ReadFacts
  <2>3. w # <<>> /\ (w[1].ok \/ ~c[l + 1].ok)
    BY <2>1, ReadFacts
  <2>4. \A j \in 1..(l + 1) : c[j].f = w[1].f /\ c[j].k = 4 + j
    BY <2>1, ReadFacts
  <2>5. (IsSent(s, w[1].f) => Intact(c)) /\ ((Intact(c) /\ ~IsSent(s, w[1].f)) => Broken(w, w[1].f))
    BY <2>1, ReadFacts
  <2>6. Intact(c) <=> \A j \in 1..(l + 1) : c[j].ok
    BY <2>1, ReadFacts
  <2> QED  BY <1>1, <2>2, <2>4, <2>5, <2>6, <2>3
<1>3. h.k \notin Early \cup {FrameLen} /\ h.k \notin Early
  <2>1. h.k = 5 + l
    BY <1>2
  <2>2. h.k \notin {1, 3, 7}
    BY <2>1
  <2> QED  BY <2>2, Seven
<1>4. /\ x # <<>> /\ Follows(x[1], h) /\ ~Ends(w, 1)
      /\ (Broken(w, f) /\ h.ok) => Broken(x, f)
  <2>1. h.k \notin Early \cup {FrameLen} => x # <<>> /\ Follows(x[1], h)
    BY <1>1, <1>2, Consume
  <2>2. (x # <<>> /\ Follows(x[1], h)) <=> ~Ends(w, 1)
    BY <1>1, <1>2, Consume
  <2>3. (Broken(w, f) /\ h.ok /\ (h.k \in Early => x # <<>> /\ Follows(x[1], h))) => Broken(x, f)
    BY <1>1, <1>2, Consume
  <2> QED  BY <1>3, <2>1, <2>2, <2>3
<1>5. x[1].f = f /\ x[1].k = 6 + l
  BY <1>1, <1>2, <1>4 DEF Follows
<1>6. Delivered(x, s, g, n)
  BY <1>2, <1>4, ConsumeDelivers
<1>7. l + 1 \in 1..(l + 1)
  OBVIOUS
<1>8. /\ IsSent(s, f) => \A j \in 1..(l + 1) : c[j].ok
      /\ ~IsSent(s, f) => Broken(x, f) \/ \E j \in 1..(l + 1) : ~c[j].ok
  <2>1. ASSUME ~IsSent(s, f), \A j \in 1..(l + 1) : c[j].ok
        PROVE  Broken(x, f)
    <3>1. h.ok
      BY <1>2, <1>7, <2>1
    <3>2. Broken(w, f)
      BY <1>2, <2>1
    <3> QED  BY <1>4, <3>1, <3>2
  <2>2. IsSent(s, f) => \A j \in 1..(l + 1) : c[j].ok
    BY <1>2
  <2> QED  BY <2>1, <2>2
<1>9. Len(c) = l + 1
  BY <1>2 DEF HasLen
<1>10. x # <<>> /\ x[1].k = 5 + Len(c)
  BY <1>4, <1>5, <1>9
<1>11. /\ \A j \in 1..Len(c) : c[j].f = x[1].f /\ c[j].k = 4 + j
       /\ IsSent(s, x[1].f) => \A j \in 1..Len(c) : c[j].ok
       /\ ~IsSent(s, x[1].f) => Broken(x, x[1].f) \/ \E j \in 1..Len(c) : ~c[j].ok
  BY <1>2, <1>5, <1>8, <1>9
<1>12. l = 0 => InFrame(x, s, c, "header")
  <2>1. l = 0 => Len(c) # 2
    BY <1>9
  <2> QED  BY <1>10, <1>11, <2>1 DEF InFrame
<1>13. (l = 1 /\ Intact(c)) => InFrame(x, s, c, "body")
  <2>1. l = 1 => Len(c) = 2
    BY <1>9
  <2>2. Intact(c) => \A j \in 1..Len(c) : c[j].ok
    BY <1>2, <1>9
  <2> QED  BY <1>10, <1>11, <2>1, <2>2 DEF InFrame
<1>14. (l = 1 /\ ~Intact(c)) => Scanning(x, s, 0)
  <2> SUFFICES ASSUME l = 1, ~Intact(c) PROVE Scanning(x, s, 0)
    OBVIOUS
  <2>1. ~IsSent(s, f)
    BY <1>2
  <2>2. x[1].k = 7
    BY <1>5
  <2> QED  BY <1>5, <2>1, <2>2, ScanningIs
<1> QED  BY <1>6, <1>12, <1>13, <1>14

(* It is the last one: the frame is delivered if it was written whole.     *)
LEMMA ReadLast ==
  ASSUME NEW w, IsWire(w), NEW s, IsList(s), NEW n \in Nat, NEW g, IsList(g),
         NEW b, IsWire(b), HasLen(b, 2), NEW place1 \in {"header", "body"},
         WireOrder(w), WireBytes(w, s, n), Delivered(w, s, g, n), InFrame(w, s, b, place1),
         NEW x, Rest(x, w), NEW c, Joined(c, b, w[1])
  PROVE  /\ Scanning(x, s, 0)
         /\ ~Intact(c) => Delivered(x, s, g, n)
         /\ Intact(c) => Delivered(x, s, Append(g, w[1].f), n)
<1>1. PICK h, f : h = w[1] /\ f = h.f
  OBVIOUS
<1>2. /\ h.k = 7 /\ w # <<>>
      /\ IsSent(s, f) => Intact(c)
      /\ (Intact(c) /\ ~IsSent(s, f)) => Broken(w, f)
      /\ Intact(c) => h.ok
  <2>1. PICK l \in 0..2 : l = 2
    OBVIOUS
  <2>2. AtByte(w, s, n, b, l, place1, c)
    BY <2>1 DEF AtByte
  <2>3. w[1].k = 5 + l /\ w # <<>>
    BY <2>2, ReadFacts
  <2>4. w[1].ok \/ ~c[l + 1].ok
    BY <2>2, ReadFacts
  <2>5. (IsSent(s, w[1].f) => Intact(c)) /\ ((Intact(c) /\ ~IsSent(s, w[1].f)) => Broken(w, w[1].f))
    BY <2>2, ReadFacts
  <2>6. Intact(c) <=> \A j \in 1..(l + 1) : c[j].ok
    BY <2>2, ReadFacts
  <2>7. l + 1 \in 1..(l + 1)
    OBVIOUS
  <2> QED  BY <1>1, <2>1, <2>3, <2>5, <2>6, <2>7, <2>4
<1>3. w # <<>> /\ h.k = 7 /\ 1 \in 1..Len(w)
  BY <1>2, EmptySeq DEF IsWire
<1>4. /\ x # <<>> => Follows(x[1], h) \/ Starts(x[1], h)
      /\ WireOrder(x) /\ WireBytes(x, s, n)
      /\ IsWire(x) /\ Len(x) = Len(w) - 1 /\ \A i \in 1..Len(x) : x[i] = w[i + 1]
  <2>1. x # <<>> => Follows(x[1], h) \/ Starts(x[1], h)
    BY <1>1, <1>3, Consume
  <2>2. WireOrder(x) /\ WireBytes(x, s, n)
    BY <1>3, Consume
  <2> QED  BY <1>3, <2>1, <2>2, HeadTailProperties DEF Rest, IsWire
<1>5. x # <<>> => 1 \in 1..Len(x)
  BY <1>4, EmptySeq
<1>6. x # <<>> => Starts(x[1], h)
  <2>1. x # <<>> => x[1].k \in 1..7
    <3>1. x # <<>> => GoodByte(x[1], n)
      BY <1>4, <1>5 DEF WireBytes
    <3> QED  BY <3>1, MagicFacts DEF GoodByte
  <2>2. x # <<>> => x[1].k # 8
    BY <2>1
  <2>3. Follows(x[1], h) => x[1].k = 8
    BY <1>3 DEF Follows
  <2> QED  BY <1>4, <2>2, <2>3
<1>7. Scanning(x, s, 0)
  BY <1>6 DEF Starts, Scanning
<1>8. \A i \in 1..Len(w) : w[i].f \in Nat
  <2>1. \A i \in 1..Len(w) : w[i] \in ByteType
    BY DEF IsWire
  <2> QED  BY <2>1 DEF ByteType
<1>9. \A i \in 1..Len(w) : i # 1 => w[i].f > f
  <2> SUFFICES ASSUME NEW i \in 1..Len(w), i # 1 PROVE w[i].f > f
    OBVIOUS
  <2>1. Len(w) \in Nat
    BY LenProperties
  <2>2. 2 \in 1..Len(w) /\ (i = 2 \/ 2 < i) /\ 1 \in 1..Len(x)
    BY <1>4, <2>1
  <2>3. x[1] = w[2] /\ Starts(x[1], h)
    <3>1. x # <<>>
      BY <2>2, EmptySeq
    <3>2. x[1] = w[1 + 1]
      BY <1>4, <2>2
    <3> QED  BY <1>6, <3>1, <3>2
  <2>4. w[2].f <= w[i].f
    <3>1. \A p, q \in 1..Len(w) : p < q => w[p].f <= w[q].f
      BY DEF WireOrder
    <3>2. w[2].f \in Nat
      BY <1>8, <2>2
    <3>3. i = 2 => w[2].f <= w[i].f
      BY <3>2
    <3>4. 2 < i => w[2].f <= w[i].f
      BY <2>2, <3>1
    <3> QED  BY <2>2, <3>3, <3>4
  <2>5. w[1].f \in Nat /\ w[2].f \in Nat /\ w[i].f \in Nat
    BY <1>3, <1>8, <2>2
  <2>6. w[2].f > f
    BY <1>1, <2>3 DEF Starts
  <2> QED  BY <1>1, <2>4, <2>5, <2>6
<1>10. ~Intact(c) => Delivered(x, s, g, n)
  BY <1>1, <1>2, <1>3, ConsumeDelivers
<1>11. ASSUME Intact(c)
       PROVE  Delivered(x, s, Append(g, f), n)
  <2>1. IsSent(s, f)
    <3> SUFFICES ASSUME ~IsSent(s, f) PROVE FALSE
      OBVIOUS
    <3>1. PICK i \in 1..Len(w) : w[i].f = f /\ (~w[i].ok \/ (w[i].k \in Early /\ Ends(w, i)))
      BY <1>2, <1>11 DEF Broken
    <3>2. i = 1
      <4>1. i # 1 => w[i].f > f /\ w[i].f \in Nat
        BY <1>8, <1>9
      <4> QED  BY <3>1, <4>1
    <3>3. h.ok /\ h.k \notin Early
      BY <1>2, <1>11 DEF Early
    <3> QED  BY <1>1, <3>1, <3>2, <3>3
  <2>2. PICK j \in 1..Len(s) : s[j] = f
    BY <2>1 DEF IsSent
  <2>3. PICK m : m = Len(g)
    OBVIOUS
  <2>4. /\ \A i, l \in 1..Len(s) : i < l => s[i] < s[l]
        /\ m <= Len(s) /\ (\A i \in 1..m : g[i] = s[i]) /\ m \in Nat /\ Len(s) \in Nat
        /\ \A l \in 1..Len(s) : l > m <=> \E i \in 1..Len(w) : w[i].f = s[l]
        /\ \A l \in 1..Len(s) : s[l] \in 1..n
    BY <2>3, LenProperties DEF Delivered
  <2>5. j > m
    BY <1>1, <1>3, <2>2, <2>4
  <2>6. m + 1 \in 1..Len(s)
    BY <2>4, <2>5
  <2>7. j = m + 1
    <3> SUFFICES ASSUME j # m + 1 PROVE FALSE
      OBVIOUS
    <3>1. m + 1 < j
      BY <2>4, <2>5
    <3>2. s[m + 1] < f
      BY <2>2, <2>4, <2>6, <3>1
    <3>3. PICK i \in 1..Len(w) : w[i].f = s[m + 1]
      <4>1. m + 1 > m
        BY <2>4
      <4>2. \A l \in 1..Len(s) : l > m => \E i \in 1..Len(w) : w[i].f = s[l]
        BY <2>4
      <4> QED  BY <2>6, <4>1, <4>2
    <3>4. f \in Nat /\ w[i].f \in Nat /\ (i = 1 => w[i].f = f) /\ (i # 1 => w[i].f > f)
      BY <1>1, <1>3, <1>8, <1>9
    <3> QED  BY <3>2, <3>3, <3>4
  <2>8. PICK e : e = Append(g, f)
    OBVIOUS
  <2>9. /\ Len(e) = m + 1 /\ e[m + 1] = f /\ \A i \in 1..m : e[i] = g[i]
    <3>1. f \in Nat
      BY <1>1, <1>3, <1>8
    <3> QED  BY <2>3, <2>8, <3>1, AppendProperties
  <2>10. \A i \in 1..Len(e) : e[i] = s[i]
    <3> SUFFICES ASSUME NEW i \in 1..Len(e) PROVE e[i] = s[i]
      OBVIOUS
    <3>1. i \in 1..m \/ i = m + 1
      BY <2>4, <2>9
    <3>2. i \in 1..m => e[i] = g[i] /\ g[i] = s[i]
      BY <2>4, <2>9
    <3>3. e[m + 1] = s[m + 1]
      BY <2>2, <2>7, <2>9
    <3> QED  BY <3>1, <3>2, <3>3
  <2>11. ASSUME NEW l \in 1..Len(s)
         PROVE  l > m + 1 <=> \E i \in 1..Len(x) : x[i].f = s[l]
    <3>1. ASSUME l > m + 1
          PROVE  \E i \in 1..Len(x) : x[i].f = s[l]
      <4>1. PICK i \in 1..Len(w) : w[i].f = s[l]
        <5>1. l > m
          BY <2>4, <3>1
        <5> QED  BY <2>4, <5>1
      <4>2. s[m + 1] < s[l] /\ s[l] \in Nat /\ s[m + 1] \in Nat
        <5>1. s[m + 1] < s[l]
          BY <2>4, <2>6, <3>1
        <5>2. ASSUME NEW q \in 1..Len(s) PROVE s[q] \in Nat
          <6>1. s[q] \in 1..n
            BY <2>4
          <6> QED  BY <6>1
        <5> QED  BY <2>6, <5>1, <5>2
      <4>3. i # 1
        BY <1>1, <2>2, <2>7, <4>1, <4>2
      <4>4. PICK q : q = i - 1
        OBVIOUS
      <4>5. q \in 1..Len(x) /\ q + 1 = i
        BY <1>4, <4>3, <4>4
      <4> QED  BY <1>4, <4>1, <4>5
    <3>2. ASSUME NEW i \in 1..Len(x), x[i].f = s[l]
          PROVE  l > m + 1
      <4>1. i + 1 \in 1..Len(w) /\ i + 1 # 1 /\ x[i] = w[i + 1]
        BY <1>4
      <4>2. w[i + 1].f > f /\ w[i + 1].f = s[l] /\ f \in Nat /\ w[i + 1].f \in Nat
        BY <1>1, <1>3, <1>8, <1>9, <3>2, <4>1
      <4>3. l > m
        BY <2>4, <4>1, <4>2
      <4>4. l # m + 1
        BY <2>2, <2>7, <4>2
      <4> QED  BY <2>4, <4>3, <4>4
    <3> QED  BY <3>1, <3>2
  <2>12. Delivered(x, s, e, n)
    <3>1. Len(e) = m + 1 /\ Len(e) <= Len(s)
      BY <2>4, <2>6, <2>9
    <3>2. \A l \in 1..Len(s) : l > Len(e) <=> \E i \in 1..Len(x) : x[i].f = s[l]
      BY <2>11, <3>1
    <3> QED  BY <2>4, <2>10, <3>1, <3>2 DEF Delivered
  <2> QED  BY <2>8, <2>12
<1> QED  BY <1>1, <1>7, <1>10, <1>11

(* What a write adds to the wire w: x begins with w and goes on with the   *)
(* first cut bytes of the frame f.                                         *)
Grown(x, w, f, cut, damage) ==
  /\ IsWire(x) /\ Len(x) = Len(w) + cut
  /\ \A i \in 1..Len(w) : x[i] = w[i]
  /\ \A k \in 1..cut : /\ x[Len(w) + k].f = f /\ x[Len(w) + k].k = k
                       /\ x[Len(w) + k].ok <=> k # damage
                       /\ x[Len(w) + k].v = IF k <= 4 /\ k # damage THEN Magic[k] ELSE "x"

LEMMA WriteGrows ==
  ASSUME NEW w, IsWire(w), NEW f \in Nat, NEW kind \in Kinds, NEW cut \in 1..FrameLen,
         NEW damage \in 0..FrameLen, NEW x, x = w \o Bytes(f, kind, cut, damage)
  PROVE  Grown(x, w, f, cut, damage)
<1>1. PICK b \in Seq(ByteType) : b = Bytes(f, kind, cut, damage)
  BY BytesType
<1>2. cut \in Nat \ {0}
  BY Seven
<1>3. Len(b) = cut
  BY <1>1, <1>2 DEF Bytes
<1>4. ASSUME NEW k \in 1..cut
      PROVE  b[k] = [v |-> IF k <= 4 /\ k # damage THEN Magic[k] ELSE "x",
                     f |-> f, k |-> k, ok |-> k # damage, kind |-> kind]
  BY <1>1 DEF Bytes
<1>5. /\ IsWire(x) /\ Len(x) = Len(w) + cut
      /\ \A i \in 1..Len(w) : x[i] = w[i]
      /\ \A k \in 1..cut : x[Len(w) + k] = b[k]
  <2>1. x \in Seq(ByteType) /\ Len(x) = Len(w) + Len(b)
    BY <1>1, ConcatProperties DEF IsWire
  <2>2. Len(w) \in Nat
    BY LenProperties DEF IsWire
  <2>3. \A i \in 1..(Len(w) + Len(b)) : x[i] = IF i <= Len(w) THEN w[i] ELSE b[i - Len(w)]
    BY <1>1, ConcatProperties DEF IsWire
  <2>4. ASSUME NEW i \in 1..Len(w) PROVE x[i] = w[i]
    <3>1. i \in 1..(Len(w) + Len(b)) /\ i <= Len(w)
      BY <1>2, <1>3, <2>2
    <3> QED  BY <2>3, <3>1
  <2>5. ASSUME NEW k \in 1..cut PROVE x[Len(w) + k] = b[k]
    <3>1. PICK i : i = Len(w) + k
      OBVIOUS
    <3>2. i \in 1..(Len(w) + Len(b)) /\ ~(i <= Len(w)) /\ i - Len(w) = k
      BY <1>2, <1>3, <2>2, <3>1
    <3>3. x[i] = b[i - Len(w)]
      BY <2>3, <3>2
    <3> QED  BY <3>1, <3>2, <3>3
  <2> QED  BY <1>3, <2>1, <2>4, <2>5 DEF IsWire
<1>6. ASSUME NEW k \in 1..cut
      PROVE  /\ x[Len(w) + k].f = f /\ x[Len(w) + k].k = k
             /\ x[Len(w) + k].ok <=> k # damage
             /\ x[Len(w) + k].v = IF k <= 4 /\ k # damage THEN Magic[k] ELSE "x"
  <2>1. PICK c : c = x[Len(w) + k]
    OBVIOUS
  <2>2. c = [v |-> IF k <= 4 /\ k # damage THEN Magic[k] ELSE "x",
             f |-> f, k |-> k, ok |-> k # damage, kind |-> kind]
    BY Zenon, <1>4, <1>5, <2>1
  <2>3. c.f = f /\ c.k = k /\ c.v = IF k <= 4 /\ k # damage THEN Magic[k] ELSE "x"
    BY <2>2
  <2>4. c.ok = (k # damage)
    BY Zenon, <2>2
  <2>5. c.ok <=> k # damage
    BY Zenon, <2>4
  <2> QED  BY <2>1, <2>3, <2>5
<1> QED  BY <1>5, <1>6 DEF Grown

(* The frames that were written whole, and f if it is one of them.         *)
Listed(t, s, f, whole) == t = IF whole THEN Append(s, f) ELSE s

LEMMA ListGrows ==
  ASSUME NEW s, IsList(s), NEW f \in Nat, NEW whole \in BOOLEAN, NEW t, Listed(t, s, f, whole)
  PROVE  /\ Len(s) \in Nat /\ Len(t) = IF whole THEN Len(s) + 1 ELSE Len(s)
         /\ \A j \in 1..Len(s) : t[j] = s[j]
         /\ whole => t[Len(s) + 1] = f
<1>1. Len(s) \in Nat
  BY LenProperties DEF IsList
<1>2. CASE whole
  <2>1. t = Append(s, f)
    BY <1>2 DEF Listed
  <2>2. Len(t) = Len(s) + 1 /\ t[Len(s) + 1] = f /\ \A j \in 1..Len(s) : t[j] = s[j]
    BY <2>1, AppendProperties DEF IsList
  <2> QED  BY <1>1, <1>2, <2>2
<1>3. CASE ~whole
  <2>1. t = s
    BY <1>3 DEF Listed
  <2> QED  BY <1>1, <1>3, <2>1
<1> QED  BY <1>2, <1>3

(* What holds of the bytes that were read holds with more to come.         *)
Keeps(w, s, x, t) ==
  /\ \A b, p : InFrame(w, s, b, p) => InFrame(x, t, b, p)
  /\ \A m : Scanning(w, s, m) => Scanning(x, t, m)

(* A frame is written, whole, damaged or cut within its magic.             *)
LEMMA WriteFrames ==
  ASSUME NEW w, IsWire(w), NEW s, IsList(s), NEW n \in Nat, NEW g, IsList(g),
         WireOrder(w), WireBytes(w, s, n), Delivered(w, s, g, n),
         NEW cut \in {1, 3, 7}, NEW damage \in {0, 3, 5, 7}, cut # 7 => damage = 0,
         NEW x, Grown(x, w, n + 1, cut, damage),
         NEW t, Listed(t, s, n + 1, cut = 7 /\ damage = 0)
  PROVE  /\ WireOrder(x) /\ WireBytes(x, t, n + 1) /\ Delivered(x, t, g, n + 1)
         /\ Keeps(w, s, x, t)
<1>1. PICK N : N = Len(w)
  OBVIOUS
<1>2. PICK new : new = n + 1
  OBVIOUS
<1>3. PICK whole \in BOOLEAN : whole <=> cut = 7 /\ damage = 0
  <2>1. (cut = 7 /\ damage = 0) \in BOOLEAN
    OBVIOUS
  <2> QED  BY <2>1
<1>4. N \in Nat /\ new \in Nat /\ new > n
  BY <1>1, <1>2, LenProperties DEF IsWire
<1>5. \A f \in 1..n : f < new /\ f <= new
  BY <1>4
<1>6. /\ IsWire(x) /\ Len(x) = N + cut
      /\ \A i \in 1..N : x[i] = w[i]
  BY <1>1 DEF Grown
<1>7. \A k \in 1..cut : /\ x[N + k].f = new /\ x[N + k].k = k
                        /\ x[N + k].ok <=> k # damage
                        /\ x[N + k].v = IF k <= 4 /\ k # damage THEN Magic[k] ELSE "x"
  BY <1>1, <1>2 DEF Grown
<1>8. /\ \A i \in 1..(N - 1) : Follows(w[i + 1], w[i]) \/ Starts(w[i + 1], w[i])
      /\ \A i, j \in 1..N : i < j => w[i].f <= w[j].f
      /\ w # <<>> => w[N].k \in Early \cup {FrameLen}
  BY <1>1 DEF WireOrder
<1>9. \A i \in 1..N : w[i].f \in 1..n
  BY <1>1 DEF WireBytes, GoodByte
<1>10. \A i \in 1..Len(x) : i \in 1..N \/ \E k \in 1..cut : i = N + k
  <2> SUFFICES ASSUME NEW i \in 1..(N + cut), ~(i \in 1..N)
               PROVE  \E k \in 1..cut : i = N + k
    BY <1>6
  <2>1. i - N \in 1..cut /\ i = N + (i - N)
    BY <1>4
  <2> QED  BY <2>1
<1>11. /\ Len(s) \in Nat /\ Len(t) = IF whole THEN Len(s) + 1 ELSE Len(s)
       /\ \A j \in 1..Len(s) : t[j] = s[j]
       /\ whole => t[Len(s) + 1] = new
  <2>1. Listed(t, s, new, whole)
    BY <1>2, <1>3 DEF Listed
  <2> QED  BY <1>4, <2>1, ListGrows
<1>12. \A j \in 1..Len(s) : s[j] \in 1..n
  BY DEF Delivered
<1>13. ASSUME NEW f \in 1..n PROVE IsSent(t, f) <=> IsSent(s, f)
  <2>1. ASSUME NEW j \in 1..Len(t), t[j] = f PROVE \E i \in 1..Len(s) : s[i] = f
    <3>1. j \in 1..Len(s) \/ (whole /\ j = Len(s) + 1)
      BY <1>11
    <3>2. f # new
      BY <1>2
    <3> QED  BY <1>11, <2>1, <3>1, <3>2
  <2>2. ASSUME NEW j \in 1..Len(s), s[j] = f PROVE \E i \in 1..Len(t) : t[i] = f
    <3>1. j \in 1..Len(t)
      BY <1>11
    <3> QED  BY <1>11, <2>2, <3>1
  <2> QED  BY <2>1, <2>2 DEF IsSent
<1>14. IsSent(t, new) <=> whole
  <2>1. ASSUME whole PROVE \E j \in 1..Len(t) : t[j] = new
    <3>1. Len(s) + 1 \in 1..Len(t)
      BY <1>11, <2>1
    <3> QED  BY <1>11, <2>1, <3>1
  <2>2. ASSUME ~whole, NEW j \in 1..Len(t), t[j] = new PROVE FALSE
    <3>1. j \in 1..Len(s) /\ t[j] = s[j]
      BY <1>11, <2>2
    <3>2. s[j] \in 1..n
      BY <1>12, <3>1
    <3> QED  BY <1>4, <2>2, <3>1, <3>2
  <2> QED  BY <2>1, <2>2 DEF IsSent
<1>15. ASSUME NEW i \in 1..N PROVE Ends(x, i) <=> Ends(w, i)
  <2>1. CASE i = N
    <3>1. 1 \in 1..cut /\ N + 1 = i + 1
      BY <2>1
    <3>2. x[i + 1].f = new
      BY <1>7, <2>1, <3>1
    <3>3. x[i].f \in 1..n
      BY <1>6, <1>9
    <3>4. x[i + 1].f # x[i].f
      BY <1>4, <3>2, <3>3
    <3> QED  BY <1>1, <2>1, <3>4 DEF Ends
  <2>2. CASE i # N
    <3>1. i + 1 \in 1..N /\ i # Len(x)
      BY <1>4, <1>6, <2>2
    <3>2. x[i] = w[i] /\ x[i + 1] = w[i + 1]
      BY <1>6, <3>1
    <3> QED  BY <1>1, <2>2, <3>1, <3>2 DEF Ends
  <2> QED  BY <2>1, <2>2
<1>16. ASSUME NEW k \in 1..cut PROVE Ends(x, N + k) <=> k = cut
  <2>1. CASE k = cut
    BY <1>6, <2>1 DEF Ends
  <2>2. CASE k # cut
    <3>1. k + 1 \in 1..cut /\ N + k + 1 = N + (k + 1) /\ N + k # N + cut
      BY <1>4, <2>2
    <3>2. x[N + k + 1].f = new /\ x[N + k].f = new
      BY <1>7, <3>1
    <3> QED  BY <1>6, <2>2, <3>1, <3>2 DEF Ends
  <2> QED  BY <2>1, <2>2
<1>17. ASSUME NEW f, Broken(w, f) PROVE Broken(x, f)
  <2>1. PICK i \in 1..N : w[i].f = f /\ (~w[i].ok \/ (w[i].k \in Early /\ Ends(w, i)))
    BY <1>1, <1>17 DEF Broken
  <2>2. i \in 1..Len(x) /\ x[i] = w[i] /\ (Ends(x, i) <=> Ends(w, i))
    BY <1>4, <1>6, <1>15
  <2> QED  BY <2>1, <2>2 DEF Broken
<1>18. ~whole => Broken(x, new)
  <2> SUFFICES ASSUME ~whole PROVE Broken(x, new)
    OBVIOUS
  <2>1. CASE cut # 7
    <3>1. cut \in 1..cut /\ N + cut \in 1..Len(x) /\ cut \in Early
      BY <1>4, <1>6, <2>1 DEF Early
    <3>2. x[N + cut].f = new /\ x[N + cut].k = cut
      BY <1>7, <3>1
    <3>3. Ends(x, N + cut)
      BY <1>6 DEF Ends
    <3> QED  BY <3>1, <3>2, <3>3 DEF Broken
  <2>2. CASE cut = 7
    <3>1. damage \in 1..cut
      BY <1>3, <2>2
    <3>2. N + damage \in 1..Len(x)
      BY <1>4, <1>6, <3>1
    <3>3. x[N + damage].f = new /\ ~x[N + damage].ok
      BY <1>7, <3>1
    <3> QED  BY <3>2, <3>3 DEF Broken
  <2> QED  BY <2>1, <2>2
<1>19. WireOrder(x)
  <2>1. ASSUME NEW i \in 1..(Len(x) - 1) PROVE Follows(x[i + 1], x[i]) \/ Starts(x[i + 1], x[i])
    <3>1. CASE i \in 1..(N - 1)
      <4>1. i \in 1..N /\ i + 1 \in 1..N
        BY <1>4, <3>1
      <4>2. x[i] = w[i] /\ x[i + 1] = w[i + 1]
        BY <1>6, <4>1
      <4> QED  BY <1>8, <3>1, <4>2
    <3>2. CASE i = N
      <4>1. N \in 1..N /\ 1 \in 1..cut /\ w # <<>>
        BY <1>1, <1>4, <3>2, EmptySeq
      <4>2. x[i] = w[N] /\ x[i + 1].f = new /\ x[i + 1].k = 1
        BY <1>6, <1>7, <3>2, <4>1
      <4>3. w[N].f \in 1..n /\ w[N].k \in Early \cup {FrameLen}
        BY <1>8, <1>9, <4>1
      <4>4. new > w[N].f
        BY <1>5, <4>3
      <4> QED  BY <4>2, <4>3, <4>4 DEF Starts
    <3>3. CASE ~(i \in 1..(N - 1)) /\ i # N
      <4>1. PICK k : k = i - N
        OBVIOUS
      <4>2. k \in 1..cut /\ k + 1 \in 1..cut /\ i = N + k /\ i + 1 = N + (k + 1)
        BY <1>4, <1>6, <3>3, <4>1
      <4>3. x[i].f = new /\ x[i].k = k /\ x[i + 1].f = new /\ x[i + 1].k = k + 1
        BY <1>7, <4>2
      <4> QED  BY <4>3 DEF Follows
    <3> QED  BY <3>1, <3>2, <3>3
  <2>2. ASSUME NEW i \in 1..Len(x), NEW j \in 1..Len(x), i < j PROVE x[i].f <= x[j].f
    <3>1. CASE i \in 1..N /\ j \in 1..N
      BY <1>6, <1>8, <2>2, <3>1
    <3>2. CASE i \in 1..N /\ ~(j \in 1..N)
      <4>1. x[i].f \in 1..n
        BY <1>6, <1>9, <3>2
      <4>2. x[j].f = new
        BY <1>7, <1>10, <3>2
      <4> QED  BY <1>5, <4>1, <4>2
    <3>3. CASE ~(i \in 1..N)
      <4>1. ~(j \in 1..N)
        BY <1>4, <1>6, <2>2, <3>3
      <4>2. x[i].f = new /\ x[j].f = new
        BY <1>7, <1>10, <3>3, <4>1
      <4> QED  BY <1>4, <4>2
    <3> QED  BY <3>1, <3>2, <3>3
  <2>3. x[Len(x)].k \in Early \cup {FrameLen}
    <3>1. cut \in 1..cut
      OBVIOUS
    <3>2. x[Len(x)].k = cut
      BY <1>6, <1>7, <3>1
    <3> QED  BY <3>2, Seven
  <2> QED  BY <2>1, <2>2, <2>3 DEF WireOrder
<1>20. WireBytes(x, t, new)
  <2> SUFFICES ASSUME NEW i \in 1..Len(x)
               PROVE  /\ GoodByte(x[i], new)
                      /\ IsSent(t, x[i].f) => x[i].ok /\ (x[i].k \in Early => ~Ends(x, i))
                      /\ x[i].k = 1 => IsSent(t, x[i].f) \/ Broken(x, x[i].f)
    BY DEF WireBytes
  <2>1. CASE i \in 1..N
    <3>1. /\ GoodByte(w[i], n)
          /\ IsSent(s, w[i].f) => w[i].ok /\ (w[i].k \in Early => ~Ends(w, i))
          /\ w[i].k = 1 => IsSent(s, w[i].f) \/ Broken(w, w[i].f)
      BY <1>1, <2>1 DEF WireBytes
    <3>2. x[i] = w[i] /\ (Ends(x, i) <=> Ends(w, i)) /\ (IsSent(t, w[i].f) <=> IsSent(s, w[i].f))
      BY <1>6, <1>9, <1>13, <1>15, <2>1
    <3>3. GoodByte(w[i], new)
      <4>1. w[i].f \in 1..new
        BY <1>4, <1>9, <2>1
      <4> QED  BY <3>1, <4>1 DEF GoodByte
    <3> QED  BY <1>17, <3>1, <3>2, <3>3
  <2>2. CASE ~(i \in 1..N)
    <3>1. PICK k \in 1..cut : i = N + k
      BY <1>10, <2>2
    <3>2. /\ x[i].f = new /\ x[i].k = k
          /\ x[i].ok <=> k # damage
          /\ x[i].v = IF k <= 4 /\ k # damage THEN Magic[k] ELSE "x"
      BY <1>7, <3>1
    <3>3. GoodByte(x[i], new)
      <4>1. new \in 1..new /\ k \in 1..FrameLen
        BY <1>4, Seven
      <4>2. ~x[i].ok => x[i].k \in {3, 5, FrameLen}
        <5>1. ~x[i].ok => k = damage /\ k # 0
          BY <3>2
        <5> QED  BY <3>2, <5>1, Seven
      <4>3. x[i].v = IF x[i].k <= 4 /\ x[i].ok THEN Magic[x[i].k] ELSE "x"
        BY <3>2
      <4> QED  BY <3>2, <4>1, <4>2, <4>3 DEF GoodByte
    <3>4. IsSent(t, x[i].f) => x[i].ok /\ (x[i].k \in Early => ~Ends(x, i))
      <4> SUFFICES ASSUME whole PROVE x[i].ok /\ (x[i].k \in Early => ~Ends(x, i))
        BY <1>14, <3>2
      <4>1. x[i].ok
        BY <1>3, <3>2
      <4>2. k \in Early => k # cut
        BY <1>3 DEF Early
      <4> QED  BY <1>16, <3>1, <3>2, <4>1, <4>2
    <3>5. IsSent(t, x[i].f) \/ Broken(x, x[i].f)
      BY <1>14, <1>18, <3>2
    <3> QED  BY <3>3, <3>4, <3>5
  <2> QED  BY <2>1, <2>2
<1>21. Delivered(x, t, g, new)
  <2>1. /\ \A i, j \in 1..Len(s) : i < j => s[i] < s[j]
        /\ Len(g) <= Len(s) /\ \A j \in 1..Len(g) : g[j] = s[j]
        /\ \A j \in 1..Len(s) : j > Len(g) <=> \E i \in 1..N : w[i].f = s[j]
    BY <1>1 DEF Delivered
  <2>2. Len(g) \in Nat
    BY LenProperties DEF IsList
  <2>3. ASSUME NEW j \in 1..Len(t)
        PROVE  j \in 1..Len(s) \/ (whole /\ j = Len(s) + 1 /\ t[j] = new)
    BY <1>11
  <2>4. ASSUME NEW j \in 1..Len(t) PROVE t[j] \in 1..new
    <3>1. CASE j \in 1..Len(s)
      <4>1. t[j] \in 1..n
        BY <1>11, <1>12, <3>1
      <4> QED  BY <1>4, <4>1
    <3>2. CASE t[j] = new
      BY <1>4, <3>2
    <3> QED  BY <2>3, <3>1, <3>2
  <2>5. ASSUME NEW i \in 1..Len(t), NEW j \in 1..Len(t), i < j PROVE t[i] < t[j]
    <3>1. CASE j \in 1..Len(s)
      <4>1. i \in 1..Len(s)
        BY <1>11, <2>5, <3>1
      <4> QED  BY <1>11, <2>1, <2>5, <3>1, <4>1
    <3>2. CASE j = Len(s) + 1 /\ t[j] = new
      <4>1. i \in 1..Len(s)
        BY <1>11, <2>5, <3>2
      <4>2. t[i] \in 1..n
        BY <1>11, <1>12, <4>1
      <4> QED  BY <1>4, <3>2, <4>2
    <3> QED  BY <2>3, <3>1, <3>2
  <2>6. Len(g) <= Len(t) /\ \A j \in 1..Len(g) : g[j] = t[j]
    <3>1. Len(g) <= Len(t)
      BY <1>11, <2>1, <2>2
    <3>2. ASSUME NEW j \in 1..Len(g) PROVE g[j] = t[j]
      <4>1. j \in 1..Len(s)
        BY <1>11, <2>1, <2>2
      <4> QED  BY <1>11, <2>1, <4>1
    <3> QED  BY <3>1, <3>2
  <2>7. ASSUME NEW j \in 1..Len(t)
        PROVE  j > Len(g) <=> \E i \in 1..Len(x) : x[i].f = t[j]
    <3>1. CASE j \in 1..Len(s)
      <4>1. t[j] = s[j] /\ t[j] \in 1..n
        BY <1>11, <1>12, <3>1
      <4>2. ASSUME NEW i \in 1..Len(x), x[i].f = t[j] PROVE \E l \in 1..N : w[l].f = s[j]
        <5>1. t[j] # new
          BY <1>4, <4>1
        <5>2. i \in 1..N
          BY <1>7, <1>10, <4>2, <5>1
        <5> QED  BY <1>6, <4>1, <4>2, <5>2
      <4>3. ASSUME NEW i \in 1..N, w[i].f = s[j] PROVE \E l \in 1..Len(x) : x[l].f = t[j]
        <5>1. i \in 1..Len(x)
          BY <1>4, <1>6
        <5> QED  BY <1>6, <4>1, <4>3, <5>1
      <4> QED  BY <2>1, <3>1, <4>2, <4>3
    <3>2. CASE j = Len(s) + 1 /\ t[j] = new
      <4>1. j > Len(g)
        BY <1>11, <2>1, <2>2, <3>2
      <4>2. 1 \in 1..cut /\ N + 1 \in 1..Len(x)
        BY <1>4, <1>6
      <4>3. x[N + 1].f = t[j]
        BY <1>7, <3>2, <4>2
      <4> QED  BY <4>1, <4>2, <4>3
    <3> QED  BY <2>3, <3>1, <3>2
  <2> QED  BY <2>4, <2>5, <2>6, <2>7 DEF Delivered
<1>22. w # <<>> =>
         /\ x # <<>> /\ x[1] = w[1] /\ (IsSent(t, w[1].f) <=> IsSent(s, w[1].f))
         /\ Broken(w, w[1].f) => Broken(x, w[1].f)
  <2> SUFFICES ASSUME w # <<>> PROVE x # <<>> /\ x[1] = w[1] /\ (IsSent(t, w[1].f) <=> IsSent(s, w[1].f))
    BY <1>17
  <2>1. 1 \in 1..N
    BY <1>1, EmptySeq DEF IsWire
  <2>2. Len(x) # 0
    BY <1>4, <1>6
  <2>3. x # <<>>
    BY <2>2
  <2> QED  BY <1>6, <1>9, <1>13, <2>1, <2>3
<1>23. ASSUME NEW b, NEW p, InFrame(w, s, b, p) PROVE InFrame(x, t, b, p)
  <2>1. w # <<>>
    BY <1>23 DEF InFrame
  <2> QED  BY <1>22, <1>23, <2>1 DEF InFrame
<1>24. ASSUME NEW m, Scanning(w, s, m) PROVE Scanning(x, t, m)
  <2>1. CASE w # <<>>
    BY <1>22, <1>24, <2>1 DEF Scanning
  <2>2. CASE w = <<>>
    <3>1. N = 0 /\ 1 \in 1..cut
      BY <1>1, <2>2
    <3>2. x[1].k = 1
      <4>1. x[N + 1].k = 1 /\ N + 1 = 1
        BY <1>7, <3>1
      <4> QED  BY <4>1
    <3> QED  BY <3>2 DEF Scanning
  <2> QED  BY <2>1, <2>2
<1>25. Keeps(w, s, x, t)
  BY <1>23, <1>24 DEF Keeps
<1> QED  BY <1>2, <1>19, <1>20, <1>21, <1>25

-----------------------------------------------------------------------------
(* The steps of the loop and of the Pi.                                    *)
LEMMA SerialFacts ==
  ASSUME Types
  PROVE  /\ IsWire(wire) /\ IsWire(buf) /\ IsList(sent) /\ IsList(got) /\ writes \in Nat
         /\ wire # <<>> => /\ Head(wire) = wire[1] /\ Rest(Tail(wire), wire)
                           /\ Joined(Append(buf, Head(wire)), buf, wire[1])
<1>1. wire \in Seq(ByteType) /\ buf \in Seq(ByteType) /\ sent \in Seq(Nat) /\ got \in Seq(Nat)
  BY DEF Types, SerialTypes
<1>2. writes \in Nat
  BY DEF Types, SerialTypes
<1>3. ASSUME wire # <<>> PROVE Head(wire) = wire[1]
  BY <1>1, <1>3, HeadTailProperties
<1> QED  BY <1>1, <1>2, <1>3 DEF IsWire, IsList, Rest, Joined

LEMMA QuietFrames ==
  ASSUME FramesAgree, UNCHANGED <<wire, sent, got, buf, matched, writes, torn>>,
         at' = at \/ (at \notin {"header", "body"} /\ at' \notin {"header", "body"})
  PROVE  FramesAgree'
BY Zenon DEF FramesAgree

LEMMA FramesWrite ==
  ASSUME Types, FramesAgree, HostWrites
  PROVE  FramesAgree'
<1> SUFFICES ASSUME ~torn' PROVE FramesAgree'
  BY DEF FramesAgree
<1>1. PICK kind \in Kinds, cut \in {1, 3, 4, 6, 7}, damage \in {0, 3, 5, 7} :
        Write(kind, cut, damage) /\ (cut # 7 => damage = 0)
  BY Seven DEF HostWrites, Kinds
<1>2. ~torn /\ cut \in {1, 3, 7}
  <2>1. torn' <=> (torn \/ cut \in 4..(FrameLen - 1))
    BY Zenon, <1>1 DEF Write
  <2>2. ~torn /\ cut \notin 4..(FrameLen - 1)
    BY Zenon, <2>1
  <2> QED  BY <2>2, Seven
<1>3. cut \in {1, 3, 7} /\ damage \in {0, 3, 5, 7} /\ (cut # 7 => damage = 0)
  BY <1>1, <1>2
<1>4. /\ UNCHANGED <<at, matched, buf, got>> /\ writes' = writes + 1
      /\ wire' = wire \o Bytes(writes', kind, cut, damage)
      /\ Listed(sent', sent, writes + 1, cut = 7 /\ damage = 0)
  BY <1>1, Seven DEF Write, Listed, place
<1>5. Grown(wire', wire, writes + 1, cut, damage)
  <2>1. cut \in 1..FrameLen /\ damage \in 0..FrameLen
    BY <1>2, Seven
  <2>2. writes + 1 \in Nat /\ wire' = wire \o Bytes(writes + 1, kind, cut, damage)
    BY <1>4, SerialFacts
  <2> QED  BY <2>1, <2>2, SerialFacts, WriteGrows
<1>6. /\ WireOrder(wire) /\ WireBytes(wire, sent, writes) /\ Delivered(wire, sent, got, writes)
      /\ at \in {"header", "body"} => InFrame(wire, sent, buf, at)
      /\ at \notin {"header", "body"} => Scanning(wire, sent, matched)
  BY <1>2 DEF FramesAgree
<1>7. /\ WireOrder(wire') /\ WireBytes(wire', sent', writes + 1)
      /\ Delivered(wire', sent', got, writes + 1)
  <2>1. WireOrder(wire')
    BY <1>3, <1>4, <1>5, <1>6, SerialFacts, WriteFrames
  <2>2. WireBytes(wire', sent', writes + 1)
    BY <1>3, <1>4, <1>5, <1>6, SerialFacts, WriteFrames
  <2>3. Delivered(wire', sent', got, writes + 1)
    BY <1>3, <1>4, <1>5, <1>6, SerialFacts, WriteFrames
  <2> QED  BY <2>1, <2>2, <2>3
<1>8. Keeps(wire, sent, wire', sent')
  BY <1>3, <1>4, <1>5, <1>6, SerialFacts, WriteFrames
<1>9. /\ at \in {"header", "body"} => InFrame(wire', sent', buf, at)
      /\ at \notin {"header", "body"} => Scanning(wire', sent', matched)
  BY <1>6, <1>8 DEF Keeps
<1> QED  BY <1>4, <1>7, <1>9 DEF FramesAgree

LEMMA FramesScan ==
  ASSUME Types, Reading, FramesAgree, Scan
  PROVE  FramesAgree'
<1> SUFFICES ASSUME ~torn' PROVE FramesAgree'
  BY DEF FramesAgree
<1>1. /\ at = "serial" /\ wire # <<>> /\ wire' = Tail(wire)
      /\ matched' = MatchedAfter(Head(wire).v)
      /\ at' = IF matched' = 4 THEN "header" ELSE "serial"
      /\ UNCHANGED <<buf, got, sent, writes, torn>>
  BY DEF Scan, host
<1>2. buf = <<>> /\ matched \in 0..3
  BY <1>1 DEF Reading, Types, SerialTypes
<1>3. /\ WireOrder(wire) /\ WireBytes(wire, sent, writes) /\ Delivered(wire, sent, got, writes)
      /\ Scanning(wire, sent, matched)
  BY <1>1 DEF FramesAgree
<1>4. Rest(wire', wire) /\ matched' = MatchedAfter(wire[1].v)
  BY <1>1, SerialFacts
<1>5. WireOrder(wire') /\ WireBytes(wire', sent, writes) /\ Delivered(wire', sent, got, writes)
  BY <1>1, <1>2, <1>3, <1>4, SerialFacts, ScanFrames
<1>6. matched' = 4 => InFrame(wire', sent, <<>>, "header")
  BY <1>1, <1>2, <1>3, <1>4, SerialFacts, ScanFrames
<1>7. matched' # 4 => Scanning(wire', sent, matched')
  BY <1>1, <1>2, <1>3, <1>4, SerialFacts, ScanFrames
<1>8. CASE matched' = 4
  <2>1. at' = "header" /\ buf' = <<>>
    BY <1>1, <1>2, <1>8
  <2> QED  BY <1>1, <1>5, <1>6, <1>8, <2>1 DEF FramesAgree
<1>9. CASE matched' # 4
  <2>1. at' = "serial"
    BY <1>1, <1>9
  <2> QED  BY <1>1, <1>5, <1>7, <1>9, <2>1 DEF FramesAgree
<1> QED  BY <1>8, <1>9

LEMMA FramesRead ==
  ASSUME Types, Reading, FramesAgree, ReadMore
  PROVE  FramesAgree'
<1> SUFFICES ASSUME ~torn' PROVE FramesAgree'
  BY DEF FramesAgree
<1>1. /\ at \in {"header", "body"} /\ wire # <<>> /\ wire' = Tail(wire)
      /\ UNCHANGED <<sent, writes, torn>>
  BY DEF ReadMore, host
<1>2. /\ WireOrder(wire) /\ WireBytes(wire, sent, writes) /\ Delivered(wire, sent, got, writes)
      /\ InFrame(wire, sent, buf, at)
  BY <1>1 DEF FramesAgree
<1>3. PICK x : x = wire'
  OBVIOUS
<1>4. PICK c : c = Append(buf, Head(wire))
  OBVIOUS
<1>5. Rest(x, wire) /\ Joined(c, buf, wire[1]) /\ Head(wire) = wire[1]
  BY <1>1, <1>3, <1>4, SerialFacts
<1>6. PICK l \in 0..2 : HasLen(buf, l)
  <2>1. Len(buf) \in Nat /\ Len(buf) <= 2
    BY LenProperties DEF Types, SerialTypes, HeaderLen
  <2>2. PICK l : l = Len(buf)
    OBVIOUS
  <2>3. l \in 0..2
    BY <2>1, <2>2
  <2> QED  BY <2>2, <2>3 DEF HasLen
<1>7. Len(c) = l + 1 /\ (at = "body" <=> l = 2)
  <2>1. AtByte(wire, sent, writes, buf, l, at, c)
    BY <1>2, <1>5, <1>6, SerialFacts DEF AtByte
  <2>2. HasLen(c, l + 1)
    BY <2>1, ReadFacts
  <2> QED  BY <1>2, <1>6, <2>2 DEF HasLen, InFrame
<1>8. WireOrder(x) /\ WireBytes(x, sent, writes)
  BY <1>1, <1>2, <1>5, SerialFacts, Consume
<1>9. ASSUME l # 2
      PROVE  /\ Delivered(x, sent, got, writes)
             /\ l = 0 => InFrame(x, sent, c, "header")
             /\ (l = 1 /\ Intact(c)) => InFrame(x, sent, c, "body")
             /\ (l = 1 /\ ~Intact(c)) => Scanning(x, sent, 0)
  <2>1. l \in 0..1
    BY <1>9
  <2>2. Delivered(x, sent, got, writes)
    BY <1>1, <1>2, <1>5, <1>6, <2>1, SerialFacts, ReadOn
  <2>3. l = 0 => InFrame(x, sent, c, "header")
    BY <1>1, <1>2, <1>5, <1>6, <2>1, SerialFacts, ReadOn
  <2>4. (l = 1 /\ Intact(c)) => InFrame(x, sent, c, "body")
    BY <1>1, <1>2, <1>5, <1>6, <2>1, SerialFacts, ReadOn
  <2>5. (l = 1 /\ ~Intact(c)) => Scanning(x, sent, 0)
    BY <1>1, <1>2, <1>5, <1>6, <2>1, SerialFacts, ReadOn
  <2> QED  BY <2>2, <2>3, <2>4, <2>5
<1>10. ASSUME l = 2
       PROVE  /\ Scanning(x, sent, 0)
              /\ ~Intact(c) => Delivered(x, sent, got, writes)
              /\ Intact(c) => Delivered(x, sent, Append(got, wire[1].f), writes)
  <2>1. HasLen(buf, 2)
    BY <1>6, <1>10
  <2>2. Scanning(x, sent, 0)
    BY <1>1, <1>2, <1>5, <2>1, SerialFacts, ReadLast
  <2>3. ~Intact(c) => Delivered(x, sent, got, writes)
    BY <1>1, <1>2, <1>5, <2>1, SerialFacts, ReadLast
  <2>4. Intact(c) => Delivered(x, sent, Append(got, wire[1].f), writes)
    BY <1>1, <1>2, <1>5, <2>1, SerialFacts, ReadLast
  <2> QED  BY <2>2, <2>3, <2>4
<1>11. /\ Len(c) < HeaderLen <=> l = 0
       /\ Len(c) = HeaderLen <=> l = 1
  BY <1>7 DEF HeaderLen
<1>12. CASE l = 0
  <2>1. buf' = c /\ UNCHANGED <<at, got>>
    BY <1>4, <1>11, <1>12 DEF ReadMore
  <2>2. at' = "header"
    BY <1>1, <1>7, <1>12, <2>1
  <2> QED  BY <1>1, <1>3, <1>8, <1>9, <1>12, <2>1, <2>2 DEF FramesAgree
<1>13. ASSUME l # 0, ~Intact(c) PROVE FramesAgree'
  <2>1. Forget /\ NoFrame /\ UNCHANGED got
    BY <1>4, <1>11, <1>13 DEF ReadMore
  <2>2. matched' = 0 /\ at' \in {"trigger", "rest"}
    BY <2>1 DEF Forget, NoFrame
  <2>3. Delivered(x, sent, got, writes) /\ Scanning(x, sent, 0)
    <3>1. l = 1 \/ l = 2
      BY <1>6, <1>13
    <3> QED  BY <1>9, <1>10, <1>13, <3>1
  <2> QED  BY <1>1, <1>3, <1>8, <2>1, <2>2, <2>3 DEF FramesAgree
<1>14. ASSUME l = 1, Intact(c) PROVE FramesAgree'
  <2>1. buf' = c /\ at' = "body" /\ UNCHANGED got
    BY <1>4, <1>11, <1>14 DEF ReadMore
  <2> QED  BY <1>1, <1>3, <1>8, <1>9, <1>14, <2>1 DEF FramesAgree
<1>15. ASSUME l = 2, Intact(c) PROVE FramesAgree'
  <2>1. Forget /\ Received(Head(wire))
    BY <1>4, <1>11, <1>15 DEF ReadMore
  <2>2. matched' = 0 /\ at' \notin {"header", "body"} /\ got' = Append(got, wire[1].f)
    BY <1>5, <2>1 DEF Forget, Received
  <2> QED  BY <1>1, <1>3, <1>8, <1>10, <1>15, <2>2 DEF FramesAgree
<1> QED  BY <1>6, <1>12, <1>13, <1>14, <1>15

LEMMA FramesStep ==
  ASSUME Types, Reading, FramesAgree, [Next]_vars
  PROVE  FramesAgree'
<1> USE DEF place, serial, host
<1>1. CASE UNCHANGED vars
  BY <1>1, QuietFrames DEF vars
<1>2. ASSUME NEW to, Tap(to) \/ PulseBegins \/ PulseEnds \/ Close PROVE FramesAgree'
  BY <1>2, QuietFrames DEF Tap, PulseBegins, PulseEnds, Close
<1>3. CASE Tick
  BY <1>3, QuietFrames DEF Tick
<1>4. CASE HostWrites
  BY <1>4, FramesWrite
<1>5. CASE Scan
  BY <1>5, FramesScan
<1>6. CASE ReadMore
  BY <1>6, FramesRead
<1>7. CASE ReadTimesOut
  <2>1. UNCHANGED torn /\ at \in {"header", "body"} /\ wire = <<>>
    BY <1>7 DEF ReadTimesOut
  <2> QED  BY <2>1 DEF FramesAgree, InFrame
<1>8. CASE NothingToScan
  BY <1>8, QuietFrames DEF NothingToScan, NoFrame
<1>9. CASE PollTrigger
  BY <1>9, QuietFrames DEF PollTrigger, Poll
<1>10. CASE PreviewAttempt
  BY <1>10, QuietFrames DEF PreviewAttempt, Poll
<1>11. CASE PhotoDone
  BY <1>11, QuietFrames DEF PhotoDone
<1>12. CASE RestDone
  BY <1>12, QuietFrames DEF RestDone
<1>13. CASE Answered
  BY <1>13, QuietFrames DEF Answered
<1> QED
  BY <1>1, <1>2, <1>3, <1>4, <1>5, <1>6, <1>7, <1>8, <1>9, <1>10, <1>11, <1>12, <1>13
     DEF Next, NodeStep

-----------------------------------------------------------------------------
LEMMA NodeInit == Init => NodeInv
<1> SUFFICES ASSUME Init PROVE NodeInv
  OBVIOUS
<1>1. presses <= actuations /\ NothingDue
  BY DEF Init, NothingDue
<1>2. ScannerAgrees
  <2>1. matched = 0 /\ window = <<>>
    BY DEF Init
  <2>2. Len(window) = 0 /\ window \in Seq(Values)
    BY <2>1
  <2> QED  BY <2>1, <2>2 DEF ScannerAgrees
<1>3. Answering
  <2>1. caller = "loop" /\ spent = 0 /\ owed = NotOwed /\ MaxGap \in Nat
    BY NodeLoopAssumption DEF Init
  <2> QED  BY <2>1 DEF Answering
<1>4. FramesAgree
  <2>1. wire = <<>> /\ sent = <<>> /\ got = <<>> /\ at = "serial"
    BY DEF Init
  <2>2. Len(wire) = 0 /\ Len(sent) = 0 /\ Len(got) = 0
    BY <2>1
  <2>3. WireOrder(wire) /\ WireBytes(wire, sent, writes) /\ Delivered(wire, sent, got, writes)
    BY <2>1, <2>2 DEF WireOrder, WireBytes, Delivered
  <2>4. Scanning(wire, sent, matched)
    BY <2>1 DEF Scanning
  <2> QED  BY <2>1, <2>3, <2>4 DEF FramesAgree
<1> QED  BY <1>1, <1>2, <1>3, <1>4, InitTypes DEF NodeInv

THEOREM NodeInvariance == Spec => []NodeInv
<1>1. NodeInv /\ [Next]_vars => NodeInv'
  BY TypesStep, DueStep, ScannerStep, AnsweringStep, FramesStep DEF NodeInv
<1> QED  BY <1>1, NodeInit, PTL DEF Spec

(* Every variable of the loop has its type, the counters of millis() and   *)
(* of the attempts included.                                               *)
THEOREM NodeLoopTypes == Spec => []TypeOK
<1>1. NodeInv => TypeOK
  BY NodeLoopAssumption
     DEF NodeInv, Types, LineTypes, PlaceTypes, SerialTypes, Reading, TypeOK, Levels
<1> QED  BY <1>1, NodeInvariance, PTL

(* However the contact bounces, however far apart the polls are and        *)
(* wherever millis() wraps: not two photos for one tap or one pulse.       *)
THEOREM OnePress == Spec => []OnePressPerActuation
<1>1. NodeInv => OnePressPerActuation
  BY DEF NodeInv, OnePressPerActuation
<1> QED  BY <1>1, NodeInvariance, PTL

(* A pulse outlasts the debounce and two gaps between prompt polls: a node *)
(* that was in its loop and armed when the line fell, and has polled       *)
(* promptly since, has seen it before it ends, wherever millis() wraps.    *)
THEOREM PulseSeen == Spec => PulseIsSeen
<1>1. NodeInv /\ [Next]_vars => [(output # Idle /\ output' = Idle) => owed = NotOwed]_vars
  BY PulseEndsSeen DEF NodeInv
<1> QED  BY <1>1, NodeInvariance, PTL DEF Spec, PulseIsSeen

(* The automaton of the firmware and the window of the Pi find the same    *)
(* magic in the same bytes.                                                *)
THEOREM SameMagic == Spec => []ScannersAgree
<1>1. NodeInv => ScannersAgree
  <2> SUFFICES ASSUME NodeInv PROVE matched = Beginning(window)
    BY DEF ScannersAgree
  <2>1. PICK m, w : m = matched /\ w = window
    OBVIOUS
  <2>2. /\ w \in Seq(Values) /\ Len(w) <= 4 /\ m \in 0..Len(w)
        /\ \A k \in 1..Len(w) : EndsIn(w, k) <=> k = m
    BY <2>1 DEF NodeInv, ScannerAgrees, Types, SerialTypes
  <2> QED  BY <2>1, <2>2, BeginningIs
<1> QED  BY <1>1, NodeInvariance, PTL

(* Noise, damaged frames and frames cut within their magic cost nothing,   *)
(* whatever the times: what is read are the frames that were written       *)
(* whole, in their order, and once nothing waits in the port all of them.  *)
THEOREM WholeFrames == Spec => []WholeFramesArrive
<1>1. NodeInv => WholeFramesArrive
  <2> SUFFICES ASSUME NodeInv, ~torn
               PROVE  /\ IsPrefix(got, sent)
                      /\ (wire = <<>> /\ at \notin {"header", "body"}) => got = sent
    BY DEF WholeFramesArrive
  <2>1. got \in Seq(Nat) /\ sent \in Seq(Nat) /\ Len(got) \in Nat /\ Len(sent) \in Nat
    BY LenProperties DEF NodeInv, Types, SerialTypes
  <2>2. /\ Len(got) <= Len(sent) /\ \A j \in 1..Len(got) : got[j] = sent[j]
        /\ \A j \in 1..Len(sent) : j > Len(got) <=> \E i \in 1..Len(wire) : wire[i].f = sent[j]
    BY DEF NodeInv, FramesAgree, Delivered
  <2>3. SubSeq(sent, 1, Len(got)) = got
    <3>1. PICK p : p = SubSeq(sent, 1, Len(got))
      OBVIOUS
    <3>2. /\ p \in Seq(Nat) /\ Len(p) = Len(got)
          /\ \A j \in 1..Len(got) : p[j] = sent[j]
      BY <2>1, <2>2, <3>1, SubSeqProperties
    <3>3. Len(p) = Len(got) /\ \A j \in 1..Len(p) : p[j] = got[j]
      BY <2>2, <3>2
    <3>4. p = got
      BY <2>1, <3>2, <3>3, SeqEqual
    <3> QED  BY <3>1, <3>4
  <2>4. IsPrefix(got, sent)
    BY <2>2, <2>3 DEF IsPrefix
  <2>5. ASSUME wire = <<>> PROVE got = sent
    <3>1. Len(wire) = 0
      BY <2>5
    <3>2. Len(got) = Len(sent)
      <4> SUFFICES ASSUME Len(got) < Len(sent) PROVE FALSE
        BY <2>1, <2>2
      <4>1. Len(sent) \in 1..Len(sent) /\ Len(sent) > Len(got)
        BY <2>1
      <4>2. PICK i \in 1..Len(wire) : wire[i].f = sent[Len(sent)]
        BY <2>2, <4>1
      <4> QED  BY <3>1, <4>2
    <3> QED  BY <2>1, <2>2, <3>2, SeqEqual
  <2> QED  BY <2>4, <2>5
<1> QED  BY <1>1, NodeInvariance, PTL
=============================================================================
