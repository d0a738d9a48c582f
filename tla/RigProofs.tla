------------------------------- MODULE RigProofs -------------------------------
(***************************************************************************)
(* Theorems about Rig, for any cameras, bounds, faults and commands: the   *)
(* receiver's tables agree with the coordinator's set, photos are stored   *)
(* once and refused or stored for good, and triggers, previews and answers *)
(* belong to what they were meant for.                                     *)
(***************************************************************************)
EXTENDS Rig, ActiveCaptureProofs, SequenceTheorems, FiniteSetTheorems, TLAPS

-----------------------------------------------------------------------------
(* A node and its link.                                                    *)
UpFrames      == [kind : UpKinds, q : 0..MaxShots]
DownFrames    == [kind : DownKinds, q : 0..MaxShots]
PhotoKinds    == {"CAPTURE_STARTED", "IMAGE", "BAD_IMAGE", "TRANSFER_COMPLETE", "ERROR"}
TransferKinds == {"IMAGE", "BAD_IMAGE", "TRANSFER_COMPLETE"}

(* The frames of a photo follow its number, and nothing of its transfer    *)
(* follows TRANSFER_COMPLETE.                                              *)
InOrder(frames, n) ==
  /\ \A i \in 1..Len(frames) : frames[i].kind \in PhotoKinds => frames[i].q \in 1..n
  /\ \A i, j \in 1..Len(frames) :
       (i < j /\ frames[i].kind = "TRANSFER_COMPLETE" /\ frames[j].kind \in TransferKinds)
         => frames[i].q # frames[j].q

NotIn(frames, q) == \A i \in 1..Len(frames) : frames[i].kind \in TransferKinds => frames[i].q # q

(* A node that has not sent its photo yet has sent nothing of the transfer.*)
LinkAgrees(c) ==
  /\ InOrder(up[c], shot[c])
  /\ node[c] \in {"shooting", "waiting"} => shot[c] \in 1..MaxShots
  /\ node[c] = "shooting" => NotIn(up[c], shot[c])
  /\ c \in pressed => shot[c] < MaxShots

(* The transfer of photo q is over: nothing of it is on its way, nor will  *)
(* be.                                                                     *)
Over(c, q) ==
  /\ q \in 1..shot[c]
  /\ node[c] = "shooting" => shot[c] # q
  /\ NotIn(up[c], q)

AnswersComeFromPi(links, given) ==
  \A c \in Cameras : \A i \in 1..Len(links[c]) :
    links[c][i].kind \in {"ACK", "NACK"} => <<links[c][i].kind, c, links[c][i].q>> \in given

-----------------------------------------------------------------------------
(* The set that is being collected, a, with the receiver's tables t.       *)
TablesFit(a, t) ==
  /\ t.started \subseteq Transactions(a)
  /\ t.images \subseteq t.started \ {p \in Tx : p[1] \in a.images}
  /\ {<<k.cam, k.q>> : k \in {t.acks[i] : i \in 1..Len(t.acks)}}
       = {p \in Transactions(a) : p[1] \in a.images}
  /\ Cardinality(a.images) = Len(t.acks)

(* It holds no photo that was filed before, and no image without a start.  *)
Collecting(a) ==
  /\ ~a.open => a = Idle
  /\ a.images \subseteq Started(a)
  /\ Transactions(a) \cap seen = {}

(* What is on the drive was filed, each photo once.                        *)
PublishedAgrees ==
  \A i \in 1..Len(published) :
    /\ \A c \in Cameras : published[i].tx[c] # NoTx => <<c, published[i].tx[c]>> \in seen
    /\ \A c \in published[i].images : published[i].tx[c] \in 1..shot[c]
    /\ \A j \in 1..Len(published), c \in Cameras :
         published[i].tx[c] # NoTx /\ published[i].tx[c] = published[j].tx[c] => i = j

(* An image in the set, and a photo that was answered, has been handled    *)
(* for good: neither is collected again.                                   *)
ImagesAreOver(a) == \A c \in a.images : Over(c, a.tx[c])

AnswersAgree(a, given) ==
  \A c \in Cameras, q \in Txs, kind \in {"ACK", "NACK"} : <<kind, c, q>> \in given =>
    /\ Over(c, q)
    /\ c \in a.images => a.tx[c] # q

CaptureAgrees ==
  /\ TablesFit(active, tables) /\ Collecting(active) /\ PublishedAgrees
  /\ ImagesAreOver(active) /\ AnswersAgree(active, answers)
  /\ AckMeansPublished

(* The triggers that the Receiver counts.                                  *)
AutoAgrees ==
  /\ AttemptIsPending
  /\ auto.inFlight => auto.remaining > 0
  /\ request = "automatic" => auto.remaining > 0 /\ ~auto.inFlight

RigInv ==
  /\ TypeOK
  /\ \A c \in Cameras : LinkAgrees(c)
  /\ AnswersComeFromPi(down, answers)
  /\ CaptureAgrees
  /\ AutoAgrees
  /\ PreviewYields

-----------------------------------------------------------------------------
(* What the links do to the frames on them.                                *)
LEMMA Frames ==
  /\ \A kind \in UpKinds, q \in 0..MaxShots : Frame(kind, q) \in UpFrames
  /\ \A kind \in DownKinds, q \in 0..MaxShots : Frame(kind, q) \in DownFrames
  /\ \A kind, q : Frame(kind, q).kind = kind /\ Frame(kind, q).q = q
BY DEF Frame, UpFrames, DownFrames

LEMMA EmptyLink ==
  ASSUME NEW n
  PROVE  InOrder(<<>>, n) /\ \A q : NotIn(<<>>, q)
BY DEF InOrder, NotIn

LEMMA AppendedFrames ==
  ASSUME NEW s \in Seq(UpFrames), NEW t \in Seq(UpFrames), NEW n \in Nat, NEW m \in Nat, n <= m,
         InOrder(s, n), InOrder(t, m),
         \A j \in 1..Len(t) : t[j].kind \in TransferKinds => NotIn(s, t[j].q)
  PROVE  InOrder(s \o t, m)
<1>1. /\ s \o t \in Seq(UpFrames) /\ Len(s \o t) = Len(s) + Len(t)
      /\ \A i \in 1..Len(s \o t) : (s \o t)[i] = IF i <= Len(s) THEN s[i] ELSE t[i - Len(s)]
  BY ConcatProperties
<1>2. ASSUME NEW i \in 1..Len(s \o t), (s \o t)[i].kind \in PhotoKinds
      PROVE  (s \o t)[i].q \in 1..m
  <2>1. CASE i <= Len(s)
    <3>1. i \in 1..Len(s) /\ (s \o t)[i] = s[i]
      BY <1>1, <2>1
    <3>2. s[i].q \in 1..n
      BY <1>2, <3>1 DEF InOrder
    <3> QED  BY <3>1, <3>2
  <2>2. CASE i > Len(s)
    <3>1. i - Len(s) \in 1..Len(t) /\ (s \o t)[i] = t[i - Len(s)]
      BY <1>1, <2>2
    <3> QED  BY <1>2, <3>1 DEF InOrder
  <2> QED  BY <1>1, <2>1, <2>2
<1>3. ASSUME NEW i \in 1..Len(s \o t), NEW j \in 1..Len(s \o t), i < j,
             (s \o t)[i].kind = "TRANSFER_COMPLETE", (s \o t)[j].kind \in TransferKinds
      PROVE  (s \o t)[i].q # (s \o t)[j].q
  <2>1. CASE j <= Len(s)
    <3>1. i \in 1..Len(s) /\ j \in 1..Len(s) /\ (s \o t)[i] = s[i] /\ (s \o t)[j] = s[j]
      BY <1>1, <1>3, <2>1
    <3> QED  BY <1>3, <3>1 DEF InOrder
  <2>2. CASE i <= Len(s) /\ j > Len(s)
    <3>1. i \in 1..Len(s) /\ j - Len(s) \in 1..Len(t)
          /\ (s \o t)[i] = s[i] /\ (s \o t)[j] = t[j - Len(s)]
      BY <1>1, <2>2
    <3>2. "TRANSFER_COMPLETE" \in TransferKinds
      BY DEF TransferKinds
    <3> QED  BY <1>3, <3>1, <3>2 DEF NotIn
  <2>3. CASE i > Len(s)
    <3>1. i - Len(s) \in 1..Len(t) /\ j - Len(s) \in 1..Len(t) /\ i - Len(s) < j - Len(s)
          /\ (s \o t)[i] = t[i - Len(s)] /\ (s \o t)[j] = t[j - Len(s)]
      BY <1>1, <1>3, <2>3
    <3> QED  BY <1>3, <3>1 DEF InOrder
  <2> QED  BY <1>1, <2>1, <2>2, <2>3
<1> QED  BY <1>2, <1>3 DEF InOrder

LEMMA AppendedNotIn ==
  ASSUME NEW s \in Seq(UpFrames), NEW t \in Seq(UpFrames), NEW q, NotIn(s, q), NotIn(t, q)
  PROVE  NotIn(s \o t, q)
<1>1. /\ Len(s \o t) = Len(s) + Len(t)
      /\ \A i \in 1..Len(s \o t) : (s \o t)[i] = IF i <= Len(s) THEN s[i] ELSE t[i - Len(s)]
  BY ConcatProperties
<1> SUFFICES ASSUME NEW i \in 1..Len(s \o t), (s \o t)[i].kind \in TransferKinds
             PROVE  (s \o t)[i].q # q
  BY DEF NotIn
<1>2. CASE i <= Len(s)
  BY <1>1, <1>2 DEF NotIn
<1>3. CASE i > Len(s)
  <2>1. i - Len(s) \in 1..Len(t) /\ (s \o t)[i] = t[i - Len(s)]
    BY <1>1, <1>3
  <2> QED  BY <2>1 DEF NotIn
<1> QED  BY <1>1, <1>2, <1>3

(* A frame is read, or a prefix is left.                                   *)
LEMMA TailOfLink ==
  ASSUME NEW s \in Seq(UpFrames), s # <<>>, NEW n
  PROVE  /\ InOrder(s, n) => InOrder(Tail(s), n)
         /\ \A q : NotIn(s, q) => NotIn(Tail(s), q)
<1>1. /\ Tail(s) \in Seq(UpFrames) /\ Len(Tail(s)) = Len(s) - 1 /\ Len(s) \in Nat
      /\ \A i \in 1..Len(Tail(s)) : Tail(s)[i] = s[i + 1]
  BY HeadTailProperties, LenProperties
<1>2. \A i \in 1..Len(Tail(s)) : i + 1 \in 1..Len(s)
  BY <1>1
<1>3. \A i, j \in 1..Len(Tail(s)) : i < j => i + 1 < j + 1
  BY <1>1
<1>4. InOrder(s, n) => InOrder(Tail(s), n)
  BY <1>1, <1>2, <1>3 DEF InOrder
<1>5. \A q : NotIn(s, q) => NotIn(Tail(s), q)
  BY <1>1, <1>2 DEF NotIn
<1> QED  BY <1>4, <1>5

LEMMA PrefixOfLink ==
  ASSUME NEW s \in Seq(UpFrames), NEW k \in 0..Len(s), NEW n
  PROVE  /\ SubSeq(s, 1, k) \in Seq(UpFrames)
         /\ InOrder(s, n) => InOrder(SubSeq(s, 1, k), n)
         /\ \A q : NotIn(s, q) => NotIn(SubSeq(s, 1, k), q)
<1>1. /\ SubSeq(s, 1, k) \in Seq(UpFrames) /\ Len(SubSeq(s, 1, k)) = k
      /\ \A i \in 1..k : SubSeq(s, 1, k)[i] = s[i] /\ i \in 1..Len(s)
  BY LenProperties
<1> QED  BY <1>1 DEF InOrder, NotIn

LEMMA Written ==
  ASSUME TypeOK, NEW c \in Cameras, NEW frames \in Seq(UpFrames), Emit(c, frames)
  PROVE  /\ up' \in [Cameras -> Seq(UpFrames)]
         /\ up'[c] \in {up[c], up[c] \o frames}
         /\ \A d \in Cameras \ {c} : up'[d] = up[d]
<1>1. up \in [Cameras -> Seq(UpFrames)]
  BY DEF TypeOK, UpFrames
<1>2. up[c] \o frames \in Seq(UpFrames)
  BY <1>1, ConcatProperties
<1> QED  BY <1>1, <1>2 DEF Emit

-----------------------------------------------------------------------------
(* The steps of the nodes and of their cables.                             *)
NodeTypes ==
  /\ node \in [Cameras -> NodeStates]
  /\ shot \in [Cameras -> 0..MaxShots]
  /\ previewDue \subseteq Cameras /\ pressed \subseteq Cameras
  /\ link \in [Cameras -> LinkStates]
  /\ up \in [Cameras -> Seq(UpFrames)]
  /\ down \in [Cameras -> Seq(DownFrames)]
  /\ breaks \in 0..MaxBreaks

LEMMA NodesTyped == TypeOK => NodeTypes
BY DEF TypeOK, NodeTypes, UpFrames, DownFrames

(* A step of one node or cable: the Pi's part of the invariant stays when  *)
(* the link keeps its order and what is over stays over.                   *)
LEMMA LocalStep ==
  ASSUME RigInv, NEW c \in Cameras, UNCHANGED piVars, NodeTypes',
         \A d \in Cameras \ {c} :
           /\ node'[d] = node[d] /\ shot'[d] = shot[d] /\ up'[d] = up[d] /\ down'[d] = down[d]
           /\ d \in pressed' => d \in pressed,
         shot'[c] >= shot[c], LinkAgrees(c)', \A q \in Txs : Over(c, q) => Over(c, q)',
         \A i \in 1..Len(down'[c]) : \E j \in 1..Len(down[c]) : down'[c][i] = down[c][j]
  PROVE  RigInv'
<1>1. TypeOK /\ NodeTypes
      /\ UNCHANGED <<sess, current, active, seen, tables, pending, auto, published, answers,
                     commands, preview, request, mainAlive>>
  BY NodesTyped DEF RigInv, piVars, captureVars, mainVars
<1>2. TypeOK'
  BY <1>1 DEF TypeOK, NodeTypes, UpFrames, DownFrames
<1>3. \A d \in Cameras : LinkAgrees(d)'
  BY DEF RigInv, LinkAgrees
<1>4. \A d \in Cameras, q \in Txs : Over(d, q) => Over(d, q)'
  BY DEF Over
<1>5. AnswersComeFromPi(down, answers)'
  <2>1. AnswersComeFromPi(down, answers)
    BY DEF RigInv
  <2> QED  BY <1>1, <2>1 DEF AnswersComeFromPi
<1>6. \A d \in Cameras : shot[d] \in Nat /\ shot'[d] \in Nat /\ shot'[d] >= shot[d]
  <2>1. shot \in [Cameras -> 0..MaxShots] /\ shot' \in [Cameras -> 0..MaxShots]
    BY <1>1 DEF NodeTypes
  <2> QED  BY <2>1
<1>7. CaptureAgrees'
  <2>1. CaptureAgrees
    BY DEF RigInv
  <2>2. (TablesFit(active, tables) /\ Collecting(active))'
    BY <1>1, <2>1 DEF CaptureAgrees, TablesFit, Collecting
  <2>3. PublishedAgrees'
    <3>1. \A i \in 1..Len(published) : \A d \in published[i].images : d \in Cameras
      <4>1. published \in Seq(CompletedCaptures(Txs))
        BY <1>1 DEF TypeOK
      <4>2. \A i \in 1..Len(published) : published[i] \in CompletedCaptures(Txs)
        BY <4>1, ElementOfSeq
      <4> QED  BY <4>2 DEF CompletedCaptures
    <3> QED  BY <1>1, <1>6, <2>1, <3>1 DEF CaptureAgrees, PublishedAgrees
  <2>4. ImagesAreOver(active)'
    <3>1. \A d \in active.images : d \in Cameras /\ active.tx[d] \in Txs
      BY <1>1, <2>1 DEF CaptureAgrees, Collecting, Started, TypeOK, ActiveCaptures
    <3> QED  BY <1>1, <1>4, <2>1, <3>1 DEF CaptureAgrees, ImagesAreOver
  <2>5. AnswersAgree(active, answers)'
    BY <1>1, <1>4, <2>1 DEF CaptureAgrees, AnswersAgree
  <2>6. AckMeansPublished'
    BY <1>1, <2>1 DEF CaptureAgrees, AckMeansPublished, Imaged, PublishedOf
  <2> QED  BY <2>2, <2>3, <2>4, <2>5, <2>6 DEF CaptureAgrees
<1>8. AutoAgrees' /\ PreviewYields'
  BY <1>1 DEF RigInv, AutoAgrees, AttemptIsPending, PreviewYields
<1> QED  BY <1>2, <1>3, <1>5, <1>7, <1>8 DEF RigInv

LEMMA ReadDown ==
  ASSUME TypeOK, NEW c \in Cameras, down[c] # <<>>, down' = [down EXCEPT ![c] = Tail(@)]
  PROVE  /\ down' \in [Cameras -> Seq(DownFrames)]
         /\ \A d \in Cameras \ {c} : down'[d] = down[d]
         /\ \A i \in 1..Len(down'[c]) : \E j \in 1..Len(down[c]) : down'[c][i] = down[c][j]
<1>1. down \in [Cameras -> Seq(DownFrames)]
  BY DEF TypeOK, DownFrames
<1>2. /\ Tail(down[c]) \in Seq(DownFrames) /\ Len(Tail(down[c])) = Len(down[c]) - 1
      /\ \A i \in 1..Len(Tail(down[c])) : Tail(down[c])[i] = down[c][i + 1]
  BY <1>1, HeadTailProperties
<1>3. \A i \in 1..Len(Tail(down[c])) : i + 1 \in 1..Len(down[c])
  BY <1>1, <1>2, LenProperties
<1> QED  BY <1>1, <1>2, <1>3

(* Frames that start no transfer keep what is over, and are in order.      *)
LEMMA QuietFrame ==
  ASSUME TypeOK, NEW c \in Cameras, LinkAgrees(c),
         NEW kind \in UpKinds \ TransferKinds, NEW q \in 0..MaxShots,
         NEW n \in 0..MaxShots, shot[c] <= n, kind \in PhotoKinds => q \in 1..n,
         Emit(c, <<Frame(kind, q)>>)
  PROVE  /\ up' \in [Cameras -> Seq(UpFrames)]
         /\ \A d \in Cameras \ {c} : up'[d] = up[d]
         /\ InOrder(up'[c], n)
         /\ \A r : NotIn(up[c], r) => NotIn(up'[c], r)
<1> DEFINE f == Frame(kind, q)
<1>1. f \in UpFrames /\ f.kind = kind /\ f.q = q /\ <<f>> \in Seq(UpFrames)
  BY Frames
<1> HIDE DEF f
<1>2. /\ up' \in [Cameras -> Seq(UpFrames)] /\ up'[c] \in {up[c], up[c] \o <<f>>}
      /\ \A d \in Cameras \ {c} : up'[d] = up[d]
  BY <1>1, Written DEF f
<1>3. up[c] \in Seq(UpFrames) /\ shot[c] \in Nat /\ n \in Nat
  BY NodesTyped DEF NodeTypes
<1>4. InOrder(<<f>>, n) /\ \A r : NotIn(<<f>>, r)
  BY <1>1 DEF InOrder, NotIn
<1>5. InOrder(up[c], shot[c])
  BY DEF LinkAgrees
<1>6. InOrder(up[c], n)
  BY <1>3, <1>5 DEF InOrder
<1>7. InOrder(up[c] \o <<f>>, n)
  <2>1. \A j \in 1..Len(<<f>>) : <<f>>[j].kind \notin TransferKinds
    BY <1>1
  <2> QED  BY <1>1, <1>3, <1>4, <1>5, <2>1, AppendedFrames
<1>8. \A r : NotIn(up[c], r) => NotIn(up[c] \o <<f>>, r)
  BY <1>1, <1>3, <1>4, AppendedNotIn
<1> QED  BY <1>2, <1>6, <1>7, <1>8

LEMMA PollStep ==
  ASSUME RigInv, NEW c \in Cameras, Poll(c), UNCHANGED piVars
  PROVE  RigInv'
<1>1. TypeOK /\ NodeTypes /\ LinkAgrees(c) /\ shot[c] \in 0..MaxShots
  BY NodesTyped DEF RigInv, NodeTypes
<1>2. /\ down' \in [Cameras -> Seq(DownFrames)]
      /\ \A d \in Cameras \ {c} : down'[d] = down[d]
      /\ \A i \in 1..Len(down'[c]) : \E j \in 1..Len(down[c]) : down'[c][i] = down[c][j]
  BY <1>1, ReadDown DEF Poll
<1>3. /\ up' \in [Cameras -> Seq(UpFrames)]
      /\ \A d \in Cameras \ {c} : up'[d] = up[d]
      /\ InOrder(up'[c], shot[c]) /\ \A r : NotIn(up[c], r) => NotIn(up'[c], r)
  <2>1. CASE Emit(c, <<Frame("HELLO", 0)>>)
    <3>1. "HELLO" \in UpKinds \ TransferKinds /\ "HELLO" \notin PhotoKinds /\ 0 \in 0..MaxShots
      BY NodeAssumption DEF UpKinds, TransferKinds, PhotoKinds
    <3>2. shot[c] <= shot[c]
      BY <1>1
    <3> QED  BY <1>1, <2>1, <3>1, <3>2, QuietFrame
  <2>2. CASE up' = up
    BY <1>1, <2>2 DEF NodeTypes, LinkAgrees
  <2> QED  BY <2>1, <2>2 DEF Poll
<1>4. previewDue' \subseteq Cameras /\ UNCHANGED <<node, shot, pressed, link, breaks>>
      /\ shot'[c] >= shot[c]
  BY <1>1 DEF Poll, NodeTypes
<1>5. NodeTypes'
  BY <1>1, <1>2, <1>3, <1>4 DEF NodeTypes
<1>6. LinkAgrees(c)' /\ \A q \in Txs : Over(c, q) => Over(c, q)'
  BY <1>1, <1>3, <1>4 DEF LinkAgrees, Over
<1> QED  BY <1>1, <1>2, <1>3, <1>4, <1>5, <1>6, LocalStep

LEMMA TakePhotoStep ==
  ASSUME RigInv, NEW c \in Cameras, TakePhoto(c), UNCHANGED piVars
  PROVE  RigInv'
<1>1. TypeOK /\ NodeTypes /\ LinkAgrees(c) /\ c \in pressed /\ shot[c] + 1 \in 1..MaxShots
      /\ shot[c] \in 0..MaxShots /\ MaxShots \in Nat
  <2>1. TypeOK /\ NodeTypes /\ LinkAgrees(c) /\ c \in pressed
    BY NodesTyped DEF RigInv, TakePhoto
  <2>2. shot[c] \in 0..MaxShots /\ shot[c] < MaxShots
    BY <2>1 DEF NodeTypes, LinkAgrees
  <2> QED  BY <2>1, <2>2, NodeAssumption
<1>2. /\ up' \in [Cameras -> Seq(UpFrames)]
      /\ \A d \in Cameras \ {c} : up'[d] = up[d]
      /\ InOrder(up'[c], shot[c] + 1) /\ \A r : NotIn(up[c], r) => NotIn(up'[c], r)
  <2>1. "CAPTURE_STARTED" \in UpKinds \ TransferKinds
    BY DEF UpKinds, TransferKinds
  <2>2. Emit(c, <<Frame("CAPTURE_STARTED", shot[c] + 1)>>)
    BY DEF TakePhoto
  <2>3. shot[c] + 1 \in 0..MaxShots /\ shot[c] <= shot[c] + 1 /\ shot[c] + 1 \in 1..(shot[c] + 1)
    BY <1>1
  <2> QED  BY <1>1, <2>1, <2>2, <2>3, QuietFrame
<1>3. /\ node' = [node EXCEPT ![c] = "shooting"] /\ shot' = [shot EXCEPT ![c] = @ + 1]
      /\ pressed' = pressed \ {c} /\ previewDue' \subseteq Cameras
      /\ UNCHANGED <<down, link, breaks>>
  BY <1>1 DEF TakePhoto, Become, NodeTypes
<1>4. node'[c] = "shooting" /\ shot'[c] = shot[c] + 1
      /\ \A d \in Cameras \ {c} : node'[d] = node[d] /\ shot'[d] = shot[d]
  BY <1>1, <1>3 DEF NodeTypes
<1>5. NodeTypes'
  <2>1. node' \in [Cameras -> NodeStates]
    BY <1>1, <1>3 DEF NodeTypes, NodeStates
  <2>2. shot' \in [Cameras -> 0..MaxShots]
    BY <1>1, <1>3 DEF NodeTypes
  <2> QED  BY <1>1, <1>2, <1>3, <2>1, <2>2 DEF NodeTypes
<1>6. NotIn(up[c], shot[c] + 1)
  <2>1. \A i \in 1..Len(up[c]) : up[c][i].kind \in TransferKinds => up[c][i].q \in 1..shot[c]
    BY <1>1 DEF LinkAgrees, InOrder, PhotoKinds, TransferKinds
  <2> QED  BY <1>1, <2>1 DEF NotIn
<1>7. LinkAgrees(c)'
  BY <1>1, <1>2, <1>3, <1>4, <1>6 DEF LinkAgrees
<1>8. \A q \in Txs : Over(c, q) => Over(c, q)'
  BY <1>1, <1>2, <1>4 DEF Over
<1>9. shot'[c] >= shot[c]
  BY <1>1, <1>4
<1> QED  BY <1>2, <1>3, <1>4, <1>5, <1>7, <1>8, <1>9, LocalStep

(* A capture that failed, or a node that gives up waiting: an ERROR.       *)
LEMMA ErrorStep ==
  ASSUME RigInv, NEW c \in Cameras, CaptureError(c) \/ AckTimeout(c), UNCHANGED piVars
  PROVE  RigInv'
<1>1. TypeOK /\ NodeTypes /\ LinkAgrees(c) /\ shot[c] \in 1..MaxShots
  BY NodesTyped DEF RigInv, LinkAgrees, CaptureError, AckTimeout
<1>2. /\ up' \in [Cameras -> Seq(UpFrames)]
      /\ \A d \in Cameras \ {c} : up'[d] = up[d]
      /\ InOrder(up'[c], shot[c]) /\ \A r : NotIn(up[c], r) => NotIn(up'[c], r)
  <2>1. "ERROR" \in UpKinds \ TransferKinds
    BY DEF UpKinds, TransferKinds
  <2>2. Emit(c, <<Frame("ERROR", shot[c])>>)
    BY DEF CaptureError, AckTimeout
  <2>3. shot[c] \in 0..MaxShots /\ shot[c] <= shot[c] /\ shot[c] \in 1..shot[c]
    BY <1>1, NodeAssumption
  <2> QED  BY <1>1, <2>1, <2>2, <2>3, QuietFrame
<1>3. /\ node' = [node EXCEPT ![c] = "idle"]
      /\ UNCHANGED <<shot, previewDue, pressed, down, link, breaks>>
  BY DEF CaptureError, AckTimeout, Become
<1>4. node'[c] = "idle" /\ \A d \in Cameras \ {c} : node'[d] = node[d]
  BY <1>1, <1>3 DEF NodeTypes
<1>5. NodeTypes'
  BY <1>1, <1>2, <1>3 DEF NodeTypes, NodeStates
<1>6. LinkAgrees(c)' /\ \A q \in Txs : Over(c, q) => Over(c, q)'
  BY <1>1, <1>2, <1>3, <1>4 DEF LinkAgrees, Over
<1>7. shot'[c] >= shot[c]
  BY <1>1, <1>3
<1> QED  BY <1>2, <1>3, <1>4, <1>5, <1>6, <1>7, LocalStep

LEMMA TransferStep ==
  ASSUME RigInv, NEW c \in Cameras, Transfer(c), UNCHANGED piVars
  PROVE  RigInv'
<1>1. TypeOK /\ NodeTypes /\ LinkAgrees(c) /\ shot[c] \in 1..MaxShots /\ node[c] = "shooting"
  BY NodesTyped DEF RigInv, LinkAgrees, Transfer
<1>2. PICK image \in {"IMAGE", "BAD_IMAGE"} :
        Emit(c, <<Frame(image, shot[c]), Frame("TRANSFER_COMPLETE", shot[c])>>)
  BY DEF Transfer
<1> DEFINE f == Frame(image, shot[c])
           g == Frame("TRANSFER_COMPLETE", shot[c])
           s == <<f, g>>
<1>3. /\ f \in UpFrames /\ g \in UpFrames /\ f.q = shot[c] /\ g.q = shot[c]
      /\ f.kind \in {"IMAGE", "BAD_IMAGE"} /\ g.kind = "TRANSFER_COMPLETE"
  <2>1. image \in UpKinds /\ "TRANSFER_COMPLETE" \in UpKinds /\ shot[c] \in 0..MaxShots
    BY <1>1, NodeAssumption DEF UpKinds
  <2> QED  BY <2>1, Frames
<1> HIDE DEF f, g
<1>4. s \in Seq(UpFrames) /\ Len(s) = 2 /\ s[1] = f /\ s[2] = g
  BY <1>3
<1>5. \A i \in 1..Len(s) : i = 1 \/ i = 2
  BY <1>4
<1> HIDE DEF s
<1>6. shot[c] \in Nat /\ shot[c] <= shot[c] /\ up[c] \in Seq(UpFrames)
      /\ InOrder(up[c], shot[c]) /\ NotIn(up[c], shot[c])
  BY <1>1 DEF NodeTypes, LinkAgrees
<1>7. InOrder(s, shot[c])
  <2>1. \A i \in 1..Len(s) : s[i].q \in 1..shot[c]
    BY <1>1, <1>3, <1>4, <1>5
  <2>2. \A i, j \in 1..Len(s) : i < j => s[i].kind # "TRANSFER_COMPLETE"
    BY <1>3, <1>4, <1>5
  <2> QED  BY <2>1, <2>2 DEF InOrder
<1>8. InOrder(up[c] \o s, shot[c])
  <2>1. \A j \in 1..Len(s) : NotIn(up[c], s[j].q)
    BY <1>3, <1>4, <1>5, <1>6
  <2> QED  BY <1>4, <1>6, <1>7, <2>1, AppendedFrames
<1>9. \A r : r # shot[c] /\ NotIn(up[c], r) => NotIn(up[c] \o s, r)
  <2>1. \A r : r # shot[c] => NotIn(s, r)
    BY <1>3, <1>4, <1>5 DEF NotIn
  <2> QED  BY <1>4, <1>6, <2>1, AppendedNotIn
<1>10. Emit(c, s)
  BY <1>2 DEF s, f, g
<1>11. /\ up' \in [Cameras -> Seq(UpFrames)] /\ up'[c] \in {up[c], up[c] \o s}
       /\ \A d \in Cameras \ {c} : up'[d] = up[d]
  BY <1>1, <1>4, <1>10, Written
<1>12. /\ node' = [node EXCEPT ![c] = IF link[c] = "attached" THEN "waiting" ELSE "idle"]
       /\ UNCHANGED <<shot, previewDue, pressed, down, link, breaks>>
  BY DEF Transfer, Become
<1>13. node'[c] \in {"waiting", "idle"} /\ \A d \in Cameras \ {c} : node'[d] = node[d]
  BY <1>1, <1>12 DEF NodeTypes
<1>14. NodeTypes'
  BY <1>1, <1>11, <1>12 DEF NodeTypes, NodeStates
<1>15. LinkAgrees(c)'
  BY <1>1, <1>6, <1>8, <1>11, <1>12, <1>13 DEF LinkAgrees
<1>16. \A q \in Txs : Over(c, q) => Over(c, q)'
  BY <1>1, <1>9, <1>11, <1>12, <1>13 DEF Over
<1>17. shot'[c] >= shot[c]
  BY <1>6, <1>12
<1> QED  BY <1>11, <1>12, <1>13, <1>14, <1>15, <1>16, <1>17, LocalStep

LEMMA ReadReplyStep ==
  ASSUME RigInv, NEW c \in Cameras, ReadReply(c), UNCHANGED piVars
  PROVE  RigInv'
<1>1. TypeOK /\ NodeTypes /\ LinkAgrees(c) /\ shot[c] \in 1..MaxShots
  BY NodesTyped DEF RigInv, LinkAgrees, ReadReply
<1>2. /\ down' \in [Cameras -> Seq(DownFrames)]
      /\ \A d \in Cameras \ {c} : down'[d] = down[d]
      /\ \A i \in 1..Len(down'[c]) : \E j \in 1..Len(down[c]) : down'[c][i] = down[c][j]
  BY <1>1, ReadDown DEF ReadReply
<1>3. /\ \E state \in {"idle", "waiting"} : node' = [node EXCEPT ![c] = state]
      /\ UNCHANGED <<shot, previewDue, pressed, up, link, breaks>>
  BY DEF ReadReply, Become
<1>4. node'[c] \in {"waiting", "idle"} /\ \A d \in Cameras \ {c} : node'[d] = node[d]
  BY <1>1, <1>3 DEF NodeTypes
<1>5. NodeTypes'
  BY <1>1, <1>2, <1>3 DEF NodeTypes, NodeStates
<1>6. LinkAgrees(c)' /\ \A q \in Txs : Over(c, q) => Over(c, q)'
  BY <1>1, <1>3, <1>4 DEF LinkAgrees, Over
<1>7. shot'[c] >= shot[c]
  BY <1>1, <1>3
<1> QED  BY <1>2, <1>3, <1>4, <1>5, <1>6, <1>7, LocalStep

LEMMA SendPreviewStep ==
  ASSUME RigInv, NEW c \in Cameras, SendPreview(c), UNCHANGED piVars
  PROVE  RigInv'
<1>1. TypeOK /\ NodeTypes /\ LinkAgrees(c) /\ shot[c] \in 0..MaxShots
  BY NodesTyped DEF RigInv, NodeTypes
<1>2. /\ up' \in [Cameras -> Seq(UpFrames)]
      /\ \A d \in Cameras \ {c} : up'[d] = up[d]
      /\ InOrder(up'[c], shot[c]) /\ \A r : NotIn(up[c], r) => NotIn(up'[c], r)
  <2>1. CASE Emit(c, <<Frame("PREVIEW_IMAGE", 0)>>)
    <3>1. "PREVIEW_IMAGE" \in UpKinds \ TransferKinds /\ "PREVIEW_IMAGE" \notin PhotoKinds
          /\ 0 \in 0..MaxShots
      BY NodeAssumption DEF UpKinds, TransferKinds, PhotoKinds
    <3>2. shot[c] <= shot[c]
      BY <1>1
    <3> QED  BY <1>1, <2>1, <3>1, <3>2, QuietFrame
  <2>2. CASE up' = up
    BY <1>1, <2>2 DEF NodeTypes, LinkAgrees
  <2> QED  BY <2>1, <2>2 DEF SendPreview
<1>3. previewDue' \subseteq Cameras /\ UNCHANGED <<node, shot, pressed, down, link, breaks>>
      /\ shot'[c] >= shot[c]
  BY <1>1 DEF SendPreview, NodeTypes
<1>4. NodeTypes'
  BY <1>1, <1>2, <1>3 DEF NodeTypes
<1>5. LinkAgrees(c)' /\ \A q \in Txs : Over(c, q) => Over(c, q)'
  BY <1>1, <1>2, <1>3 DEF LinkAgrees, Over
<1> QED  BY <1>2, <1>3, <1>4, <1>5, LocalStep

LEMMA SetupStep ==
  ASSUME RigInv, NEW c \in Cameras, Setup(c), UNCHANGED piVars
  PROVE  RigInv'
<1>1. TypeOK /\ NodeTypes /\ LinkAgrees(c) /\ shot[c] \in 0..MaxShots
  BY NodesTyped DEF RigInv, NodeTypes
<1>2. /\ up' \in [Cameras -> Seq(UpFrames)]
      /\ \A d \in Cameras \ {c} : up'[d] = up[d]
      /\ InOrder(up'[c], shot[c]) /\ \A r : NotIn(up[c], r) => NotIn(up'[c], r)
  <2>1. "HELLO" \in UpKinds \ TransferKinds /\ "HELLO" \notin PhotoKinds /\ 0 \in 0..MaxShots
    BY NodeAssumption DEF UpKinds, TransferKinds, PhotoKinds
  <2>2. Emit(c, <<Frame("HELLO", 0)>>) /\ shot[c] <= shot[c]
    BY <1>1 DEF Setup
  <2> QED  BY <1>1, <2>1, <2>2, QuietFrame
<1>3. node' = [node EXCEPT ![c] = "idle"]
      /\ UNCHANGED <<shot, previewDue, pressed, down, link, breaks>> /\ shot'[c] >= shot[c]
  BY <1>1 DEF Setup, Become
<1>4. node'[c] = "idle" /\ \A d \in Cameras \ {c} : node'[d] = node[d]
  BY <1>1, <1>3 DEF NodeTypes
<1>5. NodeTypes'
  BY <1>1, <1>2, <1>3 DEF NodeTypes, NodeStates
<1>6. LinkAgrees(c)' /\ \A q \in Txs : Over(c, q) => Over(c, q)'
  BY <1>1, <1>2, <1>3, <1>4 DEF LinkAgrees, Over
<1> QED  BY <1>2, <1>3, <1>4, <1>5, <1>6, LocalStep

(* A broken stream leaves a prefix of what was sent.                       *)
LEMMA CutLink ==
  ASSUME NodeTypes, NEW c \in Cameras, LinkAgrees(c),
         \E n \in {0, 1} \cap 0..Len(up[c]) : up' = [up EXCEPT ![c] = SubSeq(@, 1, n)]
  PROVE  /\ up' \in [Cameras -> Seq(UpFrames)]
         /\ \A d \in Cameras \ {c} : up'[d] = up[d]
         /\ InOrder(up'[c], shot[c]) /\ \A r : NotIn(up[c], r) => NotIn(up'[c], r)
<1>1. PICK n \in {0, 1} \cap 0..Len(up[c]) : up' = [up EXCEPT ![c] = SubSeq(@, 1, n)]
  OBVIOUS
<1>2. up[c] \in Seq(UpFrames) /\ n \in 0..Len(up[c]) /\ InOrder(up[c], shot[c])
  BY DEF NodeTypes, LinkAgrees
<1>3. /\ SubSeq(up[c], 1, n) \in Seq(UpFrames) /\ InOrder(SubSeq(up[c], 1, n), shot[c])
      /\ \A r : NotIn(up[c], r) => NotIn(SubSeq(up[c], 1, n), r)
  BY <1>2, PrefixOfLink
<1> QED  BY <1>1, <1>3 DEF NodeTypes

LEMMA CableStep ==
  ASSUME RigInv, NEW c \in Cameras, Cable(c), UNCHANGED piVars
  PROVE  RigInv'
<1>1. NodeTypes /\ LinkAgrees(c) /\ shot[c] \in 0..MaxShots
  BY NodesTyped DEF RigInv, NodeTypes
<1>2. CASE Unplug(c)
  <2>1. /\ up' \in [Cameras -> Seq(UpFrames)]
        /\ \A d \in Cameras \ {c} : up'[d] = up[d]
        /\ InOrder(up'[c], shot[c]) /\ \A r : NotIn(up[c], r) => NotIn(up'[c], r)
    BY <1>1, <1>2, CutLink DEF Unplug
  <2>2. /\ link' = [link EXCEPT ![c] = "down"] /\ node' = [node EXCEPT ![c] = "off"]
        /\ previewDue' = previewDue \ {c} /\ pressed' = pressed \ {c}
        /\ down' = [down EXCEPT ![c] = <<>>] /\ breaks' = breaks + 1 /\ breaks < MaxBreaks
        /\ shot' = shot /\ shot'[c] >= shot[c]
    BY <1>1, <1>2 DEF Unplug, Become
  <2>3. node'[c] = "off" /\ \A d \in Cameras \ {c} : node'[d] = node[d] /\ down'[d] = down[d]
    BY <1>1, <2>2 DEF NodeTypes
  <2>4. NodeTypes'
    <3>1. breaks' \in 0..MaxBreaks
      BY <1>1, <2>2, NodeAssumption DEF NodeTypes
    <3>2. <<>> \in Seq(DownFrames)
      OBVIOUS
    <3> QED  BY <1>1, <2>1, <2>2, <3>1, <3>2 DEF NodeTypes, NodeStates, LinkStates
  <2>5. LinkAgrees(c)' /\ \A q \in Txs : Over(c, q) => Over(c, q)'
    BY <1>1, <2>1, <2>2, <2>3 DEF LinkAgrees, Over
  <2>6. down'[c] = <<>>
    BY <1>1, <2>2 DEF NodeTypes
  <2> QED  BY <2>1, <2>2, <2>3, <2>4, <2>5, <2>6, LocalStep
<1>3. CASE PlugIn(c)
  <2>1. /\ link' = [link EXCEPT ![c] = "up"] /\ node' = [node EXCEPT ![c] = "booting"]
        /\ UNCHANGED <<shot, previewDue, pressed, up, down, breaks>> /\ shot'[c] >= shot[c]
    BY <1>1, <1>3 DEF PlugIn, Become
  <2>2. node'[c] = "booting" /\ \A d \in Cameras \ {c} : node'[d] = node[d]
    BY <1>1, <2>1 DEF NodeTypes
  <2>3. NodeTypes'
    BY <1>1, <2>1 DEF NodeTypes, NodeStates, LinkStates
  <2>4. LinkAgrees(c)' /\ \A q \in Txs : Over(c, q) => Over(c, q)'
    BY <1>1, <2>1, <2>2 DEF LinkAgrees, Over
  <2> QED  BY <2>1, <2>2, <2>3, <2>4, LocalStep
<1>4. CASE Glitch(c)
  <2>1. /\ up' \in [Cameras -> Seq(UpFrames)]
        /\ \A d \in Cameras \ {c} : up'[d] = up[d]
        /\ InOrder(up'[c], shot[c]) /\ \A r : NotIn(up[c], r) => NotIn(up'[c], r)
    BY <1>1, <1>4, CutLink DEF Glitch
  <2>2. /\ link' = [link EXCEPT ![c] = "up"] /\ breaks' = breaks + 1 /\ breaks < MaxBreaks
        /\ UNCHANGED <<node, shot, previewDue, pressed, down>> /\ shot'[c] >= shot[c]
    BY <1>1, <1>4 DEF Glitch
  <2>3. NodeTypes'
    <3>1. breaks' \in 0..MaxBreaks
      BY <1>1, <2>2, NodeAssumption DEF NodeTypes
    <3> QED  BY <1>1, <2>1, <2>2, <3>1 DEF NodeTypes, LinkStates
  <2>4. LinkAgrees(c)' /\ \A q \in Txs : Over(c, q) => Over(c, q)'
    BY <1>1, <2>1, <2>2 DEF LinkAgrees, Over
  <2> QED  BY <2>1, <2>2, <2>3, <2>4, LocalStep
<1> QED  BY <1>2, <1>3, <1>4 DEF Cable

-----------------------------------------------------------------------------
(* The answers that are given when a set is closed.                        *)
AnswerSet   == {"ACK", "NACK"} \X Cameras \X Txs
TableStates == [started : SUBSET Tx, images : SUBSET Tx, rejected : SUBSET Tx,
                acks : Seq([cam : Cameras, q : Txs, live : BOOLEAN])]

LEMMA NumbersFacts ==
  /\ MaxShots \in Nat /\ Txs \subseteq Nat /\ NoTx \notin Txs /\ 0 \in 0..MaxShots
  /\ Txs \subseteq 0..MaxShots
BY NodeAssumption DEF Txs, NoTx

(* They go to the cameras whose images are in the set, for the photos that *)
(* are, and an ACK only if the set was committed.                          *)
LEMMA SentFacts ==
  ASSUME NEW a \in ActiveCaptures(Txs), NEW t \in TableStates, TablesFit(a, t),
         NEW committed \in BOOLEAN
  PROVE  LET sent == AnswersSent(t.acks, a.images, committed)
         IN  /\ sent \subseteq AnswerSet
             /\ \A kind, c, q : <<kind, c, q>> \in sent =>
                  /\ c \in a.images /\ a.tx[c] = q
                  /\ kind = "ACK" => committed
<1> DEFINE sent == AnswersSent(t.acks, a.images, committed)
<1>1. t.acks \in Seq([cam : Cameras, q : Txs, live : BOOLEAN])
  BY DEF TableStates
<1>2. ASSUME NEW i \in 1..Len(t.acks)
      PROVE  /\ t.acks[i].cam \in Cameras /\ t.acks[i].q \in Txs
             /\ t.acks[i].cam \in a.images /\ a.tx[t.acks[i].cam] = t.acks[i].q
  <2>1. t.acks[i] \in [cam : Cameras, q : Txs, live : BOOLEAN]
    BY <1>1, ElementOfSeq
  <2>2. <<t.acks[i].cam, t.acks[i].q>> \in {p \in Transactions(a) : p[1] \in a.images}
    BY DEF TablesFit
  <2>3. <<t.acks[i].cam, t.acks[i].q>> \in Transactions(a) /\ t.acks[i].cam \in a.images
    BY <2>2
  <2> QED  BY <2>1, <2>3, TransactionOf
<1>3. ASSUME NEW m \in sent
      PROVE  \E kind \in {"ACK", "NACK"}, i \in 1..Len(t.acks) :
               m = <<kind, t.acks[i].cam, t.acks[i].q>> /\ (kind = "ACK" => committed)
  BY DEF AnswersSent
<1> HIDE DEF sent
<1>4. sent \subseteq AnswerSet
  BY <1>2, <1>3 DEF AnswerSet
<1>5. ASSUME NEW kind, NEW c, NEW q, <<kind, c, q>> \in sent
      PROVE  /\ c \in a.images /\ a.tx[c] = q
             /\ kind = "ACK" => committed
  BY <1>2, <1>3, <1>5
<1> QED  BY <1>4, <1>5 DEF sent

LEMMA AnsweredFacts ==
  ASSUME NEW d \in [Cameras -> Seq(DownFrames)], NEW sent \in SUBSET AnswerSet, NEW g,
         AnswersComeFromPi(d, g)
  PROVE  /\ Answered(d, sent) \in [Cameras -> Seq(DownFrames)]
         /\ AnswersComeFromPi(Answered(d, sent), g \cup sent)
<1> DEFINE of(c, kind) == {m \in sent : m[1] = kind /\ m[2] = c}
           frames(c, kind) == IF of(c, kind) = {} THEN <<>>
                              ELSE <<Frame(kind, (CHOOSE m \in of(c, kind) : TRUE)[3])>>
<1>1. Answered(d, sent) = [c \in Cameras |-> d[c] \o frames(c, "ACK") \o frames(c, "NACK")]
  BY DEF Answered
<1>2. ASSUME NEW c \in Cameras, NEW kind \in {"ACK", "NACK"}
      PROVE  /\ frames(c, kind) \in Seq(DownFrames)
             /\ \A i \in 1..Len(frames(c, kind)) :
                  <<frames(c, kind)[i].kind, c, frames(c, kind)[i].q>> \in sent
  <2>1. CASE of(c, kind) = {}
    BY <2>1
  <2>2. CASE of(c, kind) # {}
    <3>1. PICK m : m = CHOOSE x \in of(c, kind) : TRUE
      OBVIOUS
    <3>2. m \in of(c, kind)
      BY <2>2, <3>1
    <3>3. m \in sent /\ m[1] = kind /\ m[2] = c /\ m \in {"ACK", "NACK"} \X Cameras \X Txs
      BY <3>2 DEF AnswerSet
    <3>4. m = <<kind, c, m[3]>> /\ m[3] \in Txs
      BY <3>3
    <3>5. m[3] \in 0..MaxShots /\ kind \in DownKinds
      BY <3>4, NumbersFacts DEF DownKinds
    <3>6. PICK f : f = Frame(kind, m[3])
      OBVIOUS
    <3>7. f \in DownFrames /\ f.kind = kind /\ f.q = m[3]
      BY <3>6, <3>5, Frames
    <3>8. frames(c, kind) = <<f>>
      BY <2>2, <3>1, <3>6
    <3> HIDE DEF frames, of
    <3>9. <<f>> \in Seq(DownFrames) /\ \A i \in 1..Len(<<f>>) : <<f>>[i] = f
      BY <3>7
    <3>10. <<f.kind, c, f.q>> \in sent
      BY <3>3, <3>4, <3>7
    <3> QED  BY <3>8, <3>9, <3>10
  <2> QED  BY <2>1, <2>2
<1> HIDE DEF frames
<1>3. ASSUME NEW c \in Cameras
      PROVE  LET l == d[c] \o frames(c, "ACK") \o frames(c, "NACK")
             IN  /\ l \in Seq(DownFrames)
                 /\ \A i \in 1..Len(l) :
                      l[i].kind \in {"ACK", "NACK"} => <<l[i].kind, c, l[i].q>> \in g \cup sent
  <2>1. PICK s : s = d[c]
    OBVIOUS
  <2>2. PICK x : x = frames(c, "ACK")
    OBVIOUS
  <2>3. PICK y : y = frames(c, "NACK")
    OBVIOUS
  <2>4. s \in Seq(DownFrames) /\ x \in Seq(DownFrames) /\ y \in Seq(DownFrames)
    BY <1>2, <2>1, <2>2, <2>3
  <2>5. /\ s \o x \in Seq(DownFrames) /\ Len(s \o x) = Len(s) + Len(x)
        /\ \A i \in 1..Len(s \o x) : (s \o x)[i] = IF i <= Len(s) THEN s[i] ELSE x[i - Len(s)]
    BY <2>4, ConcatProperties
  <2>6. PICK z : z = s \o x
    OBVIOUS
  <2>7. /\ z \o y \in Seq(DownFrames) /\ Len(z \o y) = Len(z) + Len(y)
        /\ \A i \in 1..Len(z \o y) : (z \o y)[i] = IF i <= Len(z) THEN z[i] ELSE y[i - Len(z)]
    BY <2>4, <2>5, <2>6, ConcatProperties
  <2>8. Len(s) \in Nat /\ Len(x) \in Nat /\ Len(y) \in Nat /\ Len(z) = Len(s) + Len(x)
    BY <2>4, <2>5, <2>6, LenProperties
  <2>9. ASSUME NEW i \in 1..Len(z \o y)
        PROVE  \/ \E j \in 1..Len(s) : (z \o y)[i] = s[j]
               \/ \E j \in 1..Len(x) : (z \o y)[i] = x[j]
               \/ \E j \in 1..Len(y) : (z \o y)[i] = y[j]
    <3>1. CASE i <= Len(s)
      <4>1. i \in 1..Len(s) /\ i \in 1..Len(z) /\ (z \o y)[i] = z[i] /\ z[i] = s[i]
        BY <2>5, <2>6, <2>7, <2>8, <3>1
      <4> QED  BY <4>1
    <3>2. CASE i > Len(s) /\ i <= Len(z)
      <4>1. i - Len(s) \in 1..Len(x) /\ (z \o y)[i] = z[i] /\ z[i] = x[i - Len(s)]
        BY <2>5, <2>6, <2>7, <2>8, <3>2
      <4> QED  BY <4>1
    <3>3. CASE i > Len(z)
      <4>1. i - Len(z) \in 1..Len(y) /\ (z \o y)[i] = y[i - Len(z)]
        BY <2>7, <2>8, <3>3
      <4> QED  BY <4>1
    <3>4. i <= Len(s) \/ (i > Len(s) /\ i <= Len(z)) \/ i > Len(z)
      BY <2>7, <2>8
    <3> QED  BY <3>1, <3>2, <3>3, <3>4, Zenon
  <2>10. \A i \in 1..Len(s) : s[i].kind \in {"ACK", "NACK"} => <<s[i].kind, c, s[i].q>> \in g
    BY <2>1 DEF AnswersComeFromPi
  <2>11. /\ \A i \in 1..Len(x) : <<x[i].kind, c, x[i].q>> \in sent
         /\ \A i \in 1..Len(y) : <<y[i].kind, c, y[i].q>> \in sent
    BY <1>2, <2>2, <2>3
  <2>12. \A i \in 1..Len(z \o y) :
           (z \o y)[i].kind \in {"ACK", "NACK"} =>
             <<(z \o y)[i].kind, c, (z \o y)[i].q>> \in g \cup sent
    BY <2>9, <2>10, <2>11
  <2> QED  BY <2>1, <2>2, <2>3, <2>6, <2>7, <2>12
<1>4. Answered(d, sent) \in [Cameras -> Seq(DownFrames)]
  BY <1>1, <1>3
<1>5. AnswersComeFromPi(Answered(d, sent), g \cup sent)
  BY <1>1, <1>3 DEF AnswersComeFromPi
<1> QED  BY <1>4, <1>5

-----------------------------------------------------------------------------
(* What a handler hands to FinalizeIfReady: the set a, the tables t, the   *)
(* links d down to the nodes and the answers g given so far.               *)
HandedOver(a, t, d, g) ==
  /\ a \in ActiveCaptures(Txs) /\ t \in TableStates
  /\ d \in [Cameras -> Seq(DownFrames)] /\ g \subseteq AnswerSet /\ answers \subseteq g
  /\ TablesFit(a, t) /\ Collecting(a)
  /\ AnswersComeFromPi(d, g)
  /\ \A c \in Cameras, q \in Txs : <<"ACK", c, q>> \in g => <<"ACK", c, q>> \in answers

Kept(a, t, d, g) ==
  /\ active' = a /\ tables' = t /\ down' = d /\ answers' = g
  /\ UNCHANGED <<seen, published>>

Closed(a, t, d, g) ==
  \E committed \in CommitOutcomes :
    LET sent == AnswersSent(t.acks, a.images, committed)
    IN  /\ published' = IF committed THEN Append(published, Completed(a)) ELSE published
        /\ down' = Answered(d, sent)
        /\ answers' = g \cup sent
        /\ active' = Idle
        /\ seen' = seen \cup Transactions(a)
        /\ tables' = NoTables

LEMMA ClosedOrKept ==
  ASSUME NEW a, NEW t, NEW d, NEW given, NEW lag, FinalizeIfReady(a, t, d, given, lag)
  PROVE  \/ /\ Kept(a, t, d, answers \cup given)
            /\ UNCHANGED <<pending, auto>>
         \/ /\ Closed(a, t, d, answers \cup given)
            /\ pending' = NoTrigger /\ auto' = AttemptFinished
BY DEF FinalizeIfReady, Kept, Closed

(* What a step of the Pi may do to the photos: answer some, and store a    *)
(* set in which none has been refused before.                              *)
FatesMove ==
  /\ UNCHANGED shot /\ answers \subseteq answers'
  /\ \/ published' = published
     \/ \E a \in ActiveCaptures(Txs) :
          /\ published' = Append(published, Completed(a))
          /\ \A c \in a.images : <<"NACK", c, a.tx[c]>> \notin answers

(* The variables of the capture keep their types.                          *)
CaptureTypes ==
  /\ active \in ActiveCaptures(Txs) /\ tables \in TableStates
  /\ down \in [Cameras -> Seq(DownFrames)] /\ answers \subseteq AnswerSet
  /\ seen \subseteq Tx /\ published \in Seq(CompletedCaptures(Txs))

LEMMA CapturesTyped == TypeOK => CaptureTypes
BY DEF TypeOK, CaptureTypes, TableStates, AnswerSet, DownFrames

LEMMA CaptureKept ==
  ASSUME RigInv, UNCHANGED shot, NEW a, NEW t, NEW d, NEW g,
         HandedOver(a, t, d, g), (ImagesAreOver(a) /\ AnswersAgree(a, g))', Kept(a, t, d, g)
  PROVE  (CaptureTypes /\ AnswersComeFromPi(down, answers) /\ CaptureAgrees)' /\ FatesMove
<1>1. CaptureTypes /\ PublishedAgrees /\ AckMeansPublished
  BY CapturesTyped DEF RigInv, CaptureAgrees
<1>2. /\ active' = a /\ tables' = t /\ down' = d /\ answers' = g
      /\ seen' = seen /\ published' = published
  BY DEF Kept
<1>3. CaptureTypes'
  BY <1>1, <1>2 DEF CaptureTypes, HandedOver
<1>4. AnswersComeFromPi(down', answers')
  BY <1>2 DEF HandedOver
<1>5. TablesFit(active', tables') /\ Collecting(active)'
  BY <1>2 DEF HandedOver, Collecting
<1>6. PublishedAgrees'
  BY <1>1, <1>2 DEF PublishedAgrees
<1>7. ImagesAreOver(active)' /\ AnswersAgree(active, answers)'
  BY <1>2
<1>8. AckMeansPublished'
  BY <1>1, <1>2 DEF AckMeansPublished, HandedOver, Imaged, PublishedOf
<1>9. FatesMove
  BY <1>2 DEF FatesMove, HandedOver
<1> QED  BY <1>3, <1>4, <1>5, <1>6, <1>7, <1>8, <1>9
            DEF CaptureAgrees, AnswersComeFromPi, TablesFit

LEMMA CaptureClosed ==
  ASSUME RigInv, UNCHANGED shot, NEW a, NEW t, NEW d, NEW g,
         HandedOver(a, t, d, g), (ImagesAreOver(a) /\ AnswersAgree(a, g))', Closed(a, t, d, g)
  PROVE  (CaptureTypes /\ AnswersComeFromPi(down, answers) /\ CaptureAgrees)' /\ FatesMove
<1>1. CaptureTypes /\ PublishedAgrees /\ AckMeansPublished
  BY CapturesTyped DEF RigInv, CaptureAgrees
<1>2. PICK committed, sent :
        /\ committed \in CommitOutcomes /\ sent = AnswersSent(t.acks, a.images, committed)
        /\ published' = IF committed THEN Append(published, Completed(a)) ELSE published
        /\ down' = Answered(d, sent) /\ answers' = g \cup sent
        /\ active' = Idle /\ seen' = seen \cup Transactions(a) /\ tables' = NoTables
  BY DEF Closed
<1>3. committed \in BOOLEAN
  BY <1>2, ReceiverAssumption
<1>4. a \in ActiveCaptures(Txs) /\ t \in TableStates /\ TablesFit(a, t) /\ Collecting(a)
  BY DEF HandedOver
<1>5. /\ sent \subseteq AnswerSet
      /\ \A kind, c, q : <<kind, c, q>> \in sent =>
           /\ c \in a.images /\ a.tx[c] = q
           /\ kind = "ACK" => committed
  BY <1>2, <1>3, <1>4, SentFacts
<1>6. down' \in [Cameras -> Seq(DownFrames)] /\ AnswersComeFromPi(down', answers')
  BY <1>2, <1>5, AnsweredFacts DEF HandedOver
<1>7. PICK n : n = Len(published)
  OBVIOUS
<1>8. n \in Nat /\ \A i \in 1..n : published[i] \in CompletedCaptures(Txs)
  BY <1>1, <1>7, ElementOfSeq, LenProperties DEF CaptureTypes
<1>9. Completed(a) \in CompletedCaptures(Txs) /\ Transactions(a) \subseteq Tx
  BY <1>4, CompletedType, TransactionsType DEF Tx
<1>10. \/ published' = published
       \/ /\ committed /\ published' \in Seq(CompletedCaptures(Txs)) /\ Len(published') = n + 1
          /\ \A i \in 1..n : published'[i] = published[i]
          /\ published'[n + 1] = Completed(a)
  BY <1>1, <1>2, <1>7, <1>9, AppendProperties DEF CaptureTypes
<1>11. CaptureTypes'
  <2>1. active' \in ActiveCaptures(Txs) /\ tables' \in TableStates
    BY <1>2, IdleType DEF NoTables, TableStates
  <2>2. answers' \subseteq AnswerSet /\ seen' \subseteq Tx
    BY <1>1, <1>2, <1>5, <1>9 DEF CaptureTypes, HandedOver
  <2>3. published' \in Seq(CompletedCaptures(Txs))
    BY <1>1, <1>10 DEF CaptureTypes
  <2> QED  BY <1>6, <2>1, <2>2, <2>3 DEF CaptureTypes
<1>12. Started(Idle) = {} /\ Transactions(Idle) = {} /\ Idle.images = {} /\ ~Idle.open
  BY IdleType DEF Transactions, Idle
<1>13. TablesFit(active', tables') /\ Collecting(active)'
  <2>1. Cardinality({}) = 0 /\ Len(<<>>) = 0
    BY FS_EmptySet
  <2> QED  BY <1>2, <1>12, <2>1 DEF TablesFit, NoTables, Collecting
<1>14. PublishedAgrees'
  <2>1. CASE published' = published
    BY <1>1, <1>2, <2>1 DEF PublishedAgrees
  <2>2. CASE published' # published
    <3>1. /\ Len(published') = n + 1 /\ \A i \in 1..n : published'[i] = published[i]
          /\ published'[n + 1].tx = a.tx /\ published'[n + 1].images = a.images
      BY <1>10, <2>2 DEF Completed
    <3>2. ASSUME NEW i \in 1..Len(published')
          PROVE  /\ \A c \in Cameras : published'[i].tx[c] # NoTx => <<c, published'[i].tx[c]>> \in seen'
                 /\ \A c \in published'[i].images : published'[i].tx[c] \in 1..shot'[c]
      <4>1. CASE i \in 1..n
        BY <1>1, <1>2, <1>7, <3>1, <4>1 DEF PublishedAgrees
      <4>2. CASE i = n + 1
        <5>1. \A c \in Cameras : a.tx[c] # NoTx => <<c, a.tx[c]>> \in seen'
          BY <1>2, <1>4, TransactionOf
        <5>2. \A c \in a.images : a.tx[c] \in 1..shot'[c]
          BY DEF ImagesAreOver, Over
        <5> QED  BY <3>1, <4>2, <5>1, <5>2
      <4> QED  BY <1>8, <3>1, <4>1, <4>2
    <3>3. ASSUME NEW i \in 1..n, NEW c \in Cameras, published[i].tx[c] # NoTx
          PROVE  published[i].tx[c] # a.tx[c]
      <4>1. <<c, published[i].tx[c]>> \in seen
        BY <1>1, <1>7, <3>3 DEF PublishedAgrees
      <4>2. <<c, published[i].tx[c]>> \notin Transactions(a)
        BY <1>4, <4>1 DEF Collecting
      <4> QED  BY <1>4, <3>3, <4>2, TransactionOf
    <3>4. ASSUME NEW i \in 1..Len(published'), NEW j \in 1..Len(published'), NEW c \in Cameras,
                 published'[i].tx[c] # NoTx, published'[i].tx[c] = published'[j].tx[c]
          PROVE  i = j
      <4>1. CASE i \in 1..n /\ j \in 1..n
        BY <1>1, <1>7, <3>1, <3>4, <4>1 DEF PublishedAgrees
      <4>2. CASE i \in 1..n /\ j = n + 1
        BY <3>1, <3>3, <3>4, <4>2
      <4>3. CASE i = n + 1 /\ j \in 1..n
        BY <3>1, <3>3, <3>4, <4>3
      <4> QED  BY <1>8, <3>1, <4>1, <4>2, <4>3
    <3> QED  BY <3>2, <3>4 DEF PublishedAgrees
  <2> QED  BY <2>1, <2>2
<1>15. ImagesAreOver(active)' /\ AnswersAgree(active, answers)'
  <2>1. \A c \in Cameras, q \in Txs, kind \in {"ACK", "NACK"} :
          <<kind, c, q>> \in answers' => Over(c, q)'
    <3>1. SUFFICES ASSUME NEW c \in Cameras, NEW q \in Txs, NEW kind \in {"ACK", "NACK"},
                          <<kind, c, q>> \in answers'
                   PROVE  Over(c, q)'
      OBVIOUS
    <3>2. CASE <<kind, c, q>> \in g
      BY <3>2 DEF AnswersAgree
    <3>3. CASE <<kind, c, q>> \in sent
      BY <1>5, <3>3 DEF ImagesAreOver
    <3> QED  BY <1>2, <3>1, <3>2, <3>3
  <2> QED  BY <1>2, <1>12, <2>1 DEF ImagesAreOver, AnswersAgree
<1>16. AckMeansPublished'
  <2>1. ASSUME NEW c \in Cameras, NEW q \in Txs, <<"ACK", c, q>> \in answers'
        PROVE  \E i \in 1..Len(published') : published'[i].tx[c] = q /\ c \in published'[i].images
    <3>1. CASE <<"ACK", c, q>> \in g
      <4>1. PICK i \in 1..n : published[i].tx[c] = q /\ c \in published[i].images
        BY <1>1, <1>7, <3>1 DEF HandedOver, AckMeansPublished, Imaged, PublishedOf
      <4>2. i \in 1..Len(published') /\ published'[i] = published[i]
        BY <1>7, <1>8, <1>10
      <4> QED  BY <4>1, <4>2
    <3>2. CASE <<"ACK", c, q>> \in sent
      <4>1. committed /\ c \in a.images /\ a.tx[c] = q
        BY <1>5, <3>2
      <4>2. published' = Append(published, Completed(a))
        BY <1>2, <4>1
      <4>3. Len(published') = n + 1 /\ published'[n + 1] = Completed(a)
        BY <1>1, <1>7, <1>9, <4>2, AppendProperties DEF CaptureTypes
      <4>4. n + 1 \in 1..Len(published') /\ published'[n + 1].tx[c] = q
            /\ c \in published'[n + 1].images
        BY <1>8, <4>1, <4>3 DEF Completed
      <4> QED  BY <4>4
    <3> QED  BY <1>2, <2>1, <3>1, <3>2
  <2> QED  BY <2>1 DEF AckMeansPublished, Imaged, PublishedOf
<1>17. FatesMove
  <2>1. \A c \in a.images : c \in Cameras /\ a.tx[c] \in Txs
    BY <1>4 DEF Collecting, Started, ActiveCaptures
  <2>2. \A c \in a.images : <<"NACK", c, a.tx[c]>> \notin g
    BY <2>1 DEF AnswersAgree
  <2> QED  BY <1>2, <1>4, <2>2 DEF FatesMove, HandedOver
<1> QED  BY <1>6, <1>11, <1>13, <1>14, <1>15, <1>16, <1>17
            DEF CaptureAgrees, AnswersComeFromPi, TablesFit

-----------------------------------------------------------------------------
(* The links up, from which a session reads and which an attachment clears.*)
LinksRead ==
  /\ up' \in [Cameras -> Seq(UpFrames)]
  /\ \A c \in Cameras : \/ up'[c] = up[c] \/ up'[c] = <<>>
                        \/ up[c] # <<>> /\ up'[c] = Tail(up[c])

LEMMA LinksKept ==
  ASSUME RigInv, UNCHANGED <<node, shot>>, LinksRead,
         \A c \in pressed' : c \in pressed \/ shot[c] < MaxShots
  PROVE  (\A c \in Cameras : LinkAgrees(c))' /\ \A c \in Cameras : \A q : Over(c, q) => Over(c, q)'
<1>1. ASSUME NEW c \in Cameras
      PROVE  /\ InOrder(up[c], shot[c]) => InOrder(up'[c], shot[c])
             /\ \A q : NotIn(up[c], q) => NotIn(up'[c], q)
  <2>1. up[c] \in Seq(UpFrames)
    BY NodesTyped DEF RigInv, NodeTypes
  <2>2. CASE up'[c] = up[c]
    BY <2>2
  <2>3. CASE up'[c] = <<>>
    BY <2>3, EmptyLink
  <2>4. CASE up[c] # <<>> /\ up'[c] = Tail(up[c])
    BY <2>1, <2>4, TailOfLink
  <2> QED  BY <2>2, <2>3, <2>4 DEF LinksRead
<1>2. \A c \in Cameras : LinkAgrees(c)'
  BY <1>1 DEF RigInv, LinkAgrees
<1>3. \A c \in Cameras : \A q : Over(c, q) => Over(c, q)'
  BY <1>1 DEF Over
<1> QED  BY <1>2, <1>3

(* The rest of the Pi's variables.                                         *)
SessionTypes ==
  /\ sess \in [Cameras -> {"off", "opening", "registered", "open"}]
  /\ current \in [Cameras -> 0..MaxShots]
Previews == [wanted : BOOLEAN, outstanding : Cameras \cup {NoCam},
             index : 0..(Cardinality(Cameras) - 1)]
MainTypes ==
  /\ commands \in Seq(UiCommands)
  /\ preview \in Previews
  /\ request \in {"none", "manual", "automatic"} /\ mainAlive \in BOOLEAN
TriggerTypes ==
  /\ pending \in {NoTrigger} \cup Ages
  /\ auto \in [remaining : 0..AutoTriggers, inFlight : BOOLEAN]

LEMMA TypesTogether ==
  TypeOK <=> NodeTypes /\ SessionTypes /\ CaptureTypes /\ TriggerTypes /\ MainTypes
BY DEF TypeOK, NodeTypes, SessionTypes, CaptureTypes, TriggerTypes, MainTypes, Previews,
       TableStates, AnswerSet, UpFrames, DownFrames

(* The same of the next state.                                             *)
LEMMA TypesTogetherNext ==
  ASSUME NodeTypes', SessionTypes', CaptureTypes', TriggerTypes', MainTypes'
  PROVE  TypeOK'
BY DEF TypeOK, NodeTypes, SessionTypes, CaptureTypes, TriggerTypes, MainTypes, Previews,
       TableStates, AnswerSet, UpFrames, DownFrames

(* What a handler did with the capture, and with its trigger.              *)
Handled(a, t, d, g) ==
  \/ Kept(a, t, d, g) /\ UNCHANGED <<pending, auto>>
  \/ Closed(a, t, d, g) /\ pending' = NoTrigger /\ auto' = AttemptFinished

(* The preview request of the state before, or none.                       *)
PreviewFollows(a) ==
  preview'.outstanding # NoCam =>
    /\ preview'.outstanding = preview.outstanding
    /\ sess'[preview.outstanding] = "open"
    /\ a.open => active.open

LEMMA HandlerStep ==
  ASSUME RigInv, UNCHANGED <<node, shot, previewDue, pressed, breaks>>, LinksRead,
         link' \in [Cameras -> LinkStates], SessionTypes', MainTypes',
         request' = "automatic" => request = "automatic" \/ (auto.remaining > 0 /\ ~auto.inFlight),
         NEW a, NEW t, NEW d, NEW g, Handled(a, t, d, g),
         HandedOver(a, t, d, g), (ImagesAreOver(a) /\ AnswersAgree(a, g))', PreviewFollows(a)
  PROVE  RigInv' /\ FatesMove
<1>1. TypeOK /\ NodeTypes /\ TriggerTypes /\ AutoAgrees /\ PreviewYields
  BY TypesTogether DEF RigInv
<1>2. \A c \in Cameras : LinkAgrees(c)'
  BY LinksKept
<1>3. (CaptureTypes /\ AnswersComeFromPi(down, answers) /\ CaptureAgrees)'
  BY CaptureKept, CaptureClosed DEF Handled
<1>4. FatesMove
  BY CaptureKept, CaptureClosed DEF Handled
<1>5. AutoTriggers \in Nat
  BY ReceiverAssumption
<1>6. TriggerTypes' /\ AutoAgrees'
  <2>1. CASE UNCHANGED <<pending, auto>>
    BY <1>1, <2>1 DEF TriggerTypes, AutoAgrees, AttemptIsPending
  <2>2. CASE pending' = NoTrigger /\ auto' = AttemptFinished
    <3>1. CASE auto.inFlight
      <4>1. auto.remaining \in 1..AutoTriggers /\ auto' = [remaining |-> auto.remaining - 1, inFlight |-> FALSE]
        BY <1>1, <1>5, <2>2, <3>1 DEF TriggerTypes, AutoAgrees, AttemptFinished
      <4>2. auto' \in [remaining : 0..AutoTriggers, inFlight : BOOLEAN] /\ ~auto'.inFlight
        BY <1>5, <4>1
      <4>3. request' # "automatic"
        BY <1>1, <3>1 DEF AutoAgrees
      <4> QED  BY <2>2, <4>2, <4>3 DEF TriggerTypes, AutoAgrees, AttemptIsPending
    <3>2. CASE ~auto.inFlight
      BY <1>1, <2>2, <3>2 DEF TriggerTypes, AutoAgrees, AttemptIsPending, AttemptFinished
    <3> QED  BY <3>1, <3>2
  <2> QED  BY <2>1, <2>2 DEF Handled
<1>7. PreviewYields'
  <2>1. SUFFICES ASSUME preview'.outstanding # NoCam
                 PROVE  /\ pending' = NoTrigger /\ ~active'.open
                        /\ sess'[preview'.outstanding] = "open"
    BY DEF PreviewYields
  <2>2. /\ preview'.outstanding = preview.outstanding /\ sess'[preview.outstanding] = "open"
        /\ pending = NoTrigger /\ ~active.open /\ ~a.open
    BY <1>1, <2>1 DEF PreviewFollows, PreviewYields
  <2>3. pending' = NoTrigger
    BY <2>2 DEF Handled
  <2>4. ~active'.open
    BY <2>2 DEF Handled, Kept, Closed, Idle
  <2> QED  BY <2>2, <2>3, <2>4
<1>8. NodeTypes'
  BY <1>1, <1>3 DEF NodeTypes, LinksRead, CaptureTypes
<1>9. TypeOK'
  BY <1>3, <1>6, <1>8, TypesTogetherNext
<1> QED  BY <1>2, <1>3, <1>6, <1>7, <1>9, <1>4 DEF RigInv

(* A handler that leaves the set, its tables, the links down and the       *)
(* answers alone.                                                          *)
LEMMA AsItWas ==
  ASSUME RigInv, UNCHANGED <<node, shot>>, LinksRead,
         \A c \in pressed' : c \in pressed \/ shot[c] < MaxShots
  PROVE  \A a, t, d, g : (a = active /\ t = tables /\ d = down /\ g = answers) =>
           HandedOver(a, t, d, g) /\ (ImagesAreOver(a) /\ AnswersAgree(a, g))'
<1> SUFFICES ASSUME NEW a, NEW t, NEW d, NEW g,
                    a = active, t = tables, d = down, g = answers
             PROVE  HandedOver(a, t, d, g) /\ (ImagesAreOver(a) /\ AnswersAgree(a, g))'
  OBVIOUS
<1>1. CaptureTypes /\ CaptureAgrees /\ AnswersComeFromPi(down, answers)
  BY TypesTogether DEF RigInv
<1>2. HandedOver(a, t, d, g)
  BY <1>1 DEF HandedOver, CaptureTypes, CaptureAgrees
<1>3. \A c \in Cameras : \A q : Over(c, q) => Over(c, q)'
  BY LinksKept
<1>4. a.images \subseteq Cameras
  BY <1>1 DEF CaptureTypes, ActiveCaptures
<1>5. ImagesAreOver(a)'
  BY <1>1, <1>3, <1>4 DEF CaptureAgrees, ImagesAreOver
<1>6. AnswersAgree(a, g)'
  BY <1>1, <1>3 DEF CaptureAgrees, AnswersAgree
<1> QED  BY <1>2, <1>5, <1>6

LEMMA SessionStep ==
  ASSUME RigInv, UNCHANGED <<node, shot, previewDue, pressed, breaks>>, LinksRead,
         link' \in [Cameras -> LinkStates], down' \in [Cameras -> Seq(DownFrames)],
         AnswersComeFromPi(down', answers), SessionTypes', MainTypes',
         request' = "automatic" => request = "automatic" \/ (auto.remaining > 0 /\ ~auto.inFlight),
         UNCHANGED captureVars, PreviewFollows(active)
  PROVE  RigInv' /\ FatesMove
<1>1. PICK a, t, d, g : a = active /\ t = tables /\ d = down /\ g = answers
  OBVIOUS
<1>2. PICK e : e = down'
  OBVIOUS
<1>3. HandedOver(a, t, d, g) /\ (ImagesAreOver(a) /\ AnswersAgree(a, g))'
  BY <1>1, AsItWas
<1>4. HandedOver(a, t, e, g)
  BY <1>1, <1>2, <1>3 DEF HandedOver
<1>5. Handled(a, t, e, g)
  BY <1>1, <1>2 DEF captureVars, Handled, Kept
<1>6. PreviewFollows(a)
  BY <1>1 DEF PreviewFollows
<1> QED  BY <1>3, <1>4, <1>5, <1>6, HandlerStep

(* Reading a frame.                                                        *)
LEMMA ReadFacts ==
  ASSUME RigInv, NEW c \in Cameras, NEW kinds, Received(c, kinds), UNCHANGED <<node, shot, pressed>>
  PROVE  /\ LinksRead /\ sess[c] = "open" /\ Head(up[c]).kind \in kinds
         /\ Got(c) = <<c, Head(up[c]).q>>
         /\ Head(up[c]).kind \in PhotoKinds =>
              Head(up[c]).q \in Txs /\ Head(up[c]).q \in 1..shot[c]
         /\ Head(up[c]).kind \in TransferKinds => ~Over(c, Head(up[c]).q)
         /\ \A q : (Head(up[c]).kind = "TRANSFER_COMPLETE" /\ Head(up[c]).q = q) => Over(c, q)'
<1>1. up \in [Cameras -> Seq(UpFrames)] /\ up[c] # <<>> /\ shot[c] \in 0..MaxShots /\ LinkAgrees(c)
  BY NodesTyped DEF RigInv, NodeTypes, Received
<1>2. PICK s, f : s = up[c] /\ f = Head(up[c])
  OBVIOUS
<1>3. s \in Seq(UpFrames) /\ s # <<>> /\ Len(s) \in Nat
  BY <1>1, <1>2, LenProperties
<1>4. 1 \in 1..Len(s) /\ f = s[1] /\ Tail(s) \in Seq(UpFrames)
      /\ Len(Tail(s)) = Len(s) - 1 /\ \A i \in 1..Len(Tail(s)) : Tail(s)[i] = s[i + 1]
  BY <1>2, <1>3, HeadTailProperties
<1>5. LinksRead
  BY <1>1, <1>2, <1>4 DEF Received, LinksRead
<1>6. f.kind \in PhotoKinds => f.q \in Txs /\ f.q \in 1..shot[c]
  <2>1. f.kind \in PhotoKinds => f.q \in 1..shot[c]
    BY <1>1, <1>2, <1>4 DEF LinkAgrees, InOrder
  <2>2. 1..shot[c] \subseteq Txs
    BY <1>1, NodeAssumption DEF Txs
  <2> QED  BY <2>1, <2>2
<1>7. f.kind \in TransferKinds => ~NotIn(s, f.q)
  BY <1>4 DEF NotIn
<1>8. ASSUME f.kind = "TRANSFER_COMPLETE"
      PROVE  Over(c, f.q)'
  <2>1. f.kind \in PhotoKinds /\ f.kind \in TransferKinds
    BY <1>8 DEF PhotoKinds, TransferKinds
  <2>2. f.q \in 1..shot[c]
    BY <1>6, <2>1
  <2>3. node[c] = "shooting" => shot[c] # f.q
    BY <1>1, <1>2, <1>7, <2>1 DEF LinkAgrees
  <2>4. NotIn(Tail(s), f.q)
    <3>1. \A i \in 1..Len(Tail(s)) : i + 1 \in 1..Len(s) /\ 1 < i + 1
      BY <1>3, <1>4
    <3>2. InOrder(s, shot[c])
      BY <1>1, <1>2 DEF LinkAgrees
    <3>3. \A j \in 1..Len(s) : 1 < j /\ s[j].kind \in TransferKinds => s[1].q # s[j].q
      BY <1>4, <1>8, <3>2 DEF InOrder
    <3> QED  BY <1>4, <3>1, <3>3 DEF NotIn
  <2>5. up'[c] = Tail(s)
    BY <1>1, <1>2 DEF Received
  <2> QED  BY <2>2, <2>3, <2>4, <2>5 DEF Over
<1>9. f.kind \in TransferKinds => ~Over(c, f.q)
  BY <1>2, <1>7 DEF Over
<1>10. sess[c] = "open" /\ f.kind \in kinds /\ Got(c) = <<c, f.q>>
  BY <1>2 DEF Received, Got
<1>11. Head(up[c]) = f
  BY <1>2
<1> QED  BY <1>5, <1>6, <1>8, <1>9, <1>10, <1>11

-----------------------------------------------------------------------------
(* The life of a session.                                                  *)
(* A frame is queued for a node.                                           *)
LEMMA Queued ==
  ASSUME NEW d \in [Cameras -> Seq(DownFrames)], NEW c \in Cameras, NEW f \in DownFrames,
         NEW g, NEW h, AnswersComeFromPi(d, g), g \subseteq h,
         f.kind \in {"ACK", "NACK"} => <<f.kind, c, f.q>> \in h
  PROVE  /\ [d EXCEPT ![c] = Append(@, f)] \in [Cameras -> Seq(DownFrames)]
         /\ AnswersComeFromPi([d EXCEPT ![c] = Append(@, f)], h)
<1>1. PICK s : s = d[c]
  OBVIOUS
<1>2. s \in Seq(DownFrames)
  BY <1>1
<1>3. /\ Append(s, f) \in Seq(DownFrames) /\ Len(Append(s, f)) = Len(s) + 1
      /\ \A i \in 1..Len(s) : Append(s, f)[i] = s[i]
      /\ Append(s, f)[Len(s) + 1] = f /\ Len(s) \in Nat
  BY <1>2, AppendProperties, LenProperties
<1>4. PICK e : e = [d EXCEPT ![c] = Append(s, f)]
  OBVIOUS
<1>5. e \in [Cameras -> Seq(DownFrames)] /\ e[c] = Append(s, f)
      /\ \A b \in Cameras \ {c} : e[b] = d[b]
  BY <1>3, <1>4
<1>6. \A i \in 1..Len(Append(s, f)) : i \in 1..Len(s) \/ i = Len(s) + 1
  BY <1>3
<1>7. ASSUME NEW b \in Cameras, NEW i \in 1..Len(e[b]), e[b][i].kind \in {"ACK", "NACK"}
      PROVE  \/ b = c /\ e[b][i] = f
             \/ i \in 1..Len(d[b]) /\ e[b][i] = d[b][i]
  BY <1>1, <1>3, <1>5, <1>6
<1>8. AnswersComeFromPi(e, h)
  BY <1>7 DEF AnswersComeFromPi
<1> QED  BY <1>1, <1>4, <1>5, <1>8

LEMMA SessionLifeStep ==
  ASSUME RigInv, NEW c \in Cameras, sess[c] # "open",
         UNCHANGED <<node, shot, previewDue, pressed, breaks, current, captureVars,
                     commands, preview, request, mainAlive>>,
         \/ up' = up
         \/ up' = [up EXCEPT ![c] = <<>>]
         \/ up[c] # <<>> /\ up' = [up EXCEPT ![c] = Tail(@)],
         link' \in [Cameras -> LinkStates],
         \E state \in {"off", "opening", "registered", "open"} :
           sess' = sess \/ sess' = [sess EXCEPT ![c] = state],
         down' = down \/ down' = [down EXCEPT ![c] = Append(@, Frame("PING", 0))]
  PROVE  RigInv' /\ FatesMove
<1>1. TypeOK /\ NodeTypes /\ SessionTypes /\ MainTypes /\ PreviewYields
      /\ AnswersComeFromPi(down, answers)
  BY TypesTogether DEF RigInv
<1>2. LinksRead
  <2>1. \A s \in Seq(UpFrames) : s # <<>> => Tail(s) \in Seq(UpFrames)
    BY HeadTailProperties
  <2>2. up \in [Cameras -> Seq(UpFrames)] /\ <<>> \in Seq(UpFrames)
    BY <1>1 DEF NodeTypes
  <2>3. CASE up' = up
    BY <2>2, <2>3 DEF LinksRead
  <2>4. CASE up' = [up EXCEPT ![c] = <<>>]
    BY <2>2, <2>4 DEF LinksRead
  <2>5. CASE up[c] # <<>> /\ up' = [up EXCEPT ![c] = Tail(@)]
    BY <2>1, <2>2, <2>5 DEF LinksRead
  <2> QED  BY <2>3, <2>4, <2>5
<1>3. SessionTypes' /\ \A b \in Cameras \ {c} : sess'[b] = sess[b]
  BY <1>1 DEF SessionTypes
<1>4. down' \in [Cameras -> Seq(DownFrames)] /\ AnswersComeFromPi(down', answers)
  <2>1. CASE down' = down
    BY <1>1, <2>1 DEF NodeTypes
  <2>2. CASE down' = [down EXCEPT ![c] = Append(@, Frame("PING", 0))]
    <3>1. PICK f, d, g : f = Frame("PING", 0) /\ d = down /\ g = answers
      OBVIOUS
    <3>2. f \in DownFrames /\ f.kind \notin {"ACK", "NACK"}
      BY <3>1, Frames, NumbersFacts DEF DownKinds
    <3>3. d \in [Cameras -> Seq(DownFrames)] /\ AnswersComeFromPi(d, g)
      BY <1>1, <3>1 DEF NodeTypes
    <3> QED  BY <2>2, <3>1, <3>2, <3>3, Queued
  <2> QED  BY <2>1, <2>2
<1>5. MainTypes' /\ request' = request
  BY <1>1 DEF MainTypes
<1>6. PreviewFollows(active)
  <2>1. preview.outstanding # NoCam => preview.outstanding \in Cameras
    BY <1>1 DEF MainTypes, Previews
  <2> QED  BY <1>1, <1>3, <2>1 DEF PreviewFollows, PreviewYields
<1> QED  BY <1>2, <1>3, <1>4, <1>5, <1>6, SessionStep

LEMMA OpeningSteps ==
  ASSUME RigInv, NEW c \in Cameras, Discover(c) \/ ReadHello(c) \/ Identify(c) \/ GiveUp(c)
  PROVE  RigInv' /\ FatesMove
<1>1. NodeTypes
  BY TypesTogether DEF RigInv
<1>2. CASE Discover(c)
  <2>1. link' \in [Cameras -> LinkStates]
    BY <1>1, <1>2 DEF NodeTypes, LinkStates, Discover
  <2> QED  BY <1>2, <2>1, SessionLifeStep DEF Discover, mainVars
<1>3. CASE ReadHello(c)
  <2>1. link' \in [Cameras -> LinkStates]
    BY <1>1, <1>3 DEF NodeTypes, ReadHello
  <2> QED  BY <1>3, <2>1, SessionLifeStep DEF ReadHello, mainVars
<1>4. CASE Identify(c)
  <2>1. link' \in [Cameras -> LinkStates]
    BY <1>1, <1>4 DEF NodeTypes, Identify, nodeVars
  <2> QED  BY <1>4, <2>1, SessionLifeStep DEF Identify, mainVars, nodeVars
<1>5. CASE GiveUp(c)
  <2>1. /\ sess[c] = "opening" /\ sess' = [sess EXCEPT ![c] = "off"]
        /\ link' = IF link[c] = "attached" THEN [link EXCEPT ![c] = "up"] ELSE link
        /\ up' = [up EXCEPT ![c] = <<>>]
        /\ UNCHANGED <<node, shot, previewDue, pressed, breaks, down, current, captureVars, mainVars>>
    BY <1>5, Zenon DEF GiveUp
  <2>2. link' \in [Cameras -> LinkStates]
    BY <1>1, <2>1 DEF NodeTypes, LinkStates
  <2> QED  BY <2>1, <2>2, SessionLifeStep DEF mainVars
<1> QED  BY <1>2, <1>3, <1>4, <1>5

LEMMA QuietReadStep ==
  ASSUME RigInv, NEW c \in Cameras, PreviewReceived(c) \/ HelloIgnored(c)
  PROVE  RigInv' /\ FatesMove
<1>1. NodeTypes /\ SessionTypes /\ MainTypes /\ PreviewYields /\ AnswersComeFromPi(down, answers)
  BY TypesTogether DEF RigInv
<1>2. /\ UNCHANGED <<node, shot, previewDue, pressed, breaks, link, down, sess, current, captureVars,
                     commands, request, mainAlive>>
      /\ preview' \in {preview, PreviewCancelled}
  BY DEF PreviewReceived, HelloIgnored, mainVars
<1>3. LinksRead
  BY <1>2, ReadFacts DEF PreviewReceived, HelloIgnored
<1>4. MainTypes' /\ PreviewFollows(active)
  <2>1. PreviewCancelled \in Previews /\ PreviewCancelled.outstanding = NoCam
    BY <1>1 DEF MainTypes, Previews, PreviewCancelled
  <2> QED  BY <1>1, <1>2, <2>1 DEF MainTypes, PreviewFollows, PreviewYields
<1>5. SessionTypes' /\ AnswersComeFromPi(down', answers)
  BY <1>1, <1>2 DEF SessionTypes
<1> QED  BY <1>1, <1>2, <1>3, <1>4, <1>5, SessionStep DEF NodeTypes
-----------------------------------------------------------------------------
(* The frames of a photo.                                                  *)
LEMMA FrameStep ==
  ASSUME RigInv, NEW c \in Cameras, NEW kinds, Received(c, kinds),
         UNCHANGED <<node, shot, previewDue, pressed, link, breaks, sess,
                     commands, request, mainAlive>>,
         \E q \in 0..MaxShots : current' = current \/ current' = [current EXCEPT ![c] = q],
         NEW a, NEW t, NEW d, NEW g, Handled(a, t, d, g),
         HandedOver(a, t, d, g), (ImagesAreOver(a) /\ AnswersAgree(a, g))',
         preview' = PreviewCancelled \/ (preview' = preview /\ (a.open => active.open))
  PROVE  RigInv' /\ FatesMove
<1>1. NodeTypes /\ SessionTypes /\ MainTypes /\ PreviewYields
  BY TypesTogether DEF RigInv
<1>2. LinksRead
  BY ReadFacts
<1>3. SessionTypes'
  BY <1>1 DEF SessionTypes
<1>4. MainTypes' /\ PreviewFollows(a)
  <2>1. PreviewCancelled \in Previews /\ PreviewCancelled.outstanding = NoCam
    BY <1>1 DEF MainTypes, Previews, PreviewCancelled
  <2>2. MainTypes'
    BY <1>1, <2>1 DEF MainTypes
  <2>3. CASE preview' = PreviewCancelled
    BY <2>1, <2>2, <2>3 DEF PreviewFollows
  <2>4. CASE preview' = preview /\ (a.open => active.open)
    BY <1>1, <2>2, <2>4 DEF PreviewFollows, PreviewYields
  <2> QED  BY <2>3, <2>4
<1>5. link' \in [Cameras -> LinkStates]
  BY <1>1 DEF NodeTypes
<1> QED  BY <1>2, <1>3, <1>4, <1>5, HandlerStep

(* What an active set keeps when its cameras' photos and images stay.      *)
LEMMA SameSet ==
  ASSUME NEW a \in ActiveCaptures(Txs), NEW b \in ActiveCaptures(Txs), NEW t, NEW g,
         b.tx = a.tx, b.images = a.images, b.open = a.open, a.open \/ b = a
  PROVE  /\ Transactions(b) = Transactions(a)
         /\ TablesFit(a, t) => TablesFit(b, t)
         /\ Collecting(a) => Collecting(b)
         /\ (ImagesAreOver(a) => ImagesAreOver(b))'
         /\ (AnswersAgree(a, g) => AnswersAgree(b, g))'
<1>1. Transactions(b) = Transactions(a) /\ Started(b) = Started(a)
  BY DEF Transactions, Started
<1>2. TablesFit(a, t) => TablesFit(b, t)
  BY <1>1 DEF TablesFit
<1>3. Collecting(a) => Collecting(b)
  BY <1>1 DEF Collecting
<1>4. (ImagesAreOver(a) => ImagesAreOver(b))'
  BY DEF ImagesAreOver
<1>5. (AnswersAgree(a, g) => AnswersAgree(b, g))'
  BY DEF AnswersAgree
<1> QED  BY <1>1, <1>2, <1>3, <1>4, <1>5

(* A photo that is rejected changes nothing of what the tables must fit.   *)
LEMMA RejectedTable ==
  ASSUME NEW a \in ActiveCaptures(Txs), NEW s \in TableStates, TablesFit(a, s),
         NEW c \in Cameras, NEW q \in Txs, NEW t, t = [s EXCEPT !.rejected = @ \cup {<<c, q>>}]
  PROVE  t \in TableStates /\ TablesFit(a, t)
<1>1. <<c, q>> \in Tx
  BY DEF Tx
<1>2. /\ t.started = s.started /\ t.images = s.images /\ t.acks = s.acks
      /\ t.rejected = s.rejected \cup {<<c, q>>}
  BY DEF TableStates
<1>3. t \in TableStates
  BY <1>1 DEF TableStates
<1> QED  BY <1>2, <1>3 DEF TablesFit

LEMMA CaptureStartedStep ==
  ASSUME RigInv, NEW c \in Cameras, NEW lag \in Lags, CaptureStarted(c, lag)
  PROVE  RigInv' /\ FatesMove
<1>1. SessionTypes /\ CaptureTypes
  BY TypesTogether DEF RigInv
<1>2. Received(c, {"CAPTURE_STARTED"}) /\ preview' = PreviewCancelled
      /\ UNCHANGED <<node, shot, previewDue, pressed, down, link, breaks, sess, seen, pending, auto,
                     published, answers, commands, request, mainAlive>>
  BY DEF CaptureStarted
<1>3. PICK q : q = Head(up[c]).q
  OBVIOUS
<1>4. q \in Txs /\ Got(c) = <<c, q>> /\ LinksRead
  BY <1>2, <1>3, ReadFacts DEF PhotoKinds
<1>5. PICK x, s, d, g : x = active /\ s = tables /\ d = down /\ g = answers
  OBVIOUS
<1>6. HandedOver(x, s, d, g) /\ (ImagesAreOver(x) /\ AnswersAgree(x, g))'
  BY <1>2, <1>4, <1>5, AsItWas
<1>7. x \in ActiveCaptures(Txs) /\ s \in TableStates /\ TablesFit(x, s) /\ Collecting(x)
  BY <1>6 DEF HandedOver
<1>8. CASE StartAccepted(active, seen, c, Got(c)[2], lag)
  <2>1. PICK a, t : a = AfterStart(x, c, q, lag) /\ t = [s EXCEPT !.started = @ \cup {<<c, q>>}]
    OBVIOUS
  <2>2. StartAccepted(x, seen, c, q, lag)
    BY <1>4, <1>5, <1>8
  <2>3. /\ a \in ActiveCaptures(Txs) /\ a.open
        /\ a.tx = [x.tx EXCEPT ![c] = q] /\ a.images = x.images
        /\ Transactions(a) = Transactions(x) \cup {<<c, q>>} /\ x.tx[c] \in {NoTx, q}
    <3>1. ~x.open => x = Idle
      BY <1>7 DEF Collecting
    <3> QED  BY <1>4, <1>7, <2>1, <2>2, <3>1, NumbersFacts, StartFacts
  <2>4. x.tx \in [Cameras -> Txs \cup {NoTx}] /\ x.images \subseteq Cameras
    BY <1>7 DEF ActiveCaptures
  <2>5. \A b \in Cameras : a.tx[b] = IF b = c THEN q ELSE x.tx[b]
    BY <2>3, <2>4
  <2>6. \A b \in x.images : b \in Cameras /\ x.tx[b] # NoTx
    BY <1>7 DEF Collecting, Started
  <2>7. \A b \in x.images : a.tx[b] = x.tx[b]
    BY <2>3, <2>5, <2>6
  <2>8. t \in TableStates /\ t.started = s.started \cup {<<c, q>>} /\ t.images = s.images
        /\ t.acks = s.acks
    BY <1>4, <1>7, <2>1 DEF TableStates, Tx
  <2>9. TablesFit(a, t)
    <3>1. {p \in Transactions(a) : p[1] \in a.images} = {p \in Transactions(x) : p[1] \in x.images}
      <4>1. c \in x.images => <<c, q>> \in Transactions(x)
        BY <1>4, <1>7, <2>3, <2>6, TransactionOf
      <4> QED  BY <2>3, <4>1
    <3>2. t.started \subseteq Transactions(a)
      BY <1>7, <2>3, <2>8 DEF TablesFit
    <3>3. t.images \subseteq t.started \ {p \in Tx : p[1] \in a.images}
      BY <1>7, <2>3, <2>8 DEF TablesFit
    <3> QED  BY <1>7, <2>3, <2>8, <3>1, <3>2, <3>3 DEF TablesFit
  <2>10. Collecting(a)
    <3>1. a.images \subseteq Started(a)
      BY <2>3, <2>4, <2>6, <2>7 DEF Started
    <3> QED  BY <1>7, <2>2, <2>3, <3>1 DEF Collecting, StartAccepted
  <2>11. HandedOver(a, t, d, g)
    BY <1>6, <2>3, <2>8, <2>9, <2>10 DEF HandedOver
  <2>12. (ImagesAreOver(a) /\ AnswersAgree(a, g))'
    BY <1>6, <2>3, <2>7 DEF ImagesAreOver, AnswersAgree
  <2>13. Handled(a, t, d, g) /\ current' = [current EXCEPT ![c] = q]
    BY <1>2, <1>4, <1>5, <1>8, <2>1 DEF CaptureStarted, Handled, Kept
  <2> QED  BY <1>2, <1>4, <2>11, <2>12, <2>13, NumbersFacts, FrameStep
<1>9. CASE ~StartAccepted(active, seen, c, Got(c)[2], lag)
  <2>1. PICK t : t = [s EXCEPT !.rejected = @ \cup {<<c, q>>}]
    OBVIOUS
  <2>2. t \in TableStates /\ TablesFit(x, t)
    BY <1>4, <1>7, <2>1, RejectedTable
  <2>3. HandedOver(x, t, d, g)
    BY <1>6, <2>2 DEF HandedOver
  <2>4. Handled(x, t, d, g) /\ current' = current
    BY <1>2, <1>4, <1>5, <1>9, <2>1 DEF CaptureStarted, Handled, Kept
  <2> QED  BY <1>2, <1>6, <2>3, <2>4, NumbersFacts, FrameStep
<1> QED  BY <1>8, <1>9

LEMMA ImageReceivedStep ==
  ASSUME RigInv, NEW c \in Cameras, NEW lag \in Lags, ImageReceived(c, lag)
  PROVE  RigInv' /\ FatesMove
<1>1. SessionTypes /\ CaptureTypes
  BY TypesTogether DEF RigInv
<1>2. Received(c, {"IMAGE", "BAD_IMAGE"})
      /\ UNCHANGED <<node, shot, previewDue, pressed, down, link, breaks, sess, current, seen, pending,
                     auto, published, answers, commands, preview, request, mainAlive>>
  BY DEF ImageReceived, mainVars
<1>3. PICK q : q = Head(up[c]).q
  OBVIOUS
<1>4. q \in Txs /\ Got(c) = <<c, q>> /\ LinksRead /\ ~Over(c, q)
  BY <1>2, <1>3, ReadFacts DEF PhotoKinds, TransferKinds
<1>5. PICK x, s, d, g : x = active /\ s = tables /\ d = down /\ g = answers
  OBVIOUS
<1>6. HandedOver(x, s, d, g) /\ (ImagesAreOver(x) /\ AnswersAgree(x, g))'
  BY <1>2, <1>4, <1>5, AsItWas
<1>7. x \in ActiveCaptures(Txs) /\ s \in TableStates /\ TablesFit(x, s) /\ Collecting(x)
  BY <1>6 DEF HandedOver
<1>8. preview' = preview /\ current' = current /\ 0 \in 0..MaxShots
  BY <1>2, NumbersFacts
<1>9. CASE active' = active /\ tables' = tables
  <2>1. Handled(x, s, d, g) /\ (x.open => active.open)
    BY <1>2, <1>5, <1>9 DEF Handled, Kept
  <2> QED  BY <1>2, <1>6, <1>8, <2>1, FrameStep
<1>10. CASE active' = active /\ tables' = [tables EXCEPT !.rejected = @ \cup {Got(c)}]
  <2>1. PICK t : t = [s EXCEPT !.rejected = @ \cup {<<c, q>>}]
    OBVIOUS
  <2>2. t \in TableStates /\ TablesFit(x, t)
    BY <1>4, <1>7, <2>1, RejectedTable
  <2>3. HandedOver(x, t, d, g)
    BY <1>6, <2>2 DEF HandedOver
  <2>4. Handled(x, t, d, g) /\ (x.open => active.open)
    BY <1>2, <1>4, <1>5, <1>10, <2>1 DEF Handled, Kept
  <2> QED  BY <1>2, <1>6, <1>8, <2>3, <2>4, FrameStep
<1>11. CASE /\ Got(c) \in tables.started /\ active' = active
            /\ tables' = [tables EXCEPT !.images = @ \cup {Got(c)}]
  <2>1. PICK t : t = [s EXCEPT !.images = @ \cup {<<c, q>>}]
    OBVIOUS
  <2>2. t \in TableStates /\ t.started = s.started /\ t.images = s.images \cup {<<c, q>>}
        /\ t.acks = s.acks
    BY <1>4, <1>7, <2>1 DEF TableStates, Tx
  <2>3. <<c, q>> \in s.started /\ c \notin x.images
    <3>1. <<c, q>> \in s.started
      BY <1>4, <1>5, <1>11
    <3>2. x.tx[c] = q
      BY <1>7, <3>1, TransactionOf DEF TablesFit
    <3>3. ImagesAreOver(x)
      BY <1>5 DEF RigInv, CaptureAgrees
    <3> QED  BY <1>4, <3>1, <3>2, <3>3 DEF ImagesAreOver
  <2>4. TablesFit(x, t)
    BY <1>7, <2>2, <2>3 DEF TablesFit
  <2>5. HandedOver(x, t, d, g)
    BY <1>6, <2>2, <2>4 DEF HandedOver
  <2>6. Handled(x, t, d, g) /\ (x.open => active.open)
    BY <1>2, <1>4, <1>5, <1>11, <2>1 DEF Handled, Kept
  <2> QED  BY <1>2, <1>6, <1>8, <2>5, <2>6, FrameStep
<1>12. CASE /\ FailAccepted(active, c, Got(c)[2]) /\ active' = AfterFail(active, c, lag)
            /\ tables' = [tables EXCEPT !.rejected = @ \cup {Got(c)}]
  <2>1. PICK a, t : a = AfterFail(x, c, lag) /\ t = [s EXCEPT !.rejected = @ \cup {<<c, q>>}]
    OBVIOUS
  <2>2. /\ a \in ActiveCaptures(Txs) /\ a.tx = x.tx /\ a.open = x.open /\ a.images = x.images
    BY <1>7, <2>1, ReportFacts
  <2>3. x.open
    BY <1>5, <1>12 DEF FailAccepted, Matching
  <2>4. t \in TableStates /\ TablesFit(x, t)
    BY <1>4, <1>7, <2>1, RejectedTable
  <2>5. HandedOver(a, t, d, g) /\ (ImagesAreOver(a) /\ AnswersAgree(a, g))'
    <3>1. TablesFit(a, t) /\ Collecting(a)
      BY <1>7, <2>2, <2>3, <2>4, SameSet
    <3>2. (ImagesAreOver(a) /\ AnswersAgree(a, g))'
      BY <1>6, <1>7, <2>2, <2>3, SameSet
    <3> QED  BY <1>6, <2>2, <2>4, <3>1, <3>2 DEF HandedOver
  <2>6. Handled(a, t, d, g) /\ (a.open => active.open)
    BY <1>2, <1>4, <1>5, <1>12, <2>1, <2>2 DEF Handled, Kept
  <2> QED  BY <1>2, <1>8, <2>5, <2>6, FrameStep
<1> QED  BY <1>9, <1>10, <1>11, <1>12 DEF ImageReceived

(* send(NACK) outside a commit.                                            *)
LEMMA NackFacts ==
  ASSUME NEW c \in Cameras, NEW q \in Txs, Got(c) = <<c, q>>,
         NEW d \in [Cameras -> Seq(DownFrames)], d = down, NEW g, AnswersComeFromPi(d, g)
  PROVE  /\ Nacked(c) \in [Cameras -> Seq(DownFrames)]
         /\ NackGiven(c) \subseteq {<<"NACK", c, q>>}
         /\ AnswersComeFromPi(Nacked(c), g \cup NackGiven(c))
<1>1. CASE ~Reachable(c)
  BY <1>1 DEF Nacked, NackGiven
<1>2. CASE Reachable(c)
  <2>1. PICK f : f = Frame("NACK", q)
    OBVIOUS
  <2>2. f \in DownFrames /\ f.kind = "NACK" /\ f.q = q
    BY <2>1, Frames, NumbersFacts DEF DownKinds
  <2>3. Nacked(c) = [d EXCEPT ![c] = Append(@, f)] /\ NackGiven(c) = {<<"NACK", c, q>>}
    BY <1>2, <2>1 DEF Nacked, NackGiven
  <2>4. PICK h : h = g \cup {<<"NACK", c, q>>}
    OBVIOUS
  <2>5. g \subseteq h /\ <<f.kind, c, f.q>> \in h
    BY <2>2, <2>4
  <2>6. /\ [d EXCEPT ![c] = Append(@, f)] \in [Cameras -> Seq(DownFrames)]
        /\ AnswersComeFromPi([d EXCEPT ![c] = Append(@, f)], h)
    BY <2>2, <2>5, Queued
  <2> QED  BY <2>3, <2>4, <2>6
<1> QED  BY <1>1, <1>2

(* What comes of an answer to the transfer that has just been read.        *)
LEMMA NackHandedOver ==
  ASSUME NEW c \in Cameras, NEW q \in Txs, Got(c) = <<c, q>>,
         NEW x, NEW t, NEW d, NEW g, NEW e, NEW h,
         HandedOver(x, t, d, g), (ImagesAreOver(x) /\ AnswersAgree(x, g))',
         d = down, g = answers, e = Nacked(c), h = NackGiven(c),
         Over(c, q)', c \in x.images => x.tx[c] # q
  PROVE  HandedOver(x, t, e, g \cup h) /\ (ImagesAreOver(x) /\ AnswersAgree(x, g \cup h))'
<1>1. h \subseteq {<<"NACK", c, q>>} /\ e \in [Cameras -> Seq(DownFrames)]
      /\ AnswersComeFromPi(e, g \cup h)
  BY NackFacts DEF HandedOver
<1>2. g \cup h \subseteq AnswerSet
  BY <1>1 DEF HandedOver, AnswerSet
<1>3. HandedOver(x, t, e, g \cup h)
  BY <1>1, <1>2 DEF HandedOver
<1>4. AnswersAgree(x, g \cup h)'
  BY <1>1 DEF AnswersAgree
<1> QED  BY <1>3, <1>4

LEMMA TransferCompleteStep ==
  ASSUME RigInv, NEW c \in Cameras, NEW lag \in Lags, TransferComplete(c, lag)
  PROVE  RigInv' /\ FatesMove
<1>1. Received(c, {"TRANSFER_COMPLETE"})
      /\ UNCHANGED <<node, shot, previewDue, pressed, link, breaks, sess, commands, preview, request,
                     mainAlive>>
  BY DEF TransferComplete, mainVars
<1>2. PICK q : q = Head(up[c]).q
  OBVIOUS
<1>3. q \in Txs /\ Got(c) = <<c, q>> /\ LinksRead /\ ~Over(c, q) /\ Over(c, q)'
  BY <1>1, <1>2, ReadFacts DEF PhotoKinds, TransferKinds
<1>4. PICK x, s, d, g : x = active /\ s = tables /\ d = down /\ g = answers
  OBVIOUS
<1>5. HandedOver(x, s, d, g) /\ (ImagesAreOver(x) /\ AnswersAgree(x, g))'
  BY <1>1, <1>3, <1>4, AsItWas
<1>6. x \in ActiveCaptures(Txs) /\ s \in TableStates /\ TablesFit(x, s) /\ Collecting(x)
  BY <1>5 DEF HandedOver
<1>7. c \in x.images => x.tx[c] # q
  BY <1>3, <1>4 DEF RigInv, CaptureAgrees, ImagesAreOver
<1>8. \A k \in {"ACK", "NACK"} : <<k, c, q>> \notin g
  BY <1>3, <1>4 DEF RigInv, CaptureAgrees, AnswersAgree
<1>9. NoTx \in 0..MaxShots
  BY NumbersFacts DEF NoTx
<1>10. PICK e, h : e = Nacked(c) /\ h = NackGiven(c)
  OBVIOUS
<1>11. CASE Got(c) \in tables.rejected
  <2>1. PICK t : t = [s EXCEPT !.rejected = @ \ {<<c, q>>}]
    OBVIOUS
  <2>2. t \in TableStates /\ TablesFit(x, t)
    BY <1>6, <2>1 DEF TableStates, TablesFit
  <2>3. HandedOver(x, t, d, g)
    BY <1>5, <2>2 DEF HandedOver
  <2>4. CASE Reachable(c)
    <3>1. current' = [current EXCEPT ![c] = NoTx]
          /\ FinalizeIfReady(x, t, e, h, lag)
      BY <1>3, <1>4, <1>10, <1>11, <2>1, <2>4 DEF TransferComplete
    <3>2. HandedOver(x, t, e, g \cup h) /\ (ImagesAreOver(x) /\ AnswersAgree(x, g \cup h))'
      BY <1>3, <1>4, <1>5, <1>7, <1>10, <2>3, NackHandedOver
    <3>3. Handled(x, t, e, g \cup h)
      BY <1>4, <3>1, ClosedOrKept DEF Handled
    <3> QED  BY <1>1, <1>4, <1>9, <3>1, <3>2, <3>3, FrameStep
  <2>5. CASE ~Reachable(c)
    <3>1. tables' = t /\ UNCHANGED <<current, down, active, seen, pending, auto, published, answers>>
      BY <1>3, <1>4, <1>11, <2>1, <2>5 DEF TransferComplete
    <3>2. Handled(x, t, d, g)
      BY <1>4, <3>1 DEF Handled, Kept
    <3> QED  BY <1>1, <1>4, <1>5, <1>9, <2>3, <3>1, <3>2, FrameStep
  <2> QED  BY <2>4, <2>5
<1>12. CASE Got(c) \notin tables.rejected \cup tables.images
  <2>1. down' = e /\ answers' = g \cup h
        /\ UNCHANGED <<current, active, seen, tables, pending, auto, published>>
    BY <1>4, <1>10, <1>12 DEF TransferComplete
  <2>2. HandedOver(x, s, e, g \cup h) /\ (ImagesAreOver(x) /\ AnswersAgree(x, g \cup h))'
    BY <1>3, <1>4, <1>5, <1>7, <1>10, NackHandedOver
  <2>3. Handled(x, s, e, g \cup h)
    BY <1>4, <2>1 DEF Handled, Kept
  <2> QED  BY <1>1, <1>4, <1>9, <2>1, <2>2, <2>3, FrameStep
<1>13. CASE Got(c) \notin tables.rejected /\ Got(c) \in tables.images
  <2>1. PICK k : k = [cam |-> c, q |-> q, live |-> TRUE]
    OBVIOUS
  <2>2. PICK a, t : /\ a = AfterComplete(x, c, lag)
                    /\ t = [s EXCEPT !.images = @ \ {<<c, q>>}, !.acks = Append(@, k)]
    OBVIOUS
  <2>3. /\ CompleteAccepted(x, c, q) /\ current' = [current EXCEPT ![c] = NoTx]
        /\ FinalizeIfReady(a, t, d, {}, lag)
    BY <1>3, <1>4, <1>13, <2>1, <2>2 DEF TransferComplete
  <2>4. x.open /\ x.tx[c] = q /\ c \notin x.images
    BY <2>3 DEF CompleteAccepted, Matching
  <2>5. /\ a \in ActiveCaptures(Txs) /\ a.tx = x.tx /\ a.open = x.open
        /\ a.images = x.images \cup {c}
    BY <1>6, <2>2, ReportFacts
  <2>6. PICK K : K = [cam : Cameras, q : Txs, live : BOOLEAN]
    OBVIOUS
  <2>7. k \in K /\ k.cam = c /\ k.q = q
    BY <1>3, <2>1, <2>6
  <2>8. PICK old : old = s.acks
    OBVIOUS
  <2>9. PICK now : now = Append(old, k)
    OBVIOUS
  <2>10. old \in Seq(K)
    BY <1>6, <2>6, <2>8 DEF TableStates
  <2>11. now \in Seq(K)
    BY <2>7, <2>9, <2>10, AppendProperties
  <2>12. /\ Len(old) \in Nat /\ Len(now) = Len(old) + 1
         /\ \A i \in 1..Len(old) : now[i] = old[i]
         /\ now[Len(old) + 1] = k
    BY <2>7, <2>9, <2>10, AppendProperties, LenProperties
  <2>13. t \in TableStates /\ t.started = s.started /\ t.images = s.images \ {<<c, q>>} /\ t.acks = now
    BY <1>6, <2>2, <2>6, <2>8, <2>9, <2>11 DEF TableStates
  <2>14. Transactions(a) = Transactions(x) /\ Started(a) = Started(x)
         /\ <<c, q>> \in Transactions(x) /\ c \in Started(x)
    <3>1. q # NoTx
      BY <1>3, NumbersFacts
    <3> QED  BY <1>6, <2>4, <2>5, <3>1, TransactionOf DEF Transactions, Started
  <2>15. TablesFit(a, t)
    <3>1. t.images \subseteq t.started \ {p \in Tx : p[1] \in a.images}
      <4>1. ASSUME NEW p \in t.images
            PROVE  p \in t.started /\ p[1] \notin a.images
        <5>1. p \in s.images /\ p # <<c, q>> /\ p \in s.started /\ p[1] \notin x.images /\ p \in Tx
          BY <1>6, <2>13 DEF TablesFit, TableStates
        <5>2. p \in Transactions(x) /\ p = <<p[1], p[2]>> /\ p[1] \in Cameras
          BY <1>6, <5>1 DEF TablesFit, Tx
        <5>3. x.tx[p[1]] = p[2]
          BY <1>6, <5>2, TransactionOf
        <5>4. p[1] # c
          BY <2>4, <5>1, <5>2, <5>3
        <5> QED  BY <2>5, <2>13, <5>1, <5>4
      <4> QED  BY <4>1
    <3>2. {<<y.cam, y.q>> : y \in {now[i] : i \in 1..Len(now)}}
            = {<<y.cam, y.q>> : y \in {old[i] : i \in 1..Len(old)}} \cup {<<c, q>>}
      <4>1. {now[i] : i \in 1..Len(now)} = {old[i] : i \in 1..Len(old)} \cup {k}
        <5>1. \A i \in 1..Len(now) : i \in 1..Len(old) \/ i = Len(old) + 1
          BY <2>12
        <5>2. 1..Len(old) \subseteq 1..Len(now) /\ Len(old) + 1 \in 1..Len(now)
          BY <2>12
        <5> QED  BY <2>12, <5>1, <5>2
      <4> QED  BY <2>7, <4>1
    <3>3. {p \in Transactions(a) : p[1] \in a.images}
            = {p \in Transactions(x) : p[1] \in x.images} \cup {<<c, q>>}
      <4>1. \A p \in Transactions(x) : p[1] = c => p = <<c, q>>
        BY <2>4 DEF Transactions
      <4> QED  BY <2>5, <2>14, <4>1
    <3>4. Cardinality(a.images) = Len(now)
      <4>1. IsFiniteSet(x.images)
        BY <1>6, CamerasAssumption, FS_Subset DEF ActiveCaptures
      <4>2. Cardinality(x.images \cup {c}) = Cardinality(x.images) + 1
        BY <2>4, <4>1, FS_AddElement
      <4>3. Cardinality(x.images) = Len(old)
        BY <1>6, <2>8 DEF TablesFit
      <4> QED  BY <2>5, <2>12, <4>2, <4>3
    <3>5. {<<y.cam, y.q>> : y \in {old[i] : i \in 1..Len(old)}}
            = {p \in Transactions(x) : p[1] \in x.images}
      BY <1>6, <2>8 DEF TablesFit
    <3>6. t.started \subseteq Transactions(a)
      BY <1>6, <2>13, <2>14 DEF TablesFit
    <3>7. {<<y.cam, y.q>> : y \in {now[i] : i \in 1..Len(now)}}
            = {p \in Transactions(a) : p[1] \in a.images}
      BY <3>2, <3>3, <3>5
    <3> QED  BY <2>13, <3>1, <3>4, <3>6, <3>7 DEF TablesFit
  <2>16. Collecting(a)
    BY <1>6, <2>4, <2>5, <2>14 DEF Collecting
  <2>17. HandedOver(a, t, d, g)
    BY <1>5, <2>5, <2>13, <2>15, <2>16 DEF HandedOver
  <2>18. (ImagesAreOver(a) /\ AnswersAgree(a, g))'
    <3>1. ImagesAreOver(a)'
      BY <1>3, <1>5, <2>4, <2>5 DEF ImagesAreOver
    <3>2. AnswersAgree(a, g)'
      BY <1>5, <1>8, <2>4, <2>5 DEF AnswersAgree
    <3> QED  BY <3>1, <3>2
  <2>19. Handled(a, t, d, g)
    <3>1. Handled(a, t, d, g \cup {})
      BY <1>4, <2>3, ClosedOrKept DEF Handled
    <3> QED  BY <3>1
  <2>20. a.open => active.open
    BY <1>4, <2>5
  <2> QED  BY <1>1, <1>9, <2>3, <2>17, <2>18, <2>19, <2>20, FrameStep
<1> QED  BY <1>11, <1>12, <1>13

LEMMA NodeErrorStep ==
  ASSUME RigInv, NEW c \in Cameras, NEW lag \in Lags, NodeError(c, lag)
  PROVE  RigInv' /\ FatesMove
<1>1. Received(c, {"ERROR"})
      /\ UNCHANGED <<node, shot, previewDue, pressed, link, breaks, sess, commands, preview, request,
                     mainAlive>>
  BY DEF NodeError, mainVars
<1>2. PICK q : q = Head(up[c]).q
  OBVIOUS
<1>3. q \in Txs /\ Got(c) = <<c, q>> /\ LinksRead
  BY <1>1, <1>2, ReadFacts DEF PhotoKinds
<1>4. PICK x, s, d, g : x = active /\ s = tables /\ d = down /\ g = answers
  OBVIOUS
<1>5. HandedOver(x, s, d, g) /\ (ImagesAreOver(x) /\ AnswersAgree(x, g))'
  BY <1>1, <1>3, <1>4, AsItWas
<1>6. x \in ActiveCaptures(Txs) /\ TablesFit(x, s) /\ Collecting(x)
  BY <1>5 DEF HandedOver
<1>7. NoTx \in 0..MaxShots
  BY NumbersFacts DEF NoTx
<1>8. CASE FailAccepted(active, c, Got(c)[2])
  <2>1. PICK a : a = AfterFail(x, c, lag)
    OBVIOUS
  <2>2. current' = [current EXCEPT ![c] = NoTx] /\ FinalizeIfReady(a, s, d, {}, lag)
    BY <1>4, <1>8, <2>1 DEF NodeError
  <2>3. a \in ActiveCaptures(Txs) /\ a.tx = x.tx /\ a.open = x.open /\ a.images = x.images
    BY <1>6, <2>1, ReportFacts
  <2>4. x.open
    BY <1>4, <1>8 DEF FailAccepted, Matching
  <2>5. HandedOver(a, s, d, g) /\ (ImagesAreOver(a) /\ AnswersAgree(a, g))'
    <3>1. TablesFit(a, s) /\ Collecting(a)
      BY <1>6, <2>3, <2>4, SameSet
    <3>2. (ImagesAreOver(a) /\ AnswersAgree(a, g))'
      BY <1>5, <1>6, <2>3, <2>4, SameSet
    <3> QED  BY <1>5, <2>3, <3>1, <3>2 DEF HandedOver
  <2>6. Handled(a, s, d, g)
    <3>1. Handled(a, s, d, g \cup {})
      BY <1>4, <2>2, ClosedOrKept DEF Handled
    <3> QED  BY <3>1
  <2>7. a.open => active.open
    BY <1>4, <2>3
  <2> QED  BY <1>1, <1>7, <2>2, <2>5, <2>6, <2>7, FrameStep
<1>9. CASE ~FailAccepted(active, c, Got(c)[2])
  <2>1. UNCHANGED <<current, captureVars, down>>
    BY <1>9 DEF NodeError
  <2>2. Handled(x, s, d, g) /\ current' = current
    BY <1>4, <2>1 DEF captureVars, Handled, Kept
  <2> QED  BY <1>1, <1>4, <1>5, <1>7, <2>2, FrameStep
<1> QED  BY <1>8, <1>9

(* payload_progress(), and the end of a session.                           *)
LEMMA PayloadProgressStep ==
  ASSUME RigInv, NEW c \in Cameras, PayloadProgress(c)
  PROVE  RigInv' /\ FatesMove
<1>1. /\ active.open /\ active' = AfterProgress(active, 0)
      /\ UNCHANGED <<node, shot, previewDue, pressed, up, down, link, breaks, sess, current,
                     seen, tables,
                     pending, auto, published, answers, commands, preview, request, mainAlive>>
  BY DEF PayloadProgress, ProgressAccepted, Matching, nodeVars, mainVars
<1>2. NodeTypes /\ SessionTypes /\ MainTypes /\ PreviewYields
  BY TypesTogether DEF RigInv
<1>3. LinksRead
  BY <1>1, <1>2 DEF LinksRead, NodeTypes
<1>4. PICK x, s, d, g : x = active /\ s = tables /\ d = down /\ g = answers
  OBVIOUS
<1>5. HandedOver(x, s, d, g) /\ (ImagesAreOver(x) /\ AnswersAgree(x, g))'
  BY <1>1, <1>3, <1>4, AsItWas
<1>6. PICK a : a = AfterProgress(x, 0)
  OBVIOUS
<1>7. a \in ActiveCaptures(Txs) /\ a.tx = x.tx /\ a.open = x.open /\ a.images = x.images
  BY <1>5, <1>6, AgesFacts DEF AfterProgress, ActiveCaptures, HandedOver
<1>8. HandedOver(a, s, d, g)
  BY <1>1, <1>4, <1>5, <1>7, SameSet DEF HandedOver
<1>9. (ImagesAreOver(a) /\ AnswersAgree(a, g))'
  BY <1>1, <1>4, <1>5, <1>7, SameSet DEF HandedOver
<1>10. Handled(a, s, d, g)
  BY <1>1, <1>4, <1>6 DEF Handled, Kept
<1>11. PreviewFollows(a)
  BY <1>1, <1>2, <1>4, <1>7 DEF PreviewFollows, PreviewYields
<1>12. SessionTypes' /\ MainTypes' /\ link' \in [Cameras -> LinkStates]
  BY <1>1, <1>2 DEF SessionTypes, MainTypes, NodeTypes
<1> QED  BY <1>1, <1>3, <1>8, <1>9, <1>10, <1>11, <1>12, HandlerStep

LEMMA LostFacts ==
  ASSUME NEW a, NEW t \in TableStates, TablesFit(a, t), NEW c
  PROVE  LET u == [t EXCEPT !.acks = SessionLost(@, c)]
         IN  u \in TableStates /\ TablesFit(a, u)
<1>1. PICK K : K = [cam : Cameras, q : Txs, live : BOOLEAN]
  OBVIOUS
<1>2. PICK old : old = t.acks
  OBVIOUS
<1>3. old \in Seq(K)
  BY <1>1, <1>2 DEF TableStates
<1>4. PICK now : now = SessionLost(old, c)
  OBVIOUS
<1>5. now = [i \in 1..Len(old) |-> IF old[i].cam = c THEN [old[i] EXCEPT !.live = FALSE] ELSE old[i]]
  BY <1>4 DEF SessionLost
<1>6. \A i \in 1..Len(old) : old[i] \in K
  BY <1>3, ElementOfSeq
<1>7. \A i \in 1..Len(old) : now[i] \in K /\ now[i].cam = old[i].cam /\ now[i].q = old[i].q
  BY <1>1, <1>5, <1>6
<1>8. now \in Seq(K) /\ Len(now) = Len(old)
  <2>1. Len(old) \in Nat
    BY <1>3, LenProperties
  <2>2. now \in [1..Len(old) -> K]
    BY <1>5, <1>7
  <2> QED  BY <2>1, <2>2, IsASeq, LenProperties
<1>9. {<<k.cam, k.q>> : k \in {now[i] : i \in 1..Len(now)}}
        = {<<k.cam, k.q>> : k \in {old[i] : i \in 1..Len(old)}}
  BY <1>7, <1>8
<1>10. PICK u : u = [t EXCEPT !.acks = now]
  OBVIOUS
<1>11. u \in TableStates /\ u.started = t.started /\ u.images = t.images /\ u.acks = now
  BY <1>1, <1>8, <1>10 DEF TableStates
<1>12. TablesFit(a, u)
  BY <1>2, <1>8, <1>9, <1>11 DEF TablesFit
<1> QED  BY <1>2, <1>4, <1>10, <1>11, <1>12

LEMMA DisconnectedStep ==
  ASSUME RigInv, NEW c \in Cameras, Disconnected(c)
  PROVE  RigInv' /\ FatesMove
<1>1. /\ sess' = [sess EXCEPT ![c] = "off"] /\ current' = [current EXCEPT ![c] = NoTx]
      /\ preview' = (IF preview.outstanding = c THEN PreviewCancelled ELSE preview)
      /\ UNCHANGED <<node, shot, previewDue, pressed, up, link, breaks, commands, request, mainAlive>>
  BY DEF Disconnected
<1>2. NodeTypes /\ SessionTypes /\ MainTypes /\ PreviewYields
  BY TypesTogether DEF RigInv
<1>3. LinksRead
  BY <1>1, <1>2 DEF LinksRead, NodeTypes
<1>4. PICK x, s, d, g, q : x = active /\ s = tables /\ d = down /\ g = answers /\ q = current[c]
  OBVIOUS
<1>5. HandedOver(x, s, d, g) /\ (ImagesAreOver(x) /\ AnswersAgree(x, g))'
  BY <1>1, <1>3, <1>4, AsItWas
<1>6. x \in ActiveCaptures(Txs) /\ s \in TableStates /\ TablesFit(x, s) /\ Collecting(x)
  BY <1>5 DEF HandedOver
<1>7. PICK t : t = [s EXCEPT !.acks = SessionLost(@, c)]
  OBVIOUS
<1>8. t \in TableStates /\ TablesFit(x, t)
  BY <1>6, <1>7, LostFacts
<1>9. SessionTypes' /\ MainTypes' /\ link' \in [Cameras -> LinkStates]
  <2>1. NoTx \in 0..MaxShots
    BY NumbersFacts DEF NoTx
  <2>2. PreviewCancelled \in Previews
    BY <1>2 DEF MainTypes, Previews, PreviewCancelled
  <2> QED  BY <1>1, <1>2, <2>1, <2>2 DEF SessionTypes, MainTypes, NodeTypes
<1>10. \A a : (a.open => x.open) => PreviewFollows(a)
  <2>1. PreviewCancelled.outstanding = NoCam
    BY <1>2 DEF MainTypes, Previews, PreviewCancelled
  <2>2. preview.outstanding \in Cameras \cup {NoCam}
    BY <1>2 DEF MainTypes, Previews
  <2>3. CASE preview.outstanding = c
    BY <1>1, <2>1, <2>3 DEF PreviewFollows
  <2>4. CASE preview.outstanding # c
    <3>1. preview.outstanding # NoCam => sess'[preview.outstanding] = "open"
      BY <1>1, <1>2, <2>2, <2>4 DEF PreviewYields, SessionTypes
    <3> QED  BY <1>1, <1>4, <2>4, <3>1 DEF PreviewFollows
  <2> QED  BY <2>3, <2>4
<1>11. CASE q = NoTx
  <2>1. tables' = t /\ UNCHANGED <<active, seen, pending, auto, published, answers, down>>
    BY <1>4, <1>7, <1>11 DEF Disconnected
  <2>2. Handled(x, t, d, g) /\ HandedOver(x, t, d, g) /\ PreviewFollows(x)
    BY <1>4, <1>5, <1>8, <1>10, <2>1 DEF Handled, Kept, HandedOver
  <2> QED  BY <1>1, <1>3, <1>5, <1>9, <2>2, HandlerStep
<1>12. CASE q # NoTx /\ FailAccepted(active, c, q)
  <2>1. PICK a, u : /\ a = AfterFail(x, c, 0)
                    /\ u = [t EXCEPT !.images = @ \ {<<c, q>>}, !.rejected = @ \cup {<<c, q>>}]
    OBVIOUS
  <2>2. FinalizeIfReady(a, u, d, {}, 0)
    BY <1>4, <1>7, <1>12, <2>1 DEF Disconnected
  <2>3. x.open /\ q \in Txs
    <3>1. x.open /\ x.tx[c] = q
      BY <1>4, <1>12 DEF FailAccepted, Matching
    <3> QED  BY <1>6, <1>12, <3>1 DEF ActiveCaptures
  <2>4. a \in ActiveCaptures(Txs) /\ a.tx = x.tx /\ a.open = x.open /\ a.images = x.images
    <3>1. 0 \in Lags
      BY WindowsAssumption DEF Lags
    <3> QED  BY <1>6, <2>1, <3>1, ReportFacts
  <2>5. u \in TableStates /\ TablesFit(x, u)
    <3>1. PICK K : K = Seq([cam : Cameras, q : Txs, live : BOOLEAN])
      OBVIOUS
    <3>2. PICK T : T = Tx
      OBVIOUS
    <3>3. t \in [started : SUBSET T, images : SUBSET T, rejected : SUBSET T, acks : K]
      BY <1>8, <3>1, <3>2 DEF TableStates
    <3>4. <<c, q>> \in T
      BY <2>3, <3>2 DEF Tx
    <3>5. /\ u.started = t.started /\ u.images = t.images \ {<<c, q>>} /\ u.acks = t.acks
          /\ u \in [started : SUBSET T, images : SUBSET T, rejected : SUBSET T, acks : K]
      BY <2>1, <3>3, <3>4
    <3>6. u \in TableStates
      BY <3>1, <3>2, <3>5 DEF TableStates
    <3> QED  BY <1>8, <3>5, <3>6 DEF TablesFit
  <2>6. TablesFit(a, u) /\ Collecting(a)
    BY <1>6, <2>3, <2>4, <2>5, SameSet
  <2>7. (ImagesAreOver(a) /\ AnswersAgree(a, g))'
    BY <1>5, <1>6, <2>3, <2>4, SameSet
  <2>8. HandedOver(a, u, d, g) /\ PreviewFollows(a)
    BY <1>5, <1>10, <2>4, <2>5, <2>6 DEF HandedOver
  <2>9. Handled(a, u, d, g)
    <3>1. Handled(a, u, d, g \cup {})
      BY <1>4, <2>2, ClosedOrKept DEF Handled
    <3> QED  BY <3>1
  <2> QED  BY <1>1, <1>3, <1>9, <2>7, <2>8, <2>9, HandlerStep
<1>13. CASE q # NoTx /\ ~FailAccepted(active, c, q)
  <2>1. FinalizeIfReady(x, t, d, {}, 0)
    BY <1>4, <1>7, <1>13 DEF Disconnected
  <2>2. Handled(x, t, d, g)
    <3>1. Handled(x, t, d, g \cup {})
      BY <1>4, <2>1, ClosedOrKept DEF Handled
    <3> QED  BY <3>1
  <2>3. HandedOver(x, t, d, g) /\ PreviewFollows(x)
    BY <1>5, <1>8, <1>10 DEF HandedOver
  <2> QED  BY <1>1, <1>3, <1>5, <1>9, <2>2, <2>3, HandlerStep
<1> QED  BY <1>11, <1>12, <1>13

-----------------------------------------------------------------------------
(* The Receiver thread, the shutter and the clock: the set keeps its       *)
(* photos, and no frame is read.                                           *)
LEMMA MainStep ==
  ASSUME RigInv, UNCHANGED <<node, shot, previewDue, up, link, breaks, sess, current, seen, tables,
                             published, answers>>,
         \A c \in pressed' : c \in Cameras /\ (c \in pressed \/ shot[c] < MaxShots),
         down' \in [Cameras -> Seq(DownFrames)], AnswersComeFromPi(down', answers),
         NEW a \in ActiveCaptures(Txs), active' = a, a.tx = active.tx, a.images = active.images,
         a.open = active.open, active.open \/ a = active,
         TriggerTypes', AutoAgrees', MainTypes', PreviewYields'
  PROVE  RigInv' /\ FatesMove
<1>1. NodeTypes /\ SessionTypes /\ CaptureTypes
  BY TypesTogether DEF RigInv
<1>2. LinksRead
  BY <1>1 DEF LinksRead, NodeTypes
<1>3. PICK x, s, d, g, e : x = active /\ s = tables /\ d = down /\ g = answers /\ e = down'
  OBVIOUS
<1>4. HandedOver(x, s, d, g) /\ (ImagesAreOver(x) /\ AnswersAgree(x, g))'
  BY <1>2, <1>3, AsItWas
<1>5. TablesFit(a, s) /\ Collecting(a)
  BY <1>3, <1>4, SameSet DEF HandedOver
<1>6. (ImagesAreOver(a) /\ AnswersAgree(a, g))'
  BY <1>3, <1>4, SameSet DEF HandedOver
<1>7. HandedOver(a, s, e, g)
  BY <1>3, <1>4, <1>5 DEF HandedOver
<1>8. Kept(a, s, e, g)
  BY <1>3 DEF Kept
<1>9. (CaptureTypes /\ AnswersComeFromPi(down, answers) /\ CaptureAgrees)'
  BY <1>6, <1>7, <1>8, CaptureKept
<1>10. \A c \in Cameras : LinkAgrees(c)'
  BY <1>2, LinksKept
<1>11. NodeTypes' /\ SessionTypes'
  BY <1>1 DEF NodeTypes, SessionTypes
<1>12. TypeOK'
  BY <1>9, <1>11, TypesTogetherNext
<1>13. FatesMove
  BY DEF FatesMove
<1> QED  BY <1>9, <1>10, <1>12, <1>13 DEF RigInv

LEMMA PressStep ==
  ASSUME RigInv, Pressed
  PROVE  RigInv' /\ FatesMove
<1>1. NodeTypes /\ CaptureTypes /\ TriggerTypes /\ MainTypes
      /\ AutoAgrees /\ PreviewYields /\ AnswersComeFromPi(down, answers)
  BY TypesTogether DEF RigInv
<1>2. /\ UNCHANGED <<node, shot, previewDue, up, down, link, breaks, sess, current, active, seen, tables,
                      pending, auto, published, answers, commands, preview, request, mainAlive>>
      /\ \A c \in pressed' : c \in Cameras /\ shot[c] < MaxShots
  BY DEF Pressed, Press, LineLow, piVars, captureVars, mainVars
<1>3. (TriggerTypes /\ AutoAgrees /\ MainTypes /\ PreviewYields)'
  BY <1>1, <1>2 DEF TriggerTypes, AutoAgrees, AttemptIsPending, MainTypes, PreviewYields
<1>4. PICK a : a = active
  OBVIOUS
<1>5. down' \in [Cameras -> Seq(DownFrames)] /\ AnswersComeFromPi(down', answers)
      /\ a \in ActiveCaptures(Txs)
  BY <1>1, <1>2, <1>4 DEF NodeTypes, CaptureTypes
<1> QED  BY <1>2, <1>3, <1>4, <1>5, MainStep

LEMMA TickStep ==
  ASSUME RigInv, Tick
  PROVE  RigInv' /\ FatesMove
<1>1. NodeTypes /\ CaptureTypes /\ TriggerTypes /\ MainTypes /\ CaptureAgrees
      /\ AutoAgrees /\ PreviewYields /\ AnswersComeFromPi(down, answers)
  BY TypesTogether DEF RigInv
<1>2. /\ UNCHANGED <<node, shot, previewDue, pressed, up, down, link, breaks, sess, current,
                     seen, tables,
                      auto, published, answers, commands, preview, request, mainAlive>>
      /\ active' = Aged(active)
      /\ pending' = IF pending = NoTrigger THEN NoTrigger ELSE Grown(pending)
  BY DEF Tick, nodeVars, mainVars
<1>3. PICK x, a : x = active /\ a = Aged(x)
  OBVIOUS
<1>4. /\ a \in ActiveCaptures(Txs) /\ a.tx = x.tx /\ a.open = x.open /\ a.images = x.images
      /\ ~x.open => a = x
  BY <1>1, <1>3, AgedFacts DEF CaptureTypes
<1>5. (TriggerTypes /\ AutoAgrees)' /\ (pending = NoTrigger <=> pending' = NoTrigger)
  <2>1. NoTrigger \notin Ages
    BY AgesFacts DEF NoTrigger
  <2>2. pending # NoTrigger => pending \in Ages /\ Grown(pending) \in Ages
    BY <1>1, AgesFacts DEF TriggerTypes
  <2> QED  BY <1>1, <1>2, <2>1, <2>2 DEF TriggerTypes, AutoAgrees, AttemptIsPending
<1>6. (MainTypes /\ PreviewYields)'
  BY <1>1, <1>2, <1>3, <1>4, <1>5 DEF MainTypes, PreviewYields
<1>7. down' \in [Cameras -> Seq(DownFrames)] /\ AnswersComeFromPi(down', answers)
      /\ pressed \subseteq Cameras
  BY <1>1, <1>2 DEF NodeTypes
<1> QED  BY <1>2, <1>3, <1>4, <1>5, <1>6, <1>7, MainStep

LEMMA ProcessCommandsStep ==
  ASSUME RigInv, ProcessCommands
  PROVE  RigInv' /\ FatesMove
<1>1. NodeTypes /\ CaptureTypes /\ TriggerTypes /\ MainTypes
      /\ AutoAgrees /\ PreviewYields /\ AnswersComeFromPi(down, answers)
  BY TypesTogether DEF RigInv
<1>2. UNCHANGED <<nodeVars, sess, current, captureVars, mainAlive>> /\ commands' = <<>>
  BY DEF ProcessCommands
<1>3. preview' \in Previews /\ preview'.outstanding \in {preview.outstanding, NoCam}
  <2> DEFINE toggles == SelectSeq(commands, LAMBDA k : k # "CAPTURE")
             shown   == toggles[Len(toggles)] = "PREVIEW_START"
  <2>1. PICK out \in {preview.outstanding, NoCam} :
          \/ preview' = preview
          \/ preview' = [preview EXCEPT !.wanted = shown, !.outstanding = out]
    BY DEF ProcessCommands
  <2>2. PICK b \in BOOLEAN : b = shown
    OBVIOUS
  <2> HIDE DEF shown
  <2>3. preview' = preview \/ preview' = [preview EXCEPT !.wanted = b, !.outstanding = out]
    BY <2>1, <2>2
  <2>4. b \in BOOLEAN /\ out \in {preview.outstanding, NoCam}
    BY <2>1, <2>2
  <2>5. preview \in Previews
    BY <1>1 DEF MainTypes
  <2> QED  BY <2>3, <2>4, <2>5 DEF Previews
<1>4. \E automatic \in {AutomaticDue, FALSE} :
        request' = CASE automatic -> "automatic"
                     [] ~automatic /\ "CAPTURE" \in {commands[i] : i \in 1..Len(commands)} -> "manual"
                     [] OTHER -> "none"
  BY DEF ProcessCommands
<1>5. /\ request' \in {"none", "manual", "automatic"}
      /\ request' = "automatic" => auto.remaining > 0 /\ ~auto.inFlight
  BY <1>4 DEF AutomaticDue
<1>6. UNCHANGED <<node, shot, previewDue, pressed, up, down, link, breaks, sess, current, active, seen,
                  tables, pending, auto, published, answers, mainAlive>>
  BY <1>2 DEF nodeVars, captureVars
<1>7. (TriggerTypes /\ AutoAgrees /\ MainTypes /\ PreviewYields)'
  <2>1. MainTypes'
    BY <1>1, <1>2, <1>5, <1>3 DEF MainTypes
  <2>2. (TriggerTypes /\ AutoAgrees)'
    BY <1>1, <1>5, <1>6 DEF TriggerTypes, AutoAgrees, AttemptIsPending
  <2>3. PreviewYields'
    BY <1>1, <1>3, <1>6 DEF PreviewYields
  <2> QED  BY <2>1, <2>2, <2>3
<1>8. PICK a : a = active
  OBVIOUS
<1>9. down' \in [Cameras -> Seq(DownFrames)] /\ AnswersComeFromPi(down', answers)
     /\ a \in ActiveCaptures(Txs) /\ pressed \subseteq Cameras
  BY <1>1, <1>6, <1>8 DEF NodeTypes, CaptureTypes
<1> QED  BY <1>6, <1>7, <1>8, <1>9, MainStep

LEMMA RequestCaptureStep ==
  ASSUME RigInv, RequestCapture
  PROVE  RigInv' /\ FatesMove
<1>1. NodeTypes /\ CaptureTypes /\ TriggerTypes /\ MainTypes
      /\ AutoAgrees /\ PreviewYields /\ AnswersComeFromPi(down, answers)
  BY TypesTogether DEF RigInv
<1>2. /\ UNCHANGED <<node, shot, previewDue, up, down, link, breaks, sess, current, active, seen, tables,
                      published, answers, commands, mainAlive>>
      /\ request' = "none" /\ preview' = PreviewCancelled
  BY DEF RequestCapture
<1>3. \/ UNCHANGED <<pressed, pending, auto>>
      \/ /\ pending' = 0 /\ LineLow
         /\ auto' = [auto EXCEPT !.inFlight = @ \/ request = "automatic"]
  BY DEF RequestCapture
<1>4. \A c \in pressed' : c \in Cameras /\ (c \in pressed \/ shot[c] < MaxShots)
  BY <1>1, <1>3 DEF LineLow, NodeTypes
<1>5. (TriggerTypes /\ AutoAgrees)'
  <2>1. CASE UNCHANGED <<pressed, pending, auto>>
    BY <1>1, <1>2, <2>1 DEF TriggerTypes, AutoAgrees, AttemptIsPending
  <2>2. CASE pending' = 0 /\ auto' = [auto EXCEPT !.inFlight = @ \/ request = "automatic"]
    <3>1. 0 \in Ages /\ 0 # NoTrigger
      BY AgesFacts DEF NoTrigger
    <3>2. auto'.remaining = auto.remaining /\ auto' \in [remaining : 0..AutoTriggers, inFlight : BOOLEAN]
          /\ (auto'.inFlight => auto.inFlight \/ request = "automatic")
      BY <1>1, <2>2 DEF TriggerTypes
    <3> QED  BY <1>1, <1>2, <2>2, <3>1, <3>2 DEF TriggerTypes, AutoAgrees, AttemptIsPending
  <2> QED  BY <1>3, <2>1, <2>2
<1>6. (MainTypes /\ PreviewYields)'
  <2>1. PreviewCancelled \in Previews /\ PreviewCancelled.outstanding = NoCam
    BY <1>1 DEF MainTypes, Previews, PreviewCancelled
  <2>2. MainTypes'
    BY <1>1, <1>2, <2>1 DEF MainTypes
  <2>3. PreviewYields'
    BY <1>2, <2>1 DEF PreviewYields
  <2> QED  BY <2>2, <2>3
<1>7. PICK a : a = active
  OBVIOUS
<1>8. down' \in [Cameras -> Seq(DownFrames)] /\ AnswersComeFromPi(down', answers)
      /\ a \in ActiveCaptures(Txs)
  BY <1>1, <1>2, <1>7 DEF NodeTypes, CaptureTypes
<1> QED  BY <1>2, <1>4, <1>5, <1>6, <1>7, <1>8, MainStep

LEMMA ExpireStep ==
  ASSUME RigInv, ExpireUnansweredTrigger
  PROVE  RigInv' /\ FatesMove
<1>1. NodeTypes /\ CaptureTypes /\ TriggerTypes /\ MainTypes
      /\ AutoAgrees /\ PreviewYields /\ AnswersComeFromPi(down, answers)
  BY TypesTogether DEF RigInv
<1>2. /\ UNCHANGED <<node, shot, previewDue, pressed, up, down, link, breaks, sess, current,
                     active, seen,
                      tables, published, answers, commands, preview, request, mainAlive>>
      /\ pending' = NoTrigger /\ auto' = AttemptFinished /\ request = "none"
  BY DEF ExpireUnansweredTrigger, nodeVars, mainVars
<1>3. (TriggerTypes /\ AutoAgrees)'
  <2>1. CASE auto.inFlight
    <3>1. auto.remaining \in 1..AutoTriggers /\ AutoTriggers \in Nat
          /\ auto' = [remaining |-> auto.remaining - 1, inFlight |-> FALSE]
      BY <1>1, <1>2, <2>1, ReceiverAssumption DEF TriggerTypes, AutoAgrees, AttemptFinished
    <3>2. auto' \in [remaining : 0..AutoTriggers, inFlight : BOOLEAN] /\ ~auto'.inFlight
      BY <3>1
    <3> QED  BY <1>2, <3>2 DEF TriggerTypes, AutoAgrees, AttemptIsPending
  <2>2. CASE ~auto.inFlight
    BY <1>1, <1>2, <2>2 DEF TriggerTypes, AutoAgrees, AttemptIsPending, AttemptFinished
  <2> QED  BY <2>1, <2>2
<1>4. (MainTypes /\ PreviewYields)'
  BY <1>1, <1>2 DEF MainTypes, PreviewYields
<1>5. PICK a : a = active
  OBVIOUS
<1>6. down' \in [Cameras -> Seq(DownFrames)] /\ AnswersComeFromPi(down', answers)
      /\ a \in ActiveCaptures(Txs) /\ pressed \subseteq Cameras
  BY <1>1, <1>2, <1>5 DEF NodeTypes, CaptureTypes
<1> QED  BY <1>2, <1>3, <1>4, <1>5, <1>6, MainStep

LEMMA FinalizeStep ==
  ASSUME RigInv, FinalizeInLoop
  PROVE  RigInv' /\ FatesMove
<1>1. NodeTypes /\ SessionTypes /\ MainTypes /\ PreviewYields
  BY TypesTogether DEF RigInv
<1>2. /\ UNCHANGED <<node, shot, previewDue, pressed, up, link, breaks, sess, current, commands, preview,
                      request, mainAlive>>
      /\ FinalizeIfReady(active, tables, down, {}, 0)
  BY DEF FinalizeInLoop, mainVars
<1>3. LinksRead
  BY <1>1, <1>2 DEF LinksRead, NodeTypes
<1>4. PICK x, s, d, g : x = active /\ s = tables /\ d = down /\ g = answers
  OBVIOUS
<1>5. HandedOver(x, s, d, g) /\ (ImagesAreOver(x) /\ AnswersAgree(x, g))'
  BY <1>2, <1>3, <1>4, AsItWas
<1>6. Handled(x, s, d, g)
  <2>1. FinalizeIfReady(x, s, d, {}, 0)
    BY <1>2, <1>4
  <2>2. Handled(x, s, d, g \cup {})
    BY <1>4, <2>1, ClosedOrKept DEF Handled
  <2> QED  BY <2>2
<1>7. PreviewFollows(x)
  BY <1>1, <1>2, <1>4 DEF PreviewFollows, PreviewYields
<1>8. SessionTypes' /\ MainTypes' /\ link' \in [Cameras -> LinkStates]
  BY <1>1, <1>2 DEF SessionTypes, MainTypes, NodeTypes
<1> QED  BY <1>2, <1>3, <1>5, <1>6, <1>7, <1>8, HandlerStep

LEMMA CommandStep ==
  ASSUME RigInv, NEW kind \in UiCommands, Command(kind)
  PROVE  RigInv' /\ FatesMove
<1>1. NodeTypes /\ CaptureTypes /\ TriggerTypes /\ MainTypes
      /\ AutoAgrees /\ PreviewYields /\ AnswersComeFromPi(down, answers)
  BY TypesTogether DEF RigInv
<1>2. /\ UNCHANGED <<node, shot, previewDue, pressed, up, down, link, breaks, sess, current,
                     active, seen,
                      tables, pending, auto, published, answers, preview, request, mainAlive>>
      /\ commands' = Append(commands, kind)
  BY DEF Command, nodeVars, captureVars
<1>3. commands' \in Seq(UiCommands)
  BY <1>1, <1>2, AppendProperties DEF MainTypes
<1>4. (TriggerTypes /\ AutoAgrees /\ MainTypes /\ PreviewYields)'
  BY <1>1, <1>2, <1>3 DEF TriggerTypes, AutoAgrees, AttemptIsPending, MainTypes, PreviewYields
<1>5. PICK a : a = active
  OBVIOUS
<1>6. down' \in [Cameras -> Seq(DownFrames)] /\ AnswersComeFromPi(down', answers)
      /\ a \in ActiveCaptures(Txs) /\ pressed \subseteq Cameras
  BY <1>1, <1>2, <1>5 DEF NodeTypes, CaptureTypes
<1> QED  BY <1>2, <1>4, <1>5, <1>6, MainStep

LEMMA ServicePreviewStep ==
  ASSUME RigInv, ServicePreview
  PROVE  RigInv' /\ FatesMove
<1>1. NodeTypes /\ CaptureTypes /\ TriggerTypes /\ MainTypes
      /\ AutoAgrees /\ PreviewYields /\ AnswersComeFromPi(down, answers)
  BY TypesTogether DEF RigInv
<1>2. UNCHANGED <<node, shot, previewDue, pressed, up, link, breaks, sess, current, active, seen, tables,
                  pending, auto, published, answers, commands, request>>
  BY DEF ServicePreview, captureVars
<1>3. PICK n, target : n = Cardinality(Cameras) /\ target = CameraOrder[preview.index + 1]
  OBVIOUS
<1>4. PICK next : next = [preview EXCEPT !.outstanding = NoCam, !.index = (@ + 1) % n]
  OBVIOUS
<1>5. /\ n = Cardinality(Cameras) /\ target = CameraOrder[preview.index + 1]
      /\ next = [preview EXCEPT !.outstanding = NoCam, !.index = (@ + 1) % n]
  BY <1>3, <1>4
<1>6. \/ preview' = PreviewCancelled /\ mainAlive' \in {mainAlive, FALSE} /\ down' = down
      \/ preview' = next /\ mainAlive' = FALSE /\ down' = down
      \/ /\ preview' = [next EXCEPT !.outstanding = target] /\ mainAlive' = mainAlive
         /\ down' = [down EXCEPT ![target] = Append(@, Frame("PREVIEW_REQUEST", 0))]
         /\ ~PreviewBlocked /\ Reachable(target)
  BY <1>5 DEF ServicePreview
<1>7. n \in Nat \ {0} /\ preview.index \in 0..(n - 1) /\ target \in Cameras
      /\ (preview.index + 1) % n \in 0..(n - 1)
  <2>1. n \in Nat /\ n # 0
    BY <1>5, CamerasAssumption, FS_EmptySet, FS_CardinalityType
  <2>2. preview.index \in 0..(n - 1)
    BY <1>1, <1>5 DEF MainTypes, Previews
  <2>3. preview.index + 1 \in 1..n /\ (preview.index + 1) % n \in 0..(n - 1)
    BY <2>1, <2>2
  <2>4. target \in Cameras
    BY <1>5, <2>3, ReceiverAssumption
  <2> QED  BY <2>1, <2>2, <2>3, <2>4
<1>8. PreviewCancelled \in Previews /\ PreviewCancelled.outstanding = NoCam
      /\ next \in Previews /\ next.outstanding = NoCam
      /\ [next EXCEPT !.outstanding = target] \in Previews
      /\ [next EXCEPT !.outstanding = target].outstanding = target
  BY <1>1, <1>5, <1>7 DEF MainTypes, Previews, PreviewCancelled
<1>9. (TriggerTypes /\ AutoAgrees)'
  BY <1>1, <1>2 DEF TriggerTypes, AutoAgrees, AttemptIsPending
<1>10. (MainTypes /\ PreviewYields)'
  <2>1. MainTypes'
    BY <1>1, <1>2, <1>6, <1>8 DEF MainTypes
  <2>2. PreviewYields'
    <3>1. CASE preview'.outstanding = NoCam
      BY <3>1 DEF PreviewYields
    <3>2. CASE preview'.outstanding # NoCam
      <4>1. preview'.outstanding = target /\ ~PreviewBlocked /\ Reachable(target)
        BY <1>6, <1>8, <3>2
      <4> QED  BY <1>2, <4>1 DEF PreviewYields, PreviewBlocked, TriggerAllowed, Reachable
    <3> QED  BY <3>1, <3>2
  <2> QED  BY <2>1, <2>2
<1>11. down' \in [Cameras -> Seq(DownFrames)] /\ AnswersComeFromPi(down', answers)
  <2>1. CASE down' = down
    BY <1>1, <2>1 DEF NodeTypes
  <2>2. CASE down' = [down EXCEPT ![target] = Append(@, Frame("PREVIEW_REQUEST", 0))]
    <3>1. PICK f, d, g : f = Frame("PREVIEW_REQUEST", 0) /\ d = down /\ g = answers
      OBVIOUS
    <3>2. f \in DownFrames /\ f.kind \notin {"ACK", "NACK"}
      BY <3>1, Frames, NumbersFacts DEF DownKinds
    <3>3. d \in [Cameras -> Seq(DownFrames)] /\ AnswersComeFromPi(d, g)
      BY <1>1, <3>1 DEF NodeTypes
    <3> QED  BY <1>7, <2>2, <3>1, <3>2, <3>3, Queued
  <2> QED  BY <1>6, <2>1, <2>2
<1>12. PICK a : a = active
  OBVIOUS
<1>13. a \in ActiveCaptures(Txs) /\ pressed \subseteq Cameras
  BY <1>1, <1>12 DEF NodeTypes, CaptureTypes
<1> QED  BY <1>2, <1>9, <1>10, <1>11, <1>12, <1>13, MainStep

-----------------------------------------------------------------------------
(* The invariant of the rig.                                               *)
LEMMA RigInit == Init => RigInv
<1> SUFFICES ASSUME Init PROVE RigInv
  OBVIOUS
<1> USE DEF Init, NodeInit, ReceiverInit
<1>1. Started(Idle) = {} /\ Transactions(Idle) = {} /\ Idle.images = {} /\ ~Idle.open
      /\ Idle \in ActiveCaptures(Txs)
  BY IdleType DEF Transactions, Idle
<1>2. TypeOK
  <2>1. NodeTypes
    BY NumbersFacts, NodeAssumption DEF NodeTypes, NodeStates, LinkStates
  <2>2. SessionTypes
    BY NumbersFacts DEF SessionTypes, NoTx
  <2>3. CaptureTypes
    <3>1. tables \in TableStates
      BY DEF NoTables, TableStates
    <3>2. down \in [Cameras -> Seq(DownFrames)] /\ answers \subseteq AnswerSet /\ seen \subseteq Tx
      OBVIOUS
    <3>3. published \in Seq(CompletedCaptures(Txs))
      OBVIOUS
    <3> QED  BY <1>1, <3>1, <3>2, <3>3 DEF CaptureTypes
  <2>4. TriggerTypes
    BY ReceiverAssumption DEF TriggerTypes
  <2>5. MainTypes
    <3>1. Cardinality(Cameras) \in Nat /\ Cardinality(Cameras) # 0
      BY CamerasAssumption, FS_EmptySet, FS_CardinalityType
    <3>2. 0 \in 0..(Cardinality(Cameras) - 1)
      BY <3>1
    <3> QED  BY <3>2 DEF MainTypes, Previews
  <2> QED  BY <2>1, <2>2, <2>3, <2>4, <2>5, TypesTogether
<1>3. \A c \in Cameras : LinkAgrees(c)
  <2>1. \A c \in Cameras : up[c] = <<>> /\ node[c] = "idle" /\ c \notin pressed
    OBVIOUS
  <2>2. \A c \in Cameras : InOrder(up[c], shot[c])
    BY <2>1, EmptyLink
  <2> QED  BY <2>1, <2>2 DEF LinkAgrees
<1>4. AnswersComeFromPi(down, answers)
  BY DEF AnswersComeFromPi
<1>5. CaptureAgrees
  <2>1. Cardinality({}) = 0 /\ Len(<<>>) = 0
    BY FS_EmptySet
  <2>2. TablesFit(active, tables) /\ Collecting(active)
    BY <1>1, <2>1 DEF TablesFit, NoTables, Collecting
  <2>3. PublishedAgrees /\ ImagesAreOver(active) /\ AnswersAgree(active, answers)
    BY <1>1 DEF PublishedAgrees, ImagesAreOver, AnswersAgree
  <2>4. AckMeansPublished
    BY DEF AckMeansPublished
  <2> QED  BY <2>2, <2>3, <2>4 DEF CaptureAgrees
<1>6. AutoAgrees /\ PreviewYields
  BY DEF AutoAgrees, AttemptIsPending, PreviewYields
<1> QED  BY <1>2, <1>3, <1>4, <1>5, <1>6 DEF RigInv

LEMMA NodesStep ==
  ASSUME RigInv, NodeNext
  PROVE  RigInv'
<1>1. UNCHANGED piVars /\ \E c \in Cameras : NodeStep(c) \/ Cable(c)
  BY DEF NodeNext
<1>2. PICK c \in Cameras : NodeStep(c) \/ Cable(c)
  BY <1>1
<1>3. CASE Cable(c)
  BY <1>1, <1>3, CableStep
<1>4. CASE NodeStep(c)
  BY <1>1, <1>4, SetupStep, PollStep, TakePhotoStep, ErrorStep, TransferStep, ReadReplyStep,
     SendPreviewStep DEF NodeStep
<1> QED  BY <1>2, <1>3, <1>4

(* The steps of the Pi.                                                    *)
LEMMA PiStep ==
  ASSUME RigInv, Next, ~NodeNext
  PROVE  RigInv' /\ FatesMove
<1>1. CASE Pressed
  BY <1>1, PressStep
<1>2. ASSUME NEW c \in Cameras, Session(c)
      PROVE  RigInv' /\ FatesMove
  <2>1. CASE Discover(c) \/ ReadHello(c) \/ Identify(c) \/ GiveUp(c)
    BY <2>1, OpeningSteps
  <2>2. CASE PreviewReceived(c) \/ HelloIgnored(c)
    BY <2>2, QuietReadStep
  <2>3. ASSUME NEW lag \in Lags, \/ CaptureStarted(c, lag) \/ ImageReceived(c, lag)
                                 \/ TransferComplete(c, lag) \/ NodeError(c, lag)
        PROVE  RigInv' /\ FatesMove
    BY <2>3, CaptureStartedStep, ImageReceivedStep, TransferCompleteStep, NodeErrorStep
  <2>4. CASE PayloadProgress(c) \/ Disconnected(c)
    BY <2>4, PayloadProgressStep, DisconnectedStep
  <2> QED  BY <1>2, <2>1, <2>2, <2>3, <2>4 DEF Session, HandleFrame
<1>3. ASSUME NEW kind \in UiCommands, Command(kind)
      PROVE  RigInv' /\ FatesMove
  BY <1>3, CommandStep
<1>4. CASE MainLoop
  BY <1>4, ProcessCommandsStep, RequestCaptureStep, FinalizeStep, ExpireStep DEF MainLoop
<1>5. CASE ServicePreview
  BY <1>5, ServicePreviewStep
<1>6. CASE Tick
  BY <1>6, TickStep
<1> QED  BY <1>1, <1>2, <1>3, <1>4, <1>5, <1>6 DEF Next

LEMMA RigStutter ==
  ASSUME RigInv, UNCHANGED vars
  PROVE  RigInv'
<1>1. UNCHANGED piVars /\ UNCHANGED <<node, shot, previewDue, pressed, up, down, link, breaks>>
  BY DEF vars, nodeVars
<1>2. NodeTypes
  BY NodesTyped DEF RigInv
<1>3. NodeTypes'
  BY <1>1, <1>2 DEF NodeTypes
<1>4. PICK c \in Cameras : TRUE
  BY CamerasAssumption
<1>5. LinkAgrees(c)
  BY DEF RigInv
<1>6. LinkAgrees(c)' /\ (\A q \in Txs : Over(c, q) => Over(c, q)') /\ shot'[c] >= shot[c]
  BY <1>1, <1>2, <1>5 DEF LinkAgrees, Over, NodeTypes
<1> QED  BY <1>1, <1>3, <1>6, LocalStep

(* Links, tables, set, answers and triggers agree in every state: this is  *)
(* the inductive invariant of the rig.                                     *)
THEOREM RigInvariance == Spec => []RigInv
<1>1. RigInv /\ [Next]_vars => RigInv'
  BY NodesStep, PiStep, RigStutter
<1> QED  BY <1>1, RigInit, PTL DEF Spec

-----------------------------------------------------------------------------
(* Every variable holds a value of its type: no index, count or link of    *)
(* the receiver leaves its range.                                          *)
THEOREM RigTypes == Spec => []TypeOK
<1>1. RigInv => TypeOK
  BY DEF RigInv
<1> QED  BY <1>1, RigInvariance, PTL

(* The receiver's tables agree with the coordinator's set, so no handler   *)
(* asks the coordinator for what it would refuse by raising.               *)
THEOREM TablesFollowSet == Spec => []TablesAgree
<1>1. RigInv => TablesAgree
  BY DEF RigInv, CaptureAgrees, TablesFit, TablesAgree
<1> QED  BY <1>1, RigInvariance, PTL

(* A node gets an ACK only for a photo that a set on the drive holds.      *)
THEOREM AckedAreOnDrive == Spec => []AckMeansPublished
<1>1. RigInv => AckMeansPublished
  BY DEF RigInv, CaptureAgrees
<1> QED  BY <1>1, RigInvariance, PTL

(* No transaction is part of two sets on the drive, over faults, reboots,  *)
(* late frames and sets cut short by the timeout.                          *)
THEOREM SetsAreIsolated == Spec => []SetIsolation
<1>1. RigInv => SetIsolation
  <2> SUFFICES ASSUME RigInv, NEW c \in Cameras, NEW q \in Txs
               PROVE  Cardinality(PublishedOf(c, q)) <= 1
    BY DEF SetIsolation
  <2>1. q # NoTx
    BY NumbersFacts
  <2>2. \A i, j \in PublishedOf(c, q) : i = j
    BY <2>1 DEF RigInv, CaptureAgrees, PublishedAgrees, PublishedOf
  <2>3. CASE PublishedOf(c, q) = {}
    BY <2>3, FS_EmptySet
  <2>4. CASE PublishedOf(c, q) # {}
    <3>1. PICK i : PublishedOf(c, q) = {i}
      BY <2>2, <2>4
    <3> QED  BY <3>1, FS_Singleton
  <2> QED  BY <2>3, <2>4
<1> QED  BY <1>1, RigInvariance, PTL

(* A preview request is outstanding only while no capture is under way and *)
(* its camera's session is open.                                           *)
THEOREM PreviewsYield == Spec => []PreviewYields
<1>1. RigInv => PreviewYields
  BY DEF RigInv
<1> QED  BY <1>1, RigInvariance, PTL

(* The trigger of an automatic attempt is still pending, so that a set or  *)
(* the timeout ends the attempt.                                           *)
THEOREM AttemptsAreAccounted == Spec => []AttemptIsPending
<1>1. RigInv => AttemptIsPending
  BY DEF RigInv, AutoAgrees
<1> QED  BY <1>1, RigInvariance, PTL

-----------------------------------------------------------------------------
(* Only the answer to its own photo releases a waiting node.               *)
LEMMA PiLeavesNodes ==
  ASSUME Next, ~NodeNext
  PROVE  node' = node
<1>1. \A c \in Cameras : Session(c) => node' = node
  <2> SUFFICES ASSUME NEW c \in Cameras, Session(c) PROVE node' = node
    OBVIOUS
  <2>1. CASE Discover(c) \/ ReadHello(c)
    BY <2>1 DEF Discover, ReadHello
  <2>2. CASE Identify(c) \/ PayloadProgress(c)
    BY <2>2 DEF Identify, PayloadProgress, nodeVars
  <2>3. CASE GiveUp(c)
    BY <2>3, Zenon DEF GiveUp
  <2>4. CASE Disconnected(c)
    BY <2>4, Zenon DEF Disconnected
  <2>5. ASSUME NEW lag \in Lags, CaptureStarted(c, lag)
        PROVE  node' = node
    BY <2>5, Zenon DEF CaptureStarted
  <2>6. ASSUME NEW lag \in Lags, ImageReceived(c, lag)
        PROVE  node' = node
    BY <2>6, Zenon DEF ImageReceived
  <2>7. ASSUME NEW lag \in Lags, TransferComplete(c, lag)
        PROVE  node' = node
    BY <2>7, Zenon DEF TransferComplete
  <2>8. ASSUME NEW lag \in Lags, NodeError(c, lag)
        PROVE  node' = node
    BY <2>8, Zenon DEF NodeError
  <2>9. CASE PreviewReceived(c) \/ HelloIgnored(c)
    BY <2>9 DEF PreviewReceived, HelloIgnored
  <2> QED  BY <2>1, <2>2, <2>3, <2>4, <2>5, <2>6, <2>7, <2>8, <2>9 DEF Session, HandleFrame
<1>2. \A kind \in UiCommands : Command(kind) => node' = node
  BY DEF Command, nodeVars
<1>3. MainLoop => node' = node
  <2>1. ProcessCommands => node' = node
    BY Zenon DEF ProcessCommands, nodeVars
  <2>2. RequestCapture => node' = node
    BY Zenon DEF RequestCapture
  <2>3. FinalizeInLoop => node' = node
    BY Zenon DEF FinalizeInLoop
  <2>4. ExpireUnansweredTrigger => node' = node
    BY DEF ExpireUnansweredTrigger, nodeVars
  <2> QED  BY <2>1, <2>2, <2>3, <2>4 DEF MainLoop
<1>4. ServicePreview => node' = node
  BY Zenon DEF ServicePreview
<1>5. Tick => node' = node
  BY DEF Tick, nodeVars
<1>6. Pressed => node' = node
  BY DEF Pressed, Press
<1> QED  BY <1>1, <1>2, <1>3, <1>4, <1>5, <1>6 DEF Next

(* A frame that ends a node's wait is the Pi's answer to the photo it      *)
(* waits for, whatever was left over from earlier ones.                    *)
THEOREM OwnAnswerReleases == Spec => ReleasedByOwnAnswer
<1> DEFINE Own(c) == (node[c] = "waiting" /\ node'[c] = "idle" /\ down'[c] # down[c]) =>
                       \E kind \in {"ACK", "NACK"} : <<kind, c, shot[c]>> \in answers
<1>1. ASSUME RigInv, [Next]_vars, NEW c \in Cameras
      PROVE  Own(c)
  <2> SUFFICES ASSUME node[c] = "waiting", node'[c] = "idle", down'[c] # down[c]
               PROVE  \E kind \in {"ACK", "NACK"} : <<kind, c, shot[c]>> \in answers
    OBVIOUS
  <2>1. NodeTypes /\ AnswersComeFromPi(down, answers)
    BY <1>1, NodesTyped DEF RigInv
  <2>2. NodeNext
    <3>1. node' # node
      OBVIOUS
    <3>2. Next
      BY <1>1, <3>1 DEF vars, nodeVars
    <3> QED  BY <3>1, <3>2, PiLeavesNodes
  <2>3. PICK b \in Cameras : NodeStep(b) \/ Cable(b)
    BY <2>2 DEF NodeNext
  <2>4. ReadReply(b) /\ b = c
    <3>1. ~Setup(b) /\ ~Poll(b) /\ ~TakePhoto(b) /\ ~SendPreview(b)
      BY <2>1 DEF Setup, Poll, TakePhoto, SendPreview, Become, NodeTypes
    <3>2. ~CaptureError(b) /\ ~Transfer(b) /\ ~AckTimeout(b)
      <4>1. CaptureError(b) => node[b] = "shooting" /\ down' = down
        BY Zenon DEF CaptureError
      <4>2. AckTimeout(b) => down' = down
        BY Zenon DEF AckTimeout
      <4>3. Transfer(b) => down' = down
        BY Zenon DEF Transfer
      <4> QED  BY <4>1, <4>2, <4>3
    <3>3. ~Unplug(b) /\ ~PlugIn(b) /\ ~Glitch(b)
      BY <2>1 DEF Unplug, PlugIn, Glitch, Become, NodeTypes
    <3>4. ReadReply(b)
      BY <2>3, <3>1, <3>2, <3>3 DEF NodeStep, Cable
    <3>5. b = c
      BY <2>1, <3>4 DEF ReadReply, Become, NodeTypes
    <3> QED  BY <3>4, <3>5
  <2>5. PICK f : f = Head(down[c])
    OBVIOUS
  <2>6. f \in {Frame("ACK", shot[c]), Frame("NACK", shot[c])} /\ down[c] # <<>>
    BY <2>1, <2>4, <2>5 DEF ReadReply, Become, NodeTypes
  <2>7. f.kind \in {"ACK", "NACK"} /\ f.q = shot[c]
    BY <2>6, Frames
  <2>8. 1 \in 1..Len(down[c]) /\ f = down[c][1]
    BY <2>1, <2>5, <2>6, HeadTailProperties, LenProperties DEF NodeTypes
  <2> QED  BY <2>1, <2>7, <2>8 DEF AnswersComeFromPi
<1>2. RigInv /\ [Next]_vars => [\A c \in Cameras : Own(c)]_vars
  BY <1>1
<1> QED  BY <1>2, RigInvariance, PTL DEF Spec, ReleasedByOwnAnswer

-----------------------------------------------------------------------------
(* The refinement: each photo meets one fate.                              *)
Refused(c, q) == <<"NACK", c, q>> \in answers

LEMMA FateIs ==
  ASSUME NEW p \in Tx
  PROVE  /\ p = <<p[1], p[2]>> /\ p[1] \in Cameras /\ p[2] \in Txs
         /\ Imaged(p[1], p[2]) => FateOf(p) = "stored"
         /\ (~Imaged(p[1], p[2]) /\ Refused(p[1], p[2])) => FateOf(p) = "refused"
         /\ (~Imaged(p[1], p[2]) /\ ~Refused(p[1], p[2])) =>
              FateOf(p) = IF p[2] <= shot[p[1]] THEN "taken" ELSE "untaken"
BY DEF Tx, FateOf, Refused

LEMMA FateIsNext ==
  ASSUME NEW p \in Tx
  PROVE  (/\ Imaged(p[1], p[2]) => FateOf(p) = "stored"
          /\ (~Imaged(p[1], p[2]) /\ Refused(p[1], p[2])) => FateOf(p) = "refused"
          /\ (~Imaged(p[1], p[2]) /\ ~Refused(p[1], p[2])) =>
               FateOf(p) = IF p[2] <= shot[p[1]] THEN "taken" ELSE "untaken")'
BY DEF FateOf, Refused

(* A photo that is stored or refused has been taken.                       *)
LEMMA SettledWereTaken ==
  ASSUME RigInv
  PROVE  \A c \in Cameras, q \in Txs : Imaged(c, q) \/ Refused(c, q) => q <= shot[c]
<1> SUFFICES ASSUME NEW c \in Cameras, NEW q \in Txs, Imaged(c, q) \/ Refused(c, q)
             PROVE  q <= shot[c]
  OBVIOUS
<1>1. shot[c] \in Nat
  BY NodesTyped, NumbersFacts DEF RigInv, NodeTypes
<1>2. CASE Imaged(c, q)
  <2>1. q \in 1..shot[c]
    BY <1>2 DEF RigInv, CaptureAgrees, PublishedAgrees, Imaged, PublishedOf
  <2> QED  BY <1>1, <2>1
<1>3. CASE Refused(c, q)
  <2>1. Over(c, q)
    BY <1>3 DEF RigInv, CaptureAgrees, AnswersAgree, Refused
  <2> QED  BY <1>1, <2>1 DEF Over
<1> QED  BY <1>2, <1>3

LEMMA SettledWereTakenNext ==
  ASSUME RigInv'
  PROVE  (\A c \in Cameras, q \in Txs : Imaged(c, q) \/ Refused(c, q) => q <= shot[c])'
BY SettledWereTaken, PTL

LEMMA FatesInit == Init => Photos!Init
<1> SUFFICES ASSUME Init PROVE Photos!Init
  OBVIOUS
<1>1. \A c, q : ~Imaged(c, q) /\ ~Refused(c, q)
  BY DEF Init, ReceiverInit, Imaged, PublishedOf, Refused
<1>2. \A p \in Tx : FateOf(p) = "untaken"
  <2> SUFFICES ASSUME NEW p \in Tx PROVE FateOf(p) = "untaken"
    OBVIOUS
  <2>1. shot[p[1]] = 0 /\ p[2] \in 1..MaxShots
    BY FateIs DEF Init, NodeInit, Txs
  <2>2. ~(p[2] <= shot[p[1]])
    BY <2>1, NumbersFacts
  <2> QED  BY <1>1, <2>2, FateIs
<1> QED  BY <1>2 DEF Photos!Init, Photos!Photo, Tx, Txs

LEMMA TakeRefines ==
  ASSUME RigInv, NEW c \in Cameras, TakePhoto(c), UNCHANGED piVars
  PROVE  Photos!Next
<1>1. NodeTypes /\ shot[c] \in 0..MaxShots /\ shot[c] < MaxShots
  <2>1. NodeTypes
    BY NodesTyped DEF RigInv
  <2>2. shot[c] < MaxShots
    BY DEF RigInv, LinkAgrees, TakePhoto
  <2> QED  BY <2>1, <2>2 DEF NodeTypes
<1>2. PICK q : q = shot[c] + 1
  OBVIOUS
<1>3. q \in Txs /\ <<c, q>> \in Tx /\ shot[c] \in Nat /\ q \in Nat /\ q <= q /\ ~(q <= shot[c])
  BY <1>1, <1>2, NumbersFacts DEF Txs, Tx
<1>4. shot' = [shot EXCEPT ![c] = q] /\ published' = published /\ answers' = answers
  BY <1>2 DEF TakePhoto, piVars, captureVars
<1>5. \A b \in Cameras : shot[b] \in Nat /\ shot'[b] = IF b = c THEN q ELSE shot[b]
  BY <1>1, <1>4, NumbersFacts DEF NodeTypes
<1>6. \A b, r : (Imaged(b, r)' <=> Imaged(b, r)) /\ (Refused(b, r)' <=> Refused(b, r))
  BY <1>4 DEF Imaged, PublishedOf, Refused
<1>7. FateOf(<<c, q>>) = "untaken"
  <2>1. ~(q <= shot[c])
    BY <1>3
  <2>2. ~Imaged(c, q) /\ ~Refused(c, q)
    BY <1>3, <2>1, SettledWereTaken
  <2> QED  BY <1>3, <2>1, <2>2, FateIs
<1>8. FateOf(<<c, q>>)' = "taken"
  <2>1. PICK p : p = <<c, q>>
    OBVIOUS
  <2>2. p \in Tx /\ p[1] = c /\ p[2] = q
    BY <1>3, <2>1
  <2>3. ~Imaged(c, q)' /\ ~Refused(c, q)'
    <3>1. ~(q <= shot[c])
      BY <1>3
    <3> QED  BY <1>3, <1>6, <3>1, SettledWereTaken
  <2>4. p[2] <= shot'[p[1]]
    BY <1>3, <1>5, <2>2
  <2> QED  BY <2>1, <2>2, <2>3, <2>4, FateIsNext
<1>9. ASSUME NEW p \in Tx, p # <<c, q>>
      PROVE  FateOf(p)' = FateOf(p)
  <2>1. p = <<p[1], p[2]>> /\ p[1] \in Cameras /\ p[2] \in Nat
    BY FateIs, NumbersFacts
  <2>2. p[2] <= shot'[p[1]] <=> p[2] <= shot[p[1]]
    <3>1. CASE p[1] # c
      BY <1>5, <2>1, <3>1
    <3>2. CASE p[1] = c
      BY <1>2, <1>3, <1>5, <1>9, <2>1, <3>2
    <3> QED  BY <3>1, <3>2
  <2> QED  BY <1>6, <2>2, FateIs, FateIsNext
<1>10. \A r \in 1..(q - 1) : FateOf(<<c, r>>) # "untaken"
  <2> SUFFICES ASSUME NEW r \in 1..(q - 1) PROVE FateOf(<<c, r>>) # "untaken"
    OBVIOUS
  <2>1. PICK p : p = <<c, r>>
    OBVIOUS
  <2>2. p \in Tx /\ p[1] = c /\ p[2] = r /\ r <= shot[c]
    BY <1>1, <1>2, <1>3, <2>1, NodeAssumption DEF Tx, Txs
  <2> QED  BY <2>1, <2>2, FateIs
<1>11. Photos!Take(<<c, q>>)
  <2>1. Photos!Photo = Tx
    BY DEF Photos!Photo, Tx, Txs
  <2>2. \A r \in 1..(q - 1) : <<c, r>> \in Tx
    BY <1>1, <1>2, <1>3, NodeAssumption DEF Tx, Txs
  <2> QED  BY <1>3, <1>7, <1>8, <1>9, <1>10, <2>1, <2>2 DEF Photos!Take
<1> QED  BY <1>3, <1>11 DEF Photos!Next, Photos!Photo, Tx, Txs

(* A step of the Pi stores one set, refuses some photos, or does neither.  *)
LEMMA SettleRefines ==
  ASSUME RigInv, RigInv', FatesMove
  PROVE  Photos!Next
<1> DEFINE S == {p \in Tx : ~Imaged(p[1], p[2]) /\ Imaged(p[1], p[2])'}
           R == {p \in Tx : /\ ~Imaged(p[1], p[2])' /\ ~Refused(p[1], p[2])
                           /\ Refused(p[1], p[2])'}
<1>1. CaptureTypes /\ PublishedAgrees
  BY TypesTogether DEF RigInv, CaptureAgrees
<1>2. PICK n : n = Len(published)
  OBVIOUS
<1>3. n \in Nat /\ published \in Seq(CompletedCaptures(Txs))
  BY <1>1, <1>2, LenProperties DEF CaptureTypes
<1>4. shot' = shot /\ \A c, q : Refused(c, q) => Refused(c, q)'
  BY DEF FatesMove, Refused
<1>5. \/ published' = published
      \/ \E a \in ActiveCaptures(Txs) :
           /\ Len(published') = n + 1 /\ \A i \in 1..n : published'[i] = published[i]
           /\ published'[n + 1].tx = a.tx /\ published'[n + 1].images = a.images
           /\ \A c \in a.images : ~Refused(c, a.tx[c])
  <2>1. CASE published' = published
    BY <2>1
  <2>2. CASE published' # published
    <3>1. PICK a \in ActiveCaptures(Txs) :
            /\ published' = Append(published, Completed(a))
            /\ \A c \in a.images : <<"NACK", c, a.tx[c]>> \notin answers
      BY <2>2 DEF FatesMove
    <3>2. PICK r : r = Completed(a)
      OBVIOUS
    <3>3. r \in CompletedCaptures(Txs) /\ r.tx = a.tx /\ r.images = a.images
      BY <3>2, CompletedType DEF Completed
    <3>4. /\ Len(published') = n + 1 /\ \A i \in 1..n : published'[i] = published[i]
          /\ published'[n + 1] = r
      BY <1>2, <1>3, <3>1, <3>2, <3>3, AppendProperties
    <3> QED  BY <3>1, <3>3, <3>4 DEF Refused
  <2> QED  BY <2>1, <2>2
<1>6. \A c, q : Imaged(c, q) => Imaged(c, q)'
  <2> SUFFICES ASSUME NEW c, NEW q, Imaged(c, q) PROVE Imaged(c, q)'
    OBVIOUS
  <2>1. PICK i \in 1..n : published[i].tx[c] = q /\ c \in published[i].images
    BY <1>2 DEF Imaged, PublishedOf
  <2>2. i \in 1..Len(published') /\ published'[i] = published[i]
    BY <1>2, <1>3, <1>5
  <2> QED  BY <2>1, <2>2 DEF Imaged, PublishedOf
<1>7. ASSUME NEW p \in S
      PROVE  /\ Len(published') = n + 1 /\ published'[n + 1].tx[p[1]] = p[2]
             /\ ~Refused(p[1], p[2])
  <2>1. PICK i \in 1..Len(published') : published'[i].tx[p[1]] = p[2] /\ p[1] \in published'[i].images
    BY DEF Imaged, PublishedOf
  <2>2. ~(i \in 1..n /\ published'[i] = published[i])
    BY <1>2, <2>1 DEF Imaged, PublishedOf
  <2>3. published' # published
    BY <1>2, <2>2
  <2>4. PICK a \in ActiveCaptures(Txs) :
          /\ Len(published') = n + 1 /\ \A j \in 1..n : published'[j] = published[j]
          /\ published'[n + 1].tx = a.tx /\ published'[n + 1].images = a.images
          /\ \A c \in a.images : ~Refused(c, a.tx[c])
    BY <1>5, <2>3
  <2>5. i = n + 1
    BY <1>3, <2>2, <2>4
  <2> QED  BY <2>1, <2>4, <2>5
<1>8. \A p \in S, r \in S : p[1] = r[1] => p = r
  <2>1. \A p \in S : p = <<p[1], p[2]>>
    BY FateIs
  <2> QED  BY <1>7, <2>1
<1>9. \A p \in Tx : (Imaged(p[1], p[2]) \/ Refused(p[1], p[2]))' => p[2] <= shot[p[1]]
  BY <1>4, FateIs, SettledWereTakenNext
<1>10. \A p \in S \cup R : FateOf(p) = "taken"
  <2>1. \A p \in S : ~Imaged(p[1], p[2]) /\ ~Refused(p[1], p[2]) /\ p[2] <= shot[p[1]] /\ p \in Tx
    BY <1>7, <1>9
  <2>2. \A p \in R : ~Imaged(p[1], p[2]) /\ ~Refused(p[1], p[2]) /\ p[2] <= shot[p[1]] /\ p \in Tx
    BY <1>6, <1>9
  <2> QED  BY <2>1, <2>2, FateIs
<1>11. ASSUME NEW p \in Tx
       PROVE  /\ p \in S => FateOf(p)' = "stored"
              /\ p \in R \ S => FateOf(p)' = "refused"
  BY FateIsNext
<1>12. ASSUME NEW p \in Tx, p \notin S, p \notin R
       PROVE  FateOf(p)' = FateOf(p)
  <2>1. Imaged(p[1], p[2])' <=> Imaged(p[1], p[2])
    BY <1>6, <1>12
  <2>2. ~Imaged(p[1], p[2]) => (Refused(p[1], p[2])' <=> Refused(p[1], p[2]))
    BY <1>4, <1>12, <2>1
  <2> QED  BY <1>4, <2>1, <2>2, FateIs, FateIsNext
<1>13. S \cap R = {}
  OBVIOUS
<1>14. S \subseteq Tx /\ R \subseteq Tx
  OBVIOUS
<1>15. PICK S1, R1 : S1 = S /\ R1 = R
  OBVIOUS
<1> HIDE DEF S, R
<1>16. Photos!Photo = Tx
  BY DEF Photos!Photo, Tx, Txs
<1>17. S1 \in SUBSET Photos!Taken /\ R1 \in SUBSET Photos!Taken
  BY <1>10, <1>14, <1>15, <1>16 DEF Photos!Taken
<1>18. Photos!OnePerCamera(S1)
  BY <1>8, <1>15 DEF Photos!OnePerCamera
<1>19. Photos!Settle(S1, R1)
  <2> DEFINE Settled(p) == CASE p \in S1      -> "stored"
                             [] p \in R1 \ S1 -> "refused"
                             [] OTHER        -> FateOf(p)
  <2>1. ASSUME NEW p \in Tx
        PROVE  FateOf(p)' = Settled(p)
    <3>1. CASE p \in S
      BY <1>11, <1>15, <3>1
    <3>2. CASE p \in R \ S
      BY <1>11, <1>15, <3>2
    <3>3. CASE p \notin S /\ p \notin R
      BY <1>12, <1>15, <3>3
    <3> QED  BY <3>1, <3>2, <3>3
  <2>2. [p \in Tx |-> FateOf(p)]' = [p \in Tx |-> FateOf(p)']
    BY DEF Tx, Txs
  <2>3. [p \in Tx |-> FateOf(p)'] = [p \in Tx |-> Settled(p)]
    BY <2>1
  <2>4. \A p \in Tx : [r \in Tx |-> FateOf(r)][p] = FateOf(p)
    OBVIOUS
  <2>5. [p \in Tx |-> Settled(p)]
          = [p \in Tx |-> CASE p \in S1      -> "stored"
                            [] p \in R1 \ S1 -> "refused"
                            [] OTHER        -> [r \in Tx |-> FateOf(r)][p]]
    BY <2>4
  <2> QED  BY <1>16, <1>18, <2>2, <2>3, <2>5 DEF Photos!Settle
<1> QED  BY <1>13, <1>15, <1>17, <1>19 DEF Photos!Next

LEMMA FatesStep ==
  RigInv /\ RigInv' /\ [Next]_vars => [Photos!Next]_[p \in Tx |-> FateOf(p)]
<1> SUFFICES ASSUME RigInv, RigInv', [Next]_vars
             PROVE  Photos!Next \/ UNCHANGED [p \in Tx |-> FateOf(p)]
  OBVIOUS
<1>1. UNCHANGED <<shot, published, answers>> => UNCHANGED [p \in Tx |-> FateOf(p)]
  BY DEF FateOf, Imaged, PublishedOf
<1>2. CASE UNCHANGED vars
  BY <1>1, <1>2 DEF vars, nodeVars, piVars, captureVars
<1>3. CASE Next /\ ~NodeNext
  BY <1>3, PiStep, SettleRefines
<1>4. CASE NodeNext
  <2>1. UNCHANGED <<published, answers>>
    BY <1>4 DEF NodeNext, piVars, captureVars
  <2>2. PICK c \in Cameras : NodeStep(c) \/ Cable(c)
    BY <1>4 DEF NodeNext
  <2>3. CASE TakePhoto(c)
    BY <1>4, <2>3, TakeRefines DEF NodeNext
  <2>4. CASE ~TakePhoto(c)
    <3>1. CaptureError(c) \/ AckTimeout(c) => shot' = shot
      BY Zenon DEF CaptureError, AckTimeout
    <3>2. Setup(c) \/ Poll(c) \/ Transfer(c) \/ ReadReply(c) \/ SendPreview(c) => shot' = shot
      BY Zenon DEF Setup, Poll, Transfer, ReadReply, SendPreview
    <3>3. Cable(c) => shot' = shot
      BY Zenon DEF Cable, Unplug, PlugIn, Glitch
    <3> QED  BY <1>1, <2>1, <2>2, <2>4, <3>1, <3>2, <3>3 DEF NodeStep
  <2> QED  BY <2>3, <2>4
<1> QED  BY <1>2, <1>3, <1>4

(* Links, sessions, tables, faults and answers together do with each photo *)
(* what PhotoFates says: it is taken, then stored with its set or refused, *)
(* for good.                                                               *)
THEOREM RigImplementation == Spec => ImplementsPhotoFates
<1>1. RigInv /\ RigInv' /\ [Next]_vars => [Photos!Next]_[p \in Tx |-> FateOf(p)]
  BY FatesStep
<1> QED  BY <1>1, FatesInit, RigInvariance, PTL DEF Spec, ImplementsPhotoFates, Photos!Spec
=============================================================================
