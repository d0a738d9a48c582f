--------------------------------- MODULE Rig ---------------------------------
(***************************************************************************)
(* The whole rig: the nodes, their links and the Pi's receiver, with the   *)
(* shutter, the UI's commands, the clock and the faults around them.       *)
(***************************************************************************)
EXTENDS Receiver

vars == <<nodeVars, piVars>>

Init == NodeInit /\ ReceiverInit

NodeNext ==
  /\ \E c \in Cameras : NodeStep(c) \/ Cable(c)
  /\ UNCHANGED piVars

Pressed == Press /\ UNCHANGED piVars

Session(c) ==
  \/ Discover(c) \/ ReadHello(c) \/ Identify(c) \/ GiveUp(c)
  \/ HandleFrame(c) \/ PayloadProgress(c) \/ Disconnected(c)

Next ==
  \/ NodeNext
  \/ Pressed
  \/ \E c \in Cameras : Session(c)
  \/ \E kind \in UiCommands : Command(kind)
  \/ MainLoop
  \/ ServicePreview
  \/ Tick

Spec == Init /\ [][Next]_vars

-----------------------------------------------------------------------------
PublishedOf(c, q) == {i \in 1..Len(published) : published[i].tx[c] = q}
Imaged(c, q) == \E i \in PublishedOf(c, q) : c \in published[i].images

(* Every variable holds a value of its type.                               *)
TypeOK ==
  /\ node \in [Cameras -> NodeStates]
  /\ shot \in [Cameras -> 0..MaxShots]
  /\ previewDue \subseteq Cameras /\ pressed \subseteq Cameras
  /\ link \in [Cameras -> LinkStates]
  /\ up \in [Cameras -> Seq([kind : UpKinds, q : 0..MaxShots])]
  /\ down \in [Cameras -> Seq([kind : DownKinds, q : 0..MaxShots])]
  /\ breaks \in 0..MaxBreaks
  /\ sess \in [Cameras -> {"off", "opening", "registered", "open"}]
  /\ current \in [Cameras -> 0..MaxShots]
  /\ active \in ActiveCaptures(Txs)
  /\ seen \subseteq Tx
  /\ tables \in [started : SUBSET Tx, images : SUBSET Tx, rejected : SUBSET Tx,
                  acks : Seq([cam : Cameras, q : Txs, live : BOOLEAN])]
  /\ pending \in {NoTrigger} \cup Ages
  /\ commands \in Seq(UiCommands)
  /\ auto \in [remaining : 0..AutoTriggers, inFlight : BOOLEAN]
  /\ preview \in [wanted : BOOLEAN, outstanding : Cameras \cup {NoCam},
                  index : 0..(Cardinality(Cameras) - 1)]
  /\ request \in {"none", "manual", "automatic"} /\ mainAlive \in BOOLEAN
  /\ published \in Seq(CompletedCaptures(Txs))
  /\ answers \subseteq {"ACK", "NACK"} \X Cameras \X Txs

(* The receiver's own tables agree with the coordinator's set, so that no  *)
(* handler asks the coordinator for what it refuses (the CoordinationError *)
(* would end the session of a healthy node): captures with a state belong  *)
(* to the open set, a pending image is not in the set yet, a camera with   *)
(* a pending ACK is one whose image is, and none of it outlives the set.   *)
TablesAgree ==
  /\ tables.started \subseteq Transactions(active)
  /\ tables.images \subseteq tables.started \ {t \in Tx : t[1] \in active.images}
  /\ {<<a.cam, a.q>> : a \in {tables.acks[i] : i \in 1..Len(tables.acks)}}
       = {t \in Transactions(active) : t[1] \in active.images}
  /\ Cardinality(active.images) = Len(tables.acks)

(* A node is told that its photo is committed only when a capture set with *)
(* that photo is on the drive: an ACK lets the node release its only copy. *)
AckMeansPublished ==
  \A c \in Cameras, q \in Txs : <<"ACK", c, q>> \in answers => Imaged(c, q)

(* No transaction is part of two capture sets, over faults, reboots, late  *)
(* frames and sets cut short by the timeout.                               *)
SetIsolation ==
  \A c \in Cameras, q \in Txs : Cardinality(PublishedOf(c, q)) <= 1

(* A capture asked for automatically is accounted for: its trigger is      *)
(* still pending, so that an answer or the timeout ends the attempt.       *)
AttemptIsPending == auto.inFlight => pending # NoTrigger

(* A preview request counts as outstanding only while no capture is under  *)
(* way and its camera is still there: a trigger, the first start of a      *)
(* camera, and the loss of the session each cancel it.                     *)
PreviewYields ==
  preview.outstanding # NoCam =>
    /\ pending = NoTrigger
    /\ ~active.open
    /\ sess[preview.outstanding] = "open"

(* A frame releases a waiting node only if the Pi answered this capture:   *)
(* an answer to an earlier one, left over after the node gave up on it,    *)
(* does not.                                                               *)
ReleasedByOwnAnswer ==
  [][\A c \in Cameras :
       (node[c] = "waiting" /\ node'[c] = "idle" /\ down'[c] # down[c]) =>
         \E kind \in {"ACK", "NACK"} : <<kind, c, shot[c]>> \in answers]_vars

-----------------------------------------------------------------------------
(* What the code does not do.                                              *)

(* Once a node is idle, everything it sent is handled and the set is       *)
(* closed, its session stands in the way of no further capture.            *)
NextCaptureRecovers ==
  \A c \in Cameras :
    (/\ sess[c] = "open" /\ link[c] = "attached"
     /\ node[c] = "idle" /\ up[c] = <<>>
     /\ ~active.open) => current[c] = NoTx

-----------------------------------------------------------------------------
(* The refinement mapping: what has become of each photo.                  *)
FateOf(p) ==
  CASE Imaged(p[1], p[2]) -> "stored"
    [] ~Imaged(p[1], p[2]) /\ <<"NACK", p[1], p[2]>> \in answers -> "refused"
    [] OTHER -> IF p[2] <= shot[p[1]] THEN "taken" ELSE "untaken"

Photos == INSTANCE PhotoFates WITH fate <- [p \in Tx |-> FateOf(p)]

(* Over all interleavings and faults each photo meets one fate: a refused  *)
(* photo never turns up in a later set, a set is stored as a whole, and it *)
(* holds at most one photo of a camera.                                    *)
ImplementsPhotoFates == Photos!Spec

-----------------------------------------------------------------------------
(* Fairness: the threads are scheduled, the node's loop runs, time passes. *)
(* Each cycle of the Receiver thread makes each of its calls in turn, so   *)
(* requests that are turned down again and again do not keep it from       *)
(* closing a set or expiring a trigger: these two are strongly fair.       *)
Fairness ==
  /\ \A c \in Cameras :
       /\ WF_vars(NodeStep(c) /\ UNCHANGED piVars)
       /\ WF_vars(HandleFrame(c)) /\ WF_vars(Disconnected(c))
       /\ WF_vars(Discover(c)) /\ WF_vars(ReadHello(c)) /\ WF_vars(Identify(c))
       /\ WF_vars(GiveUp(c))
  /\ WF_vars(ProcessCommands) /\ WF_vars(RequestCapture)
  /\ SF_vars(FinalizeInLoop) /\ SF_vars(ExpireUnansweredTrigger)
  /\ WF_vars(Tick)

FairSpec == Spec /\ Fairness

(* A capture set that was opened is closed, whatever becomes of its nodes. *)
SetsClose == active.open ~> ~active.open

(* A completed transfer that the Pi can still read is answered, or its     *)
(* link is lost.                                                           *)
TransfersAreAnswered ==
  \A c \in Cameras, q \in Txs :
    (/\ sess[c] = "open" /\ link[c] = "attached"
     /\ \E i \in 1..Len(up[c]) : up[c][i] = Frame("TRANSFER_COMPLETE", q))
      ~> (link[c] # "attached" \/ \E kind \in {"ACK", "NACK"} : <<kind, c, q>> \in answers)

(* An issued trigger is settled: by a set that closes or by the timeout.   *)
TriggersSettle == pending # NoTrigger ~> pending = NoTrigger
=============================================================================
