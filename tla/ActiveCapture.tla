---------------------------- MODULE ActiveCapture ----------------------------
(***************************************************************************)
(* The capture set that is being assembled (_ActiveCapture) and the tests  *)
(* and updates CaptureSetCoordinator makes on it, as operators on a        *)
(* record.  Module Coordinator makes a state machine of them, module       *)
(* Receiver calls them from the handlers of the node sessions.             *)
(*                                                                         *)
(* A transaction (node_uid, boot_id, capture_seq) is a pair <<c, q>>: the  *)
(* UID determines the logical camera c, and q stands for the boot and the  *)
(* sequence number together.  NoTx stands for "no transaction".            *)
(*                                                                         *)
(* Time.  The code stores two readings of a clock and subtracts them from  *)
(* a third, the handler's now_ns.  The model stores how many ticks ago     *)
(* each reading was taken.  A handler may be late: now_ns is read before   *)
(* the receiver's lock is acquired (receiver.py:483), so a handler carries *)
(* the lag between its reading and the present.  Ages stop at AgeCap,      *)
(* beyond which no comparison the code makes can change its answer.        *)
(***************************************************************************)
EXTENDS LogicalCameras

CONSTANTS Window,    \* association window, in ticks (association_window_ms)
          Timeout,   \* no-progress timeout, in ticks (no_progress_timeout_ms)
          MaxLag     \* how old a handler's clock reading can be, in ticks

ASSUME WindowsAssumption ==
  /\ Window \in Nat \ {0}
  /\ Timeout \in Nat \ {0}
  /\ MaxLag \in Nat

Lags == 0..MaxLag
AgeCap == (IF Window > Timeout THEN Window ELSE Timeout) + MaxLag + 1
Ages == 0..AgeCap

-----------------------------------------------------------------------------
(* No capture is active (self._active is None).                            *)
Idle == [open          |-> FALSE,
         tx            |-> [c \in Cameras |-> NoTx],
         images        |-> {},
         errors        |-> {},
         sinceStart    |-> 0,
         sinceProgress |-> 0]

ActiveCaptures(Txs) ==
  [open : BOOLEAN, tx : [Cameras -> Txs \cup {NoTx}],
   images : SUBSET Cameras, errors : SUBSET Cameras,
   sinceStart : Ages, sinceProgress : Ages]

Started(a)      == {c \in Cameras : a.tx[c] # NoTx}
Transactions(a) == {<<c, a.tx[c]>> : c \in Started(a)}
Resolved(a)     == a.images \cup a.errors

Grown(age) == IF age < AgeCap THEN age + 1 ELSE age

(* One tick of the monotonic clock, seen by the stored readings.           *)
Aged(a) ==
  IF a.open
    THEN [a EXCEPT !.sinceStart = Grown(@), !.sinceProgress = Grown(@)]
    ELSE a

(* start(): a transaction already filed is refused, so is a start outside  *)
(* the association window and a second transaction of a busy camera.       *)
StartAccepted(a, seen, c, q, lag) ==
  /\ <<c, q>> \notin seen
  /\ a.open => /\ a.sinceStart - lag <= Window
               /\ a.tx[c] \in {NoTx, q}

AfterStart(a, c, q, lag) ==
  IF a.open
    THEN [a EXCEPT !.tx[c] = q, !.sinceProgress = lag]
    ELSE [Idle EXCEPT !.open = TRUE, !.tx[c] = q,
                      !.sinceStart = lag, !.sinceProgress = lag]

(* _require_matching(): the event belongs to what this camera started.     *)
Matching(a, c, q) == a.open /\ a.tx[c] = q

CompleteAccepted(a, c, q) == Matching(a, c, q) /\ c \notin a.images

(* Faulty variant: complete() records the progress but not the image.      *)
AfterCompleteNoImage(a, c, lag) ==
  [a EXCEPT !.sinceProgress = lag]

AfterComplete(a, c, lag) ==
  [a EXCEPT !.images = @ \cup {c}, !.sinceProgress = lag]

ProgressAccepted(a, c, q) == Matching(a, c, q) /\ c \notin Resolved(a)

AfterProgress(a, lag) == [a EXCEPT !.sinceProgress = lag]

FailAccepted(a, c, q) == Matching(a, c, q) /\ c \notin a.images

AfterFail(a, c, lag) ==
  [a EXCEPT !.errors = @ \cup {c}, !.sinceProgress = lag]

Ready(a) == a.open /\ Resolved(a) = Cameras

(* Faulty variant: the timeout counts from the first start.                *)
TimedOutSinceStart(a, lag) == a.open /\ a.sinceStart - lag >= Timeout

TimedOut(a, lag) == a.open /\ a.sinceProgress - lag >= Timeout

(* Faulty variant: only a set in which every camera reported is closed.    *)
MayFinalizeReady(a, lag) == Ready(a)

MayFinalize(a, lag) == Ready(a) \/ TimedOut(a, lag)

(* Faulty variant: silent cameras get no error.                            *)
CompletedSilently(a) ==
  [tx |-> a.tx, images |-> a.images, errors |-> a.errors]

(* The CompletedCapture that finalize() returns: every camera that has     *)
(* neither an image nor an error gets the error no_progress_timeout.       *)
Completed(a) ==
  [tx     |-> a.tx,
   images |-> a.images,
   errors |-> a.errors \cup (Cameras \ Resolved(a))]

CompletedCaptures(Txs) ==
  [tx : [Cameras -> Txs \cup {NoTx}],
   images : SUBSET Cameras, errors : SUBSET Cameras]
=============================================================================
