----------------------------- MODULE Coordinator -----------------------------
(***************************************************************************)
(* CaptureSetCoordinator: groups the asynchronous events of the camera     *)
(* nodes into capture sets, without relying on the order of arrival.       *)
(*                                                                         *)
(* The callers are unconstrained here: any event of any camera, for any    *)
(* transaction, may arrive at any time and with any admissible lag.  An    *)
(* event the class refuses raises CoordinationError before it changes      *)
(* anything, so a refusal is a stuttering step.                            *)
(*                                                                         *)
(* finalize(force=True) has no caller and is not modelled.                 *)
(***************************************************************************)
EXTENDS ActiveCapture, Sequences

CONSTANTS Txs,           \* the (boot, sequence) numbers a node can use
          HistoryLimit,  \* length of the bounded history (history_limit)
          MaxFiled       \* bound on the transactions filed in a behaviour

ASSUME CoordinatorAssumption ==
  /\ Txs \subseteq Nat \ {NoTx}
  /\ HistoryLimit \in Nat \ {0}
  /\ MaxFiled \in Nat

VARIABLES
  active,     \* self._active
  seenOrder,  \* self._seen_order, a deque of at most HistoryLimit entries
  seen,       \* self._seen, the set kept beside it
  result,     \* the CompletedCapture finalize() returned last
  filed,      \* every transaction ever registered, in order (observer)
  quiet       \* ticks since an event was last accepted (observer)

vars == <<active, seenOrder, seen, result, filed, quiet>>

NoResult == [Completed(Idle) EXCEPT !.errors = {}]

RangeOf(s) == {s[i] : i \in 1..Len(s)}

Init ==
  /\ active = Idle
  /\ seenOrder = <<>>
  /\ seen = {}
  /\ result = NoResult
  /\ filed = <<>>
  /\ quiet = 0

Accept(a) ==
  /\ active' = a
  /\ quiet' = 0
  /\ UNCHANGED <<seenOrder, seen, result, filed>>

Start(c, q, lag) ==
  /\ StartAccepted(active, seen, c, q, lag)
  /\ Accept(AfterStart(active, c, q, lag))

Complete(c, q, lag) ==
  /\ CompleteAccepted(active, c, q)
  /\ Accept(AfterComplete(active, c, lag))

Progress(c, q, lag) ==
  /\ ProgressAccepted(active, c, q)
  /\ Accept(AfterProgress(active, lag))

Fail(c, q, lag) ==
  /\ FailAccepted(active, c, q)
  /\ Accept(AfterFail(active, c, lag))

(* The orders in which a set's transactions may be registered: the code    *)
(* walks a dictionary in the order the cameras started, here any order.    *)
Registrations(a) ==
  LET n == Cardinality(Started(a))
  IN {ts \in [1..n -> Transactions(a)] :
        /\ RangeOf(ts) = Transactions(a)
        /\ \A i, j \in 1..n : ts[i] = ts[j] => i = j}

(* Faulty variants: the limit is off by one, or nothing is evicted.        *)
BeyondByOne(n) == IF n >= HistoryLimit THEN n - HistoryLimit + 1 ELSE 0
AllRetained(s) == s

(* The deque after appending ts: the oldest entries beyond the limit drop  *)
(* out at the front, and each leaves the set at the same moment.           *)
Beyond(n) == IF n > HistoryLimit THEN n - HistoryLimit ELSE 0
Excess(s) == Beyond(Len(s))
Dropped(s) == SubSeq(s, 1, Excess(s))
Retained(s) == SubSeq(s, Excess(s) + 1, Len(s))

Finalize(lag) ==
  /\ MayFinalize(active, lag)
  /\ Len(filed) + Cardinality(Started(active)) <= MaxFiled
  /\ result' = Completed(active)
  /\ \E ts \in Registrations(active) :
       /\ seenOrder' = Retained(seenOrder \o ts)
       /\ seen' = (seen \cup RangeOf(ts)) \ RangeOf(Dropped(seenOrder \o ts))
       /\ filed' = filed \o ts
  /\ active' = Idle
  /\ UNCHANGED quiet

Tick ==
  /\ active' = Aged(active)
  /\ quiet' = Grown(quiet)
  /\ UNCHANGED <<seenOrder, seen, result, filed>>

Next ==
  \/ \E c \in Cameras, q \in Txs, lag \in Lags :
       Start(c, q, lag) \/ Complete(c, q, lag) \/ Progress(c, q, lag) \/ Fail(c, q, lag)
  \/ \E lag \in Lags : Finalize(lag)
  \/ Tick

Spec == Init /\ [][Next]_vars

-----------------------------------------------------------------------------
(* Every variable holds a value of its type, and the deque respects its    *)
(* maximum length.                                                         *)
TypeOK ==
  /\ active \in ActiveCaptures(Txs)
  /\ seenOrder \in Seq(Cameras \X Txs)
  /\ Len(seenOrder) <= HistoryLimit
  /\ seen \subseteq Cameras \X Txs
  /\ result \in CompletedCaptures(Txs)
  /\ filed \in Seq(Cameras \X Txs)
  /\ quiet \in Ages

(* A result can only stand for a camera that announced its transaction:    *)
(* whatever order the events of four nodes arrive in, no camera gets an    *)
(* image or an error into the active set before its own start.             *)
ResolvedWereStarted == Resolved(active) \subseteq Started(active)

(* The transactions being collected were not filed in a remembered set: a  *)
(* node's photo is never associated with two capture sets while the        *)
(* bounded history still holds it.                                         *)
ActiveIsFresh == Transactions(active) \cap seen = {}

(* The set and the deque that bounds it describe the same history: what    *)
(* the deque evicted is forgotten by the set, what it holds is remembered, *)
(* and nothing is entered twice (an entry present twice would be forgotten *)
(* when its first copy is evicted).                                        *)
HistoryAgrees ==
  /\ seen = RangeOf(seenOrder)
  /\ \A i, j \in 1..Len(seenOrder) : seenOrder[i] = seenOrder[j] => i = j

(* A transaction can be filed again only after HistoryLimit other ones     *)
(* were filed in between.                                                  *)
ReuseOnlyBeyondHistory ==
  \A i, j \in 1..Len(filed) :
    (i < j /\ filed[i] = filed[j]) => j - i > HistoryLimit

(* A set that is closed while some camera has reported nothing was quiet   *)
(* for the no-progress timeout, less the lag of the clock readings: the    *)
(* stamps of late handlers cannot bring the timeout forward any further.   *)
Closing == active.open /\ ~active'.open

ClosedEarlyOnlyWhenQuiet ==
  [][(Closing /\ Resolved(active) # Cameras) => quiet + MaxLag >= Timeout]_vars

-----------------------------------------------------------------------------
(* The refinement mapping: what a camera has contributed to the active     *)
(* set, and its outcome in the result returned last.                       *)
FateOf(c) ==
  CASE c \in active.images       -> "imaged"
    [] c \in active.errors \ active.images -> "failed"
    [] c \in Started(active) \ Resolved(active) -> "started"
    [] OTHER                     -> "absent"

OutcomeOf(c) ==
  CASE c \in result.images                  -> "imaged"
    [] c \in result.errors \ result.images  -> "failed"
    [] OTHER                                -> "none"

Sets == INSTANCE CaptureSets WITH
          fate    <- [c \in Cameras |-> FateOf(c)],
          outcome <- [c \in Cameras |-> OutcomeOf(c)]

(* The coordinator implements the promise of CaptureSets: whatever the     *)
(* order of events, contributions only improve, and closing gives every    *)
(* camera one outcome.                                                     *)
ImplementsCaptureSets == Sets!Spec
=============================================================================
