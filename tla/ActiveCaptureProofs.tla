-------------------------- MODULE ActiveCaptureProofs --------------------------
(***************************************************************************)
(* Lemmas about the operators of ActiveCapture: the types they keep, and   *)
(* what a start and a report change of the set that is being collected.    *)
(* The coordinator's own theorems and those of the rig rest on them.       *)
(***************************************************************************)
EXTENDS ActiveCapture, FiniteSetTheorems, TLAPS

LEMMA AgesFacts ==
  /\ AgeCap \in Nat
  /\ AgeCap > MaxLag
  /\ Ages \subseteq Nat
  /\ 0 \in Ages
  /\ Lags \subseteq Ages
  /\ \A age \in Ages : Grown(age) \in Ages
BY WindowsAssumption DEF AgeCap, Ages, Lags, Grown

LEMMA IdleType ==
  ASSUME NEW T
  PROVE  Idle \in ActiveCaptures(T) /\ Started(Idle) = {} /\ Resolved(Idle) = {}
BY AgesFacts DEF Idle, ActiveCaptures, Started, Resolved, NoTx

LEMMA CompletedType ==
  ASSUME NEW T, NEW a \in ActiveCaptures(T)
  PROVE  Completed(a) \in CompletedCaptures(T)
BY DEF ActiveCaptures, CompletedCaptures, Completed, Resolved

LEMMA TransactionsType ==
  ASSUME NEW T, NEW a \in ActiveCaptures(T)
  PROVE  Transactions(a) \subseteq Cameras \X T
BY DEF Transactions, Started, ActiveCaptures

(* The transactions of a set are its cameras with what they started.       *)
LEMMA TransactionOf ==
  ASSUME NEW T, NEW a \in ActiveCaptures(T), NEW c \in Cameras, NEW q
  PROVE  <<c, q>> \in Transactions(a) <=> q # NoTx /\ a.tx[c] = q
BY DEF Transactions, Started

(* An accepted start adds the one transaction.                             *)
LEMMA StartFacts ==
  ASSUME NEW T, NoTx \notin T, NEW a \in ActiveCaptures(T), NEW seen,
         NEW c \in Cameras, NEW q \in T, NEW lag \in Lags,
         ~a.open => a = Idle, StartAccepted(a, seen, c, q, lag)
  PROVE  LET b == AfterStart(a, c, q, lag)
         IN  /\ b \in ActiveCaptures(T) /\ b.open
             /\ b.tx = [a.tx EXCEPT ![c] = q] /\ b.images = a.images /\ b.errors = a.errors
             /\ Transactions(b) = Transactions(a) \cup {<<c, q>>}
             /\ a.tx[c] \in {NoTx, q}
<1> DEFINE b == AfterStart(a, c, q, lag)
<1>1. lag \in Ages
  BY AgesFacts
<1>2. a.tx \in [Cameras -> T \cup {NoTx}] /\ a.tx[c] \in {NoTx, q}
  BY DEF ActiveCaptures, StartAccepted, Idle
<1>3. /\ b \in ActiveCaptures(T) /\ b.open
      /\ b.tx = [a.tx EXCEPT ![c] = q] /\ b.images = a.images /\ b.errors = a.errors
  <2>1. CASE a.open
    BY <1>1, <2>1 DEF AfterStart, ActiveCaptures
  <2>2. CASE ~a.open
    BY <1>1, <2>2, AgesFacts DEF AfterStart, ActiveCaptures, Idle
  <2> QED  BY <2>1, <2>2
<1> HIDE DEF b
<1>4. Transactions(b) = Transactions(a) \cup {<<c, q>>}
  <2>1. \A d \in Cameras : b.tx[d] = IF d = c THEN q ELSE a.tx[d]
    BY <1>2, <1>3
  <2> QED  BY <1>2, <2>1 DEF Transactions, Started
<1> QED  BY <1>2, <1>3, <1>4 DEF b

(* A report changes neither the cameras nor what they started.             *)
LEMMA ReportFacts ==
  ASSUME NEW T, NEW a \in ActiveCaptures(T), NEW c \in Cameras, NEW lag \in Lags
  PROVE  /\ AfterComplete(a, c, lag) \in ActiveCaptures(T)
         /\ AfterComplete(a, c, lag).tx = a.tx /\ AfterComplete(a, c, lag).open = a.open
         /\ AfterComplete(a, c, lag).images = a.images \cup {c}
         /\ AfterFail(a, c, lag) \in ActiveCaptures(T)
         /\ AfterFail(a, c, lag).tx = a.tx /\ AfterFail(a, c, lag).open = a.open
         /\ AfterFail(a, c, lag).images = a.images
         /\ AfterProgress(a, lag) \in ActiveCaptures(T)
         /\ AfterProgress(a, lag).tx = a.tx /\ AfterProgress(a, lag).open = a.open
         /\ AfterProgress(a, lag).images = a.images
<1>1. lag \in Ages
  BY AgesFacts
<1> QED  BY <1>1 DEF AfterComplete, AfterFail, AfterProgress, ActiveCaptures

LEMMA AgedFacts ==
  ASSUME NEW T, NEW a \in ActiveCaptures(T)
  PROVE  /\ Aged(a) \in ActiveCaptures(T)
         /\ Aged(a).tx = a.tx /\ Aged(a).open = a.open /\ Aged(a).images = a.images
         /\ ~a.open => Aged(a) = a
BY AgesFacts DEF Aged, ActiveCaptures
=============================================================================
