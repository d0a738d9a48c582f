-------------------------- MODULE CoordinatorProofs --------------------------
(***************************************************************************)
(* Theorems about Coordinator, for every set of cameras, every window,     *)
(* timeout and lag and every history limit.                                *)
(***************************************************************************)
EXTENDS Coordinator, ActiveCaptureProofs, FiniteSetTheorems, TLAPS

-----------------------------------------------------------------------------
(* The inductive invariant.  The named properties of Coordinator are not   *)
(* inductive: that the history never forgets a transaction too early needs *)
(* the deque to be the tail of everything filed, and that a closed set     *)
(* starts from nothing needs the idle record to be the initial one.        *)
IdleWhenClosed == ~active.open => active = Idle
OpenHasStart   == active.open => Started(active) # {}
ProgressAgeBounded == active.open => active.sinceProgress <= quiet + MaxLag
DequeIsTail    == seenOrder = Retained(filed)

Inv ==
  /\ TypeOK
  /\ IdleWhenClosed
  /\ OpenHasStart
  /\ ResolvedWereStarted
  /\ ActiveIsFresh
  /\ HistoryAgrees
  /\ DequeIsTail
  /\ ProgressAgeBounded
  /\ ReuseOnlyBeyondHistory

USE CamerasAssumption, WindowsAssumption, CoordinatorAssumption

-----------------------------------------------------------------------------
LEMMA StartedFinite ==
  ASSUME NEW a
  PROVE  Cardinality(Started(a)) \in Nat
<1>1. Started(a) \subseteq Cameras
  BY DEF Started
<1>2. IsFiniteSet(Started(a))
  BY <1>1, FS_Subset
<1> QED  BY <1>2, FS_CardinalityType

(* What Registrations chooses from: sequences without repetition that list *)
(* exactly the transactions of the set.                                    *)
LEMMA RegistrationFacts ==
  ASSUME NEW a \in ActiveCaptures(Txs), NEW ts \in Registrations(a)
  PROVE  /\ ts \in Seq(Cameras \X Txs)
         /\ RangeOf(ts) = Transactions(a)
         /\ \A i, j \in 1..Len(ts) : ts[i] = ts[j] => i = j
<1> DEFINE n == Cardinality(Started(a))
<1>1. n \in Nat
  BY StartedFinite
<1>2. ts \in [1..n -> Transactions(a)]
  BY DEF Registrations
<1>3. ts \in Seq(Cameras \X Txs) /\ Len(ts) = n
  <2> HIDE DEF n
  <2>1. ts \in [1..n -> Cameras \X Txs]
    BY <1>2, TransactionsType
  <2> QED  BY <1>1, <2>1
<1> QED  BY <1>3 DEF Registrations

(* The tail kept of a sequence, position by position.                      *)
LEMMA RetainedFacts ==
  ASSUME NEW S, NEW s \in Seq(S)
  PROVE  /\ Retained(s) \in Seq(S)
         /\ Excess(s) \in 0..Len(s)
         /\ Len(Retained(s)) = Len(s) - Excess(s)
         /\ Len(Retained(s)) <= HistoryLimit
         /\ \A i \in 1..Len(Retained(s)) : Retained(s)[i] = s[i + Excess(s)]
         /\ Dropped(s) \in Seq(S)
         /\ Len(Dropped(s)) = Excess(s)
         /\ \A i \in 1..Len(Dropped(s)) : Dropped(s)[i] = s[i]
<1>1. Len(s) \in Nat /\ Excess(s) \in 0..Len(s)
  BY DEF Excess, Beyond
<1>2. /\ Retained(s) \in Seq(S)
      /\ Len(Retained(s)) = Len(s) - Excess(s)
      /\ \A i \in 1..Len(Retained(s)) : Retained(s)[i] = s[i + Excess(s)]
  BY <1>1 DEF Retained
<1>3. /\ Dropped(s) \in Seq(S)
      /\ Len(Dropped(s)) = Excess(s)
      /\ \A i \in 1..Len(Dropped(s)) : Dropped(s)[i] = s[i]
  BY <1>1 DEF Dropped
<1>4. Len(s) - Excess(s) <= HistoryLimit
  BY <1>1 DEF Excess, Beyond
<1> QED  BY <1>1, <1>2, <1>3, <1>4

(* The tail of a sequence without repetition has none.                     *)
LEMMA TailInjective ==
  ASSUME NEW n \in Nat, NEW e \in 0..n, NEW h, NEW t,
         \A i \in 1..(n - e) : t[i] = h[i + e],
         \A i, j \in 1..n : h[i] = h[j] => i = j
  PROVE  \A i, j \in 1..(n - e) : t[i] = t[j] => i = j
<1> SUFFICES ASSUME NEW i \in 1..(n - e), NEW j \in 1..(n - e), t[i] = t[j]
             PROVE  i = j
  OBVIOUS
<1>1. i + e \in 1..n /\ j + e \in 1..n
  OBVIOUS
<1>2. i + e = j + e
  BY <1>1
<1> QED  BY <1>2

LEMMA JoinFacts ==
  ASSUME NEW S, NEW s \in Seq(S), NEW t \in Seq(S)
  PROVE  /\ Len(s) \in Nat
         /\ Len(t) \in Nat
         /\ s \o t \in Seq(S)
         /\ Len(s \o t) = Len(s) + Len(t)
         /\ \A i \in 1..Len(s) : (s \o t)[i] = s[i]
         /\ \A i \in (Len(s) + 1)..(Len(s) + Len(t)) :
              i - Len(s) \in 1..Len(t) /\ (s \o t)[i] = t[i - Len(s)]
         /\ RangeOf(s \o t) = RangeOf(s) \cup RangeOf(t)
<1> DEFINE m == Len(s)
           k == Len(t)
           h == s \o t
<1>1. m \in Nat /\ k \in Nat /\ h \in Seq(S) /\ Len(h) = m + k
  OBVIOUS
<1>2. \A i \in 1..m : h[i] = s[i]
  OBVIOUS
<1>3. \A i \in (m + 1)..(m + k) : i - m \in 1..k /\ h[i] = t[i - m]
  OBVIOUS
<1>4. \A i \in 1..k : h[m + i] = t[i]
  OBVIOUS
<1>5. RangeOf(h) = RangeOf(s) \cup RangeOf(t)
  <2> HIDE DEF m, k, h
  <2>1. ASSUME NEW i \in 1..(m + k)
        PROVE  h[i] \in {s[j] : j \in 1..m} \cup {t[j] : j \in 1..k}
    <3>1. CASE i \in 1..m
      BY <1>2, <3>1
    <3>2. CASE i \in (m + 1)..(m + k)
      BY <1>3, <3>2
    <3> QED  BY <1>1, <3>1, <3>2
  <2>2. ASSUME NEW i \in 1..m
        PROVE  i \in 1..(m + k) /\ h[i] = s[i]
    BY <1>1, <1>2
  <2>3. ASSUME NEW i \in 1..k
        PROVE  m + i \in 1..(m + k) /\ h[m + i] = t[i]
    BY <1>1, <1>4
  <2>4. {h[i] : i \in 1..(m + k)} = {s[j] : j \in 1..m} \cup {t[j] : j \in 1..k}
    BY <2>1, <2>2, <2>3, SMTT(30)
  <2> QED  BY <1>1, <2>4 DEF RangeOf, m, k
<1> QED  BY <1>1, <1>2, <1>3, <1>5

(* Registering a set's transactions in a history that holds none of them   *)
(* keeps the set and the deque in step.                                    *)
LEMMA RememberFacts ==
  ASSUME NEW S, NEW order \in Seq(S), NEW ts \in Seq(S),
         \A i, j \in 1..Len(order) : order[i] = order[j] => i = j,
         \A i, j \in 1..Len(ts) : ts[i] = ts[j] => i = j,
         RangeOf(ts) \cap RangeOf(order) = {}
  PROVE  LET kept == Retained(order \o ts)
         IN  /\ RangeOf(kept) = (RangeOf(order) \cup RangeOf(ts))
                                  \ RangeOf(Dropped(order \o ts))
             /\ \A i, j \in 1..Len(kept) : kept[i] = kept[j] => i = j
<1> DEFINE all == order \o ts
           n == Len(all)
           e == Excess(all)
<1>1. /\ Len(order) \in Nat /\ Len(ts) \in Nat
      /\ all \in Seq(S) /\ n = Len(order) + Len(ts)
      /\ \A i \in 1..Len(order) : all[i] = order[i]
      /\ \A i \in (Len(order) + 1)..(Len(order) + Len(ts)) :
           i - Len(order) \in 1..Len(ts) /\ all[i] = ts[i - Len(order)]
      /\ RangeOf(all) = RangeOf(order) \cup RangeOf(ts)
  BY JoinFacts
<1> HIDE DEF all
<1>2. \A i \in 1..Len(order), j \in 1..Len(ts) : order[i] # ts[j]
  BY DEF RangeOf
<1> DEFINE m == Len(order)
           k == Len(ts)
<1>a. m \in Nat /\ k \in Nat /\ n = m + k
  BY <1>1
<1>3. \A i, j \in 1..n : all[i] = all[j] => i = j
  <2>1. \A i \in 1..m : all[i] = order[i]
    BY <1>1
  <2>2. \A i \in (m + 1)..(m + k) : i - m \in 1..k /\ all[i] = ts[i - m]
    BY <1>1
  <2>3. \A i, j \in 1..m : order[i] = order[j] => i = j
    OBVIOUS
  <2>4. \A i, j \in 1..k : ts[i] = ts[j] => i = j
    OBVIOUS
  <2>5. \A i \in 1..m, j \in 1..k : order[i] # ts[j]
    BY <1>2
  <2> HIDE DEF m, k, n
  <2>6. \A i, j \in 1..(m + k) : all[i] = all[j] => i = j
    <3> SUFFICES ASSUME NEW i \in 1..(m + k), NEW j \in 1..(m + k), all[i] = all[j]
                 PROVE  i = j
      OBVIOUS
    <3>1. CASE i \in 1..m /\ j \in 1..m
      <4>1. order[i] = order[j]
        BY ONLY <2>1, <3>1, all[i] = all[j]
      <4> QED  BY ONLY <2>3, <3>1, <4>1
    <3>2. CASE i \in 1..m /\ j \in (m + 1)..(m + k)
      <4>1. order[i] = ts[j - m] /\ j - m \in 1..k
        BY ONLY <2>1, <2>2, <3>2, all[i] = all[j]
      <4> QED  BY ONLY <2>5, <3>2, <4>1
    <3>3. CASE i \in (m + 1)..(m + k) /\ j \in 1..m
      <4>1. order[j] = ts[i - m] /\ i - m \in 1..k
        BY ONLY <2>1, <2>2, <3>3, all[i] = all[j]
      <4> QED  BY ONLY <2>5, <3>3, <4>1
    <3>4. CASE i \in (m + 1)..(m + k) /\ j \in (m + 1)..(m + k)
      <4>1. ts[i - m] = ts[j - m] /\ i - m \in 1..k /\ j - m \in 1..k
        BY ONLY <2>2, <3>4, all[i] = all[j]
      <4>2. i - m = j - m
        BY ONLY <2>4, <4>1
      <4> QED  BY ONLY <1>a, <3>4, <4>2
    <3>5. /\ i \in 1..m \/ i \in (m + 1)..(m + k)
          /\ j \in 1..m \/ j \in (m + 1)..(m + k)
      BY ONLY <1>a, i \in 1..(m + k), j \in 1..(m + k)
    <3> QED  BY ONLY <3>1, <3>2, <3>3, <3>4, <3>5
  <2> QED  BY <1>a, <2>6
<1>4. /\ n \in Nat /\ e \in 0..n
      /\ Len(Retained(all)) = n - e
      /\ Len(Dropped(all)) = e
      /\ \A i \in 1..(n - e) : Retained(all)[i] = all[i + e]
      /\ \A i \in 1..e : Dropped(all)[i] = all[i]
  <2>0. all \in Seq(S)
    BY <1>1
  <2>1. e \in 0..n /\ n \in Nat
    <3>1. n \in Nat
      BY <2>0
    <3>2. Excess(all) \in 0..Len(all)
      BY <2>0, RetainedFacts
    <3> QED  BY <3>1, <3>2
  <2>2. Len(Retained(all)) = n - e /\ Len(Dropped(all)) = e
    BY <2>0, RetainedFacts
  <2>3. \A i \in 1..Len(Retained(all)) : Retained(all)[i] = all[i + e]
    BY <2>0, RetainedFacts
  <2>4. \A i \in 1..Len(Dropped(all)) : Dropped(all)[i] = all[i]
    BY <2>0, RetainedFacts, ZenonT(40)
  <2> QED  BY <2>1, <2>2, <2>3, <2>4
<1> HIDE DEF n, e
<1>5. RangeOf(Retained(all)) = RangeOf(all) \ RangeOf(Dropped(all))
  <2>1. {Retained(all)[i] : i \in 1..(n - e)}
          = {all[i] : i \in 1..n} \ {Dropped(all)[i] : i \in 1..e}
    <3> DEFINE t == Retained(all)
               d == Dropped(all)
    <3>1. /\ \A i \in 1..(n - e) : t[i] = all[i + e]
          /\ \A i \in 1..e : d[i] = all[i]
      BY <1>4
    <3> HIDE DEF t, d
    <3>2. ASSUME NEW i \in 1..(n - e)
          PROVE  t[i] \in {all[x] : x \in 1..n} \ {d[x] : x \in 1..e}
      <4>1. i + e \in 1..n /\ t[i] = all[i + e]
        BY <1>4, <3>1
      <4>2. ASSUME NEW x \in 1..e
            PROVE  d[x] # t[i]
        <5>1. x \in 1..n /\ x # i + e /\ d[x] = all[x]
          BY <1>4, <3>1
        <5> QED  BY <1>3, <4>1, <5>1
      <4> QED  BY <4>1, <4>2
    <3>3. ASSUME NEW i \in 1..n, all[i] \notin {d[x] : x \in 1..e}
          PROVE  all[i] \in {t[x] : x \in 1..(n - e)}
      <4>1. i \notin 1..e
        BY <3>1, <3>3
      <4>2. i - e \in 1..(n - e) /\ (i - e) + e = i
        BY <1>4, <4>1
      <4> QED  BY <3>1, <4>2
    <3>4. {t[i] : i \in 1..(n - e)} = {all[i] : i \in 1..n} \ {d[i] : i \in 1..e}
      BY <3>2, <3>3
    <3> QED  BY <3>4 DEF t, d
  <2> QED  BY <1>4, <2>1 DEF RangeOf, n
<1>6. \A i, j \in 1..(n - e) : Retained(all)[i] = Retained(all)[j] => i = j
  BY <1>3, <1>4, TailInjective, SMTT(30)
<1> QED  BY <1>1, <1>4, <1>5, <1>6 DEF all

LEMMA BeyondFacts ==
  \A m, k \in Nat : Beyond(m + k) = Beyond((m - Beyond(m)) + k) + Beyond(m)
BY DEF Beyond

(* The tail of a longer history is the tail of the tail.                   *)
LEMMA TailOfTail ==
  ASSUME NEW S, NEW s \in Seq(S), NEW ts \in Seq(S)
  PROVE  Retained(Retained(s) \o ts) = Retained(s \o ts)
<1> DEFINE r == Retained(s)
<1>1. /\ r \in Seq(S) /\ Excess(s) \in 0..Len(s)
      /\ Len(r) = Len(s) - Excess(s)
      /\ \A i \in 1..Len(r) : r[i] = s[i + Excess(s)]
  BY RetainedFacts
<1> HIDE DEF r
<1> DEFINE u == r \o ts
           v == s \o ts
<1>2. /\ u \in Seq(S) /\ Len(u) = Len(r) + Len(ts)
      /\ v \in Seq(S) /\ Len(v) = Len(s) + Len(ts)
      /\ \A i \in 1..Len(u) : u[i] = IF i <= Len(r) THEN r[i] ELSE ts[i - Len(r)]
      /\ \A i \in 1..Len(v) : v[i] = IF i <= Len(s) THEN s[i] ELSE ts[i - Len(s)]
  <2>1. r \in Seq(S) /\ s \in Seq(S) /\ ts \in Seq(S)
    BY <1>1
  <2>2. /\ u \in Seq(S) /\ Len(u) = Len(r) + Len(ts)
        /\ \A i \in 1..Len(u) : u[i] = IF i <= Len(r) THEN r[i] ELSE ts[i - Len(r)]
    BY ONLY <2>1
  <2>3. /\ v \in Seq(S) /\ Len(v) = Len(s) + Len(ts)
        /\ \A i \in 1..Len(v) : v[i] = IF i <= Len(s) THEN s[i] ELSE ts[i - Len(s)]
    BY ONLY <2>1
  <2> QED  BY <2>2, <2>3
<1> HIDE DEF u, v
<1>3. \A i \in 1..Len(u) : i + Excess(s) \in 1..Len(v) /\ u[i] = v[i + Excess(s)]
  <2> SUFFICES ASSUME NEW i \in 1..Len(u)
               PROVE  i + Excess(s) \in 1..Len(v) /\ u[i] = v[i + Excess(s)]
    OBVIOUS
  <2>1. i + Excess(s) \in 1..Len(v)
    BY <1>1, <1>2
  <2>2. CASE i <= Len(r)
    <3>1. u[i] = s[i + Excess(s)]
      BY <1>1, <1>2, <2>2, SMTT(30)
    <3>2. i + Excess(s) <= Len(s)
      BY <1>1, <1>2, <2>2
    <3> QED  BY <1>2, <2>1, <3>1, <3>2
  <2>3. CASE i > Len(r)
    <3>1. u[i] = ts[i - Len(r)]
      BY <1>1, <1>2, <2>3
    <3>2. i + Excess(s) > Len(s) /\ (i + Excess(s)) - Len(s) = i - Len(r)
      BY <1>1, <1>2, <2>3
    <3> QED  BY <1>2, <2>1, <3>1, <3>2
  <2> QED  BY <1>1, <1>2, <2>2, <2>3
<1>a. Len(s) \in Nat /\ Len(ts) \in Nat /\ Len(r) \in Nat /\ Len(u) \in Nat /\ Len(v) \in Nat
  BY <1>1, <1>2
<1>b. Len(u) = (Len(s) - Excess(s)) + Len(ts) /\ Len(v) = Len(s) + Len(ts)
  BY <1>1, <1>2
<1>4. Excess(v) = Excess(u) + Excess(s)
  <2> HIDE <1>1, <1>2
  <2>1. Beyond(Len(s) + Len(ts))
          = Beyond((Len(s) - Beyond(Len(s))) + Len(ts)) + Beyond(Len(s))
    BY <1>a, BeyondFacts
  <2> QED  BY <2>1, <1>b DEF Excess
<1>5. /\ Retained(u) \in Seq(S) /\ Excess(u) \in 0..Len(u)
      /\ Len(Retained(u)) = Len(u) - Excess(u)
      /\ \A i \in 1..Len(Retained(u)) : Retained(u)[i] = u[i + Excess(u)]
  BY <1>2, RetainedFacts
<1>6. /\ Retained(v) \in Seq(S) /\ Excess(v) \in 0..Len(v)
      /\ Len(Retained(v)) = Len(v) - Excess(v)
      /\ \A i \in 1..Len(Retained(v)) : Retained(v)[i] = v[i + Excess(v)]
  BY <1>2, RetainedFacts
<1>7. Len(Retained(u)) = Len(Retained(v))
  <2>1. Len(u) - Excess(u) = Len(v) - Excess(v)
    BY <1>1, <1>2, <1>4, <1>5, <1>a, SMTT(30)
  <2> QED  BY <1>5, <1>6, <2>1
<1>8. \A i \in 1..Len(Retained(u)) : Retained(u)[i] = Retained(v)[i]
  <2> SUFFICES ASSUME NEW i \in 1..Len(Retained(u))
               PROVE  Retained(u)[i] = Retained(v)[i]
    OBVIOUS
  <2>1. i + Excess(u) \in 1..Len(u) /\ Retained(u)[i] = u[i + Excess(u)]
    BY <1>2, <1>5
  <2>2. Retained(v)[i] = v[i + Excess(v)]
    BY <1>6, <1>7
  <2>3. u[i + Excess(u)] = v[(i + Excess(u)) + Excess(s)]
    BY <1>3, <2>1
  <2>4. (i + Excess(u)) + Excess(s) = i + Excess(v)
    <3>1. Excess(s) \in Int /\ Excess(u) \in Int /\ i \in Int
      BY <1>1, <1>5
    <3> QED  BY ONLY <1>4, <3>1
  <2> QED  BY <2>1, <2>2, <2>3, <2>4
<1>9. Retained(u) = Retained(v)
  BY <1>5, <1>6, <1>7, <1>8
<1> QED  BY <1>9 DEF r, u, v

-----------------------------------------------------------------------------
LEMMA InitInv == Init => Inv
<1> SUFFICES ASSUME Init PROVE Inv
  OBVIOUS
<1> USE DEF Init
<1>1. TypeOK
  <2>1. NoResult \in CompletedCaptures(Txs)
    BY IdleType, CompletedType DEF NoResult, CompletedCaptures
  <2> QED  BY <2>1, IdleType, AgesFacts DEF TypeOK
<1>2. IdleWhenClosed /\ OpenHasStart /\ ResolvedWereStarted /\ ProgressAgeBounded
  BY IdleType DEF IdleWhenClosed, OpenHasStart, ResolvedWereStarted, ProgressAgeBounded, Idle
<1>3. ActiveIsFresh /\ HistoryAgrees /\ ReuseOnlyBeyondHistory
  BY DEF ActiveIsFresh, HistoryAgrees, ReuseOnlyBeyondHistory, RangeOf
<1>4. DequeIsTail
  BY DEF DequeIsTail, Retained, Excess, Beyond
<1> QED  BY <1>1, <1>2, <1>3, <1>4 DEF Inv

(* An accepted event replaces the active record and nothing else.          *)
LEMMA AcceptKeepsInv ==
  ASSUME Inv, NEW a \in ActiveCaptures(Txs), Accept(a),
         a.open, Started(a) # {}, Resolved(a) \subseteq Started(a),
         Transactions(a) \cap seen = {}, a.sinceProgress \in Lags
  PROVE  Inv'
<1> USE DEF Accept
<1>1. TypeOK'
  BY AgesFacts DEF Inv, TypeOK
<1>2. IdleWhenClosed' /\ OpenHasStart' /\ ResolvedWereStarted' /\ ActiveIsFresh'
  BY DEF IdleWhenClosed, OpenHasStart, ResolvedWereStarted, ActiveIsFresh
<1>3. ProgressAgeBounded'
  BY DEF ProgressAgeBounded, Lags
<1>4. HistoryAgrees' /\ DequeIsTail' /\ ReuseOnlyBeyondHistory'
  BY DEF Inv, HistoryAgrees, DequeIsTail, ReuseOnlyBeyondHistory
<1> QED  BY <1>1, <1>2, <1>3, <1>4 DEF Inv

LEMMA StartKeepsInv ==
  ASSUME Inv, NEW c \in Cameras, NEW q \in Txs, NEW lag \in Lags, Start(c, q, lag)
  PROVE  Inv'
<1> DEFINE a == AfterStart(active, c, q, lag)
<1>1. active \in ActiveCaptures(Txs)
  BY DEF Inv, TypeOK
<1>2. q \in Nat /\ q # NoTx /\ lag \in Ages /\ NoTx \in {NoTx}
  BY AgesFacts
<1>3. a \in ActiveCaptures(Txs) /\ a.open /\ a.sinceProgress = lag
  BY <1>1, <1>2, AgesFacts DEF ActiveCaptures, AfterStart, Idle
<1>4. /\ a.tx = [(IF active.open THEN active.tx ELSE [x \in Cameras |-> NoTx]) EXCEPT ![c] = q]
      /\ Resolved(a) = IF active.open THEN Resolved(active) ELSE {}
  BY <1>1 DEF AfterStart, ActiveCaptures, Idle, Resolved
<1>5. Started(a) = IF active.open THEN Started(active) \cup {c} ELSE {c}
  BY <1>1, <1>2, <1>4 DEF Started, ActiveCaptures
<1>6. Transactions(a) \subseteq Transactions(active) \cup {<<c, q>>}
  <2> SUFFICES ASSUME NEW d \in Started(a)
               PROVE  <<d, a.tx[d]>> \in Transactions(active) \cup {<<c, q>>}
    BY DEF Transactions
  <2>1. CASE d = c
    BY <1>1, <1>4, <2>1 DEF ActiveCaptures
  <2>2. CASE d # c
    <3>1. active.open /\ d \in Started(active) /\ a.tx[d] = active.tx[d]
      BY <1>1, <1>4, <1>5, <2>2 DEF Started, ActiveCaptures
    <3> QED  BY <3>1 DEF Transactions
  <2> QED  BY <2>1, <2>2
<1>7. Transactions(a) \cap seen = {}
  BY <1>6 DEF Inv, ActiveIsFresh, Start, StartAccepted
<1>8. Started(a) # {} /\ Resolved(a) \subseteq Started(a)
  BY <1>4, <1>5 DEF Inv, ResolvedWereStarted
<1>9. Accept(a)
  BY DEF Start
<1> HIDE DEF a
<1> QED  BY <1>3, <1>7, <1>8, <1>9, AcceptKeepsInv

(* Results and progress leave the transactions of the active set alone.    *)
LEMMA ReportKeepsInv ==
  ASSUME Inv, NEW c \in Cameras, NEW q \in Txs, Matching(active, c, q),
         NEW a \in ActiveCaptures(Txs), Accept(a),
         a.open = active.open, a.tx = active.tx, a.sinceProgress \in Lags,
         Resolved(a) \subseteq Resolved(active) \cup {c}
  PROVE  Inv'
<1>1. c \in Started(active) /\ active.open
  BY DEF Matching, Started
<1>2. Started(a) = Started(active) /\ Transactions(a) = Transactions(active)
  BY DEF Started, Transactions
<1> QED  BY <1>1, <1>2, AcceptKeepsInv
     DEF Inv, OpenHasStart, ResolvedWereStarted, ActiveIsFresh

LEMMA EventsKeepInv ==
  ASSUME Inv, NEW c \in Cameras, NEW q \in Txs, NEW lag \in Lags,
         Complete(c, q, lag) \/ Progress(c, q, lag) \/ Fail(c, q, lag)
  PROVE  Inv'
<1>1. active \in ActiveCaptures(Txs) /\ lag \in Ages
  BY AgesFacts DEF Inv, TypeOK
<1>2. CASE Complete(c, q, lag)
  <2> DEFINE a == AfterComplete(active, c, lag)
  <2>1. /\ a \in ActiveCaptures(Txs) /\ a.open = active.open /\ a.tx = active.tx
        /\ a.sinceProgress = lag /\ Resolved(a) = Resolved(active) \cup {c}
    BY <1>1 DEF AfterComplete, ActiveCaptures, Resolved
  <2>2. Accept(a) /\ Matching(active, c, q)
    BY <1>2 DEF Complete, CompleteAccepted
  <2> HIDE DEF a
  <2> QED  BY <2>1, <2>2, ReportKeepsInv
<1>3. CASE Progress(c, q, lag)
  <2> DEFINE a == AfterProgress(active, lag)
  <2>1. /\ a \in ActiveCaptures(Txs) /\ a.open = active.open /\ a.tx = active.tx
        /\ a.sinceProgress = lag /\ Resolved(a) = Resolved(active)
    BY <1>1 DEF AfterProgress, ActiveCaptures, Resolved
  <2>2. Accept(a) /\ Matching(active, c, q)
    BY <1>3 DEF Progress, ProgressAccepted
  <2> HIDE DEF a
  <2> QED  BY <2>1, <2>2, ReportKeepsInv
<1>4. CASE Fail(c, q, lag)
  <2> DEFINE a == AfterFail(active, c, lag)
  <2>1. /\ a \in ActiveCaptures(Txs) /\ a.open = active.open /\ a.tx = active.tx
        /\ a.sinceProgress = lag /\ Resolved(a) = Resolved(active) \cup {c}
    BY <1>1 DEF AfterFail, ActiveCaptures, Resolved
  <2>2. Accept(a) /\ Matching(active, c, q)
    BY <1>4 DEF Fail, FailAccepted
  <2> HIDE DEF a
  <2> QED  BY <2>1, <2>2, ReportKeepsInv
<1> QED  BY <1>2, <1>3, <1>4

LEMMA TickKeepsInv ==
  ASSUME Inv, Tick
  PROVE  Inv'
<1>1. active \in ActiveCaptures(Txs) /\ quiet \in Ages
  BY DEF Inv, TypeOK
<1>2. /\ active' \in ActiveCaptures(Txs) /\ quiet' \in Ages
      /\ active'.open = active.open /\ active'.tx = active.tx
      /\ active'.images = active.images /\ active'.errors = active.errors
  BY <1>1, AgesFacts DEF Tick, Aged, ActiveCaptures
<1>3. ~active.open => active' = active
  BY DEF Tick, Aged
<1>4. TypeOK'
  BY <1>2 DEF Inv, TypeOK, Tick
<1>5. Started(active') = Started(active) /\ Transactions(active') = Transactions(active)
      /\ Resolved(active') = Resolved(active)
  BY <1>2 DEF Started, Transactions, Resolved
<1>6. IdleWhenClosed' /\ OpenHasStart' /\ ResolvedWereStarted' /\ ActiveIsFresh'
  BY <1>2, <1>3, <1>5
     DEF Inv, IdleWhenClosed, OpenHasStart, ResolvedWereStarted, ActiveIsFresh, Tick
<1>7. ProgressAgeBounded'
  <2> SUFFICES ASSUME active.open
               PROVE  active'.sinceProgress <= quiet' + MaxLag
    BY <1>2 DEF ProgressAgeBounded
  <2>1. active'.sinceProgress = Grown(active.sinceProgress) /\ quiet' = Grown(quiet)
    BY <1>1 DEF Tick, Aged, ActiveCaptures
  <2>2. active.sinceProgress <= quiet + MaxLag /\ active.sinceProgress \in Ages
    BY <1>1 DEF Inv, ProgressAgeBounded, ActiveCaptures
  <2>3. \A x, y \in Ages : x <= y + MaxLag => Grown(x) <= Grown(y) + MaxLag
    BY AgesFacts DEF Grown, Ages
  <2> QED  BY <1>1, <2>1, <2>2, <2>3
<1>8. HistoryAgrees' /\ DequeIsTail' /\ ReuseOnlyBeyondHistory'
  BY DEF Inv, HistoryAgrees, DequeIsTail, ReuseOnlyBeyondHistory, Tick
<1> QED  BY <1>4, <1>6, <1>7, <1>8 DEF Inv

LEMMA FinalizeKeepsInv ==
  ASSUME Inv, NEW lag \in Lags, Finalize(lag)
  PROVE  Inv'
<1> DEFINE CT == Cameras \X Txs
<1>1. /\ active \in ActiveCaptures(Txs) /\ seenOrder \in Seq(CT) /\ filed \in Seq(CT)
      /\ quiet \in Ages
  BY DEF Inv, TypeOK
<1>2. PICK ts \in Registrations(active) :
        /\ seenOrder' = Retained(seenOrder \o ts)
        /\ seen' = (seen \cup RangeOf(ts)) \ RangeOf(Dropped(seenOrder \o ts))
        /\ filed' = filed \o ts
  BY DEF Finalize
<1>3. /\ ts \in Seq(CT) /\ RangeOf(ts) = Transactions(active)
      /\ \A i, j \in 1..Len(ts) : ts[i] = ts[j] => i = j
  BY <1>1, RegistrationFacts
<1>4. /\ seen = RangeOf(seenOrder)
      /\ \A i, j \in 1..Len(seenOrder) : seenOrder[i] = seenOrder[j] => i = j
  BY DEF Inv, HistoryAgrees
<1>5. RangeOf(ts) \cap RangeOf(seenOrder) = {}
  BY <1>3, <1>4 DEF Inv, ActiveIsFresh
<1> HIDE DEF CT
<1>6. HistoryAgrees'
  <2>1. /\ RangeOf(seenOrder') = (RangeOf(seenOrder) \cup RangeOf(ts))
                                   \ RangeOf(Dropped(seenOrder \o ts))
        /\ \A i, j \in 1..Len(seenOrder') : seenOrder'[i] = seenOrder'[j] => i = j
    BY <1>1, <1>2, <1>3, <1>4, <1>5, RememberFacts, SMTT(30)
  <2> QED  BY <1>2, <1>4, <2>1 DEF HistoryAgrees
<1>7. /\ filed \o ts \in Seq(CT)
      /\ seenOrder \o ts \in Seq(CT)
      /\ seenOrder' \in Seq(CT)
      /\ Len(seenOrder') <= HistoryLimit
  <2>1. filed \o ts \in Seq(CT) /\ seenOrder \o ts \in Seq(CT)
    BY <1>1, <1>3
  <2> QED  BY <1>2, <2>1, RetainedFacts
<1>8. TypeOK'
  <2>1. RangeOf(seenOrder') \subseteq CT
    BY <1>7 DEF RangeOf
  <2>2. seen' \subseteq CT
    BY <1>6, <2>1 DEF HistoryAgrees
  <2>3. active' \in ActiveCaptures(Txs)
    BY IdleType DEF Finalize
  <2>4. result' \in CompletedCaptures(Txs)
    BY <1>1, CompletedType DEF Finalize
  <2>5. quiet' \in Ages
    BY <1>1 DEF Finalize
  <2> QED  BY <1>2, <1>7, <2>2, <2>3, <2>4, <2>5 DEF TypeOK, CT
<1>9. DequeIsTail'
  <2>1. seenOrder = Retained(filed)
    BY DEF Inv, DequeIsTail
  <2>2. Retained(Retained(filed) \o ts) = Retained(filed \o ts)
    BY <1>1, <1>3, TailOfTail
  <2> QED  BY <1>2, <2>1, <2>2 DEF DequeIsTail
<1>10. ReuseOnlyBeyondHistory'
  <2> DEFINE m == Len(filed)
             k == Len(ts)
             h == filed'
  <2>1. /\ m \in Nat /\ k \in Nat /\ Len(h) = m + k
        /\ \A i \in 1..m : h[i] = filed[i]
        /\ \A i \in (m + 1)..(m + k) : i - m \in 1..k /\ h[i] = ts[i - m]
    BY <1>1, <1>2, <1>3, JoinFacts
  <2>2. \A i, j \in 1..m : (i < j /\ filed[i] = filed[j]) => j - i > HistoryLimit
    BY DEF Inv, ReuseOnlyBeyondHistory
  <2>3. /\ Excess(filed) \in 0..m
        /\ Len(seenOrder) = m - Excess(filed)
        /\ \A i \in 1..Len(seenOrder) : seenOrder[i] = filed[i + Excess(filed)]
    BY <1>1, RetainedFacts DEF Inv, DequeIsTail
  <2>4. Excess(filed) = Beyond(m)
    BY DEF Excess
  <2> HIDE DEF m, k, h
  <2>5. \A i \in 1..m, j \in 1..k : filed[i] = ts[j] => m - i >= HistoryLimit
    <3> SUFFICES ASSUME NEW i \in 1..m, NEW j \in 1..k, filed[i] = ts[j]
                 PROVE  m - i >= HistoryLimit
      OBVIOUS
    <3>1. CASE i <= Excess(filed)
      <4>1. m \in Nat /\ i <= Beyond(m) /\ i >= 1
        BY <2>1, <2>4, <3>1
      <4>2. m > HistoryLimit /\ Beyond(m) = m - HistoryLimit
        BY ONLY <4>1, CoordinatorAssumption DEF Beyond
      <4>3. i \in Int /\ HistoryLimit \in Nat
        OBVIOUS
      <4> QED  BY ONLY <4>1, <4>2, <4>3
    <3>2. CASE i > Excess(filed)
      <4> DEFINE p == i - Excess(filed)
      <4>1. p \in 1..Len(seenOrder) /\ p + Excess(filed) = i
        BY <2>1, <2>3, <3>2
      <4>2. seenOrder[p] = filed[i]
        BY <2>3, <4>1
      <4>3. seenOrder[p] \in RangeOf(seenOrder) /\ ts[j] \in RangeOf(ts)
        BY <4>1 DEF RangeOf, k
      <4> QED  BY <1>5, <4>2, <4>3
    <3> QED  BY <2>1, <2>3, <3>1, <3>2
  <2>6. \A i, j \in 1..(m + k) : (i < j /\ h[i] = h[j]) => j - i > HistoryLimit
    <3> SUFFICES ASSUME NEW i \in 1..(m + k), NEW j \in 1..(m + k), i < j, h[i] = h[j]
                 PROVE  j - i > HistoryLimit
      OBVIOUS
    <3>1. CASE j <= m
      BY <2>1, <2>2, <3>1
    <3>2. CASE i <= m /\ j > m
      <4>1. h[i] = filed[i] /\ j - m \in 1..k /\ h[j] = ts[j - m]
        BY <2>1, <3>2
      <4>2. PICK y \in 1..k : y = j - m
        BY <4>1
      <4>3. i \in 1..m /\ filed[i] = ts[y]
        <5>1. i \in 1..m
          BY <2>1, <3>2
        <5> QED  BY ONLY <4>1, <4>2, <5>1, h[i] = h[j]
      <4>4. m - i >= HistoryLimit
        BY <2>5, <4>3
      <4> QED  BY <2>1, <3>2, <4>4
    <3>3. CASE i > m /\ j > m
      <4>1. /\ i - m \in 1..k /\ h[i] = ts[i - m]
            /\ j - m \in 1..k /\ h[j] = ts[j - m]
        BY <2>1, <3>3
      <4>2. i - m = j - m
        BY <1>3, <4>1 DEF k
      <4> QED  BY <2>1, <4>2
    <3> QED  BY <2>1, <3>1, <3>2, <3>3
  <2> QED  BY <2>1, <2>6 DEF ReuseOnlyBeyondHistory, h
<1>11. IdleWhenClosed' /\ OpenHasStart' /\ ResolvedWereStarted' /\ ProgressAgeBounded'
       /\ ActiveIsFresh'
  <2>1. active' = Idle /\ ~Idle.open /\ Transactions(Idle) = {}
    BY IdleType DEF Finalize, Idle, Transactions
  <2> QED  BY <2>1, IdleType
           DEF IdleWhenClosed, OpenHasStart, ResolvedWereStarted, ProgressAgeBounded,
               ActiveIsFresh
<1> QED  BY <1>6, <1>8, <1>9, <1>10, <1>11 DEF Inv

LEMMA StutterKeepsInv == Inv /\ UNCHANGED vars => Inv'
BY DEF vars, Inv, TypeOK, IdleWhenClosed, OpenHasStart, ResolvedWereStarted, ActiveIsFresh,
       HistoryAgrees, DequeIsTail, ProgressAgeBounded, ReuseOnlyBeyondHistory

LEMMA NextKeepsInv == Inv /\ [Next]_vars => Inv'
<1> SUFFICES ASSUME Inv, [Next]_vars PROVE Inv'
  OBVIOUS
<1>1. ASSUME NEW c \in Cameras, NEW q \in Txs, NEW lag \in Lags, Start(c, q, lag)
      PROVE  Inv'
  BY <1>1, StartKeepsInv
<1>2. ASSUME NEW c \in Cameras, NEW q \in Txs, NEW lag \in Lags,
             Complete(c, q, lag) \/ Progress(c, q, lag) \/ Fail(c, q, lag)
      PROVE  Inv'
  BY <1>2, EventsKeepInv
<1>3. ASSUME NEW lag \in Lags, Finalize(lag)
      PROVE  Inv'
  BY <1>3, FinalizeKeepsInv
<1>4. CASE Tick
  BY <1>4, TickKeepsInv
<1>5. CASE UNCHANGED vars
  BY <1>5, StutterKeepsInv
<1> QED  BY <1>1, <1>2, <1>3, <1>4, <1>5 DEF Next

(* The inductive invariant holds of every behaviour.                       *)
THEOREM Invariance == Spec => []Inv
BY InitInv, NextKeepsInv, PTL DEF Spec

(* Type correctness.                                                       *)
THEOREM TypeCorrect == Spec => []TypeOK
BY Invariance, PTL DEF Inv

(* No camera is given an image or an error before it announced its own     *)
(* transaction, whatever the order of the events (coordinator.py:158).     *)
THEOREM ResultsFollowStarts == Spec => []ResolvedWereStarted
BY Invariance, PTL DEF Inv

(* A remembered transaction is never collected a second time               *)
(* (coordinator.py:110).                                                   *)
THEOREM ActiveSetIsFresh == Spec => []ActiveIsFresh
BY Invariance, PTL DEF Inv

(* The set and the bounded deque hold the same transactions, each once     *)
(* (coordinator.py:201).                                                   *)
THEOREM HistoryConsistent == Spec => []HistoryAgrees
BY Invariance, PTL DEF Inv

(* A transaction can be filed twice only with more than history_limit - 1  *)
(* other ones filed in between.                                            *)
THEOREM NoEarlyReuse == Spec => []ReuseOnlyBeyondHistory
BY Invariance, PTL DEF Inv

(* A set with a silent camera is closed only after the no-progress         *)
(* timeout, up to the lag of the handlers' clock readings.                 *)
THEOREM TimeoutNeedsQuiet == Spec => ClosedEarlyOnlyWhenQuiet
<1>1. Inv /\ [Next]_vars
        => [(Closing /\ Resolved(active) # Cameras) => quiet + MaxLag >= Timeout]_vars
  <2> SUFFICES ASSUME Inv, Next, Closing, Resolved(active) # Cameras
               PROVE  quiet + MaxLag >= Timeout
    OBVIOUS
  <2>1. active \in ActiveCaptures(Txs) /\ active.open /\ ~active'.open /\ quiet \in Nat
    BY AgesFacts DEF Closing, Inv, TypeOK
  <2>2. ASSUME NEW c \in Cameras, NEW q \in Txs, NEW lag \in Lags,
               Start(c, q, lag) \/ Complete(c, q, lag) \/ Progress(c, q, lag) \/ Fail(c, q, lag)
        PROVE  FALSE
    BY <2>1, <2>2 DEF Start, Complete, Progress, Fail, Accept, AfterStart, AfterComplete,
                      AfterProgress, AfterFail, ActiveCaptures
  <2>3. ~Tick
    BY <2>1 DEF Tick, Aged, ActiveCaptures
  <2>4. PICK lag \in Lags : Finalize(lag)
    BY <2>2, <2>3 DEF Next
  <2>5. TimedOut(active, lag)
    BY <2>4 DEF Finalize, MayFinalize, Ready
  <2>6. active.sinceProgress <= quiet + MaxLag
    BY <2>1 DEF Inv, ProgressAgeBounded
  <2>7. active.sinceProgress \in Nat /\ lag \in Nat /\ active.sinceProgress - lag >= Timeout
    BY <2>1, <2>5, AgesFacts DEF TimedOut, ActiveCaptures, Lags
  <2> QED  BY <2>1, <2>6, <2>7
<1> QED  BY <1>1, Invariance, PTL DEF Spec, ClosedEarlyOnlyWhenQuiet

-----------------------------------------------------------------------------
(* The refinement.  Each camera's fate in the record determines the        *)
(* abstract function at that camera, so a step is followed camera by       *)
(* camera.                                                                 *)
LEMMA FateCases ==
  ASSUME NEW c \in Cameras, ResolvedWereStarted
  PROVE  /\ FateOf(c) = "absent" <=> c \notin Started(active)
         /\ FateOf(c) = "imaged" <=> c \in active.images
         /\ c \in Started(active) /\ c \notin active.images
              => FateOf(c) \in {"started", "failed"}
BY DEF FateOf, ResolvedWereStarted, Resolved

LEMMA SameFate ==
  ASSUME NEW c \in Cameras,
         c \in active.images <=> c \in active'.images,
         c \in active.errors <=> c \in active'.errors,
         c \in Started(active) <=> c \in Started(active')
  PROVE  FateOf(c)' = FateOf(c)
BY DEF FateOf, Resolved

LEMMA FatesChangeAt ==
  ASSUME NEW c \in Cameras, NEW v, FateOf(c)' = v,
         \A d \in Cameras \ {c} : FateOf(d)' = FateOf(d)
  PROVE  [d \in Cameras |-> FateOf(d)]' = [[d \in Cameras |-> FateOf(d)] EXCEPT ![c] = v]
<1>1. \A d \in Cameras : FateOf(d)' = IF d = c THEN v ELSE FateOf(d)
  OBVIOUS
<1> QED  BY <1>1

LEMMA OutcomesKept ==
  ASSUME UNCHANGED result
  PROVE  [c \in Cameras |-> OutcomeOf(c)]' = [c \in Cameras |-> OutcomeOf(c)]
<1>1. \A c \in Cameras : OutcomeOf(c)' = OutcomeOf(c)
  BY DEF OutcomeOf
<1> QED  BY <1>1

LEMMA InitRefines == Init => Sets!Init
<1> SUFFICES ASSUME Init PROVE Sets!Init
  OBVIOUS
<1>1. \A c \in Cameras : FateOf(c) = "absent"
  BY IdleType DEF Init, FateOf, Idle, Resolved
<1>2. \A c \in Cameras : OutcomeOf(c) = "none"
  BY DEF Init, OutcomeOf, NoResult, Completed, Idle
<1> QED  BY <1>1, <1>2 DEF Sets!Init

LEMMA StartRefines ==
  ASSUME Inv, NEW c \in Cameras, NEW q \in Txs, NEW lag \in Lags, Start(c, q, lag)
  PROVE  Sets!Next \/ UNCHANGED <<[d \in Cameras |-> FateOf(d)], [d \in Cameras |-> OutcomeOf(d)]>>
<1>1. active \in ActiveCaptures(Txs) /\ q # NoTx
  BY DEF Inv, TypeOK
<1>2. UNCHANGED result /\ active' = AfterStart(active, c, q, lag)
  BY DEF Start, Accept
<1>3. active.open \/ active = Idle
  BY DEF Inv, IdleWhenClosed
<1>4. /\ active'.images = active.images /\ active'.errors = active.errors
      /\ active'.tx = [active.tx EXCEPT ![c] = q]
  BY <1>1, <1>2, <1>3 DEF AfterStart, ActiveCaptures, Idle
<1>5. \A d \in Cameras \ {c} : FateOf(d)' = FateOf(d)
  <2> SUFFICES ASSUME NEW d \in Cameras \ {c} PROVE FateOf(d)' = FateOf(d)
    OBVIOUS
  <2>1. d \in Started(active) <=> d \in Started(active')
    BY <1>1, <1>4 DEF Started, ActiveCaptures
  <2> QED  BY <1>4, <2>1, SameFate
<1>6. CASE c \in Started(active)
  <2>1. active'.tx[c] = q /\ active.tx[c] # NoTx
    BY <1>1, <1>4, <1>6 DEF Started, ActiveCaptures
  <2>2. c \in Started(active')
    BY <1>1, <2>1 DEF Started
  <2>3. FateOf(c)' = FateOf(c)
    BY <1>4, <1>6, <2>2, SameFate
  <2>4. \A d \in Cameras : FateOf(d)' = FateOf(d)
    BY <1>5, <2>3
  <2> QED  BY <1>2, <2>4, OutcomesKept
<1>7. CASE c \notin Started(active)
  <2>1. FateOf(c) = "absent" /\ c \notin Resolved(active)
    BY <1>7, FateCases DEF Inv, ResolvedWereStarted
  <2>2. c \in Started(active')
    BY <1>1, <1>4 DEF Started, ActiveCaptures
  <2>3. FateOf(c)' = "started"
    BY <1>4, <2>1, <2>2 DEF FateOf, Resolved
  <2>4. Sets!Announce(c)
    BY <1>2, <1>5, <2>1, <2>3, FatesChangeAt, OutcomesKept DEF Sets!Announce
  <2> QED  BY <2>4 DEF Sets!Next
<1> QED  BY <1>6, <1>7

LEMMA ReportRefines ==
  ASSUME Inv, NEW c \in Cameras, NEW q \in Txs, NEW lag \in Lags,
         Complete(c, q, lag) \/ Progress(c, q, lag) \/ Fail(c, q, lag)
  PROVE  Sets!Next \/ UNCHANGED <<[d \in Cameras |-> FateOf(d)], [d \in Cameras |-> OutcomeOf(d)]>>
<1>1. active \in ActiveCaptures(Txs) /\ q # NoTx
  BY DEF Inv, TypeOK
<1>2. active.open /\ active.tx[c] = q /\ UNCHANGED result
  BY DEF Complete, Progress, Fail, CompleteAccepted, ProgressAccepted, FailAccepted, Matching,
         Accept
<1>3. c \in Started(active)
  BY <1>1, <1>2 DEF Started
<1>4. CASE Progress(c, q, lag)
  <2>1. /\ active'.images = active.images /\ active'.errors = active.errors
        /\ active'.tx = active.tx
    BY <1>1, <1>4 DEF Progress, Accept, AfterProgress, ActiveCaptures
  <2>2. \A d \in Cameras : FateOf(d)' = FateOf(d)
    BY <2>1, SameFate DEF Started
  <2> QED  BY <1>2, <2>2, OutcomesKept
<1>5. CASE Complete(c, q, lag)
  <2>1. /\ active'.images = active.images \cup {c} /\ active'.errors = active.errors
        /\ active'.tx = active.tx /\ c \notin active.images
    BY <1>1, <1>5 DEF Complete, Accept, AfterComplete, CompleteAccepted, ActiveCaptures
  <2>2. \A d \in Cameras \ {c} : FateOf(d)' = FateOf(d)
    BY <2>1, SameFate DEF Started
  <2>3. FateOf(c)' = "imaged"
    BY <2>1 DEF FateOf, Resolved
  <2>4. FateOf(c) \in {"started", "failed"}
    BY <1>3, <2>1, FateCases DEF Inv
  <2>5. Sets!Report(c, "imaged")
    BY <1>2, <2>2, <2>3, <2>4, FatesChangeAt, OutcomesKept DEF Sets!Report
  <2> QED  BY <2>5 DEF Sets!Next
<1>6. CASE Fail(c, q, lag)
  <2>1. /\ active'.images = active.images /\ active'.errors = active.errors \cup {c}
        /\ active'.tx = active.tx /\ c \notin active.images
    BY <1>1, <1>6 DEF Fail, Accept, AfterFail, FailAccepted, ActiveCaptures
  <2>2. \A d \in Cameras \ {c} : FateOf(d)' = FateOf(d)
    BY <2>1, SameFate DEF Started
  <2>3. FateOf(c)' = "failed"
    BY <2>1 DEF FateOf, Resolved
  <2>4. FateOf(c) \in {"started", "failed"}
    BY <1>3, <2>1, FateCases DEF Inv
  <2>5. Sets!Report(c, "failed")
    BY <1>2, <2>2, <2>3, <2>4, FatesChangeAt, OutcomesKept DEF Sets!Report
  <2> QED  BY <2>5 DEF Sets!Next
<1> QED  BY <1>4, <1>5, <1>6

LEMMA TickRefines ==
  ASSUME Inv, Tick
  PROVE  UNCHANGED <<[d \in Cameras |-> FateOf(d)], [d \in Cameras |-> OutcomeOf(d)]>>
<1>1. /\ active'.images = active.images /\ active'.errors = active.errors
      /\ active'.tx = active.tx /\ UNCHANGED result
  BY DEF Inv, TypeOK, Tick, Aged, ActiveCaptures
<1>2. \A d \in Cameras : FateOf(d)' = FateOf(d)
  BY <1>1, SameFate DEF Started
<1> QED  BY <1>1, <1>2, OutcomesKept

LEMMA FinalizeRefines ==
  ASSUME Inv, NEW lag \in Lags, Finalize(lag)
  PROVE  Sets!Close
<1>1. active.open /\ active' = Idle /\ result' = Completed(active)
  BY DEF Finalize, MayFinalize, Ready, TimedOut
<1>2. \E c \in Cameras : FateOf(c) # "absent"
  <2>1. PICK c \in Cameras : c \in Started(active)
    BY <1>1 DEF Inv, OpenHasStart, Started
  <2> QED  BY <2>1, FateCases DEF Inv
<1>3. \A c \in Cameras : FateOf(c)' = "absent"
  BY <1>1, IdleType DEF FateOf, Idle, Resolved
<1>4. \A c \in Cameras :
        OutcomeOf(c)' = IF FateOf(c) = "imaged" THEN "imaged" ELSE "failed"
  <2> SUFFICES ASSUME NEW c \in Cameras
               PROVE  OutcomeOf(c)' = IF FateOf(c) = "imaged" THEN "imaged" ELSE "failed"
    OBVIOUS
  <2>1. /\ result'.images = active.images
        /\ result'.errors = active.errors \cup (Cameras \ Resolved(active))
    BY <1>1 DEF Completed
  <2>2. FateOf(c) = "imaged" <=> c \in active.images
    BY FateCases DEF Inv
  <2> QED  BY <2>1, <2>2 DEF OutcomeOf, Resolved
<1> QED  BY <1>2, <1>3, <1>4 DEF Sets!Close

(* Coordinator implements CaptureSets: initial states map to initial       *)
(* states, and every step of the code's class is a step of the promise or  *)
(* leaves it alone.                                                        *)
THEOREM Implementation == Spec => ImplementsCaptureSets
<1>1. Inv /\ [Next]_vars
        => [Sets!Next]_<<[c \in Cameras |-> FateOf(c)], [c \in Cameras |-> OutcomeOf(c)]>>
  <2> SUFFICES ASSUME Inv, [Next]_vars
               PROVE  \/ Sets!Next
                      \/ UNCHANGED <<[c \in Cameras |-> FateOf(c)], [c \in Cameras |-> OutcomeOf(c)]>>
    OBVIOUS
  <2>1. ASSUME NEW c \in Cameras, NEW q \in Txs, NEW lag \in Lags, Start(c, q, lag)
        PROVE  Sets!Next \/ UNCHANGED <<[d \in Cameras |-> FateOf(d)], [d \in Cameras |-> OutcomeOf(d)]>>
    BY <2>1, StartRefines
  <2>2. ASSUME NEW c \in Cameras, NEW q \in Txs, NEW lag \in Lags,
               Complete(c, q, lag) \/ Progress(c, q, lag) \/ Fail(c, q, lag)
        PROVE  Sets!Next \/ UNCHANGED <<[d \in Cameras |-> FateOf(d)], [d \in Cameras |-> OutcomeOf(d)]>>
    BY <2>2, ReportRefines
  <2>3. ASSUME NEW lag \in Lags, Finalize(lag)
        PROVE  Sets!Next
    BY <2>3, FinalizeRefines DEF Sets!Next
  <2>4. CASE Tick
    BY <2>4, TickRefines
  <2>5. CASE UNCHANGED vars
    <3>1. \A c \in Cameras : FateOf(c)' = FateOf(c) /\ OutcomeOf(c)' = OutcomeOf(c)
      BY <2>5 DEF vars, FateOf, OutcomeOf, Started, Resolved
    <3> QED  BY <3>1
  <2> QED  BY <2>1, <2>2, <2>3, <2>4, <2>5 DEF Next
<1> QED  BY <1>1, InitRefines, Invariance, PTL DEF Spec, ImplementsCaptureSets, Sets!Spec
=============================================================================
