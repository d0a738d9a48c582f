----------------------------- MODULE StorageProofs -----------------------------
(***************************************************************************)
(* Theorems about Storage, for any drives, any order of preference and any *)
(* number of threads that resolve at the same time.                        *)
(***************************************************************************)
EXTENDS Storage, TLAPS

-----------------------------------------------------------------------------
(* A drive that a call can be sure of is in its port and writable.  If it  *)
(* has been listed it is still mounted and yet to be tried.  The           *)
(* automounter has mounted it or has yet to come to it, and afterwards it  *)
(* has been listed.  p, m and w: the drives that are        *)
(* plugged in, mounted and writable.                                       *)
SureOf(c, p, m, w) ==
  /\ c.sure \subseteq p \cap w
  /\ c.at = "mount" => c.sure \subseteq m \cup c.todo
  /\ c.again /\ c.at = "list" => c.sure \subseteq m
  /\ c.at = "try" =>
       /\ c.sure \cap c.listed \subseteq m \cap c.todo
       /\ c.again => c.sure \subseteq c.listed
  /\ c.at = "set mount" => \A d \in c.sure \cap c.listed : ~Before(d, c.drive)
  /\ c.at = "clear mount" => c.sure = {}

SureInv == TypeOK /\ \A t \in Threads : SureOf(call[t], plugged, mounted, writable)

(* Preference is a strict order.                                           *)
LEMMA BeforeIsStrict ==
  ASSUME NEW d \in Drives, NEW e \in Drives
  PROVE  ~Before(d, d) /\ (Before(d, e) => ~Before(e, d))
<1>1. Path[d] \in Nat /\ Path[e] \in Nat
  BY StorageAssumption
<1> QED  BY <1>1 DEF Before

-----------------------------------------------------------------------------
LEMMA RestingIsACall == Resting \in Calls
BY DEF Resting, Calls, Steps

LEMMA TypeInit == Init => TypeOK
<1> SUFFICES ASSUME Init  PROVE TypeOK
  OBVIOUS
<1>1. call \in [Threads -> Calls]
  BY RestingIsACall DEF Init
<1>2. record \in [drive : Drives \cup {NoDrive}, mount : Drives \cup {NoDrive},
                  root : Drives \cup {NoDrive}]
  BY DEF Init, Nothing
<1> QED  BY <1>1, <1>2 DEF Init, TypeOK, Calls

LEMMA ToCalls ==
  ASSUME TypeOK, NEW t \in Threads, NEW c \in Calls, To(t, c)
  PROVE  /\ call' \in [Threads -> Calls]
         /\ call'[t] = c
         /\ \A u \in Threads \ {t} : call'[u] = call[u]
BY DEF TypeOK, Calls, To

LEMMA UnsureCalls ==
  ASSUME TypeOK, NEW d \in Drives, call' = Unsure(d)
  PROVE  /\ call' \in [Threads -> Calls]
         /\ \A u \in Threads : call'[u] = [call[u] EXCEPT !.sure = @ \ {d}]
<1>1. \A u \in Threads : call[u] \in Calls
  BY DEF TypeOK, Calls
<1>2. ASSUME NEW u \in Threads  PROVE [call[u] EXCEPT !.sure = @ \ {d}] \in Calls
  BY <1>1 DEF Calls
<1> QED  BY <1>2 DEF Unsure

(* A step of a thread leaves a call of the right type, and the others to   *)
(* themselves.                                                             *)
LEMMA StepCalls ==
  ASSUME TypeOK, NEW t \in Threads, Step(t)
  PROVE  /\ call' \in [Threads -> Calls]
         /\ \A u \in Threads \ {t} : call'[u] = call[u]
<1>0. call[t] \in Calls
  BY DEF TypeOK, Calls
<1>1. Resting \in Calls
  BY RestingIsACall
<1>2. ASSUME NEW c \in Calls, To(t, c)
      PROVE  call' \in [Threads -> Calls] /\ \A u \in Threads \ {t} : call'[u] = call[u]
  BY <1>2, ToCalls
<1>3. CASE Begin(t)
  <2>1. [Resting EXCEPT !.at = "list", !.sure = plugged \cap writable] \in Calls
    BY DEF TypeOK, Resting, Calls, Steps
  <2> QED  BY <1>2, <1>3, <2>1 DEF Begin
<1>4. CASE List(t)
  <2>1. [call[t] EXCEPT !.at = "try", !.listed = Usable, !.todo = Usable] \in Calls
    BY <1>0 DEF TypeOK, Calls, Steps, Usable
  <2> QED  BY <1>2, <1>4, <2>1 DEF List
<1>5. CASE Try(t)
  <2>1. PICK d \in call[t].todo :
          \/ To(t, [call[t] EXCEPT !.at = "set mount", !.drive = d])
          \/ To(t, [call[t] EXCEPT !.todo = Rest(@, d)])
    BY <1>5 DEF Try
  <2>2. [call[t] EXCEPT !.at = "set mount", !.drive = d] \in Calls
    BY <1>0 DEF Calls, Steps
  <2>3. [call[t] EXCEPT !.todo = Rest(@, d)] \in Calls
    BY <1>0 DEF Calls, Rest
  <2> QED  BY <1>2, <2>1, <2>2, <2>3
<1>6. CASE NoneLeft(t)
  <2>1. [call[t] EXCEPT !.at = AfterNone(call[t])] \in Calls
    BY <1>0, ZenonT(40) DEF Calls, Steps, AfterNone
  <2> QED  BY <1>2, <1>6, <2>1 DEF NoneLeft
<1>7. CASE Ask(t) \/ Asked(t)
  <2>1. [call[t] EXCEPT !.at = "mount", !.todo = Devices] \in Calls
    BY <1>0 DEF Calls, Steps, Devices, TypeOK
  <2>2. [call[t] EXCEPT !.at = "list", !.again = TRUE] \in Calls
    BY <1>0 DEF Calls, Steps
  <2> QED  BY <1>2, <1>7, <2>1, <2>2 DEF Ask, Asked
<1>8. CASE Mount(t)
  <2>1. PICK d \in call[t].todo :
          To(t, [call[t] EXCEPT !.todo = @ \ {d}, !.sure = @ \ ({d} \ mounted')])
    BY <1>8 DEF Mount
  <2>2. [call[t] EXCEPT !.todo = @ \ {d}, !.sure = @ \ ({d} \ mounted')] \in Calls
    BY <1>0 DEF Calls
  <2> QED  BY <1>2, <2>1, <2>2
<1>9. CASE SetMount(t) \/ SetRoot(t)
  <2>0. call[t].drive \in Drives
    BY <1>0, <1>9 DEF SetMount, SetRoot, Calls
  <2>1. [Resting EXCEPT !.at = "set root", !.drive = call[t].drive] \in Calls
    BY <2>0 DEF Resting, Calls, Steps
  <2>2. [call[t] EXCEPT !.at = "got"] \in Calls
    BY <1>0, <2>0 DEF Calls, Steps
  <2> QED  BY <1>2, <1>9, <2>1, <2>2 DEF SetMount, SetRoot
<1>10. CASE ClearMount(t) \/ ClearRoot(t)
  <2>1. [Resting EXCEPT !.at = "clear root"] \in Calls
    BY DEF Resting, Calls, Steps
  <2>2. [call[t] EXCEPT !.at = "raised"] \in Calls
    BY <1>0 DEF Calls, Steps
  <2> QED  BY <1>2, <1>10, <2>1, <2>2 DEF ClearMount, ClearRoot
<1>11. CASE Leave(t)
  BY <1>1, <1>2, <1>11 DEF Leave
<1>12. CASE t = Committer /\ (CheckActive \/ Describe)
  <2>1. /\ [Resting EXCEPT !.at = "committed"] \in Calls
        /\ [Resting EXCEPT !.at = "raised"] \in Calls
    BY DEF Resting, Calls, Steps
  <2>2. CheckActive => [call[t] EXCEPT !.at = "describe"] \in Calls
    BY <1>0, <1>12 DEF CheckActive, Calls, Steps
  <2> QED  BY <1>2, <1>12, <2>1, <2>2 DEF CheckActive, Describe, Commit
<1> QED
  BY <1>3, <1>4, <1>5, <1>6, <1>7, <1>8, <1>9, <1>10, <1>11, <1>12
     DEF Step, Resolve

-----------------------------------------------------------------------------
(* Every step keeps the types.                                             *)
LEMMA TypeStep == TypeOK /\ [Next]_vars => TypeOK'
<1> SUFFICES ASSUME TypeOK, [Next]_vars  PROVE TypeOK'
  OBVIOUS
<1>1. CASE \E d \in Drives : Plug(d)
  BY <1>1 DEF Plug, TypeOK, active
<1>2. CASE \E d \in Drives : Pull(d) \/ Fail(d)
  <2>1. PICK d \in Drives : Pull(d) \/ Fail(d)
    BY <1>2
  <2>2. call' \in [Threads -> Calls]
    BY <2>1, UnsureCalls DEF Pull, Fail
  <2> QED  BY <2>1, <2>2 DEF Pull, Fail, TypeOK, active
<1>3. CASE \E t \in Threads : Step(t)
  <2>1. PICK t \in Threads : Step(t)
    BY <1>3
  <2>2. call' \in [Threads -> Calls]
    BY <2>1, StepCalls
  <2>3. {call[t].drive, call[Committer].drive} \subseteq Drives \cup {NoDrive}
    <3>1. call[t] \in Calls /\ call[Committer] \in Calls
      BY DEF TypeOK, Threads
    <3> QED  BY <3>1 DEF Calls
  <2>4. plugged' \subseteq Drives /\ mounted' \subseteq plugged' /\ writable' \subseteq plugged'
    <3>1. UNCHANGED <<plugged, writable>> /\ mounted' \subseteq mounted \cup plugged
      BY <2>1 DEF Step, Resolve, Begin, List, Try, NoneLeft, Ask, Mount, Asked, SetMount, SetRoot,
                  ClearMount, ClearRoot, Leave, CheckActive, Describe, Commit, drives
    <3> QED  BY <3>1 DEF TypeOK
  <2>5. {activeMount', activeRoot'} \subseteq Drives \cup {NoDrive}
    <3>1. \/ UNCHANGED active
          \/ activeMount' \in {activeMount, call[t].drive, NoDrive}
             /\ activeRoot' \in {activeRoot, call[t].drive, NoDrive}
      BY <2>1 DEF Step, Resolve, Begin, List, Try, NoneLeft, Ask, Mount, Asked, SetMount, SetRoot,
                  ClearMount, ClearRoot, Leave, CheckActive, Describe, Commit
    <3> QED  BY <3>1, <2>3 DEF TypeOK, active
  <2>6. record' \in [drive : Drives \cup {NoDrive}, mount : Drives \cup {NoDrive},
                     root : Drives \cup {NoDrive}]
    <3>1. CASE UNCHANGED record
      BY <3>1 DEF TypeOK
    <3>2. CASE record' # record
      <4>1. Leave(t) \/ CheckActive \/ Describe
        BY <2>1, <3>2 DEF Step, Resolve, Begin, List, Try, NoneLeft, Ask, Mount, Asked, SetMount,
                          SetRoot, ClearMount, ClearRoot
      <4> QED  BY <4>1, <2>3 DEF Leave, CheckActive, Describe, Commit, Nothing, TypeOK
    <3> QED  BY <3>1, <3>2
  <2>7. fresh' \subseteq Threads
    BY <2>1 DEF Step, Resolve, Begin, List, Try, NoneLeft, Ask, Mount, Asked, SetMount, SetRoot,
                ClearMount, ClearRoot, Leave, CheckActive, Describe, Commit, drives, TypeOK
  <2> QED  BY <2>2, <2>4, <2>5, <2>6, <2>7 DEF TypeOK
<1>4. CASE UNCHANGED vars
  BY <1>4 DEF vars, drives, active, TypeOK
<1> QED  BY <1>1, <1>2, <1>3, <1>4 DEF Next

(* Every variable keeps its type.                                          *)
THEOREM StorageTypes == Spec => []TypeOK
BY TypeInit, TypeStep, PTL DEF Spec

-----------------------------------------------------------------------------
LEMMA RestingIsSure == \A p, m, w : SureOf(Resting, p, m, w)
BY DEF SureOf, Resting

LEMMA SureInit == Init => SureInv
<1>1. Init => \A t \in Threads : SureOf(call[t], plugged, mounted, writable)
  BY RestingIsSure DEF Init
<1> QED  BY <1>1, TypeInit DEF SureInv

(* A drive of the list that is of no use is none to be sure of.            *)
LEMMA SureOfTry ==
  ASSUME SureInv, NEW t \in Threads, Try(t)
  PROVE  SureOf(call'[t], plugged, mounted, writable)
<1>0. call[t] \in Calls /\ SureOf(call[t], plugged, mounted, writable)
  BY DEF SureInv, TypeOK, Calls
<1>1. PICK d \in call[t].todo :
        /\ IsFirst(d, call[t].todo)
        /\ IF d \in Usable
             THEN To(t, [call[t] EXCEPT !.at = "set mount", !.drive = d])
             ELSE To(t, [call[t] EXCEPT !.todo = Rest(@, d)])
  BY DEF Try
<1>2. call[t].at = "try" /\ call[t].sure \cap call[t].listed \subseteq Usable \cap call[t].todo
  BY <1>0 DEF Try, SureOf, Usable
<1>3. CASE d \in Usable
  <2> DEFINE found == [call[t] EXCEPT !.at = "set mount", !.drive = d]
  <2>1. found \in Calls /\ call'[t] = found
    BY <1>0, <1>1, <1>3 DEF Calls, Steps, To, SureInv, TypeOK
  <2>2. ASSUME NEW e \in call[t].sure \cap call[t].listed  PROVE ~Before(e, d)
    <3>1. e \in call[t].todo /\ e \in Drives /\ d \in Drives
      BY <1>0, <1>2 DEF Calls
    <3> QED  BY <1>1, <3>1, BeforeIsStrict DEF IsFirst
  <2>3. found.at = "set mount" /\ found.drive = d /\ found.sure = call[t].sure
        /\ found.listed = call[t].listed
    BY <1>0 DEF Calls
  <2> QED  BY <1>0, <2>1, <2>2, <2>3 DEF SureOf
<1>4. CASE d \notin Usable
  <2>1. call'[t] = [call[t] EXCEPT !.todo = @ \ {d}]
    BY <1>0, <1>1, <1>4 DEF To, SureInv, TypeOK, Rest
  <2> QED  BY <1>0, <1>2, <1>4, <2>1 DEF SureOf, Calls, Usable
<1> QED  BY <1>3, <1>4

(* What a step of its own leaves a call to be sure of.                     *)
LEMMA SureOfStep ==
  ASSUME SureInv, NEW t \in Threads, Step(t)
  PROVE  SureOf(call'[t], plugged', mounted', writable')
<1>0. call[t] \in Calls /\ SureOf(call[t], plugged, mounted, writable)
  BY DEF SureInv, TypeOK, Calls
<1>1. \A c : To(t, c) => call'[t] = c
  BY DEF SureInv, TypeOK, To
<1>2. \A p, m, w : SureOf(Resting, p, m, w)
  BY RestingIsSure
<1>3. CASE Begin(t)
  BY <1>1, <1>3 DEF Begin, SureOf, Resting, drives
<1>4. CASE List(t)
  <2>1. call'[t] = [call[t] EXCEPT !.at = "try", !.listed = Usable, !.todo = Usable]
    BY <1>1, <1>4 DEF List
  <2> QED  BY <1>0, <1>4, <2>1, ZenonT(40) DEF List, SureOf, Calls, Usable, drives
<1>5. CASE Try(t)
  BY <1>5, SureOfTry DEF Try, drives
<1>6. CASE NoneLeft(t)
  <2>1. call'[t] = [call[t] EXCEPT !.at = AfterNone(call[t])]
    BY <1>1, <1>6 DEF NoneLeft
  <2>2. call[t].again => call[t].sure = {}
    BY <1>0, <1>6 DEF NoneLeft, SureOf
  <2> QED  BY <1>0, <1>6, <2>1, <2>2 DEF NoneLeft, AfterNone, SureOf, Calls, drives
<1>7. CASE Ask(t)
  <2>1. call'[t] = [call[t] EXCEPT !.at = "mount", !.todo = Devices]
    BY <1>1, <1>7 DEF Ask
  <2> QED  BY <1>0, <1>7, <2>1 DEF Ask, SureOf, Calls, Devices, drives
<1>8. CASE Mount(t)
  <2>1. PICK d \in call[t].todo :
          /\ mounted' \in {mounted, mounted \cup ({d} \cap plugged)}
          /\ call'[t] = [call[t] EXCEPT !.todo = @ \ {d}, !.sure = @ \ ({d} \ mounted')]
    BY <1>1, <1>8 DEF Mount
  <2>2. /\ call'[t].at = "mount" /\ call'[t].todo = call[t].todo \ {d}
        /\ call'[t].sure = call[t].sure \ ({d} \ mounted')
    BY <1>0, <1>8, <2>1 DEF Mount, Calls
  <2>3. call[t].sure \subseteq plugged \cap writable /\ call[t].sure \subseteq mounted \cup call[t].todo
    BY <1>0, <1>8 DEF Mount, SureOf
  <2>4. UNCHANGED <<plugged, writable>> /\ mounted \subseteq mounted'
    BY <1>8, <2>1 DEF Mount
  <2> QED  BY <2>2, <2>3, <2>4 DEF SureOf
<1>9. CASE Asked(t)
  <2>1. call'[t] = [call[t] EXCEPT !.at = "list", !.again = TRUE]
    BY <1>1, <1>9 DEF Asked
  <2> QED  BY <1>0, <1>9, <2>1 DEF Asked, SureOf, Calls, drives
<1>10. CASE SetRoot(t)
  <2>1. call'[t] = [call[t] EXCEPT !.at = "got"]
    BY <1>1, <1>10 DEF SetRoot
  <2> QED  BY <1>0, <1>10, <2>1 DEF SetRoot, SureOf, Calls, drives
<1>11. CASE ClearRoot(t)
  <2>1. call'[t] = [call[t] EXCEPT !.at = "raised"]
    BY <1>1, <1>11 DEF ClearRoot
  <2> QED  BY <1>0, <1>11, <2>1 DEF ClearRoot, SureOf, Calls, drives
<1>12. CASE SetMount(t) \/ ClearMount(t) \/ Leave(t)
  <2>1. \/ call'[t] = Resting
        \/ call'[t] = [Resting EXCEPT !.at = "set root", !.drive = call[t].drive]
        \/ call'[t] = [Resting EXCEPT !.at = "clear root"]
    BY <1>1, <1>12 DEF SetMount, ClearMount, Leave
  <2> QED  BY <1>2, <2>1, ZenonT(40) DEF SureOf, Resting
<1>13. CASE t = Committer /\ (CheckActive \/ Describe)
  <2>1. \/ call'[t] = [Resting EXCEPT !.at = "committed"]
        \/ call'[t] = [Resting EXCEPT !.at = "raised"]
        \/ call[t].at = "got" /\ call'[t] = [call[t] EXCEPT !.at = "describe"]
    BY <1>1, <1>13 DEF CheckActive, Describe, Commit
  <2>2. UNCHANGED drives
    BY <1>13 DEF CheckActive, Describe, Commit
  <2> QED  BY <1>0, <2>1, <2>2 DEF SureOf, Calls, Resting, drives
<1> QED
  BY <1>3, <1>4, <1>5, <1>6, <1>7, <1>8, <1>9, <1>10, <1>11, <1>12, <1>13
     DEF Step, Resolve

LEMMA SureStep == SureInv /\ [Next]_vars => SureInv'
<1> SUFFICES ASSUME SureInv, [Next]_vars
             PROVE  \A u \in Threads : SureOf(call'[u], plugged', mounted', writable')
  BY TypeStep DEF SureInv
<1> TAKE u \in Threads
<1>0. call[u] \in Calls /\ SureOf(call[u], plugged, mounted, writable) /\ TypeOK
  BY DEF SureInv, TypeOK, Calls
<1>1. CASE UNCHANGED call /\ plugged \subseteq plugged' /\ mounted \subseteq mounted'
           /\ writable \subseteq writable'
  BY <1>0, <1>1 DEF SureOf, Calls
<1>2. CASE UNCHANGED vars
  BY <1>1, <1>2 DEF vars, drives
<1>3. CASE \E d \in Drives : Plug(d)
  BY <1>1, <1>3 DEF Plug
<1>4. CASE \E d \in Drives : Pull(d) \/ Fail(d)
  <2>1. PICK d \in Drives : Pull(d) \/ Fail(d)
    BY <1>4
  <2>2. call'[u] = [call[u] EXCEPT !.sure = @ \ {d}]
    BY <1>0, <2>1, UnsureCalls DEF Pull, Fail
  <2>3. plugged \ {d} \subseteq plugged' /\ mounted \ {d} \subseteq mounted'
        /\ writable \ {d} \subseteq writable'
    BY <2>1 DEF Pull, Fail
  <2>4. /\ call'[u].sure = call[u].sure \ {d}
        /\ call'[u].at = call[u].at /\ call'[u].again = call[u].again
        /\ call'[u].listed = call[u].listed /\ call'[u].todo = call[u].todo
        /\ call'[u].drive = call[u].drive
    BY <1>0, <2>2 DEF Calls
  <2> QED  BY <1>0, <2>3, <2>4 DEF SureOf
<1>5. CASE \E t \in Threads : Step(t)
  <2>1. PICK t \in Threads : Step(t)
    BY <1>5
  <2>2. CASE u = t
    BY <2>1, <2>2, SureOfStep
  <2>3. CASE u # t
    <3>1. call'[u] = call[u]
      BY <1>0, <2>1, <2>3, StepCalls
    <3>2. plugged \subseteq plugged' /\ mounted \subseteq mounted' /\ writable \subseteq writable'
      BY <2>1 DEF Step, Resolve, Begin, List, Try, NoneLeft, Ask, Mount, Asked, SetMount, SetRoot,
                  ClearMount, ClearRoot, Leave, CheckActive, Describe, Commit, drives
    <3> QED  BY <1>0, <3>1, <3>2 DEF SureOf, Calls
  <2> QED  BY <2>2, <2>3
<1> QED  BY <1>2, <1>3, <1>4, <1>5 DEF Next

(* resolve() gives up only when no drive was in its port, writable and not *)
(* declined by the automounter all through the call, whatever the other    *)
(* threads mount, select and clear in the meantime.                        *)
THEOREM GivesUpOnlyWithoutDrive == Spec => []RaisesOnlyWithoutDrive
<1>1. SureInv => RaisesOnlyWithoutDrive
  BY DEF SureInv, SureOf, RaisesOnlyWithoutDrive
<1> QED  BY <1>1, SureInit, SureStep, PTL DEF Spec

(* Of the mounts that resolve() has listed it takes the first in the order *)
(* of _ordered_mounts() that stays usable.                                 *)
THEOREM PreferenceKept == Spec => []PreferredWins
<1>1. SureInv => PreferredWins
  BY DEF SureInv, SureOf, PreferredWins
<1> QED  BY <1>1, SureInit, SureStep, PTL DEF Spec

-----------------------------------------------------------------------------
(* A call that began after the drives changed last has found no drive, or  *)
(* the first one of those that are of use.                                 *)
FreshOf(c, usable) ==
  /\ c.at = "try" => c.todo = usable
  /\ c.at \in {"ask", "mount", "clear mount", "clear root"} => usable = {}
  /\ c.at \in {"set mount", "set root", "got", "describe"} => IsFirst(c.drive, usable)

(* If the committer is such a call, so are all others, and none of them    *)
(* sets the active drive to another than its own.                          *)
ActiveIsMine ==
  /\ \A u \in Threads : Running(u) => u \in fresh
  /\ call[Committer].at \in {"set root", "got", "describe"} => activeMount = call[Committer].drive
  /\ call[Committer].at \in {"got", "describe"} => activeRoot = call[Committer].drive

FreshInv ==
  /\ TypeOK
  /\ \A t \in fresh : FreshOf(call[t], Usable)
  /\ Committer \in fresh => ActiveIsMine
  /\ call[Committer].at # "committed" => record.drive = NoDrive
  /\ ManifestNamesItsDrive

LEMMA FirstIsUnique ==
  ASSUME NEW S \in SUBSET Drives, NEW d, NEW e, IsFirst(d, S), IsFirst(e, S)
  PROVE  d = e
<1>1. d \in Drives /\ e \in Drives
  BY DEF IsFirst
<1>2. d # e => Before(d, e) /\ Before(e, d)
  BY DEF IsFirst
<1> QED  BY <1>1, <1>2, BeforeIsStrict

LEMMA FreshInit == Init => FreshInv
<1>1. Init => call[Committer].at # "committed" /\ record.drive = NoDrive /\ fresh = {}
  BY DEF Init, Threads, Resting, Nothing
<1> QED  BY <1>1, TypeInit DEF FreshInv, ManifestNamesItsDrive

(* A step of a thread leaves the drives alone, or no call is fresh.        *)
LEMMA FreshAfterStep ==
  ASSUME NEW t \in Threads, Step(t)
  PROVE  \/ fresh' = {} /\ Mount(t)
         \/ UNCHANGED <<plugged, mounted, writable>> /\ fresh' \subseteq fresh \cup {t}
            /\ (fresh' = fresh \/ Begin(t))
BY DEF Step, Resolve, Begin, List, Try, NoneLeft, Ask, Mount, Asked, SetMount, SetRoot,
       ClearMount, ClearRoot, Leave, CheckActive, Describe, Commit, drives

(* What a fresh call finds is the first of the drives that are of use.     *)
LEMMA FreshOfStep ==
  ASSUME FreshInv, NEW t \in Threads, Step(t), t \in fresh',
         UNCHANGED <<plugged, mounted, writable>>
  PROVE  FreshOf(call'[t], Usable)
<1>0. call[t] \in Calls /\ (~Begin(t) => FreshOf(call[t], Usable))
  <2>1. call[t] \in Calls
    BY DEF FreshInv, TypeOK
  <2>2. ~Begin(t) => t \in fresh
    BY FreshAfterStep
  <2> QED  BY <2>1, <2>2 DEF FreshInv
<1>1. \A c : To(t, c) => call'[t] = c
  BY DEF FreshInv, TypeOK, To
<1>2. CASE Begin(t) \/ Leave(t)
  <2>1. Leave(t) => call'[t] = Resting
    BY <1>1 DEF Leave
  <2>2. Begin(t) => call'[t].at = "list"
    BY <1>1 DEF Begin, Resting
  <2>3. call'[t].at \in {"list", "idle"}
    BY <1>2, <2>1, <2>2 DEF Resting
  <2> QED  BY <2>3 DEF FreshOf
<1>3. CASE List(t)
  <2>1. call'[t].at = "try" /\ call'[t].todo = Usable
    BY <1>0, <1>1, <1>3 DEF List, Calls
  <2> QED  BY <2>1 DEF FreshOf
<1>4. CASE Try(t)
  <2>1. call[t].at = "try" /\ call[t].todo = Usable
    BY <1>0, <1>4 DEF Try, Begin, Running, FreshOf
  <2>2. PICK d \in Usable :
          IsFirst(d, Usable) /\ To(t, [call[t] EXCEPT !.at = "set mount", !.drive = d])
    BY <1>4, <2>1 DEF Try
  <2>3. call'[t].at = "set mount" /\ call'[t].drive = d
    BY <1>0, <1>1, <2>2 DEF Calls
  <2> QED  BY <2>2, <2>3 DEF FreshOf
<1>5. CASE NoneLeft(t)
  <2>1. Usable = {}
    BY <1>0, <1>5 DEF NoneLeft, Begin, Running, FreshOf
  <2>2. call'[t].at \in {"ask", "clear mount"}
    BY <1>0, <1>1, <1>5, ZenonT(40) DEF NoneLeft, AfterNone, Calls
  <2> QED  BY <2>1, <2>2 DEF FreshOf
<1>6. CASE Ask(t) \/ Mount(t)
  <2>1. Usable = {}
    BY <1>0, <1>6 DEF Ask, Mount, Begin, Running, FreshOf
  <2>2. call'[t].at = "mount"
    BY <1>0, <1>1, <1>6 DEF Ask, Mount, Calls
  <2> QED  BY <2>1, <2>2 DEF FreshOf
<1>7. CASE Asked(t)
  <2>1. call'[t].at = "list"
    BY <1>0, <1>1, <1>7 DEF Asked, Calls
  <2> QED  BY <2>1 DEF FreshOf
<1>8. CASE SetMount(t) \/ SetRoot(t)
  <2>1. IsFirst(call[t].drive, Usable)
    BY <1>0, <1>8 DEF SetMount, SetRoot, Begin, Running, FreshOf
  <2>2. call'[t].at \in {"set root", "got"} /\ call'[t].drive = call[t].drive
    BY <1>0, <1>1, <1>8 DEF SetMount, SetRoot, Calls, Resting
  <2> QED  BY <2>1, <2>2 DEF FreshOf
<1>9. CASE ClearMount(t)
  <2>1. Usable = {}
    BY <1>0, <1>9 DEF ClearMount, Begin, Running, FreshOf
  <2>2. call'[t].at = "clear root"
    BY <1>1, <1>9 DEF ClearMount, Resting
  <2> QED  BY <2>1, <2>2 DEF FreshOf
<1>10. CASE ClearRoot(t)
  <2>1. call'[t].at = "raised"
    BY <1>0, <1>1, <1>10 DEF ClearRoot, Calls
  <2> QED  BY <2>1 DEF FreshOf
<1>11. CASE t = Committer /\ (CheckActive \/ Describe)
  <2>1. IsFirst(call[t].drive, Usable)
    BY <1>0, <1>11 DEF CheckActive, Describe, Begin, Running, FreshOf
  <2>2. \/ call'[t].at \in {"committed", "raised"}
        \/ call'[t].at = "describe" /\ call'[t].drive = call[t].drive
    BY <1>0, <1>1, <1>11 DEF CheckActive, Describe, Commit, Calls, Resting
  <2> QED  BY <2>1, <2>2 DEF FreshOf
<1> QED
  BY <1>2, <1>3, <1>4, <1>5, <1>6, <1>7, <1>8, <1>9, <1>10, <1>11 DEF Step, Resolve

(* The active drive stays that of a fresh committer.                       *)
LEMMA ActiveStaysMine ==
  ASSUME FreshInv, NEW t \in Threads, Step(t), Committer \in fresh',
         UNCHANGED <<plugged, mounted, writable>>
  PROVE  ActiveIsMine'
<1>0. /\ call[t] \in Calls /\ Committer \in Threads
      /\ \A u \in Threads \ {t} : call'[u] = call[u]
  BY StepCalls DEF FreshInv, TypeOK, Threads
<1>1. \A c : To(t, c) => call'[t] = c
  BY DEF FreshInv, TypeOK, To
<1>2. CASE Begin(t)
  <2>1. call'[t].at = "list"
    BY <1>1, <1>2 DEF Begin, Resting
  <2>2. CASE t = Committer
    <3>1. \A u \in Others : Running(u) => u \in fresh
      BY <1>2, <2>2 DEF Begin
    <3>2. fresh' = fresh \cup {t}
      BY <1>2, <2>2 DEF Begin
    <3> QED  BY <1>0, <2>1, <2>2, <3>1, <3>2 DEF ActiveIsMine, Running, Threads
  <2>3. CASE t # Committer
    <3>1. fresh' = fresh \cup {t} /\ UNCHANGED active
      BY <1>2, <2>3 DEF Begin
    <3>2. Committer \in fresh /\ ActiveIsMine
      BY <2>3, <3>1 DEF FreshInv
    <3> QED  BY <1>0, <2>1, <2>3, <3>1, <3>2 DEF ActiveIsMine, Running, active
  <2> QED  BY <2>2, <2>3
<1>3. CASE ~Begin(t)
  <2>1. fresh' = fresh /\ ActiveIsMine
    BY <1>3, FreshAfterStep DEF FreshInv
  <2>2. t \in fresh /\ FreshOf(call[t], Usable)
        /\ FreshOf(call[Committer], Usable)
    <3>1. Running(t)
      BY <1>3 DEF Step, Resolve, Running, List, Try, NoneLeft, Ask, Mount, Asked, SetMount,
                  SetRoot, ClearMount, ClearRoot, Leave, CheckActive, Describe
    <3> QED  BY <2>1, <3>1 DEF ActiveIsMine, FreshInv
  <2>3. \A u \in Threads : Running(u)' => u \in fresh'
    BY <1>0, <2>1, <2>2 DEF ActiveIsMine, Running
  <2>4. Usable \in SUBSET Drives
    BY DEF FreshInv, TypeOK, Usable
  <2>5. CASE t = Committer
    <3>1. CASE SetMount(t)
      <4>1. call'[t].at = "set root" /\ call'[t].drive = call[t].drive
        BY <1>1, <3>1 DEF SetMount, Resting
      <4> QED  BY <2>3, <2>5, <3>1, <4>1 DEF ActiveIsMine, SetMount
    <3>2. CASE SetRoot(t)
      <4>1. call'[t].at = "got" /\ call'[t].drive = call[t].drive
        BY <1>0, <1>1, <3>2 DEF SetRoot, Calls
      <4> QED  BY <2>1, <2>3, <2>5, <3>2, <4>1 DEF ActiveIsMine, SetRoot
    <3>3. CASE CheckActive
      <4>1. \/ call'[t].at \in {"committed", "raised"}
            \/ call'[t].at = "describe" /\ call'[t].drive = call[t].drive
        BY <1>0, <1>1, <2>5, <3>3 DEF CheckActive, Commit, Calls, Resting
      <4> QED  BY <2>1, <2>3, <2>5, <3>3, <4>1 DEF ActiveIsMine, CheckActive, active
    <3>4. CASE ~SetMount(t) /\ ~SetRoot(t) /\ ~CheckActive
      <4>1. call'[t].at \notin {"set root", "got", "describe"}
        <5>1. CASE List(t) \/ Try(t) \/ NoneLeft(t)
          BY <1>0, <1>1, <5>1 DEF List, Try, NoneLeft, AfterNone, Calls
        <5>2. CASE Ask(t) \/ Mount(t) \/ Asked(t)
          BY <1>0, <1>1, <5>2 DEF Ask, Mount, Asked, Calls
        <5>3. CASE ClearMount(t) \/ ClearRoot(t)
          BY <1>0, <1>1, <5>3 DEF ClearMount, ClearRoot, Calls, Resting
        <5>4. CASE Leave(t)
          <6>1. call'[t] = Resting
            BY <1>1, <5>4 DEF Leave
          <6> QED  BY <6>1 DEF Resting
        <5>5. CASE Describe
          BY <1>1, <2>5, <5>5 DEF Describe, Commit, Resting
        <5> QED  BY <1>3, <3>4, <5>1, <5>2, <5>3, <5>4, <5>5 DEF Step, Resolve
      <4> QED  BY <2>3, <2>5, <4>1 DEF ActiveIsMine
    <3> QED  BY <3>1, <3>2, <3>3, <3>4
  <2>6. CASE t # Committer
    <3>1. UNCHANGED call[Committer]
      BY <1>0, <2>6
    <3>2. CASE UNCHANGED active
      BY <2>1, <2>3, <3>1, <3>2 DEF ActiveIsMine, active
    <3>3. CASE SetMount(t) \/ SetRoot(t)
      <4>1. call[Committer].at \in {"set root", "got", "describe"}
              => call[t].drive = call[Committer].drive
        BY <2>2, <2>4, <3>3, FirstIsUnique DEF FreshOf, SetMount, SetRoot
      <4> QED  BY <2>1, <2>3, <3>1, <3>3, <4>1 DEF ActiveIsMine, SetMount, SetRoot
    <3>4. CASE ClearMount(t) \/ ClearRoot(t)
      <4>1. call[Committer].at \notin {"set root", "got", "describe"}
        BY <2>2, <3>4 DEF FreshOf, ClearMount, ClearRoot, IsFirst
      <4> QED  BY <2>3, <3>1, <4>1 DEF ActiveIsMine
    <3> QED
      BY <1>3, <2>6, <3>2, <3>3, <3>4
         DEF Step, Resolve, List, Try, NoneLeft, Ask, Mount, Asked, Leave
  <2> QED  BY <2>5, <2>6
<1> QED  BY <1>2, <1>3

(* What a commit records.                                                  *)
LEMMA RecordStep ==
  ASSUME FreshInv, NEW t \in Threads, Step(t)
  PROVE  /\ call'[Committer].at # "committed" => record'.drive = NoDrive
         /\ ManifestNamesItsDrive'
<1>0. /\ call[t] \in Calls /\ Committer \in Threads
      /\ \A u \in Threads \ {t} : call'[u] = call[u]
  BY StepCalls DEF FreshInv, TypeOK, Threads
<1>1. \A c : To(t, c) => call'[t] = c
  BY DEF FreshInv, TypeOK, To
<1>2. CASE UNCHANGED record
  <2>1. ManifestNamesItsDrive'
    <3>1. CASE Begin(t)
      <4>1. t = Committer => record.drive = NoDrive
        BY <3>1 DEF Begin, Running, FreshInv
      <4>2. t # Committer => (Committer \in fresh' => Committer \in fresh)
        BY <3>1 DEF Begin
      <4> QED  BY <1>2, <4>1, <4>2 DEF ManifestNamesItsDrive, FreshInv
    <3>2. CASE ~Begin(t)
      <4>1. fresh' \subseteq fresh
        BY <3>2, FreshAfterStep
      <4> QED  BY <1>2, <4>1 DEF ManifestNamesItsDrive, FreshInv
    <3> QED  BY <3>1, <3>2
  <2>2. call'[Committer].at # "committed" => record'.drive = NoDrive
    <3>1. CASE t # Committer
      BY <1>0, <1>2, <3>1 DEF FreshInv
    <3>2. CASE t = Committer /\ call[Committer].at # "committed"
      BY <1>2, <3>2 DEF FreshInv
    <3>3. CASE t = Committer /\ call[Committer].at = "committed"
      <4>1. Leave(t)
        BY <3>3 DEF Step, Resolve, Running, Begin, List, Try, NoneLeft, Ask, Mount, Asked,
                    SetMount, SetRoot, ClearMount, ClearRoot, CheckActive, Describe
      <4> QED  BY <3>3, <4>1 DEF Leave, Nothing
    <3> QED  BY <3>1, <3>2, <3>3
  <2> QED  BY <2>1, <2>2
<1>3. CASE Leave(t) /\ t = Committer
  BY <1>3 DEF Leave, Nothing, ManifestNamesItsDrive
<1>4. CASE t = Committer /\ (CheckActive \/ Describe) /\ record' # record
  <2>1. call'[Committer].at = "committed"
    BY <1>1, <1>4 DEF CheckActive, Describe, Commit, Resting
  <2>2. fresh' = fresh /\ record'.drive = call[Committer].drive
        /\ (CheckActive => /\ NoDrive \in {activeMount, activeRoot}
                           /\ record'.mount = NoDrive /\ record'.root = NoDrive)
        /\ (Describe => record'.mount = activeMount /\ record'.root = activeRoot)
    BY <1>4 DEF CheckActive, Describe, Commit, drives
  <2>3. Committer \in fresh =>
          activeMount = call[Committer].drive /\ activeRoot = call[Committer].drive
    BY <1>4 DEF FreshInv, ActiveIsMine, CheckActive, Describe
  <2> QED  BY <1>4, <2>1, <2>2, <2>3 DEF ManifestNamesItsDrive
<1> QED
  BY <1>2, <1>3, <1>4 DEF Step, Resolve, Begin, List, Try, NoneLeft, Ask, Mount, Asked, SetMount,
                          SetRoot, ClearMount, ClearRoot, Leave

LEMMA FreshStep == FreshInv /\ [Next]_vars => FreshInv'
<1> SUFFICES ASSUME FreshInv, [Next]_vars  PROVE FreshInv'
  OBVIOUS
<1>0. TypeOK /\ TypeOK' /\ Committer \in Threads
  BY TypeStep DEF FreshInv, Threads
<1>1. CASE \E d \in Drives : Plug(d) \/ Pull(d) \/ Fail(d)
  <2>1. PICK d \in Drives : Plug(d) \/ Pull(d) \/ Fail(d)
    BY <1>1
  <2>2. fresh' = {} /\ UNCHANGED record
    BY <2>1 DEF Plug, Pull, Fail
  <2>3. call'[Committer].at = call[Committer].at
    <3>1. CASE Plug(d)
      BY <3>1 DEF Plug
    <3>2. CASE Pull(d) \/ Fail(d)
      <4>1. call'[Committer] = [call[Committer] EXCEPT !.sure = @ \ {d}]
        BY <1>0, <3>2, UnsureCalls DEF Pull, Fail
      <4> QED  BY <1>0, <4>1 DEF TypeOK, Calls
    <3> QED  BY <2>1, <3>1, <3>2
  <2> QED  BY <1>0, <2>2, <2>3 DEF FreshInv, ManifestNamesItsDrive
<1>2. CASE \E t \in Threads : Step(t)
  <2>1. PICK t \in Threads : Step(t)
    BY <1>2
  <2>2. /\ call'[Committer].at # "committed" => record'.drive = NoDrive
        /\ ManifestNamesItsDrive'
    BY <2>1, RecordStep
  <2>3. CASE fresh' = {}
    BY <1>0, <2>2, <2>3 DEF FreshInv
  <2>4. CASE UNCHANGED <<plugged, mounted, writable>> /\ fresh' \subseteq fresh \cup {t}
    <3>1. Usable' = Usable
      BY <2>4 DEF Usable
    <3>2. ASSUME NEW u \in fresh'  PROVE FreshOf(call'[u], Usable)
      <4>1. CASE u = t
        BY <2>1, <2>4, <3>2, <4>1, FreshOfStep
      <4>2. CASE u # t
        <5>1. u \in fresh /\ u \in Threads
          BY <1>0, <2>4, <3>2, <4>2 DEF TypeOK
        <5>2. call'[u] = call[u]
          BY <1>0, <2>1, <4>2, <5>1, StepCalls
        <5> QED  BY <5>1, <5>2 DEF FreshInv
      <4> QED  BY <4>1, <4>2
    <3>3. Committer \in fresh' => ActiveIsMine'
      BY <2>1, <2>4, ActiveStaysMine
    <3> QED  BY <1>0, <2>2, <3>1, <3>2, <3>3 DEF FreshInv
  <2> QED  BY <2>1, <2>3, <2>4, FreshAfterStep
<1>3. CASE UNCHANGED vars
  <2>1. UNCHANGED <<Usable, fresh, call, record, active>>
    BY <1>3 DEF vars, drives, Usable
  <2> QED
    BY <1>0, <2>1 DEF FreshInv, ActiveIsMine, Running, ManifestNamesItsDrive, active
<1> QED  BY <1>1, <1>2, <1>3 DEF Next

(* While the drives stay as they are, calls that run at the same time      *)
(* choose the same, so that the manifest of a set names its drive although *)
(* active_mount and active_root are shared without a lock.                 *)
THEOREM SharedSelectionIsHarmless == Spec => []ManifestNamesItsDrive
<1>1. FreshInv => ManifestNamesItsDrive
  BY DEF FreshInv
<1> QED  BY <1>1, FreshInit, FreshStep, PTL DEF Spec
=============================================================================
