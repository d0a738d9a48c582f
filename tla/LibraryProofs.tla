---------------------------- MODULE LibraryProofs ----------------------------
(***************************************************************************)
(* Theorems about Library, for any drives, any number of sets and captures *)
(* and requests, and any order of the threads.                             *)
(***************************************************************************)
EXTENDS Library, FiniteSetTheorems, SequenceTheorems, WellFoundedInduction, TLAPS

-----------------------------------------------------------------------------
(* The inductive invariants.                                               *)

(* The deleter works on a set that was agreed to: the request carries the  *)
(* set of the dialog, and the worker takes no other request meanwhile.     *)
WorkerShape(w) ==
  w = [at |-> w.at, set |-> w.set, drive |-> w.drive, todo |-> w.todo, found |-> w.found]

DeletionInv ==
  /\ sets \in Nat
  /\ DeletesOnlyConfirmed
  /\ WorkerShape(deleter)
  /\ deleter.at = "start" => deleter.set \in agreed

(* Only a set that is stored is decoded, and no set has the number NoSet.  *)
FramesInv ==
  /\ sets \in Nat
  /\ stored \subseteq 1..sets
  /\ opened \in Seq(Nat)
  /\ route \in Pages
  /\ route = "review" => frames = ui.image /\ ui.image # NoReview
  /\ ViewerIsNotEmpty

USE LibraryAssumption

-----------------------------------------------------------------------------
LEMMA DeletionInit == Init => DeletionInv
BY DEF Init, DeletionInv, DeletesOnlyConfirmed, WorkerShape, Resting

LEMMA DeletionStep == DeletionInv /\ [Next]_vars => DeletionInv'
<1> SUFFICES ASSUME DeletionInv, [Next]_vars PROVE DeletionInv'
  OBVIOUS
<1> USE DEF DeletionInv, DeletesOnlyConfirmed, WorkerShape
<1>1. CASE UNCHANGED <<sets, stored, agreed, deleter>>
  BY <1>1
<1>2. CASE EndCapture
  <2>1. CASE Resolved = NoDrive
    BY <1>2, <2>1 DEF EndCapture, workers, observed
  <2>2. CASE Resolved # NoDrive
    <3>1. /\ sets' = sets + 1 /\ stored' = stored \cup {sets + 1}
          /\ UNCHANGED <<agreed, deleter>>
      BY <1>2, <2>2 DEF EndCapture, workers, observed
    <3> QED  BY <3>1
  <2> QED  BY <2>1, <2>2
<1>3. CASE RemoveSet
  <2>1. UNCHANGED <<sets, agreed>> /\ deleter.at = "start"
    BY <1>3 DEF RemoveSet, receiver, observed
  <2>2. \/ stored' = stored \/ stored' = stored \ {deleter.set}
    BY <1>3 DEF RemoveSet
  <2>3. \/ deleter' = [deleter EXCEPT !.at = "end"]
        \/ deleter' = [deleter EXCEPT !.at = "read", !.todo = OnDrive(deleter.drive) \ {deleter.set}]
    BY <1>3 DEF RemoveSet
  <2>4. WorkerShape(deleter)' /\ deleter'.at # "start"
    BY <2>3
  <2> QED  BY <2>1, <2>2, <2>4
<1>4. CASE DeleterReads
  <2>1. UNCHANGED <<sets, stored, agreed>> /\ deleter.at = "read" /\ deleter' = Read(deleter)
    BY <1>4 DEF DeleterReads, drives, receiver, observed
  <2>2. WorkerShape(deleter)' /\ deleter'.at = "read"
    BY <2>1 DEF Read
  <2> QED  BY <2>1, <2>2
<1>5. CASE DeleterPuts
  BY <1>5 DEF DeleterPuts, drives, receiver, observed
<1>6. CASE DeleterEnds
  BY <1>6 DEF DeleterEnds, drives, receiver, observed, Resting
<1>7. CASE Confirm
  <2>1. UNCHANGED <<sets, stored>> /\ agreed' = agreed \cup {dialog}
    BY <1>7 DEF Confirm, drives, receiver
  <2>2. deleter' = deleter \/ deleter' = Request(dialog, active)
    BY <1>7 DEF Confirm, Requested, Doomed
  <2>3. WorkerShape(deleter)' /\ (deleter'.at = "start" => deleter'.set \in agreed')
    BY <2>1, <2>2 DEF Request, Resting
  <2> QED  BY <2>1, <2>3
<1>8. CASE Scan \/ Opening \/ Poll
  <2>1. CASE Scan
    BY <1>1, <2>1 DEF Scan, ScanStart, ScanRead, ScanPut, ScanEnd, drives, receiver, observed
  <2>2. CASE Opening
    BY <1>1, <2>2 DEF Opening, Decode, DecodeEnd, drives, receiver, observed
  <2>3. CASE Poll
    BY <1>1, <2>3 DEF Poll, PollBegins, PollGoesOn, HandleEvent, ApplyCatalog, ApplyOpened,
                      ApplyDeleted, drives, receiver, workers, observed
  <2> QED  BY <1>8, <2>1, <2>2, <2>3
<1>9. CASE \/ \E d \in Drives : Swap(d)
           \/ ResolveElsewhere \/ StartCapture \/ Message
  BY <1>1, <1>9
     DEF Swap, ResolveElsewhere, StartCapture, Message, drives, receiver, workers, observed
<1>10. CASE \/ \E to \in Pages : Navigate(to)
            \/ \E i \in 1..Len(items) : Select(i)
            \/ Open \/ Prompt \/ Cancel
  BY <1>1, <1>10
     DEF Navigate, Select, Open, Prompt, Cancel, drives, receiver, workers, observed, Asked
<1>11. CASE UNCHANGED vars
  BY <1>1, <1>11 DEF vars, drives, receiver, workers, observed
<1> QED
  BY <1>2, <1>3, <1>4, <1>5, <1>6, <1>7, <1>8, <1>9, <1>10, <1>11
     DEF Next, Workers, Deleting, User

(* A capture set disappears only after the user has agreed to a dialog     *)
(* that named it: remove_catalog_entry() is asked for the entry of the     *)
(* dialog, and nothing between the tap and the deletion exchanges it.      *)
THEOREM OnlyConfirmedDeleted == Spec => []DeletesOnlyConfirmed
<1>1. DeletionInv => DeletesOnlyConfirmed
  BY DEF DeletionInv
<1> QED  BY <1>1, DeletionInit, DeletionStep, PTL DEF Spec

-----------------------------------------------------------------------------
LEMMA FramesInit == Init => FramesInv
<1> SUFFICES ASSUME Init PROVE FramesInv
  OBVIOUS
<1>1. sets \in Nat /\ stored \subseteq 1..sets /\ opened \in Seq(Nat) /\ route = "ready"
  BY DEF Init
<1> QED  BY <1>1 DEF FramesInv, ViewerIsNotEmpty, Pages

(* handle_event(): the review page is shown for a review, whose frames are *)
(* loaded before it; the viewer keeps frames or gets those of a review.    *)
LEMMA HandleEventFrames ==
  ASSUME FramesInv, HandleEvent
  PROVE  /\ route' \in Pages
         /\ route' = "review" => frames' = ui'.image /\ ui'.image # NoReview
         /\ route' = "viewer" => frames' # NoSet
<1> DEFINE p == Apply(ui, Head(events))
<1>1. CASE p.image = NoReview \/ Readable(p.image)
  <2>1. /\ ui' = p /\ frames' = Loaded(p)
        /\ route' = CASE Screen(p) \in {"progress", "review"} -> Screen(p)
                      [] OTHER -> IF route \in {"progress", "review"} THEN "ready" ELSE route
    BY <1>1 DEF HandleEvent
  <2>2. Screen(p) = "review" => p.image # NoReview
    BY DEF Screen
  <2>3. ASSUME route' = "review" PROVE Screen(p) = "review"
    BY <2>1, <2>3
  <2>4. ASSUME route' = "viewer" PROVE route = "viewer"
    BY <2>1, <2>4
  <2>5. route' \in Pages
    BY <2>1 DEF FramesInv, Pages
  <2> HIDE DEF p
  <2>6. route' = "review" => frames' = ui'.image /\ ui'.image # NoReview
    BY <2>1, <2>2, <2>3 DEF Loaded
  <2>7. route' = "viewer" => frames' # NoSet
    BY <2>1, <2>4 DEF Loaded, FramesInv, ViewerIsNotEmpty, NoSet, NoReview
  <2> QED  BY <2>6, <2>7, <2>5
<1>2. CASE ~(p.image = NoReview \/ Readable(p.image))
  BY <1>2 DEF HandleEvent, Pages
<1> QED  BY <1>1, <1>2

LEMMA FramesStep == FramesInv /\ [Next]_vars => FramesInv'
<1> SUFFICES ASSUME FramesInv, [Next]_vars PROVE FramesInv'
  OBVIOUS
<1> USE DEF FramesInv, ViewerIsNotEmpty
<1>1. CASE UNCHANGED <<sets, stored, opened, route, frames, ui>>
  BY <1>1
<1>2. CASE EndCapture
  <2>1. UNCHANGED <<opened, route, frames, ui>>
    BY <1>2 DEF EndCapture, results, page
  <2>2. \/ sets' = sets /\ stored' = stored
        \/ sets' = sets + 1 /\ stored' = stored \cup {sets + 1}
    BY <1>2 DEF EndCapture
  <2>3. sets' \in Nat /\ stored' \subseteq 1..sets'
    <3>1. CASE sets' = sets /\ stored' = stored
      BY <3>1
    <3>2. CASE sets' = sets + 1 /\ stored' = stored \cup {sets + 1}
      <4>1. \A s \in stored' : s \in 1..(sets + 1)
        BY <3>2
      <4> QED  BY <3>2, <4>1
    <3> QED  BY <2>2, <3>1, <3>2
  <2> QED  BY <2>1, <2>3
<1>3. CASE RemoveSet
  <2>1. UNCHANGED <<sets, opened, route, frames, ui>>
    BY <1>3 DEF RemoveSet, receiver, page
  <2>2. stored' \subseteq stored
    BY <1>3 DEF RemoveSet
  <2>3. sets' \in Nat /\ stored' \subseteq 1..sets'
    <3>1. sets' = sets
      BY <2>1
    <3>2. stored' \subseteq 1..sets
      BY <2>2
    <3> QED  BY <3>1, <3>2
  <2>4. CASE UNCHANGED <<opened, route, frames, ui>>
    BY <2>3, <2>4
  <2> QED  BY <2>1, <2>4
<1>4. CASE Decode
  <2>1. UNCHANGED <<sets, stored, route, frames, ui>>
    BY <1>4 DEF Decode, drives, receiver, page
  <2>2. (IF Readable(opener.set) THEN opener.set ELSE NoSet) \in Nat
    <3>1. CASE Readable(opener.set)
      <4>1. opener.set \in stored
        BY <3>1 DEF Readable
      <4>2. opener.set \in 1..sets
        BY <4>1
      <4> QED  BY <3>1, <4>2
    <3>2. CASE ~Readable(opener.set)
      BY <3>2 DEF NoSet
    <3> QED  BY <3>1, <3>2
  <2>3. opened' \in Seq(Nat)
    BY <1>4, <2>2 DEF Decode
  <2> QED  BY <2>1, <2>3
<1>5. CASE HandleEvent
  <2>1. UNCHANGED <<sets, stored, opened>>
    BY <1>5 DEF HandleEvent, drives, results
  <2> QED  BY <1>5, <2>1, HandleEventFrames
<1>6. CASE ApplyOpened
  <2>1. UNCHANGED <<sets, stored, ui>>
    BY <1>6 DEF ApplyOpened, drives, receiver
  <2>2. opened' \in Seq(Nat)
    BY <1>6 DEF ApplyOpened
  <2>3. \/ route' = "viewer" /\ frames' # NoSet
        \/ route' = "library"
    BY <1>6 DEF ApplyOpened
  <2> QED  BY <2>1, <2>2, <2>3 DEF Pages
<1>7. CASE ApplyDeleted
  <2>1. UNCHANGED <<sets, stored, opened>> /\ route' = "library"
    BY <1>7 DEF ApplyDeleted, PageAfterDeletion, drives, receiver
  <2> QED  BY <2>1 DEF Pages
<1>8. ASSUME NEW to \in Pages, Navigate(to) PROVE FramesInv'
  <2>1. UNCHANGED <<sets, stored, opened, frames, ui>> /\ route' = to /\ to \in Buttons[route]
    BY <1>8 DEF Navigate, drives, receiver, results
  <2>2. to # "review" /\ (to = "viewer" => route = "review")
    BY <2>1 DEF Buttons, Pages
  <2> QED  BY <2>1, <2>2 DEF NoSet, NoReview
<1>9. CASE Scan \/ (Deleting /\ ~RemoveSet) \/ DecodeEnd
  BY <1>1, <1>9 DEF Scan, ScanStart, ScanRead, ScanPut, ScanEnd, Deleting, DeleterReads,
                    DeleterPuts, DeleterEnds, DecodeEnd, drives, receiver, page, results
<1>10. CASE PollBegins \/ PollGoesOn \/ ApplyCatalog
  BY <1>1, <1>10 DEF PollBegins, PollGoesOn, ApplyCatalog, drives, receiver, page, results
<1>11. CASE \/ \E d \in Drives : Swap(d)
            \/ ResolveElsewhere \/ StartCapture \/ Message
  BY <1>1, <1>11
     DEF Swap, ResolveElsewhere, StartCapture, Message, drives, receiver, page, results
<1>12. CASE \/ \E i \in 1..Len(items) : Select(i)
            \/ Open \/ Prompt \/ Cancel \/ Confirm
  BY <1>1, <1>12 DEF Select, Open, Prompt, Cancel, Confirm, drives, receiver, page, results
<1>13. CASE UNCHANGED vars
  BY <1>1, <1>13 DEF vars, drives, receiver, page, results
<1> QED
  BY <1>2, <1>3, <1>4, <1>5, <1>6, <1>7, <1>8, <1>9, <1>10, <1>11, <1>12, <1>13
     DEF Next, Workers, Opening, Deleting, Poll, User

(* The review page plays the animation of the review it speaks of, though  *)
(* handle_event() and the workers' results share the frames.               *)
THEOREM ReviewPlaysItsSet == Spec => []ReviewShowsItsSet
<1>1. FramesInv => ReviewShowsItsSet
  BY DEF FramesInv, ReviewShowsItsSet
<1> QED  BY <1>1, FramesInit, FramesStep, PTL DEF Spec

(* The viewer always has an animation to play, whatever deletions, pulled  *)
(* drives and captures have done to the frames.                            *)
THEOREM ViewerPlaysASet == Spec => []ViewerIsNotEmpty
<1>1. FramesInv => ViewerIsNotEmpty
  BY DEF FramesInv
<1> QED  BY <1>1, FramesInit, FramesStep, PTL DEF Spec

-----------------------------------------------------------------------------
(* apply_catalog() finds the selected set in any list that has it.         *)
LEMMA SameSetFound ==
  ASSUME NEW found, Contains(found, Chosen)
  PROVE  found[SameSet(found)] = Chosen
<1>1. \E i \in 1..Len(found) : found[i] = Chosen
  BY DEF Contains
<1>2. found[CHOOSE i \in 1..Len(found) : found[i] = Chosen] = Chosen
  BY <1>1
<1> QED  BY <1>2 DEF SameSet, Position

(* A refresh of the list keeps the selected set while it is there.         *)
THEOREM SelectionKept == Spec => SelectionSurvives
<1> DEFINE Kept == (catalogs' # catalogs /\ items' # items /\ selected # 0 /\ Contains(items', Chosen))
                     => items'[selected'] = Chosen
<1>1. [Next]_vars => [Kept]_vars
  <2> SUFFICES ASSUME Next PROVE Kept
    OBVIOUS
  <2>1. CASE ApplyCatalog
    <3>1. selected' = SameSet(items')
      BY <2>1 DEF ApplyCatalog
    <3> QED  BY <3>1, SameSetFound
  <2>2. CASE catalogs' = catalogs
    BY <2>2
  <2>3. CASE items' = items
    BY <2>3
  <2>4. CASE Workers \/ (Poll /\ ~ApplyCatalog)
    BY <2>2, <2>3, <2>4
       DEF Workers, Scan, ScanStart, ScanRead, ScanPut, ScanEnd, Opening, Decode, DecodeEnd, Deleting,
           RemoveSet, DeleterReads, DeleterPuts, DeleterEnds, Poll, PollBegins, PollGoesOn,
           HandleEvent, ApplyOpened, ApplyDeleted, list, results
  <2>5. CASE \/ \E d \in Drives : Swap(d)
             \/ ResolveElsewhere \/ StartCapture \/ EndCapture \/ Message \/ User
    BY <2>2, <2>3, <2>5
       DEF Swap, ResolveElsewhere, StartCapture, EndCapture, Message, User, Navigate, Select, Open,
           Prompt, Cancel, Confirm, list, results
  <2> QED  BY <2>1, <2>4, <2>5 DEF Next
<1> QED  BY <1>1, PTL DEF Spec, SelectionSurvives

-----------------------------------------------------------------------------
(* The types: what the workers are given, what they answer, and what the   *)
(* pages make of it, with sets of the numbers 1..n.                        *)

EventType(n) ==
  [state : {"READY", "LOADING", "REVIEW", "ERROR"}, phase : {"", "capturing"}, cam : {NoCam},
   status : {""}, done : SUBSET Cameras, failed : SUBSET Cameras, told : BOOLEAN,
   conn : SUBSET Cameras, image : 0..n, manifest : 0..n]
UiShape(p) ==
  p = [state |-> p.state, image |-> p.image, review |-> p.review, partial |-> p.partial,
       capturing |-> p.capturing, phase |-> p.phase, connected |-> p.connected, cams |-> p.cams,
       views |-> p.views, failed |-> p.failed]
UiFits(p, n) == UiShape(p) /\ p.image \in 0..n /\ p.review \in 0..n
WorkerType(n) ==
  [at : {"idle", "start", "read", "end"}, set : 0..n, drive : Drives \cup {NoDrive},
   todo : SUBSET (1..n), found : SUBSET (1..n)]
CatalogType(n) == [status : {"ready", "removed", "unavailable"}, sets : SUBSET (1..n)]
DeletionType(n) == [set : 0..n, error : {"", "removed", "error"}, catalog : CatalogType(n)]

DrivesFit == plugged \subseteq Drives /\ active \in Drives \cup {NoDrive} /\ stored \subseteq 1..sets
(* A capture that is under way has its number reserved.                    *)
SetsFit ==
  /\ sets \in Nat /\ OldSets <= sets /\ captures \in 0..MaxCaptures /\ shooting \in BOOLEAN
  /\ sets + (IF shooting THEN 1 ELSE 0) <= OldSets + captures
EventsFit == events \in Seq(EventType(sets))
PageFits == route \in Pages /\ frames \in 0..sets /\ UiFits(ui, sets)
ListFits ==
  /\ items \in Seq(1..sets) /\ selected \in 0..Len(items) /\ (selected = 0 <=> items = <<>>)
  /\ status \in Statuses /\ dialog \in 0..sets
WorkersFit == scanner \in WorkerType(sets) /\ opener \in WorkerType(sets) /\ deleter \in WorkerType(sets)
ResultsFit ==
  catalogs \in Seq(CatalogType(sets)) /\ opened \in Seq(0..sets) /\ deleted \in Seq(DeletionType(sets))

LibraryInv ==
  /\ DrivesFit /\ SetsFit /\ EventsFit /\ PageFits /\ ListFits /\ WorkersFit /\ ResultsFit
  /\ polling \in 0..4

LEMMA LargerTypes ==
  ASSUME NEW n \in Nat, NEW m \in Nat, n <= m
  PROVE  /\ EventType(n) \subseteq EventType(m) /\ WorkerType(n) \subseteq WorkerType(m)
         /\ CatalogType(n) \subseteq CatalogType(m) /\ DeletionType(n) \subseteq DeletionType(m)
         /\ 1..n \subseteq 1..m /\ 0..n \subseteq 0..m
<1>1. 1..n \subseteq 1..m /\ 0..n \subseteq 0..m
  OBVIOUS
<1>2. EventType(n) \subseteq EventType(m)
  BY <1>1 DEF EventType
<1>3. SUBSET (1..n) \subseteq SUBSET (1..m)
  BY <1>1
<1>4. WorkerType(n) \subseteq WorkerType(m) /\ CatalogType(n) \subseteq CatalogType(m)
  BY <1>1, <1>3 DEF WorkerType, CatalogType
<1>5. DeletionType(n) \subseteq DeletionType(m)
  BY <1>1, <1>4 DEF DeletionType
<1> QED  BY <1>1, <1>2, <1>4, <1>5

(* Whatever is applied, the presentation keeps its shape, and shows a set  *)
(* it or the event has named.                                              *)
LEMMA ApplyFits ==
  ASSUME NEW n \in Nat, NEW p, UiFits(p, n), NEW e \in EventType(n)
  PROVE  UiFits(Apply(p, e), n)
<1>1. PICK r : r = WithConnected(p, e)
  OBVIOUS
<1>2. UiFits(r, n)
  <2>1. PICK conn, cams : r = [p EXCEPT !.connected = conn, !.cams = cams]
    BY <1>1 DEF WithConnected
  <2> QED  BY <2>1 DEF UiFits, UiShape
<1>3. NoReview \in 0..n
  BY DEF NoReview
<1>4. UiFits(WithProgress(r, e), n)
  <2>1. PICK s : s = Reset(r)
    OBVIOUS
  <2>2. UiFits(s, n)
    <3>1. CASE r.capturing
      BY <1>2, <2>1, <3>1 DEF Reset
    <3>2. CASE ~r.capturing
      <4>1. PICK cams : s = [r EXCEPT !.cams = cams, !.failed = {}, !.views = 0]
        BY <2>1, <3>2 DEF Reset
      <4> QED  BY <1>2, <4>1 DEF UiFits, UiShape
    <3> QED  BY <3>1, <3>2
  <2>3. PICK phase, cams, failed, views :
          WithProgress(r, e) = [s EXCEPT !.capturing = TRUE, !.phase = phase, !.cams = cams, !.failed = failed,
                                         !.views = views, !.state = "LOADING", !.image = NoReview]
    BY <2>1 DEF WithProgress
  <2> QED  BY <1>3, <2>2, <2>3 DEF UiFits, UiShape
<1>5. UiFits(WithReview(r, e), n)
  <2>1. PICK s : s = WithManifest(r, e)
    OBVIOUS
  <2>2. UiFits(s, n)
    <3>1. CASE e.manifest = NoReview
      BY <1>2, <2>1, <3>1 DEF WithManifest
    <3>2. CASE e.manifest # NoReview
      <4>1. PICK cams, views, failed : s = [r EXCEPT !.cams = cams, !.views = views, !.failed = failed]
        BY <2>1, <3>2 DEF WithManifest
      <4> QED  BY <1>2, <4>1 DEF UiFits, UiShape
    <3> QED  BY <3>1, <3>2
  <2>3. PICK review : review = IF e.image # NoReview THEN e.image ELSE r.review
    OBVIOUS
  <2>4. review \in 0..n
    BY <1>2, <2>3 DEF EventType, UiFits
  <2>5. PICK partial : WithReview(r, e) =
          [s EXCEPT !.capturing = FALSE, !.phase = "complete", !.review = review, !.image = review,
                    !.partial = partial, !.state = e.state]
    BY Zenon, <2>1, <2>3 DEF WithReview
  <2> QED  BY <2>2, <2>4, <2>5 DEF UiFits, UiShape
<1>6. UiFits(WithReady(r), n)
  <2>1. PICK no : WithReady(r) =
          [r EXCEPT !.capturing = no, !.phase = "idle", !.state = "READY", !.image = r.review]
    BY Zenon DEF WithReady
  <2> QED  BY <1>2, <2>1 DEF UiFits, UiShape
<1>7. UiFits(WithError(r), n)
  <2>1. PICK kept : kept = IF r.capturing THEN NoReview ELSE r.review
    OBVIOUS
  <2>2. PICK state : WithError(r) =
          [r EXCEPT !.capturing = FALSE, !.phase = "idle", !.image = kept, !.state = state]
    BY <2>1 DEF WithError
  <2>3. kept \in 0..n
    BY <1>2, <1>3, <2>1 DEF UiFits
  <2> QED  BY <1>2, <2>2, <2>3 DEF UiFits, UiShape
<1>8. e.state \in {"READY", "LOADING", "REVIEW", "ERROR"}
  BY DEF EventType
<1>9. CASE e.state = "LOADING"
  BY <1>1, <1>4, <1>9 DEF Apply
<1>10. CASE e.state = "REVIEW"
  BY <1>1, <1>5, <1>10 DEF Apply
<1>11. CASE e.state = "READY"
  BY <1>1, <1>6, <1>11 DEF Apply
<1>12. CASE e.state = "ERROR"
  BY <1>1, <1>7, <1>12 DEF Apply
<1> QED  BY <1>8, <1>9, <1>10, <1>11, <1>12

LEMMA EventsMade ==
  ASSUME NEW n \in Nat, NEW s \in 0..n
  PROVE  /\ Event("READY") \in EventType(n) /\ Event("ERROR") \in EventType(n)
         /\ [Event("LOADING") EXCEPT !.phase = "capturing"] \in EventType(n)
         /\ [Event("REVIEW") EXCEPT !.image = s, !.manifest = s] \in EventType(n)
<1>1. PICK no \in BOOLEAN : no = FALSE
  BY Zenon
<1>2. 0 \in 0..n
  OBVIOUS
<1>3. ASSUME NEW state \in {"READY", "LOADING", "REVIEW", "ERROR"} PROVE Event(state) \in EventType(n)
  <2>1. PICK e : e = Event(state)
    OBVIOUS
  <2>2. e = [state |-> state, phase |-> "", cam |-> NoCam, status |-> "", done |-> {},
             failed |-> {}, told |-> no, conn |-> {}, image |-> 0, manifest |-> 0]
    BY Zenon, <1>1, <2>1 DEF Event, NoReview
  <2>3. e \in EventType(n)
    BY <1>1, <1>2, <2>2 DEF EventType
  <2> QED  BY <2>1, <2>3
<1>4. PICK loading, review : loading = Event("LOADING") /\ review = Event("REVIEW")
  OBVIOUS
<1>5. loading \in EventType(n) /\ review \in EventType(n)
  BY <1>3, <1>4
<1>6. [loading EXCEPT !.phase = "capturing"] \in EventType(n)
  BY <1>5 DEF EventType
<1>7. [review EXCEPT !.image = s, !.manifest = s] \in EventType(n)
  BY <1>5 DEF EventType
<1> QED  BY <1>3, <1>4, <1>6, <1>7

LEMMA StartingFits ==
  ASSUME NEW n \in Nat
  PROVE  UiFits(Starting, n)
<1>1. UiShape(Starting) /\ Starting.image = 0 /\ Starting.review = 0
  BY DEF UiShape, Starting, NoReview
<1>2. 0 \in 0..n
  OBVIOUS
<1> QED  BY <1>1, <1>2 DEF UiFits

-----------------------------------------------------------------------------
(* ItemsOf(): a set of the catalog is at each place of the list, because   *)
(* different sets have different numbers of newer ones.                    *)
LEMMA IdsFinite ==
  ASSUME NEW n \in Nat, NEW ids \in SUBSET (1..n)
  PROVE  IsFiniteSet(ids) /\ Cardinality(ids) \in Nat
<1>1. 1 \in Int /\ n \in Int
  OBVIOUS
<1>2. IsFiniteSet(1..n)
  BY <1>1, FS_Interval
<1> QED  BY <1>2, FS_Subset, FS_CardinalityType

LEMMA NthNewestExists ==
  ASSUME NEW n \in Nat, NEW ids \in SUBSET (1..n), NEW i \in 1..Cardinality(ids)
  PROVE  NthNewest(ids, i) \in ids
<1> DEFINE newer(s) == {t \in ids : t > s}
<1>1. IsFiniteSet(ids) /\ Cardinality(ids) \in Nat
  BY IdsFinite
<1>2. PICK k \in Nat : k = Cardinality(ids)
  BY <1>1
<1>3. ASSUME NEW s \in ids
      PROVE  IsFiniteSet(newer(s)) /\ Cardinality(newer(s)) \in 0..(k - 1)
  <2>1. newer(s) \in SUBSET ids /\ newer(s) # ids
    OBVIOUS
  <2>2. IsFiniteSet(newer(s)) /\ Cardinality(newer(s)) <= k /\ Cardinality(newer(s)) # k
    BY <1>1, <1>2, <2>1, FS_Subset
  <2>3. Cardinality(newer(s)) \in Nat
    BY <2>2, FS_CardinalityType
  <2> HIDE DEF newer
  <2> QED  BY <2>2, <2>3
<1>4. ASSUME NEW s \in ids, NEW t \in ids, s < t
      PROVE  Cardinality(newer(s)) # Cardinality(newer(t))
  <2>1. newer(t) \in SUBSET newer(s) /\ t \in newer(s) /\ t \notin newer(t)
    <3>1. \A u \in ids : u \in Int
      OBVIOUS
    <3>2. ~(t > t) /\ t > s /\ \A u \in ids : u > t => u > s
      BY <1>4, <3>1
    <3> QED  BY <3>2
  <2>2. newer(t) # newer(s)
    BY <2>1
  <2> HIDE DEF newer
  <2> QED  BY <1>3, <2>1, <2>2, FS_Subset
<1>5. PICK rank : rank = [s \in ids |-> Cardinality(newer(s))]
  OBVIOUS
<1>6. rank \in [ids -> 0..(k - 1)]
  <2> HIDE DEF newer
  <2> QED  BY <1>3, <1>5
<1>7. ASSUME NEW s \in ids, NEW t \in ids, s # t PROVE rank[s] # rank[t]
  <2>1. s < t \/ t < s
    BY <1>7
  <2>2. rank[s] = Cardinality(newer(s)) /\ rank[t] = Cardinality(newer(t))
    BY <1>5
  <2> HIDE DEF newer
  <2> QED  BY <1>4, <2>1, <2>2
<1>8. rank \in Injection(ids, 0..(k - 1))
  BY <1>6, <1>7 DEF Injection, IsInjective
<1>9. IsFiniteSet(0..(k - 1)) /\ Cardinality(0..(k - 1)) = k
  <2>1. 0 \in Int /\ k - 1 \in Int /\ (IF 0 > k - 1 THEN 0 ELSE (k - 1) - 0 + 1) = k
    OBVIOUS
  <2> QED  BY <2>1, FS_Interval
<1>10. rank \in Surjection(ids, 0..(k - 1))
  BY <1>2, <1>8, <1>9, FS_Injection
<1>11. i - 1 \in 0..(k - 1)
  BY <1>2
<1>12. PICK s \in ids : rank[s] = i - 1
  BY <1>10, <1>11 DEF Surjection
<1>13. Cardinality({t \in ids : t > s}) = i - 1
  BY <1>5, <1>12
<1> QED  BY <1>13 DEF NthNewest

LEMMA ItemsFit ==
  ASSUME NEW n \in Nat, NEW catalog \in CatalogType(n)
  PROVE  /\ ItemsOf(catalog) \in Seq(1..n)
         /\ Len(ItemsOf(catalog)) \in Nat
         /\ ItemsOf(catalog) = <<>> <=> Len(ItemsOf(catalog)) = 0
<1>1. PICK ids \in SUBSET (1..n) : ids = catalog.sets
  BY DEF CatalogType
<1>2. IsFiniteSet(ids) /\ Cardinality(ids) \in Nat
  BY IdsFinite
<1>3. PICK k \in Nat : k = Cardinality(ids)
  BY <1>2
<1>4. PICK list1 : list1 = [i \in 1..k |-> NthNewest(ids, i)]
  OBVIOUS
<1>5. \A i \in 1..k : NthNewest(ids, i) \in 1..n
  BY <1>3, NthNewestExists
<1>6. list1 \in Seq(1..n) /\ Len(list1) = k
  BY <1>4, <1>5
<1>7. list1 = <<>> <=> k = 0
  BY <1>6
<1>8. ItemsOf(catalog) = list1
  BY <1>1, <1>3, <1>4 DEF ItemsOf
<1> QED  BY <1>6, <1>7, <1>8

(* A place in a list: none if it is empty, else one of its places.         *)
IsPlace(i, seq) == i \in 0..Len(seq) /\ (i = 0 <=> seq = <<>>)

LEMMA PlacesFit ==
  ASSUME NEW T, NEW seq \in Seq(T), NEW s
  PROVE  /\ Contains(seq, s) => Position(seq, s) \in 1..Len(seq)
         /\ seq # <<>> => Len(seq) \in Nat \ {0}
         /\ seq = <<>> => Len(seq) = 0
         /\ IsPlace(SameSet(seq), seq)
<1>1. PICK k \in Nat : k = Len(seq)
  BY LenProperties
<1>2. seq = <<>> <=> k = 0
  BY <1>1, EmptySeq
<1>3. ASSUME NEW t, Contains(seq, t) PROVE Position(seq, t) \in 1..k
  <2>1. \E i \in 1..k : seq[i] = t
    BY <1>1, <1>3 DEF Contains
  <2>2. (CHOOSE i \in 1..k : seq[i] = t) \in 1..k
    BY <2>1
  <2> QED  BY <1>1, <1>3, <2>2 DEF Position
<1>4. SameSet(seq) \in 0..k /\ (SameSet(seq) = 0 <=> k = 0)
  <2>1. CASE Contains(seq, Chosen)
    <3>1. SameSet(seq) = Position(seq, Chosen)
      BY <2>1 DEF SameSet
    <3>2. Position(seq, Chosen) \in 1..k
      BY <1>3, <2>1
    <3> QED  BY <3>1, <3>2
  <2>2. CASE ~Contains(seq, Chosen)
    <3>1. SameSet(seq) = Smaller(1, k)
      BY <1>1, <2>2 DEF SameSet
    <3> QED  BY <3>1 DEF Smaller
  <2> QED  BY <2>1, <2>2
<1> QED  BY <1>1, <1>2, <1>3, <1>4 DEF IsPlace

-----------------------------------------------------------------------------
(* resolve() finds a drive if one is there: the first in the order.        *)
LEMMA ResolvedFits ==
  ASSUME DrivesFit
  PROVE  Resolved \in Drives \cup {NoDrive}
<1>1. CASE plugged = {}
  BY <1>1 DEF Resolved
<1>2. CASE plugged # {}
  <2>1. PICK there : there = {i \in 1..Len(DriveOrder) : DriveOrder[i] \in plugged}
    OBVIOUS
  <2>2. there \subseteq Nat
    BY <2>1
  <2>3. DriveOrder \in Seq(Range(DriveOrder))
    BY LibraryAssumption
  <2>4. DOMAIN DriveOrder = 1..Len(DriveOrder)
    BY <2>3, LenProperties
  <2>5. there # {}
    <3>1. PICK d \in plugged : d \in Drives
      BY <1>2 DEF DrivesFit
    <3>2. PICK i \in DOMAIN DriveOrder : DriveOrder[i] = d
      BY <3>1 DEF Drives, Range
    <3> QED  BY <2>1, <2>4, <3>1, <3>2
  <2>6. PICK first \in there : \A j \in there : ~ (<<j, first>> \in OpToRel(<, Nat))
    BY <2>2, <2>5, WFMin, NatLessThanWellFounded
  <2>7. \A j \in there : ~(j < first)
    BY <2>2, <2>6 DEF OpToRel
  <2>8. first \in 1..Len(DriveOrder) /\ DriveOrder[first] \in plugged
        /\ \A j \in 1..(first - 1) : DriveOrder[j] \notin plugged
    <3>1. first \in 1..Len(DriveOrder) /\ DriveOrder[first] \in plugged
      BY <2>1
    <3>2. ASSUME NEW j \in 1..(first - 1), DriveOrder[j] \in plugged PROVE FALSE
      <4>1. Len(DriveOrder) \in Nat
        BY <2>3, LenProperties
      <4>2. j \in 1..Len(DriveOrder) /\ j < first
        BY <3>1, <4>1
      <4> QED  BY <2>1, <2>7, <3>2, <4>2
    <3> QED  BY <3>1, <3>2
  <2>9. PICK i : i = CHOOSE k \in 1..Len(DriveOrder) :
                       DriveOrder[k] \in plugged /\ \A j \in 1..(k - 1) : DriveOrder[j] \notin plugged
    OBVIOUS
  <2>10. DriveOrder[i] \in plugged
    BY <2>8, <2>9
  <2>11. Resolved = DriveOrder[i]
    BY <1>2, <2>9 DEF Resolved
  <2> QED  BY <2>10, <2>11 DEF DrivesFit
<1> QED  BY <1>1, <1>2

(* The steps of a worker.                                                  *)
LEMMA WorkerFits ==
  ASSUME NEW n \in Nat, stored \subseteq 1..n, NEW w \in WorkerType(n)
  PROVE  /\ Read(w) \in WorkerType(n) /\ CatalogOf(w) \in CatalogType(n)
         /\ OnDrive(w.drive) \subseteq 1..n
         /\ \A at \in {"idle", "start", "read", "end"} : [w EXCEPT !.at = at] \in WorkerType(n)
         /\ \A todo \in SUBSET (1..n) : [w EXCEPT !.at = "read", !.todo = todo] \in WorkerType(n)
         /\ Listed(w) \in WorkerType(n)
<1>1. OnDrive(w.drive) \subseteq 1..n
  BY DEF OnDrive
<1>2. Read(w) \in WorkerType(n)
  <2>1. PICK s : s = NthNewest(w.todo, 1)
    OBVIOUS
  <2>2. PICK found : found = IF Readable(s) THEN w.found \cup {s} ELSE w.found
    OBVIOUS
  <2>3. found \subseteq 1..n
    BY <2>2 DEF Readable, WorkerType
  <2>4. Read(w) = [w EXCEPT !.todo = w.todo \ {s}, !.found = found]
    BY <2>1, <2>2 DEF Read, WorkerType
  <2> QED  BY <2>3, <2>4 DEF WorkerType
<1>3. CatalogOf(w) \in CatalogType(n)
  BY DEF CatalogOf, Catalog, CatalogType, WorkerType
<1>4. \A at \in {"idle", "start", "read", "end"} : [w EXCEPT !.at = at] \in WorkerType(n)
  BY DEF WorkerType
<1>5. \A todo \in SUBSET (1..n) : [w EXCEPT !.at = "read", !.todo = todo] \in WorkerType(n)
  BY DEF WorkerType
<1>6. Listed(w) \in WorkerType(n)
  BY <1>1, <1>4, <1>5 DEF Listed
<1> QED  BY <1>1, <1>2, <1>3, <1>4, <1>5, <1>6

LEMMA RequestFits ==
  ASSUME NEW n \in Nat, NEW w \in WorkerType(n), NEW s \in 0..n, NEW d \in Drives \cup {NoDrive}
  PROVE  Requested(w, Request(s, d)) \in WorkerType(n) /\ Resting \in WorkerType(n)
<1>1. Resting \in WorkerType(n)
  BY DEF Resting, WorkerType, NoSet
<1>2. Request(s, d) \in WorkerType(n)
  BY <1>1 DEF Request, WorkerType
<1> QED  BY <1>1, <1>2 DEF Requested

-----------------------------------------------------------------------------
(* What a step leaves alone keeps its type.                                *)
LEMMA PartsStay ==
  ASSUME LibraryInv, sets' = sets
  PROVE  /\ sets \in Nat
         /\ UNCHANGED <<plugged, active, stored>> => DrivesFit'
         /\ UNCHANGED <<captures, shooting>> => SetsFit'
         /\ UNCHANGED events => EventsFit'
         /\ UNCHANGED page => PageFits'
         /\ UNCHANGED list => ListFits'
         /\ UNCHANGED workers => WorkersFit'
         /\ UNCHANGED results => ResultsFit'
<1>1. sets \in Nat
  BY DEF LibraryInv, SetsFit
<1>2. UNCHANGED <<plugged, active, stored>> => DrivesFit'
  BY DEF LibraryInv, DrivesFit
<1>3. UNCHANGED <<captures, shooting>> => SetsFit'
  BY DEF LibraryInv, SetsFit
<1>4. UNCHANGED events => EventsFit'
  BY DEF LibraryInv, EventsFit
<1>5. UNCHANGED page => PageFits'
  BY DEF LibraryInv, PageFits, page
<1>6. UNCHANGED list => ListFits'
  BY DEF LibraryInv, ListFits, list
<1>7. UNCHANGED workers => WorkersFit'
  BY DEF LibraryInv, WorkersFit, workers
<1>8. UNCHANGED results => ResultsFit'
  BY DEF LibraryInv, ResultsFit, results
<1> QED  BY <1>1, <1>2, <1>3, <1>4, <1>5, <1>6, <1>7, <1>8

LEMMA SwapFits ==
  ASSUME LibraryInv, NEW d \in Drives, Swap(d)
  PROVE  LibraryInv'
<1>1. /\ plugged' = plugged \/ plugged' = plugged \ {d} \/ plugged' = plugged \cup {d}
      /\ UNCHANGED <<active, stored, receiver, page, list, workers, results, polling>>
  BY DEF Swap
<1>2. sets' = sets /\ UNCHANGED <<events, captures, shooting>>
  BY <1>1 DEF receiver
<1>3. DrivesFit'
  BY <1>1, <1>2 DEF LibraryInv, DrivesFit
<1> QED  BY <1>1, <1>2, <1>3, PartsStay DEF LibraryInv

LEMMA ResolveElsewhereFits ==
  ASSUME LibraryInv, ResolveElsewhere
  PROVE  LibraryInv'
<1>1. active' = Resolved /\ UNCHANGED <<plugged, stored, receiver, page, list, workers,
                                        results, polling>>
  BY DEF ResolveElsewhere
<1>2. sets' = sets /\ UNCHANGED <<events, captures, shooting>>
  BY <1>1 DEF receiver
<1>3. DrivesFit'
  BY <1>1, <1>2, ResolvedFits DEF LibraryInv, DrivesFit
<1> QED  BY <1>1, <1>2, <1>3, PartsStay DEF LibraryInv

LEMMA ReceiverFits ==
  ASSUME LibraryInv, StartCapture \/ Message
  PROVE  LibraryInv'
<1>1. sets \in Nat /\ 0 \in 0..sets
  BY DEF LibraryInv, SetsFit
<1>2. /\ UNCHANGED <<plugged, active, stored, page, list, workers, results, polling>>
      /\ sets' = sets
  BY DEF StartCapture, Message, drives
<1>3. EventsFit'
  <2>1. PICK e \in EventType(sets) : events' = Append(events, e)
    BY <1>1, EventsMade DEF StartCapture, Message
  <2> QED  BY <1>2, <2>1 DEF LibraryInv, EventsFit
<1>4. SetsFit'
  <2>1. \/ UNCHANGED <<captures, shooting>>
        \/ ~shooting /\ captures < MaxCaptures /\ shooting' = TRUE /\ captures' = captures + 1
    BY DEF StartCapture, Message
  <2>2. CASE UNCHANGED <<captures, shooting>>
    BY <1>2, <2>2, PartsStay
  <2>3. CASE ~shooting /\ captures < MaxCaptures /\ shooting' = TRUE /\ captures' = captures + 1
    BY <1>2, <2>3 DEF LibraryInv, SetsFit
  <2> QED  BY <2>1, <2>2, <2>3
<1> QED  BY <1>2, <1>3, <1>4, PartsStay DEF LibraryInv

LEMMA LongerSeq ==
  ASSUME NEW S, NEW T, S \subseteq T, NEW q \in Seq(S)
  PROVE  q \in Seq(T)
OBVIOUS

LEMMA EndCaptureFits ==
  ASSUME LibraryInv, EndCapture
  PROVE  LibraryInv'
<1>1. /\ shooting /\ shooting' = FALSE /\ active' = Resolved
      /\ UNCHANGED <<plugged, captures, page, list, workers, results, polling>>
  BY DEF EndCapture
<1>2. sets \in Nat /\ OldSets <= sets /\ captures \in 0..MaxCaptures /\ sets + 1 <= OldSets + captures
  BY <1>1 DEF LibraryInv, SetsFit
<1>3. Resolved \in Drives \cup {NoDrive}
  BY ResolvedFits DEF LibraryInv
<1>4. PICK n \in Nat : n = sets'
  BY <1>2 DEF EndCapture
<1>5. /\ sets <= n /\ n <= OldSets + captures /\ OldSets <= n
      /\ stored' \subseteq 1..n /\ \E e \in EventType(n) : events' = Append(events, e)
  <2>1. CASE Resolved = NoDrive
    <3>1. n = sets /\ stored' = stored /\ events' = Append(events, Event("ERROR"))
      BY <1>4, <2>1 DEF EndCapture
    <3>2. 0 \in 0..n
      BY <1>4
    <3>3. Event("ERROR") \in EventType(n)
      BY <3>2, EventsMade
    <3>4. stored \subseteq 1..sets
      BY DEF LibraryInv, DrivesFit
    <3>5. stored' \subseteq 1..n
      BY <3>1, <3>4
    <3>6. sets <= n /\ n <= OldSets + captures /\ OldSets <= n
      BY <1>2, <3>1
    <3> QED  BY <3>1, <3>3, <3>5, <3>6
  <2>2. CASE Resolved # NoDrive
    <3>1. /\ n = sets + 1 /\ stored' = stored \cup {n}
          /\ events' = Append(events, [Event("REVIEW") EXCEPT !.image = n, !.manifest = n])
      BY <1>4, <2>2 DEF EndCapture
    <3>2. [Event("REVIEW") EXCEPT !.image = n, !.manifest = n] \in EventType(n)
      <4>1. n \in 0..n
        BY <1>4
      <4> QED  BY <4>1, EventsMade
    <3>3. stored \subseteq 1..sets
      BY DEF LibraryInv, DrivesFit
    <3>4. stored' \subseteq 1..n
      BY <1>2, <3>1, <3>3
    <3> QED  BY <1>2, <3>1, <3>2, <3>4
  <2> QED  BY <2>1, <2>2
<1>6. /\ EventType(sets) \subseteq EventType(n) /\ WorkerType(sets) \subseteq WorkerType(n)
      /\ CatalogType(sets) \subseteq CatalogType(n) /\ DeletionType(sets) \subseteq DeletionType(n)
      /\ 1..sets \subseteq 1..n /\ 0..sets \subseteq 0..n
  BY <1>2, <1>5, LargerTypes
<1>7. DrivesFit'
  BY <1>1, <1>3, <1>4, <1>5 DEF LibraryInv, DrivesFit
<1>8. SetsFit'
  <2>1. shooting' \in BOOLEAN /\ (IF shooting' THEN 1 ELSE 0) = 0
    BY <1>1
  <2>2. captures' = captures
    BY <1>1
  <2>3. n + 0 <= OldSets + captures
    BY <1>5
  <2> QED  BY <1>2, <1>4, <1>5, <2>1, <2>2, <2>3 DEF SetsFit
<1>9. EventsFit'
  <2>1. events \in Seq(EventType(n))
    BY <1>6 DEF LibraryInv, EventsFit
  <2> QED  BY <1>4, <1>5, <2>1 DEF EventsFit
<1>10. PageFits'
  BY <1>1, <1>4, <1>6 DEF LibraryInv, PageFits, page, UiFits, UiShape
<1>11. ListFits'
  <2>1. items \in Seq(1..sets) /\ selected \in 0..Len(items) /\ (selected = 0 <=> items = <<>>)
        /\ status \in Statuses /\ dialog \in 0..sets
    BY DEF LibraryInv, ListFits
  <2>2. items \in Seq(1..n)
    BY <1>6, <2>1, LongerSeq
  <2>3. dialog \in 0..n
    BY <1>6, <2>1
  <2>4. UNCHANGED <<items, selected, status, dialog>>
    BY <1>1 DEF list
  <2> QED  BY <1>4, <2>1, <2>2, <2>3, <2>4 DEF ListFits
<1>12. WorkersFit'
  BY <1>1, <1>4, <1>6 DEF LibraryInv, WorkersFit, workers
<1>13. ResultsFit'
  <2>1. catalogs \in Seq(CatalogType(n)) /\ opened \in Seq(0..n) /\ deleted \in Seq(DeletionType(n))
    BY <1>6, LongerSeq DEF LibraryInv, ResultsFit
  <2> QED  BY <1>1, <1>4, <2>1 DEF ResultsFit, results
<1>14. polling' \in 0..4
  BY <1>1 DEF LibraryInv
<1> QED  BY <1>7, <1>8, <1>9, <1>10, <1>11, <1>12, <1>13, <1>14 DEF LibraryInv

(* The workers only take their own steps and queue their own results.      *)
LEMMA ScanFits ==
  ASSUME LibraryInv, Scan
  PROVE  LibraryInv'
<1>1. /\ UNCHANGED <<plugged, stored, receiver, page, list, opener, deleter, opened, deleted, polling>>
      /\ active' = active \/ active' = Resolved
  BY DEF Scan, ScanStart, ScanRead, ScanPut, ScanEnd, drives, results
<1>2. sets' = sets /\ UNCHANGED <<events, captures, shooting>>
  BY <1>1 DEF receiver
<1>3. /\ sets \in Nat /\ stored \subseteq 1..sets /\ scanner \in WorkerType(sets)
      /\ catalogs \in Seq(CatalogType(sets)) /\ Resolved \in Drives \cup {NoDrive}
  BY ResolvedFits DEF LibraryInv, SetsFit, DrivesFit, WorkersFit, ResultsFit
<1>4. scanner' \in WorkerType(sets) /\ catalogs' \in Seq(CatalogType(sets))
  <2>1. CASE ScanStart
    <3>1. PICK v : v = [scanner EXCEPT !.drive = Resolved]
      OBVIOUS
    <3>2. v \in WorkerType(sets)
      BY <1>3, <3>1 DEF WorkerType
    <3>3. PICK w : w = Listed(v)
      OBVIOUS
    <3>4. w \in WorkerType(sets)
      BY <1>3, <3>2, <3>3, WorkerFits
    <3>5. scanner' = w /\ (catalogs' = catalogs \/ catalogs' = Append(catalogs, CatalogOf(w)))
      BY <2>1, <3>1, <3>3 DEF ScanStart
    <3>6. CatalogOf(w) \in CatalogType(sets)
      BY <1>3, <3>4, WorkerFits
    <3> QED  BY <1>3, <3>4, <3>5, <3>6
  <2>2. CASE ScanRead
    BY <1>3, <2>2, WorkerFits DEF ScanRead, results
  <2>3. CASE ScanPut
    <3>1. CatalogOf(scanner) \in CatalogType(sets) /\ [scanner EXCEPT !.at = "end"] \in WorkerType(sets)
      BY <1>3, WorkerFits
    <3> QED  BY <1>3, <2>3, <3>1 DEF ScanPut, Report
  <2>4. CASE ScanEnd
    <3>1. 0 \in 0..sets /\ NoDrive \in Drives \cup {NoDrive}
      BY <1>3
    <3>2. Resting \in WorkerType(sets)
      BY <1>3, <3>1, RequestFits
    <3> QED  BY <1>3, <2>4, <3>2 DEF ScanEnd, results
  <2> QED  BY <2>1, <2>2, <2>3, <2>4 DEF Scan
<1>5. DrivesFit'
  BY <1>1, <1>2, <1>3 DEF LibraryInv, DrivesFit
<1>6. WorkersFit'
  BY <1>1, <1>2, <1>4 DEF LibraryInv, WorkersFit
<1>7. ResultsFit'
  BY <1>1, <1>2, <1>4 DEF LibraryInv, ResultsFit
<1> QED  BY <1>1, <1>2, <1>5, <1>6, <1>7, PartsStay DEF LibraryInv

LEMMA OpeningFits ==
  ASSUME LibraryInv, Opening
  PROVE  LibraryInv'
<1>1. UNCHANGED <<plugged, active, stored, receiver, page, list, scanner, deleter, catalogs,
                  deleted, polling>>
  BY DEF Opening, Decode, DecodeEnd, drives, results
<1>2. sets' = sets /\ UNCHANGED <<events, captures, shooting>>
  BY <1>1 DEF receiver
<1>3. /\ sets \in Nat /\ stored \subseteq 1..sets /\ opener \in WorkerType(sets) /\ opened \in Seq(0..sets)
  BY DEF LibraryInv, SetsFit, DrivesFit, WorkersFit, ResultsFit
<1>4. opener' \in WorkerType(sets) /\ opened' \in Seq(0..sets)
  <2>1. CASE Decode
    <3>1. PICK s : s = IF Readable(opener.set) THEN opener.set ELSE NoSet
      OBVIOUS
    <3>2. s \in 0..sets
      BY <1>3, <3>1 DEF WorkerType, NoSet
    <3>3. opener' = [opener EXCEPT !.at = "end"] /\ opened' = Append(opened, s)
      BY <2>1, <3>1 DEF Decode
    <3>4. [opener EXCEPT !.at = "end"] \in WorkerType(sets)
      BY <1>3, WorkerFits
    <3>5. Append(opened, s) \in Seq(0..sets)
      BY <1>3, <3>2, AppendProperties
    <3> QED  BY <3>3, <3>4, <3>5
  <2>2. CASE DecodeEnd
    <3>1. 0 \in 0..sets /\ NoDrive \in Drives \cup {NoDrive}
      BY <1>3
    <3>2. Resting \in WorkerType(sets)
      BY <1>3, <3>1, RequestFits
    <3> QED  BY <1>3, <2>2, <3>2 DEF DecodeEnd, results
  <2> QED  BY <2>1, <2>2 DEF Opening
<1>5. WorkersFit'
  BY <1>1, <1>2, <1>4 DEF LibraryInv, WorkersFit
<1>6. ResultsFit'
  BY <1>1, <1>2, <1>4 DEF LibraryInv, ResultsFit
<1> QED  BY <1>1, <1>2, <1>5, <1>6, PartsStay DEF LibraryInv

LEMMA DeletingFits ==
  ASSUME LibraryInv, Deleting
  PROVE  LibraryInv'
<1>1. /\ UNCHANGED <<active, receiver, page, list, scanner, opener, catalogs, opened, polling>>
      /\ plugged' = plugged \/ plugged' = plugged \ {deleter.drive}
      /\ stored' = stored \/ stored' = stored \ {deleter.set}
  BY DEF Deleting, RemoveSet, DeleterReads, DeleterPuts, DeleterEnds, drives, results
<1>2. sets' = sets /\ UNCHANGED <<events, captures, shooting>>
  BY <1>1 DEF receiver
<1>3. /\ sets \in Nat /\ stored \subseteq 1..sets /\ deleter \in WorkerType(sets)
      /\ deleted \in Seq(DeletionType(sets))
  BY DEF LibraryInv, SetsFit, DrivesFit, WorkersFit, ResultsFit
<1>4. ASSUME NEW error \in {"", "removed", "error"} PROVE Deletion(error, deleter) \in DeletionType(sets)
  <2>1. CatalogOf(deleter) \in CatalogType(sets) /\ deleter.set \in 0..sets
    BY <1>3, WorkerFits DEF WorkerType
  <2> QED  BY <2>1 DEF Deletion, DeletionType
<1>5. deleter' \in WorkerType(sets) /\ deleted' \in Seq(DeletionType(sets))
  <2>1. CASE RemoveSet
    <3>1. RefusalOf(deleter) \in {"", "removed", "error"}
      BY DEF RefusalOf
    <3>2. \/ deleter' = [deleter EXCEPT !.at = "end"]
          \/ deleter' = [deleter EXCEPT !.at = "read", !.todo = OnDrive(deleter.drive) \ {deleter.set}]
      BY <2>1 DEF RemoveSet
    <3>3. OnDrive(deleter.drive) \ {deleter.set} \in SUBSET (1..sets)
      BY <1>3, WorkerFits
    <3>4. /\ [deleter EXCEPT !.at = "end"] \in WorkerType(sets)
          /\ [deleter EXCEPT !.at = "read", !.todo = OnDrive(deleter.drive) \ {deleter.set}] \in WorkerType(sets)
      BY <1>3, <3>3, WorkerFits
    <3>5. deleter' \in WorkerType(sets)
      BY <3>2, <3>4
    <3>6. deleted' = deleted \/ \E error \in {"", "removed", "error"} : deleted' = Append(deleted, Deletion(error, deleter))
      BY <2>1, <3>1 DEF RemoveSet
    <3>7. deleted' \in Seq(DeletionType(sets))
      <4>1. CASE deleted' = deleted
        BY <1>3, <4>1
      <4>2. CASE \E error \in {"", "removed", "error"} : deleted' = Append(deleted, Deletion(error, deleter))
        <5>1. PICK d \in DeletionType(sets) : deleted' = Append(deleted, d)
          BY <1>4, <4>2
        <5> QED  BY <1>3, <5>1, AppendProperties
      <4> QED  BY <3>6, <4>1, <4>2
    <3> QED  BY <3>5, <3>7
  <2>2. CASE DeleterReads
    BY <1>3, <2>2, WorkerFits DEF DeleterReads, results
  <2>3. CASE DeleterPuts
    <3>1. [deleter EXCEPT !.at = "end"] \in WorkerType(sets)
      BY <1>3, WorkerFits
    <3>2. Deletion("", deleter) \in DeletionType(sets)
      BY <1>4
    <3>3. Append(deleted, Deletion("", deleter)) \in Seq(DeletionType(sets))
      BY <1>3, <3>2, AppendProperties
    <3> QED  BY <2>3, <3>1, <3>3 DEF DeleterPuts
  <2>4. CASE DeleterEnds
    <3>1. 0 \in 0..sets /\ NoDrive \in Drives \cup {NoDrive}
      BY <1>3
    <3>2. Resting \in WorkerType(sets)
      BY <1>3, <3>1, RequestFits
    <3> QED  BY <1>3, <2>4, <3>2 DEF DeleterEnds, results
  <2> QED  BY <2>1, <2>2, <2>3, <2>4 DEF Deleting
<1>6. DrivesFit'
  BY <1>1, <1>2, <1>3 DEF LibraryInv, DrivesFit
<1>7. WorkersFit'
  BY <1>1, <1>2, <1>5 DEF LibraryInv, WorkersFit
<1>8. ResultsFit'
  BY <1>1, <1>2, <1>5 DEF LibraryInv, ResultsFit
<1> QED  BY <1>1, <1>2, <1>6, <1>7, <1>8, PartsStay DEF LibraryInv

-----------------------------------------------------------------------------
(* The Qt thread.                                                          *)
LEMMA PollMovesFits ==
  ASSUME LibraryInv, PollBegins \/ PollGoesOn
  PROVE  LibraryInv'
<1>1. UNCHANGED <<drives, receiver, page, list, workers, results>>
  BY DEF PollBegins, PollGoesOn
<1>2. sets' = sets /\ UNCHANGED <<events, captures, shooting, plugged, active, stored>>
  BY <1>1 DEF receiver, drives
<1>3. polling' \in 0..4
  BY DEF LibraryInv, PollBegins, PollGoesOn
<1> QED  BY <1>1, <1>2, <1>3, PartsStay DEF LibraryInv

(* The first of a queue is taken.                                          *)
LEMMA TakenFits ==
  ASSUME NEW T, NEW q \in Seq(T), q # <<>>
  PROVE  Head(q) \in T /\ Tail(q) \in Seq(T)
BY HeadTailProperties

LEMMA HandleEventFits ==
  ASSUME LibraryInv, HandleEvent
  PROVE  LibraryInv'
<1>1. /\ events # <<>> /\ events' = Tail(events)
      /\ UNCHANGED <<drives, sets, captures, shooting, list, workers, results, polling>>
  BY DEF HandleEvent
<1>2. /\ sets \in Nat /\ events \in Seq(EventType(sets)) /\ route \in Pages /\ frames \in 0..sets
      /\ UiFits(ui, sets)
  BY DEF LibraryInv, SetsFit, EventsFit, PageFits
<1>3. Head(events) \in EventType(sets) /\ Tail(events) \in Seq(EventType(sets))
  BY <1>1, <1>2, TakenFits
<1>4. PICK p : p = Apply(ui, Head(events))
  OBVIOUS
<1>5. UiFits(p, sets)
  BY <1>2, <1>3, <1>4, ApplyFits
<1>6. route' \in Pages /\ frames' \in 0..sets /\ UiFits(ui', sets)
  <2>1. CASE p.image = NoReview \/ Readable(p.image)
    <3>1. /\ ui' = p /\ frames' = Loaded(p)
          /\ route' = CASE Screen(p) \in {"progress", "review"} -> Screen(p)
                        [] OTHER -> IF route \in {"progress", "review"} THEN "ready" ELSE route
      BY <1>4, <2>1 DEF HandleEvent
    <3>2. route' \in Pages
      BY <1>2, <3>1 DEF Pages
    <3>3. frames' \in 0..sets
      BY <1>2, <1>5, <3>1 DEF Loaded, UiFits
    <3> QED  BY <1>5, <3>1, <3>2, <3>3
  <2>2. CASE ~(p.image = NoReview \/ Readable(p.image))
    <3>1. ui' = Apply(Starting, Event("ERROR")) /\ frames' = NoSet /\ route' = "ready"
      BY <1>4, <2>2 DEF HandleEvent
    <3>2. 0 \in 0..sets
      BY <1>2
    <3>3. Event("ERROR") \in EventType(sets) /\ UiFits(Starting, sets)
      BY <1>2, <3>2, EventsMade, StartingFits
    <3>4. UiFits(ui', sets)
      BY <1>2, <3>1, <3>3, ApplyFits
    <3> QED  BY <3>1, <3>2, <3>4 DEF Pages, NoSet
  <2> QED  BY <2>1, <2>2
<1>7. PageFits'
  BY <1>1, <1>6 DEF PageFits
<1>8. EventsFit'
  BY <1>1, <1>3 DEF EventsFit
<1>9. UNCHANGED <<plugged, active, stored>>
  BY <1>1 DEF drives
<1> QED  BY <1>1, <1>7, <1>8, <1>9, PartsStay DEF LibraryInv

LEMMA ApplyCatalogFits ==
  ASSUME LibraryInv, ApplyCatalog
  PROVE  LibraryInv'
<1>1. /\ catalogs # <<>> /\ catalogs' = Tail(catalogs)
      /\ items' = ItemsOf(Head(catalogs)) /\ selected' = SameSet(items') /\ status' = Head(catalogs).status
      /\ UNCHANGED <<drives, receiver, page, dialog, workers, opened, deleted, polling>>
  BY DEF ApplyCatalog
<1>2. sets' = sets /\ UNCHANGED <<events, captures, shooting, plugged, active, stored>>
  BY <1>1 DEF receiver, drives
<1>3. sets \in Nat /\ catalogs \in Seq(CatalogType(sets)) /\ dialog \in 0..sets
  BY DEF LibraryInv, SetsFit, ResultsFit, ListFits
<1>4. Head(catalogs) \in CatalogType(sets) /\ Tail(catalogs) \in Seq(CatalogType(sets))
  BY <1>1, <1>3, TakenFits
<1>5. items' \in Seq(1..sets)
  BY <1>1, <1>3, <1>4, ItemsFit
<1>6. IsPlace(selected', items')
  BY <1>1, <1>5, PlacesFit
<1>7. status' \in Statuses
  BY <1>1, <1>4 DEF CatalogType, Statuses
<1>8. ListFits'
  BY <1>1, <1>2, <1>3, <1>5, <1>6, <1>7 DEF ListFits, IsPlace
<1>9. ResultsFit'
  BY <1>1, <1>2, <1>4 DEF LibraryInv, ResultsFit
<1> QED  BY <1>1, <1>2, <1>8, <1>9, PartsStay DEF LibraryInv

LEMMA ApplyOpenedFits ==
  ASSUME LibraryInv, ApplyOpened
  PROVE  LibraryInv'
<1>1. /\ opened # <<>> /\ opened' = Tail(opened)
      /\ UNCHANGED <<drives, receiver, ui, items, selected, dialog, workers, catalogs, deleted, polling>>
      /\ route' \in {"viewer", "library"} /\ status' \in {"ready", "removed"}
      /\ frames' \in {frames, Head(opened)}
  BY DEF ApplyOpened
<1>2. sets' = sets /\ UNCHANGED <<events, captures, shooting, plugged, active, stored>>
  BY <1>1 DEF receiver, drives
<1>3. Head(opened) \in 0..sets /\ Tail(opened) \in Seq(0..sets)
  <2>1. PICK T : T = 0..sets
    OBVIOUS
  <2>2. opened \in Seq(T)
    BY <2>1 DEF LibraryInv, ResultsFit
  <2> QED  BY <1>1, <2>1, <2>2, TakenFits
<1>4. PageFits'
  BY <1>1, <1>2, <1>3 DEF LibraryInv, PageFits, Pages
<1>5. ListFits'
  BY <1>1, <1>2 DEF LibraryInv, ListFits, Statuses
<1>6. ResultsFit'
  BY <1>1, <1>2, <1>3 DEF LibraryInv, ResultsFit
<1> QED  BY <1>1, <1>2, <1>4, <1>5, <1>6, PartsStay DEF LibraryInv

LEMMA ApplyDeletedFits ==
  ASSUME LibraryInv, ApplyDeleted
  PROVE  LibraryInv'
<1>1. /\ deleted # <<>> /\ deleted' = Tail(deleted) /\ dialog' = NoSet /\ route' = "library"
      /\ UNCHANGED <<drives, receiver, ui, workers, catalogs, opened, polling>>
  BY DEF ApplyDeleted, PageAfterDeletion
<1>2. sets' = sets /\ UNCHANGED <<events, captures, shooting, plugged, active, stored>>
  BY <1>1 DEF receiver, drives
<1>3. /\ sets \in Nat /\ deleted \in Seq(DeletionType(sets)) /\ items \in Seq(1..sets)
      /\ IsPlace(selected, items) /\ frames \in 0..sets
  BY DEF LibraryInv, SetsFit, ResultsFit, ListFits, PageFits, IsPlace
<1>4. PICK d : d = Head(deleted)
  OBVIOUS
<1>5. d \in DeletionType(sets) /\ Tail(deleted) \in Seq(DeletionType(sets))
  BY <1>1, <1>3, <1>4, TakenFits
<1>6. 0 \in 0..sets
  BY <1>3
<1>7. items' \in Seq(1..sets) /\ IsPlace(selected', items') /\ status' \in Statuses /\ frames' \in 0..sets
  <2>1. CASE d.error # ""
    <3>1. status' = d.error /\ UNCHANGED <<items, selected, frames>>
      BY <1>4, <2>1 DEF ApplyDeleted
    <3>2. status' \in Statuses
      BY <1>5, <2>1, <3>1 DEF DeletionType, Statuses
    <3> QED  BY <1>3, <3>1, <3>2
  <2>2. CASE d.error = ""
    <3>1. /\ items' = ItemsOf(d.catalog) /\ status' = d.catalog.status /\ frames' = NoSet
          /\ selected' = IF items' = <<>> THEN 0
                         ELSE IF Contains(items, d.set) THEN Smaller(Position(items, d.set), Len(items'))
                         ELSE 1
      BY <1>4, <2>2 DEF ApplyDeleted
    <3>2. d.catalog \in CatalogType(sets)
      BY <1>5 DEF DeletionType
    <3>3. items' \in Seq(1..sets)
      BY <1>3, <3>1, <3>2, ItemsFit
    <3>4. status' \in Statuses
      BY <3>1, <3>2 DEF CatalogType, Statuses
    <3>5. IsPlace(selected', items')
      <4>1. CASE items' = <<>>
        <5>1. selected' = 0 /\ Len(items') = 0
          BY <3>1, <3>3, <4>1, PlacesFit
        <5> QED  BY <4>1, <5>1 DEF IsPlace
      <4>2. CASE items' # <<>>
        <5>1. PICK k \in Nat \ {0} : k = Len(items')
          BY <3>3, <4>2, PlacesFit
        <5>2. CASE Contains(items, d.set)
          <6>1. PICK l \in Nat : l = Len(items)
            BY <1>3, LenProperties
          <6>2. Position(items, d.set) \in 1..l
            BY <1>3, <5>2, <6>1, PlacesFit
          <6>3. selected' = Smaller(Position(items, d.set), k)
            BY <3>1, <4>2, <5>1, <5>2
          <6>4. selected' \in 1..k
            BY <6>1, <6>2, <6>3 DEF Smaller
          <6> QED  BY <4>2, <5>1, <6>4 DEF IsPlace
        <5>3. CASE ~Contains(items, d.set)
          <6>1. selected' = 1 /\ 1 \in 0..k
            BY <3>1, <4>2, <5>1, <5>3
          <6> QED  BY <4>2, <5>1, <6>1 DEF IsPlace
        <5> QED  BY <5>2, <5>3
      <4> QED  BY <4>1, <4>2
    <3> QED  BY <1>6, <3>1, <3>3, <3>4, <3>5 DEF NoSet
  <2> QED  BY <2>1, <2>2
<1>8. ListFits'
  BY <1>1, <1>2, <1>6, <1>7 DEF ListFits, IsPlace, NoSet
<1>9. PageFits'
  BY <1>1, <1>2, <1>7 DEF LibraryInv, PageFits, Pages
<1>10. ResultsFit'
  BY <1>1, <1>2, <1>5 DEF LibraryInv, ResultsFit
<1> QED  BY <1>1, <1>2, <1>8, <1>9, <1>10, PartsStay DEF LibraryInv

-----------------------------------------------------------------------------
(* The user.                                                               *)
LEMMA ChosenFits ==
  ASSUME LibraryInv
  PROVE  Chosen \in 0..sets
<1>1. sets \in Nat /\ items \in Seq(1..sets) /\ selected \in 0..Len(items)
  BY DEF LibraryInv, SetsFit, ListFits
<1>2. CASE selected = 0
  BY <1>1, <1>2 DEF Chosen, NoSet
<1>3. CASE selected # 0
  <2>1. PICK k \in Nat : k = Len(items)
    BY <1>1, LenProperties
  <2>2. selected \in 1..k
    BY <1>1, <1>3, <2>1
  <2>3. items[selected] \in 1..sets
    BY <1>1, <2>1, <2>2
  <2> QED  BY <1>1, <1>3, <2>3 DEF Chosen
<1> QED  BY <1>2, <1>3

(* A tap: on a page's button, a card, or in the dialog.                    *)
LEMMA UserFits ==
  ASSUME LibraryInv, User
  PROVE  LibraryInv'
<1>1. UNCHANGED <<drives, receiver, ui, frames, items, results, polling>>
  BY DEF User, Navigate, Select, Open, Prompt, Cancel, Confirm, page
<1>2. sets' = sets /\ UNCHANGED <<events, captures, shooting, plugged, active, stored>>
  BY <1>1 DEF receiver, drives
<1>3. /\ sets \in Nat /\ Chosen \in 0..sets /\ dialog \in 0..sets /\ active \in Drives \cup {NoDrive}
      /\ scanner \in WorkerType(sets) /\ opener \in WorkerType(sets) /\ deleter \in WorkerType(sets)
      /\ route \in Pages /\ status \in Statuses /\ items \in Seq(1..sets) /\ IsPlace(selected, items)
  BY ChosenFits DEF LibraryInv, SetsFit, ListFits, DrivesFit, WorkersFit, PageFits, IsPlace
<1>4. 0 \in 0..sets /\ NoDrive \in Drives \cup {NoDrive}
  BY <1>3
<1>5. route' \in Pages
  <2>1. route' = route \/ route' \in Pages
    BY DEF User, Navigate, Select, Open, Prompt, Cancel, Confirm, page
  <2> QED  BY <1>3, <2>1
<1>6. status' \in Statuses
  <2>1. status' = status \/ status' \in {"loading", "deleting"}
    BY DEF User, Navigate, Select, Open, Prompt, Cancel, Confirm
  <2> QED  BY <1>3, <2>1 DEF Statuses
<1>7. dialog' \in 0..sets
  <2>1. dialog' \in {dialog, NoSet, Chosen}
    BY DEF User, Navigate, Select, Open, Prompt, Cancel, Confirm
  <2> QED  BY <1>3, <1>4, <2>1 DEF NoSet
<1>8. IsPlace(selected', items')
  <2>1. selected' = selected \/ selected' \in 1..Len(items)
    BY DEF User, Navigate, Select, Open, Prompt, Cancel, Confirm
  <2>2. CASE selected' = selected
    BY <1>1, <1>3, <2>2
  <2>3. CASE selected' \in 1..Len(items)
    <3>1. PICK k \in Nat : k = Len(items)
      BY <1>3, LenProperties
    <3>2. selected' \in 0..k /\ selected' # 0 /\ k # 0
      BY <2>3, <3>1
    <3>3. items # <<>>
      BY <3>1, <3>2, EmptySeq
    <3> QED  BY <1>1, <3>1, <3>2, <3>3 DEF IsPlace
  <2> QED  BY <2>1, <2>2, <2>3
<1>9. /\ scanner' = scanner \/ scanner' = Requested(scanner, Request(NoSet, NoDrive))
      /\ opener' = opener \/ opener' = Requested(opener, Request(Chosen, NoDrive))
      /\ deleter' = deleter \/ deleter' = Requested(deleter, Request(dialog, active))
  BY DEF User, Navigate, Select, Open, Prompt, Cancel, Confirm, workers, Doomed
<1>10. scanner' \in WorkerType(sets)
  <2>1. Requested(scanner, Request(0, NoDrive)) \in WorkerType(sets)
    BY <1>3, <1>4, RequestFits
  <2> QED  BY <1>3, <1>9, <2>1 DEF NoSet
<1>11. opener' \in WorkerType(sets)
  BY <1>3, <1>4, <1>9, RequestFits
<1>12. deleter' \in WorkerType(sets)
  BY <1>3, <1>9, RequestFits
<1>13. PageFits'
  BY <1>1, <1>2, <1>5 DEF LibraryInv, PageFits
<1>14. ListFits'
  BY <1>1, <1>2, <1>3, <1>6, <1>7, <1>8 DEF ListFits, IsPlace
<1>15. WorkersFit'
  BY <1>2, <1>10, <1>11, <1>12 DEF WorkersFit
<1> QED  BY <1>1, <1>2, <1>13, <1>14, <1>15, PartsStay DEF LibraryInv

-----------------------------------------------------------------------------
LEMMA LibraryInit == Init => LibraryInv
<1> SUFFICES ASSUME Init PROVE LibraryInv
  OBVIOUS
<1>1. PICK last : last = DriveOrder[Len(DriveOrder)]
  OBVIOUS
<1>2. last \in Drives
  <2>1. DriveOrder \in Seq(Range(DriveOrder)) /\ DriveOrder # <<>>
    BY LibraryAssumption
  <2>2. DOMAIN DriveOrder = 1..Len(DriveOrder) /\ Len(DriveOrder) \in 1..Len(DriveOrder)
    <3>1. PICK k \in Nat : k = Len(DriveOrder)
      BY <2>1, LenProperties
    <3>2. k # 0
      BY <2>1, <3>1, EmptySeq
    <3>3. k \in 1..k
      BY <3>2
    <3> QED  BY <2>1, <3>1, <3>3, LenProperties
  <2> QED  BY <1>1, <2>2 DEF Drives, Range
<1>3. sets = OldSets /\ OldSets \in Nat /\ 0 \in 0..sets
  BY LibraryAssumption DEF Init
<1>4. DrivesFit
  BY <1>1, <1>2, <1>3 DEF Init, DrivesFit
<1>5. SetsFit
  <2>1. captures = 0 /\ shooting \in BOOLEAN /\ (IF shooting THEN 1 ELSE 0) = 0
    BY DEF Init
  <2> QED  BY <1>3, <2>1, LibraryAssumption DEF SetsFit
<1>6. EventsFit
  BY DEF Init, EventsFit
<1>7. PageFits
  <2>1. UiFits(Apply(Starting, Event("READY")), sets)
    BY <1>3, StartingFits, EventsMade, ApplyFits
  <2> QED  BY <1>3, <2>1 DEF Init, PageFits, Pages, NoSet
<1>8. ListFits
  BY <1>3 DEF Init, ListFits, Statuses, NoSet
<1>9. WorkersFit
  <2>1. Resting \in WorkerType(sets)
    BY <1>3 DEF Resting, WorkerType, NoSet
  <2> QED  BY <2>1 DEF Init, WorkersFit
<1>10. ResultsFit
  BY DEF Init, ResultsFit
<1>11. polling \in 0..4
  BY DEF Init
<1> QED  BY <1>4, <1>5, <1>6, <1>7, <1>8, <1>9, <1>10, <1>11 DEF LibraryInv

LEMMA LibraryStep == LibraryInv /\ [Next]_vars => LibraryInv'
<1> SUFFICES ASSUME LibraryInv, [Next]_vars PROVE LibraryInv'
  OBVIOUS
<1>1. ASSUME NEW d \in Drives, Swap(d) PROVE LibraryInv'
  BY <1>1, SwapFits
<1>2. CASE UNCHANGED vars
  <2>1. UNCHANGED <<drives, receiver, page, list, workers, results, polling>>
    BY <1>2 DEF vars
  <2>2. sets' = sets /\ UNCHANGED <<events, captures, shooting, plugged, active, stored>>
    BY <2>1 DEF receiver, drives
  <2> QED  BY <2>1, <2>2, PartsStay DEF LibraryInv
<1> QED
  BY <1>1, <1>2, ResolveElsewhereFits, ReceiverFits, EndCaptureFits, ScanFits, OpeningFits,
     DeletingFits,
     PollMovesFits, HandleEventFits, ApplyCatalogFits, ApplyOpenedFits, ApplyDeletedFits, UserFits
     DEF Next, Workers, Poll

(* Every variable holds a value of its type: the list, the dialog, the     *)
(* frames and the workers name sets that were committed, and a place is    *)
(* selected whenever the list has one.                                     *)
THEOREM LibraryTypes == Spec => []TypeOK
<1>1. LibraryInv => TypeOK
  <2> SUFFICES ASSUME LibraryInv PROVE TypeOK
    OBVIOUS
  <2>1. sets \in OldSets..MaxSets
    BY LibraryAssumption DEF LibraryInv, SetsFit, MaxSets
  <2>2. ASSUME NEW w \in WorkerType(sets)
        PROVE  w.at \in {"idle", "start", "read", "end"} /\ w.todo \cup w.found \subseteq 1..sets
    BY DEF WorkerType
  <2>3. \A w \in {scanner, opener, deleter} :
          w.at \in {"idle", "start", "read", "end"} /\ w.todo \cup w.found \subseteq 1..sets
    BY <2>2 DEF LibraryInv, WorkersFit
  <2> QED  BY <2>1, <2>3 DEF LibraryInv, TypeOK, DrivesFit, PageFits, ListFits
<1> QED  BY <1>1, LibraryInit, LibraryStep, PTL DEF Spec
=============================================================================
