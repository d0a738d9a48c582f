-------------------------------- MODULE Library --------------------------------
(***************************************************************************)
(* The library of the touchscreen: QtUiController on the Qt thread, three  *)
(* worker threads that scan the drive, decode an animation and delete a    *)
(* set, the queues that bring their results back, and the drives under it. *)
(*                                                                         *)
(* Capture sets are numbered in the order of their names, each is on the   *)
(* drive it was committed to.  The receiver is reduced to captures that    *)
(* start and end.  The ready, control and capture pages have the same way  *)
(* to the library and are one page here, "ready".                          *)
(***************************************************************************)
EXTENDS Presentation, Sequences, SequencesExt

CONSTANTS DriveOrder,  \* the drives, in the order in which resolve() tries them
          OldSets,     \* capture sets that are there at the start
          MaxCaptures, \* bound on captures
          MaxTurns,    \* bound on drives plugged in or pulled and on other messages
          MaxRequests  \* bound on the requests to the workers

ASSUME LibraryAssumption ==
  /\ OldSets \in Nat /\ MaxCaptures \in Nat
  /\ MaxTurns \in Nat /\ MaxRequests \in Nat
  /\ DriveOrder \in Seq(Range(DriveOrder)) /\ DriveOrder # <<>>

VARIABLES
  plugged,   \* the drives that are mounted
  active,    \* active_root: the drive that was resolved last
  home,      \* the drive of each set
  stored,    \* the sets whose directory can be listed as published
  turns,     \* drives plugged in or pulled and other messages so far
  sets,      \* the sets that were committed
  captures,  \* captures started so far
  shooting,  \* a capture is under way
  events,    \* the queue of events
  ui,        \* PresentationState
  route,     \* the page that is shown
  frames,    \* the set whose frames are played
  items,     \* library_items
  selected,  \* selected_library_index, from 1, 0 for none
  status,    \* catalog_status
  dialog,    \* pending_delete_entry, in a dialog that is visible
  scanner,   \* the worker of a catalog refresh
  opener,    \* the worker that decodes an animation
  deleter,   \* the worker that deletes a set
  catalogs,  \* catalog_results
  opened,    \* catalog_open_results
  deleted,   \* catalog_delete_results
  polling,   \* which queue poll_events() drains, 0 between two polls
  agreed,    \* observer: the sets whose title was confirmed
  asked,     \* requests to the workers so far
  dropped    \* observer: the last request came too late for its worker

drives == <<plugged, active, home, stored, turns>>
receiver == <<sets, captures, shooting, events>>
page == <<ui, route, frames>>
list == <<items, selected, status, dialog>>
workers == <<scanner, opener, deleter>>
results == <<catalogs, opened, deleted>>
observed == <<agreed, asked, dropped>>
vars == <<drives, receiver, page, list, workers, results, polling, observed>>

MaxSets == OldSets + MaxCaptures
Drives == Range(DriveOrder)
NoDrive == "no drive"
NoSet == 0
Pages == {"ready", "progress", "review", "library", "viewer"}
Statuses == {"idle", "loading", "deleting", "ready", "unavailable", "removed", "error"}
Resting == [at |-> "idle", set |-> NoSet, drive |-> NoDrive, todo |-> {}, found |-> {}]

Catalog(st, found) == [status |-> st, sets |-> found]
NthNewest(ids, n) == CHOOSE s \in ids : Cardinality({t \in ids : t > s}) = n - 1
OnDrive(d) == {s \in stored : home[s] = d}
Readable(s) == s \in stored /\ home[s] \in plugged

Init ==
  /\ plugged = {DriveOrder[Len(DriveOrder)]} /\ active = NoDrive
  /\ home = [s \in 1..MaxSets |-> DriveOrder[Len(DriveOrder)]]
  /\ stored = 1..OldSets /\ turns = 0
  /\ sets = OldSets /\ captures = 0 /\ shooting = FALSE /\ events = <<>>
  /\ ui = Apply(Starting, Event("READY")) /\ route = "ready" /\ frames = NoSet
  /\ items = <<>> /\ selected = 0 /\ status = "idle" /\ dialog = NoSet
  /\ scanner = Resting /\ opener = Resting /\ deleter = Resting
  /\ catalogs = <<>> /\ opened = <<>> /\ deleted = <<>>
  /\ polling = 0 /\ agreed = {} /\ asked = 0 /\ dropped = FALSE

-----------------------------------------------------------------------------
(* Drives, and the receiver.                                               *)

Swap(d) ==
  /\ turns < MaxTurns
  /\ plugged' = IF d \in plugged THEN plugged \ {d} ELSE plugged \cup {d}
  /\ turns' = turns + 1
  /\ UNCHANGED <<active, home, stored, receiver, page, list, workers, results, polling, observed>>

(* resolve(): the first drive in the order that is mounted and writable.   *)
Resolved ==
  IF plugged = {} THEN NoDrive
  ELSE DriveOrder[CHOOSE i \in 1..Len(DriveOrder) :
         DriveOrder[i] \in plugged /\ \A j \in 1..(i - 1) : DriveOrder[j] \notin plugged]

(* The worker of the storage figures and the receiver's threads resolve,   *)
(* too, whenever they like.                                                *)
ResolveElsewhere ==
  /\ active' = Resolved
  /\ UNCHANGED <<plugged, home, stored, turns, receiver, page, list, workers, results, polling, observed>>

StartCapture ==
  /\ ~shooting /\ captures < MaxCaptures
  /\ shooting' = TRUE /\ captures' = captures + 1
  /\ events' = Append(events, [Event("LOADING") EXCEPT !.phase = "capturing"])
  /\ UNCHANGED <<drives, sets, page, list, workers, results, polling, observed>>

(* _finalize_if_ready(): the set goes to the drive that is resolved now.   *)
EndCapture ==
  /\ shooting
  /\ shooting' = FALSE
  /\ active' = Resolved
  /\ IF Resolved = NoDrive
       THEN /\ events' = Append(events, Event("ERROR"))
            /\ UNCHANGED <<sets, home, stored>>
       ELSE /\ sets' = sets + 1
            /\ home' = [home EXCEPT ![sets'] = Resolved]
            /\ stored' = stored \cup {sets'}
            /\ events' = Append(events, [Event("REVIEW") EXCEPT !.image = sets', !.manifest = sets'])
  /\ UNCHANGED <<plugged, turns, captures, page, list, workers, results, polling, observed>>

(* A node is connected.  The errors the receiver reports outside a capture *)
(* have the same effect on the pages.                                      *)
Message ==
  /\ ~shooting /\ turns < MaxTurns
  /\ turns' = turns + 1
  /\ events' = Append(events, Event("READY"))
  /\ UNCHANGED <<plugged, active, home, stored, sets, captures, shooting, page, list, workers, results, polling, observed>>

-----------------------------------------------------------------------------
(* The workers.  Each takes one request at a time: at is idle when its     *)
(* running flag is clear, and "end" between its result and that.           *)

(* scan_capture_catalog() on w.drive: the names, then each directory, then *)
(* another look at the drive.  A set is in the result if it could be read  *)
(* when its turn came.                                                     *)
Listed(w) ==
  IF w.drive \notin plugged THEN [w EXCEPT !.at = "end"]
  ELSE [w EXCEPT !.at = "read", !.todo = OnDrive(w.drive)]

Read(w) ==
  LET s == NthNewest(w.todo, 1)
  IN [w EXCEPT !.todo = @ \ {s}, !.found = IF Readable(s) THEN @ \cup {s} ELSE @]

CatalogOf(w) ==
  IF w.drive = NoDrive THEN Catalog("unavailable", {})
  ELSE IF w.drive \notin plugged THEN Catalog("removed", {})
  ELSE Catalog("ready", w.found)

(* refresh_catalog(), as the thread runs.                                  *)
ScanStart ==
  /\ scanner.at = "start"
  /\ active' = Resolved
  /\ LET w == Listed([scanner EXCEPT !.drive = Resolved])
     IN /\ scanner' = w
        /\ catalogs' = IF w.at = "end" THEN Append(catalogs, CatalogOf(w)) ELSE catalogs
  /\ UNCHANGED <<plugged, home, stored, turns, receiver, page, list, opener, deleter, opened, deleted, polling, observed>>

ScanRead ==
  /\ scanner.at = "read" /\ scanner.todo # {}
  /\ scanner' = Read(scanner)
  /\ UNCHANGED <<drives, receiver, page, list, opener, deleter, results, polling, observed>>

(* Faulty variant: a drive that was pulled meanwhile leaves no result.     *)
ReportIfThere(w) == IF w.drive \in plugged THEN Append(catalogs, CatalogOf(w)) ELSE catalogs

Report(w) == Append(catalogs, CatalogOf(w))

ScanPut ==
  /\ scanner.at = "read" /\ scanner.todo = {}
  /\ scanner' = [scanner EXCEPT !.at = "end"]
  /\ catalogs' = Report(scanner)
  /\ UNCHANGED <<drives, receiver, page, list, opener, deleter, opened, deleted, polling, observed>>

(* The flag is cleared once the result is in the queue.                    *)
ScanEnd ==
  /\ scanner.at = "end"
  /\ scanner' = Resting
  /\ UNCHANGED <<drives, receiver, page, list, opener, deleter, results, polling, observed>>

Scan == ScanStart \/ ScanRead \/ ScanPut \/ ScanEnd

(* open_catalog_entry(): decode(), to the frames of the set or an error.   *)
Decode ==
  /\ opener.at = "start"
  /\ opener' = [opener EXCEPT !.at = "end"]
  /\ opened' = Append(opened, IF Readable(opener.set) THEN opener.set ELSE NoSet)
  /\ UNCHANGED <<drives, receiver, page, list, scanner, deleter, catalogs, deleted, polling, observed>>

DecodeEnd ==
  /\ opener.at = "end"
  /\ opener' = Resting
  /\ UNCHANGED <<drives, receiver, page, list, scanner, deleter, results, polling, observed>>

(* What deleting w.set has come to: an error, or the catalog that is left. *)
Deletion(error, w) == [set |-> w.set, error |-> error, catalog |-> CatalogOf(w)]

(* delete_catalog_entry(): the set must be one of the drive that was       *)
(* active when the user agreed, whatever has been resolved since.          *)
RefusalOf(w) ==
  IF w.drive \notin plugged THEN "removed"
  ELSE IF w.set \notin OnDrive(w.drive) THEN "error" ELSE ""

(* A drive that is pulled meanwhile leaves a part of the set, which counts *)
(* as whole or as gone.                                                    *)
RemoveSet ==
  /\ deleter.at = "start"
  /\ \/ /\ RefusalOf(deleter) # ""
        /\ deleter' = [deleter EXCEPT !.at = "end"]
        /\ deleted' = Append(deleted, Deletion(RefusalOf(deleter), deleter))
        /\ UNCHANGED <<stored, plugged, turns>>
     \/ /\ RefusalOf(deleter) = ""
        /\ stored' = stored \ {deleter.set}
        /\ deleter' = [deleter EXCEPT !.at = "read", !.todo = OnDrive(deleter.drive) \ {deleter.set}]
        /\ UNCHANGED <<deleted, plugged, turns>>
     \/ /\ RefusalOf(deleter) = "" /\ turns < MaxTurns
        /\ stored' \in {stored, stored \ {deleter.set}}
        /\ plugged' = plugged \ {deleter.drive} /\ turns' = turns + 1
        /\ deleter' = [deleter EXCEPT !.at = "end"]
        /\ deleted' = Append(deleted, Deletion("removed", deleter))
  /\ UNCHANGED <<active, home, receiver, page, list, scanner, opener, catalogs, opened, polling, observed>>

DeleterReads ==
  /\ deleter.at = "read" /\ deleter.todo # {}
  /\ deleter' = Read(deleter)
  /\ UNCHANGED <<drives, receiver, page, list, scanner, opener, results, polling, observed>>

DeleterPuts ==
  /\ deleter.at = "read" /\ deleter.todo = {}
  /\ deleter' = [deleter EXCEPT !.at = "end"]
  /\ deleted' = Append(deleted, Deletion("", deleter))
  /\ UNCHANGED <<drives, receiver, page, list, scanner, opener, catalogs, opened, polling, observed>>

DeleterEnds ==
  /\ deleter.at = "end"
  /\ deleter' = Resting
  /\ UNCHANGED <<drives, receiver, page, list, scanner, opener, results, polling, observed>>

Opening == Decode \/ DecodeEnd
Deleting == RemoveSet \/ DeleterReads \/ DeleterPuts \/ DeleterEnds
Workers == Scan \/ Opening \/ Deleting

-----------------------------------------------------------------------------
(* The Qt thread: poll_events() drains the queues one after the other; the *)
(* user is served between two polls.                                       *)

Position(seq, s) == IF Contains(seq, s) THEN CHOOSE i \in 1..Len(seq) : seq[i] = s ELSE 0
Chosen == IF selected = 0 THEN NoSet ELSE items[selected]
ItemsOf(catalog) == [i \in 1..Cardinality(catalog.sets) |-> NthNewest(catalog.sets, i)]
Smaller(m, n) == IF m <= n THEN m ELSE n

Queues == <<events, catalogs, opened, deleted>>

(* A poll in which nothing arrives would change nothing.                   *)
PollBegins ==
  /\ polling = 0 /\ \E i \in 1..4 : Queues[i] # <<>>
  /\ polling' = 1
  /\ UNCHANGED <<drives, receiver, page, list, workers, results, observed>>

Drained == polling > 0 /\ Queues[polling] = <<>>

PollGoesOn ==
  /\ Drained
  /\ polling' = (polling + 1) % 5
  /\ UNCHANGED <<drives, receiver, page, list, workers, results, observed>>

(* Faulty variant: the frames are kept while the review is the same.       *)
LoadedIfNew(p) == IF p.image \in {NoReview, ui.image} THEN frames ELSE p.image

(* _detach_review()                                                        *)
Loaded(p) == IF p.image = NoReview THEN frames ELSE p.image

(* handle_event(): a review that cannot be read resets the presentation.   *)
HandleEvent ==
  /\ polling = 1 /\ events # <<>>
  /\ events' = Tail(events)
  /\ LET p == Apply(ui, Head(events))
     IN IF p.image = NoReview \/ Readable(p.image)
          THEN /\ ui' = p /\ frames' = Loaded(p)
               /\ route' = CASE Screen(p) \in {"progress", "review"} -> Screen(p)
                             [] OTHER -> IF route \in {"progress", "review"} THEN "ready" ELSE route
          ELSE /\ ui' = Apply(Starting, Event("ERROR")) /\ frames' = NoSet /\ route' = "ready"
  /\ UNCHANGED <<drives, sets, captures, shooting, list, workers, results, polling, observed>>

(* Faulty variants: the place in the list is kept; an empty list is        *)
(* forgotten.                                                              *)
SamePlace(found) == IF selected = 0 THEN Smaller(1, Len(found)) ELSE Smaller(selected, Len(found))
OrTheFirst(found) == IF Contains(found, Chosen) THEN Position(found, Chosen) ELSE 1

(* The set that was selected, or the first.                                *)
SameSet(found) == IF Contains(found, Chosen) THEN Position(found, Chosen) ELSE Smaller(1, Len(found))

(* apply_catalog()                                                         *)
ApplyCatalog ==
  /\ polling = 2 /\ catalogs # <<>>
  /\ catalogs' = Tail(catalogs)
  /\ items' = ItemsOf(Head(catalogs)) /\ selected' = SameSet(items')
  /\ status' = Head(catalogs).status
  /\ UNCHANGED <<drives, receiver, page, dialog, workers, opened, deleted, polling, observed>>

(* apply_opened_catalog()                                                  *)
ApplyOpened ==
  /\ polling = 3 /\ opened # <<>>
  /\ opened' = Tail(opened)
  /\ IF Head(opened) # NoSet
       THEN frames' = Head(opened) /\ status' = "ready" /\ route' = "viewer"
       ELSE status' = "removed" /\ route' = "library" /\ UNCHANGED frames
  /\ UNCHANGED <<drives, receiver, ui, items, selected, dialog, workers, catalogs, deleted, polling, observed>>

(* Faulty variant: the page stays.                                         *)
PageStays == route

PageAfterDeletion == "library"

(* apply_deleted_catalog(): the place of the set is kept.  An open dialog  *)
(* is closed, whichever set it is about.                                   *)
ApplyDeleted ==
  /\ polling = 4 /\ deleted # <<>>
  /\ deleted' = Tail(deleted)
  /\ dialog' = NoSet /\ route' = PageAfterDeletion
  /\ LET d == Head(deleted)
     IN IF d.error # ""
          THEN status' = d.error /\ UNCHANGED <<items, selected, frames>>
          ELSE /\ items' = ItemsOf(d.catalog) /\ status' = d.catalog.status
               /\ selected' = IF items' = <<>> THEN 0
                              ELSE IF Contains(items, d.set) THEN Smaller(Position(items, d.set), Len(items'))
                              ELSE 1
               /\ frames' = NoSet
  /\ UNCHANGED <<drives, receiver, ui, workers, catalogs, opened, polling, observed>>

Poll == PollBegins \/ PollGoesOn \/ HandleEvent \/ ApplyCatalog \/ ApplyOpened \/ ApplyDeleted

-----------------------------------------------------------------------------
(* The user.                                                               *)

(* A dialog lies over the library and the viewer.                          *)
Shown == dialog # NoSet /\ route \in {"library", "viewer"}
Served == polling = 0 /\ ~Shown

(* A request is refused while its worker's flag is set.  If the worker has *)
(* delivered its result before that, none is on its way.                   *)
Requested(w, request) == IF w.at = "idle" THEN request ELSE w
Asked(w, queue) ==
  /\ asked < MaxRequests
  /\ asked' = asked + 1
  /\ dropped' = (w.at = "end" /\ queue = <<>>)

Request(set, drive) == [Resting EXCEPT !.at = "start", !.set = set, !.drive = drive]

(* navigate(), from the buttons of each page.                              *)
Buttons ==
  [ready |-> {"library"}, progress |-> {}, review |-> {"ready", "library", "viewer"},
   library |-> {"ready"}, viewer |-> {"library"}]

Navigate(to) ==
  /\ Served /\ ~ui.capturing /\ to \in Buttons[route]
  /\ route' = to
  /\ IF to = "library"
       THEN /\ status' = "loading"
            /\ scanner' = Requested(scanner, Request(NoSet, NoDrive))
            /\ Asked(scanner, catalogs)
       ELSE UNCHANGED <<status, scanner, asked, dropped>>
  /\ UNCHANGED <<drives, receiver, ui, frames, items, selected, dialog, opener, deleter, results, polling, agreed>>

(* select_library_item(): a tap on a card, or the first of a page.         *)
Select(i) ==
  /\ Served /\ route = "library"
  /\ selected' = i
  /\ UNCHANGED <<drives, receiver, page, items, status, dialog, workers, results, polling, observed>>

Ready == Served /\ selected # 0 /\ status = "ready" /\ ~ui.capturing

(* open_library_item()                                                     *)
Open ==
  /\ Ready /\ route = "library"
  /\ status' = "loading"
  /\ opener' = Requested(opener, Request(Chosen, NoDrive))
  /\ Asked(opener, opened)
  /\ UNCHANGED <<drives, receiver, page, items, selected, dialog, scanner, deleter, results, polling, agreed>>

(* prompt_delete_selected(), in the library and in the viewer.             *)
Prompt ==
  /\ Ready /\ route \in {"library", "viewer"}
  /\ dialog' = Chosen
  /\ UNCHANGED <<drives, receiver, page, items, selected, status, workers, results, polling, observed>>

Cancel ==
  /\ polling = 0 /\ Shown
  /\ dialog' = NoSet
  /\ UNCHANGED <<drives, receiver, page, items, selected, status, workers, results, polling, observed>>

(* Faulty variant: the set that is selected by now.                        *)
DoomedNow == IF selected = 0 THEN dialog ELSE Chosen

(* The set that was selected when the dialog was opened.                   *)
Doomed == dialog

(* confirm_delete() and remove_catalog_entry().                            *)
Confirm ==
  /\ polling = 0 /\ Shown
  /\ dialog' = NoSet /\ status' = "deleting"
  /\ deleter' = Requested(deleter, Request(Doomed, active))
  /\ Asked(deleter, deleted)
  /\ agreed' = agreed \cup {dialog}
  /\ UNCHANGED <<drives, receiver, page, items, selected, scanner, opener, results, polling>>

User ==
  \/ \E to \in Pages : Navigate(to)
  \/ \E i \in 1..Len(items) : Select(i)
  \/ Open \/ Prompt \/ Cancel \/ Confirm

Next ==
  \/ \E d \in Drives : Swap(d)
  \/ ResolveElsewhere \/ StartCapture \/ EndCapture \/ Message
  \/ Workers
  \/ Poll \/ User

Spec == Init /\ [][Next]_vars

(* The threads of the workers run, and the timer of the poll fires.  This  *)
(* assumes less than fairness of each of them; it is enough because each   *)
(* request ends after a few steps.                                         *)
FairSpec == Spec /\ WF_vars(Workers \/ Poll)

-----------------------------------------------------------------------------
(* Every variable holds a value of its type, and the list and its dialog   *)
(* name sets that exist.                                                   *)
TypeOK ==
  /\ plugged \subseteq Drives /\ active \in Drives \cup {NoDrive}
  /\ stored \subseteq 1..sets /\ sets \in OldSets..MaxSets
  /\ route \in Pages /\ status \in Statuses /\ frames \in 0..sets
  /\ items \in Seq(1..sets) /\ selected \in 0..Len(items) /\ (selected = 0 <=> items = <<>>)
  /\ dialog \in 0..sets /\ polling \in 0..4
  /\ \A w \in {scanner, opener, deleter} :
       w.at \in {"idle", "start", "read", "end"} /\ w.todo \cup w.found \subseteq 1..sets

(* A capture set disappears only after the user has agreed to a dialog     *)
(* that named it, whatever was refreshed, selected or captured between the *)
(* dialog and the tap.                                                     *)
DeletesOnlyConfirmed == (1..sets) \ agreed \subseteq stored

(* The review page plays the animation of the review it speaks of, though  *)
(* the frames are shared with the viewer.                                  *)
ReviewShowsItsSet == route = "review" => frames = ui.image

(* The viewer is never empty, though a deletion, a failed review or a      *)
(* capture can clear the frames at any time.                               *)
ViewerIsNotEmpty == route = "viewer" => frames # NoSet

(* A refresh keeps the selected set, if it is still there (a deletion may  *)
(* select another).                                                        *)
SelectionSurvives ==
  [][(catalogs' # catalogs /\ items' # items /\ selected # 0 /\ Contains(items', Chosen))
       => items'[selected'] = Chosen]_vars

Busy == status \in {"loading", "deleting"}

(* Loading and deleting end, with a list, an animation or an error, though *)
(* drives are pulled and requests refused; but for a request that comes    *)
(* between the result of a worker and the end of its thread.               *)
BusyEnds == (Busy /\ ~dropped) ~> (~Busy \/ dropped)
=============================================================================
