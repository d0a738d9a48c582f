---------------------------- MODULE CaptureStore ----------------------------
(***************************************************************************)
(* Capture sets on the USB drive: commit_capture_set() builds a staging    *)
(* directory and renames it, cleanup_stale_staging() removes what earlier  *)
(* commits have left behind, the media catalog lists what is published and *)
(* deletes it file by file, and the power can fail between any two steps.  *)
(*                                                                         *)
(* The drive is modelled by what a power failure may leave of it.  seen    *)
(* and place are what the programs see, data and onDisk are all the        *)
(* contents and places that could be found after a failure: a name is      *)
(* certain once its directory is synced, a content once its file is.  A    *)
(* directory sync is taken to work: _fsync_directory() ignores an error.   *)
(***************************************************************************)
EXTENDS Integers, FiniteSets

CONSTANTS Sets,        \* the capture sets, each committed at most once
          Cameras,
          MaxFailures  \* bound on the power failures

Animation == "bullet_time"  \* and library_preview, which is written like it
Manifest  == "manifest"
NoSet     == "no set"

ASSUME StoreAssumption ==
  /\ IsFiniteSet(Cameras) /\ {Animation, Manifest} \cap Cameras = {}
  /\ NoSet \notin Sets
  /\ MaxFailures \in Nat

VARIABLES
  images,   \* the cameras with an image in each set
  place,    \* unused, staging, published or gone
  seen,     \* what each file of a set reads as: none, torn or whole
  onDisk,   \* the places a power failure could leave the directory in
  data,     \* the contents a power failure could leave in a file
  commit,   \* the running commit: its set, its step, and the files still to
            \* write or, once it is published, the cameras still to be ACKed
  old,      \* staging directories whose mtime is beyond the cutoff
  cleaner,  \* a running rmtree of a stale staging directory
  deleter,  \* a running rmtree of a published set
  acked,    \* observer: sets of which a node was told "committed"
  refused,  \* observer: sets of which the nodes were told that it failed
  removed,  \* observer: sets whose deletion was confirmed
  failures  \* power failures so far

drive == <<place, seen, onDisk, data>>
vars == <<images, drive, commit, old, cleaner, deleter, acked, refused, removed, failures>>

Files     == Cameras \cup {Animation, Manifest}
Places   == {"unused", "staging", "published", "gone"}
Contents == {"none", "torn", "whole"}

NoFiles  == [f \in Files |-> "none"]
Stable(content) == [f \in Files |-> {content[f]}]
Resting  == [set |-> NoSet, todo |-> {}]
Idle     == [set |-> NoSet, step |-> "idle", todo |-> {}]
Present(s) == {f \in Files : seen[s][f] # "none"}

Init ==
  /\ images = [s \in Sets |-> {}]
  /\ place = [s \in Sets |-> "unused"]
  /\ seen = [s \in Sets |-> NoFiles]
  /\ onDisk = [s \in Sets |-> {"gone"}]
  /\ data = [s \in Sets |-> Stable(NoFiles)]
  /\ commit = Idle
  /\ old = {} /\ cleaner = Resting /\ deleter = Resting
  /\ acked = {} /\ refused = {} /\ removed = {} /\ failures = 0

-----------------------------------------------------------------------------
(* commit_capture_set()                                                    *)

(* With fewer than two images there is no animation.                       *)
FilesOf(cams) == cams \cup {Manifest} \cup (IF Cardinality(cams) >= 2 THEN {Animation} ELSE {})

MakeStaging(s, cams) ==
  /\ commit.step = "idle" /\ place[s] = "unused"
  /\ images' = [images EXCEPT ![s] = cams]
  /\ place' = [place EXCEPT ![s] = "staging"]
  /\ onDisk' = [onDisk EXCEPT ![s] = @ \cup {"staging"}]
  /\ commit' = [set |-> s, step |-> "writing", todo |-> FilesOf(cams)]
  /\ UNCHANGED <<seen, data, old, cleaner, deleter, acked, refused, removed, failures>>

(* Files are written in this order: originals, animation, manifest.        *)
Rank(f) == CASE f \in Cameras -> 1 [] f = Animation -> 2 [] f = Manifest -> 3

(* Faulty variant: the originals are not synced either.                    *)
UnsyncedOriginals(f) == IF f = Manifest THEN {"whole"} ELSE {"torn", "whole"}

(* Originals and the manifest are written under another name, synced and   *)
(* renamed; the animation is written in place and not synced.              *)
(* Each of them changes the directory, and with it its mtime.              *)
Unsynced(f) == IF f = Animation THEN {"torn", "whole"} ELSE {"whole"}

WriteFile(f) ==
  LET s == commit.set
  IN /\ commit.step = "writing" /\ place[s] = "staging"
     /\ f \in commit.todo /\ \A g \in commit.todo : Rank(f) <= Rank(g)
     /\ seen' = [seen EXCEPT ![s][f] = "whole"]
     /\ data' = [data EXCEPT ![s][f] = @ \cup Unsynced(f)]
     /\ commit' = [commit EXCEPT !.todo = @ \ {f},
                                 !.step = IF commit.todo = {f} THEN "sync staging" ELSE @]
     /\ old' = old \ {s}
     /\ UNCHANGED <<images, place, onDisk, cleaner, deleter, acked, refused, removed, failures>>

(* Faulty variants: the staging directory is not synced before the rename, *)
(* and a name that is not there counts as synced.                          *)
NamesNotSynced(s) == data
AllNamesSynced(s) == [data EXCEPT ![s] = [f \in Files |-> @[f] \ {"none"}]]

(* fsync() of a directory makes its names certain, not what they hold.     *)
NamesSynced(s) ==
  [data EXCEPT ![s] = [f \in Files |-> IF seen[s][f] = "none" THEN {"none"} ELSE @[f] \ {"none"}]]

SyncStaging ==
  /\ commit.step = "sync staging"
  /\ data' = IF place[commit.set] = "staging" THEN NamesSynced(commit.set) ELSE data
  /\ commit' = [commit EXCEPT !.step = "rename"]
  /\ UNCHANGED <<images, place, seen, onDisk, old, cleaner, deleter, acked, refused, removed, failures>>

Rename ==
  LET s == commit.set
  IN /\ commit.step = "rename" /\ place[s] = "staging"
     /\ place' = [place EXCEPT ![s] = "published"]
     /\ onDisk' = [onDisk EXCEPT ![s] = @ \cup {"published"}]
     /\ commit' = [commit EXCEPT !.step = "sync root"]
     /\ old' = old \ {s}
     /\ UNCHANGED <<images, seen, data, cleaner, deleter, acked, refused, removed, failures>>

(* Faulty variant: the root directory is not synced after the rename.      *)
RootNotSynced == onDisk

RootSynced == [s \in Sets |-> IF place[s] = "unused" THEN onDisk[s] ELSE {place[s]}]

SyncRoot ==
  /\ commit.step = "sync root"
  /\ onDisk' = RootSynced
  /\ commit' = [commit EXCEPT !.step = "acknowledge", !.todo = images[commit.set]]
  /\ UNCHANGED <<images, place, seen, data, old, cleaner, deleter, acked, refused, removed, failures>>

(* _finalize_if_ready() sends the ACKs one by one, and each node drops its *)
(* photo when it has its own; then the set goes to the screen.             *)
Acknowledge(c) ==
  /\ commit.step = "acknowledge" /\ c \in commit.todo
  /\ acked' = acked \cup {commit.set}
  /\ commit' = [commit EXCEPT !.todo = @ \ {c}]
  /\ UNCHANGED <<images, drive, old, cleaner, deleter, refused, removed, failures>>

Finish ==
  /\ commit.step = "acknowledge" /\ commit.todo = {}
  /\ commit' = Idle
  /\ UNCHANGED <<images, drive, old, cleaner, deleter, acked, refused, removed, failures>>

(* The ACKs are sent in the try of the commit: when one of them raises, or *)
(* the look for the picture to show after them, every node gets a NACK,    *)
(* those told "committed" too, and the set stays published.                *)
AcknowledgeFails ==
  /\ commit.step = "acknowledge"
  /\ refused' = refused \cup {commit.set}
  /\ commit' = Idle
  /\ UNCHANGED <<images, drive, old, cleaner, deleter, acked, removed, failures>>

(* rmtree() has unlinked the file f, or all, of s: nothing is synced.      *)
Unlinked(s, fs) ==
  /\ seen' = [seen EXCEPT ![s] = [f \in Files |-> IF f \in fs THEN "none" ELSE @[f]]]
  /\ data' = [data EXCEPT ![s] = [f \in Files |-> IF f \in fs THEN @[f] \cup {"none"} ELSE @[f]]]

(* Faulty variant: an error after the rename counts as a failed commit.    *)
FailingStepsAll == {"writing", "sync staging", "rename", "sync root"}

(* A step before or at the rename raises: the staging directory is removed *)
(* as far as the drive allows, and the nodes get a NACK.                   *)
FailingSteps == {"writing", "sync staging", "rename"}

CommitFails ==
  LET s == commit.set
  IN /\ commit.step \in FailingSteps
     /\ \/ UNCHANGED drive
        \/ /\ place[s] = "staging"
           /\ Unlinked(s, Files)
           /\ place' = [place EXCEPT ![s] = "gone"]
           /\ onDisk' = [onDisk EXCEPT ![s] = @ \cup {"gone"}]
     /\ refused' = refused \cup {s}
     /\ commit' = Idle
     /\ old' = IF place'[s] = "staging" THEN old ELSE old \ {s}
     /\ UNCHANGED <<images, cleaner, deleter, acked, removed, failures>>

Commit ==
  \/ \E s \in Sets, cams \in SUBSET Cameras : MakeStaging(s, cams)
  \/ \E f \in Files : WriteFile(f)
  \/ SyncStaging \/ Rename \/ SyncRoot \/ CommitFails
  \/ \E c \in Cameras : Acknowledge(c)
  \/ AcknowledgeFails \/ Finish

-----------------------------------------------------------------------------
(* cleanup_stale_staging(), called by every resolve(), in any thread.      *)

(* An hour passes since a staging directory was last touched: no commit    *)
(* takes that long.  The wall clock is taken not to be set ahead meanwhile.*)
GrowOld(s) ==
  /\ place[s] = "staging" /\ s \notin old
  /\ commit.set # s
  /\ old' = old \cup {s}
  /\ UNCHANGED <<images, drive, commit, cleaner, deleter, acked, refused, removed, failures>>

Expired == {s \in old : place[s] = "staging"}

CleanStart(s) ==
  /\ cleaner = Resting
  /\ s \in Expired
  /\ cleaner' = [set |-> s, todo |-> Present(s)]
  /\ UNCHANGED <<images, drive, commit, old, deleter, acked, refused, removed, failures>>

(* rmtree() holds the directory open: a rename does not stop it.           *)
CleanFile(f) ==
  /\ f \in cleaner.todo /\ f \in Present(cleaner.set)
  /\ Unlinked(cleaner.set, {f})
  /\ cleaner' = [cleaner EXCEPT !.todo = @ \ {f}]
  /\ UNCHANGED <<images, place, onDisk, commit, old, deleter, acked, refused, removed, failures>>

CleanEnd ==
  LET s == cleaner.set
  IN /\ s # NoSet /\ cleaner.todo = {}
     /\ place[s] = "staging" /\ Present(s) = {}
     /\ place' = [place EXCEPT ![s] = "gone"]
     /\ onDisk' = [r \in Sets |-> IF r = s THEN {"gone"} ELSE RootSynced[r]]
     /\ cleaner' = Resting
     /\ old' = old \ {s}
     /\ UNCHANGED <<images, seen, data, commit, deleter, acked, refused, removed, failures>>

(* Any error is logged, and the rest of the directory stays.               *)
CleanFails ==
  /\ cleaner # Resting
  /\ cleaner' = Resting
  /\ UNCHANGED <<images, drive, commit, old, deleter, acked, refused, removed, failures>>

Cleanup ==
  \/ \E s \in Sets : GrowOld(s) \/ CleanStart(s)
  \/ \E f \in Files : CleanFile(f)
  \/ CleanEnd \/ CleanFails

-----------------------------------------------------------------------------
(* The media catalog.                                                      *)

(* _published_entry(): a manifest with two complete cameras, and a GIF.    *)
(* It does not look for the originals.                                     *)
Listed(s) ==
  /\ place[s] = "published"
  /\ seen[s][Manifest] = "whole" /\ Cardinality(images[s]) >= 2
  /\ seen[s][Animation] = "whole"

(* delete_catalog_entry(), after the user has confirmed.                   *)
DeleteStart(s) ==
  /\ deleter = Resting
  /\ Listed(s)
  /\ deleter' = [set |-> s, todo |-> Present(s)]
  /\ removed' = removed \cup {s}
  /\ UNCHANGED <<images, drive, commit, old, cleaner, acked, refused, failures>>

DeleteFile(f) ==
  /\ f \in deleter.todo /\ f \in Present(deleter.set)
  /\ Unlinked(deleter.set, {f})
  /\ deleter' = [deleter EXCEPT !.todo = @ \ {f}]
  /\ UNCHANGED <<images, place, onDisk, commit, old, cleaner, acked, refused, removed, failures>>

DeleteEnd ==
  LET s == deleter.set
  IN /\ s # NoSet /\ deleter.todo = {} /\ Present(s) = {}
     /\ place' = [place EXCEPT ![s] = "gone"]
     /\ onDisk' = [onDisk EXCEPT ![s] = @ \cup {"gone"}]
     /\ deleter' = Resting
     /\ UNCHANGED <<images, seen, data, commit, old, cleaner, acked, refused, removed, failures>>

DeleteFails ==
  /\ deleter # Resting
  /\ deleter' = Resting
  /\ UNCHANGED <<images, drive, commit, old, cleaner, acked, refused, removed, failures>>

Delete ==
  \/ \E s \in Sets : DeleteStart(s)
  \/ \E f \in Files : DeleteFile(f)
  \/ DeleteEnd \/ DeleteFails

-----------------------------------------------------------------------------
(* The power fails, or the drive is pulled: every set is found in one of   *)
(* its possible states, and the program starts again.                      *)
PlacesFound(s) == IF place[s] = "unused" THEN {"unused"} ELSE onDisk[s]

Loose(content, p) ==
  {sf \in Sets \X Files :
     /\ p[sf[1]] \in {"staging", "published"}
     /\ content \in data[sf[1]][sf[2]] /\ data[sf[1]][sf[2]] # {content}}

Best(contents) == IF "whole" \in contents THEN "whole"
                  ELSE IF "torn" \in contents THEN "torn" ELSE "none"

Found(p, lost, torn) ==
  [s \in Sets |-> [f \in Files |->
     CASE p[s] \in {"unused", "gone"} \/ <<s, f>> \in lost -> "none"
       [] p[s] \notin {"unused", "gone"} /\ <<s, f>> \in torn -> "torn"
       [] OTHER -> Best(data[s][f])]]

PowerFails ==
  /\ failures < MaxFailures
  /\ \E p \in {q \in [Sets -> Places] : \A s \in Sets : q[s] \in PlacesFound(s)} :
       \E lost \in SUBSET Loose("none", p) : \E torn \in SUBSET (Loose("torn", p) \ lost) :
         /\ place' = p
         /\ seen' = Found(p, lost, torn)
  /\ onDisk' = [s \in Sets |-> IF place[s] = "unused" THEN onDisk[s] ELSE {place'[s]}]
  /\ data' = [s \in Sets |-> Stable(seen'[s])]
  /\ old' = {s \in old : place'[s] = "staging"}
  /\ commit' = Idle
  /\ cleaner' = Resting /\ deleter' = Resting
  /\ failures' = failures + 1
  /\ UNCHANGED <<images, acked, refused, removed>>

Next == Commit \/ Cleanup \/ Delete \/ PowerFails

Spec == Init /\ [][Next]_vars

-----------------------------------------------------------------------------
(* Every variable holds a value of its type.                               *)
TypeOK ==
  /\ images \in [Sets -> SUBSET Cameras]
  /\ place \in [Sets -> Places] /\ seen \in [Sets -> [Files -> Contents]]
  /\ onDisk \in [Sets -> (SUBSET Places) \ {{}}]
  /\ data \in [Sets -> [Files -> (SUBSET Contents) \ {{}}]]
  /\ commit \in [set : Sets \cup {NoSet}, todo : SUBSET Files,
                 step : {"idle", "acknowledge"} \cup FailingStepsAll]
  /\ cleaner \in [set : Sets \cup {NoSet}, todo : SUBSET Files]
  /\ deleter \in [set : Sets \cup {NoSet}, todo : SUBSET Files]
  /\ old \subseteq Sets
  /\ acked \subseteq Sets /\ refused \subseteq Sets /\ removed \subseteq Sets
  /\ failures \in 0..MaxFailures

Essential(s) == images[s] \cup {Manifest}
Safe(s)  == onDisk[s] = {"published"} /\ \A f \in Essential(s) : data[s][f] = {"whole"}
Whole(s) == place[s] = "published" /\ \A f \in Essential(s) : seen[s][f] = "whole"

(* The originals and the manifest of a set are safe against a power        *)
(* failure once its nodes were told to drop their photos, until the user   *)
(* deletes it.                                                             *)
AckedPhotosSurvive == \A s \in acked \ removed : Safe(s)

(* Whatever a power failure leaves under a published name is a whole set:  *)
(* a half-written one is only ever found under a staging name.             *)
PublishedAreWhole ==
  \A s \in Sets \ removed :
    "published" \in onDisk[s] => \A f \in Essential(s) : data[s][f] = {"whole"}

(* A refusal leaves nothing open: a set whose nodes were told that the     *)
(* commit failed is never found published, not after a power failure       *)
(* either, or the error came after the rename was certain, and all of it   *)
(* is there to stay until the user deletes it.                             *)
RefusedAreSettled == \A s \in refused \ removed : "published" \notin onDisk[s] \/ Safe(s)

-----------------------------------------------------------------------------
(* The refinement mapping: what the rest of the program may rely on.       *)
Store == INSTANCE AtomicStore WITH
  pending  <- {s \in Sets : place[s] = "unused" \/ (commit.set = s /\ commit.step \in FailingSteps)},
  visible  <- {s \in Sets : Whole(s)},
  possible <- {s \in Sets : "published" \in onDisk[s]
                               /\ \A f \in Essential(s) : "whole" \in data[s][f]},
  safe     <- {s \in Sets : Safe(s)},
  promised <- acked \ removed

(* The store publishes a set in one step and keeps what it promised.       *)
ImplementsAtomicStore == Store!Spec
=============================================================================
