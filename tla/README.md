# Bullet-time rig: models, checks and proofs

A verification development for the bullet-time camera in this repository: four
camera nodes (ESP32 firmware), a Raspberry Pi that collects one photo of each into
a capture set, stores the set on a USB drive and shows it on a touchscreen. The
specifications are written from the code under `src/`; documents are only quoted
where the code departs from them.

Sections: [inventory](#inventory), [interactions](#how-the-parts-interact),
[modules](#the-modules), [what the runs show](#what-the-runs-show),
[bounds](#bounds), [fairness](#fairness), [proofs](#proofs),
[findings](#findings), [abstractions](#abstractions-and-what-is-not-modelled),
[plan](#plan).

## Inventory

| Component | State | Operations | What is hard | What makes it correct |
| --- | --- | --- | --- | --- |
| Coordinator (`coordinator.py`) | the open set (`_active`), the bounded history (`_seen`, `_seen_order`) | `start`, `progress`, `complete`, `fail`, `timed_out`, `finalize` | events of four threads in any order, clock readings taken before the lock, a history that overflows | no outcome without a start, no transaction in two sets, every camera one outcome, no early timeout |
| Receiver and sessions (`receiver.py`) | sessions by port and by UID, `current_metadata`, `capture_state`, `pending_images`, `pending_acks`, `rejected_images`, `pending_trigger`, automatic counters, preview request | one handler per frame type, the main loop (commands, closing, expiry, preview), connection and disconnection | one lock, five threads, work done before and after the lock, exceptions half-way, retries of lost nodes | an ACK only for a stored photo, one fate for each photo, tables agree with the coordinator, the next capture is possible, sets and triggers end |
| Node firmware (`button_capture/`) | capture sequence, preview flag, debounced trigger, position in the magic | `loop`, `capturePhoto`, `waitForHostAck`, `sendPreviewFrame`, `setup` | a blocking wait with a timeout, other frames eaten meanwhile, power through the data cable | released by its own answer only, always released |
| Media commit (`media.py`) | the staging directory, the published directory | write originals, animation, manifest; sync; rename; sync; undo | power failure between any two steps, a failing step, a failing undo | an acknowledged photo survives, a published set is whole, a refused one is not published later |
| Storage (`storage.py`) | selected drive: `active_mount`, `active_root` | `resolve` with discovery and automounter, `manifest_details`, `cleanup_stale_staging`, `atomic_json` | called by four kinds of threads without a lock, drives that come, go and fail meanwhile, wall clock | gives up only without a drive, takes the preferred one, ends; clean-up takes leftovers only |
| Media catalog (`media_catalog.py`) | none but the drive | scan, open, delete | deletion file by file, scans that overlap it, a drive pulled between two steps | a listed set is whole, only the confirmed set goes |
| Presentation model (`ui_model.py`) | screen state, phase, camera badges, review | `apply` | events of several threads in one queue | nothing invented, nothing stale |
| Qt controller (`qt_ui.py`) | route, frames, library list and selection, dialog, status, running flags of the workers, last manifest | buttons, events, worker results | results of threads arriving on any page, in any order, after what they are about has changed | preview follows its page, each page plays its own set, the dialog's set is deleted, busy states end |
| Hardware trigger (`gpio_trigger.py`, `trigger_input.cpp`) | output line, debounce state | pulse, close, poll | pulse length against debounce and loop time, bounces, a clock that wraps | one actuation, at most one photo; a pulse to an armed node that polls promptly is seen |
| Framing (`protocol.py`, `btc_protocol.cpp`) | parser position | encode, resynchronise, read | noise before a frame, damaged and cut frames, reads that block the loop | whole frames are read and nothing else is; the loop goes on |
| QML pages, metrics, command line, deployment and evidence tools | none of their own that is shared | | | |

## How the parts interact

* A node and the Pi share one USB serial link: frames in order, in both directions.
  Everything is lost when the cable is pulled; the node loses its power as well.
* All nodes share one trigger line, pulled by the shutter button or by the Pi's GPIO.
* One `NodeSession` thread per port reads frames and calls the Receiver's handlers;
  the Receiver thread itself discovers ports, takes UI commands, closes sets and
  asks for previews. `Receiver.lock` guards the tables. A handler that closes a set
  commits it to the drive and answers the nodes before it releases the lock.
* Events go to the Qt thread through one queue, commands come back through another.
  `session_connected()` and `session_disconnected()` send theirs after the lock was
  released; nothing else does but "No camera nodes found".
* Catalog and storage workers use the drive concurrently with the commit. Each
  `resolve()` also removes stale staging directories, and may change the active drive
  for all threads. The workers' results come back through queues of their own, which
  `poll_events()` drains one after the other, events first.
* The button and the Pi pull the trigger line independently; the Pi's `pulse()` and
  `close()` exclude each other by a lock.

## The modules

```
LogicalCameras --- ActiveCapture ------------------------- ActiveCaptureProofs
       |                 |--- Coordinator ---------------- CoordinatorProofs
       |                 |       '-- (implements) CaptureSets
       '--- CameraNode --+--- Receiver --- Rig ----------- RigProofs
                                            '-- (implements) PhotoFates
CaptureStore -- (implements) AtomicStore ----------------- StoreProofs
Presentation --+-- Screen -------------------------------- ScreenProofs
               '-- Library ------------------------------- LibraryProofs
Storage -------------------------------------------------- StorageProofs
NodeLoop ------------------------------------------------- NodeLoopProofs
```

| Module | Stands for | Notes |
| --- | --- | --- |
| `LogicalCameras` | the configured cameras | one constant, one assumption |
| `ActiveCapture` | `_ActiveCapture` and the decisions of each coordinator method | operators on a record: `StartAccepted`/`AfterStart` and so on; shared by `Coordinator` and `Receiver`, so both use the same code |
| `Coordinator` | `CaptureSetCoordinator` on its own | callers are arbitrary: any event, any order, any admissible lag; a refusal raises before it changes anything and is a stutter |
| `CaptureSets` | what the coordinator promises | abstract specification |
| `CameraNode` | the firmware and its two links | `Setup`, `TakePhoto`, `Transfer`, `ReadReply`, `AckTimeout`, `SendPreview`, and cable faults |
| `Receiver` | `Receiver` and `NodeSession` | one action per handler, with the closing of the set and the commit inside it |
| `Rig` | nodes, links and receiver together | properties, refinement, fairness |
| `PhotoFates` | what the rig promises about each photo | abstract specification |
| `CaptureStore` | `commit_capture_set`, `cleanup_stale_staging`, catalog listing and deletion, power failure | `seen`/`place`: what programs see; `data`/`onDisk`: everything that a power failure could leave |
| `AtomicStore` | a store without files | abstract specification |
| `Presentation` | `PresentationState` | operators on records, one per method |
| `Screen` | the Qt thread, both queues, and the receiver as far as it decides which events are sent when, and the display timing | `Announce` and `SendResult` are the steps outside and at the end of the lock; the library is one action, `WorkerShows` |
| `Library` | the library and the viewer: list, selection, dialog, status, frames, the three workers with their running flags and result queues, the drives, and deletion | captures are reduced to their start and end; `polling` follows the order in which `poll_events()` drains its queues (a poll that finds them all empty is left out); scans, decodings and deletions are split where another thread or a pulled drive can come in between |
| `Storage` | `UsbStorageResolver` under the thread that commits and others, the drives and udisks | one action between any two reads of the drives and between the two assignments; `sure` is an observer: the drives that were in a port and writable all through the call and that udisks did not decline |
| `NodeLoop` | one node's `loop()` in time: the reader of the serial port byte by byte, the debounced trigger, what keeps the loop from polling it, and the line with the button and `HardwareTrigger` | ticks; `pin.since` is `millis() - lastTriggerChangeMs` modulo `Wrap`; a frame is its magic, a header and one byte of metadata, and a checksum holds if the bytes are those of one frame |
| `MCCoordinator`, `MCRig`, `MCCaptureStore`, `MCScreen`, `MCLibrary`, `MCStorage`, `MCNodeLoop` | instances for TLC | symmetry and orders only |
| `CoordinatorProofs`, `RigProofs`, `StoreProofs`, `ScreenProofs`, `LibraryProofs`, `StorageProofs`, `NodeLoopProofs` | theorems about the module of that name (`StoreProofs`: `CaptureStore`) | each ends with the theorems; the lemmas before them go action by action |
| `ActiveCaptureProofs` | lemmas about the operators of `ActiveCapture` | used by `CoordinatorProofs` and `RigProofs` |

Definitions named "Faulty variant" are not used by any specification. Each is a
plausible mistake in the definition below it; substituting it must break the
property listed with it in `PROJECT.json`, which shows that the property depends
on the code.

Clocks are ages: a component keeps how many ticks ago something happened, capped
just beyond the largest limit it is compared with. A handler that reads the clock
before it waits for the lock (`receiver.py:483`) works with a reading that is up to
`MaxLag` ticks old; the main loop reads it under the lock.

## What the runs show

| Run | Question | Result |
| --- | --- | --- |
| `coordinator` | any order of events, late clocks, an overflowing history | all properties hold, and `CaptureSets` is implemented |
| `rig_captures` | one capture, failing sensors, corrupt images, late clocks and answers, pulled cables, broken streams, slow boots, failing commits | tables agree, an ACK means stored, `PhotoFates` (each photo one fate) is implemented |
| `rig_repeat` | two captures, nodes that stop waiting | late frames and answers stay with their capture |
| `rig_preview` | preview around captures from the screen and the shutter, a broken stream | the request gives way to the capture |
| `rig_live` | fair scheduling, an automatic capture and the shutter, a broken stream, failing commits | each attempt is accounted for, each set closes, each transfer is answered, each trigger is settled |
| `store` | two sets, failing steps, ACKs that cannot be sent, clean-up, deletion, a power failure anywhere | an acknowledged photo survives, published sets are whole, a refused set is not published or is whole and safe, `AtomicStore` is implemented |
| `screen` | two captures from the screen or the shutter, every failure of it, a lost camera, workers that take the page | the preview follows its page, completion is never invented |
| `library` | an old set and a capture, three requests to the workers, a drive that is swapped or another message, at any moment | only the confirmed set is deleted, the review plays its set and the viewer some set, a refresh keeps the selection, loading and deleting end |
| `storage` | two threads that resolve at the same time, two drives plugged in, pulled or failed, udisks that declines any of them | `resolve()` gives up only without a drive, takes the preferred one of those that stay usable, and ends; the manifest names the drive of its set as long as no drive changes |
| `node_loop` | three taps, pulses or writes: bounces, a clock that wraps, preview, noise, damaged and cut frames | an actuation is at most one photo, a pulse to an armed node that polls promptly is seen, whole frames are read in order, the trigger is polled again |

`CHECK_DEADLOCK FALSE` is set where the bounded inputs are used up at some point and
nothing is left to do: in `store`, `library`, `node_loop`, and in `screen`, where the
code, too, can come to rest (the progress page takes no touch, and after a refused
request nothing else happens).

Seven properties need a word on what they do and do not say:

* `BusyEnds` excepts a request that comes between a worker's result and the clearing
  of its flag. The code drops that request (see [findings](#findings)); in every
  other case loading and deleting end.
* `PulseIsSeen` is about a node that was in its loop, armed, when the line fell and
  has polled at least every `MaxGap` since (`Prompt`). The pulse may begin
  anywhere in a preview, whose polls count like those of the loop. It does not say that a
  node in a preview sees the pulse: a sensor frame or a transfer that
  takes longer than `MaxGap` ends what the node owes, and the model has them up to
  `MaxBlock`. In such a preview the pulse can be missed; dropping the condition
  makes the property false in TLC. A node that is transferring a photo,
  waiting for its answer, answering a PING or blocked in a read may miss a pulse as well, and so
  may one that is not re-armed, as
  `src/docs/history/MILESTONE_1_CHECKPOINT_4_SESSION.md:80` reports of the hardware.
* `RefusedAreSettled` does not say that a set whose nodes got a NACK is not published. The
  ACKs are sent in the `try` of the commit, so one that cannot be sent refuses a set that is
  published and synced (`AcknowledgeFails`; see [findings](#findings)). The
  property says that there is nothing between the two: not in the library, for good,
  or there, whole and safe.
* `WholeFramesArrive` excepts frames that are cut behind their magic. Such a frame
  takes the bytes of the next one for its own, and both are lost; `PollsAgain` shows
  that the loop goes on after the read has timed out.
* `PreferredWins` is about the mounts that were listed. A preferred drive that is
  plugged in but not mounted is not among them, and the automounter is asked only
  when no mounted drive is of use (see [findings](#findings)).
* `ManifestNamesItsDrive` is about commits during which no drive changed: `fresh` holds
  the calls that began after the last change, and the committer only if no older call
  was still running then. Without the condition it does not hold (see
  [findings](#findings)); with it the shared selection is overwritten by other
  threads, but with the same drive.
* `CallsEnd` holds although drives come and go, because each is tried once per list
  and there are two lists; it is about one call, and says nothing of a drive being found.

## Bounds

* Two cameras instead of four. Cameras meet only in the set they share and in the
  tests "all cameras" and "another camera"; two show each of them. The proofs hold
  for any number.
* `Txs`, `MaxShots`: one photo of each camera where the question is about one
  capture, two where it is about what one capture leaves for the next.
* `HistoryLimit = 2` with four filed transactions makes the history overflow twice;
  the code keeps 1024. `MaxFiled` only bounds the observer.
* `Timeout` 1 or 2 ticks against an association window of 1: the shipped values
  (12000 ms and 250 ms) differ more, and a longer timeout only adds waiting. One
  run has 12, where the timeout is not to interfere.
* `MaxBreaks`, `MaxFaults`, `MaxFailures`: one fault of the kind that takes a cable,
  a session or the power; `Faults` selects kinds so that each run combines
  those that touch its question. `rig_captures` has all of them.
* `MaxLag = 1` in `coordinator` and `rig_captures`, 0 elsewhere.
* `AutoTriggers = 1` in `rig_live`, so that one attempt competes with the shutter.
* `UiCommands` in `rig_preview`: `CAPTURE` and `PREVIEW_START`. `PREVIEW_STOP` is in
  the model, but with it the run takes twice as long; what follows from a stop is
  the subject of `PreviewFollowsRoute` in `screen`.
* `MaxDown`, `MaxPreviews`, `MaxCommands`, `MaxEvents` bound queues that the code
  leaves unbounded. The producer waits instead of growing the queue, and no
  property is about its length. Two or three events are enough for an overtaking.
* `MaxSets = 2` in `screen`, for what one capture leaves for the next; `MaxFaults = 1`
  there is one lost camera, corrupt image, node error or timeout. A commit may be
  refused, and a worker may take the page, at any time.
* `library`: two drives, one of them plugged in at the start, so that one swap either
  empties the slot or changes the drive that `resolve()` prefers. `MaxTurns = 1` is
  one swap or one other message; `MaxRequests = 3` is the longest chain of requests
  in which each of the workers has something to do.
* `storage`: two drives, the preferred one with the later path, so that preference and
  path disagree. One thread that commits and one other: `resolve()` reads what others
  do only through the drives and the two shared fields. `MaxTurns = 3` plugs in both
  drives and takes one away, or takes both and brings one back, during a call. The
  theorems hold for any number of drives, threads and turns.
* `screen_timing` has `MaxFaults = 2`: both cameras of the second capture must fail.
* `node_loop`: `Debounce = 2` and `Pulse = 5` ticks stand for 40 ms and 100 ms, a tick
  is at most 20 ms; `MaxGap = 1` is the time an idle node spends between two polls,
  and the longest gap that counts as prompt. `MaxBlock = 3` bounds the time in a preview frame or
  in a write to the Pi: more than a gap, and enough with the debounce to lose a pulse. In the code it is
  seconds: `writeAll()` gives up after 10 s without progress, and a frame has finitely
  many chunks; how long `esp_camera_fb_get()` takes is the driver's affair.
  `Wrap = 8` lets the clock wrap several times, and is more than a debounce and a gap. `ReadTimeout` and `AckTimeout` are far
  shorter than in the code (1 s and 30 s): longer ones only add ticks in which
  nothing is polled. Three inputs are a tap and a pulse with one frame, or three frames.

## Fairness

`FairSpec` of `Rig` has weak fairness for the steps that a thread or the firmware
takes whenever it can: the node's loop, the reading of a frame, of the HELLO and of
the end of a stream by a session thread, discovery, taking commands, and time.
Threads are preemptive and no handler waits for anything but the lock, which each of
them releases. Closing a set in the main loop and expiring a trigger are strongly
fair: `run()` makes each of its calls in turn in every cycle (every 50 ms), but in
the model they are separate steps that pause while a request is between
`_process_commands()` and `_request_capture()`. With weak fairness an automatic
request that is refused again and again would hold them off for ever, which the
loop does not allow. There is no fairness for presses, cables, commands, faults, or
any outcome of a commit: `rig_live` does not assume that a commit ever succeeds or
that a broken stream is repaired, and a silent camera is covered because only the
clock closes its set.

`FairSpec` of `Library` has weak fairness for "a worker thread or the poll of the Qt
thread takes a step": a timer starts the poll every 50 ms, and neither waits for the
other. This is less than fairness of each thread, and enough because a request ends
after a few steps. The user, the drives and the receiver are not fair.

`FairSpec` of `NodeLoop` has weak fairness for "time passes, the firmware takes its next step, or the pulse ends" as one action:
the firmware runs by itself, and whatever it waits for is measured by the clock. The
button and the Pi's writes are not fair.

`FairSpec` of `Storage` has weak fairness for each thread: threads are preemptive, no
step of `resolve()` waits for another thread, and `udisksctl` is given 15 seconds
(`storage.py:149`). Drives are not fair.

## Proofs

Every invariant and every action property that a passing run checks is a theorem, and so
are the three implementations. A theorem holds for all values of the constants that
the named assumptions admit; TLC evaluates the assumptions in every run. Each argument
has the same form: an inductive invariant that is stronger than the properties
(checked by TLC on the instance of the run before it was proved), one lemma for each action
or kind of action, and a last step by temporal logic.

| Module | Assumptions beyond natural numbers for the bounds |
| --- | --- |
| `Coordinator`, `Rig` | a finite, non-empty set of cameras; `Window` and `Timeout` at least 1; a history of at least one entry; no real transaction has the number `NoTx`; `CameraOrder` assigns a camera to each index; only the commands that exist |
| `CaptureStore` | finitely many cameras, none of which is the animation or the manifest; `NoSet` is no set |
| `Screen` | finitely many cameras, `NoCam` is none of them |
| `Library` | at least one drive in the order of preference |
| `Storage` | paths differ from drive to drive, `NoDrive` is no drive |
| `NodeLoop` | bounces end before the debounce does; a pulse outlasts the debounce and two of the gaps that count as prompt; the clock does not wrap within a debounce and a gap |

`NodeLoopAssumption` is the one that is more than a typing. `Pulse > Debounce + 2 * MaxGap`
bounds nothing in a preview or a transfer; it says which gaps between polls are called prompt:
with the shipped 100 ms and 40 ms those under 30 ms. The only time it is an assumption about
is the `delay(5)` of the loop. How long a sensor frame and a write take is
`MaxBlock`, of which only `MaxBlock > 0` is assumed. `Wrap >= Debounce + MaxGap` holds by far in the code
(2^32 ms).

Four attempts failed for a good reason, and changed an abstract specification, an
assumption and two properties:

* `PhotoFates` once said that of the photos refused together no two are of one camera.
  With `MaxShots = 2` TLC finds it false: a handler that rejects the second photo of a
  camera may also close the set whose commit then fails, and so refuse the first. What is
  stored together is one photo per camera; what is refused is not limited.
* `NodeLoopAssumption` once did not relate `Wrap` to `MaxGap`. Polls exactly one wrap
  of the clock apart would read the same time and the debounce would never end, so
  `PulseIsSeen` is false without it.
* `PulseIsSeen` once spoke of every node in its loop and took a preview frame to fit into
  `MaxGap`. Nothing in the code makes it fit; with preview frames of `MaxBlock` the property is
  false, and is now about nodes that do poll promptly.
* A refused set was once said never to be published. That is false as soon as an ACK
  may fail to be sent; what holds is `RefusedAreSettled`.

Some definitions have the form they have for the prover: it cannot see into a
`CHOOSE` that sorts (`SortSeq`) or a fold over a sequence, so the list of the library is
"the n-th newest set" (`NthNewest`), and what the queued commands ask for
(`WantedAfter`) and which nodes are answered (`AnswersSent`) are read off sets of indices.

### The coordinator

`CoordinatorProofs` proves, for all cameras, transactions, windows, timeouts, lags
and history limits:

| Theorem | Statement |
| --- | --- |
| `TypeCorrect` | `[]TypeOK` |
| `ResultsFollowStarts` | images and errors only for cameras that have started |
| `ActiveSetIsFresh` | the open set shares no transaction with the retained history |
| `HistoryConsistent` | lookup set and deque agree, without duplicates |
| `NoEarlyReuse` | a transaction comes back only beyond the history limit |
| `TimeoutNeedsQuiet` | a set with an open outcome closes only after the timeout less the lag |
| `Implementation` | `Coordinator` implements `CaptureSets` under its refinement mapping |

The statements of `ResultsFollowStarts`, `ActiveSetIsFresh` and `HistoryConsistent` are
parts of the inductive invariant and are not checked by a run of their own: the run
checks what follows from them.

Assumptions: `CamerasAssumption` (a finite, non-empty set of cameras),
`WindowsAssumption` (natural numbers for window, timeout and lag) and
`CoordinatorAssumption` (the reserved transaction number is none of the real ones,
the history holds at least one entry).

None of the properties is inductive alone. `Inv` adds: a closed set is exactly the
initial record, an open one has a start, the age of the last progress is at most
the observer's quiet time plus the lag, and, the essential one, the deque is the
tail of everything ever filed (`DequeIsTail`). From the last one, an entry filed at
position i is still in the deque when fewer than `HistoryLimit` others follow; the
lookup set contains it, `StartAccepted` refuses it, and so `NoEarlyReuse` follows.
The step that needs work is `Finalize`: appending to a bounded deque entry by entry
equals keeping the tail of the concatenation (`RetainedFacts`, `JoinFacts`,
`TailOfTail`), and evicting an entry may remove it from the lookup set because no
second copy exists (`RememberFacts`). The order in which a set's transactions are
filed is arbitrary in the model and in the proof.

### The rig

`RigProofs` proves, for all cameras, shots, faults and commands:

| Theorem | Statement |
| --- | --- |
| `RigTypes` | `[]TypeOK` |
| `TablesFollowSet` | `[]TablesAgree` |
| `AckedAreOnDrive` | `[]AckMeansPublished` |
| `SetsAreIsolated` | `[]SetIsolation` |
| `PreviewsYield` | `[]PreviewYields` |
| `AttemptsAreAccounted` | `[]AttemptIsPending` |
| `OwnAnswerReleases` | `ReleasedByOwnAnswer` |
| `RigImplementation` | `Rig` implements `PhotoFates`: each photo has one fate, for good |

`TablesAgree` and `AckMeansPublished` talk about the Pi only, but they hold because of
what the links can carry. `RigInv` therefore has three layers.

* Links (`LinkAgrees`): the frames of a photo come in order, nothing of a transfer
  follows its TRANSFER_COMPLETE, and a node that is still shooting has sent
  nothing of the transfer of this photo. From this follows what `Over(c, q)` says of a
  photo: nothing of its transfer is on its way, nor will be.
* The set and its tables (`CaptureAgrees`): the tables fit the set (`TablesFit`);
  the set holds no photo that was filed before (`Collecting`); what is on the drive was
  filed, each photo once (`PublishedAgrees`); an image in the set, and every photo
  that was answered, is `Over` (`ImagesAreOver`, `AnswersAgree`). So no late frame
  can bring a photo back that was stored or refused. ACKs on a link were given by the Pi
  (`AnswersComeFromPi`), which is what `ReleasedByOwnAnswer` rests on.
* Triggers and preview: `AutoAgrees` and `PreviewYields` themselves.

Closing a set is part of four handlers and the main loop. It is proved once
(`CaptureClosed`, `ClosedOrKept`) for any closing, and each handler cites it. For
the implementation, a step of the Pi settles the photos it answered or published
(`SettleRefines`), and only the press of a node's trigger takes one (`TakeRefines`);
all other steps change no fate.

### The store

`StoreProofs` proves, for all sets and cameras and any number of power failures:

| Theorem | Statement |
| --- | --- |
| `StoreTypes` | `[]TypeOK` |
| `AckedSurvive` | `[]AckedPhotosSurvive` |
| `PublishedWhole` | `[]PublishedAreWhole` |
| `RefusedSettled` | `[]RefusedAreSettled` |
| `StoreImplementation` | `CaptureStore` implements `AtomicStore` |

The three safety properties together are `KeepsPromises`. `StoreInv` ties them to the
progress of the running commit (`CommitOf`): while it may still fail, the directory is its
own, is under its staging name, and holds nothing torn of the originals and the manifest; before
the rename each of them is certainly whole; while the nodes are answered the published
name is the only one that a power failure can leave, so that it is safe to acknowledge the set and,
if an ACK fails, too late to undo it. `DriveAgrees` says that what programs
see is among what could be left, and `CleanersAgree` that a clean-up works on staging
directories that no commit holds, and a deletion on sets the user gave up: this is
why three workers on one drive do not meet. What may be left after a power failure is
one of the things that were possible before it (`FoundFacts`), and so every promise
about the possible survives it.

In the implementation, everything up to the rename and all of a clean-up happens
behind the scenes (`BehindTheScenes`) or makes a set unavailable that is refused; the
rename is the step in which a set appears, the sync of the root the one in which it is
safe.

### The screen

`ScreenProofs` proves, for all cameras, captures and faults:

| Theorem | Statement |
| --- | --- |
| `ScreenTypes` | `[]TypeOK` |
| `PreviewMatchesPage` | `[]PreviewFollowsRoute` |
| `CompletionsAreReal` | `[]CompletionIsReal` |

`PreviewFollowsRoute` is inductive with the types: each step that changes the page queues one
command, and what the queue asks for in the end is what its last preview command says
(`WantsOneMore`). `CompletionIsReal` speaks of moments when nothing is under way; the
invariant has to speak of all of them. `Honest` says that, unless a commit is being closed,
what is shown and what the queued events claim was delivered in the open set; a claim counts
only if every later event in the queue is LOADING, because any other event ends the
capture that is shown, and the claim is forgotten with it. So claims of the last set that are
still queued when the next one opens are harmless: the result of the last set follows
them in the queue. The types contain one relation, that the count of views is the number
of cameras shown as complete (`Viewed`, over `ApplyTypes`).

### The library

`LibraryProofs` proves, for all drives, sets, captures and requests:

| Theorem | Statement |
| --- | --- |
| `OnlyConfirmedDeleted` | `[]DeletesOnlyConfirmed` |
| `ReviewPlaysItsSet` | `[]ReviewShowsItsSet` |
| `ViewerPlaysASet` | `[]ViewerIsNotEmpty` |
| `SelectionKept` | `SelectionSurvives`: a refresh keeps the selected set |
| `LibraryTypes` | `[]TypeOK`: no entry of the list and no selection is out of range |

The only assumption is `LibraryAssumption`: the bounds are natural numbers, and the order
in which drives are preferred is a sequence of at least one drive.
`DeletionInv` adds that a worker which has not yet begun to delete holds a set that
was agreed to: confirming hands it the set of the dialog in the same step, a refused
request leaves the worker's own, and no other action sets it. `FramesInv` adds that
stored sets have been committed, so that no set has the number `NoSet`, that results
of the decoder are numbers, and that the review page always has a review. The viewer
is entered from there or with a decoded set, and left by whatever clears the frames.
The last part is what `HandleEventFrames` shows of `handle_event()`: it may clear the
frames on any page, but only in the branch that leaves for the ready page.
`SelectionKept` needs no invariant: the list and the queue of its results change
together in `apply_catalog()` only, and `SameSetFound` shows what it selects.

`LibraryInv`, behind `LibraryTypes`, follows the number of a set through the program: the
numbers of stored sets, of the workers' requests and results, of events and of what the
pages show are all among those given out so far, and a capture that is under way has
one reserved (`SetsFit`). The list is made by sorting what a scan found; that this
lists every set once needs that "the n-th newest" exists (`NthNewestExists`, by
counting: ranks are an injection of a finite set into as many numbers).

### The resolver of drives

`StorageProofs` proves, for all drives, preferences and threads:

| Theorem | Statement |
| --- | --- |
| `StorageTypes` | `[]TypeOK`: whatever `resolve()` returns is a drive |
| `GivesUpOnlyWithoutDrive` | `[]RaisesOnlyWithoutDrive` |
| `PreferenceKept` | `[]PreferredWins` |
| `SharedSelectionIsHarmless` | `[]ManifestNamesItsDrive` |

The assumption is `StorageAssumption`: paths are natural numbers and differ from drive
to drive, and `NoDrive` is none of them. `SureInv` says of each call where a drive that it can be sure of is: among
the mounts it has yet to try once they are listed, mounted or still to be asked for
while the automounter runs, and on the list after that. So the search passes over it
neither before nor after the automounter, and `Before` being a strict order
(`BeforeIsStrict`), the drive that is taken has none of them before it. Steps of other
threads only mount drives (`StepCalls`), which disturbs none of this; a drive that
goes is taken from what every call is sure of (`UnsureCalls`).

`FreshInv` is behind the last theorem. A fresh call either still tries exactly the
usable drives, or has found that there is none, or holds the first of them
(`FreshOf`). The first is unique because `Before` is strict and paths differ
(`FirstIsUnique`), so all fresh calls hold the same drive, and whatever one of them
writes to the selection between the committer's own writes and its reads is what was
there (`ActiveIsMine`); none of them clears it, because that needs that no drive is
usable.

### The node's loop

`NodeLoopProofs` proves, for all lengths of debounce, pulse, bounce, gap, timeout and wrap:

| Theorem | Statement |
| --- | --- |
| `NodeLoopTypes` | `[]TypeOK` |
| `OnePress` | `[]OnePressPerActuation` |
| `PulseSeen` | `PulseIsSeen` |
| `SameMagic` | `[]ScannersAgree` |
| `WholeFrames` | `[]WholeFramesArrive` |

`NodeInv` has a part for each. `NothingDue`: when every actuation so far has had its photo,
an armed node has the button up and the pulse over, and what it samples low is a bounce
that ends before it is believed (`Brief`); an unarmed one samples high only as a bounce.
`Answering`: a pulse that is owed a photo has been low for no longer than the gap since the
last poll, or for no longer than the node has sampled it low and a gap before that. Being
owed bounds the gaps, because a node that waits longer is owed nothing any more; and
since a debounce and two gaps are shorter than a pulse, the node fires before it ends. `ScannerAgrees`
says of every k whether the window ends in the first k bytes of the magic, which the
automaton's transitions preserve because no two letters of the magic are the same
(`MagicLetters`, `SlideProperties`). `FramesAgree` describes the wire: which bytes of
which frame follow each other (`WireOrder`), what each byte can be (`WireBytes`), and that
the frames not yet read are those in the wire (`Delivered`). The reader is either inside a
frame (`InFrame`), with bytes of that frame only, or before one (`Scanning`), and then has
matched exactly what it read of a whole frame, and not all of a damaged one unless there is
more to spoil it. Frames cut behind their magic (`torn`) are excepted.

### Only model-checked

The liveness properties: `SetsClose`, `TransfersAreAnswered` and `TriggersSettle` of
`Rig`, `BusyEnds` of `Library`, `CallsEnd` of `Storage` and `PollsAgain` of `NodeLoop`. They
rest on fairness, hence on ENABLED, which the prover does not handle. The two findings with a
run of their own are counterexamples and have nothing to prove.

## Findings

Runs with expected violations. Each quotes a statement of the repository that the
code does not keep; `PROJECT.json` has the details.

| Run | What happens |
| --- | --- |
| `rig_corrupt` | a corrupt image as the last outcome of its set leaves its session busy for good |
| `screen_timing` | after a capture that failed entirely, its manifest is written over the one of the set before it, which the library then no longer lists |

Other departures met while modelling. They have no run of their own:

* `receiver.py:365`: `_service_preview()` sorts sessions by `logical_cameras[str(node_uid)]`,
  but a session is entered in `sessions_by_uid` before its `node_uid` is set. A preview
  request in between raises a KeyError that ends the Receiver thread, and with it
  discovery, triggers and the timeout (`MILESTONE_5_PLAN.md:25`: "Preview is
  best-effort"). `Receiver` contains it, as `mainAlive`.
* `qt_ui.py:286`: DELETE in the viewer asks about the set selected in the library. A
  viewer that was reached from a review shows another one (`UX_SPEC.md:280`). The
  dialog names the set it is about, so `DeletesOnlyConfirmed` holds nevertheless.
* `receiver.py:773`: the commit takes its root from `resolve()` and reads `active_mount`
  and `active_root` afterwards. If a drive is plugged in, pulled or mounted around a
  commit, another thread may select a different drive in between, and the manifest names
  that one, or mountpoint and root of two (`MILESTONE_2_PLAN.md:222`: "Multiple-drive
  selection is deterministic and accurately recorded in manifests"). `Storage` has this.
* `receiver.py:783` sends the ACKs inside the try that covers the commit: when one
  session dies between its transfer and the commit, the set is on the drive but the
  live cameras get a NACK, also those that got their ACK before, and the screen reports "Capture
  set was not committed". `Rig` and `CaptureStore` contain it (`AcknowledgeFails`);
  `AckMeansPublished` and `AckedPhotosSurvive` hold nevertheless.
  `test_receiver.py:213`, "commit_failure_nacks_every_success_and_publishes_no_directory",
  is about a commit that fails before its rename.
* `camera_capture.cpp:88`, `131`: between two polls a preview waits for a sensor frame and writes
  up to 64 KiB. If that takes more than about the 60 ms by which the pulse outlasts the
  debounce, the node can miss the pulse (`MILESTONE_5_PLAN.md:27`: "Capture and camera-USB
  recovery take priority over preview"). `_service_preview()` sends no request once a
  trigger is pending, but a preview that a node has begun goes on. `NodeLoop` has this, and
  `PulseIsSeen` excepts it.
* `receiver.py:394` answers a request that is refused because a camera is still busy
  with LOADING, which no other event follows when the camera is done: the progress
  page, on which touch is disabled, stays up (`UX_SPEC.md:169` names its exits). It is
  in `Screen`.
* `qt_ui.py:702`, `736`, `752`: a request that comes between the result of a worker and
  the clearing of its flag is dropped, and the status stays at loading or deleting
  until the next result. `BusyEnds` excepts it.
* `qt_ui.py:315`: a scan that began before a deletion brings the deleted set back into
  the list until the next refresh. Opening or deleting it then fails.
* `qt_ui.py:368`: the result of a deletion closes an open dialog, whichever set it is about.
* `qt_ui.py:436`: while the drive of the review on record is pulled, every event that
  keeps the review resets the presentation, connected cameras included.
* `button_capture.ino:29` prints the text `BTC1` in the boot log. If the port is open by
  then, the Pi takes it for a frame, the header CRC fails, and the first session of a
  node is given up. It connects again.
* `receiver.py:215` sends "No camera nodes found" in every cycle of 50 ms.
* `media.py:106` writes the animation in place and never syncs it, although
  `commit_capture_set()` promises to publish "only after every artifact is durable":
  after a power failure a published set may hold a torn GIF. The originals and the
  manifest are synced, which is what `AckedPhotosSurvive` is about.
* `storage.py:281` compares directory times with the wall clock. A clock set ahead by
  more than the limit during a commit (a Raspberry Pi has no battery-backed one) lets
  a `resolve()` in another thread take the running commit's directory for a leftover.
  `CaptureStore` takes the clock not to jump during a commit (`GrowOld`); that this
  age is the only thing that keeps a clean-up from a running commit is documented
  here, not checked.
* `receiver.py:239` sends counts after the lock was released: two announcements can
  overtake each other and leave the smaller count on the screen.
* `ui_model.py:240`: a READY sent late takes the screen out of progress while a set
  is collected. `ui_model.py:69`: a camera that starts late sets the phase back.
  `ui_model.py:250`: after a failed capture a second error shows the old review.
* `qt_ui.py:358`: an animation that was decoded meanwhile takes the page from a
  running capture.
* `storage.py:233`, `238`: `manifest_details()` tests `active_mount` and then uses it; a
  thread that finds no drive clears it in between, and the commit fails although its
  own drive may be back. `Storage` has this.
* `storage.py:220` asks the automounter only when no mounted drive is of use: a
  preferred drive that is plugged in but not mounted loses to any mounted one
  (`pi_app/README.md:80`: another drive "can still be selected if that drive is absent").
* `recover_camera_usb.sh:10` to `41` exit before the trap that restarts the UI is set
  (`pi_app/README.md:66`: "restarts the UI on both success and failure"). The UI has not
  been stopped then, but `camera_recovery_pending` stays set, and with it the button
  disabled, because `systemctl start --no-block` had already succeeded.
* `media_catalog.py:200`: an interrupted deletion leaves a set in the library that
  has lost originals.

## Abstractions and what is not modelled

* Configuration: the shipped one. The diagnostic USB trigger, the test hooks that
  corrupt or truncate a transfer, and the incomplete-set override are off.
* `CameraNode`: `capture_seq` restarts with a new random `boot_id` at each boot; the
  pair is one number that grows over all boots. A frame is read whole or the stream
  is broken; resynchronisation after noise is in `NodeLoop`.
* `Receiver`: a port that appears again, and a duplicate session of a camera, wait
  until the old session is gone. The three locked calls of the main loop are
  separate steps, which allows more orders than one critical section does. The
  times of preview requests, reconnection and re-arming are nondeterministic. A
  session counts as registered before its `node_uid` is set, as in the code, and
  the drive is looked for outside the lock. `finalize(force=True)` has no caller.
* `CaptureStore`: an original and the manifest are each written, synced and renamed
  in one step; `library_preview.jpg` is treated like the animation; a directory sync
  is taken to work although `_fsync_directory()` ignores errors; one clean-up and one
  deletion at a time. A file system is free to keep or lose any name or content that
  was not synced, independently of all others.
* `Screen`: the receiver is reduced to what decides which events it sends and when.
  A session announces itself before its next frame is read, and a camera comes back
  only after its loss was announced. Preview frames, the USB badge and camera
  recovery are left out. An error text is kept only as "this review is partial",
  because that decides what a later error shows. `record_display_timing()` is
  a step of its own after any frame; a write that fails changes nothing, and it is tried
  again with the next frame. Handling events one at a time
  instead of draining the queue in one poll lets a frame or a button come between two
  events that the code handles together, which they also may if the second event
  arrives a poll later. The error that the
  receiver sends when it finds no drive at a connection or a request is left out; the
  one of a failed commit is in, and has the same effect on the pages.
* `Library`: sets with fewer than two views are never listed by the code and do not
  occur. A deletion that is interrupted leaves a part of the set, which counts as whole
  or as gone; `CaptureStore` has its files. Cards, pages of cards and thumbnails are
  left out, `select_library_item()` may choose any index. The ready, control and
  capture pages are one. `MaxTurns` is one bound on swaps and messages together.
* `Storage`: `mkdir()` of the capture directory succeeds on a writable drive, a commit
  succeeds if its drive is of use when it begins (`CaptureStore` has its steps and
  their failures), and the fields of `manifest_details()` are read in one step. Devices
  are asked in any order. Only the automounter mounts. The clean-up at the end of
  `_select()` is in `CaptureStore`; `Library` has `resolve()` as one step, because what
  matters there is only which drive is active.
* `NodeLoop`: bytes that are no part of a frame occur as frames cut within, or damaged
  in, their magic. What the node sends is only the time it takes: a HELLO in answer to a PING is the
  place `"answer"`, a preview frame or message the place `"send"`, the transfer of a
  photo a part of `"shoot"` (`CameraNode` and `Receiver` have the frames). `PhotoDone` leaves out
  `restorePreviewMode()`, which stops the node until it is reset if the sensor does not
  take the preview size back (`camera_capture.cpp:48`); `PollsAgain` is about what the Pi writes, not about
  that. The answer to a photo is an ACK for this photo or
  another frame; which answer releases the node is a subject of `Rig`. `MaxInputs`
  bounds taps, pulses and writes together.
* Not modelled: thumbnails, JPEG and GIF encoding, the fields of frames and
  manifests, preview frames on the screen, storage figures, camera recovery, QML
  layout, metrics, command line, deployment and evidence scripts. They
  are I/O and formatting, or have no state that two actors share.

## Plan

Done, in this order: the coordinator with its abstract specification and proofs;
nodes, receiver and rig with `PhotoFates`; the store with `AtomicStore`; the screen;
the library with its workers, drives and proofs; the node's loop in time; the
resolver of drives with its proofs.

Proved since: all invariants and action properties of these runs, and the three
implementations.

Next, most important first:

1. Theorems that compose components: that the `CommitOutcomes` of `Receiver` are those
   `CaptureStore` has, so that a photo whose node got an ACK survives a power failure; and that
   the events of `Receiver` are among those `Screen` assumes.
2. What `Coordinator` and `Receiver` share with `Screen` as one lemma each: counts agree
   with badges for every event, in the order any queue holds them.
3. Properties for hazards that have none yet: the wall clock in `storage.py:281` and the
   interrupted deletion in `media_catalog.py:200` belong to `CaptureStore`, the overlapping
   scan in `qt_ui.py:315` to `Library`.
