-------------------------------- MODULE Storage --------------------------------
(***************************************************************************)
(* UsbStorageResolver: which drive a capture set goes to.  resolve() is    *)
(* called by the thread that commits a set, by session threads and by the  *)
(* workers of the screen, without a lock, while drives come and go.        *)
(*                                                                         *)
(* mkdir() of the capture directory succeeds on a drive that is writable.  *)
(* The clean-up of stale staging directories, which each call begins with  *)
(* on its drive, is in CaptureStore.  auto_mount is on, as shipped.        *)
(***************************************************************************)
EXTENDS Integers

CONSTANTS Drives,
          Preferred, \* drives whose mount point has the preferred name
          Path,      \* the order of the mount points
          Committer, \* the thread in _finalize_if_ready(), one at a time
          Others,    \* other threads that call resolve()
          MaxTurns   \* bound on drives that are plugged in, pulled or fail

NoDrive == "no drive"

ASSUME StorageAssumption ==
  /\ NoDrive \notin Drives
  /\ Preferred \subseteq Drives
  /\ Path \in [Drives -> Nat]
  /\ \A d, e \in Drives : Path[d] = Path[e] => d = e
  /\ MaxTurns \in Nat

VARIABLES
  plugged,     \* drives in a port
  mounted,     \* drives that are mounted
  writable,    \* drives that can be written to once they are mounted
  turns,       \* drives plugged in, pulled or failed so far
  activeMount, \* active_mount
  activeRoot,  \* active_root
  call,        \* the call of resolve() of each thread
  record,      \* the drive a set was committed to, and what its manifest says
  fresh        \* observer: see Begin

drives == <<plugged, mounted, writable, turns, fresh>>
active == <<activeMount, activeRoot>>
vars == <<drives, active, call, record>>

Threads == {Committer} \cup Others
Steps == {"idle", "list", "try", "ask", "mount", "set mount", "set root", "clear mount",
          "clear root", "got", "raised", "describe", "committed"}

(* listed and todo: the mounts as they were read, and those yet to try;    *)
(* again: after the automounter; drive: the one to return.  sure is an     *)
(* observer: the drives that were in a port and writable all along and     *)
(* that the automounter, if it was called, did not decline.                *)
Resting == [at |-> "idle", listed |-> {}, todo |-> {}, again |-> FALSE,
            drive |-> NoDrive, sure |-> {}]
Nothing == [drive |-> NoDrive, mount |-> NoDrive, root |-> NoDrive]

Init ==
  /\ plugged \in SUBSET Drives /\ mounted = plugged /\ writable = plugged
  /\ turns = 0
  /\ activeMount = NoDrive /\ activeRoot = NoDrive
  /\ call = [t \in Threads |-> Resting]
  /\ record = Nothing
  /\ fresh = {}

-----------------------------------------------------------------------------
(* The drives.                                                             *)

Plug(d) ==
  /\ turns < MaxTurns /\ turns' = turns + 1
  /\ d \notin plugged
  /\ plugged' = plugged \cup {d}
  /\ writable' = writable \cup {d}
  /\ fresh' = {}
  /\ UNCHANGED <<mounted, active, call, record>>

Unsure(d) == [t \in Threads |-> [call[t] EXCEPT !.sure = @ \ {d}]]

Pull(d) ==
  /\ turns < MaxTurns /\ turns' = turns + 1
  /\ d \in plugged
  /\ plugged' = plugged \ {d} /\ mounted' = mounted \ {d} /\ writable' = writable \ {d}
  /\ call' = Unsure(d) /\ fresh' = {}
  /\ UNCHANGED <<active, record>>

(* The kernel makes a faulty file system read-only.                        *)
Fail(d) ==
  /\ turns < MaxTurns /\ turns' = turns + 1
  /\ d \in writable
  /\ writable' = writable \ {d}
  /\ call' = Unsure(d) /\ fresh' = {}
  /\ UNCHANGED <<plugged, mounted, active, record>>

-----------------------------------------------------------------------------
(* resolve().                                                              *)

Usable == mounted \cap writable

(* _ordered_mounts(): preferred mounts first, then in the order of paths.  *)
Before(d, e) ==
  \/ d \in Preferred /\ e \notin Preferred
  \/ (d \in Preferred <=> e \in Preferred) /\ Path[d] < Path[e]

(* Faulty variant: in the order of the paths only.                         *)
IsFirstByPath(d, mounts) == d \in mounts /\ \A e \in mounts : Path[d] <= Path[e]

(* The mount that _select() tries first.                                   *)
IsFirst(d, mounts) == d \in mounts /\ \A e \in mounts \ {d} : Before(d, e)

To(t, c) == call' = [call EXCEPT ![t] = c]

Running(t) == call[t].at # "idle"

(* Faulty variant: the drive of the call before is forgotten.              *)
BeginAnew(t) ==
  /\ ~Running(t)
  /\ To(t, [Resting EXCEPT !.at = "list", !.sure = plugged \cap writable])
  /\ fresh' = IF t = Committer /\ \E u \in Others \ fresh : Running(u)
                THEN fresh \ {t} ELSE fresh \cup {t}
  /\ activeMount' = NoDrive /\ activeRoot' = NoDrive
  /\ UNCHANGED <<plugged, mounted, writable, turns, record>>

(* fresh: the threads whose call began after the drives changed last; the  *)
(* committer only if no earlier call was still running then.               *)
Begin(t) ==
  /\ ~Running(t)
  /\ To(t, [Resting EXCEPT !.at = "list", !.sure = plugged \cap writable])
  /\ fresh' = IF t = Committer /\ \E u \in Others \ fresh : Running(u)
                THEN fresh \ {t} ELSE fresh \cup {t}
  /\ UNCHANGED <<plugged, mounted, writable, turns, active, record>>

(* discover_usb_mounts()                                                   *)
List(t) ==
  /\ call[t].at = "list"
  /\ To(t, [call[t] EXCEPT !.at = "try", !.listed = Usable, !.todo = Usable])
  /\ UNCHANGED <<drives, active, record>>

(* Faulty variant: the first mount that is of no use ends the search.      *)
GivenUp(todo, d) == {}

(* The mounts that _select() goes on with.                                 *)
Rest(todo, d) == todo \ {d}

(* _select()                                                               *)
Try(t) ==
  /\ call[t].at = "try"
  /\ \E d \in call[t].todo :
       /\ IsFirst(d, call[t].todo)
       /\ IF d \in Usable
            THEN To(t, [call[t] EXCEPT !.at = "set mount", !.drive = d])
            ELSE To(t, [call[t] EXCEPT !.todo = Rest(@, d)])
  /\ UNCHANGED <<drives, active, record>>

(* Faulty variant: the automounter is asked until there is a drive.        *)
AlwaysAsk(c) == "ask"

(* Faulty variant: what the last search found is returned, if it is none.  *)
ReturnNone(c) == IF c.again THEN "set mount" ELSE "ask"

(* The automounter is asked once.                                          *)
AfterNone(c) == IF c.again THEN "clear mount" ELSE "ask"

NoneLeft(t) ==
  /\ call[t].at = "try" /\ call[t].todo = {}
  /\ To(t, [call[t] EXCEPT !.at = AfterNone(call[t])])
  /\ UNCHANGED <<drives, active, record>>

(* discover_usb_block_devices()                                            *)
Devices == plugged \ mounted

(* auto_mount_usb_volumes(): the devices are looked up ...                 *)
Ask(t) ==
  /\ call[t].at = "ask"
  /\ To(t, [call[t] EXCEPT !.at = "mount", !.todo = Devices])
  /\ UNCHANGED <<drives, active, record>>

(* ... and udisks is asked to mount one after the other; it may decline.   *)
Mount(t) ==
  /\ call[t].at = "mount"
  /\ \E d \in call[t].todo :
       /\ mounted' \in {mounted, mounted \cup ({d} \cap plugged)}
       /\ To(t, [call[t] EXCEPT !.todo = @ \ {d}, !.sure = @ \ ({d} \ mounted')])
  /\ fresh' = IF mounted' = mounted THEN fresh ELSE {}
  /\ UNCHANGED <<plugged, writable, turns, active, record>>

Asked(t) ==
  /\ call[t].at = "mount" /\ call[t].todo = {}
  /\ To(t, [call[t] EXCEPT !.at = "list", !.again = TRUE])
  /\ UNCHANGED <<drives, active, record>>

SetMount(t) ==
  /\ call[t].at = "set mount"
  /\ activeMount' = call[t].drive
  /\ To(t, [Resting EXCEPT !.at = "set root", !.drive = call[t].drive])
  /\ UNCHANGED <<drives, activeRoot, record>>

SetRoot(t) ==
  /\ call[t].at = "set root"
  /\ activeRoot' = call[t].drive
  /\ To(t, [call[t] EXCEPT !.at = "got"])
  /\ UNCHANGED <<drives, activeMount, record>>

ClearMount(t) ==
  /\ call[t].at = "clear mount"
  /\ activeMount' = NoDrive
  /\ To(t, [Resting EXCEPT !.at = "clear root"])
  /\ UNCHANGED <<drives, activeRoot, record>>

(* Then StorageUnavailable is raised.                                      *)
ClearRoot(t) ==
  /\ call[t].at = "clear root"
  /\ activeRoot' = NoDrive
  /\ To(t, [call[t] EXCEPT !.at = "raised"])
  /\ UNCHANGED <<drives, activeMount, record>>

Resolve(t) ==
  \/ Begin(t) \/ List(t) \/ Try(t) \/ NoneLeft(t) \/ Ask(t) \/ Mount(t) \/ Asked(t)
  \/ SetMount(t) \/ SetRoot(t) \/ ClearMount(t) \/ ClearRoot(t)

-----------------------------------------------------------------------------
(* What the callers do with it.                                            *)

Leave(t) ==
  /\ call[t].at \in (IF t = Committer THEN {"raised", "committed"} ELSE {"raised", "got"})
  /\ To(t, Resting)
  /\ record' = IF t = Committer THEN Nothing ELSE record
  /\ UNCHANGED <<drives, active>>

(* The set is committed to the root that was returned, if the drive is     *)
(* still of use.                                                           *)
Commit(drive, mount, root) ==
  IF drive \in Usable
    THEN /\ record' = [drive |-> drive, mount |-> mount, root |-> root]
         /\ To(Committer, [Resting EXCEPT !.at = "committed"])
    ELSE /\ To(Committer, [Resting EXCEPT !.at = "raised"])
         /\ UNCHANGED record

(* manifest_details(): first, whether there is a drive at all ...          *)
CheckActive ==
  /\ call[Committer].at = "got"
  /\ IF NoDrive \in {activeMount, activeRoot}
       THEN Commit(call[Committer].drive, NoDrive, NoDrive)
       ELSE /\ To(Committer, [call[Committer] EXCEPT !.at = "describe"])
            /\ UNCHANGED record
  /\ UNCHANGED <<drives, active>>

(* ... then its fields, for the manifest.  If the mount is gone by now,    *)
(* the commit fails.                                                       *)
Describe ==
  /\ call[Committer].at = "describe"
  /\ IF activeMount = NoDrive
       THEN To(Committer, [Resting EXCEPT !.at = "raised"]) /\ UNCHANGED record
       ELSE Commit(call[Committer].drive, activeMount, activeRoot)
  /\ UNCHANGED <<drives, active>>

Step(t) == Resolve(t) \/ Leave(t) \/ (t = Committer /\ (CheckActive \/ Describe))

Next ==
  \/ \E d \in Drives : Plug(d) \/ Pull(d) \/ Fail(d)
  \/ \E t \in Threads : Step(t)

Spec == Init /\ [][Next]_vars

(* Each thread runs.                                                       *)
FairSpec == Spec /\ \A t \in Threads : WF_vars(Step(t))

-----------------------------------------------------------------------------
Calls == {c \in [at : Steps, listed : SUBSET Drives, todo : SUBSET Drives, again : BOOLEAN,
                 drive : Drives \cup {NoDrive}, sure : SUBSET Drives] :
            c.at \in {"set mount", "set root", "got", "describe"} => c.drive \in Drives}

(* Every variable holds a value of its type, and what resolve() returns is *)
(* a drive.                                                                *)
TypeOK ==
  /\ plugged \subseteq Drives /\ mounted \subseteq plugged /\ writable \subseteq plugged
  /\ {activeMount, activeRoot} \subseteq Drives \cup {NoDrive}
  /\ call \in [Threads -> Calls]
  /\ record \in [drive : Drives \cup {NoDrive}, mount : Drives \cup {NoDrive},
                 root : Drives \cup {NoDrive}]
  /\ fresh \subseteq Threads

(* resolve() gives up only if no drive was there for it all along,         *)
(* mounted or not, whatever other threads mount and resolve meanwhile.     *)
RaisesOnlyWithoutDrive ==
  \A t \in Threads : call[t].at = "clear mount" => call[t].sure = {}

(* Of the mounts it has listed, resolve() takes the first in the order of  *)
(* preference that stays usable.                                           *)
PreferredWins ==
  \A t \in Threads : call[t].at = "set mount" =>
    \A d \in call[t].sure \cap call[t].listed : ~Before(d, call[t].drive)

(* Every call ends, with a drive or an error, though drives come and go.   *)
CallsEnd == \A t \in Threads : call[t].at = "list" ~> call[t].at \in {"got", "raised"}

(* The manifest names the drive that the set is on, although other threads *)
(* set and clear the active drive during a commit, as long as no drive     *)
(* changes: calls that see the same drives choose the same.                *)
ManifestNamesItsDrive ==
  Committer \in fresh /\ record.drive # NoDrive =>
    record.mount = record.drive /\ record.root = record.drive
=============================================================================
