------------------------------ MODULE StoreProofs ------------------------------
(***************************************************************************)
(* Theorems about CaptureStore, for any capture sets and cameras and any   *)
(* number of power failures: what is certain on the drive, and that the    *)
(* steps of commits, clean-ups and deletions implement AtomicStore.        *)
(***************************************************************************)
EXTENDS CaptureStore, TLAPS

-----------------------------------------------------------------------------
(* What programs see is among what a power failure could leave, and a      *)
(* directory that was never published is not found under a published name. *)
DriveAgrees(s) ==
  /\ \A f \in Files : seen[s][f] \in data[s][f]
  /\ place[s] = "unused" =>
       /\ onDisk[s] = {"gone"} /\ s \notin acked \cup refused \cup removed
       /\ \A f \in Files : data[s][f] = {"none"}
  /\ place[s] # "unused" => place[s] \in onDisk[s]
  /\ "unused" \notin onDisk[s]
  /\ place[s] = "staging" => "published" \notin onDisk[s]

(* The running commit has its staging directory to itself, and what it has *)
(* written of the originals and the manifest is whole as soon as its name  *)
(* is certain; it is certain before the rename, and the rename is certain  *)
(* before the nodes are told.                                              *)
CommitOf(s) ==
  /\ s = NoSet <=> commit.step = "idle"
  /\ commit.step \in FailingSteps =>
       /\ place[s] = "staging" /\ cleaner.set # s /\ s \notin old \cup removed \cup refused
       /\ \A f \in Essential(s) :
            data[s][f] \subseteq {"none", "whole"} /\ (f \notin commit.todo => seen[s][f] = "whole")
  /\ commit.step \in {"sync staging", "rename"} => commit.todo = {}
  /\ commit.step = "rename" => \A f \in Essential(s) : data[s][f] = {"whole"}
  /\ commit.step \in {"sync root", "acknowledge"} /\ s \notin removed =>
       place[s] = "published" /\ s \notin refused
  /\ commit.step = "acknowledge" /\ s \notin removed => onDisk[s] = {"published"}

CommitAgrees == CommitOf(commit.set)

(* A clean-up only works on what a commit has left behind, a deletion only *)
(* on what the user has given up.                                          *)
CleanersAgree ==
  /\ \A s \in old : place[s] = "staging"
  /\ IF cleaner.set = NoSet THEN cleaner.todo = {} ELSE place[cleaner.set] = "staging"
  /\ IF deleter.set = NoSet THEN deleter.todo = {}
                            ELSE place[deleter.set] = "published" /\ deleter.set \in removed

(* The three properties, of one set.                                       *)
KeepsPromises(s) ==
  /\ s \in acked \ removed => Safe(s)
  /\ "published" \in onDisk[s] /\ s \notin removed => \A f \in Essential(s) : data[s][f] = {"whole"}
  /\ s \in refused \ removed => "published" \notin onDisk[s] \/ Safe(s)

StoreInv ==
  /\ TypeOK
  /\ \A s \in Sets : DriveAgrees(s) /\ KeepsPromises(s)
  /\ CommitAgrees
  /\ CleanersAgree
-----------------------------------------------------------------------------
LEMMA ManifestIsAFile == Manifest \in Files /\ Animation \in Files /\ Cameras \subseteq Files
BY DEF Files

LEMMA StoreTypeInit == Init => TypeOK
<1> SUFFICES ASSUME Init  PROVE TypeOK
  OBVIOUS
<1>1. seen \in [Sets -> [Files -> Contents]]
  BY DEF Init, NoFiles, Contents
<1>2. data \in [Sets -> [Files -> (SUBSET Contents) \ {{}}]]
  BY DEF Init, NoFiles, Stable, Contents
<1>3. failures \in 0..MaxFailures
  BY StoreAssumption DEF Init
<1>4. onDisk \in [Sets -> (SUBSET Places) \ {{}}] /\ place \in [Sets -> Places]
  BY DEF Init, Places
<1> QED  BY <1>1, <1>2, <1>3, <1>4 DEF Init, TypeOK, Resting, Idle

(* rmtree() has unlinked files: seen, file by file.                        *)
LEMMA UnlinkedFacts ==
  ASSUME TypeOK, NEW s \in Sets, NEW fs \in SUBSET Files, Unlinked(s, fs)
  PROVE  /\ seen' \in [Sets -> [Files -> Contents]]
         /\ data' \in [Sets -> [Files -> (SUBSET Contents) \ {{}}]]
         /\ \A r \in Sets \ {s} : seen'[r] = seen[r] /\ data'[r] = data[r]
         /\ \A f \in Files \ fs : seen'[s][f] = seen[s][f] /\ data'[s][f] = data[s][f]
         /\ \A f \in fs : seen'[s][f] = "none" /\ data'[s][f] = data[s][f] \cup {"none"}
<1>1. seen \in [Sets -> [Files -> Contents]] /\ data \in [Sets -> [Files -> (SUBSET Contents) \ {{}}]]
  BY DEF TypeOK
<1>2. /\ seen' = [seen EXCEPT ![s] = [f \in Files |-> IF f \in fs THEN "none" ELSE seen[s][f]]]
      /\ data' = [data EXCEPT ![s] = [f \in Files |-> IF f \in fs THEN data[s][f] \cup {"none"}
                                                                  ELSE data[s][f]]]
  BY DEF Unlinked
<1>3. [f \in Files |-> IF f \in fs THEN "none" ELSE seen[s][f]] \in [Files -> Contents]
  BY <1>1 DEF Contents
<1>4. [f \in Files |-> IF f \in fs THEN data[s][f] \cup {"none"} ELSE data[s][f]]
        \in [Files -> (SUBSET Contents) \ {{}}]
  BY <1>1 DEF Contents
<1> QED  BY <1>1, <1>2, <1>3, <1>4

(* A file is written: the same.                                            *)
LEMMA WrittenFacts ==
  ASSUME TypeOK, CommitAgrees, NEW f \in Files, WriteFile(f)
  PROVE  /\ commit.set \in Sets
         /\ seen' \in [Sets -> [Files -> Contents]]
         /\ data' \in [Sets -> [Files -> (SUBSET Contents) \ {{}}]]
         /\ \A r \in Sets, g \in Files : r # commit.set \/ g # f =>
              seen'[r][g] = seen[r][g] /\ data'[r][g] = data[r][g]
         /\ seen'[commit.set][f] = "whole"
         /\ data'[commit.set][f] = data[commit.set][f] \cup Unsynced(f)
<1>1. /\ seen \in [Sets -> [Files -> Contents]]
      /\ data \in [Sets -> [Files -> (SUBSET Contents) \ {{}}]]
      /\ Unsynced(f) \subseteq Contents
  BY DEF TypeOK, Unsynced, Contents
<1>2. commit.set \in Sets
  BY DEF TypeOK, CommitAgrees, CommitOf, WriteFile
<1>3. /\ seen' = [seen EXCEPT ![commit.set] = [seen[commit.set] EXCEPT ![f] = "whole"]]
      /\ data' = [data EXCEPT ![commit.set] =
                   [data[commit.set] EXCEPT ![f] = data[commit.set][f] \cup Unsynced(f)]]
  BY DEF WriteFile
<1>4. [seen[commit.set] EXCEPT ![f] = "whole"] \in [Files -> Contents]
  BY <1>1, <1>2 DEF Contents
<1>5. [data[commit.set] EXCEPT ![f] = data[commit.set][f] \cup Unsynced(f)]
        \in [Files -> (SUBSET Contents) \ {{}}]
  BY <1>1, <1>2
<1> QED  BY <1>1, <1>2, <1>3, <1>4, <1>5

LEMMA Untouched ==
  ASSUME NEW s \in Sets, StoreInv,
         images'[s] = images[s], place'[s] = place[s], onDisk'[s] = onDisk[s],
         \A f \in Files : seen'[s][f] = seen[s][f] /\ data'[s][f] = data[s][f],
         s \in acked' <=> s \in acked, s \in refused' <=> s \in refused,
         s \in removed' <=> s \in removed
  PROVE  DriveAgrees(s)' /\ KeepsPromises(s)' /\ Essential(s)' = Essential(s)
<1>1. DriveAgrees(s)'
  BY DEF StoreInv, DriveAgrees
<1>2. Essential(s)' = Essential(s) /\ Essential(s) \subseteq Files
  BY DEF Essential, StoreInv, TypeOK, Files
<1>3. \A f \in Essential(s) : data'[s][f] = data[s][f]
  BY <1>2
<1> QED  BY <1>1, <1>2, <1>3 DEF StoreInv, KeepsPromises, Safe

-----------------------------------------------------------------------------
(* Every step keeps the invariant.                                         *)
LEMMA MakeStagingStep ==
  ASSUME StoreInv, NEW s \in Sets, NEW cams \in SUBSET Cameras, MakeStaging(s, cams)
  PROVE  StoreInv'
<1>1. TypeOK /\ s # NoSet /\ DriveAgrees(s) /\ commit.set = NoSet
  BY StoreAssumption DEF StoreInv, MakeStaging, CommitAgrees, CommitOf
<1>2. /\ images' \in [Sets -> SUBSET Cameras] /\ images'[s] = cams
      /\ \A r \in Sets \ {s} : images'[r] = images[r]
      /\ place' \in [Sets -> Places] /\ place'[s] = "staging"
      /\ \A r \in Sets \ {s} : place'[r] = place[r]
      /\ onDisk' \in [Sets -> (SUBSET Places) \ {{}}] /\ onDisk'[s] = {"gone", "staging"}
      /\ \A r \in Sets \ {s} : onDisk'[r] = onDisk[r]
  BY <1>1 DEF MakeStaging, TypeOK, Places, DriveAgrees
<1>3. /\ commit' = [set |-> s, step |-> "writing", todo |-> FilesOf(cams)]
      /\ FilesOf(cams) \subseteq Files /\ Essential(s)' \subseteq FilesOf(cams)
  BY <1>2 DEF MakeStaging, FilesOf, Files, Essential
<1>4. UNCHANGED <<seen, data, old, cleaner, deleter, acked, refused, removed, failures>>
  BY DEF MakeStaging
<1>5. TypeOK'
  BY <1>1, <1>2, <1>3, <1>4 DEF TypeOK, FailingStepsAll
<1>6. \A r \in Sets : DriveAgrees(r)' /\ KeepsPromises(r)'
  <2>1. \A r \in Sets \ {s} : DriveAgrees(r)' /\ KeepsPromises(r)'
    BY <1>2, <1>4, Untouched
  <2>2. DriveAgrees(s)' /\ KeepsPromises(s)'
    BY <1>1, <1>2, <1>4 DEF DriveAgrees, KeepsPromises, MakeStaging
  <2> QED  BY <2>1, <2>2
<1>7. CommitAgrees'
  <2>1. cleaner.set # s /\ s \notin old \cup removed \cup refused
    BY <1>1 DEF StoreInv, CleanersAgree, DriveAgrees, MakeStaging
  <2>2. \A f \in Essential(s)' : f \in Files /\ data[s][f] = {"none"}
    BY <1>1, <1>3 DEF DriveAgrees, MakeStaging
  <2> QED  BY <1>1, <1>2, <1>3, <1>4, <2>1, <2>2 DEF CommitAgrees, CommitOf, FailingSteps
<1>8. CleanersAgree'
  BY <1>1, <1>2, <1>4 DEF StoreInv, CleanersAgree, MakeStaging, TypeOK
<1> QED  BY <1>5, <1>6, <1>7, <1>8 DEF StoreInv

LEMMA WriteFileStep ==
  ASSUME StoreInv, NEW f \in Files, NEW s, s = commit.set, WriteFile(f)
  PROVE  StoreInv'
<1>1. TypeOK /\ CommitAgrees /\ commit.step = "writing" /\ f \in commit.todo /\ s \in Sets
      /\ place[s] = "staging" /\ "published" \notin onDisk[s] /\ DriveAgrees(s) /\ s # NoSet
  BY WrittenFacts, StoreAssumption DEF StoreInv, WriteFile, DriveAgrees
<1>2. /\ seen' \in [Sets -> [Files -> Contents]]
      /\ data' \in [Sets -> [Files -> (SUBSET Contents) \ {{}}]]
      /\ \A r \in Sets, g \in Files : r # s \/ g # f => seen'[r][g] = seen[r][g] /\ data'[r][g] = data[r][g]
      /\ seen'[s][f] = "whole"
      /\ data'[s][f] = data[s][f] \cup Unsynced(f)
  BY <1>1, WrittenFacts
<1>3. /\ commit' \in [set : Sets \cup {NoSet}, todo : SUBSET Files,
                      step : {"writing", "sync staging"}]
      /\ commit'.set = s /\ commit'.todo = commit.todo \ {f}
      /\ commit'.step = "sync staging" => commit'.todo = {}
  BY <1>1 DEF WriteFile, TypeOK
<1>4. UNCHANGED <<images, place, onDisk, cleaner, deleter, acked, refused, removed, failures>>
      /\ old' = old \ {s}
  BY DEF WriteFile
<1>5. TypeOK'
  BY <1>1, <1>2, <1>3, <1>4 DEF TypeOK, FailingStepsAll
<1>6. \A r \in Sets : DriveAgrees(r)' /\ KeepsPromises(r)'
  <2>1. \A r \in Sets \ {s} : DriveAgrees(r)' /\ KeepsPromises(r)'
    BY <1>2, <1>4, Untouched
  <2>2. \A g \in Files : seen'[s][g] \in data'[s][g]
    BY <1>1, <1>2 DEF DriveAgrees, Unsynced
  <2>3. DriveAgrees(s)'
    BY <1>1, <1>4, <2>2 DEF DriveAgrees
  <2>4. KeepsPromises(s)'
    BY <1>1, <1>4 DEF StoreInv, KeepsPromises, Safe
  <2> QED  BY <2>1, <2>3, <2>4
<1>7. CommitAgrees'
  <2>1. cleaner.set # s /\ s \notin old \cup removed \cup refused
        /\ \A g \in Essential(s) :
               data[s][g] \subseteq {"none", "whole"} /\ (g \notin commit.todo => seen[s][g] = "whole")
    BY <1>1 DEF CommitAgrees, CommitOf, FailingSteps
  <2>2. Essential(s)' = Essential(s) /\ Essential(s) \subseteq Files /\ Animation \notin Essential(s)
    <3>1. images[s] \subseteq Cameras
      BY <1>1 DEF TypeOK
    <3>2. Animation # Manifest
      BY DEF Animation, Manifest
    <3> QED  BY <1>4, <3>1, <3>2, ManifestIsAFile, StoreAssumption DEF Essential
  <2>3. f \in Essential(s) => Unsynced(f) = {"whole"}
    BY <2>2 DEF Unsynced
  <2>4. \A g \in Essential(s) :
          data'[s][g] \subseteq {"none", "whole"} /\ (g \notin commit'.todo => seen'[s][g] = "whole")
    <3> SUFFICES ASSUME NEW g \in Essential(s)
                 PROVE  data'[s][g] \subseteq {"none", "whole"}
                        /\ (g \notin commit'.todo => seen'[s][g] = "whole")
      OBVIOUS
    <3>1. CASE g = f
      BY <1>2, <2>1, <2>3, <3>1
    <3>2. CASE g # f
      <4>1. g \in Files /\ seen'[s][g] = seen[s][g] /\ data'[s][g] = data[s][g]
        BY <1>1, <1>2, <2>2, <3>2
      <4> QED  BY <1>3, <2>1, <3>2, <4>1
    <3> QED  BY <3>1, <3>2
  <2>5. CommitOf(s)'
    <3>1. commit'.step \in {"writing", "sync staging"}
      BY <1>3
    <3>2. /\ place'[s] = "staging" /\ cleaner'.set # s
          /\ s \notin old' \cup removed' \cup refused'
      BY <1>1, <1>4, <2>1
    <3>3. \A g \in Essential(s)' :
            data'[s][g] \subseteq {"none", "whole"} /\ (g \notin commit'.todo => seen'[s][g] = "whole")
      BY <2>2, <2>4
    <3> QED  BY <1>1, <1>3, <3>1, <3>2, <3>3 DEF CommitOf
  <2> QED  BY <1>3, <2>5 DEF CommitAgrees
<1>8. CleanersAgree'
  BY <1>4 DEF StoreInv, CleanersAgree
<1> QED  BY <1>5, <1>6, <1>7, <1>8 DEF StoreInv

(* A commit before its rename works on a directory of its own that is not  *)
(* known outside.                                                          *)
LEMMA BeforeRename ==
  ASSUME StoreInv, NEW s, s = commit.set, commit.step \in FailingSteps
  PROVE  /\ TypeOK /\ CommitOf(s) /\ s \in Sets /\ s # NoSet
         /\ place[s] = "staging" /\ "published" \notin onDisk[s] /\ DriveAgrees(s)
         /\ s # cleaner.set /\ s # deleter.set
         /\ s \notin old \cup removed \cup refused \cup acked
<1>1. TypeOK /\ CommitOf(s)
  BY DEF StoreInv, CommitAgrees
<1>2. s # NoSet /\ place[s] = "staging" /\ s # cleaner.set /\ s \notin old \cup removed \cup refused
  BY <1>1 DEF CommitOf, FailingSteps
<1>3. s \in Sets
  BY <1>1, <1>2 DEF TypeOK
<1>4. DriveAgrees(s) /\ KeepsPromises(s)
  BY <1>3 DEF StoreInv
<1>5. "published" \notin onDisk[s]
  BY <1>2, <1>4 DEF DriveAgrees
<1>6. s \notin acked
  BY <1>2, <1>4, <1>5 DEF KeepsPromises, Safe
<1>7. s # deleter.set
  BY <1>2 DEF StoreInv, CleanersAgree
<1> QED  BY <1>1, <1>2, <1>3, <1>4, <1>5, <1>6, <1>7

LEMMA SyncStagingStep ==
  ASSUME StoreInv, NEW s, s = commit.set, SyncStaging
  PROVE  StoreInv'
<1>1. TypeOK /\ CommitOf(s) /\ commit.step = "sync staging" /\ s \in Sets /\ s # NoSet
      /\ place[s] = "staging" /\ "published" \notin onDisk[s] /\ DriveAgrees(s)
      /\ s # cleaner.set /\ s # deleter.set /\ s \notin old \cup removed \cup refused \cup acked
  BY BeforeRename DEF SyncStaging, FailingSteps
<1>2. /\ data' \in [Sets -> [Files -> (SUBSET Contents) \ {{}}]]
      /\ \A r \in Sets \ {s} : data'[r] = data[r]
      /\ \A f \in Files :
           data'[s][f] = IF seen[s][f] = "none" THEN {"none"} ELSE data[s][f] \ {"none"}
  <2> DEFINE synced == [f \in Files |-> IF seen[s][f] = "none" THEN {"none"} ELSE data[s][f] \ {"none"}]
  <2>1. data' = [data EXCEPT ![s] = synced]
    BY <1>1 DEF SyncStaging, NamesSynced
  <2>2. ASSUME NEW f \in Files
        PROVE  (IF seen[s][f] = "none" THEN {"none"} ELSE data[s][f] \ {"none"})
                 \in (SUBSET Contents) \ {{}}
    <3>1. seen[s][f] \in data[s][f]
      BY <1>1 DEF DriveAgrees
    <3>2. data[s] \in [Files -> (SUBSET Contents) \ {{}}]
      BY <1>1 DEF TypeOK
    <3>3. data[s][f] \subseteq Contents
      BY <3>2
    <3> QED  BY <3>1, <3>3 DEF Contents
  <2>3. synced \in [Files -> (SUBSET Contents) \ {{}}]
    BY <2>2
  <2> QED  BY <1>1, <2>1, <2>3 DEF TypeOK
<1>3. commit' = [commit EXCEPT !.step = "rename"]
      /\ UNCHANGED <<images, place, seen, onDisk, old, cleaner, deleter, acked, refused,
                     removed, failures>>
  BY DEF SyncStaging
<1>4. commit'.set = s /\ commit'.todo = {} /\ commit'.step = "rename"
  BY <1>1, <1>3 DEF TypeOK, CommitOf
<1>5. TypeOK'
  BY <1>1, <1>2, <1>3 DEF TypeOK, FailingStepsAll
<1>6. \A r \in Sets : DriveAgrees(r)' /\ KeepsPromises(r)'
  <2>1. \A r \in Sets \ {s} : DriveAgrees(r)' /\ KeepsPromises(r)'
    BY <1>2, <1>3, Untouched
  <2>2. DriveAgrees(s)'
    BY <1>1, <1>2, <1>3, ZenonT(40) DEF DriveAgrees
  <2>3. KeepsPromises(s)'
    BY <1>1, <1>3 DEF StoreInv, KeepsPromises, Safe
  <2> QED  BY <2>1, <2>2, <2>3
<1>7. CommitOf(s)'
  <2>1. Essential(s)' = Essential(s) /\ Essential(s) \subseteq Files
    BY <1>1, <1>3, ManifestIsAFile DEF Essential, TypeOK
  <2>2. \A f \in Essential(s) : data'[s][f] = {"whole"}
    <3>1. \A f \in Essential(s) :
            seen[s][f] = "whole" /\ data[s][f] \subseteq {"none", "whole"} /\ seen[s][f] \in data[s][f]
      BY <1>1, <2>1 DEF CommitOf, FailingSteps, DriveAgrees
    <3>2. \A f \in Essential(s) : data'[s][f] = data[s][f] \ {"none"}
      BY <1>2, <2>1, <3>1
    <3> QED  BY <3>1, <3>2
  <2>3. \A f \in Essential(s)' :
          data'[s][f] = {"whole"} /\ data'[s][f] \subseteq {"none", "whole"} /\ seen'[s][f] = "whole"
    <3>1. \A f \in Essential(s) : seen[s][f] = "whole"
      BY <1>1 DEF CommitOf, FailingSteps
    <3>2. \A f \in Essential(s) : data'[s][f] = {"whole"} /\ seen'[s][f] = "whole"
      BY <1>3, <2>2, <3>1
    <3> QED  BY <2>1, <3>2
  <2>4. place'[s] = "staging" /\ cleaner'.set # s /\ s \notin old' \cup removed' \cup refused'
    BY <1>1, <1>3
  <2> QED  BY <1>1, <1>4, <2>3, <2>4 DEF CommitOf
<1>8. CleanersAgree'
  BY <1>3 DEF StoreInv, CleanersAgree
<1> QED  BY <1>4, <1>5, <1>6, <1>7, <1>8 DEF StoreInv, CommitAgrees

LEMMA RenameStep ==
  ASSUME StoreInv, NEW s, s = commit.set, Rename
  PROVE  StoreInv'
<1>1. TypeOK /\ CommitOf(s) /\ commit.step = "rename" /\ s \in Sets /\ s # NoSet
      /\ place[s] = "staging" /\ "published" \notin onDisk[s] /\ DriveAgrees(s)
      /\ s # cleaner.set /\ s # deleter.set /\ s \notin old \cup removed \cup refused \cup acked
  BY BeforeRename DEF Rename, FailingSteps
<1>2. /\ place' \in [Sets -> Places] /\ place'[s] = "published"
      /\ \A r \in Sets \ {s} : place'[r] = place[r]
      /\ onDisk' \in [Sets -> (SUBSET Places) \ {{}}] /\ onDisk'[s] = onDisk[s] \cup {"published"}
      /\ \A r \in Sets \ {s} : onDisk'[r] = onDisk[r]
  <2>1. place' = [place EXCEPT ![s] = "published"]
        /\ onDisk' = [onDisk EXCEPT ![s] = @ \cup {"published"}]
    BY <1>1 DEF Rename
  <2>2. onDisk[s] \cup {"published"} \in (SUBSET Places) \ {{}}
    BY <1>1 DEF TypeOK, Places
  <2>3. place \in [Sets -> Places] /\ onDisk \in [Sets -> (SUBSET Places) \ {{}}]
        /\ "published" \in Places
    BY <1>1 DEF TypeOK, Places
  <2> QED  BY <1>1, <2>1, <2>2, <2>3
<1>3. commit' = [commit EXCEPT !.step = "sync root"] /\ old' = old \ {s}
      /\ UNCHANGED <<images, seen, data, cleaner, deleter, acked, refused, removed, failures>>
  BY <1>1 DEF Rename
<1>4. commit'.set = s /\ commit'.step = "sync root"
  BY <1>1, <1>3 DEF TypeOK
<1>5. TypeOK'
  BY <1>1, <1>2, <1>3 DEF TypeOK, FailingStepsAll
<1>6. \A r \in Sets : DriveAgrees(r)' /\ KeepsPromises(r)'
  <2>1. \A r \in Sets \ {s} : DriveAgrees(r)' /\ KeepsPromises(r)'
    BY <1>2, <1>3, Untouched
  <2>2. DriveAgrees(s)'
    BY <1>1, <1>2, <1>3 DEF DriveAgrees
  <2>3. s \notin acked
    BY <1>1 DEF StoreInv, KeepsPromises, Safe
  <2>4. Essential(s)' = Essential(s) /\ \A f \in Essential(s) : data[s][f] = {"whole"}
    BY <1>1, <1>3 DEF Essential, CommitOf
  <2>5. KeepsPromises(s)'
    BY <1>1, <1>3, <2>3, <2>4 DEF KeepsPromises
  <2> QED  BY <2>1, <2>2, <2>5
<1>7. CommitOf(s)'
  BY <1>1, <1>2, <1>3, <1>4 DEF CommitOf, FailingSteps
<1>8. CleanersAgree'
  <2>1. old \subseteq Sets /\ cleaner.set \in Sets \cup {NoSet} /\ deleter.set \in Sets \cup {NoSet}
    BY <1>1 DEF TypeOK
  <2> QED  BY <1>1, <1>2, <1>3, <2>1, ZenonT(40) DEF StoreInv, CleanersAgree
<1> QED  BY <1>4, <1>5, <1>6, <1>7, <1>8 DEF StoreInv, CommitAgrees

(* fsync() of the root makes the place of each directory certain.          *)
LEMMA RootSyncedFacts ==
  ASSUME StoreInv, NEW s \in Sets
  PROVE  /\ RootSynced \in [Sets -> (SUBSET Places) \ {{}}]
         /\ RootSynced[s] = IF place[s] = "unused" THEN {"gone"} ELSE {place[s]}
         /\ RootSynced[s] \subseteq onDisk[s]
<1>1. place \in [Sets -> Places] /\ onDisk \in [Sets -> (SUBSET Places) \ {{}}]
  BY DEF StoreInv, TypeOK
<1>2. \A r \in Sets : (IF place[r] = "unused" THEN onDisk[r] ELSE {place[r]}) \in (SUBSET Places) \ {{}}
  BY <1>1
<1>3. /\ place[s] = "unused" => onDisk[s] = {"gone"}
      /\ place[s] # "unused" => place[s] \in onDisk[s]
  BY DEF StoreInv, DriveAgrees
<1> QED  BY <1>1, <1>2, <1>3 DEF RootSynced

LEMMA RootSyncedPromises ==
  ASSUME StoreInv, NEW s \in Sets, onDisk'[s] = RootSynced[s],
         UNCHANGED <<images, place, seen, data, acked, refused, removed>>
  PROVE  DriveAgrees(s)' /\ KeepsPromises(s)'
<1>1. DriveAgrees(s)'
  <2>1. DriveAgrees(s)
    BY DEF StoreInv
  <2> QED  BY <2>1, RootSyncedFacts DEF DriveAgrees
<1>2. onDisk[s] = {"published"} => onDisk'[s] = {"published"}
  BY RootSyncedFacts
<1>3. Essential(s)' = Essential(s)
  BY DEF Essential
<1> QED  BY <1>1, <1>2, <1>3, RootSyncedFacts, ZenonT(40) DEF StoreInv, KeepsPromises, Safe

LEMMA SyncRootStep ==
  ASSUME StoreInv, NEW s, s = commit.set, SyncRoot
  PROVE  StoreInv'
<1>1. TypeOK /\ CommitOf(s) /\ commit.step = "sync root" /\ s \in Sets /\ s # NoSet
  BY StoreAssumption DEF StoreInv, SyncRoot, CommitAgrees, CommitOf, TypeOK
<1>2. onDisk' = RootSynced
      /\ commit' = [commit EXCEPT !.step = "acknowledge", !.todo = images[s]]
      /\ UNCHANGED <<images, place, seen, data, old, cleaner, deleter, acked, refused,
                     removed, failures>>
  BY DEF SyncRoot
<1>3. /\ commit' \in [set : Sets, todo : SUBSET Files, step : {"acknowledge"}]
      /\ commit'.set = s /\ commit'.step = "acknowledge"
  <2>1. images[s] \in SUBSET Files
    BY <1>1, ManifestIsAFile DEF TypeOK
  <2> QED  BY <1>1, <1>2, <2>1 DEF TypeOK
<1>4. TypeOK'
  BY <1>1, <1>2, <1>3, RootSyncedFacts DEF TypeOK
<1>5. \A r \in Sets : DriveAgrees(r)' /\ KeepsPromises(r)'
  BY <1>2, RootSyncedPromises
<1>6. CommitOf(s)'
  BY <1>1, <1>2, <1>3, RootSyncedFacts DEF CommitOf, FailingSteps
<1>7. CleanersAgree'
  BY <1>2 DEF StoreInv, CleanersAgree
<1> QED  BY <1>3, <1>4, <1>5, <1>6, <1>7 DEF StoreInv, CommitAgrees

(* Telling the nodes, whatever they are told.                              *)
LEMMA ToldStep ==
  ASSUME StoreInv, NEW s, s = commit.set, commit.step = "acknowledge",
         UNCHANGED <<images, place, seen, onDisk, data, old, cleaner, deleter, removed, failures>>,
         acked' \in {acked, acked \cup {s}}, refused' \in {refused, refused \cup {s}},
         \/ commit' = Idle
         \/ /\ commit' \in [set : {s}, todo : SUBSET Files, step : {"acknowledge"}]
            /\ refused' = refused
  PROVE  StoreInv'
<1>1. TypeOK /\ CommitOf(s) /\ s \in Sets /\ s # NoSet /\ DriveAgrees(s) /\ KeepsPromises(s)
  BY StoreAssumption DEF StoreInv, CommitAgrees, CommitOf, TypeOK
<1>2. Idle \in [set : {NoSet}, todo : {{}}, step : {"idle"}] /\ Idle.set = NoSet /\ Idle.step = "idle"
  BY DEF Idle
<1>3. TypeOK'
  <2>1. commit' \in [set : Sets \cup {NoSet}, todo : SUBSET Files,
                     step : {"idle", "acknowledge"} \cup FailingStepsAll]
    BY <1>1, <1>2
  <2>2. acked' \subseteq Sets /\ refused' \subseteq Sets
    BY <1>1 DEF TypeOK
  <2> QED  BY <1>1, <2>1, <2>2 DEF TypeOK
<1>4. \A r \in Sets : DriveAgrees(r)' /\ KeepsPromises(r)'
  <2>1. \A r \in Sets \ {s} : DriveAgrees(r)' /\ KeepsPromises(r)'
    BY Untouched
  <2>2. place[s] # "unused"
    BY <1>1 DEF DriveAgrees, CommitOf
  <2>3. DriveAgrees(s)'
    BY <1>1, <2>2 DEF DriveAgrees
  <2>4. s \notin removed => Safe(s)
    BY <1>1 DEF CommitOf, KeepsPromises, Safe
  <2>5. Safe(s)' <=> Safe(s)
    BY DEF Safe, Essential
  <2>6. Essential(s)' = Essential(s)
    BY DEF Essential
  <2>7. s \notin removed' => Safe(s)'
    BY <2>4, <2>5
  <2>8. KeepsPromises(s)'
    BY <1>1, <2>6, <2>7 DEF KeepsPromises
  <2> QED  BY <2>1, <2>3, <2>8
<1>5. CommitAgrees'
  <2>1. CASE commit' = Idle
    BY <1>2, <2>1 DEF CommitAgrees, CommitOf, FailingSteps
  <2>2. CASE ~(commit' = Idle)
    <3>1. commit'.set = s /\ commit'.step = "acknowledge" /\ refused' = refused
      BY <2>2
    <3>2. CommitOf(s)'
      BY <1>1, <3>1 DEF CommitOf, FailingSteps
    <3> QED  BY <3>1, <3>2 DEF CommitAgrees
  <2> QED  BY <2>1, <2>2
<1>6. CleanersAgree'
  BY DEF StoreInv, CleanersAgree
<1> QED  BY <1>3, <1>4, <1>5, <1>6 DEF StoreInv

LEMMA AcknowledgeStep ==
  ASSUME StoreInv, NEW c \in Cameras, Acknowledge(c)
  PROVE  StoreInv'
<1> PICK s : s = commit.set
  OBVIOUS
<1>1. commit \in [set : Sets \cup {NoSet}, todo : SUBSET Files,
                  step : {"idle", "acknowledge"} \cup FailingStepsAll]
  BY DEF StoreInv, TypeOK
<1>2. commit.step = "acknowledge" /\ acked' = acked \cup {s}
      /\ commit' = [commit EXCEPT !.todo = @ \ {c}]
      /\ UNCHANGED <<images, place, seen, onDisk, data, old, cleaner, deleter, refused,
                     removed, failures>>
  BY DEF Acknowledge, drive
<1>3. commit' \in [set : {s}, todo : SUBSET Files, step : {"acknowledge"}]
  BY <1>1, <1>2
<1> QED  BY <1>2, <1>3, ToldStep

LEMMA ToldOffStep ==
  ASSUME StoreInv, AcknowledgeFails \/ Finish
  PROVE  StoreInv'
<1> PICK s : s = commit.set
  OBVIOUS
<1>1. commit.step = "acknowledge" /\ commit' = Idle /\ refused' \in {refused, refused \cup {s}}
      /\ UNCHANGED <<images, place, seen, onDisk, data, old, cleaner, deleter, acked,
                     removed, failures>>
  BY DEF AcknowledgeFails, Finish, drive
<1> QED  BY <1>1, ToldStep

(* Steps of clean-ups and deletions leave the running commit alone.        *)
LEMMA CommitUntouched ==
  ASSUME StoreInv, NEW s, s = commit.set, UNCHANGED <<images, commit, refused>>,
         s \in Sets \ removed' =>
           /\ s \notin removed
           /\ place'[s] = place[s] /\ onDisk'[s] \in {onDisk[s], {place[s]}}
           /\ \A f \in Files : seen'[s][f] = seen[s][f] /\ data'[s][f] = data[s][f],
         removed \subseteq removed',
         commit.step \in FailingSteps => cleaner'.set # s /\ s \notin old' \cup removed'
  PROVE  CommitAgrees'
<1>1. TypeOK /\ CommitOf(s) /\ commit' = commit
  BY DEF StoreInv, CommitAgrees
<1>2. CASE commit.step = "idle"
  <2>1. CommitOf(s)'
    BY <1>1, <1>2 DEF CommitOf, FailingSteps
  <2> QED  BY <1>1, <2>1 DEF CommitAgrees
<1>3. CASE commit.step \in FailingSteps
  <2>1. s \in Sets \ removed' /\ s \notin refused'
    BY <1>3, BeforeRename
  <2>2. Essential(s)' = Essential(s) /\ Essential(s) \subseteq Files
    BY <1>1, <2>1, ManifestIsAFile DEF Essential, TypeOK
  <2>3. \A f \in Essential(s) : seen'[s][f] = seen[s][f] /\ data'[s][f] = data[s][f]
    BY <2>1, <2>2
  <2>4. place'[s] = place[s]
    BY <2>1
  <2>5. CommitOf(s)'
    <3>1. \A f \in Essential(s)' :
            /\ data'[s][f] = data[s][f] /\ data[s][f] \subseteq {"none", "whole"}
            /\ f \notin commit.todo => seen'[s][f] = "whole"
      <4>1. \A f \in Essential(s) :
              data[s][f] \subseteq {"none", "whole"} /\ (f \notin commit.todo => seen[s][f] = "whole")
        BY <1>1, <1>3 DEF CommitOf
      <4> QED  BY <2>2, <2>3, <4>1
    <3>2. place'[s] = "staging" /\ cleaner'.set # s /\ s \notin old' \cup removed' \cup refused'
      BY <1>1, <1>3, <2>1, <2>4 DEF CommitOf
    <3>3. \A f \in Essential(s)' : commit.step = "rename" => data'[s][f] = {"whole"}
      BY <1>1, <2>2, <2>3 DEF CommitOf
    <3> QED  BY <1>1, <1>3, <3>1, <3>2, <3>3, ZenonT(40) DEF CommitOf, FailingSteps
  <2> QED  BY <1>1, <2>5 DEF CommitAgrees
<1>4. CASE commit.step \in {"sync root", "acknowledge"}
  <2>1. s \in Sets
    BY <1>1, <1>4 DEF CommitOf, TypeOK
  <2>2. CommitOf(s)'
    BY <1>1, <1>4, <2>1 DEF CommitOf, FailingSteps
  <2> QED  BY <1>1, <2>2 DEF CommitAgrees
<1> QED  BY <1>1, <1>2, <1>3, <1>4 DEF TypeOK, FailingSteps, FailingStepsAll

LEMMA CommitFailsStep ==
  ASSUME StoreInv, NEW s, s = commit.set, CommitFails
  PROVE  StoreInv'
<1>1. TypeOK /\ CommitOf(s) /\ s \in Sets /\ s # NoSet
      /\ place[s] = "staging" /\ "published" \notin onDisk[s] /\ DriveAgrees(s)
      /\ s # cleaner.set /\ s # deleter.set /\ s \notin old \cup removed \cup refused \cup acked
  BY BeforeRename DEF CommitFails
<1>2. /\ commit' = Idle /\ refused' = refused \cup {s}
      /\ old' = IF place'[s] = "staging" THEN old ELSE old \ {s}
      /\ UNCHANGED <<images, cleaner, deleter, acked, removed, failures>>
  BY <1>1 DEF CommitFails
<1>3. CommitAgrees'
  BY <1>2 DEF CommitAgrees, CommitOf, FailingSteps, Idle
<1>4. Essential(s)' = Essential(s)
  BY <1>2 DEF Essential
<1>5. CASE UNCHANGED drive
  <2>1. UNCHANGED <<place, seen, onDisk, data>> /\ old' = old
    BY <1>1, <1>2, <1>5 DEF drive
  <2>2. TypeOK'
    BY <1>1, <1>2, <2>1 DEF TypeOK, Idle
  <2>3. \A r \in Sets \ {s} : DriveAgrees(r)' /\ KeepsPromises(r)'
    BY <1>2, <2>1, Untouched
  <2>4. DriveAgrees(s)' /\ KeepsPromises(s)'
    BY <1>1, <1>2, <2>1 DEF DriveAgrees, KeepsPromises
  <2>5. CleanersAgree'
    BY <1>2, <2>1 DEF StoreInv, CleanersAgree
  <2> QED  BY <1>3, <2>2, <2>3, <2>4, <2>5 DEF StoreInv
<1>6. CASE /\ Unlinked(s, Files)
           /\ place' = [place EXCEPT ![s] = "gone"]
           /\ onDisk' = [onDisk EXCEPT ![s] = @ \cup {"gone"}]
  <2>1. /\ seen' \in [Sets -> [Files -> Contents]]
        /\ data' \in [Sets -> [Files -> (SUBSET Contents) \ {{}}]]
        /\ \A r \in Sets \ {s} : seen'[r] = seen[r] /\ data'[r] = data[r]
        /\ \A f \in Files : seen'[s][f] = "none" /\ data'[s][f] = data[s][f] \cup {"none"}
    BY <1>1, <1>6, UnlinkedFacts
  <2>2. /\ place' \in [Sets -> Places] /\ place'[s] = "gone"
        /\ \A r \in Sets \ {s} : place'[r] = place[r]
        /\ onDisk' \in [Sets -> (SUBSET Places) \ {{}}] /\ onDisk'[s] = onDisk[s] \cup {"gone"}
        /\ \A r \in Sets \ {s} : onDisk'[r] = onDisk[r]
    <3>1. place \in [Sets -> Places] /\ onDisk \in [Sets -> (SUBSET Places) \ {{}}]
      BY <1>1 DEF TypeOK
    <3>2. "gone" \in Places /\ onDisk[s] \cup {"gone"} \in (SUBSET Places) \ {{}}
      BY <1>1, <3>1 DEF Places
    <3> QED  BY <1>1, <1>6, <3>1, <3>2
  <2>3. TypeOK'
    BY <1>1, <1>2, <2>1, <2>2 DEF TypeOK, Idle
  <2>4. \A r \in Sets \ {s} : DriveAgrees(r)' /\ KeepsPromises(r)'
    BY <1>2, <2>1, <2>2, Untouched
  <2>5. DriveAgrees(s)'
    BY <1>1, <2>1, <2>2 DEF DriveAgrees
  <2>6. KeepsPromises(s)'
    BY <1>1, <1>2, <2>2 DEF KeepsPromises
  <2>7. CleanersAgree'
    <3>1. old \subseteq Sets /\ cleaner.set \in Sets \cup {NoSet} /\ deleter.set \in Sets \cup {NoSet}
      BY <1>1 DEF TypeOK
    <3> QED  BY <1>1, <1>2, <2>2, <3>1 DEF StoreInv, CleanersAgree
  <2> QED  BY <1>3, <2>3, <2>4, <2>5, <2>6, <2>7 DEF StoreInv
<1> QED  BY <1>1, <1>5, <1>6 DEF CommitFails

(* The steps that leave the drive and the commit alone.                    *)
LEMMA GrowOldStep ==
  ASSUME StoreInv, NEW s \in Sets, GrowOld(s)
  PROVE  StoreInv'
<1>1. old' = old \cup {s} /\ place[s] = "staging" /\ commit.set # s
      /\ UNCHANGED <<images, place, seen, onDisk, data, commit, cleaner, deleter, acked,
                     refused, removed, failures>>
  BY DEF GrowOld, drive
<1>2. TypeOK'
  BY <1>1 DEF StoreInv, TypeOK
<1>3. \A r \in Sets : DriveAgrees(r)' /\ KeepsPromises(r)'
  BY <1>1, Untouched
<1>4. CommitAgrees'
  <2> PICK c : c = commit.set
    OBVIOUS
  <2>1. commit.step \in FailingSteps => cleaner'.set # c /\ c \notin old' \cup removed'
    BY <1>1, BeforeRename
  <2> QED  BY <1>1, <2>1, CommitUntouched
<1>5. CleanersAgree'
  BY <1>1 DEF StoreInv, CleanersAgree
<1> QED  BY <1>2, <1>3, <1>4, <1>5 DEF StoreInv

LEMMA CleanStartStep ==
  ASSUME StoreInv, NEW s \in Sets, CleanStart(s)
  PROVE  StoreInv'
<1>1. cleaner' = [set |-> s, todo |-> Present(s)] /\ s \in old /\ place[s] = "staging"
      /\ UNCHANGED <<images, place, seen, onDisk, data, commit, old, deleter, acked, refused,
                     removed, failures>>
  BY DEF CleanStart, Expired, drive
<1>2. TypeOK'
  BY <1>1 DEF StoreInv, TypeOK, Present
<1>3. \A r \in Sets : DriveAgrees(r)' /\ KeepsPromises(r)'
  BY <1>1, Untouched
<1>4. CommitAgrees'
  <2> PICK c : c = commit.set
    OBVIOUS
  <2>1. commit.step \in FailingSteps => cleaner'.set # c /\ c \notin old' \cup removed'
    BY <1>1, BeforeRename
  <2> QED  BY <1>1, <2>1, CommitUntouched
<1>5. CleanersAgree'
  BY <1>1, StoreAssumption DEF StoreInv, CleanersAgree
<1> QED  BY <1>2, <1>3, <1>4, <1>5 DEF StoreInv

(* A running rmtree() stops.                                               *)
LEMMA StoppedStep ==
  ASSUME StoreInv, cleaner' \in {cleaner, Resting}, deleter' \in {deleter, Resting},
         UNCHANGED <<images, place, seen, onDisk, data, commit, old, acked, refused, removed, failures>>
  PROVE  StoreInv'
<1>1. TypeOK'
  BY DEF StoreInv, TypeOK, Resting
<1>2. \A r \in Sets : DriveAgrees(r)' /\ KeepsPromises(r)'
  BY Untouched
<1>3. CommitAgrees'
  <2> PICK c : c = commit.set
    OBVIOUS
  <2>1. Resting.set = NoSet
    BY DEF Resting
  <2>2. commit.step \in FailingSteps => cleaner'.set # c /\ c \notin old' \cup removed'
    BY <2>1, BeforeRename
  <2> QED  BY <2>2, CommitUntouched
<1>4. CleanersAgree'
  <2>1. Resting.set = NoSet /\ Resting.todo = {}
    BY DEF Resting
  <2> QED  BY <2>1 DEF StoreInv, CleanersAgree
<1> QED  BY <1>1, <1>2, <1>3, <1>4 DEF StoreInv

LEMMA CleanFileStep ==
  ASSUME StoreInv, NEW f \in Files, NEW s, s = cleaner.set, CleanFile(f)
  PROVE  StoreInv'
<1>1. TypeOK /\ s \in Sets /\ place[s] = "staging" /\ DriveAgrees(s) /\ KeepsPromises(s)
  BY DEF StoreInv, CleanersAgree, CleanFile, TypeOK
<1>2. Unlinked(s, {f}) /\ cleaner' = [cleaner EXCEPT !.todo = @ \ {f}]
      /\ UNCHANGED <<images, place, onDisk, commit, old, deleter, acked, refused, removed, failures>>
  BY DEF CleanFile
<1>3. /\ seen' \in [Sets -> [Files -> Contents]]
      /\ data' \in [Sets -> [Files -> (SUBSET Contents) \ {{}}]]
      /\ \A r \in Sets \ {s} : seen'[r] = seen[r] /\ data'[r] = data[r]
      /\ \A g \in Files : \/ seen'[s][g] = seen[s][g] /\ data'[s][g] = data[s][g]
                          \/ seen'[s][g] = "none" /\ data'[s][g] = data[s][g] \cup {"none"}
  BY <1>1, <1>2, UnlinkedFacts
<1>4. cleaner' \in [set : Sets \cup {NoSet}, todo : SUBSET Files] /\ cleaner'.set = s
  BY <1>1, <1>2 DEF TypeOK
<1>5. TypeOK'
  BY <1>1, <1>2, <1>3, <1>4 DEF TypeOK
<1>6. \A r \in Sets : DriveAgrees(r)' /\ KeepsPromises(r)'
  <2>1. \A r \in Sets \ {s} : DriveAgrees(r)' /\ KeepsPromises(r)'
    BY <1>2, <1>3, Untouched
  <2>2. \A g \in Files : seen'[s][g] \in data'[s][g]
    BY <1>1, <1>3 DEF DriveAgrees
  <2>3. DriveAgrees(s)'
    BY <1>1, <1>2, <2>2 DEF DriveAgrees
  <2>4. "published" \notin onDisk[s]
    BY <1>1 DEF DriveAgrees
  <2>5. KeepsPromises(s)'
    BY <1>1, <1>2, <2>4 DEF KeepsPromises, Safe
  <2> QED  BY <2>1, <2>3, <2>5
<1>7. CommitAgrees'
  <2> PICK c : c = commit.set
    OBVIOUS
  <2>1. commit.step \in FailingSteps => cleaner'.set # c /\ c \notin old' \cup removed'
    BY <1>2, <1>4, BeforeRename
  <2>2. CASE c = s
    <3>1. c \notin Sets \ removed
      <4>1. commit.step \notin FailingSteps
        BY <2>2, BeforeRename
      <4>2. c \in Sets /\ commit.step # "idle" /\ commit.step \in {"idle", "acknowledge", "sync root"}
        BY <1>1, <2>2, <4>1, StoreAssumption
           DEF StoreInv, CommitAgrees, CommitOf, TypeOK, FailingSteps, FailingStepsAll
      <4> QED  BY <1>1, <2>2, <4>2 DEF StoreInv, CommitAgrees, CommitOf
    <3> QED  BY <1>2, <2>1, <3>1, CommitUntouched
  <2>3. CASE c # s
    <3>1. c \in Sets => \A g \in Files : seen'[c][g] = seen[c][g] /\ data'[c][g] = data[c][g]
      BY <1>3, <2>3
    <3> QED  BY <1>2, <2>1, <3>1, CommitUntouched
  <2> QED  BY <2>2, <2>3
<1>8. CleanersAgree'
  BY <1>1, <1>2, <1>4, StoreAssumption DEF StoreInv, CleanersAgree
<1> QED  BY <1>5, <1>6, <1>7, <1>8 DEF StoreInv

LEMMA CleanEndStep ==
  ASSUME StoreInv, NEW s, s = cleaner.set, CleanEnd
  PROVE  StoreInv'
<1>1. TypeOK /\ s \in Sets /\ s # NoSet /\ place[s] = "staging" /\ DriveAgrees(s) /\ KeepsPromises(s)
      /\ "published" \notin onDisk[s]
  BY DEF StoreInv, DriveAgrees, CleanEnd, TypeOK
<1>2. /\ place' = [place EXCEPT ![s] = "gone"]
      /\ onDisk' = [r \in Sets |-> IF r = s THEN {"gone"} ELSE RootSynced[r]]
      /\ cleaner' = Resting /\ old' = old \ {s}
      /\ UNCHANGED <<images, seen, data, commit, deleter, acked, refused, removed, failures>>
  BY <1>1 DEF CleanEnd
<1>3. /\ place' \in [Sets -> Places] /\ place'[s] = "gone"
      /\ \A r \in Sets \ {s} : place'[r] = place[r]
      /\ onDisk' \in [Sets -> (SUBSET Places) \ {{}}] /\ onDisk'[s] = {"gone"}
      /\ \A r \in Sets \ {s} : onDisk'[r] = RootSynced[r]
  <2>1. \A r \in Sets : RootSynced[r] \in (SUBSET Places) \ {{}}
    BY RootSyncedFacts
  <2>2. place \in [Sets -> Places] /\ "gone" \in Places
    BY <1>1 DEF TypeOK, Places
  <2> QED  BY <1>1, <1>2, <2>1, <2>2
<1>4. cleaner'.set = NoSet /\ cleaner'.todo = {}
      /\ cleaner' \in [set : Sets \cup {NoSet}, todo : SUBSET Files]
  BY <1>2 DEF Resting
<1>5. TypeOK'
  BY <1>1, <1>2, <1>3, <1>4 DEF TypeOK
<1>6. \A r \in Sets : DriveAgrees(r)' /\ KeepsPromises(r)'
  <2>1. \A r \in Sets \ {s} : DriveAgrees(r)' /\ KeepsPromises(r)'
    <3> SUFFICES ASSUME NEW r \in Sets \ {s}  PROVE DriveAgrees(r)' /\ KeepsPromises(r)'
      OBVIOUS
    <3>1. place'[r] = place[r] /\ onDisk'[r] = RootSynced[r]
      BY <1>3
    <3>2. DriveAgrees(r) /\ KeepsPromises(r)
      BY DEF StoreInv
    <3>3. DriveAgrees(r)'
      BY <1>2, <3>1, <3>2, RootSyncedFacts DEF DriveAgrees
    <3>4. Essential(r)' = Essential(r)
      BY <1>2 DEF Essential
    <3>5. RootSynced[r] \subseteq onDisk[r] /\ RootSynced[r] # {}
      BY RootSyncedFacts
    <3>6. KeepsPromises(r)'
      BY <1>2, <3>1, <3>2, <3>4, <3>5 DEF KeepsPromises, Safe
    <3> QED  BY <3>3, <3>6
  <2>2. DriveAgrees(s)'
    BY <1>1, <1>2, <1>3 DEF DriveAgrees
  <2>3. KeepsPromises(s)'
    BY <1>1, <1>2, <1>3 DEF KeepsPromises, Safe
  <2> QED  BY <2>1, <2>2, <2>3
<1>7. CommitAgrees'
  <2> PICK c : c = commit.set
    OBVIOUS
  <2>1. commit.step \in FailingSteps => cleaner'.set # c /\ c \notin old' \cup removed'
    BY <1>2, <1>4, BeforeRename
  <2>2. c \in Sets \ removed => c # s
    BY <1>1, BeforeRename, StoreAssumption
       DEF StoreInv, CommitAgrees, CommitOf, TypeOK, FailingSteps, FailingStepsAll
  <2>3. c \in Sets \ removed => place'[c] = place[c] /\ onDisk'[c] \in {onDisk[c], {place[c]}}
    <3>1. c \in Sets \ removed => place[c] # "unused" \/ onDisk[c] = {"gone"}
      BY <1>1 DEF StoreInv, DriveAgrees
    <3> QED  BY <1>3, <2>2, <3>1, RootSyncedFacts
  <2> QED  BY <1>2, <2>1, <2>3, CommitUntouched
<1>8. CleanersAgree'
  <2>1. old \subseteq Sets /\ deleter.set \in Sets \cup {NoSet}
    BY <1>1 DEF TypeOK
  <2> QED  BY <1>1, <1>2, <1>3, <1>4, <2>1 DEF StoreInv, CleanersAgree
<1> QED  BY <1>5, <1>6, <1>7, <1>8 DEF StoreInv

LEMMA DeleteStartStep ==
  ASSUME StoreInv, NEW s \in Sets, DeleteStart(s)
  PROVE  StoreInv'
<1>1. deleter' = [set |-> s, todo |-> Present(s)] /\ removed' = removed \cup {s} /\ place[s] = "published"
      /\ UNCHANGED <<images, place, seen, onDisk, data, commit, old, cleaner, acked, refused, failures>>
  BY DEF DeleteStart, Listed, drive
<1>2. TypeOK'
  BY <1>1 DEF StoreInv, TypeOK, Present
<1>3. \A r \in Sets : DriveAgrees(r)' /\ KeepsPromises(r)'
  <2>1. \A r \in Sets \ {s} : DriveAgrees(r)' /\ KeepsPromises(r)'
    BY <1>1, Untouched
  <2>2. DriveAgrees(s)' /\ KeepsPromises(s)'
    BY <1>1 DEF StoreInv, DriveAgrees, KeepsPromises
  <2> QED  BY <2>1, <2>2
<1>4. CommitAgrees'
  <2> PICK c : c = commit.set
    OBVIOUS
  <2>1. commit.step \in FailingSteps => cleaner'.set # c /\ c \notin old' \cup removed'
    BY <1>1, BeforeRename
  <2> QED  BY <1>1, <2>1, CommitUntouched
<1>5. CleanersAgree'
  BY <1>1, StoreAssumption DEF StoreInv, CleanersAgree
<1> QED  BY <1>2, <1>3, <1>4, <1>5 DEF StoreInv

LEMMA DeleteFileStep ==
  ASSUME StoreInv, NEW f \in Files, NEW s, s = deleter.set, DeleteFile(f)
  PROVE  StoreInv'
<1>1. TypeOK /\ s \in Sets /\ place[s] = "published" /\ s \in removed /\ DriveAgrees(s) /\ KeepsPromises(s)
  BY DEF StoreInv, CleanersAgree, DeleteFile, TypeOK
<1>2. Unlinked(s, {f}) /\ deleter' = [deleter EXCEPT !.todo = @ \ {f}]
      /\ UNCHANGED <<images, place, onDisk, commit, old, cleaner, acked, refused, removed, failures>>
  BY DEF DeleteFile
<1>3. /\ seen' \in [Sets -> [Files -> Contents]]
      /\ data' \in [Sets -> [Files -> (SUBSET Contents) \ {{}}]]
      /\ \A r \in Sets \ {s} : seen'[r] = seen[r] /\ data'[r] = data[r]
      /\ \A g \in Files : \/ seen'[s][g] = seen[s][g] /\ data'[s][g] = data[s][g]
                          \/ seen'[s][g] = "none" /\ data'[s][g] = data[s][g] \cup {"none"}
  BY <1>1, <1>2, UnlinkedFacts
<1>4. deleter' \in [set : Sets \cup {NoSet}, todo : SUBSET Files] /\ deleter'.set = s
  BY <1>1, <1>2 DEF TypeOK
<1>5. TypeOK'
  BY <1>1, <1>2, <1>3, <1>4 DEF TypeOK
<1>6. \A r \in Sets : DriveAgrees(r)' /\ KeepsPromises(r)'
  <2>1. \A r \in Sets \ {s} : DriveAgrees(r)' /\ KeepsPromises(r)'
    BY <1>2, <1>3, Untouched
  <2>2. \A g \in Files : seen'[s][g] \in data'[s][g]
    BY <1>1, <1>3 DEF DriveAgrees
  <2>3. DriveAgrees(s)'
    BY <1>1, <1>2, <2>2 DEF DriveAgrees
  <2>4. KeepsPromises(s)'
    BY <1>1, <1>2 DEF KeepsPromises
  <2> QED  BY <2>1, <2>3, <2>4
<1>7. CommitAgrees'
  <2> PICK c : c = commit.set
    OBVIOUS
  <2>1. commit.step \in FailingSteps => cleaner'.set # c /\ c \notin old' \cup removed'
    BY <1>2, <1>4, BeforeRename
  <2>2. c \in Sets \ removed => \A g \in Files : seen'[c][g] = seen[c][g] /\ data'[c][g] = data[c][g]
    BY <1>1, <1>3
  <2> QED  BY <1>2, <2>1, <2>2, CommitUntouched
<1>8. CleanersAgree'
  BY <1>1, <1>2, <1>4, StoreAssumption DEF StoreInv, CleanersAgree
<1> QED  BY <1>5, <1>6, <1>7, <1>8 DEF StoreInv

LEMMA DeleteEndStep ==
  ASSUME StoreInv, NEW s, s = deleter.set, DeleteEnd
  PROVE  StoreInv'
<1>1. TypeOK /\ s \in Sets /\ place[s] = "published" /\ s \in removed /\ DriveAgrees(s) /\ KeepsPromises(s)
  BY DEF StoreInv, CleanersAgree, DeleteEnd, TypeOK
<1>2. /\ place' = [place EXCEPT ![s] = "gone"] /\ onDisk' = [onDisk EXCEPT ![s] = @ \cup {"gone"}]
      /\ deleter' = Resting
      /\ UNCHANGED <<images, seen, data, commit, old, cleaner, acked, refused, removed, failures>>
  BY <1>1 DEF DeleteEnd
<1>3. /\ place' \in [Sets -> Places] /\ place'[s] = "gone"
      /\ \A r \in Sets \ {s} : place'[r] = place[r]
      /\ onDisk' \in [Sets -> (SUBSET Places) \ {{}}] /\ onDisk'[s] = onDisk[s] \cup {"gone"}
      /\ \A r \in Sets \ {s} : onDisk'[r] = onDisk[r]
  <2>1. place \in [Sets -> Places] /\ onDisk \in [Sets -> (SUBSET Places) \ {{}}]
    BY <1>1 DEF TypeOK
  <2>2. "gone" \in Places /\ onDisk[s] \cup {"gone"} \in (SUBSET Places) \ {{}}
    BY <1>1, <2>1 DEF Places
  <2> QED  BY <1>1, <1>2, <2>1, <2>2
<1>4. deleter'.set = NoSet /\ deleter'.todo = {}
      /\ deleter' \in [set : Sets \cup {NoSet}, todo : SUBSET Files]
  BY <1>2 DEF Resting
<1>5. TypeOK'
  BY <1>1, <1>2, <1>3, <1>4 DEF TypeOK
<1>6. \A r \in Sets : DriveAgrees(r)' /\ KeepsPromises(r)'
  <2>1. \A r \in Sets \ {s} : DriveAgrees(r)' /\ KeepsPromises(r)'
    BY <1>2, <1>3, Untouched
  <2>2. DriveAgrees(s)' /\ KeepsPromises(s)'
    BY <1>1, <1>2, <1>3 DEF DriveAgrees, KeepsPromises
  <2> QED  BY <2>1, <2>2
<1>7. CommitAgrees'
  <2> PICK c : c = commit.set
    OBVIOUS
  <2>1. commit.step \in FailingSteps => cleaner'.set # c /\ c \notin old' \cup removed'
    BY <1>2, BeforeRename
  <2>2. c \in Sets \ removed => place'[c] = place[c] /\ onDisk'[c] = onDisk[c]
    BY <1>1, <1>3
  <2> QED  BY <1>2, <2>1, <2>2, CommitUntouched
<1>8. CleanersAgree'
  <2>1. old \subseteq Sets /\ cleaner.set \in Sets \cup {NoSet}
    BY <1>1 DEF TypeOK
  <2> QED  BY <1>1, <1>2, <1>3, <1>4, <2>1 DEF StoreInv, CleanersAgree
<1> QED  BY <1>5, <1>6, <1>7, <1>8 DEF StoreInv

(* After a power failure every set is in one of its possible places with   *)
(* some of its possible contents, and nothing else is possible any more.   *)
LEMMA FoundFacts ==
  ASSUME StoreInv, NEW p \in [Sets -> Places],
         NEW lost \in SUBSET Loose("none", p), NEW torn \in SUBSET (Loose("torn", p) \ lost)
  PROVE  /\ Found(p, lost, torn) \in [Sets -> [Files -> Contents]]
         /\ \A s \in Sets, f \in Files : p[s] \in {"staging", "published"} =>
              Found(p, lost, torn)[s][f] \in data[s][f]
         /\ \A s \in Sets, f \in Files : p[s] \in {"unused", "gone"} => Found(p, lost, torn)[s][f] = "none"
<1>1. data \in [Sets -> [Files -> (SUBSET Contents) \ {{}}]]
  BY DEF StoreInv, TypeOK
<1> SUFFICES ASSUME NEW s \in Sets, NEW f \in Files
             PROVE  /\ Found(p, lost, torn)[s][f] \in Contents
                    /\ p[s] \in {"staging", "published"} => Found(p, lost, torn)[s][f] \in data[s][f]
                    /\ p[s] \in {"unused", "gone"} => Found(p, lost, torn)[s][f] = "none"
  BY DEF Found
<1>2. p[s] \in {"unused", "staging", "published", "gone"}
  BY DEF Places
<1>3. Best(data[s][f]) \in data[s][f] /\ data[s][f] \subseteq Contents
  BY <1>1 DEF Best, Contents
<1>4. /\ <<s, f>> \in lost => "none" \in data[s][f]
      /\ <<s, f>> \in torn => "torn" \in data[s][f]
  BY DEF Loose
<1>5. Found(p, lost, torn)[s][f] =
        IF p[s] \in {"unused", "gone"} \/ <<s, f>> \in lost THEN "none"
        ELSE IF <<s, f>> \in torn THEN "torn" ELSE Best(data[s][f])
  <2>1. Found(p, lost, torn)[s][f] =
          CASE p[s] \in {"unused", "gone"} \/ <<s, f>> \in lost -> "none"
            [] p[s] \notin {"unused", "gone"} /\ <<s, f>> \in torn -> "torn"
            [] OTHER -> Best(data[s][f])
    BY DEF Found
  <2>2. CASE p[s] \in {"unused", "gone"} \/ <<s, f>> \in lost
    <3>1. <<s, f>> \notin torn \/ p[s] \in {"unused", "gone"}
      BY <2>2
    <3> QED  BY <2>1, <2>2, <3>1
  <2>3. CASE ~(p[s] \in {"unused", "gone"} \/ <<s, f>> \in lost) /\ <<s, f>> \in torn
    BY <2>1, <2>3
  <2>4. CASE ~(p[s] \in {"unused", "gone"} \/ <<s, f>> \in lost) /\ <<s, f>> \notin torn
    BY <2>1, <2>4
  <2> QED  BY <2>2, <2>3, <2>4
<1> QED  BY <1>2, <1>3, <1>4, <1>5 DEF Contents

LEMMA PowerFound ==
  ASSUME StoreInv, PowerFails
  PROVE  /\ place' \in [Sets -> Places] /\ \A s \in Sets : place'[s] \in PlacesFound(s)
         /\ seen' \in [Sets -> [Files -> Contents]]
         /\ \A s \in Sets, f \in Files : place'[s] \in {"staging", "published"} => seen'[s][f] \in data[s][f]
         /\ \A s \in Sets, f \in Files : place'[s] \in {"unused", "gone"} => seen'[s][f] = "none"
<1>1. PICK p \in {q \in [Sets -> Places] : \A s \in Sets : q[s] \in PlacesFound(s)} :
        \E lost \in SUBSET Loose("none", p) : \E torn \in SUBSET (Loose("torn", p) \ lost) :
          place' = p /\ seen' = Found(p, lost, torn)
  BY DEF PowerFails
<1>2. PICK lost \in SUBSET Loose("none", p) :
        \E torn \in SUBSET (Loose("torn", p) \ lost) : place' = p /\ seen' = Found(p, lost, torn)
  BY <1>1
<1>3. PICK torn \in SUBSET (Loose("torn", p) \ lost) : place' = p /\ seen' = Found(p, lost, torn)
  BY <1>2
<1>4. p \in [Sets -> Places] /\ \A s \in Sets : p[s] \in PlacesFound(s)
  OBVIOUS
<1>5. /\ Found(p, lost, torn) \in [Sets -> [Files -> Contents]]
      /\ \A s \in Sets, f \in Files : p[s] \in {"staging", "published"} =>
           Found(p, lost, torn)[s][f] \in data[s][f]
      /\ \A s \in Sets, f \in Files : p[s] \in {"unused", "gone"} => Found(p, lost, torn)[s][f] = "none"
  BY <1>4, FoundFacts
<1> QED  BY <1>3, <1>4, <1>5

LEMMA PowerFailsStep ==
  ASSUME StoreInv, PowerFails
  PROVE  StoreInv'
<1>1. TypeOK
  BY DEF StoreInv
<1>2. /\ place' \in [Sets -> Places] /\ \A s \in Sets : place'[s] \in PlacesFound(s)
      /\ seen' \in [Sets -> [Files -> Contents]]
      /\ \A s \in Sets, f \in Files : place'[s] \in {"staging", "published"} => seen'[s][f] \in data[s][f]
      /\ \A s \in Sets, f \in Files : place'[s] \in {"unused", "gone"} => seen'[s][f] = "none"
  BY PowerFound
<1>3. /\ onDisk' = [s \in Sets |-> IF place[s] = "unused" THEN onDisk[s] ELSE {place'[s]}]
      /\ data' = [s \in Sets |-> Stable(seen'[s])]
      /\ old' = {s \in old : place'[s] = "staging"}
      /\ commit' = Idle
      /\ cleaner' = Resting /\ deleter' = Resting
      /\ failures' \in 0..MaxFailures
      /\ UNCHANGED <<images, acked, refused, removed>>
  BY <1>1, StoreAssumption DEF PowerFails, TypeOK
<1>4. /\ data' \in [Sets -> [Files -> (SUBSET Contents) \ {{}}]]
      /\ \A s \in Sets, f \in Files : data'[s][f] = {seen'[s][f]}
  <2>1. \A s \in Sets : Stable(seen'[s]) \in [Files -> (SUBSET Contents) \ {{}}]
    <3> SUFFICES ASSUME NEW s \in Sets, NEW f \in Files  PROVE {seen'[s][f]} \in (SUBSET Contents) \ {{}}
      BY DEF Stable
    <3>1. seen'[s][f] \in Contents
      BY <1>2
    <3> QED  BY <3>1
  <2>2. \A s \in Sets, f \in Files : Stable(seen'[s])[f] = {seen'[s][f]}
    BY DEF Stable
  <2> QED  BY <1>3, <2>1, <2>2
<1>5. onDisk' \in [Sets -> (SUBSET Places) \ {{}}]
  BY <1>1, <1>2, <1>3 DEF TypeOK
<1>6. TypeOK'
  BY <1>1, <1>2, <1>3, <1>4, <1>5 DEF TypeOK, Resting, Idle
<1>7. \A s \in Sets : DriveAgrees(s)' /\ KeepsPromises(s)'
  <2> SUFFICES ASSUME NEW s \in Sets  PROVE DriveAgrees(s)' /\ KeepsPromises(s)'
    OBVIOUS
  <2>1. DriveAgrees(s) /\ KeepsPromises(s)
    BY DEF StoreInv
  <2>2. onDisk'[s] = IF place[s] = "unused" THEN onDisk[s] ELSE {place'[s]}
    BY <1>3
  <2>3. CASE place[s] = "unused"
    <3>1. place'[s] = "unused" /\ onDisk'[s] = {"gone"}
      BY <1>2, <2>1, <2>2, <2>3 DEF PlacesFound, DriveAgrees
    <3>2. \A f \in Files : seen'[s][f] = "none" /\ data'[s][f] = {"none"}
      BY <1>2, <1>4, <3>1
    <3>3. DriveAgrees(s)'
      BY <1>3, <2>1, <2>3, <3>1, <3>2 DEF DriveAgrees
    <3>4. KeepsPromises(s)'
      BY <1>3, <2>1, <2>3, <3>1 DEF DriveAgrees, KeepsPromises
    <3> QED  BY <3>3, <3>4
  <2>4. CASE place[s] # "unused"
    <3>1. place'[s] \in onDisk[s] /\ onDisk'[s] = {place'[s]} /\ place'[s] # "unused"
      BY <1>2, <2>1, <2>2, <2>4 DEF PlacesFound, DriveAgrees
    <3>2. DriveAgrees(s)'
      BY <1>3, <1>4, <3>1, ZenonT(40) DEF DriveAgrees
    <3>3. Essential(s)' = Essential(s) /\ Essential(s) \subseteq Files
      BY <1>1, <1>3, ManifestIsAFile DEF Essential, TypeOK
    <3>4. place'[s] = "published" /\ s \notin removed => \A f \in Essential(s) : data'[s][f] = {"whole"}
      <4> SUFFICES ASSUME place'[s] = "published", s \notin removed, NEW f \in Essential(s)
                   PROVE  data'[s][f] = {"whole"}
        OBVIOUS
      <4>1. data[s][f] = {"whole"}
        BY <2>1, <3>1 DEF KeepsPromises
      <4>2. seen'[s][f] \in data[s][f] /\ data'[s][f] = {seen'[s][f]}
        BY <1>2, <1>4, <3>3
      <4> QED  BY <4>1, <4>2
    <3>5. s \in acked \ removed => place'[s] = "published"
      BY <2>1, <3>1 DEF KeepsPromises, Safe
    <3>6. s \notin removed => "published" \notin onDisk'[s] \/ Safe(s)'
      BY <3>1, <3>3, <3>4 DEF Safe
    <3>7. KeepsPromises(s)'
      BY <1>3, <3>1, <3>3, <3>4, <3>5, <3>6 DEF KeepsPromises, Safe
    <3> QED  BY <3>2, <3>7
  <2> QED  BY <2>3, <2>4
<1>8. CommitAgrees'
  BY <1>3 DEF CommitAgrees, CommitOf, FailingSteps, Idle
<1>9. CleanersAgree'
  BY <1>3 DEF CleanersAgree, Resting
<1> QED  BY <1>6, <1>7, <1>8, <1>9 DEF StoreInv

LEMMA StoreInit == Init => StoreInv
<1> SUFFICES ASSUME Init  PROVE StoreInv
  OBVIOUS
<1>1. TypeOK
  BY StoreTypeInit
<1>2. \A s \in Sets : DriveAgrees(s) /\ KeepsPromises(s)
  BY DEF Init, DriveAgrees, KeepsPromises, NoFiles, Stable
<1>3. CommitAgrees
  BY DEF Init, CommitAgrees, CommitOf, FailingSteps, Idle
<1>4. CleanersAgree
  BY DEF Init, CleanersAgree, Resting
<1> QED  BY <1>1, <1>2, <1>3, <1>4 DEF StoreInv

LEMMA StoreStep == StoreInv /\ [Next]_vars => StoreInv'
<1> SUFFICES ASSUME StoreInv, [Next]_vars  PROVE StoreInv'
  OBVIOUS
<1> PICK c : c = commit.set
  OBVIOUS
<1> PICK k : k = cleaner.set
  OBVIOUS
<1> PICK d : d = deleter.set
  OBVIOUS
<1>1. CASE Commit
  <2>1. ASSUME NEW s \in Sets, NEW cams \in SUBSET Cameras, MakeStaging(s, cams)  PROVE StoreInv'
    BY <2>1, MakeStagingStep
  <2>2. ASSUME NEW f \in Files, WriteFile(f)  PROVE StoreInv'
    BY <2>2, WriteFileStep
  <2>3. CASE SyncStaging
    BY <2>3, SyncStagingStep
  <2>4. CASE Rename
    BY <2>4, RenameStep
  <2>5. CASE SyncRoot
    BY <2>5, SyncRootStep
  <2>6. ASSUME NEW n \in Cameras, Acknowledge(n)  PROVE StoreInv'
    BY <2>6, AcknowledgeStep
  <2>7. CASE CommitFails
    BY <2>7, CommitFailsStep
  <2>8. CASE AcknowledgeFails \/ Finish
    BY <2>8, ToldOffStep
  <2> QED  BY <1>1, <2>1, <2>2, <2>3, <2>4, <2>5, <2>6, <2>7, <2>8 DEF Commit
<1>2. CASE Cleanup
  <2>1. ASSUME NEW s \in Sets, GrowOld(s)  PROVE StoreInv'
    BY <2>1, GrowOldStep
  <2>2. ASSUME NEW s \in Sets, CleanStart(s)  PROVE StoreInv'
    BY <2>2, CleanStartStep
  <2>3. ASSUME NEW f \in Files, CleanFile(f)  PROVE StoreInv'
    BY <2>3, CleanFileStep
  <2>4. CASE CleanEnd
    BY <2>4, CleanEndStep
  <2>5. CASE CleanFails
    BY <2>5, StoppedStep DEF CleanFails, drive
  <2> QED  BY <1>2, <2>1, <2>2, <2>3, <2>4, <2>5 DEF Cleanup
<1>3. CASE Delete
  <2>1. ASSUME NEW s \in Sets, DeleteStart(s)  PROVE StoreInv'
    BY <2>1, DeleteStartStep
  <2>2. ASSUME NEW f \in Files, DeleteFile(f)  PROVE StoreInv'
    BY <2>2, DeleteFileStep
  <2>3. CASE DeleteEnd
    BY <2>3, DeleteEndStep
  <2>4. CASE DeleteFails
    BY <2>4, StoppedStep DEF DeleteFails, drive
  <2> QED  BY <1>3, <2>1, <2>2, <2>3, <2>4 DEF Delete
<1>4. CASE PowerFails
  BY <1>4, PowerFailsStep
<1>5. CASE UNCHANGED vars
  BY <1>5, StoppedStep DEF vars, drive, StoreInv, CommitAgrees, CommitOf
<1> QED  BY <1>1, <1>2, <1>3, <1>4, <1>5 DEF Next

(* The inductive invariant.                                                *)
THEOREM StoreInvariance == Spec => []StoreInv
BY StoreInit, StoreStep, PTL DEF Spec

(* Type correctness.                                                       *)
THEOREM StoreTypes == Spec => []TypeOK
<1>1. StoreInv => TypeOK
  BY DEF StoreInv
<1> QED  BY <1>1, StoreInvariance, PTL

(* Whatever power failures, clean-ups and failing commits do: once the     *)
(* nodes were told to drop their photos, the originals and the manifest    *)
(* are on the drive for good, until the user deletes the set.              *)
THEOREM AckedSurvive == Spec => []AckedPhotosSurvive
<1>1. StoreInv => AckedPhotosSurvive
  BY DEF StoreInv, TypeOK, KeepsPromises, AckedPhotosSurvive
<1> QED  BY <1>1, StoreInvariance, PTL

(* A half-written set is never found under a published name.               *)
THEOREM PublishedWhole == Spec => []PublishedAreWhole
<1>1. StoreInv => PublishedAreWhole
  BY DEF StoreInv, KeepsPromises, PublishedAreWhole
<1> QED  BY <1>1, StoreInvariance, PTL

(* A set that was answered with a NACK was either never published, and no  *)
(* power failure makes it so, or it is all there for good.                 *)
THEOREM RefusedSettled == Spec => []RefusedAreSettled
<1>1. StoreInv => RefusedAreSettled
  BY DEF StoreInv, TypeOK, KeepsPromises, RefusedAreSettled
<1> QED  BY <1>1, StoreInvariance, PTL

-----------------------------------------------------------------------------
(* The refinement of AtomicStore: how a step changes what it shows of each *)
(* set.                                                                    *)
Pending(s)  == place[s] = "unused" \/ (commit.set = s /\ commit.step \in FailingSteps)
Possible(s) == "published" \in onDisk[s] /\ \A f \in Essential(s) : "whole" \in data[s][f]
Promised(s) == s \in acked \ removed

Kept(s) ==
  /\ Pending(s)' <=> Pending(s)
  /\ Whole(s)' <=> Whole(s)
  /\ Possible(s)' <=> Possible(s)
  /\ Safe(s)' <=> Safe(s)
  /\ Promised(s)' <=> Promised(s)

StoreViews == <<{s \in Sets : Pending(s)}, {s \in Sets : Whole(s)},
               {s \in Sets : Possible(s)}, {s \in Sets : Safe(s)}, acked \ removed>>

Refines == Store!Next \/ UNCHANGED StoreViews

(* A set whose files and place stay as they are shows as before.           *)
LEMMA SameDrive ==
  ASSUME NEW s \in Sets, StoreInv,
         images'[s] = images[s], place'[s] = place[s], onDisk'[s] = onDisk[s],
         \A f \in Files : seen'[s][f] = seen[s][f] /\ data'[s][f] = data[s][f]
  PROVE  (Whole(s)' <=> Whole(s)) /\ (Possible(s)' <=> Possible(s)) /\ (Safe(s)' <=> Safe(s))
<1>1. Essential(s)' = Essential(s) /\ Essential(s) \subseteq Files
  BY ManifestIsAFile DEF StoreInv, TypeOK, Essential
<1>2. \A f \in Essential(s) : seen'[s][f] = seen[s][f] /\ data'[s][f] = data[s][f]
  BY <1>1
<1> QED  BY <1>1, <1>2 DEF Whole, Possible, Safe

(* A set that is found under no published name shows as nothing.           *)
LEMMA Hidden ==
  ASSUME NEW s \in Sets, StoreInv, "published" \notin onDisk[s]
  PROVE  ~Whole(s) /\ ~Possible(s) /\ ~Safe(s)
BY DEF StoreInv, DriveAgrees, Whole, Possible, Safe

LEMMA HiddenNext ==
  ASSUME NEW s \in Sets, StoreInv', "published" \notin onDisk'[s]
  PROVE  ~Whole(s)' /\ ~Possible(s)' /\ ~Safe(s)'
BY DEF StoreInv, DriveAgrees, Whole, Possible, Safe

LEMMA Ordered ==
  ASSUME NEW s \in Sets, StoreInv
  PROVE  (Safe(s) => Whole(s)) /\ (Whole(s) => Possible(s))
<1>1. DriveAgrees(s) /\ Essential(s) \subseteq Files
  BY ManifestIsAFile DEF StoreInv, TypeOK, Essential
<1>2. \A f \in Essential(s) : seen[s][f] \in data[s][f]
  BY <1>1 DEF DriveAgrees
<1> QED  BY <1>1, <1>2 DEF DriveAgrees, Safe, Whole, Possible

LEMMA OrderedNext ==
  ASSUME NEW s \in Sets, StoreInv'
  PROVE  (Safe(s)' => Whole(s)') /\ (Whole(s)' => Possible(s)')
<1>1. DriveAgrees(s)' /\ Essential(s)' \subseteq Files
  BY ManifestIsAFile DEF StoreInv, TypeOK, Essential
<1>2. \A f \in Essential(s)' : seen'[s][f] \in data'[s][f]
  BY <1>1 DEF DriveAgrees
<1> QED  BY <1>1, <1>2 DEF DriveAgrees, Safe, Whole, Possible

LEMMA AllKept ==
  ASSUME \A s \in Sets : Kept(s), StoreInv, StoreInv'
  PROVE  Refines
<1>1. acked \subseteq Sets /\ acked' \subseteq Sets
  BY DEF StoreInv, TypeOK
<1>2. acked' \ removed' = acked \ removed
  BY <1>1 DEF Kept, Promised
<1> QED  BY <1>2 DEF Kept, Refines, StoreViews

LEMMA MakeStagingRefines ==
  ASSUME StoreInv, StoreInv', NEW s \in Sets, NEW cams \in SUBSET Cameras, MakeStaging(s, cams)
  PROVE  Refines
<1>1. TypeOK /\ s # NoSet /\ DriveAgrees(s) /\ commit.set = NoSet /\ place[s] = "unused"
  BY StoreAssumption DEF StoreInv, MakeStaging, CommitAgrees, CommitOf
<1>2. /\ images' = [images EXCEPT ![s] = cams] /\ place' = [place EXCEPT ![s] = "staging"]
      /\ onDisk' = [onDisk EXCEPT ![s] = @ \cup {"staging"}]
      /\ commit'.set = s /\ commit'.step = "writing"
      /\ UNCHANGED <<seen, data, acked, removed>>
  BY DEF MakeStaging
<1>3. \A r \in Sets \ {s} : Kept(r)
  <2> SUFFICES ASSUME NEW r \in Sets \ {s}  PROVE Kept(r)
    OBVIOUS
  <2>1. images'[r] = images[r] /\ place'[r] = place[r] /\ onDisk'[r] = onDisk[r]
    BY <1>1, <1>2 DEF TypeOK
  <2>2. Pending(r)' <=> Pending(r)
    BY <1>1, <1>2, <2>1, StoreAssumption DEF Pending
  <2> QED  BY <1>2, <2>1, <2>2, SameDrive DEF Kept, Promised
<1>4. Kept(s)
  <2>1. "published" \notin onDisk[s] /\ "published" \notin onDisk'[s]
    BY <1>1, <1>2 DEF DriveAgrees, TypeOK
  <2>2. Pending(s) /\ Pending(s)'
    BY <1>1, <1>2 DEF Pending, FailingSteps
  <2> QED  BY <1>2, <2>1, <2>2, Hidden, HiddenNext DEF Kept, Promised
<1> QED  BY <1>3, <1>4, AllKept

(* A step that works on a set nobody sees shows nothing.                   *)
LEMMA BehindTheScenes ==
  ASSUME StoreInv, StoreInv', NEW s \in Sets, UNCHANGED <<images, acked, removed>>,
         "published" \notin onDisk[s], "published" \notin onDisk'[s],
         \A r \in Sets \ {s} :
           /\ place'[r] = place[r] /\ onDisk'[r] = onDisk[r]
           /\ \A f \in Files : seen'[r][f] = seen[r][f] /\ data'[r][f] = data[r][f],
         \A r \in Sets : Pending(r)' <=> Pending(r)
  PROVE  Refines
<1>1. \A r \in Sets \ {s} : Kept(r)
  BY SameDrive DEF Kept, Promised
<1>2. Kept(s)
  BY Hidden, HiddenNext DEF Kept, Promised
<1> QED  BY <1>1, <1>2, AllKept

LEMMA WriteFileRefines ==
  ASSUME StoreInv, StoreInv', NEW f \in Files, WriteFile(f)
  PROVE  Refines
<1> PICK s : s = commit.set
  OBVIOUS
<1>1. TypeOK /\ CommitAgrees /\ commit.step = "writing" /\ s \in Sets /\ "published" \notin onDisk[s]
  BY BeforeRename DEF StoreInv, WriteFile, FailingSteps
<1>2. \A r \in Sets \ {s}, g \in Files : seen'[r][g] = seen[r][g] /\ data'[r][g] = data[r][g]
  BY <1>1, WrittenFacts
<1>3. UNCHANGED <<images, place, onDisk, acked, removed>>
  BY DEF WriteFile
<1>4. commit'.set = s /\ commit'.step \in FailingSteps
  BY <1>1 DEF WriteFile, TypeOK, FailingSteps
<1>5. \A r \in Sets : Pending(r)' <=> Pending(r)
  BY <1>1, <1>3, <1>4 DEF Pending, FailingSteps
<1> QED  BY <1>1, <1>2, <1>3, <1>5, BehindTheScenes

LEMMA SyncStagingRefines ==
  ASSUME StoreInv, StoreInv', SyncStaging
  PROVE  Refines
<1> PICK s : s = commit.set
  OBVIOUS
<1>1. TypeOK /\ commit.step = "sync staging" /\ s \in Sets /\ "published" \notin onDisk[s]
  BY BeforeRename DEF StoreInv, SyncStaging, FailingSteps
<1>2. \A r \in Sets \ {s} : data'[r] = data[r]
  BY <1>1 DEF SyncStaging, NamesSynced, TypeOK
<1>3. UNCHANGED <<images, place, onDisk, seen, acked, removed>>
  BY DEF SyncStaging
<1>4. commit'.set = s /\ commit'.step = "rename"
  BY <1>1 DEF SyncStaging, TypeOK
<1>5. \A r \in Sets : Pending(r)' <=> Pending(r)
  BY <1>1, <1>3, <1>4 DEF Pending, FailingSteps
<1> QED  BY <1>1, <1>2, <1>3, <1>5, BehindTheScenes

(* The rename shows the set as a whole.                                    *)
LEMMA RenameRefines ==
  ASSUME StoreInv, StoreInv', Rename
  PROVE  Refines
<1> PICK s : s = commit.set
  OBVIOUS
<1>1. TypeOK /\ CommitOf(s) /\ commit.step = "rename" /\ s \in Sets /\ s # NoSet
      /\ place[s] = "staging" /\ "published" \notin onDisk[s] /\ DriveAgrees(s)
  BY BeforeRename DEF Rename, FailingSteps
<1>2. /\ place' = [place EXCEPT ![s] = "published"]
      /\ onDisk' = [onDisk EXCEPT ![s] = @ \cup {"published"}]
      /\ commit' = [commit EXCEPT !.step = "sync root"]
      /\ UNCHANGED <<images, seen, data, acked, removed>>
  BY <1>1 DEF Rename
<1>3. \A r \in Sets \ {s} : Kept(r)
  <2> SUFFICES ASSUME NEW r \in Sets \ {s}  PROVE Kept(r)
    OBVIOUS
  <2>1. place'[r] = place[r] /\ onDisk'[r] = onDisk[r]
    BY <1>1, <1>2 DEF TypeOK
  <2>2. Pending(r)' <=> Pending(r)
    BY <1>1, <1>2, <2>1 DEF Pending, TypeOK
  <2> QED  BY <1>2, <2>1, <2>2, SameDrive DEF Kept, Promised
<1>4. place'[s] = "published" /\ onDisk'[s] = onDisk[s] \cup {"published"} /\ onDisk'[s] # {"published"}
  BY <1>1, <1>2 DEF TypeOK, DriveAgrees
<1>5. Essential(s)' = Essential(s)
  BY <1>2 DEF Essential
<1>6. \A f \in Essential(s) : seen[s][f] = "whole" /\ data[s][f] = {"whole"}
  BY <1>1 DEF CommitOf, FailingSteps
<1>7. Pending(s) /\ ~Pending(s)'
  BY <1>1, <1>2, <1>4 DEF Pending, FailingSteps, TypeOK
<1>8. Whole(s)' /\ Possible(s)' /\ ~Safe(s)' /\ ~Safe(s) /\ (Promised(s)' <=> Promised(s))
  <2>1. Whole(s)'
    BY <1>2, <1>4, <1>5, <1>6 DEF Whole
  <2>2. Possible(s)'
    BY <1>1, <2>1, OrderedNext
  <2>3. ~Safe(s)' /\ ~Safe(s)
    BY <1>1, <1>4, Hidden DEF Safe
  <2> QED  BY <1>2, <2>1, <2>2, <2>3 DEF Promised
<1>9. Store!Publish(s)
  <2>1. /\ \A r \in Sets : Pending(r)' <=> Pending(r) /\ r # s
        /\ \A r \in Sets : Whole(r)' <=> Whole(r) \/ r = s
        /\ \A r \in Sets : Possible(r)' <=> Possible(r) \/ r = s
        /\ \A r \in Sets : Safe(r)' <=> Safe(r)
    BY <1>3, <1>7, <1>8 DEF Kept
  <2> QED  BY <1>1, <1>2, <1>7, <2>1, ZenonT(40) DEF Store!Publish, Pending, Possible
<1> QED  BY <1>1, <1>9 DEF Refines, Store!Next

(* The synced root: what is seen is certain.                               *)
LEMMA Secured ==
  ASSUME StoreInv, StoreInv', UNCHANGED <<images, seen, data, acked, removed>>,
         \A r \in Sets :
           \/ place'[r] = place[r] /\ onDisk'[r] = RootSynced[r]
           \/ "published" \notin onDisk[r] \cup onDisk'[r],
         \A r \in Sets : Pending(r)' <=> Pending(r)
  PROVE  Refines
<1>1. ASSUME NEW r \in Sets
      PROVE  /\ Whole(r)' <=> Whole(r)
             /\ (Safe(r) => Safe(r)') /\ (Safe(r)' => Whole(r))
             /\ (Possible(r)' => Possible(r)) /\ (Whole(r) => Possible(r)')
  <2>1. CASE "published" \notin onDisk[r] \cup onDisk'[r]
    BY <2>1, Hidden, HiddenNext
  <2>2. CASE place'[r] = place[r] /\ onDisk'[r] = RootSynced[r]
    <3>1. Essential(r)' = Essential(r)
      BY DEF Essential
    <3>2. Whole(r)' <=> Whole(r)
      BY <2>2, <3>1 DEF Whole
    <3>3. (Safe(r)' => Whole(r)') /\ (Whole(r)' => Possible(r)')
      BY OrderedNext
    <3>4. onDisk'[r] \subseteq onDisk[r] /\ onDisk'[r] # {}
      BY <2>2, RootSyncedFacts
    <3>5. (Safe(r) => Safe(r)') /\ (Possible(r)' => Possible(r))
      BY <3>1, <3>4 DEF Safe, Possible
    <3> QED  BY <3>2, <3>3, <3>5
  <2> QED  BY <2>1, <2>2
<1>2. Store!Secure
  BY <1>1 DEF Store!Secure, Pending, Possible
<1> QED  BY <1>2 DEF Refines, Store!Next

LEMMA SyncRootRefines ==
  ASSUME StoreInv, StoreInv', SyncRoot
  PROVE  Refines
<1>1. TypeOK /\ commit.step = "sync root"
  BY DEF StoreInv, SyncRoot
<1>2. onDisk' = RootSynced
      /\ commit' = [commit EXCEPT !.step = "acknowledge", !.todo = images[commit.set]]
      /\ UNCHANGED <<images, place, seen, data, acked, removed>>
  BY DEF SyncRoot
<1>3. \A r \in Sets : Pending(r)' <=> Pending(r)
  BY <1>1, <1>2 DEF Pending, FailingSteps, TypeOK
<1> QED  BY <1>2, <1>3, Secured

LEMMA CleanEndRefines ==
  ASSUME StoreInv, StoreInv', CleanEnd
  PROVE  Refines
<1> PICK s : s = cleaner.set
  OBVIOUS
<1>1. TypeOK /\ s \in Sets /\ place[s] = "staging" /\ "published" \notin onDisk[s]
  BY DEF StoreInv, DriveAgrees, CleanEnd, TypeOK
<1>2. /\ place' = [place EXCEPT ![s] = "gone"]
      /\ onDisk' = [r \in Sets |-> IF r = s THEN {"gone"} ELSE RootSynced[r]]
      /\ UNCHANGED <<images, seen, data, commit, acked, removed>>
  BY <1>1 DEF CleanEnd
<1>3. place'[s] = "gone" /\ onDisk'[s] = {"gone"}
      /\ \A r \in Sets \ {s} : place'[r] = place[r] /\ onDisk'[r] = RootSynced[r]
  BY <1>1, <1>2 DEF TypeOK
<1>4. ~(commit.set = s /\ commit.step \in FailingSteps)
  BY BeforeRename
<1>5. \A r \in Sets : Pending(r)' <=> Pending(r)
  BY <1>1, <1>2, <1>3, <1>4 DEF Pending
<1> QED  BY <1>1, <1>2, <1>3, <1>5, Secured

LEMMA AcknowledgeRefines ==
  ASSUME StoreInv, StoreInv', NEW c \in Cameras, Acknowledge(c)
  PROVE  Refines
<1> PICK s : s = commit.set
  OBVIOUS
<1>1. TypeOK /\ CommitOf(s) /\ commit.step = "acknowledge" /\ s \in Sets
  BY StoreAssumption DEF StoreInv, Acknowledge, CommitAgrees, CommitOf, TypeOK
<1>2. acked' = acked \cup {s} /\ commit' = [commit EXCEPT !.todo = @ \ {c}]
      /\ UNCHANGED <<images, place, seen, onDisk, data, removed>>
  BY DEF Acknowledge, drive
<1>3. \A r \in Sets : /\ (Pending(r)' <=> Pending(r)) /\ (Whole(r)' <=> Whole(r))
                     /\ (Possible(r)' <=> Possible(r)) /\ (Safe(r)' <=> Safe(r))
  BY <1>1, <1>2, SameDrive DEF Pending, FailingSteps, TypeOK
<1>4. CASE s \in removed
  <2>1. acked' \ removed' = acked \ removed
    BY <1>2, <1>4
  <2> QED  BY <1>3, <2>1 DEF Refines, StoreViews
<1>5. CASE s \notin removed
  <2>1. Safe(s)
    <3>1. KeepsPromises(s)'
      BY <1>1 DEF StoreInv
    <3>2. Safe(s)'
      BY <1>2, <1>5, <3>1 DEF KeepsPromises
    <3> QED  BY <1>1, <1>3, <3>2
  <2>2. acked' \ removed' = (acked \ removed) \cup {s}
    BY <1>2, <1>5
  <2>3. Store!Promise(s)
    BY <1>1, <1>3, <2>1, <2>2 DEF Store!Promise, Pending, Possible
  <2> QED  BY <1>1, <2>3 DEF Refines, Store!Next
<1> QED  BY <1>4, <1>5

LEMMA ToldOffRefines ==
  ASSUME StoreInv, StoreInv', AcknowledgeFails \/ Finish
  PROVE  Refines
<1>1. commit.step = "acknowledge" /\ commit' = Idle
      /\ UNCHANGED <<images, place, seen, onDisk, data, acked, removed>>
  BY DEF AcknowledgeFails, Finish, drive
<1>2. commit.step \notin FailingSteps /\ commit'.step \notin FailingSteps
  BY <1>1 DEF FailingSteps, Idle
<1>3. \A s \in Sets : (Pending(s)' <=> Pending(s)) /\ (Promised(s)' <=> Promised(s))
  BY <1>1, <1>2 DEF Pending, Promised
<1>4. \A s \in Sets : Kept(s)
  BY <1>1, <1>3, SameDrive DEF Kept
<1> QED  BY <1>4, AllKept

LEMMA CommitFailsRefines ==
  ASSUME StoreInv, StoreInv', CommitFails
  PROVE  Refines
<1> PICK s : s = commit.set
  OBVIOUS
<1>1. TypeOK /\ s \in Sets /\ s # NoSet /\ commit.step \in FailingSteps
      /\ place[s] = "staging" /\ "published" \notin onDisk[s]
  BY BeforeRename DEF CommitFails
<1>2. commit' = Idle
      /\ UNCHANGED <<images, acked, removed>>
  BY DEF CommitFails
<1>3. /\ place'[s] \in {"staging", "gone"} /\ onDisk'[s] \in {onDisk[s], onDisk[s] \cup {"gone"}}
      /\ \A r \in Sets \ {s} : /\ place'[r] = place[r] /\ onDisk'[r] = onDisk[r]
                                /\ seen'[r] = seen[r] /\ data'[r] = data[r]
  <2>1. CASE UNCHANGED drive
    BY <1>1, <2>1 DEF drive
  <2>2. CASE /\ Unlinked(s, Files)
             /\ place' = [place EXCEPT ![s] = "gone"]
             /\ onDisk' = [onDisk EXCEPT ![s] = @ \cup {"gone"}]
    <3>1. \A r \in Sets \ {s} : seen'[r] = seen[r] /\ data'[r] = data[r]
      BY <1>1, <2>2, UnlinkedFacts
    <3>2. place \in [Sets -> Places] /\ onDisk \in [Sets -> (SUBSET Places) \ {{}}]
      BY <1>1 DEF TypeOK
    <3> QED  BY <1>1, <2>2, <3>1, <3>2
  <2> QED  BY <1>1, <2>1, <2>2 DEF CommitFails
<1>4. "published" \notin onDisk'[s]
  BY <1>1, <1>3
<1>5. \A r \in Sets \ {s} : Kept(r)
  <2> SUFFICES ASSUME NEW r \in Sets \ {s}  PROVE Kept(r)
    OBVIOUS
  <2>1. Pending(r)' <=> Pending(r)
    BY <1>1, <1>2, <1>3, StoreAssumption DEF Pending, Idle
  <2> QED  BY <1>2, <1>3, <2>1, SameDrive DEF Kept, Promised
<1>6. Pending(s) /\ ~Pending(s)'
  BY <1>1, <1>2, <1>3, StoreAssumption DEF Pending, Idle
<1>7. Store!Forget(s)
  BY <1>1, <1>2, <1>4, <1>5, <1>6, Hidden, HiddenNext DEF Store!Forget, Kept, Pending, Possible
<1> QED  BY <1>1, <1>7 DEF Refines, Store!Next

LEMMA CleanFileRefines ==
  ASSUME StoreInv, StoreInv', NEW f \in Files, CleanFile(f)
  PROVE  Refines
<1> PICK s : s = cleaner.set
  OBVIOUS
<1>1. TypeOK /\ s \in Sets /\ "published" \notin onDisk[s]
  BY DEF StoreInv, CleanersAgree, CleanFile, TypeOK, DriveAgrees
<1>2. Unlinked(s, {f}) /\ UNCHANGED <<images, place, onDisk, commit, acked, removed>>
  BY DEF CleanFile
<1>3. \A r \in Sets \ {s} : seen'[r] = seen[r] /\ data'[r] = data[r]
  BY <1>1, <1>2, UnlinkedFacts
<1>4. \A r \in Sets : Pending(r)' <=> Pending(r)
  BY <1>2 DEF Pending
<1> QED  BY <1>1, <1>2, <1>3, <1>4, BehindTheScenes

LEMMA DeleteStartRefines ==
  ASSUME StoreInv, StoreInv', NEW s \in Sets, DeleteStart(s)
  PROVE  Refines
<1>1. removed' = removed \cup {s} /\ Listed(s)
      /\ UNCHANGED <<images, place, seen, onDisk, data, commit, acked>>
  BY DEF DeleteStart, drive
<1>2. \A r \in Sets : /\ (Pending(r)' <=> Pending(r)) /\ (Whole(r)' <=> Whole(r))
                     /\ (Possible(r)' <=> Possible(r)) /\ (Safe(r)' <=> Safe(r))
  BY <1>1, SameDrive DEF Pending
<1>3. acked' \ removed' = (acked \ removed) \ {s}
  BY <1>1
<1>4. CASE s \in removed
  BY <1>1, <1>2, <1>4 DEF Refines, StoreViews
<1>5. CASE s \notin removed
  <2>1. place[s] = "published" /\ "published" \in onDisk[s]
    BY <1>1 DEF Listed, StoreInv, DriveAgrees
  <2>2. Essential(s) \subseteq Files /\ \A f \in Files : seen[s][f] \in data[s][f]
    BY ManifestIsAFile DEF StoreInv, TypeOK, Essential, DriveAgrees
  <2>3. \A f \in Essential(s) : data[s][f] = {"whole"}
    BY <1>5, <2>1 DEF StoreInv, KeepsPromises
  <2>4. Whole(s)
    BY <2>1, <2>2, <2>3 DEF Whole
  <2>5. Store!GiveUp(s)
    BY <1>2, <1>3, <2>4 DEF Store!GiveUp, Pending, Possible
  <2> QED  BY <2>5 DEF Refines, Store!Next
<1> QED  BY <1>4, <1>5

LEMMA DeleteFileRefines ==
  ASSUME StoreInv, StoreInv', NEW f \in Files, DeleteFile(f)
  PROVE  Refines
<1> PICK s : s = deleter.set
  OBVIOUS
<1>1. TypeOK /\ s \in Sets /\ s \in removed
  BY DEF StoreInv, CleanersAgree, DeleteFile, TypeOK
<1>2. Unlinked(s, {f}) /\ UNCHANGED <<images, place, onDisk, commit, acked, removed>>
  BY DEF DeleteFile
<1>3. /\ \A r \in Sets \ {s} : seen'[r] = seen[r] /\ data'[r] = data[r]
      /\ \A g \in Files \ {f} : seen'[s][g] = seen[s][g] /\ data'[s][g] = data[s][g]
      /\ seen'[s][f] = "none" /\ data'[s][f] = data[s][f] \cup {"none"}
  BY <1>1, <1>2, UnlinkedFacts
<1>4. \A r \in Sets : (Pending(r)' <=> Pending(r)) /\ (Promised(r)' <=> Promised(r))
  BY <1>2 DEF Pending, Promised
<1>5. \A r \in Sets \ {s} : Kept(r)
  BY <1>2, <1>3, <1>4, SameDrive DEF Kept
<1>6. Essential(s)' = Essential(s) /\ Essential(s) \subseteq Files
  BY <1>1, <1>2, ManifestIsAFile DEF Essential, TypeOK
<1>7. Possible(s)' <=> Possible(s)
  <2>1. \A g \in Essential(s) : "whole" \in data'[s][g] <=> "whole" \in data[s][g]
    BY <1>3, <1>6
  <2> QED  BY <1>2, <1>6, <2>1 DEF Possible
<1>8. CASE f \in Essential(s)
  <2>1. ~Whole(s)' /\ ~Safe(s)'
    BY <1>3, <1>6, <1>8 DEF Whole, Safe
  <2>2. CASE Whole(s)
    <3>1. Store!Remove(s)
      BY <1>1, <1>2, <1>4, <1>5, <1>7, <2>1, <2>2
         DEF Store!Remove, Kept, Pending, Possible, Promised
    <3> QED  BY <1>1, <3>1 DEF Refines, Store!Next
  <2>3. CASE ~Whole(s)
    <3>1. Kept(s)
      BY <1>1, <1>4, <1>7, <2>1, <2>3, Ordered DEF Kept
    <3> QED  BY <1>5, <3>1, AllKept
  <2> QED  BY <2>2, <2>3
<1>9. CASE f \notin Essential(s)
  <2>1. \A g \in Essential(s) : seen'[s][g] = seen[s][g] /\ data'[s][g] = data[s][g]
    BY <1>3, <1>6, <1>9
  <2>2. Kept(s)
    BY <1>1, <1>2, <1>4, <1>6, <1>7, <2>1 DEF Kept, Whole, Safe
  <2> QED  BY <1>5, <2>2, AllKept
<1> QED  BY <1>8, <1>9

LEMMA DeleteEndRefines ==
  ASSUME StoreInv, StoreInv', DeleteEnd
  PROVE  Refines
<1> PICK s : s = deleter.set
  OBVIOUS
<1>1. TypeOK /\ s \in Sets /\ place[s] = "published" /\ Present(s) = {} /\ DriveAgrees(s)
  BY DEF StoreInv, CleanersAgree, DeleteEnd, TypeOK
<1>2. /\ place' = [place EXCEPT ![s] = "gone"] /\ onDisk' = [onDisk EXCEPT ![s] = @ \cup {"gone"}]
      /\ UNCHANGED <<images, seen, data, commit, acked, removed>>
  BY <1>1 DEF DeleteEnd
<1>3. /\ place'[s] = "gone" /\ onDisk'[s] = onDisk[s] \cup {"gone"}
      /\ \A r \in Sets \ {s} : place'[r] = place[r] /\ onDisk'[r] = onDisk[r]
  BY <1>1, <1>2 DEF TypeOK
<1>4. \A r \in Sets : (Pending(r)' <=> Pending(r)) /\ (Promised(r)' <=> Promised(r))
  <2>1. ~(commit.set = s /\ commit.step \in FailingSteps)
    BY BeforeRename
  <2> QED  BY <1>1, <1>2, <1>3, <2>1 DEF Pending, Promised
<1>5. \A r \in Sets \ {s} : Kept(r)
  BY <1>2, <1>3, <1>4, SameDrive DEF Kept
<1>6. Manifest \in Essential(s) /\ Manifest \in Files /\ seen[s][Manifest] = "none"
  BY <1>1, ManifestIsAFile DEF Essential, Present
<1>7. "none" \in data[s][Manifest] /\ Essential(s)' = Essential(s)
  BY <1>1, <1>2, <1>6 DEF DriveAgrees, Essential
<1>8. Kept(s)
  BY <1>1, <1>2, <1>3, <1>4, <1>6, <1>7 DEF Kept, Whole, Safe, Possible
<1> QED  BY <1>5, <1>8, AllKept

(* A power failure decides what was open.                                  *)
LEMMA PowerFailsRefines ==
  ASSUME StoreInv, StoreInv', PowerFails
  PROVE  Refines
<1>1. TypeOK
  BY DEF StoreInv
<1>2. /\ onDisk' = [s \in Sets |-> IF place[s] = "unused" THEN onDisk[s] ELSE {place'[s]}]
      /\ data' = [s \in Sets |-> Stable(seen'[s])]
      /\ commit' = Idle
      /\ UNCHANGED <<images, acked, removed>>
  BY DEF PowerFails
<1>3. \A s \in Sets :
        /\ place[s] = "unused" <=> place'[s] = "unused"
        /\ place[s] # "unused" => place'[s] \in onDisk[s]
  BY DEF StoreInv, DriveAgrees, PowerFails, PlacesFound
<1>4. \A s \in Sets, f \in Files : place'[s] = "published" => seen'[s][f] \in data[s][f]
  BY PowerFound
<1>5. ASSUME NEW s \in Sets
      PROVE  /\ Pending(s)' => Pending(s)
             /\ (Whole(s)' => Possible(s)) /\ (Safe(s) => Whole(s)')
             /\ (Safe(s)' <=> Whole(s)') /\ (Possible(s)' <=> Whole(s)')
  <2>1. Essential(s)' = Essential(s) /\ Essential(s) \subseteq Files
    BY <1>1, <1>2, ManifestIsAFile DEF Essential, TypeOK
  <2>2. \A f \in Essential(s) : data'[s][f] = {seen'[s][f]}
    BY <1>2, <2>1 DEF Stable
  <2>3. DriveAgrees(s) /\ DriveAgrees(s)'
    BY DEF StoreInv
  <2>4. onDisk'[s] = IF place[s] = "unused" THEN {"gone"} ELSE {place'[s]}
    BY <1>2, <2>3 DEF DriveAgrees
  <2>5. Pending(s)' => Pending(s)
    BY <1>2, <1>3 DEF Pending, FailingSteps, Idle
  <2>6. Whole(s)' => Possible(s)
    BY <1>3, <1>4, <2>1 DEF Whole, Possible
  <2>7. Safe(s) => Whole(s)'
    BY <1>3, <1>4, <2>1, <2>3 DEF Whole, Safe, DriveAgrees
  <2>8. (Safe(s)' <=> Whole(s)') /\ (Possible(s)' <=> Whole(s)')
    <3>1. Possible(s)' => onDisk'[s] = {"published"} /\ place'[s] = "published"
      BY <1>3, <2>4 DEF Possible
    <3>2. Possible(s)' => \A f \in Essential(s)' : seen'[s][f] = "whole" /\ data'[s][f] = {"whole"}
      BY <2>1, <2>2 DEF Possible
    <3>3. Possible(s)' => Safe(s)'
      BY <3>1, <3>2 DEF Safe
    <3> QED  BY <3>3, OrderedNext
  <2> QED  BY <2>5, <2>6, <2>7, <2>8
<1>6. Store!PowerFails
  <2>1. \E forgotten \in SUBSET {s \in Sets : Pending(s)} :
          {s \in Sets : Pending(s)'} = {s \in Sets : Pending(s)} \ forgotten
    <3> WITNESS {s \in Sets : Pending(s) /\ ~Pending(s)'} \in SUBSET {s \in Sets : Pending(s)}
    <3> QED  BY <1>5
  <2> QED  BY <1>2, <1>5, <2>1 DEF Store!PowerFails, Pending, Possible
<1> QED  BY <1>6 DEF Refines, Store!Next

LEMMA StoreStepRefines == StoreInv /\ StoreInv' /\ [Next]_vars => [Store!Next]_(Store!storeVars)
<1> SUFFICES ASSUME StoreInv, StoreInv', [Next]_vars  PROVE Refines
  BY DEF Refines, StoreViews, Store!storeVars, Pending, Possible
<1>1. CASE Commit
  <2>1. ASSUME NEW s \in Sets, NEW cams \in SUBSET Cameras, MakeStaging(s, cams)  PROVE Refines
    BY <2>1, MakeStagingRefines
  <2>2. ASSUME NEW f \in Files, WriteFile(f)  PROVE Refines
    BY <2>2, WriteFileRefines
  <2>3. CASE SyncStaging
    BY <2>3, SyncStagingRefines
  <2>4. CASE Rename
    BY <2>4, RenameRefines
  <2>5. CASE SyncRoot
    BY <2>5, SyncRootRefines
  <2>6. ASSUME NEW n \in Cameras, Acknowledge(n)  PROVE Refines
    BY <2>6, AcknowledgeRefines
  <2>7. CASE CommitFails
    BY <2>7, CommitFailsRefines
  <2>8. CASE AcknowledgeFails \/ Finish
    BY <2>8, ToldOffRefines
  <2> QED  BY <1>1, <2>1, <2>2, <2>3, <2>4, <2>5, <2>6, <2>7, <2>8 DEF Commit
<1>2. ASSUME UNCHANGED <<images, drive, commit, acked, removed>>  PROVE Refines
  <2>1. \A s \in Sets : Kept(s)
    BY <1>2, SameDrive DEF drive, Kept, Pending, Promised
  <2> QED  BY <2>1, AllKept
<1>3. CASE Cleanup
  <2>1. ASSUME NEW s \in Sets, GrowOld(s) \/ CleanStart(s)  PROVE Refines
    BY <1>2, <2>1 DEF GrowOld, CleanStart
  <2>2. ASSUME NEW f \in Files, CleanFile(f)  PROVE Refines
    BY <2>2, CleanFileRefines
  <2>3. CASE CleanEnd
    BY <2>3, CleanEndRefines
  <2>4. CASE CleanFails
    BY <1>2, <2>4 DEF CleanFails
  <2> QED  BY <1>3, <2>1, <2>2, <2>3, <2>4 DEF Cleanup
<1>4. CASE Delete
  <2>1. ASSUME NEW s \in Sets, DeleteStart(s)  PROVE Refines
    BY <2>1, DeleteStartRefines
  <2>2. ASSUME NEW f \in Files, DeleteFile(f)  PROVE Refines
    BY <2>2, DeleteFileRefines
  <2>3. CASE DeleteEnd
    BY <2>3, DeleteEndRefines
  <2>4. CASE DeleteFails
    BY <1>2, <2>4 DEF DeleteFails
  <2> QED  BY <1>4, <2>1, <2>2, <2>3, <2>4 DEF Delete
<1>5. CASE UNCHANGED vars
  BY <1>2, <1>5 DEF vars
<1>6. CASE PowerFails
  BY <1>6, PowerFailsRefines
<1> QED  BY <1>1, <1>3, <1>4, <1>5, <1>6 DEF Next

LEMMA StoreInitRefines == Init => Store!Init
<1> SUFFICES ASSUME Init  PROVE Store!Init
  OBVIOUS
<1>1. {s \in Sets : place[s] = "unused" \/ (commit.set = s /\ commit.step \in FailingSteps)} = Sets
  BY DEF Init
<1>2. \A s \in Sets : "published" \notin onDisk[s]
  BY DEF Init
<1>3. \A s \in Sets : ~Whole(s) /\ ~Possible(s) /\ ~Safe(s)
  BY <1>2, StoreInit, Hidden
<1>4. acked \ removed = {}
  BY DEF Init
<1> QED  BY <1>1, <1>3, <1>4 DEF Store!Init, Possible

(* Staging directories, syncs, the rename, the clean-up and the deletion   *)
(* file by file together behave as a store that publishes a set in one     *)
(* step, promises it only when it is safe, and keeps what it promised.     *)
THEOREM StoreImplementation == Spec => ImplementsAtomicStore
<1>1. StoreInv /\ StoreInv' /\ [Next]_vars => [Store!Next]_(Store!storeVars)
  BY StoreStepRefines
<1> QED  BY <1>1, StoreInitRefines, StoreInvariance, PTL
            DEF Spec, ImplementsAtomicStore, Store!Spec
=============================================================================
