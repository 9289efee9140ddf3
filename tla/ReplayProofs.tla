---------------------------- MODULE ReplayProofs ----------------------------
(***************************************************************************)
(* Proof that ReplayInv is inductive, for any number of artifacts and of   *)
(* concurrent exports, errors and crashes.  The argument: a survivor stays *)
(* one.  Only a directory that left its staging place is ever removed, so  *)
(* a survivor is lost only by being moved from `portable`, and the export  *)
(* that moves it has a whole bundle of its own in its staging place.       *)
(* Then, that a manifest has the artifacts of its events, and what more is *)
(* so while no two exports meet: which names are taken at each step of the *)
(* one export under way.                                                   *)
(***************************************************************************)
EXTENDS ReplayBundle, TLAPS

Shape == StagedWhole /\ NotYetWritten /\ TargetsLeft /\ NamesUnique

USE DEF Exports

\* The initial state: no directory, no export.
LEMMA ReplayInitially == Init => ReplayInv
  <1> SUFFICES ASSUME Init PROVE ReplayInv OBVIOUS
  <1>1. TypeOK BY DEF Init, TypeOK
  <1>2. StagedWhole /\ NotYetWritten /\ TargetsLeft /\ NamesUnique
    BY DEF Init, StagedWhole, NotYetWritten, TargetsLeft, NamesUnique, Promoting, Removing, Listing
  <1>3. BundleSurvives BY DEF Init, BundleSurvives, Promoting, Promoted, Succeeded
  <1>. QED BY <1>1, <1>2, <1>3 DEF ReplayInv

\* Captures, and files lost, do not touch the exports.
LEMMA CaptureKeeps == ASSUME ReplayInv, CaptureNext PROVE ReplayInv'
  <1>1. UNCHANGED <<pc, cause, seen, listed, bundle, target, faults, crashes>>
    BY DEF CaptureNext, WriteArtifact, UpsertArtifact, RecordArtifactEvent, LoseFile
  <1>2. TypeOK'
    <2>1. file' \in [Artifacts -> {"unwritten", "whole", "changed", "gone"}]
      BY DEF CaptureNext, WriteArtifact, UpsertArtifact, RecordArtifactEvent, LoseFile, ReplayInv, TypeOK
    <2>2. artifacts' \subseteq ArtifactHandle
      BY DEF CaptureNext, WriteArtifact, UpsertArtifact, RecordArtifactEvent, LoseFile,
             ReplayInv, TypeOK, ArtifactHandle
    <2>3. events' \subseteq Artifacts
      BY DEF CaptureNext, WriteArtifact, UpsertArtifact, RecordArtifactEvent, LoseFile,
             ReplayInv, TypeOK
    <2>. QED BY <1>1, <2>1, <2>2, <2>3 DEF ReplayInv, TypeOK, bundle
  <1>3. UNCHANGED <<StagedWhole, NotYetWritten, TargetsLeft, NamesUnique, BundleSurvives>>
    BY <1>1 DEF StagedWhole, NotYetWritten, TargetsLeft, NamesUnique, BundleSurvives,
                Survivor, Succeeded, Removing, Whole, Uncopied, bundle
  <1>. QED BY <1>2, <1>3 DEF ReplayInv

\* An export begins.
LEMMA BeginKeeps == ASSUME ReplayInv, NEW n \in Exports, ReplayExport(n) PROVE ReplayInv'
  <1> USE DEF Go, End, capture, bundle
  <1>1. TypeOK' BY DEF ReplayInv, TypeOK, ReplayExport
  <1>2. StagedWhole'
    BY DEF ReplayInv, TypeOK, StagedWhole, NotYetWritten, TargetsLeft, Promoting, Listing, Removing, Whole, Uncopied, ReplayExport
  <1>3. NotYetWritten'
    BY DEF ReplayInv, TypeOK, NotYetWritten, TargetsLeft, Listing, Removing, ReplayExport
  <1>4. TargetsLeft'
    BY DEF ReplayInv, TypeOK, NotYetWritten, TargetsLeft, Listing, Removing, ReplayExport
  <1>5. NamesUnique'
    BY DEF ReplayInv, TypeOK, NotYetWritten, StagedWhole, Promoting, NamesUnique, Listing, ReplayExport
  <1>6. \A k \in Exports : Survivor(k) => Survivor(k)'
    BY DEF ReplayInv, TypeOK, NotYetWritten, TargetsLeft, Listing, Removing, Whole, Uncopied, Survivor, ReplayExport
  <1>7. (\E k \in Exports : pc'[k] \in Promoting \cup Promoted \/ Succeeded(k)')
        => \E k \in Exports : pc[k] \in Promoting \cup Promoted \/ Succeeded(k)
    BY DEF ReplayInv, TypeOK, Promoting, Promoted, Succeeded, ReplayExport
  <1>8. BundleSurvives' BY <1>6, <1>7 DEF ReplayInv, BundleSurvives
  <1>. QED BY <1>1, <1>2, <1>3, <1>4, <1>5, <1>8 DEF ReplayInv

\* The events are listed.
LEMMA ListEventsKeeps == ASSUME ReplayInv, NEW n \in Exports, ListEvents(n) PROVE ReplayInv'
  <1> USE DEF Go, End, capture, bundle
  <1>1. TypeOK' BY DEF ReplayInv, TypeOK, ListEvents
  <1>2. StagedWhole'
    BY DEF ReplayInv, TypeOK, StagedWhole, NotYetWritten, TargetsLeft, Promoting, Listing, Removing, Whole, Uncopied, ListEvents
  <1>3. NotYetWritten'
    BY DEF ReplayInv, TypeOK, NotYetWritten, TargetsLeft, Listing, Removing, ListEvents
  <1>4. TargetsLeft'
    BY DEF ReplayInv, TypeOK, NotYetWritten, TargetsLeft, Listing, Removing, ListEvents
  <1>5. NamesUnique'
    BY DEF ReplayInv, TypeOK, NotYetWritten, StagedWhole, Promoting, NamesUnique, Listing, ListEvents
  <1>6. \A k \in Exports : Survivor(k) => Survivor(k)'
    BY DEF ReplayInv, TypeOK, NotYetWritten, TargetsLeft, Listing, Removing, Whole, Uncopied, Survivor, ListEvents
  <1>7. (\E k \in Exports : pc'[k] \in Promoting \cup Promoted \/ Succeeded(k)')
        => \E k \in Exports : pc[k] \in Promoting \cup Promoted \/ Succeeded(k)
    BY DEF ReplayInv, TypeOK, Promoting, Promoted, Succeeded, ListEvents
  <1>8. BundleSurvives' BY <1>6, <1>7 DEF ReplayInv, BundleSurvives
  <1>. QED BY <1>1, <1>2, <1>3, <1>4, <1>5, <1>8 DEF ReplayInv

\* The artifacts are listed and the staging directory is made.
LEMMA ListArtifactsKeeps == ASSUME ReplayInv, NEW n \in Exports, ListArtifacts(n) PROVE ReplayInv'
  <1> USE DEF Go, End, capture, bundle
  <1>1. TypeOK' BY DEF ReplayInv, TypeOK, ListArtifacts, ArtifactHandle
  <1>2. StagedWhole'
    BY DEF ReplayInv, TypeOK, StagedWhole, NotYetWritten, TargetsLeft, Promoting, Listing, Removing, Whole, Uncopied, ListArtifacts, ArtifactHandle
  <1>3. NotYetWritten'
    BY DEF ReplayInv, TypeOK, NotYetWritten, TargetsLeft, Listing, Removing, ListArtifacts, ArtifactHandle
  <1>4. TargetsLeft'
    BY DEF ReplayInv, TypeOK, NotYetWritten, TargetsLeft, Listing, Removing, ListArtifacts, ArtifactHandle
  <1>5. NamesUnique'
    BY DEF ReplayInv, TypeOK, NotYetWritten, StagedWhole, Promoting, NamesUnique, Listing, ListArtifacts, ArtifactHandle
  <1>6. \A k \in Exports : Survivor(k) => Survivor(k)'
    BY DEF ReplayInv, TypeOK, NotYetWritten, TargetsLeft, Listing, Removing, Whole, Uncopied, Survivor, ListArtifacts, ArtifactHandle
  <1>7. (\E k \in Exports : pc'[k] \in Promoting \cup Promoted \/ Succeeded(k)')
        => \E k \in Exports : pc[k] \in Promoting \cup Promoted \/ Succeeded(k)
    BY DEF ReplayInv, TypeOK, Promoting, Promoted, Succeeded, ListArtifacts, ArtifactHandle
  <1>8. BundleSurvives' BY <1>6, <1>7 DEF ReplayInv, BundleSurvives
  <1>. QED BY <1>1, <1>2, <1>3, <1>4, <1>5, <1>8 DEF ReplayInv

\* An artifact is copied: the export has no manifest yet.
LEMMA CopyKeeps == ASSUME ReplayInv, NEW n \in Exports, NEW r, CopyArtifact(n, r) PROVE ReplayInv'
  <1> USE DEF Go, End, capture, bundle
  <1>1. TypeOK' BY DEF ReplayInv, TypeOK, CopyArtifact, Uncopied, ArtifactHandle
  <1>2. StagedWhole'
    BY DEF ReplayInv, TypeOK, StagedWhole, NotYetWritten, TargetsLeft, Promoting, Listing, Removing, Whole, Uncopied, CopyArtifact, Uncopied, ArtifactHandle
  <1>3. NotYetWritten'
    BY DEF ReplayInv, TypeOK, NotYetWritten, TargetsLeft, Listing, Removing, CopyArtifact, Uncopied, ArtifactHandle
  <1>4. TargetsLeft'
    BY DEF ReplayInv, TypeOK, NotYetWritten, TargetsLeft, Listing, Removing, CopyArtifact, Uncopied, ArtifactHandle
  <1>5. NamesUnique'
    BY DEF ReplayInv, TypeOK, NotYetWritten, StagedWhole, Promoting, NamesUnique, Listing, CopyArtifact, Uncopied, ArtifactHandle
  <1>6. \A k \in Exports : Survivor(k) => Survivor(k)'
    BY DEF ReplayInv, TypeOK, NotYetWritten, TargetsLeft, Listing, Removing, Whole, Uncopied, Survivor, CopyArtifact, Uncopied, ArtifactHandle
  <1>7. (\E k \in Exports : pc'[k] \in Promoting \cup Promoted \/ Succeeded(k)')
        => \E k \in Exports : pc[k] \in Promoting \cup Promoted \/ Succeeded(k)
    BY DEF ReplayInv, TypeOK, Promoting, Promoted, Succeeded, CopyArtifact, Uncopied, ArtifactHandle
  <1>8. BundleSurvives' BY <1>6, <1>7 DEF ReplayInv, BundleSurvives
  <1>. QED BY <1>1, <1>2, <1>3, <1>4, <1>5, <1>8 DEF ReplayInv

\* An artifact is refused: the export has no manifest.
LEMMA RefuseKeeps == ASSUME ReplayInv, NEW n \in Exports, NEW r, RefuseArtifact(n, r) PROVE ReplayInv'
  <1> USE DEF Go, End, capture, bundle
  <1>1. TypeOK' BY DEF ReplayInv, TypeOK, RefuseArtifact, Uncopied
  <1>2. pc[n] = "copy" /\ UNCHANGED <<listed, files, manifest, target>>
    BY DEF RefuseArtifact
  <1>3. \A k \in Exports : place'[k] \in {place[k], "nowhere"} /\ (k # n => place'[k] = place[k])
    BY DEF ReplayInv, TypeOK, RefuseArtifact
  <1>4. /\ pc'[n] = "ended" /\ cause'[n] = "source"
        /\ \A k \in Exports \ {n} : pc'[k] = pc[k] /\ cause'[k] = cause[k]
    BY DEF ReplayInv, TypeOK, RefuseArtifact
  <1>5. \A k \in Exports : Whole(k)' = Whole(k)
    BY <1>2 DEF Whole, Uncopied
  <1>6. StagedWhole'
    BY <1>3, <1>4, <1>5 DEF ReplayInv, StagedWhole, Promoting
  <1>7. NotYetWritten'
    BY <1>2, <1>3, <1>4 DEF ReplayInv, NotYetWritten, Listing
  <1>8. TargetsLeft'
    BY <1>2, <1>3, <1>4 DEF ReplayInv, TargetsLeft, Listing, Removing
  <1>9. NamesUnique'
    BY <1>3 DEF ReplayInv, NamesUnique
  <1>10. \A k \in Exports : Survivor(k) => Survivor(k)'
    <2> SUFFICES ASSUME NEW k \in Exports, Survivor(k) PROVE Survivor(k)'
      OBVIOUS
    <2>1. k # n
      BY <1>2 DEF ReplayInv, NotYetWritten, Survivor, Whole
    <2>2. \A m \in Exports : Removing(m)' => Removing(m) /\ target'[m] = target[m]
      BY <1>2, <1>4 DEF Removing
    <2>. QED BY <1>3, <1>5, <2>1, <2>2 DEF Survivor
  <1>11. (\E k \in Exports : pc'[k] \in Promoting \cup Promoted \/ Succeeded(k)')
        => \E k \in Exports : pc[k] \in Promoting \cup Promoted \/ Succeeded(k)
    BY <1>4 DEF Promoting, Promoted, Succeeded
  <1>12. BundleSurvives' BY <1>10, <1>11 DEF ReplayInv, BundleSurvives
  <1>. QED BY <1>1, <1>6, <1>7, <1>8, <1>9, <1>12 DEF ReplayInv

\* The manifest is written: the bundle is whole, staged, and nobody's target.
LEMMA WriteManifestKeeps == ASSUME ReplayInv, NEW n \in Exports, WriteManifest(n) PROVE ReplayInv'
  <1> USE DEF Go, End, capture, bundle
  <1>1. TypeOK' BY DEF ReplayInv, TypeOK, WriteManifest, AllCopied
  <1>2. StagedWhole'
    BY DEF ReplayInv, TypeOK, StagedWhole, NotYetWritten, TargetsLeft, Promoting, Listing, Removing, Whole, Uncopied, WriteManifest, AllCopied
  <1>3. NotYetWritten'
    BY DEF ReplayInv, TypeOK, NotYetWritten, TargetsLeft, Listing, Removing, WriteManifest, AllCopied
  <1>4. TargetsLeft'
    BY DEF ReplayInv, TypeOK, NotYetWritten, TargetsLeft, Listing, Removing, WriteManifest, AllCopied
  <1>5. NamesUnique'
    BY DEF ReplayInv, TypeOK, NotYetWritten, StagedWhole, Promoting, NamesUnique, Listing, WriteManifest, AllCopied
  <1>6. \A k \in Exports : Survivor(k) => Survivor(k)'
    BY DEF ReplayInv, TypeOK, NotYetWritten, TargetsLeft, Listing, Removing, Whole, Uncopied, Survivor, WriteManifest, AllCopied
  <1>7. Survivor(n)'
    BY DEF ReplayInv, TypeOK, NotYetWritten, TargetsLeft, Removing, Whole, Uncopied, Survivor,
           WriteManifest, AllCopied
  <1>8. BundleSurvives' BY <1>6, <1>7 DEF ReplayInv, BundleSurvives
  <1>. QED BY <1>1, <1>2, <1>3, <1>4, <1>5, <1>8 DEF ReplayInv

\* What a step of promote_portable_bundle, an error or a crash may do, in terms of
\* single directories, and that this keeps the invariant.
StepOf(n) ==
  /\ listed' = listed
  /\ \A k \in Exports \ {n} : pc'[k] = pc[k] /\ target'[k] = target[k] /\ cause'[k] = cause[k]
  /\ pc'[n] \notin Listing \cup {"copy"}
  /\ pc'[n] \in Promoting => pc[n] \in Promoting /\ place'[n] = place[n]
  /\ pc'[n] \in Promoted \/ (pc'[n] = "ended" /\ cause'[n] = "none")
       => pc[n] \in Promoting \cup Promoted
  /\ Removing(n)' => \/ target'[n] \in Exports /\ place[target'[n]] = "previous"
                     \/ Removing(n) /\ target'[n] = target[n]
  /\ \A k \in Exports : place'[k] = place[k] \/ place[k] \in {"portable", "previous"}
                                           \/ (k = n /\ place[k] = "staging")
  /\ \A k \in Exports : place'[k] = "staging" => place[k] = "staging"
  /\ \A k \in Exports : place[k] = "staging" => place'[k] \in {"staging", "portable"}
  /\ \A k \in Exports : \/ files'[k] = files[k] /\ manifest'[k] = manifest[k]
                        \/ Removing(n) /\ k = target[n]
  /\ \/ \A k \in Exports : place[k] = "portable" /\ Whole(k) => place'[k] = "portable"
     \/ pc[n] \in Promoting /\ place'[n] = "staging"

LEMMA StepKeeps ==
  ASSUME ReplayInv, TypeOK', NamesUnique', NEW n \in Exports, StepOf(n)
  PROVE  ReplayInv'
  <1>1. \A k \in Exports : place[k] = "staging" \/ pc[k] \in Listing
          => files'[k] = files[k] /\ manifest'[k] = manifest[k]
    BY DEF StepOf, ReplayInv, TargetsLeft
  <1>2. \A k \in Exports : place[k] = "staging" => Whole(k)' = Whole(k)
    BY <1>1 DEF StepOf, Whole, Uncopied
  <1>3. StagedWhole'
    <2> SUFFICES ASSUME NEW k \in Exports, pc'[k] \in Promoting
                 PROVE  place'[k] = "staging" /\ Whole(k)'
      BY DEF StagedWhole
    <2>1. pc[k] \in Promoting BY DEF StepOf
    <2>2. place[k] = "staging" /\ Whole(k) BY <2>1 DEF ReplayInv, StagedWhole
    <2>3. place'[k] = "staging" BY <2>2 DEF StepOf
    <2>. QED BY <2>2, <2>3, <1>2
  <1>4. NotYetWritten'
    <2> SUFFICES ASSUME NEW k \in Exports
                 PROVE  /\ pc'[k] \in Listing => place'[k] = "nowhere" /\ ~manifest'[k] /\ files'[k] = {}
                        /\ pc'[k] = "copy" => place'[k] = "staging" /\ ~manifest'[k]
      BY DEF NotYetWritten
    <2>1. pc'[k] \in Listing \cup {"copy"} => pc'[k] = pc[k] /\ k # n BY DEF StepOf
    <2>2. CASE pc[k] \in Listing
      BY <1>1, <2>1, <2>2 DEF StepOf, ReplayInv, NotYetWritten, Listing
    <2>3. CASE pc[k] = "copy"
      BY <1>1, <2>1, <2>3 DEF StepOf, ReplayInv, NotYetWritten, Listing
    <2>. QED BY <2>1, <2>2, <2>3
  <1>5. TargetsLeft'
    <2> SUFFICES ASSUME NEW k \in Exports, Removing(k)'
                 PROVE  target'[k] \in Exports /\ place'[target'[k]] # "staging"
                        /\ pc'[target'[k]] \notin Listing
      BY DEF TargetsLeft
    <2>1. \/ Removing(k) /\ target'[k] = target[k]
          \/ target'[k] \in Exports /\ place[target'[k]] = "previous"
      BY DEF StepOf, Removing
    <2>2. target'[k] \in Exports /\ place[target'[k]] # "staging" /\ pc[target'[k]] \notin Listing
      BY <2>1 DEF ReplayInv, TargetsLeft, NotYetWritten
    <2>. QED BY <2>2 DEF StepOf
  <1>6. \A k \in Exports : Survivor(k) /\ place'[k] \in {"staging", "portable"} => Survivor(k)'
    <2> SUFFICES ASSUME NEW k \in Exports, Survivor(k), place'[k] \in {"staging", "portable"}
                 PROVE  Survivor(k)'
      OBVIOUS
    <2>1. files'[k] = files[k] /\ manifest'[k] = manifest[k] BY DEF StepOf, Survivor
    <2>2. Whole(k)' BY <2>1 DEF StepOf, Whole, Uncopied, Survivor
    <2>3. \A m \in Exports : Removing(m)' => target'[m] # k
      BY DEF StepOf, Removing, Survivor
    <2>. QED BY <2>2, <2>3 DEF Survivor
  <1>7. ASSUME \E k \in Exports : Survivor(k) PROVE \E k \in Exports : Survivor(k)'
    <2>1. CASE \A k \in Exports : place[k] = "portable" /\ Whole(k) => place'[k] = "portable"
      <3>1. PICK k \in Exports : Survivor(k) BY <1>7
      <3>2. place'[k] \in {"staging", "portable"} BY <2>1, <3>1 DEF Survivor, StepOf
      <3>. QED BY <3>1, <3>2, <1>6
    <2>2. CASE pc[n] \in Promoting /\ place'[n] = "staging"
      <3>1. place[n] = "staging" /\ Whole(n) BY <2>2 DEF ReplayInv, StagedWhole
      <3>2. \A m \in Exports : Removing(m) => target[m] # n
        BY <3>1 DEF ReplayInv, TargetsLeft
      <3>3. Survivor(n) BY <3>1, <3>2 DEF Survivor
      <3>. QED BY <2>2, <3>3, <1>6
    <2>. QED BY <2>1, <2>2 DEF StepOf
  <1>8. (\E k \in Exports : pc'[k] \in Promoting \cup Promoted \/ Succeeded(k)')
          => \E k \in Exports : pc[k] \in Promoting \cup Promoted \/ Succeeded(k)
    BY DEF StepOf, Succeeded
  <1>9. BundleSurvives' BY <1>7, <1>8 DEF ReplayInv, BundleSurvives
  <1>. QED BY <1>3, <1>4, <1>5, <1>9 DEF ReplayInv

\* A backup is chosen for removal.
LEMMA StaleBackupKeeps == ASSUME ReplayInv, NEW n \in Exports, StaleBackup(n) PROVE ReplayInv'
  <1> USE DEF Go, End, capture, bundle
  <1>1. TypeOK'
    <2>1. target' \in [Exports -> Exports \cup {0}] BY DEF ReplayInv, TypeOK, StaleBackup, At
    <2>2. \E label \in {"move_aside", "remove_stale", "ended", "remove_backup"} : pc' = [pc EXCEPT ![n] = label]
      BY DEF StaleBackup
    <2>3. UNCHANGED <<capture, cause, seen, listed, bundle, faults, crashes>> BY DEF StaleBackup
    <2>. QED BY <2>1, <2>2, <2>3 DEF ReplayInv, TypeOK
  <1>2. NamesUnique' BY DEF ReplayInv, NamesUnique, StaleBackup
  <1>3. UNCHANGED <<cause, listed, place, files, manifest>> /\ pc[n] = "stale_backup"
    BY DEF StaleBackup
  <1>4. \A k \in Exports \ {n} : pc'[k] = pc[k] /\ target'[k] = target[k]
    BY DEF ReplayInv, TypeOK, StaleBackup
  <1>5. \/ pc'[n] = "move_aside"
        \/ pc'[n] = "remove_stale" /\ target'[n] \in Exports /\ place[target'[n]] = "previous"
    <2>1. CASE pc' = [pc EXCEPT ![n] = "move_aside"]
      BY <2>1 DEF ReplayInv, TypeOK
    <2>2. CASE \E k \in At("previous") : /\ target' = [target EXCEPT ![n] = k]
                                        /\ pc' = [pc EXCEPT ![n] = "remove_stale"]
      BY <2>2 DEF ReplayInv, TypeOK, At
    <2>. QED BY <2>1, <2>2 DEF StaleBackup
  <1>6. StepOf(n)
    BY <1>3, <1>4, <1>5 DEF StepOf, Promoting, Promoted, Listing, Removing
  <1>. QED BY <1>1, <1>2, <1>6, StepKeeps

\* An entry of a target goes.
LEMMA RemoveEntryKeeps == ASSUME ReplayInv, NEW n \in Exports, RemoveEntry(n) PROVE ReplayInv'
  <1> USE DEF Go, End, capture, bundle
  <1>1. target[n] \in Exports BY DEF ReplayInv, TargetsLeft, RemoveEntry
  <1>2. TypeOK'
    <2>1. files' \in [Exports -> SUBSET Artifacts] BY <1>1 DEF ReplayInv, TypeOK, RemoveEntry
    <2>2. manifest' \in [Exports -> BOOLEAN] BY <1>1 DEF ReplayInv, TypeOK, RemoveEntry
    <2>. QED BY <2>1, <2>2 DEF ReplayInv, TypeOK, RemoveEntry
  <1>3. NamesUnique' BY DEF ReplayInv, NamesUnique, RemoveEntry
  <1>4. StepOf(n)
    BY <1>1 DEF StepOf, ReplayInv, TypeOK, Promoting, Promoted, Listing, Removing, RemoveEntry
  <1>. QED BY <1>2, <1>3, <1>4, StepKeeps

\* A target goes; it was at `portable.previous`.
LEMMA RemoveDirectoryKeeps == ASSUME ReplayInv, NEW n \in Exports, RemoveDirectory(n) PROVE ReplayInv'
  <1> USE DEF Go, End, capture, bundle
  <1>1. target[n] \in Exports /\ Removing(n) BY DEF ReplayInv, TargetsLeft, RemoveDirectory
  <1>2. TypeOK' BY DEF ReplayInv, TypeOK, RemoveDirectory
  <1>3. \A k \in Exports : \/ place'[k] = place[k]
                           \/ place[k] = "previous" /\ place'[k] = "nowhere"
    BY <1>1 DEF ReplayInv, TypeOK, RemoveDirectory
  <1>4. NamesUnique' BY <1>3 DEF ReplayInv, TypeOK, NamesUnique
  <1>5. UNCHANGED <<listed, files, manifest, target>> BY DEF RemoveDirectory
  <1>6. \A k \in Exports \ {n} : pc'[k] = pc[k] /\ cause'[k] = cause[k]
    BY DEF ReplayInv, TypeOK, RemoveDirectory
  <1>7. \/ pc[n] = "remove_stale" /\ pc'[n] = "move_aside"
        \/ pc[n] = "remove_backup" /\ pc'[n] = "ended"
        \/ pc'[n] = "ended" /\ cause'[n] = "conflict"
    <2>1. \/ pc' = [pc EXCEPT ![n] = IF pc[n] = "remove_stale" THEN "move_aside" ELSE "ended"]
          \/ pc' = [pc EXCEPT ![n] = "ended"] /\ cause' = [cause EXCEPT ![n] = "conflict"]
      BY DEF RemoveDirectory
    <2>2. pc[n] \in {"remove_stale", "remove_backup"} BY <1>1 DEF Removing
    <2>. QED BY <2>1, <2>2 DEF ReplayInv, TypeOK
  <1>8. pc'[n] \in Promoting => pc[n] \in Promoting /\ place'[n] = place[n]
    BY <1>3, <1>7 DEF ReplayInv, StagedWhole, Promoting
  <1>9. StepOf(n)
    BY <1>3, <1>5, <1>6, <1>7, <1>8 DEF StepOf, Promoting, Promoted, Listing, Removing
  <1>. QED BY <1>2, <1>4, <1>9, StepKeeps

\* A rename to a free name: the directory stands there alone, an emptied one that
\* stood there is gone, the others stay.
LEMMA RenamedPlaces ==
  ASSUME TypeOK, NamesUnique, NEW n \in Exports, NEW where \in {"portable", "previous"},
         Free(where), place' = Renamed(n, where)
  PROVE  /\ place' \in [Exports -> {"nowhere", "staging", "portable", "previous"}]
         /\ place'[n] = where
         /\ \A k \in Exports \ {n} :
              \/ place'[k] = place[k] /\ place[k] # where
              \/ place'[k] = "nowhere" /\ place[k] = where /\ ~manifest[k]
         /\ NamesUnique'
  <1>1. place' = [k \in Exports |-> IF k = n THEN where
                                    ELSE IF place[k] = where THEN "nowhere" ELSE place[k]]
    BY DEF Renamed
  <1>2. place' \in [Exports -> {"nowhere", "staging", "portable", "previous"}]
    BY <1>1 DEF TypeOK
  <1>3. place'[n] = where BY <1>1
  <1>4. \A k \in Exports : place[k] = where => ~manifest[k] BY DEF Free, At, Emptied
  <1>5. \A k \in Exports \ {n} : \/ place'[k] = place[k] /\ place[k] # where
                                 \/ place'[k] = "nowhere" /\ place[k] = where /\ ~manifest[k]
    BY <1>1, <1>4
  <1>6. NamesUnique'
    <2> SUFFICES ASSUME NEW i \in Exports, NEW k \in Exports, place'[i] = place'[k],
                        place'[i] \in {"portable", "previous"}
                 PROVE  i = k
      BY DEF NamesUnique
    <2>1. CASE i = n \/ k = n BY <2>1, <1>3, <1>5
    <2>2. CASE i # n /\ k # n BY <2>2, <1>5 DEF NamesUnique
    <2>. QED BY <2>1, <2>2
  <1>. QED BY <1>2, <1>3, <1>5, <1>6

\* The bundle at `portable` is moved away by an export with a whole one.
LEMMA MoveAsideKeeps == ASSUME ReplayInv, NEW n \in Exports, MoveAside(n) PROVE ReplayInv'
  <1> USE DEF Go, End, capture, bundle
  <1>1. TypeOK /\ NamesUnique /\ pc[n] = "move_aside" BY DEF ReplayInv, MoveAside
  <1>2. place[n] = "staging" BY <1>1 DEF ReplayInv, StagedWhole, Promoting
  <1>3. UNCHANGED <<file, artifacts, events, seen, listed, files, manifest, target, faults, crashes>>
    BY DEF MoveAside
  <1>4. CASE UNCHANGED <<cause, place>> /\ Go(n, "promote")
    <2>1. TypeOK' /\ NamesUnique' BY <1>1, <1>3, <1>4 DEF TypeOK, NamesUnique
    <2>2. StepOf(n) BY <1>1, <1>3, <1>4 DEF StepOf, TypeOK, Promoting, Promoted, Listing, Removing
    <2>. QED BY <2>1, <2>2, StepKeeps
  <1>5. ASSUME NEW k \in At("portable"), Free("previous"), place' = Renamed(k, "previous"),
               Go(n, "promote"), UNCHANGED cause
        PROVE  ReplayInv'
    <2>1. k \in Exports /\ place[k] = "portable" /\ k # n BY <1>2 DEF At
    <2>2. /\ place' \in [Exports -> {"nowhere", "staging", "portable", "previous"}]
          /\ place'[k] = "previous"
          /\ \A i \in Exports \ {k} :
               \/ place'[i] = place[i] /\ place[i] # "previous"
               \/ place'[i] = "nowhere" /\ place[i] = "previous" /\ ~manifest[i]
          /\ NamesUnique'
      BY <1>1, <1>5, <2>1, RenamedPlaces
    <2>3. TypeOK' BY <1>1, <1>3, <1>5, <2>2 DEF TypeOK
    <2>4. StepOf(n) BY <1>1, <1>2, <1>3, <1>5, <2>1, <2>2 DEF StepOf, TypeOK, Promoting, Promoted, Listing, Removing
    <2>. QED BY <2>2, <2>3, <2>4, StepKeeps
  <1>6. CASE End(n, "conflict") /\ UNCHANGED place
    <2>1. TypeOK' /\ NamesUnique' BY <1>1, <1>3, <1>6 DEF TypeOK, NamesUnique
    <2>2. StepOf(n) BY <1>1, <1>3, <1>6 DEF StepOf, TypeOK, Promoting, Promoted, Listing, Removing
    <2>. QED BY <2>1, <2>2, StepKeeps
  <1>. QED BY <1>4, <1>5, <1>6 DEF MoveAside

\* A staged bundle is renamed.
LEMMA PromoteKeeps == ASSUME ReplayInv, NEW n \in Exports, Promote(n) PROVE ReplayInv'
  <1> USE DEF Go, End, capture, bundle
  <1>1. TypeOK /\ NamesUnique /\ pc[n] = "promote" BY DEF ReplayInv, Promote
  <1>2. place[n] = "staging" BY <1>1 DEF ReplayInv, StagedWhole, Promoting
  <1>3. UNCHANGED <<file, artifacts, events, seen, listed, files, manifest, target, faults, crashes>>
    BY DEF Promote
  <1>4. CASE Free("portable") /\ place' = Renamed(n, "portable") /\ Go(n, "backup") /\ UNCHANGED cause
    <2>1. /\ place' \in [Exports -> {"nowhere", "staging", "portable", "previous"}]
          /\ place'[n] = "portable"
          /\ \A i \in Exports \ {n} :
               \/ place'[i] = place[i] /\ place[i] # "portable"
               \/ place'[i] = "nowhere" /\ place[i] = "portable" /\ ~manifest[i]
          /\ NamesUnique'
      BY <1>1, <1>4, RenamedPlaces
    <2>2. TypeOK' BY <1>1, <1>3, <1>4, <2>1 DEF TypeOK
    <2>3. StepOf(n) BY <1>1, <1>2, <1>3, <1>4, <2>1 DEF StepOf, TypeOK, Promoting, Promoted, Listing, Removing, Whole
    <2>. QED BY <2>1, <2>2, <2>3, StepKeeps
  <1>5. CASE cause' = [cause EXCEPT ![n] = "conflict"] /\ Go(n, "restore") /\ UNCHANGED place
    <2>1. TypeOK' /\ NamesUnique' BY <1>1, <1>3, <1>5 DEF TypeOK, NamesUnique
    <2>2. StepOf(n) BY <1>1, <1>3, <1>5 DEF StepOf, TypeOK, Promoting, Promoted, Listing, Removing
    <2>. QED BY <2>1, <2>2, StepKeeps
  <1>. QED BY <1>4, <1>5 DEF Promote

\* A backup is moved back; the staged bundle stays.
LEMMA RestoreKeeps == ASSUME ReplayInv, NEW n \in Exports, Restore(n) PROVE ReplayInv'
  <1> USE DEF Go, End, capture, bundle
  <1>1. TypeOK /\ NamesUnique /\ pc[n] = "restore" /\ Go(n, "ended") BY DEF ReplayInv, Restore
  <1>2. place[n] = "staging" BY <1>1 DEF ReplayInv, StagedWhole, Promoting
  <1>3. UNCHANGED <<file, artifacts, events, cause, seen, listed, files, manifest, target, faults,
                    crashes>>
    BY DEF Restore
  <1>4. ASSUME NEW k \in At("previous"), Free("portable"), place' = Renamed(k, "portable")
        PROVE  ReplayInv'
    <2>1. k \in Exports /\ place[k] = "previous" /\ k # n BY <1>2 DEF At
    <2>2. /\ place' \in [Exports -> {"nowhere", "staging", "portable", "previous"}]
          /\ place'[k] = "portable"
          /\ \A i \in Exports \ {k} :
               \/ place'[i] = place[i] /\ place[i] # "portable"
               \/ place'[i] = "nowhere" /\ place[i] = "portable" /\ ~manifest[i]
          /\ NamesUnique'
      BY <1>1, <1>4, <2>1, RenamedPlaces
    <2>3. TypeOK' BY <1>1, <1>3, <2>2 DEF TypeOK
    <2>4. StepOf(n) BY <1>1, <1>2, <1>3, <2>1, <2>2 DEF StepOf, TypeOK, Promoting, Promoted, Listing, Removing
    <2>. QED BY <2>2, <2>3, <2>4, StepKeeps
  <1>5. CASE UNCHANGED place
    <2>1. TypeOK' /\ NamesUnique' BY <1>1, <1>3, <1>5 DEF TypeOK, NamesUnique
    <2>2. StepOf(n) BY <1>1, <1>3, <1>5 DEF StepOf, TypeOK, Promoting, Promoted, Listing, Removing
    <2>. QED BY <2>1, <2>2, StepKeeps
  <1>. QED BY <1>4, <1>5 DEF Restore

\* A backup is chosen for removal after the promotion.
LEMMA RemoveBackupKeeps == ASSUME ReplayInv, NEW n \in Exports, RemoveBackup(n) PROVE ReplayInv'
  <1> USE DEF Go, End, capture, bundle
  <1>1. TypeOK'
    <2>1. target' \in [Exports -> Exports \cup {0}] BY DEF ReplayInv, TypeOK, RemoveBackup, At
    <2>2. \E label \in {"move_aside", "remove_stale", "ended", "remove_backup"} : pc' = [pc EXCEPT ![n] = label]
      BY DEF RemoveBackup
    <2>3. UNCHANGED <<capture, cause, seen, listed, bundle, faults, crashes>> BY DEF RemoveBackup
    <2>. QED BY <2>1, <2>2, <2>3 DEF ReplayInv, TypeOK
  <1>2. NamesUnique' BY DEF ReplayInv, NamesUnique, RemoveBackup
  <1>3. UNCHANGED <<cause, listed, place, files, manifest>> /\ pc[n] = "backup"
    BY DEF RemoveBackup
  <1>4. \A k \in Exports \ {n} : pc'[k] = pc[k] /\ target'[k] = target[k]
    BY DEF ReplayInv, TypeOK, RemoveBackup
  <1>5. \/ pc'[n] = "ended"
        \/ pc'[n] = "remove_backup" /\ target'[n] \in Exports /\ place[target'[n]] = "previous"
    <2>1. CASE pc' = [pc EXCEPT ![n] = "ended"]
      BY <2>1 DEF ReplayInv, TypeOK
    <2>2. CASE \E k \in At("previous") : /\ target' = [target EXCEPT ![n] = k]
                                        /\ pc' = [pc EXCEPT ![n] = "remove_backup"]
      BY <2>2 DEF ReplayInv, TypeOK, At
    <2>. QED BY <2>1, <2>2 DEF RemoveBackup
  <1>6. StepOf(n)
    BY <1>3, <1>4, <1>5 DEF StepOf, Promoting, Promoted, Listing, Removing
  <1>. QED BY <1>1, <1>2, <1>6, StepKeeps

\* An error ends the export, or sends it to the restore.
LEMMA FaultKeeps == ASSUME ReplayInv, NEW n \in Exports, Fault(n) PROVE ReplayInv'
  <1> USE DEF Go, End, capture, bundle
  <1>1. TypeOK' BY DEF ReplayInv, TypeOK, Fault
  <1>2. NamesUnique' BY DEF ReplayInv, NamesUnique, Fault
  <1>3. UNCHANGED <<listed, place, files, manifest, target>> BY DEF Fault
  <1>4. \A k \in Exports \ {n} : pc'[k] = pc[k] /\ cause'[k] = cause[k]
    BY DEF ReplayInv, TypeOK, Fault
  <1>5. cause'[n] = "io" /\ (pc'[n] = "ended" \/ (pc[n] = "promote" /\ pc'[n] = "restore"))
    BY DEF ReplayInv, TypeOK, Fault
  <1>6. StepOf(n)
    BY <1>3, <1>4, <1>5 DEF StepOf, Promoting, Promoted, Listing, Removing
  <1>. QED BY <1>1, <1>2, <1>6, StepKeeps

\* A crash ends the export.
LEMMA CrashKeeps == ASSUME ReplayInv, NEW n \in Exports, Crash(n) PROVE ReplayInv'
  <1> USE DEF Go, End, capture, bundle
  <1>1. TypeOK' BY DEF ReplayInv, TypeOK, Crash
  <1>2. NamesUnique' BY DEF ReplayInv, NamesUnique, Crash
  <1>3. StepOf(n)
    BY DEF StepOf, ReplayInv, TypeOK, Promoting, Promoted, Listing, Removing, Crash
  <1>. QED BY <1>1, <1>2, <1>3, StepKeeps

-----------------------------------------------------------------------------
\* Every step keeps the invariant.
LEMMA ReplayInductive == ASSUME ReplayInv, [Next]_vars PROVE ReplayInv'
  <1>1. CASE UNCHANGED vars
    <2>1. UNCHANGED <<TypeOK, StagedWhole, NotYetWritten, TargetsLeft, NamesUnique>>
      BY <1>1 DEF vars, capture, bundle, TypeOK, StagedWhole, NotYetWritten, TargetsLeft,
                  NamesUnique, Removing, Whole, Uncopied
    <2>2. UNCHANGED BundleSurvives
      BY <1>1 DEF vars, capture, bundle, BundleSurvives, Survivor, Succeeded, Removing,
                  Whole, Uncopied
    <2>. QED BY <2>1, <2>2 DEF ReplayInv
  <1>2. CASE CaptureNext BY <1>2, CaptureKeeps
  <1>3. ASSUME NEW n \in Exports, ExportNext(n) PROVE ReplayInv'
    BY <1>3, BeginKeeps, ListEventsKeeps, ListArtifactsKeeps, CopyKeeps, RefuseKeeps,
       WriteManifestKeeps, StaleBackupKeeps, RemoveEntryKeeps, RemoveDirectoryKeeps,
       MoveAsideKeeps, PromoteKeeps, RestoreKeeps, RemoveBackupKeeps DEF ExportNext
  <1>4. ASSUME NEW n \in Exports, Fault(n) \/ Crash(n) PROVE ReplayInv'
    BY <1>4, FaultKeeps, CrashKeeps
  <1>. QED BY <1>1, <1>2, <1>3, <1>4 DEF Next

\* For any number of artifacts and of exports at a time, whatever errors and
\* crashes: once the manifest of an export is written, a whole bundle of the run
\* survives, staged or at `portable`.
THEOREM BundleNeverLost == Spec => []ReplayInv
  <1>1. ReplayInv /\ [Next]_vars => ReplayInv' BY ReplayInductive
  <1>. QED BY <1>1, ReplayInitially, PTL DEF Spec

-----------------------------------------------------------------------------
(* A manifest has the artifact of every event it has: the row of a capture *)
(* comes before its event, and an export lists events before artifacts.    *)

ExportedIds == {r.id : r \in {s \in artifacts : s.run = "exported"}}

\* Rows are never deleted, so what the events named when they were listed is still there
\* when the artifacts are.
BackedInv ==
  /\ ReplayInv
  /\ events \subseteq ExportedIds
  /\ \A n \in Exports : seen[n] \subseteq ExportedIds
  /\ \A n \in Exports : manifest[n] \/ pc[n] = "copy" => seen[n] \subseteq {r.id : r \in listed[n]}

\* A step that leaves the listings alone and gives no directory a manifest.
LEMMA BackedUnlisted ==
  ASSUME BackedInv, ReplayInv', UNCHANGED <<artifacts, events, seen, listed>>,
         \A n \in Exports : manifest'[n] \/ pc'[n] = "copy" => manifest[n] \/ pc[n] = "copy"
  PROVE  BackedInv'
  BY DEF BackedInv, ExportedIds

\* Every step keeps what the listings have.
LEMMA BackedInductive == ASSUME BackedInv, [Next]_vars PROVE BackedInv'
  <1>0. ReplayInv /\ ReplayInv' /\ TypeOK BY ReplayInductive DEF BackedInv, ReplayInv
  <1>1. CASE UNCHANGED vars BY <1>0, <1>1, BackedUnlisted DEF vars, capture, bundle
  <1>2. CASE CaptureNext
    <2>1. UNCHANGED <<pc, seen, listed, manifest>> /\ artifacts \subseteq artifacts'
      BY <1>2 DEF CaptureNext, WriteArtifact, UpsertArtifact, RecordArtifactEvent, LoseFile, bundle
    <2>2. ExportedIds \subseteq ExportedIds' BY <2>1 DEF ExportedIds
    <2>3. events' \subseteq ExportedIds'
      <3>1. CASE events' = events BY <2>2, <3>1 DEF BackedInv
      <3>2. CASE \E a \in Artifacts : RecordArtifactEvent(a)
        BY <2>2, <3>2 DEF BackedInv, RecordArtifactEvent, ExportedIds
      <3>. QED BY <1>2, <3>1, <3>2 DEF CaptureNext, WriteArtifact, UpsertArtifact, LoseFile
    <2>. QED BY <1>0, <2>1, <2>2, <2>3 DEF BackedInv
  <1>3. ASSUME NEW n \in Exports, ListEvents(n) PROVE BackedInv'
    <2>1. UNCHANGED <<artifacts, events, listed, manifest>> BY <1>3 DEF ListEvents, capture, bundle
    <2>2. seen'[n] = events /\ pc'[n] = "list_artifacts" /\ ~ manifest[n]
      BY <1>0, <1>3 DEF ListEvents, Go, TypeOK, ReplayInv, NotYetWritten, Listing
    <2>3. \A k \in Exports \ {n} : seen'[k] = seen[k] /\ pc'[k] = pc[k]
      BY <1>0, <1>3 DEF ListEvents, Go, TypeOK
    <2>. QED BY <1>0, <2>1, <2>2, <2>3 DEF BackedInv, ExportedIds
  <1>4. ASSUME NEW n \in Exports, ListArtifacts(n) PROVE BackedInv'
    <2>1. UNCHANGED <<artifacts, events, seen, manifest>> BY <1>4 DEF ListArtifacts, capture
    <2>2. listed'[n] = {r \in artifacts : r.run = "exported"}
      BY <1>0, <1>4 DEF ListArtifacts, TypeOK
    <2>3. \A k \in Exports \ {n} : listed'[k] = listed[k] /\ pc'[k] = pc[k]
      BY <1>0, <1>4 DEF ListArtifacts, Go, TypeOK
    <2>. QED BY <1>0, <2>1, <2>2, <2>3 DEF BackedInv, ExportedIds
  <1>5. ASSUME NEW n \in Exports, WriteManifest(n) PROVE BackedInv'
    BY <1>0, <1>5, BackedUnlisted DEF WriteManifest, Go, TypeOK, capture
  <1>6. ASSUME NEW n \in Exports, RemoveEntry(n) PROVE BackedInv'
    <2>1. \A k \in Exports : manifest'[k] => manifest[k] BY <1>0, <1>6 DEF RemoveEntry, TypeOK
    <2>. QED BY <1>0, <1>6, <2>1, BackedUnlisted DEF RemoveEntry, capture
  <1>7. ASSUME NEW n \in Exports, NEW r, CopyArtifact(n, r) \/ RefuseArtifact(n, r) PROVE BackedInv'
    BY <1>0, <1>7, BackedUnlisted DEF CopyArtifact, RefuseArtifact, End, Go, TypeOK, capture
  <1>8. ASSUME NEW n \in Exports, ReplayExport(n) PROVE BackedInv'
    BY <1>0, <1>8, BackedUnlisted DEF ReplayExport, Go, TypeOK, capture, bundle
  <1>9. ASSUME NEW n \in Exports, StaleBackup(n) \/ RemoveBackup(n) \/ RemoveDirectory(n) PROVE BackedInv'
    <2>1. UNCHANGED <<artifacts, events, seen, listed, manifest>>
      BY <1>9 DEF StaleBackup, RemoveBackup, RemoveDirectory, capture, bundle
    <2>2. \A k \in Exports : pc'[k] = "copy" => pc[k] = "copy"
      <3>1. \E label \in {"move_aside", "remove_stale", "remove_backup", "ended"} : pc' = [pc EXCEPT ![n] = label]
        BY <1>9 DEF StaleBackup, RemoveBackup, RemoveDirectory, End, Go
      <3>. QED BY <1>0, <3>1 DEF TypeOK
    <2>. QED BY <1>0, <2>1, <2>2, BackedUnlisted
  <1>10. ASSUME NEW n \in Exports, MoveAside(n) \/ Promote(n) \/ Restore(n) PROVE BackedInv'
    BY <1>0, <1>10, BackedUnlisted DEF MoveAside, Promote, Restore, End, Go, TypeOK, capture
  <1>11. ASSUME NEW n \in Exports, Fault(n) \/ Crash(n) PROVE BackedInv'
    <2>1. UNCHANGED <<artifacts, events, seen, listed, manifest>> BY <1>11 DEF Fault, Crash, capture, bundle
    <2>2. \A k \in Exports : pc'[k] = "copy" => pc[k] = "copy"
      <3>1. \E label \in {"restore", "ended"} : pc' = [pc EXCEPT ![n] = label]
        BY <1>11 DEF Fault, Crash, End, Go
      <3>. QED BY <1>0, <3>1 DEF TypeOK
    <2>. QED BY <1>0, <2>1, <2>2, BackedUnlisted
  <1>. QED BY <1>1, <1>2, <1>3, <1>4, <1>5, <1>6, <1>7, <1>8, <1>9, <1>10, <1>11 DEF Next, ExportNext

\* The manifest of an export, whenever captures go on and however many exports run, has
\* the artifact of every event it has (replay_export lists events, then artifacts).
THEOREM ManifestBacksEvents == Spec => []EventsBacked
  <1>1. Init => BackedInv
    BY ReplayInitially DEF Init, BackedInv
  <1>2. BackedInv /\ [Next]_vars => BackedInv' BY BackedInductive
  <1>3. BackedInv => EventsBacked BY DEF BackedInv, EventsBacked
  <1>. QED BY <1>1, <1>2, <1>3, PTL DEF Spec

-----------------------------------------------------------------------------
(* One export after the other.                                             *)

OneRunning == \A n, k \in Running : n = k

\* What an export that is alone knows of the other directories at each step.
AloneAt(n) ==
  /\ Removing(n) => place[target[n]] = "previous"
  /\ pc[n] = "move_aside" => At("previous") = {}
  /\ pc[n] \in {"promote", "restore"} => At("portable") = {} /\ \A k \in At("previous") : Whole(k)
  /\ pc[n] = "restore" => faults >= 1 /\ cause[n] # "none"
  /\ pc[n] \in Promoted => At("portable") # {}

\* After a success the bundle stands at `portable`, or an export is between the renames,
\* unless there was a second error or a crash.
Kept ==
  faults <= 1 /\ crashes = 0 /\ (\E n \in Exports : Succeeded(n)) =>
    \/ At("portable") # {}
    \/ At("previous") # {} /\ \E n \in Exports : pc[n] \in {"promote", "restore"}

Alone ==
  /\ OneRunning
  /\ \A n \in At("portable") : Whole(n)
  /\ \A n \in Exports : AloneAt(n) /\ cause[n] # "conflict"
  /\ Kept

AloneInv == ReplayInv /\ (~ overlapped => Alone)

\* What a step of export n has to keep: the others are not running, so nothing is said of
\* what they do next.
LEMMA AloneFromOwn ==
  ASSUME ReplayInv', Alone, OneRunning', NEW n \in Exports, n \in Running \/ n \in Running',
         \A k \in Exports \ {n} : pc'[k] = pc[k] /\ cause'[k] = cause[k],
         \A k \in At("portable")' : Whole(k)', AloneAt(n)', cause'[n] # "conflict", Kept'
  PROVE  Alone'
  <1> SUFFICES ASSUME NEW k \in Exports, k # n PROVE AloneAt(k)' /\ cause'[k] # "conflict"
    BY DEF Alone
  <1>1. cause'[k] # "conflict" BY DEF Alone
  <1>2. k \notin Running' BY DEF Alone, OneRunning, Running
  <1>3. pc'[k] \in {"unused", "ended"} BY <1>2 DEF Running
  <1>4. AloneAt(k)' BY <1>3 DEF AloneAt, Removing, Promoted
  <1>. QED BY <1>1, <1>4

\* A step of the running export n that moves no directory to or from the names and
\* removes no file.
LEMMA AloneQuiet ==
  ASSUME ReplayInv, ReplayInv', Alone, OneRunning', NEW n \in Exports, n \in Running \/ n \in Running',
         \A k \in Exports \ {n} : pc'[k] = pc[k] /\ cause'[k] = cause[k],
         \A k \in Exports : place'[k] # place[k] => place[k] \notin {"portable", "previous"}
                                                 /\ place'[k] \notin {"portable", "previous"},
         \A k \in Exports : place[k] \in {"portable", "previous"} /\ Whole(k) => Whole(k)',
         AloneAt(n)', cause'[n] # "conflict", faults' >= faults, crashes' >= crashes,
         Succeeded(n)' => At("portable") # {},
         faults' <= 1 /\ crashes' = 0 =>
           (pc[n] \in {"promote", "restore"} => pc'[n] \in {"promote", "restore"})
  PROVE  Alone'
  <1>1. At("portable")' = At("portable") /\ At("previous")' = At("previous") BY DEF At
  <1>2. \A k \in At("portable")' : Whole(k)' BY <1>1 DEF At, Alone
  <1>3. Kept'
    <2> SUFFICES ASSUME faults' <= 1, crashes' = 0, NEW k \in Exports, Succeeded(k)', At("portable") = {}
                 PROVE  At("previous") # {} /\ \E m \in Exports : pc'[m] \in {"promote", "restore"}
      BY <1>1 DEF Kept
    <2>1. faults \in Nat /\ crashes \in Nat /\ faults' \in Nat /\ crashes' \in Nat BY DEF ReplayInv, TypeOK
    <2>2. k # n /\ Succeeded(k) BY DEF Succeeded
    <2>3. faults <= 1 /\ crashes = 0 BY <2>1
    <2>4. At("previous") # {} /\ \E m \in Exports : pc[m] \in {"promote", "restore"}
      BY <2>2, <2>3 DEF Alone, Kept
    <2>. QED BY <2>4
  <1>. QED BY <1>2, <1>3, AloneFromOwn

\* Listing and copying touch only the staging directory.
LEMMA AloneCopies ==
  ASSUME ReplayInv, ReplayInv', Alone, OneRunning', NEW n \in Exports,
         \/ ReplayExport(n) \/ ListEvents(n) \/ ListArtifacts(n) \/ WriteManifest(n)
         \/ \E r \in listed[n] : CopyArtifact(n, r) \/ RefuseArtifact(n, r)
  PROVE  Alone'
  <1> USE DEF Go, End, capture, bundle
  <1>0. TypeOK /\ faults' = faults /\ crashes' = crashes /\ faults \in Nat /\ crashes \in Nat
    BY DEF ReplayInv, TypeOK, ReplayExport, ListEvents, ListArtifacts, WriteManifest, CopyArtifact, RefuseArtifact
  <1>1. /\ pc[n] \in Listing \cup {"copy"}
        /\ place[n] \in {"nowhere", "staging"} /\ ~ manifest[n]
    BY DEF ReplayInv, NotYetWritten, Listing, ReplayExport, ListEvents, ListArtifacts, WriteManifest,
           CopyArtifact, RefuseArtifact
  <1>2. /\ pc'[n] \in {"list_events", "list_artifacts", "copy", "stale_backup", "ended"}
        /\ pc'[n] = "ended" => pc[n] = "copy" /\ cause'[n] = "source"
        /\ cause'[n] \in {cause[n], "source"}
        /\ \A k \in Exports \ {n} : pc'[k] = pc[k] /\ cause'[k] = cause[k]
    <2>1. CASE ReplayExport(n) BY <1>0, <2>1 DEF TypeOK, ReplayExport
    <2>2. CASE ListEvents(n) BY <1>0, <2>2 DEF TypeOK, ListEvents
    <2>3. CASE ListArtifacts(n) BY <1>0, <2>3 DEF TypeOK, ListArtifacts
    <2>4. CASE WriteManifest(n) BY <1>0, <2>4 DEF TypeOK, WriteManifest
    <2>5. CASE \E r \in listed[n] : CopyArtifact(n, r) BY <1>0, <2>5 DEF TypeOK, CopyArtifact
    <2>6. CASE \E r \in listed[n] : RefuseArtifact(n, r) BY <1>0, <2>6 DEF TypeOK, RefuseArtifact
    <2>. QED BY <2>1, <2>2, <2>3, <2>4, <2>5, <2>6
  <1>3. n \in Running \/ n \in Running'
    BY <1>1, <1>2 DEF Running, Listing
  <1>4. \A k \in Exports \ {n} : /\ place'[k] = place[k] /\ files'[k] = files[k]
                                 /\ manifest'[k] = manifest[k] /\ listed'[k] = listed[k]
    <2>1. CASE ReplayExport(n) BY <1>0, <2>1 DEF TypeOK, ReplayExport
    <2>2. CASE ListEvents(n) BY <1>0, <2>2 DEF TypeOK, ListEvents
    <2>3. CASE ListArtifacts(n) BY <1>0, <2>3 DEF TypeOK, ListArtifacts
    <2>4. CASE WriteManifest(n) BY <1>0, <2>4 DEF TypeOK, WriteManifest
    <2>5. CASE \E r \in listed[n] : CopyArtifact(n, r) BY <1>0, <2>5 DEF TypeOK, CopyArtifact
    <2>6. CASE \E r \in listed[n] : RefuseArtifact(n, r)
      <3>1. /\ place' = place \/ place' = [place EXCEPT ![n] = "nowhere"]
            /\ UNCHANGED <<files, manifest, listed>>
        BY <2>6 DEF RefuseArtifact
      <3>. QED BY <1>0, <3>1 DEF TypeOK
    <2>. QED BY <2>1, <2>2, <2>3, <2>4, <2>5, <2>6
  <1>5. place'[n] \in {"nowhere", "staging"}
    <2>1. CASE ReplayExport(n) BY <1>0, <1>1, <2>1 DEF TypeOK, ReplayExport
    <2>2. CASE ListEvents(n) BY <1>0, <1>1, <2>2 DEF TypeOK, ListEvents
    <2>3. CASE ListArtifacts(n) BY <1>0, <1>1, <2>3 DEF TypeOK, ListArtifacts
    <2>4. CASE WriteManifest(n) BY <1>0, <1>1, <2>4 DEF TypeOK, WriteManifest
    <2>5. CASE \E r \in listed[n] : CopyArtifact(n, r) BY <1>0, <1>1, <2>5 DEF TypeOK, CopyArtifact
    <2>6. CASE \E r \in listed[n] : RefuseArtifact(n, r)
      <3>1. /\ place' = place \/ place' = [place EXCEPT ![n] = "nowhere"]
            /\ UNCHANGED <<files, manifest, listed>>
        BY <2>6 DEF RefuseArtifact
      <3>. QED BY <1>0, <1>1, <3>1 DEF TypeOK
    <2>. QED BY <2>1, <2>2, <2>3, <2>4, <2>5, <2>6
  <1>6. \A k \in Exports : place[k] \in {"portable", "previous"} /\ Whole(k) => Whole(k)'
    BY <1>1, <1>4 DEF Whole, Uncopied
  <1>7. AloneAt(n)' BY <1>2 DEF AloneAt, Removing, Promoted
  <1>8. cause'[n] # "conflict" BY <1>2 DEF Alone
  <1>9. ~ Succeeded(n)' BY <1>2 DEF Succeeded
  <1>. QED BY <1>0, <1>1, <1>2, <1>3, <1>4, <1>5, <1>6, <1>7, <1>8, <1>9, AloneQuiet DEF Listing

\* A stale backup, or the one this export made, is removed.
LEMMA AloneRemoves ==
  ASSUME ReplayInv, ReplayInv', Alone, OneRunning', NEW n \in Exports,
         StaleBackup(n) \/ RemoveEntry(n) \/ RemoveDirectory(n) \/ RemoveBackup(n)
  PROVE  Alone'
  <1> USE DEF Go, End, capture, bundle
  <1>0. TypeOK /\ NamesUnique /\ AloneAt(n) /\ cause[n] # "conflict" BY DEF ReplayInv, Alone
  <1>1. CASE StaleBackup(n) \/ RemoveBackup(n)
    <2>1. UNCHANGED <<cause, listed, place, files, manifest, faults, crashes>> /\ n \in Running
      BY <1>1 DEF StaleBackup, RemoveBackup, Running
    <2>2. /\ \A k \in Exports \ {n} : pc'[k] = pc[k]
          /\ \/ pc[n] = "stale_backup" /\ pc'[n] = "move_aside" /\ At("previous") = {}
             \/ pc[n] = "stale_backup" /\ pc'[n] = "remove_stale" /\ target'[n] \in At("previous")
             \/ pc[n] = "backup" /\ pc'[n] = "ended"
             \/ pc[n] = "backup" /\ pc'[n] = "remove_backup" /\ target'[n] \in At("previous")
      BY <1>0, <1>1 DEF TypeOK, StaleBackup, RemoveBackup
    <2>3. At("previous")' = At("previous") /\ At("portable")' = At("portable") BY <2>1 DEF At
    <2>4. pc[n] = "backup" => At("portable") # {} BY <1>0 DEF AloneAt, Promoted
    <2>5. AloneAt(n)' BY <2>1, <2>2, <2>3, <2>4 DEF AloneAt, Removing, Promoted, At
    <2>6. Succeeded(n)' => At("portable") # {} BY <2>2, <2>4 DEF Succeeded
    <2>7. faults' >= faults /\ crashes' >= crashes BY <1>0, <2>1 DEF TypeOK
    <2>8. \A k \in Exports : Whole(k) => Whole(k)' BY <2>1 DEF Whole, Uncopied
    <2>. QED BY <1>0, <2>1, <2>2, <2>5, <2>6, <2>7, <2>8, AloneQuiet
  <1>2. CASE RemoveEntry(n) \/ RemoveDirectory(n)
    <2>1. Removing(n) /\ n \in Running BY <1>2 DEF RemoveEntry, RemoveDirectory, Running, Removing
    <2> DEFINE t == target[n]
    <2>2. t \in Exports /\ place[t] = "previous"
      BY <1>0, <2>1 DEF ReplayInv, TargetsLeft, AloneAt
    <2>3. At("previous") = {t} BY <1>0, <2>2 DEF NamesUnique, At
    <2>4. faults' = faults /\ crashes' = crashes /\ target' = target /\ listed' = listed
      BY <1>2 DEF RemoveEntry, RemoveDirectory
    <2>5. \A k \in Exports \ {t} : place'[k] = place[k] /\ files'[k] = files[k] /\ manifest'[k] = manifest[k]
      <3>1. CASE RemoveEntry(n) BY <1>0, <2>2, <3>1 DEF TypeOK, RemoveEntry
      <3>2. CASE RemoveDirectory(n)
        <4>1. UNCHANGED <<files, manifest>> /\ (place' = place \/ place' = [place EXCEPT ![t] = "nowhere"])
          BY <3>2 DEF RemoveDirectory
        <4>. QED BY <1>0, <4>1 DEF TypeOK
      <3>. QED BY <1>2, <3>1, <3>2
    <2>6. /\ cause' = cause /\ \A k \in Exports \ {n} : pc'[k] = pc[k]
          /\ \/ pc'[n] = pc[n] /\ place'[t] = "previous"
             \/ pc[n] = "remove_stale" /\ pc'[n] = "move_aside" /\ place'[t] = "nowhere"
             \/ pc[n] = "remove_backup" /\ pc'[n] = "ended" /\ place'[t] = "nowhere"
      <3>1. CASE RemoveEntry(n) BY <1>0, <2>2, <3>1 DEF TypeOK, RemoveEntry
      <3>2. CASE RemoveDirectory(n) BY <1>0, <2>1, <2>2, <3>2 DEF TypeOK, RemoveDirectory, Removing
      <3>. QED BY <1>2, <3>1, <3>2
    <2> HIDE DEF t
    <2>7. At("portable")' = At("portable") /\ (place'[t] = "nowhere" => At("previous")' = {})
      BY <2>2, <2>3, <2>5, <2>6 DEF At
    <2>8. \A k \in At("portable")' : Whole(k)'
      BY <2>2, <2>4, <2>5, <2>7 DEF Alone, Whole, Uncopied, At
    <2>9. pc[n] = "remove_backup" => At("portable") # {} BY <1>0 DEF AloneAt, Promoted
    <2>10. AloneAt(n)' BY <2>1, <2>4, <2>6, <2>7, <2>9 DEF AloneAt, Removing, Promoted, t
    <2>11. Kept'
      <3> SUFFICES ASSUME faults <= 1, crashes = 0, NEW k \in Exports, Succeeded(k)'
                   PROVE  At("portable") # {}
        BY <2>4, <2>7 DEF Kept
      <3>1. CASE k = n BY <2>1, <2>6, <2>9, <3>1 DEF Succeeded, Removing
      <3>2. CASE k # n
        <4>1. Succeeded(k) BY <2>6, <3>2 DEF Succeeded
        <4>2. \A m \in Exports : pc[m] \notin {"promote", "restore"}
          BY <2>1 DEF Alone, OneRunning, Running, Removing
        <4>. QED BY <4>1, <4>2 DEF Alone, Kept
      <3>. QED BY <3>1, <3>2
    <2>. QED BY <1>0, <2>1, <2>6, <2>8, <2>10, <2>11, AloneFromOwn
  <1>. QED BY <1>1, <1>2

\* Between the renames: the bundle at `portable` is aside, whole, and comes back unless
\* the staged one takes its place.
LEMMA AloneRenames ==
  ASSUME ReplayInv, ReplayInv', Alone, OneRunning', NEW n \in Exports,
         MoveAside(n) \/ Promote(n) \/ Restore(n)
  PROVE  Alone'
  <1> USE DEF Go, End, capture, bundle
  <1>0. TypeOK /\ NamesUnique /\ AloneAt(n) /\ cause[n] # "conflict" BY DEF ReplayInv, Alone
  <1>1. /\ faults' = faults /\ crashes' = crashes /\ listed' = listed /\ files' = files /\ manifest' = manifest
        /\ faults \in Nat /\ crashes \in Nat
    BY <1>0 DEF TypeOK, MoveAside, Promote, Restore
  <1>2. n \in Running /\ place[n] = "staging" /\ Whole(n)
    BY DEF MoveAside, Promote, Restore, Running, ReplayInv, StagedWhole, Promoting
  <1>3. \A k \in Exports : Whole(k)' = Whole(k) BY <1>1 DEF Whole, Uncopied
  <1>4. \A k \in Exports \ {n} : pc'[k] = pc[k] /\ cause'[k] = cause[k]
    BY <1>0 DEF TypeOK, MoveAside, Promote, Restore
  <1>5. \A k \in Exports \ {n} : pc[k] \notin {"promote", "restore"}
    BY <1>2 DEF Alone, OneRunning, Running
  <1>6. CASE MoveAside(n)
    <2>1. pc[n] = "move_aside" /\ At("previous") = {} BY <1>0, <1>6 DEF MoveAside, AloneAt
    <2>2. pc'[n] = "promote" /\ cause' = cause BY <1>0, <1>6, <2>1 DEF MoveAside, Blocked, TypeOK
    <2>3. CASE At("portable") = {}
      <3>1. place' = place BY <1>6, <2>3 DEF MoveAside
      <3>2. At("portable")' = {} /\ At("previous")' = {} BY <2>1, <2>3, <3>1 DEF At
      <3>3. AloneAt(n)' BY <2>2, <3>2 DEF AloneAt, Removing, Promoted
      <3>4. Kept'
        <4> SUFFICES ASSUME faults <= 1, crashes = 0, NEW k \in Exports, Succeeded(k)' PROVE FALSE
          BY <1>1 DEF Kept
        <4>1. Succeeded(k) BY <1>4, <2>2 DEF Succeeded
        <4>. QED BY <2>1, <2>3, <4>1 DEF Alone, Kept
      <3>. QED BY <1>0, <1>2, <1>4, <2>2, <3>2, <3>3, <3>4, AloneFromOwn
    <2>4. CASE At("portable") # {}
      <3>1. PICK k \in At("portable") : Free("previous") /\ place' = Renamed(k, "previous")
        BY <1>6, <2>1, <2>4 DEF MoveAside, Blocked
      <3>2. k \in Exports /\ place[k] = "portable" /\ Whole(k) BY DEF At, Alone
      <3>3. /\ place'[k] = "previous"
            /\ \A i \in Exports \ {k} : place'[i] = place[i] \/ place'[i] = "nowhere"
        BY <1>0, <3>1, <3>2, RenamedPlaces
      <3>4. At("previous")' = {k} BY <2>1, <3>2, <3>3 DEF At
      <3>5. At("portable")' = {} BY <1>0, <3>2, <3>3 DEF At, NamesUnique
      <3>6. AloneAt(n)' BY <1>3, <2>2, <3>2, <3>4, <3>5 DEF AloneAt, Removing, Promoted
      <3>7. Kept' BY <2>2, <3>4 DEF Kept
      <3>. QED BY <1>0, <1>2, <1>4, <2>2, <3>5, <3>6, <3>7, AloneFromOwn
    <2>. QED BY <2>3, <2>4
  <1>7. CASE Promote(n)
    <2>1. pc[n] = "promote" /\ At("portable") = {} BY <1>0, <1>7 DEF Promote, AloneAt
    <2>2. /\ pc'[n] = "backup" /\ cause' = cause
          /\ Free("portable") /\ place' = Renamed(n, "portable")
      BY <1>0, <1>7, <2>1 DEF Promote, Blocked, TypeOK
    <2>3. /\ place'[n] = "portable"
          /\ \A i \in Exports \ {n} : place'[i] = place[i] \/ place'[i] = "nowhere"
      BY <1>0, <2>2, RenamedPlaces
    <2>4. At("portable")' = {n} BY <2>1, <2>3 DEF At
    <2>5. AloneAt(n)' BY <2>2, <2>4 DEF AloneAt, Removing, Promoted
    <2>6. Kept' BY <2>4 DEF Kept
    <2>7. \A k \in At("portable")' : Whole(k)' BY <1>2, <1>3, <2>4
    <2>. QED BY <1>0, <1>2, <1>4, <2>2, <2>5, <2>6, <2>7, AloneFromOwn
  <1>8. CASE Restore(n)
    <2>1. /\ pc[n] = "restore" /\ At("portable") = {} /\ cause[n] # "none"
          /\ \A k \in At("previous") : Whole(k)
      BY <1>0, <1>8 DEF Restore, AloneAt
    <2>2. pc'[n] = "ended" /\ cause' = cause BY <1>0, <1>8 DEF Restore, TypeOK
    <2>3. AloneAt(n)' BY <2>2 DEF AloneAt, Removing, Promoted
    <2>4. ~ Succeeded(n)' BY <2>1, <2>2 DEF Succeeded
    <2>5. CASE At("previous") = {}
      <3>1. place' = place BY <1>8, <2>5 DEF Restore
      <3>2. At("portable")' = {} BY <2>1, <3>1 DEF At
      <3>3. Kept'
        <4> SUFFICES ASSUME faults <= 1, crashes = 0, NEW k \in Exports, Succeeded(k)' PROVE FALSE
          BY <1>1 DEF Kept
        <4>1. Succeeded(k) BY <1>4, <2>4 DEF Succeeded
        <4>. QED BY <2>1, <2>5, <4>1 DEF Alone, Kept
      <3>. QED BY <1>0, <1>2, <1>4, <2>2, <2>3, <3>2, <3>3, AloneFromOwn
    <2>6. CASE At("previous") # {}
      <3>1. PICK k \in At("previous") : Free("portable") /\ place' = Renamed(k, "portable")
        BY <1>8, <2>1, <2>6 DEF Restore, Blocked
      <3>2. k \in Exports /\ Whole(k) BY <2>1 DEF At
      <3>3. /\ place'[k] = "portable"
            /\ \A i \in Exports \ {k} : place'[i] = place[i] \/ place'[i] = "nowhere"
        BY <1>0, <3>1, <3>2, RenamedPlaces
      <3>4. At("portable")' = {k} BY <2>1, <3>2, <3>3 DEF At
      <3>5. Kept' BY <3>4 DEF Kept
      <3>6. \A i \in At("portable")' : Whole(i)' BY <1>3, <3>2, <3>4
      <3>. QED BY <1>0, <1>2, <1>4, <2>2, <2>3, <3>5, <3>6, AloneFromOwn
    <2>. QED BY <2>5, <2>6
  <1>. QED BY <1>6, <1>7, <1>8

\* An error sends an export between the renames to the restore, and only a second error
\* takes it from there.
LEMMA AloneFails ==
  ASSUME ReplayInv, ReplayInv', Alone, OneRunning', NEW n \in Exports, Fault(n) \/ Crash(n)
  PROVE  Alone'
  <1> USE DEF Go, End, capture, bundle
  <1>0. TypeOK /\ AloneAt(n) /\ faults \in Nat /\ crashes \in Nat BY DEF ReplayInv, Alone, TypeOK
  <1>1. n \in Running /\ UNCHANGED <<listed, place, files, manifest, target>>
    BY DEF Fault, Crash
  <1>2. \A k \in Exports \ {n} : pc'[k] = pc[k] /\ cause'[k] = cause[k]
    BY <1>0 DEF TypeOK, Fault, Crash
  <1>3. /\ cause'[n] \in {"io", "crash"} /\ faults' >= faults /\ crashes' >= crashes
        /\ \/ pc'[n] = "ended" \/ (pc[n] = "promote" /\ pc'[n] = "restore" /\ faults' >= 1)
        /\ crashes' = 0 => faults' = faults + 1 /\ (pc[n] = "promote" => pc'[n] = "restore")
    <2>1. CASE Fault(n)
      <3>1. faults' = faults + 1 /\ crashes' = crashes BY <2>1 DEF Fault
      <3>2. cause'[n] = "io" /\ pc'[n] = IF pc[n] = "promote" THEN "restore" ELSE "ended"
        BY <1>0, <2>1 DEF TypeOK, Fault
      <3>. QED BY <1>0, <3>1, <3>2
    <2>2. CASE Crash(n)
      <3>1. faults' = faults /\ crashes' = crashes + 1 BY <2>2 DEF Crash
      <3>2. cause'[n] = "crash" /\ pc'[n] = "ended" BY <1>0, <2>2 DEF TypeOK, Crash
      <3>. QED BY <1>0, <3>1, <3>2
    <2>. QED BY <2>1, <2>2
  <1>4. \A k \in Exports : Whole(k)' = Whole(k) BY <1>1 DEF Whole, Uncopied
  <1>5. At("previous")' = At("previous") /\ At("portable")' = At("portable") BY <1>1 DEF At
  <1>6. AloneAt(n)'
    <2>1. CASE pc'[n] = "ended" BY <2>1 DEF AloneAt, Removing, Promoted
    <2>2. CASE pc[n] = "promote" /\ pc'[n] = "restore" /\ faults' >= 1
      <3>1. At("portable") = {} /\ \A k \in At("previous") : Whole(k) BY <1>0, <2>2 DEF AloneAt
      <3>2. \A k \in At("previous")' : Whole(k)' BY <1>4, <1>5, <3>1 DEF At
      <3>. QED BY <1>3, <1>5, <2>2, <3>1, <3>2 DEF AloneAt, Removing, Promoted
    <2>. QED BY <1>3, <2>1, <2>2
  <1>7. faults' <= 1 /\ crashes' = 0 /\ pc[n] \in {"promote", "restore"} => pc'[n] = "restore"
    <2>1. pc[n] = "restore" => faults >= 1 BY <1>0 DEF AloneAt
    <2>. QED BY <1>0, <1>3, <2>1
  <1>8. ~ Succeeded(n)' /\ cause'[n] # "conflict" BY <1>3 DEF Succeeded
  <1>. QED BY <1>1, <1>2, <1>3, <1>4, <1>6, <1>7, <1>8, AloneQuiet

\* Captures do not touch the exports.
LEMMA AloneCaptures ==
  ASSUME Alone, UNCHANGED <<pc, cause, listed, place, files, manifest, target, faults, crashes>>
  PROVE  Alone'
  BY DEF Alone, OneRunning, Running, At, Whole, Uncopied, AloneAt, Removing, Kept, Succeeded

LEMMA AloneInductive == ASSUME AloneInv, [Next]_vars PROVE AloneInv'
  <1>0. ReplayInv /\ ReplayInv' BY ReplayInductive DEF AloneInv
  <1> SUFFICES ASSUME ~ overlapped' PROVE Alone' BY <1>0 DEF AloneInv
  <1>1. ~ overlapped BY DEF Next, vars
  <1>2. Alone BY <1>1 DEF AloneInv
  <1>3. CASE UNCHANGED vars BY <1>2, <1>3, AloneCaptures DEF vars, bundle
  <1>4. CASE Next
    <2>1. OneRunning' BY <1>4 DEF Next, OneRunning
    <2>2. CASE CaptureNext
      <3>1. UNCHANGED <<pc, cause, listed, place, files, manifest, target, faults, crashes>>
        BY <2>2 DEF CaptureNext, WriteArtifact, UpsertArtifact, RecordArtifactEvent, LoseFile, bundle
      <3>. QED BY <1>2, <3>1, AloneCaptures
    <2>3. ASSUME NEW n \in Exports, ExportNext(n) PROVE Alone'
      BY <1>0, <1>2, <2>1, <2>3, AloneCopies, AloneRemoves, AloneRenames DEF ExportNext
    <2>4. ASSUME NEW n \in Exports, Fault(n) \/ Crash(n) PROVE Alone'
      BY <1>0, <1>2, <2>1, <2>4, AloneFails
    <2>. QED BY <1>4, <2>2, <2>3, <2>4 DEF Next
  <1>. QED BY <1>3, <1>4

\* Exports of a run that come one after the other, for any number of artifacts, exports,
\* errors and crashes: what stands at `portable` is whole at every moment, one I/O error
\* never takes it away, and debris never makes a later export fail
\* (promote_portable_bundle, write_portable_replay).
THEOREM ExportAloneKeepsBundle == Spec => []AloneKeepsBundle
  <1>1. Init => AloneInv
    <2> SUFFICES ASSUME Init PROVE AloneInv OBVIOUS
    <2>1. ReplayInv BY ReplayInitially
    <2>2. /\ \A n \in Exports : pc[n] = "unused" /\ place[n] = "nowhere" /\ cause[n] = "none"
      BY DEF Init
    <2>3. Running = {} /\ At("portable") = {} BY <2>2 DEF Running, At
    <2>4. \A n \in Exports : AloneAt(n) BY <2>2 DEF AloneAt, Removing, Promoted
    <2>5. Kept BY <2>2 DEF Kept, Succeeded
    <2>. QED BY <2>1, <2>2, <2>3, <2>4, <2>5 DEF AloneInv, Alone, OneRunning
  <1>2. AloneInv /\ [Next]_vars => AloneInv' BY AloneInductive
  <1>3. AloneInv => AloneKeepsBundle
    <2> SUFFICES ASSUME AloneInv PROVE AloneKeepsBundle OBVIOUS
    <2>1. PortableWhole
      <3> SUFFICES ASSUME ~ overlapped, NEW n \in At("portable") PROVE manifest[n] /\ MissingFiles(n) = {}
        BY DEF PortableWhole, StagedAtomically
      <3>1. Whole(n) BY DEF AloneInv, Alone
      <3>. QED BY <3>1 DEF Whole, Uncopied, MissingFiles
    <2>2. OneErrorKeepsBundle
      <3> SUFFICES ASSUME faults <= 1, crashes = 0, ~ overlapped, Running = {}, \E n \in Exports : Succeeded(n)
                   PROVE  \E n \in At("portable") : Whole(n)
        BY DEF OneErrorKeepsBundle
      <3>1. Alone BY DEF AloneInv
      <3>2. \A n \in Exports : pc[n] \notin {"promote", "restore"} BY DEF Running
      <3>3. At("portable") # {} BY <3>1, <3>2 DEF Alone, Kept
      <3>. QED BY <3>1, <3>3 DEF Alone
    <2>3. DebrisNeverBlocks BY DEF AloneInv, Alone, DebrisNeverBlocks
    <2>. QED BY <2>1, <2>2, <2>3 DEF AloneKeepsBundle
  <1>. QED BY <1>1, <1>2, <1>3, PTL DEF Spec

=============================================================================
