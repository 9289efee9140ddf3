---------------------------- MODULE ReplayBundle ----------------------------
(***************************************************************************)
(* replay_export in portable mode: exports of one capture run while        *)
(* captures go on, source files are lost, I/O fails and processes die.     *)
(*                                                                         *)
(* An export lists the events and then the artifacts of the run, copies    *)
(* every artifact into a staging directory of its own, writes the manifest *)
(* there and promotes the directory: the old bundle at `portable` is moved *)
(* to `portable.previous`, the staging directory is renamed to `portable`, *)
(* the old bundle is removed.  Nothing locks the run's replay directory.   *)
(*                                                                         *)
(* A directory is named by the export that filled it, and `place` says     *)
(* where it is: remove_dir_all empties the directory it has opened, also   *)
(* when another process renames that directory meanwhile.  A staging name  *)
(* holds a timestamp and is never used twice.                              *)
(***************************************************************************)
EXTENDS Naturals, FiniteSets

CONSTANTS
  Artifacts,      \* artifact ids
  MaxExports,     \* bound: exports ever begun
  MaxConcurrent,  \* exports of the run in progress at a time
  MaxFaults,      \* bound: I/O errors
  MaxCrashes      \* bound: processes that die during an export

ASSUME ReplayBoundsAssumption ==
  /\ MaxExports \in Nat /\ MaxConcurrent \in Nat
  /\ MaxFaults \in Nat /\ MaxCrashes \in Nat

VARIABLES
  file,       \* artifact -> state of the captured file
  artifacts,  \* rows of the artifacts table
  events,     \* artifacts that an event of the run names
  pc,         \* export -> the step it takes next
  cause,      \* export -> why it ended without success, "none" otherwise
  seen,       \* export -> the artifacts its events name
  listed,     \* export -> the artifact rows it exports
  place,      \* export -> where its directory is
  files,      \* export -> whole artifact copies in its directory
  manifest,   \* export -> whether its directory holds its manifest
  target,     \* export -> the directory it is removing
  faults, crashes,
  overlapped  \* whether two exports of the run were in progress at a time (history)

capture == <<file, artifacts, events>>
bundle == <<place, files, manifest>>
vars == <<capture, pc, cause, seen, listed, bundle, target, faults, crashes, overlapped>>

Exports == 1 .. MaxExports

\* The exported run, and one that artifacts may also belong to.
ArtifactHandle == [id : Artifacts, run : {"exported", "other"}]

Init ==
  /\ file = [a \in Artifacts |-> "unwritten"]
  /\ artifacts = {}
  /\ events = {}
  /\ pc = [n \in Exports |-> "unused"]
  /\ cause = [n \in Exports |-> "none"]
  /\ seen = [n \in Exports |-> {}]
  /\ listed = [n \in Exports |-> {}]
  /\ place = [n \in Exports |-> "nowhere"]
  /\ files = [n \in Exports |-> {}]
  /\ manifest = [n \in Exports |-> FALSE]
  /\ target = [n \in Exports |-> 0]
  /\ faults = 0 /\ crashes = 0 /\ overlapped = FALSE

-----------------------------------------------------------------------------
(* Captures: the file, then the row, then the event.                       *)

WriteArtifact(a) ==
  /\ file[a] = "unwritten"
  /\ file' = [file EXCEPT ![a] = "whole"]
  /\ UNCHANGED <<artifacts, events, pc, cause, seen, listed, bundle, target, faults, crashes>>

\* A capture belongs to the run that its process records.
UpsertArtifact(a, run) ==
  /\ file[a] # "unwritten"
  /\ \A r \in artifacts : r.id # a
  /\ artifacts' = artifacts \cup {[id |-> a, run |-> run]}
  /\ UNCHANGED <<file, events, pc, cause, seen, listed, bundle, target, faults, crashes>>

\* Mutant: the event is appended before the row is stored.
EventBeforeRow(a) ==
  /\ file[a] # "unwritten" /\ a \notin events
  /\ events' = events \cup {a}
  /\ UNCHANGED <<file, artifacts, pc, cause, seen, listed, bundle, target, faults, crashes>>

RecordArtifactEvent(a) ==
  /\ \E r \in artifacts : r.id = a /\ r.run = "exported"
  /\ a \notin events
  /\ events' = events \cup {a}
  /\ UNCHANGED <<file, artifacts, pc, cause, seen, listed, bundle, target, faults, crashes>>

\* Something outside the runtime rewrites or deletes a captured file.
LoseFile(a, state) ==
  /\ file[a] = "whole"
  /\ file' = [file EXCEPT ![a] = state]
  /\ UNCHANGED <<artifacts, events, pc, cause, seen, listed, bundle, target, faults, crashes>>

-----------------------------------------------------------------------------
(* replay_export and write_portable_replay.                                *)

Running == {n \in Exports : pc[n] \notin {"unused", "ended"}}

Go(n, label) == pc' = [pc EXCEPT ![n] = label]
End(n, why) == Go(n, "ended") /\ cause' = [cause EXCEPT ![n] = why]

ReplayExport(n) ==
  /\ pc[n] = "unused"
  /\ \A k \in Exports : k < n => pc[k] # "unused"
  /\ Cardinality(Running) < MaxConcurrent
  /\ Go(n, "list_events")
  /\ UNCHANGED <<capture, cause, seen, listed, bundle, target, faults, crashes>>

ListEvents(n) ==
  /\ pc[n] = "list_events"
  /\ seen' = [seen EXCEPT ![n] = events]
  /\ Go(n, "list_artifacts")
  /\ UNCHANGED <<capture, cause, listed, bundle, target, faults, crashes>>

\* The staging directory is created empty.
ListArtifacts(n) ==
  /\ pc[n] = "list_artifacts"
  /\ listed' = [listed EXCEPT ![n] = {r \in artifacts : r.run = "exported"}]
  /\ place' = [place EXCEPT ![n] = "staging"]
  /\ Go(n, "copy")
  /\ UNCHANGED <<capture, cause, seen, files, manifest, target, faults, crashes>>

Uncopied(n) == {r \in listed[n] : r.id \notin files[n]}

CopyArtifact(n, r) ==
  /\ pc[n] = "copy"
  /\ r \in Uncopied(n)
  /\ file[r.id] = "whole"
  /\ files' = [files EXCEPT ![n] = @ \cup {r.id}]
  /\ UNCHANGED <<capture, pc, cause, seen, listed, place, manifest, target, faults, crashes>>

\* A missing source removes the staging directory, as far as that succeeds; a
\* checksum mismatch leaves it.
RefuseArtifact(n, r) ==
  /\ pc[n] = "copy"
  /\ r \in Uncopied(n)
  /\ \/ file[r.id] = "gone" /\ place' \in {place, [place EXCEPT ![n] = "nowhere"]}
     \/ file[r.id] = "changed" /\ UNCHANGED place
  /\ End(n, "source")
  /\ UNCHANGED <<capture, seen, listed, files, manifest, target, faults, crashes>>

AllCopied(n) == Uncopied(n) = {}

WriteManifest(n) ==
  /\ pc[n] = "copy"
  /\ AllCopied(n)
  /\ manifest' = [manifest EXCEPT ![n] = TRUE]
  /\ Go(n, "stale_backup")
  /\ UNCHANGED <<capture, cause, seen, listed, place, files, target, faults, crashes>>

-----------------------------------------------------------------------------
(* promote_portable_bundle.                                                *)

At(where) == {n \in Exports : place[n] = where}
Emptied(n) == files[n] = {} /\ ~manifest[n]

\* rename(2) of a directory fails on a destination that is not empty and replaces
\* one that is.  An emptied directory may still hold its subdirectories.
Blocked(where) == At(where) # {}
Free(where) == \A k \in At(where) : Emptied(k)
Renamed(n, where) ==
  [k \in Exports |-> IF k = n THEN where
                     ELSE IF place[k] = where THEN "nowhere" ELSE place[k]]

\* Mutant: a stale backup is left alone.
NoStaleCheck(n) ==
  /\ pc[n] = "stale_backup"
  /\ Go(n, "move_aside")
  /\ UNCHANGED <<capture, cause, seen, listed, bundle, target, faults, crashes>>

StaleBackup(n) ==
  /\ pc[n] = "stale_backup"
  /\ \/ /\ At("previous") = {}
        /\ Go(n, "move_aside")
        /\ UNCHANGED target
     \/ \E k \in At("previous") :
          /\ target' = [target EXCEPT ![n] = k]
          /\ Go(n, "remove_stale")
  /\ UNCHANGED <<capture, cause, seen, listed, bundle, faults, crashes>>

Removing(n) == pc[n] \in {"remove_stale", "remove_backup"}

\* remove_dir_all, one directory entry at a time and in any order.
RemoveEntry(n) ==
  /\ Removing(n)
  /\ LET k == target[n]
     IN  \/ /\ \E a \in files[k] : files' = [files EXCEPT ![k] = @ \ {a}]
            /\ UNCHANGED manifest
         \/ /\ manifest[k]
            /\ manifest' = [manifest EXCEPT ![k] = FALSE]
            /\ UNCHANGED files
  /\ UNCHANGED <<capture, pc, cause, seen, listed, place, target, faults, crashes>>

\* The directory itself, by its name: it fails if another export has renamed the
\* directory or removed it before.
RemoveDirectory(n) ==
  /\ Removing(n)
  /\ Emptied(target[n])
  /\ \/ /\ place[target[n]] = "previous"
        /\ place' = [place EXCEPT ![target[n]] = "nowhere"]
        /\ Go(n, IF pc[n] = "remove_stale" THEN "move_aside" ELSE "ended")
        /\ UNCHANGED cause
     \/ /\ place[target[n]] # "previous"
        /\ End(n, "conflict")
        /\ UNCHANGED place
  /\ UNCHANGED <<capture, seen, listed, files, manifest, target, faults, crashes>>

\* Mutant: the old bundle is removed where it stands.
RemoveInPlace(n) ==
  /\ pc[n] = "move_aside"
  /\ \/ /\ At("portable") = {}
        /\ Go(n, "promote")
        /\ UNCHANGED target
     \/ \E k \in At("portable") :
          /\ target' = [target EXCEPT ![n] = k]
          /\ Go(n, "remove_stale")
  /\ UNCHANGED <<capture, cause, seen, listed, bundle, faults, crashes>>

MoveAside(n) ==
  /\ pc[n] = "move_aside"
  /\ \/ /\ At("portable") = {}
        /\ Go(n, "promote")
        /\ UNCHANGED <<cause, place>>
     \/ \E k \in At("portable") :
          /\ Free("previous")
          /\ place' = Renamed(k, "previous")
          /\ Go(n, "promote")
          /\ UNCHANGED cause
     \/ /\ At("portable") # {} /\ Blocked("previous")
        /\ End(n, "conflict")
        /\ UNCHANGED place
  /\ UNCHANGED <<capture, seen, listed, files, manifest, target, faults, crashes>>

Promote(n) ==
  /\ pc[n] = "promote"
  /\ \/ /\ Free("portable")
        /\ place' = Renamed(n, "portable")
        /\ Go(n, "backup")
        /\ UNCHANGED cause
     \/ /\ Blocked("portable")
        /\ cause' = [cause EXCEPT ![n] = "conflict"]
        /\ Go(n, "restore")
        /\ UNCHANGED place
  /\ UNCHANGED <<capture, seen, listed, files, manifest, target, faults, crashes>>

\* Mutant: the backup is not moved back.
NoRestore(n) ==
  /\ pc[n] = "restore"
  /\ Go(n, "ended")
  /\ UNCHANGED <<capture, cause, seen, listed, bundle, target, faults, crashes>>

\* Mutant: a failed promotion also cleans its staging directory up.
RestoreAndDrop(n) ==
  /\ pc[n] = "restore"
  /\ \/ \E k \in At("previous") :
          Free("portable") /\ place' = [Renamed(k, "portable") EXCEPT ![n] = "nowhere"]
     \/ /\ At("previous") = {} \/ Blocked("portable")
        /\ place' = [place EXCEPT ![n] = "nowhere"]
  /\ Go(n, "ended")
  /\ UNCHANGED <<capture, cause, seen, listed, files, manifest, target, faults, crashes>>

\* After a failed rename the backup, whosever it is now, is moved back; whether
\* that succeeds is ignored.
Restore(n) ==
  /\ pc[n] = "restore"
  /\ \/ \E k \in At("previous") : Free("portable") /\ place' = Renamed(k, "portable")
     \/ (At("previous") = {} \/ Blocked("portable")) /\ UNCHANGED place
  /\ Go(n, "ended")
  /\ UNCHANGED <<capture, cause, seen, listed, files, manifest, target, faults, crashes>>

RemoveBackup(n) ==
  /\ pc[n] = "backup"
  /\ \/ /\ At("previous") = {}
        /\ Go(n, "ended")
        /\ UNCHANGED target
     \/ \E k \in At("previous") :
          /\ target' = [target EXCEPT ![n] = k]
          /\ Go(n, "remove_backup")
  /\ UNCHANGED <<capture, cause, seen, listed, bundle, faults, crashes>>

-----------------------------------------------------------------------------
(* Failure.  Losing a race between an exists() and the call that follows it*)
(* has the effect of an I/O error.                                         *)

Fault(n) ==
  /\ n \in Running /\ faults < MaxFaults
  /\ faults' = faults + 1
  /\ IF pc[n] = "promote" THEN Go(n, "restore") ELSE Go(n, "ended")
  /\ cause' = [cause EXCEPT ![n] = "io"]
  /\ UNCHANGED <<capture, seen, listed, bundle, target, crashes>>

Crash(n) ==
  /\ n \in Running /\ crashes < MaxCrashes
  /\ crashes' = crashes + 1
  /\ End(n, "crash")
  /\ UNCHANGED <<capture, seen, listed, bundle, target, faults>>

-----------------------------------------------------------------------------
CaptureNext ==
  \/ \E a \in Artifacts : WriteArtifact(a) \/ RecordArtifactEvent(a)
  \/ \E a \in Artifacts, run \in {"exported", "other"} : UpsertArtifact(a, run)
  \/ \E a \in Artifacts, state \in {"changed", "gone"} : LoseFile(a, state)

ExportNext(n) ==
  \/ ReplayExport(n) \/ ListEvents(n) \/ ListArtifacts(n) \/ WriteManifest(n)
  \/ \E r \in listed[n] : CopyArtifact(n, r) \/ RefuseArtifact(n, r)
  \/ StaleBackup(n) \/ RemoveEntry(n) \/ RemoveDirectory(n)
  \/ MoveAside(n) \/ Promote(n) \/ Restore(n) \/ RemoveBackup(n)

Next ==
  /\ CaptureNext \/ \E n \in Exports : ExportNext(n) \/ Fault(n) \/ Crash(n)
  /\ overlapped' = (overlapped \/ \E n, k \in Running' : n # k)

Spec == Init /\ [][Next]_vars

-----------------------------------------------------------------------------
(* Properties.                                                             *)

\* overlapped is history.
TypeOK ==
  /\ file \in [Artifacts -> {"unwritten", "whole", "changed", "gone"}]
  /\ artifacts \subseteq ArtifactHandle
  /\ events \subseteq Artifacts
  /\ pc \in [Exports -> {"unused", "list_events", "list_artifacts", "copy", "stale_backup",
                         "remove_stale", "move_aside", "promote", "restore", "backup",
                         "remove_backup", "ended"}]
  /\ cause \in [Exports -> {"none", "source", "conflict", "io", "crash"}]
  /\ seen \in [Exports -> SUBSET Artifacts]
  /\ listed \in [Exports -> SUBSET ArtifactHandle]
  /\ place \in [Exports -> {"nowhere", "staging", "portable", "previous"}]
  /\ files \in [Exports -> SUBSET Artifacts]
  /\ manifest \in [Exports -> BOOLEAN]
  /\ target \in [Exports -> Exports \cup {0}]
  /\ faults \in Nat /\ crashes \in Nat

\* validate_replay_manifest_path, for the manifest in the directory of export n:
\* the records are resolved against `portable`, wherever the manifest was found.
MissingFiles(n) == {r \in listed[n] : \A k \in At("portable") : r.id \notin files[k]}

Whole(n) == manifest[n] /\ Uncopied(n) = {}
Succeeded(n) == pc[n] = "ended" /\ cause[n] = "none"

\* "staged_atomically": what stands at `portable` is a bundle with its manifest and every
\* file the manifest records (write_portable_replay writes so into the manifest).
StagedAtomically == \A n \in At("portable") : manifest[n] /\ MissingFiles(n) = {}

\* What stands at `portable` is a bundle with its manifest and every file the
\* manifest records, at every moment of every export, also between the renames and
\* after a crash, as long as one export came after the other.
PortableWhole == ~ overlapped => StagedAtomically

\* One I/O error, wherever it happens in promote_portable_bundle or before, never
\* takes a run's portable bundle away: a failed promotion puts the old one back.
OneErrorKeepsBundle ==
  /\ faults <= 1 /\ crashes = 0 /\ ~ overlapped /\ Running = {}
  /\ \E n \in Exports : Succeeded(n)
  => \E n \in At("portable") : Whole(n)

\* What earlier exports left behind, dying or failing anywhere, never makes a later
\* export fail: unless exports meet, it fails by its own error or by its sources only.
DebrisNeverBlocks == ~ overlapped => \A n \in Exports : cause[n] # "conflict"

\* An export that meets no other one keeps the bundle: whole at every moment, through an
\* I/O error, and past whatever earlier ones left behind.
AloneKeepsBundle == PortableWhole /\ OneErrorKeepsBundle /\ DebrisNeverBlocks

\* A manifest has the artifact of every event it has, although captures go on
\* while replay_export lists the two tables one after the other.
EventsBacked ==
  \A n \in Exports : manifest[n] => seen[n] \subseteq {r.id : r \in listed[n]}

\* Steps of an export before its directory exists, and with its manifest written,
\* before and after the rename to `portable`.
Listing == {"unused", "list_events", "list_artifacts"}
Promoting == {"stale_backup", "remove_stale", "move_aside", "promote", "restore"}
Promoted == {"backup", "remove_backup"}

\* A whole bundle, staged or at `portable`, that nobody is removing.
Survivor(n) ==
  /\ Whole(n)
  /\ place[n] \in {"staging", "portable"}
  /\ \A m \in Exports : Removing(m) => target[m] # n

\* Until it is renamed, the directory being promoted is whole and in its place.
StagedWhole == \A n \in Exports : pc[n] \in Promoting => place[n] = "staging" /\ Whole(n)

NotYetWritten ==
  \A n \in Exports :
    /\ pc[n] \in Listing => place[n] = "nowhere" /\ ~manifest[n] /\ files[n] = {}
    /\ pc[n] = "copy" => place[n] = "staging" /\ ~manifest[n]

\* A directory that is being removed has left its staging place before.
TargetsLeft ==
  \A n \in Exports : Removing(n) => /\ target[n] \in Exports
                                    /\ place[target[n]] # "staging"
                                    /\ pc[target[n]] \notin Listing

\* At most one directory stands at a name.
NamesUnique ==
  \A n, k \in Exports : place[n] = place[k] /\ place[n] \in {"portable", "previous"} => n = k

\* Once an export of the run has got its manifest written, a whole bundle survives,
\* whatever concurrent exports, I/O errors and crashes do to it: no step moves the
\* bundle at `portable` away or removes one unless another whole one is staged.
BundleSurvives ==
  (\E n \in Exports : pc[n] \in Promoting \cup Promoted \/ Succeeded(n))
    => \E n \in Exports : Survivor(n)

\* Inductive: types, what the directories are at each step, and the promise.
ReplayInv ==
  TypeOK /\ StagedWhole /\ NotYetWritten /\ TargetsLeft /\ NamesUnique /\ BundleSurvives

=============================================================================
