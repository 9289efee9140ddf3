--------------------------- MODULE ArtifactCapture ---------------------------
(***************************************************************************)
(* The operations that make artifacts: captures of a tab, crops of stored  *)
(* pictures and snapshots of the browser's own surface.  Each one writes   *)
(* its files, stores their rows and records an event, in an order of its   *)
(* own; processes work at a time, files get lost, I/O fails, processes     *)
(* die.  An operation is the sequence of the steps it has still to make.   *)
(* The event that a failed operation records names no artifact and is left *)
(* out.                                                                    *)
(***************************************************************************)
EXTENDS Naturals, Sequences, FiniteSets, CropGrid

CONSTANTS
  Processes,
  Runs,            \* capture runs; NoRun: none is being recorded
  NoRun,
  MaxArtifacts,    \* bound: files ever begun
  MaxIncidents,    \* bound: I/O errors, lost files, dying processes, recordings started or stopped
  Parts, Overlaps, Widths \* of the grids and pictures looked at

ASSUME ArtifactAssumption ==
  /\ NoRun \notin Runs
  /\ MaxArtifacts \in Nat /\ MaxIncidents \in Nat
  /\ Parts \subseteq Nat /\ Overlaps \subseteq Nat /\ Widths \subseteq Nat \ {0}

VARIABLES
  op,              \* process -> its operation
  file,            \* id -> "partial", "whole" or "gone", for the files begun and not removed
  rows,            \* of the artifacts table
  events,          \* recorded for artifacts
  temps,           \* processes whose operation has a picture of the bridge to read
  run,             \* process -> the run it records
  last,            \* process -> how its last operation ended and what it had written (history)
  used, incidents,
  grid             \* a grid and a width to crop (a behaviour looks at one)

vars == <<op, file, rows, events, temps, run, last, used, incidents, grid>>
store == <<file, rows, events>>

\* The kinds that can be cropped, and the rest: snapshots, texts, traces, recordings.
Kinds == {"screenshot", "pdf", "other"}
Ids == 1 .. MaxArtifacts
Idle == [plan |-> <<>>, writing |-> 0, written |-> <<>>, ids |-> {}, source |-> 0]
Incident == incidents < MaxIncidents /\ incidents' = incidents + 1
Unended == [result |-> "none", ids |-> {}, left |-> FALSE]

Init ==
  /\ op = [p \in Processes |-> Idle]
  /\ file = [i \in {} |-> "none"] /\ rows = {} /\ events = {} /\ temps = {}
  /\ run \in [Processes -> Runs \cup {NoRun}]
  /\ last = [p \in Processes |-> Unended]
  /\ used = 0 /\ incidents = 0
  /\ grid \in {g \in [parts : Parts, overlap : Overlaps, width : Widths] : Accepted(g.parts, 1, g.overlap)}

-----------------------------------------------------------------------------
(* The operations. *)

\* What an earlier operation left outside the store nobody comes back to.
Begin(p, plan, source) ==
  /\ op[p] = Idle /\ used < MaxArtifacts
  /\ op' = [op EXCEPT ![p] = [Idle EXCEPT !.plan = plan, !.source = source]]
  /\ last' = [last EXCEPT ![p] = Unended]
  /\ temps' = temps \ {p}
  /\ UNCHANGED <<store, run, used, incidents, grid>>

text_tab(p) == Begin(p, <<"acquire", "other", "store", "event">>, 0)
screenshot_tab(p) == Begin(p, <<"acquire", "screenshot", "store", "event">>, 0)
pdf_tab(p) == Begin(p, <<"acquire", "pdf", "store", "event">>, 0)
trace_capture(p) == Begin(p, <<"acquire", "other", "store", "event">>, 0)
recording_capture(p) == Begin(p, <<"acquire", "other", "store", "event">>, 0)
artifact_crop(p, id) == Begin(p, <<"row", "source", "screenshot", "store", "event">>, id)
\* All crops are written before the first is stored.
\* Mutant: the crops are stored in a pass that forgets the last one.
GridButLast == <<"row", "source", "screenshot", "screenshot", "store", "event">>
GridPlan == <<"row", "source", "screenshot", "screenshot", "store", "store", "event">>
artifact_crop_grid(p, id) == Begin(p, GridPlan, id)
browser_surface_snapshot(p) ==
  Begin(p, <<"bridge", "other", "store", "native", "screenshot", "store", "event">>, 0)

Step(p) == IF op[p].plan = <<>> THEN "none" ELSE Head(op[p].plan)
Advance(p) == op' = [op EXCEPT ![p].plan = Tail(@)]
Ended(p, result) ==
  /\ op' = [op EXCEPT ![p] = Idle]
  /\ last' = IF op[p].ids = {} THEN last
             ELSE [last EXCEPT ![p] = [result |-> result, ids |-> op[p].ids, left |-> p \in temps]]
Fail(p) == Ended(p, "failed")

\* The tab is known, the lease allows it, the session answers; or not.
Acquire(p) ==
  /\ Step(p) = "acquire"
  /\ (Advance(p) /\ UNCHANGED last) \/ Fail(p)
  /\ UNCHANGED <<store, temps, run, used, incidents, grid>>

\* The row of the source, whose instance the holder may be refused; a page is named for a
\* PDF only.
RowOf(id) == {r \in rows : r.id = id}
GetArtifact(p, page) ==
  /\ Step(p) = "row"
  /\ \/ /\ RowOf(op[p].source) # {}
        /\ \A r \in RowOf(op[p].source) : r.kind \in {"screenshot", "pdf"} /\ (page => r.kind = "pdf")
        /\ Advance(p) /\ UNCHANGED last
     \/ Fail(p)
  /\ UNCHANGED <<store, temps, run, used, incidents, grid>>

\* The picture is read, or the page of a PDF rendered in a directory that is removed
\* unless the tool cannot be run or leaves no page.
Whole(id) == id \in DOMAIN file /\ file[id] = "whole"
ReadSource(p) ==
  /\ Step(p) = "source"
  /\ IF Whole(op[p].source) THEN Advance(p) /\ UNCHANGED last ELSE Fail(p)
  /\ UNCHANGED <<store, temps, run, used, incidents, grid>>
RenderFails(p) ==
  /\ Step(p) = "source" /\ \E r \in RowOf(op[p].source) : r.kind = "pdf"
  /\ Incident
  /\ Fail(p)
  /\ UNCHANGED <<store, temps, run, used, grid>>

\* The bridge lists the surfaces, and may have taken a picture of the window.  A bridge
\* that fails, or lists another root than asked for, ends the operation: in the second
\* case with its picture left behind.
Bridge(p) ==
  /\ Step(p) = "bridge"
  /\ \/ /\ op' = [op EXCEPT ![p].plan = <<"other", "store", "event">>]
        /\ UNCHANGED <<last, temps>>
     \/ Advance(p) /\ temps' = temps \cup {p} /\ UNCHANGED last
     \/ Fail(p) /\ UNCHANGED temps
  /\ UNCHANGED <<store, run, used, incidents, grid>>
\* Mutant: the picture is read and left.
KeepsPicture(p) == temps
WithoutPicture(p) == temps \ {p}
ReadNative(p) ==
  /\ Step(p) = "native"
  /\ \/ Advance(p) /\ UNCHANGED <<last, incidents>>
     \/ Fail(p) /\ Incident
  /\ temps' = WithoutPicture(p)
  /\ UNCHANGED <<store, run, used, grid>>

-----------------------------------------------------------------------------
(* Files, rows and events. *)

\* Its kind, its owner and the time make an id; no two are alike.
WriteBegins(p) ==
  /\ Step(p) \in Kinds /\ op[p].writing = 0 /\ used < MaxArtifacts
  /\ used' = used + 1
  /\ op' = [op EXCEPT ![p].writing = used + 1]
  /\ file' = [i \in DOMAIN file \cup {used + 1} |-> IF i = used + 1 THEN "partial" ELSE file[i]]
  /\ UNCHANGED <<rows, events, temps, run, last, incidents, grid>>
WriteEnds(p) ==
  /\ op[p].writing # 0
  /\ op' = [op EXCEPT ![p].writing = 0, ![p].plan = Tail(@), ![p].written = Append(@, [id |-> op[p].writing, kind |-> Step(p)]),
                      ![p].ids = @ \cup {op[p].writing}]
  /\ file' = [file EXCEPT ![op[p].writing] = "whole"]
  /\ UNCHANGED <<rows, events, temps, run, last, used, incidents, grid>>
\* Large pictures and PDFs are streamed and a part removed; other files are written at
\* once, and what was written of them stays.
should_stream_large_capture(kind, large) == kind \in {"screenshot", "pdf"} /\ large
WriteFails(p, large) ==
  /\ op[p].writing # 0 /\ Incident
  /\ file' = IF should_stream_large_capture(Step(p), large)
             THEN [i \in DOMAIN file \ {op[p].writing} |-> file[i]] ELSE file
  /\ Fail(p)
  /\ UNCHANGED <<rows, events, temps, run, used, grid>>

\* Mutant: a row is stored as soon as its file is begun.
AsSoonAsBegun(p) == op[p].writing # 0 \/ Step(p) = "store"
Storing(p) == Step(p) = "store"
\* Mutant: the step's name is stored.
StepAsKind(p) == [id |-> Head(op[p].written).id, kind |-> Step(p)]
Handle(p) == IF op[p].written = <<>> THEN [id |-> op[p].writing, kind |-> Step(p)] ELSE Head(op[p].written)
\* upsert_artifact.  A crop belongs to the run of the process that makes it.
Store(p) ==
  /\ Storing(p)
  /\ rows' = rows \cup {[id |-> Handle(p).id, kind |-> Handle(p).kind, run |-> run[p], source |-> op[p].source]}
  /\ op' = [op EXCEPT ![p].plan = Tail(@), ![p].written = IF @ = <<>> THEN @ ELSE Tail(@)]
  /\ UNCHANGED <<file, events, temps, run, last, used, incidents, grid>>

\* Without a run that is recorded, no event.
Named(p) == op[p].ids
RecordEvent(p) ==
  /\ Step(p) = "event"
  /\ events' = IF run[p] = NoRun THEN events ELSE events \cup {[run |-> run[p], names |-> Named(p)]}
  /\ Ended(p, "succeeded")
  /\ UNCHANGED <<file, rows, temps, run, used, incidents, grid>>
\* The store refuses a row or an event: the operation fails, also when its artifact is stored.
StoreFails(p) ==
  /\ Step(p) \in {"store", "event"} /\ Incident
  /\ Fail(p)
  /\ UNCHANGED <<store, temps, run, used, grid>>

SwitchRun(p) ==
  /\ op[p] = Idle /\ Incident
  /\ \E r \in (Runs \cup {NoRun}) \ {run[p]} : run' = [run EXCEPT ![p] = r]
  /\ UNCHANGED <<op, store, temps, last, used, grid>>
LoseFile(id) ==
  /\ Whole(id) /\ Incident
  /\ file' = [file EXCEPT ![id] = "gone"]
  /\ UNCHANGED <<op, rows, events, temps, run, last, used, grid>>
Crash(p) ==
  /\ op[p] # Idle /\ Incident
  /\ Ended(p, "died")
  /\ UNCHANGED <<store, temps, run, used, grid>>

Operations(p) ==
  \/ text_tab(p) \/ screenshot_tab(p) \/ pdf_tab(p) \/ trace_capture(p) \/ recording_capture(p)
  \/ browser_surface_snapshot(p)
  \/ \E id \in 1 .. used : artifact_crop(p, id) \/ artifact_crop_grid(p, id)
Steps(p) ==
  \/ Acquire(p) \/ ReadSource(p) \/ RenderFails(p) \/ Bridge(p) \/ ReadNative(p)
  \/ \E b \in BOOLEAN : GetArtifact(p, b) \/ WriteFails(p, b)
  \/ WriteBegins(p) \/ WriteEnds(p) \/ Store(p) \/ RecordEvent(p) \/ StoreFails(p)
Next ==
  \/ \E p \in Processes : Operations(p) \/ Steps(p) \/ SwitchRun(p) \/ Crash(p)
  \/ \E id \in DOMAIN file : LoseFile(id)

\* A behaviour that looks at a grid makes no captures.
OneGrid == [parts |-> 1, overlap |-> 0, width |-> 1]
Spec == Init /\ [][grid = OneGrid /\ Next]_vars

-----------------------------------------------------------------------------
TypeOK ==
  /\ \A p \in Processes : op[p].writing \in 0 .. used /\ op[p].source \in 0 .. used /\ op[p].ids \subseteq 1 .. used
  /\ DOMAIN file \subseteq 1 .. used /\ \A i \in DOMAIN file : file[i] \in {"partial", "whole", "gone"}
  /\ rows \subseteq [id : Ids, run : Runs \cup {NoRun}, kind : Kinds, source : 0 .. used]
  /\ temps \subseteq Processes
  /\ used <= MaxArtifacts /\ incidents <= MaxIncidents

\* No row is ever of a file that was not written to its end, whoever died or failed in
\* between, and the picture a crop was cut from has a row of its own.
RowsBacked ==
  \A r \in rows :
    /\ r.id \in DOMAIN file /\ file[r.id] # "partial"
    /\ r.source # 0 => \E s \in rows : s.id = r.source /\ s.kind \in {"screenshot", "pdf"}

\* An event names only artifacts that are stored, all of them of the event's run; so does
\* the event of a grid with every one of its crops.
EventsBacked ==
  \A e \in events : e.names # {} /\ \A id \in e.names : \E r \in rows : r.id = id /\ r.run = e.run

\* An operation that succeeded left no file without a row and no picture of the bridge;
\* one that failed or died, also after it had stored rows, is named by no event.
NothingLeft ==
  \A p \in Processes :
    IF last[p].result = "succeeded"
    THEN ~ last[p].left /\ \A id \in last[p].ids : \E r \in rows : r.id = id
    ELSE \A e \in events : e.names \cap last[p].ids = {}

\* Grids of crops cover the picture (CropGrid).
GridCovers == Covers(grid.parts, grid.overlap, grid.width)

\* Files, rows and events agree with each other and with how operations ended.
StoreInv == TypeOK /\ RowsBacked /\ EventsBacked /\ NothingLeft

=============================================================================
