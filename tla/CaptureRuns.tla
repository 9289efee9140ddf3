---------------------------- MODULE CaptureRuns ----------------------------
(***************************************************************************)
(* Capture runs, their timelines and the continuity of the daemon.         *)
(*                                                                         *)
(* Every process that opens the runtime owns a copy of a row of runs, its  *)
(* capture run, and appends an event to that run for what it does as long  *)
(* as its copy says Active.  A command line tool or MCP server always      *)
(* creates a run; a daemon continues the latest active run of a daemon,    *)
(* if there is one, and listens on its address only after that.  All of    *)
(* them share one store; a statement on it is one step here.               *)
(*                                                                         *)
(* started_at is compared as text, and fractions of a second do not sort   *)
(* in order as text: of runs started in the same second either may come    *)
(* first.  Run ids are fresh.                                              *)
(***************************************************************************)
EXTENDS Naturals

CONSTANTS
  Daemons,     \* processes that run `pengu-mesh serve`
  Tools,       \* processes with any other entrypoint
  Addresses,   \* addresses daemons are told to bind
  Runs,        \* ids of runs
  NoRun,       \* no run
  NoOne,       \* no daemon listens on the address
  MaxClock,    \* bound: seconds
  MaxEvents    \* bound: events of a run

ASSUME CaptureAssumption ==
  /\ Daemons \cap Tools = {}
  /\ NoRun \notin Runs
  /\ NoOne \notin Daemons
  /\ MaxClock \in Nat /\ MaxEvents \in Nat

VARIABLES
  clock,      \* the time, in seconds
  identity,   \* whether the daemon's row of runtime_identities exists
  runs,       \* run -> its row
  events,     \* run -> number of its events
  listener,   \* address -> daemon that listens on it
  proc,       \* process -> what it does and its copy of its capture run
  recording,  \* the run that the last daemon to serve was recording (history)
  contended   \* whether two daemons were up at a time (history)

stored == <<clock, identity, runs, events>>
vars == <<clock, identity, runs, events, listener, proc, recording, contended>>

Processes == Daemons \cup Tools
EntryOf(p) == IF p \in Daemons THEN "daemon" ELSE "tool"

Statuses == {"none", "Active", "Completed"}
CaptureRun == [status : Statuses, entry : {"daemon", "tool"}, started : 0 .. MaxClock]

Points == {"down", "insert_identity", "find_run", "create_run", "bootstrap", "bind", "serve",
           "start_event", "get_run", "update_run"}
Process == [at : Points, run : Runs \cup {NoRun}, active : BOOLEAN]
Down == [at |-> "down", run |-> NoRun, active |-> FALSE]

Init ==
  /\ clock = 0
  /\ identity = FALSE
  /\ runs = [r \in Runs |-> [status |-> "none", entry |-> "tool", started |-> 0]]
  /\ events = [r \in Runs |-> 0]
  /\ listener = [a \in Addresses |-> NoOne]
  /\ proc = [p \in Processes |-> Down]
  /\ recording = NoRun
  /\ contended = FALSE

Tick == clock < MaxClock /\ clock' = clock + 1 /\ UNCHANGED <<identity, runs, events, listener, proc, recording>>

Become(p, state) == proc' = [proc EXCEPT ![p] = state]
Goto(p, label) == Become(p, [proc[p] EXCEPT !.at = label])

-----------------------------------------------------------------------------
(* Statements.                                                             *)

\* create_run, and the copy of the row that the process keeps.
CreateRun(p, r, label) ==
  /\ runs[r].status = "none"
  /\ runs' = [runs EXCEPT ![r] = [status |-> "Active", entry |-> EntryOf(p), started |-> clock]]
  /\ Become(p, [at |-> label, run |-> r, active |-> TRUE])

\* The rows latest_active_run may return for a daemon.
\* Mutant: it does not look at the status.
LatestRunOfDaemon ==
  {r \in Runs : /\ runs[r].status # "none" /\ runs[r].entry = "daemon"
                /\ \A q \in Runs : runs[q].status # "none" /\ runs[q].entry = "daemon" =>
                     runs[q].started <= runs[r].started}
LatestActiveRun ==
  {r \in Runs : /\ runs[r].status = "Active" /\ runs[r].entry = "daemon"
                /\ \A q \in Runs : runs[q].status = "Active" /\ runs[q].entry = "daemon" =>
                     runs[q].started <= runs[r].started}

\* record_event: nothing unless the copy of the run says Active.
\* Mutant: it does not look at the copy.
RecordAlways(p) == events[proc[p].run] < MaxEvents /\ events' = [events EXCEPT ![proc[p].run] = @ + 1]
RecordEvent(p) ==
  IF proc[p].active
  THEN events[proc[p].run] < MaxEvents /\ events' = [events EXCEPT ![proc[p].run] = @ + 1]
  ELSE UNCHANGED events

-----------------------------------------------------------------------------
(* Opening the runtime: new_in_root, then serve_runtime binds the address. *)

\* A daemon reads its identity and touches it if it exists.
Boot(p) ==
  /\ proc[p].at = "down"
  /\ Goto(p, IF p \in Tools THEN "create_run" ELSE IF identity THEN "find_run" ELSE "insert_identity")
  /\ UNCHANGED <<clock, identity, runs, events, listener, recording>>

\* The entrypoint is the primary key: the daemon that comes second cannot start.
InsertIdentity(p) ==
  /\ proc[p].at = "insert_identity"
  /\ IF identity THEN Become(p, Down) ELSE Goto(p, "find_run")
  /\ identity' = TRUE
  /\ UNCHANGED <<clock, runs, events, listener, recording>>

\* Mutant: the entrypoint is not taken for one with continuity.
NeverContinue(p) ==
  proc[p].at = "find_run" /\ Goto(p, "create_run") /\ UNCHANGED <<stored, listener, recording>>
FindRun(p) ==
  /\ proc[p].at = "find_run"
  /\ IF LatestActiveRun = {} THEN Goto(p, "create_run")
     ELSE \E r \in LatestActiveRun : Become(p, [at |-> "bootstrap", run |-> r, active |-> TRUE])
  /\ UNCHANGED <<stored, listener, recording>>

CreateFirstRun(p) ==
  /\ proc[p].at = "create_run"
  /\ \E r \in Runs : CreateRun(p, r, "bootstrap")
  /\ UNCHANGED <<clock, identity, events, listener, recording>>

BootstrapEvent(p) ==
  /\ proc[p].at = "bootstrap"
  /\ RecordEvent(p)
  /\ Goto(p, IF p \in Daemons THEN "bind" ELSE "serve")
  /\ UNCHANGED <<clock, identity, runs, listener, recording>>

Bind(p, a) ==
  /\ proc[p].at = "bind"
  /\ IF listener[a] = NoOne
     THEN /\ listener' = [listener EXCEPT ![a] = p]
          /\ Goto(p, "serve")
          /\ recording' = proc[p].run
     ELSE Become(p, Down) /\ UNCHANGED <<listener, recording>>
  /\ UNCHANGED stored

-----------------------------------------------------------------------------
(* Requests.                                                               *)

\* Any operation that records an event when it is done.
Operate(p) ==
  /\ proc[p].at = "serve"
  /\ RecordEvent(p)
  /\ UNCHANGED <<clock, identity, runs, listener, proc, recording>>

CaptureStartRecording(p) ==
  /\ proc[p].at = "serve"
  /\ IF proc[p].active
     THEN RecordEvent(p) /\ UNCHANGED <<runs, proc, recording>>
     ELSE /\ \E r \in Runs : /\ CreateRun(p, r, "start_event")
                             /\ recording' = IF p \in Daemons THEN r ELSE recording
          /\ UNCHANGED events
  /\ UNCHANGED <<clock, identity, listener>>

StartEvent(p) ==
  /\ proc[p].at = "start_event"
  /\ RecordEvent(p)
  /\ Goto(p, "serve")
  /\ UNCHANGED <<clock, identity, runs, listener, recording>>

\* The event comes first, then complete_run reads the row and updates it.
CaptureStopRecording(p) ==
  /\ proc[p].at = "serve" /\ proc[p].active
  /\ RecordEvent(p)
  /\ Goto(p, "get_run")
  /\ UNCHANGED <<clock, identity, runs, listener, recording>>

Stopped(p) == Become(p, [proc[p] EXCEPT !.at = "serve", !.active = FALSE])

GetRun(p) ==
  /\ proc[p].at = "get_run"
  /\ IF runs[proc[p].run].status = "Completed" THEN Stopped(p) ELSE Goto(p, "update_run")
  /\ UNCHANGED <<stored, listener, recording>>

\* Mutant: the row is not written.
ForgetUpdate(p) == Stopped(p) /\ UNCHANGED runs
CompleteRun(p) == Stopped(p) /\ runs' = [runs EXCEPT ![proc[p].run].status = "Completed"]

UpdateRun(p) ==
  /\ proc[p].at = "update_run"
  /\ CompleteRun(p)
  /\ UNCHANGED <<clock, identity, events, listener, recording>>

\* A tool is done, or a process is killed: its copy and its address are gone.
Exit(p) ==
  /\ proc[p].at # "down"
  /\ Become(p, Down)
  /\ listener' = [a \in Addresses |-> IF listener[a] = p THEN NoOne ELSE listener[a]]
  /\ UNCHANGED <<stored, recording>>

-----------------------------------------------------------------------------
Step(p) ==
  \/ Boot(p) \/ CreateFirstRun(p) \/ BootstrapEvent(p)
  \/ Operate(p) \/ CaptureStartRecording(p) \/ StartEvent(p)
  \/ CaptureStopRecording(p) \/ GetRun(p) \/ UpdateRun(p) \/ Exit(p)

DaemonStep(p) == InsertIdentity(p) \/ FindRun(p) \/ \E a \in Addresses : Bind(p, a)

DaemonsUp == {d \in Daemons : proc[d].at # "down"}

Next ==
  /\ Tick \/ (\E p \in Processes : Step(p)) \/ (\E p \in Daemons : DaemonStep(p))
  /\ contended' = (contended \/ \E d, e \in DaemonsUp' : d # e)

Spec == Init /\ [][Next]_vars

-----------------------------------------------------------------------------
(* Properties.                                                             *)

\* contended is history.
TypeOK ==
  /\ clock \in 0 .. MaxClock
  /\ identity \in BOOLEAN
  /\ runs \in [Runs -> CaptureRun]
  /\ events \in [Runs -> 0 .. MaxEvents]
  /\ listener \in [Addresses -> Daemons \cup {NoOne}]
  /\ proc \in [Processes -> Process]
  /\ recording \in Runs \cup {NoRun}

Has(p, r) == proc[p].run = r

\* What a process believes of its run: the row exists, with its entrypoint; a copy that
\* says Completed is true of the row.
CopiesSound ==
  \A p \in Processes :
    /\ proc[p].at \in Points \ {"down", "insert_identity", "find_run", "create_run"} => proc[p].run \in Runs
    /\ proc[p].run \in Runs =>
         /\ runs[proc[p].run].status # "none"
         /\ runs[proc[p].run].entry = EntryOf(p)
         /\ ~ proc[p].active => runs[proc[p].run].status = "Completed"
    /\ proc[p].active => proc[p].run \in Runs
    /\ proc[p].at \in {"get_run", "update_run"} => proc[p].active

\* The run of a tool is nobody else's, so its copy is the row.
ToolsAlone ==
  \A p \in Tools : proc[p].run \in Runs =>
    /\ \A q \in Processes : Has(q, proc[p].run) => q = p
    /\ proc[p].active => runs[proc[p].run].status = "Active"

\* Inductive: types, copies and the runs of tools.
CaptureInv == TypeOK /\ CopiesSound /\ ToolsAlone

\* Whatever daemons and other tools do, the timeline of a run that a tool has stopped
\* gets no more events, and a completed run stays completed.
ToolTimelineClosed ==
  [][\A r \in Runs : runs[r].status = "Completed" =>
       /\ runs'[r] = runs[r]
       /\ runs[r].entry = "tool" => events'[r] = events[r]]_vars

\* capture_stop_recording "marks the current run complete and preserves its event
\* timeline" (docs/mcp-contract.md:688): no event is appended to a completed run,
\* whoever stopped it, as long as there was one daemon at a time.
TimelineClosed ==
  [][~ contended' => \A r \in Runs : runs[r].status = "Completed" => events'[r] = events[r]]_vars

\* "Recovery of the daemon-owned active run ... after restart" (docs/runtime-model.md:64):
\* a daemon that starts to serve continues the run the last one was recording when it
\* died, unless that run was stopped; as long as there was one daemon at a time.
ResumesRecording ==
  [][~ contended' => \A d \in Daemons : proc[d].at = "bind" /\ proc'[d].at = "serve" /\ recording # NoRun =>
       (runs[recording].status = "Active" => Has(d, recording))]_vars

=============================================================================
