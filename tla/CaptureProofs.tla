--------------------------- MODULE CaptureProofs ---------------------------
(***************************************************************************)
(* The copy of its run that a process keeps is sound, and the run of a     *)
(* tool is its own, for any number of daemons and tools.  With one daemon  *)
(* up at a time there is one active run of daemons at most, and the daemon *)
(* that is up knows it: its timeline is closed when the run is completed,  *)
(* and the next daemon takes the run up again.                             *)
(***************************************************************************)
EXTENDS CaptureRuns, TLAPS

USE CaptureAssumption

\* A process other than a daemon is a tool, and none is both.
LEMMA Entries ==
  ASSUME NEW p \in Processes
  PROVE  /\ p \in Daemons \/ p \in Tools
         /\ p \in Daemons => EntryOf(p) = "daemon"
         /\ p \in Tools => EntryOf(p) = "tool"
  BY DEF Processes, EntryOf

\* Sound(p) is what CopiesSound says of p.
Sound(p) ==
  /\ proc[p].at \in Points \ {"down", "insert_identity", "find_run", "create_run"} => proc[p].run \in Runs
  /\ proc[p].run \in Runs =>
       /\ runs[proc[p].run].status # "none"
       /\ runs[proc[p].run].entry = EntryOf(p)
       /\ ~ proc[p].active => runs[proc[p].run].status = "Completed"
  /\ proc[p].active => proc[p].run \in Runs
  /\ proc[p].at \in {"get_run", "update_run"} => proc[p].active

\* How a step of p may change p's copy when it leaves the table runs alone: the copy is
\* dropped, it stays but may follow the row to Completed, or a daemon takes over an
\* active run of a daemon.
CopyFollows(p) ==
  \/ ~ proc'[p].active /\ proc'[p].run = NoRun
  \/ /\ proc'[p].run = proc[p].run
     /\ proc'[p].active => proc[p].active
     /\ ~ proc'[p].active /\ proc[p].run \in Runs => runs[proc[p].run].status = "Completed"
  \/ /\ p \in Daemons /\ proc'[p].active /\ proc'[p].run \in Runs
     /\ runs[proc'[p].run].status = "Active" /\ runs[proc'[p].run].entry = "daemon"

\* Such a step keeps the invariant.
LEMMA QuietKeeps ==
  ASSUME CaptureInv, TypeOK', NEW p \in Processes, runs' = runs,
         \A q \in Processes \ {p} : proc'[q] = proc[q],
         CopyFollows(p),
         proc'[p].at \in Points \ {"down", "insert_identity", "find_run", "create_run"} => proc'[p].run \in Runs,
         proc'[p].at \in {"get_run", "update_run"} => proc'[p].active
  PROVE  CaptureInv'
<1>1. \A q \in Processes : Sound(q)
  BY DEF CaptureInv, CopiesSound, Sound
<1>2. Sound(p)'
  BY <1>1, Entries DEF Sound, CopyFollows, EntryOf
<1>3. \A q \in Processes \ {p} : Sound(q)'
  BY <1>1 DEF Sound, EntryOf
<1>4. CopiesSound'
  BY <1>2, <1>3 DEF CopiesSound, Sound
<1>5. ASSUME NEW t \in Tools, proc'[t].run \in Runs
      PROVE  /\ \A q \in Processes : proc'[q].run = proc'[t].run => q = t
             /\ proc'[t].active => runs'[proc'[t].run].status = "Active"
  <2>1. t \in Processes /\ t \notin Daemons
    BY DEF Processes
  <2>2. proc'[t].run = proc[t].run /\ (proc'[t].active => proc[t].active)
    BY <1>5, <2>1 DEF CopyFollows
  <2>3. /\ \A q \in Processes : proc[q].run = proc[t].run => q = t
        /\ proc[t].active => runs[proc[t].run].status = "Active"
    BY <1>5, <2>2 DEF CaptureInv, ToolsAlone, Has
  <2>4. runs[proc[t].run].entry = "tool"
    BY <1>1, <1>5, <2>1, <2>2, Entries DEF Sound
  <2>5. ASSUME NEW q \in Processes, proc'[q].run = proc'[t].run PROVE q = t
    <3>1. CASE q = p
      BY <1>5, <2>2, <2>3, <2>4, <2>5, <3>1 DEF CopyFollows
    <3>2. CASE q # p
      BY <2>2, <2>3, <2>5, <3>2
    <3> QED BY <3>1, <3>2
  <2> QED BY <2>2, <2>3, <2>5
<1>6. ToolsAlone'
  BY <1>5 DEF ToolsAlone, Has
<1> QED BY <1>4, <1>6 DEF CaptureInv

\* The run a process creates is new, so it is its own.
LEMMA CreateKeeps ==
  ASSUME CaptureInv, TypeOK', NEW p \in Processes, NEW r \in Runs,
         NEW label \in {"bootstrap", "start_event"}, CreateRun(p, r, label)
  PROVE  CaptureInv'
<1>1. \A q \in Processes : Sound(q)
  BY DEF CaptureInv, CopiesSound, Sound
<1>2. /\ proc'[p] = [at |-> label, run |-> r, active |-> TRUE]
      /\ \A q \in Processes \ {p} : proc'[q] = proc[q]
  BY DEF CreateRun, Become, CaptureInv, TypeOK
<1>3. /\ runs[r].status = "none"
      /\ runs'[r] = [status |-> "Active", entry |-> EntryOf(p), started |-> clock]
      /\ \A s \in Runs \ {r} : runs'[s] = runs[s]
  BY DEF CreateRun, CaptureInv, TypeOK
<1>4. \A q \in Processes : proc[q].run # r
  BY <1>1, <1>3 DEF Sound
<1>5. Sound(p)'
  BY <1>2, <1>3 DEF Sound, EntryOf
<1>6. ASSUME NEW q \in Processes, q # p PROVE Sound(q)'
  <2>1. proc'[q] = proc[q] /\ proc[q].run # r
    BY <1>2, <1>4, <1>6
  <2>2. proc[q].run \in Runs => runs'[proc[q].run] = runs[proc[q].run]
    BY <1>3, <2>1
  <2> QED BY <1>1, <2>1, <2>2 DEF Sound, EntryOf
<1>7. CopiesSound'
  BY <1>5, <1>6 DEF CopiesSound, Sound
<1>8. ASSUME NEW t \in Tools, proc'[t].run \in Runs
      PROVE  /\ \A q \in Processes : proc'[q].run = proc'[t].run => q = t
             /\ proc'[t].active => runs'[proc'[t].run].status = "Active"
  <2>1. t \in Processes
    BY DEF Processes
  <2>2. CASE t = p
    BY <1>2, <1>3, <1>4, <2>2
  <2>3. CASE t # p
    <3>1. proc'[t] = proc[t] /\ proc[t].run # r /\ proc[t].run \in Runs
      BY <1>2, <1>4, <1>8, <2>1, <2>3
    <3>2. /\ \A q \in Processes : proc[q].run = proc[t].run => q = t
          /\ proc[t].active => runs[proc[t].run].status = "Active"
      BY <3>1 DEF CaptureInv, ToolsAlone, Has
    <3> QED BY <1>2, <1>3, <3>1, <3>2
  <2> QED BY <2>2, <2>3
<1>9. ToolsAlone'
  BY <1>8 DEF ToolsAlone, Has
<1> QED BY <1>7, <1>9 DEF CaptureInv

\* Completing a run makes every copy that says Completed true.
LEMMA CompleteKeeps ==
  ASSUME CaptureInv, TypeOK', NEW p \in Processes, UpdateRun(p)
  PROVE  CaptureInv'
<1> DEFINE r == proc[p].run
<1>1. \A q \in Processes : Sound(q)
  BY DEF CaptureInv, CopiesSound, Sound
<1>2. r \in Runs /\ proc[p].active
  BY <1>1 DEF UpdateRun, Sound
<1>3. proc[p] \in Process /\ runs[r] \in CaptureRun
  BY <1>2 DEF CaptureInv, TypeOK
<1>4. /\ proc'[p] = [proc[p] EXCEPT !.at = "serve", !.active = FALSE]
      /\ \A q \in Processes \ {p} : proc'[q] = proc[q]
  BY DEF UpdateRun, CompleteRun, Stopped, Become, CaptureInv, TypeOK
<1>5. proc'[p].at = "serve" /\ proc'[p].run = r /\ ~ proc'[p].active
  BY <1>3, <1>4 DEF Process
<1>6. runs'[r] = [runs[r] EXCEPT !.status = "Completed"] /\ \A s \in Runs \ {r} : runs'[s] = runs[s]
  BY <1>2 DEF UpdateRun, CompleteRun, CaptureInv, TypeOK
<1>7. runs'[r].status = "Completed" /\ runs'[r].entry = runs[r].entry
  BY <1>3, <1>6 DEF CaptureRun
<1> HIDE DEF r
<1>8. Sound(p)'
  BY <1>1, <1>2, <1>5, <1>7 DEF Sound, EntryOf, r
<1>9. ASSUME NEW q \in Processes, q # p PROVE Sound(q)'
  <2>1. proc'[q] = proc[q]
    BY <1>4, <1>9
  <2>2. CASE proc[q].run = r
    BY <1>1, <1>2, <1>7, <2>1, <2>2 DEF Sound, EntryOf
  <2>3. CASE proc[q].run # r
    <3>1. proc[q].run \in Runs => runs'[proc[q].run] = runs[proc[q].run]
      BY <1>6, <2>3
    <3> QED BY <1>1, <2>1, <3>1 DEF Sound, EntryOf
  <2> QED BY <2>2, <2>3
<1>10. CopiesSound'
  BY <1>8, <1>9 DEF CopiesSound, Sound
<1>11. ASSUME NEW t \in Tools, proc'[t].run \in Runs
       PROVE  /\ \A q \in Processes : proc'[q].run = proc'[t].run => q = t
              /\ proc'[t].active => runs'[proc'[t].run].status = "Active"
  <2>1. t \in Processes
    BY DEF Processes
  <2>2. \A q \in Processes : proc'[q].run = proc[q].run
    BY <1>4, <1>5 DEF r
  <2>3. /\ \A q \in Processes : proc[q].run = proc[t].run => q = t
        /\ proc[t].active => runs[proc[t].run].status = "Active"
    BY <1>11, <2>1, <2>2 DEF CaptureInv, ToolsAlone, Has
  <2>4. CASE t = p
    BY <1>5, <2>2, <2>3, <2>4
  <2>5. CASE t # p
    <3>1. proc'[t] = proc[t] /\ proc[t].run # r
      BY <1>4, <2>1, <2>3, <2>5 DEF r
    <3> QED BY <1>6, <1>11, <2>2, <2>3, <3>1
  <2> QED BY <2>4, <2>5
<1>12. ToolsAlone'
  BY <1>11 DEF ToolsAlone, Has
<1> QED BY <1>10, <1>12 DEF CaptureInv

\* A process that moves to another point keeps its copy.
LEMMA GotoMoves ==
  ASSUME TypeOK, NEW p \in Processes, NEW label \in Points, Goto(p, label)
  PROVE  /\ proc' \in [Processes -> Process]
         /\ proc'[p].at = label /\ proc'[p].run = proc[p].run /\ proc'[p].active = proc[p].active
         /\ \A q \in Processes \ {p} : proc'[q] = proc[q]
<1>1. proc[p] \in Process
  BY DEF TypeOK
<1>2. [proc[p] EXCEPT !.at = label] \in Process
  BY <1>1 DEF Process
<1>3. proc' = [proc EXCEPT ![p] = [proc[p] EXCEPT !.at = label]]
  BY DEF Goto, Become
<1>4. proc'[p] = [proc[p] EXCEPT !.at = label]
  BY <1>3 DEF TypeOK
<1>5. proc'[p].at = label /\ proc'[p].run = proc[p].run /\ proc'[p].active = proc[p].active
  BY <1>1, <1>4 DEF Process
<1> QED BY <1>2, <1>3, <1>5 DEF TypeOK

\* A process that is given a new state.
LEMMA BecomeSets ==
  ASSUME TypeOK, NEW p \in Processes, NEW state \in Process, Become(p, state)
  PROVE  /\ proc' \in [Processes -> Process] /\ proc'[p] = state
         /\ \A q \in Processes \ {p} : proc'[q] = proc[q]
  BY DEF Become, TypeOK

\* A process that stops recording.
LEMMA StoppedSets ==
  ASSUME TypeOK, NEW p \in Processes, Stopped(p)
  PROVE  /\ proc' \in [Processes -> Process]
         /\ proc'[p].at = "serve" /\ proc'[p].run = proc[p].run /\ proc'[p].active = FALSE
         /\ \A q \in Processes \ {p} : proc'[q] = proc[q]
<1> DEFINE state == [proc[p] EXCEPT !.at = "serve", !.active = FALSE]
<1>1. proc[p] \in Process
  BY DEF TypeOK
<1>2. state \in Process
  BY <1>1 DEF Process, Points
<1>3. state.at = "serve" /\ state.run = proc[p].run /\ state.active = FALSE
  BY <1>1 DEF Process
<1>4. Become(p, state)
  BY DEF Stopped
<1> HIDE DEF state
<1>5. /\ proc' \in [Processes -> Process] /\ proc'[p] = state
      /\ \A q \in Processes \ {p} : proc'[q] = proc[q]
  BY <1>2, <1>4, BecomeSets
<1> QED BY <1>3, <1>5

\* Recording an event touches the run of the copy alone, and only if the copy is active.
LEMMA RecordEventEffect ==
  ASSUME CaptureInv, NEW p \in Processes, RecordEvent(p)
  PROVE  /\ events' \in [Runs -> 0 .. MaxEvents]
         /\ \A r \in Runs : events'[r] # events[r] => proc[p].active /\ proc[p].run = r
<1>0. events \in [Runs -> 0 .. MaxEvents]
  BY DEF CaptureInv, TypeOK
<1>1. CASE ~ proc[p].active
  BY <1>0, <1>1 DEF RecordEvent
<1>2. CASE proc[p].active
  <2>1. proc[p].run \in Runs
    BY <1>2 DEF CaptureInv, CopiesSound
  <2>2. events[proc[p].run] \in 0 .. MaxEvents /\ events[proc[p].run] < MaxEvents
    BY <1>0, <1>2, <2>1 DEF RecordEvent
  <2>3. events[proc[p].run] + 1 \in 0 .. MaxEvents
    BY <2>2
  <2> QED BY <1>0, <1>2, <2>1, <2>3 DEF RecordEvent
<1> QED BY <1>1, <1>2

\* What ToolTimelineClosed says of a step.
StaysClosed ==
  \A r \in Runs : runs[r].status = "Completed" =>
    /\ runs'[r] = runs[r]
    /\ runs[r].entry = "tool" => events'[r] = events[r]

\* Events that p records go to a run that is not a completed run of a tool.
LEMMA RecordStaysClosed ==
  ASSUME CaptureInv, NEW p \in Processes, RecordEvent(p), runs' = runs
  PROVE  StaysClosed
<1> SUFFICES ASSUME NEW r \in Runs, runs[r].status = "Completed", runs[r].entry = "tool",
                    events'[r] # events[r]
             PROVE  FALSE
  BY DEF StaysClosed
<1>1. proc[p].active /\ proc[p].run = r
  BY RecordEventEffect
<1>2. p \in Tools
  BY <1>1, Entries DEF CaptureInv, CopiesSound
<1> QED BY <1>1, <1>2 DEF CaptureInv, ToolsAlone

\* A step of p that records an event, moves p to label and leaves the rest alone.
LEMMA RecordAndGo ==
  ASSUME CaptureInv, NEW p \in Processes, NEW label \in {"bind", "serve", "get_run"},
         proc[p].run \in Runs, label = "get_run" => proc[p].active,
         RecordEvent(p), Goto(p, label),
         UNCHANGED <<clock, identity, runs, listener, recording>>
  PROVE  CaptureInv' /\ StaysClosed
<1>0. TypeOK
  BY DEF CaptureInv
<1>1. /\ proc' \in [Processes -> Process]
      /\ proc'[p].at = label /\ proc'[p].run = proc[p].run /\ proc'[p].active = proc[p].active
      /\ \A q \in Processes \ {p} : proc'[q] = proc[q]
  BY <1>0, GotoMoves DEF Points
<1>2. events' \in [Runs -> 0 .. MaxEvents]
  BY RecordEventEffect
<1>3. TypeOK'
  BY <1>0, <1>1, <1>2 DEF TypeOK
<1>4. CopyFollows(p)
  BY <1>1 DEF CopyFollows, CaptureInv, CopiesSound
<1> QED BY <1>1, <1>3, <1>4, QuietKeeps, RecordStaysClosed

\* A run is created.
LEMMA CreateStays ==
  ASSUME CaptureInv, NEW p \in Processes, NEW r \in Runs,
         NEW label \in {"bootstrap", "start_event"}, CreateRun(p, r, label),
         UNCHANGED <<clock, identity, events, listener>>, recording' \in Runs \cup {NoRun}
  PROVE  CaptureInv' /\ StaysClosed
<1>0. TypeOK
  BY DEF CaptureInv
<1> DEFINE state == [at |-> label, run |-> r, active |-> TRUE]
           row == [status |-> "Active", entry |-> EntryOf(p), started |-> clock]
<1>1. state \in Process
  BY DEF Process, Points
<1>2. Become(p, state)
  BY DEF CreateRun
<1>3. row \in CaptureRun
  BY <1>0 DEF CaptureRun, Statuses, EntryOf, TypeOK
<1>4. runs' = [runs EXCEPT ![r] = row] /\ runs[r].status = "none"
  BY DEF CreateRun
<1> HIDE DEF state, row
<1>5. proc' \in [Processes -> Process]
  BY <1>0, <1>1, <1>2, BecomeSets
<1>6. TypeOK'
  BY <1>0, <1>3, <1>4, <1>5 DEF TypeOK
<1>7. StaysClosed
  BY <1>0, <1>4 DEF StaysClosed, TypeOK
<1> QED BY <1>6, <1>7, CreateKeeps

\* Every step of a process keeps the invariant and what is closed.
LEMMA StepKeeps ==
  ASSUME CaptureInv, NEW p \in Processes, Step(p)
  PROVE  CaptureInv' /\ StaysClosed
<1>0. TypeOK /\ proc[p] \in Process
  BY DEF CaptureInv, TypeOK
<1>q. ASSUME proc' \in [Processes -> Process], runs' = runs, events' = events,
             clock' = clock, identity' = identity, recording' = recording,
             listener' \in [Addresses -> Daemons \cup {NoOne}]
      PROVE  TypeOK' /\ StaysClosed
  BY <1>0, <1>q DEF TypeOK, StaysClosed
<1>1. CASE Boot(p)
  <2> DEFINE label == IF p \in Tools THEN "create_run" ELSE IF identity THEN "find_run" ELSE "insert_identity"
  <2>1. label \in {"create_run", "find_run", "insert_identity"} /\ Goto(p, label)
    BY <1>1 DEF Boot
  <2> HIDE DEF label
  <2>2. /\ proc' \in [Processes -> Process]
        /\ proc'[p].at = label /\ proc'[p].run = proc[p].run /\ proc'[p].active = proc[p].active
        /\ \A q \in Processes \ {p} : proc'[q] = proc[q]
    BY <1>0, <2>1, GotoMoves DEF Points
  <2>3. TypeOK' /\ StaysClosed
    BY <1>0, <1>1, <1>q, <2>2 DEF Boot, TypeOK
  <2>4. CopyFollows(p)
    BY <2>2 DEF CopyFollows, CaptureInv, CopiesSound
  <2> QED BY <1>1, <2>1, <2>2, <2>3, <2>4, QuietKeeps DEF Boot
<1>3. CASE CreateFirstRun(p)
  BY <1>0, <1>3, CreateStays DEF CreateFirstRun, TypeOK
<1>4. CASE BootstrapEvent(p)
  <2>1. proc[p].run \in Runs
    BY <1>4 DEF BootstrapEvent, CaptureInv, CopiesSound, Points
  <2> QED BY <1>4, <2>1, RecordAndGo DEF BootstrapEvent
<1>5. ASSUME RecordEvent(p), UNCHANGED <<clock, identity, runs, listener, proc, recording>>
      PROVE  CaptureInv' /\ StaysClosed
  <2>1. TypeOK'
    BY <1>0, <1>5, RecordEventEffect DEF TypeOK
  <2>2. (CopiesSound /\ ToolsAlone)'
    BY <1>5 DEF CaptureInv, CopiesSound, ToolsAlone, Has, EntryOf
  <2> QED BY <1>5, <2>1, <2>2, RecordStaysClosed DEF CaptureInv
<1>6. CASE Operate(p)
  BY <1>5, <1>6 DEF Operate
<1>7. CASE CaptureStartRecording(p)
  <2>1. CASE proc[p].active
    BY <1>5, <1>7, <2>1 DEF CaptureStartRecording
  <2>2. CASE ~ proc[p].active
    <3>1. PICK r \in Runs : /\ CreateRun(p, r, "start_event")
                            /\ recording' = IF p \in Daemons THEN r ELSE recording
      BY <1>7, <2>2 DEF CaptureStartRecording
    <3>2. recording' \in Runs \cup {NoRun}
      BY <1>0, <3>1 DEF TypeOK
    <3> QED BY <1>7, <2>2, <3>1, <3>2, CreateStays DEF CaptureStartRecording
  <2> QED BY <2>1, <2>2
<1>8. CASE StartEvent(p)
  <2>1. proc[p].run \in Runs
    BY <1>8 DEF StartEvent, CaptureInv, CopiesSound, Points
  <2> QED BY <1>8, <2>1, RecordAndGo DEF StartEvent
<1>9. CASE CaptureStopRecording(p)
  <2>1. proc[p].run \in Runs /\ proc[p].active
    BY <1>9 DEF CaptureStopRecording, CaptureInv, CopiesSound
  <2> QED BY <1>9, <2>1, RecordAndGo DEF CaptureStopRecording
<1>10. CASE GetRun(p)
  <2>1. proc[p].run \in Runs /\ proc[p].active
    BY <1>10 DEF GetRun, CaptureInv, CopiesSound, Points
  <2>2. CASE runs[proc[p].run].status = "Completed"
    <3>1. /\ proc' \in [Processes -> Process]
          /\ proc'[p].at = "serve" /\ proc'[p].run = proc[p].run /\ proc'[p].active = FALSE
          /\ \A q \in Processes \ {p} : proc'[q] = proc[q]
      BY <1>0, <1>10, <2>2, StoppedSets DEF GetRun
    <3>2. TypeOK' /\ StaysClosed
      BY <1>0, <1>10, <1>q, <3>1 DEF GetRun, stored, TypeOK
    <3>3. CopyFollows(p)
      BY <2>2, <3>1 DEF CopyFollows
    <3> QED BY <1>10, <2>1, <3>1, <3>2, <3>3, QuietKeeps DEF GetRun, stored
  <2>3. CASE runs[proc[p].run].status # "Completed"
    <3>1. /\ proc' \in [Processes -> Process]
          /\ proc'[p].at = "update_run" /\ proc'[p].run = proc[p].run /\ proc'[p].active = proc[p].active
          /\ \A q \in Processes \ {p} : proc'[q] = proc[q]
      BY <1>0, <1>10, <2>3, GotoMoves DEF GetRun, Points
    <3>2. TypeOK' /\ StaysClosed
      BY <1>0, <1>10, <1>q, <3>1 DEF GetRun, stored, TypeOK
    <3>3. CopyFollows(p)
      BY <2>1, <3>1 DEF CopyFollows
    <3> QED BY <1>10, <2>1, <3>1, <3>2, <3>3, QuietKeeps DEF GetRun, stored
  <2> QED BY <2>2, <2>3
<1>11. CASE UpdateRun(p)
  <2> DEFINE r == proc[p].run
             row == [runs[r] EXCEPT !.status = "Completed"]
  <2>1. r \in Runs
    BY <1>11 DEF UpdateRun, CaptureInv, CopiesSound, Points
  <2>2. runs[r] \in CaptureRun
    BY <1>0, <2>1 DEF TypeOK
  <2>3. row \in CaptureRun /\ (runs[r].status = "Completed" => row = runs[r])
    BY <2>2 DEF CaptureRun, Statuses
  <2>4. runs' = [runs EXCEPT ![r] = row] /\ Stopped(p) /\ UNCHANGED <<clock, identity, events, listener, recording>>
    BY <1>11 DEF UpdateRun, CompleteRun
  <2> HIDE DEF row, r
  <2>5. TypeOK'
    BY <1>0, <2>1, <2>3, <2>4, StoppedSets DEF TypeOK
  <2>6. StaysClosed
    BY <1>0, <2>1, <2>3, <2>4 DEF StaysClosed, TypeOK
  <2> QED BY <1>11, <2>5, <2>6, CompleteKeeps
<1>12. CASE Exit(p)
  <2>1. Down \in Process /\ Down.at = "down" /\ Down.run = NoRun /\ ~ Down.active
    BY DEF Down, Process, Points
  <2>2. /\ proc' \in [Processes -> Process] /\ proc'[p] = Down
        /\ \A q \in Processes \ {p} : proc'[q] = proc[q]
    BY <1>0, <1>12, <2>1, BecomeSets DEF Exit
  <2>3. listener' \in [Addresses -> Daemons \cup {NoOne}]
    BY <1>0, <1>12 DEF Exit, TypeOK
  <2>4. TypeOK' /\ StaysClosed
    BY <1>12, <1>q, <2>2, <2>3 DEF Exit, stored
  <2>5. CopyFollows(p)
    BY <2>1, <2>2 DEF CopyFollows
  <2> QED BY <1>12, <2>1, <2>2, <2>4, <2>5, QuietKeeps DEF Exit, stored
<1> QED BY <1>1, <1>3, <1>4, <1>6, <1>7, <1>8, <1>9, <1>10, <1>11, <1>12 DEF Step

\* So do the steps that only daemons take.
LEMMA DaemonStepKeeps ==
  ASSUME CaptureInv, NEW p \in Daemons, DaemonStep(p)
  PROVE  CaptureInv' /\ StaysClosed
<1> p \in Processes
  BY DEF Processes
<1>0. TypeOK /\ proc[p] \in Process
  BY DEF CaptureInv, TypeOK
<1>q. ASSUME proc' \in [Processes -> Process], runs' = runs, events' = events,
             clock' = clock, identity' = identity, recording' = recording,
             listener' \in [Addresses -> Daemons \cup {NoOne}]
      PROVE  TypeOK' /\ StaysClosed
  BY <1>0, <1>q DEF TypeOK, StaysClosed
<1>2. CASE FindRun(p)
  <2>1. CASE Goto(p, "create_run")
    <3>1. /\ proc' \in [Processes -> Process]
          /\ proc'[p].at = "create_run" /\ proc'[p].run = proc[p].run /\ proc'[p].active = proc[p].active
          /\ \A q \in Processes \ {p} : proc'[q] = proc[q]
      BY <1>0, <2>1, GotoMoves DEF Points
    <3>2. TypeOK' /\ StaysClosed
      BY <1>0, <1>2, <1>q, <3>1 DEF FindRun, stored, TypeOK
    <3>3. CopyFollows(p)
      BY <3>1 DEF CopyFollows, CaptureInv, CopiesSound
    <3> QED BY <1>2, <3>1, <3>2, <3>3, QuietKeeps DEF FindRun, stored
  <2>2. CASE ~ Goto(p, "create_run")
    <3>1. PICK r \in LatestActiveRun : Become(p, [at |-> "bootstrap", run |-> r, active |-> TRUE])
      BY <1>2, <2>2 DEF FindRun
    <3>2. r \in Runs /\ runs[r].status = "Active" /\ runs[r].entry = "daemon"
      BY DEF LatestActiveRun
    <3> DEFINE state == [at |-> "bootstrap", run |-> r, active |-> TRUE]
    <3>3. state \in Process /\ state.at = "bootstrap" /\ state.run = r /\ state.active
      BY <3>2 DEF Process, Points
    <3> HIDE DEF state
    <3>4. Become(p, state)
      BY <3>1 DEF state
    <3>5. /\ proc' \in [Processes -> Process] /\ proc'[p] = state
          /\ \A q \in Processes \ {p} : proc'[q] = proc[q]
      BY <1>0, <3>3, <3>4, BecomeSets
    <3>6. TypeOK' /\ StaysClosed
      BY <1>0, <1>2, <1>q, <3>5 DEF FindRun, stored, TypeOK
    <3>8. CopyFollows(p)
      BY <3>2, <3>3, <3>5 DEF CopyFollows
    <3> QED BY <1>2, <3>2, <3>3, <3>5, <3>6, <3>8, QuietKeeps DEF FindRun, stored
  <2> QED BY <2>1, <2>2
<1>3. CASE InsertIdentity(p)
  <2>1. CASE Become(p, Down)
    <3>1. Down \in Process /\ Down.at = "down" /\ Down.run = NoRun /\ ~ Down.active
      BY DEF Down, Process, Points
    <3>2. /\ proc' \in [Processes -> Process] /\ proc'[p] = Down
          /\ \A q \in Processes \ {p} : proc'[q] = proc[q]
      BY <1>0, <2>1, <3>1, BecomeSets
    <3>3. TypeOK' /\ StaysClosed
      BY <1>0, <1>3, <3>2 DEF InsertIdentity, TypeOK, StaysClosed
    <3>4. CopyFollows(p)
      BY <3>1, <3>2 DEF CopyFollows
    <3> QED BY <1>3, <3>1, <3>2, <3>3, <3>4, QuietKeeps DEF InsertIdentity
  <2>2. CASE Goto(p, "find_run")
    <3>1. /\ proc' \in [Processes -> Process]
          /\ proc'[p].at = "find_run" /\ proc'[p].run = proc[p].run /\ proc'[p].active = proc[p].active
          /\ \A q \in Processes \ {p} : proc'[q] = proc[q]
      BY <1>0, <2>2, GotoMoves DEF Points
    <3>2. TypeOK' /\ StaysClosed
      BY <1>0, <1>3, <3>1 DEF InsertIdentity, TypeOK, StaysClosed
    <3>3. CopyFollows(p)
      BY <3>1 DEF CopyFollows, CaptureInv, CopiesSound
    <3> QED BY <1>3, <3>1, <3>2, <3>3, QuietKeeps DEF InsertIdentity
  <2> QED BY <1>3, <2>1, <2>2 DEF InsertIdentity
<1>4. ASSUME NEW a \in Addresses, Bind(p, a) PROVE CaptureInv' /\ StaysClosed
  <2>0. proc[p].run \in Runs
    BY <1>4 DEF Bind, CaptureInv, CopiesSound, Points
  <2>1. CASE Become(p, Down) /\ UNCHANGED <<listener, recording>>
    <3>1. Down \in Process /\ Down.at = "down" /\ Down.run = NoRun /\ ~ Down.active
      BY DEF Down, Process, Points
    <3>2. /\ proc' \in [Processes -> Process] /\ proc'[p] = Down
          /\ \A q \in Processes \ {p} : proc'[q] = proc[q]
      BY <1>0, <2>1, <3>1, BecomeSets
    <3>3. TypeOK' /\ StaysClosed
      BY <1>0, <1>4, <2>1, <3>2 DEF Bind, stored, TypeOK, StaysClosed
    <3>4. CopyFollows(p)
      BY <3>1, <3>2 DEF CopyFollows
    <3> QED BY <1>4, <3>1, <3>2, <3>3, <3>4, QuietKeeps DEF Bind, stored
  <2>2. CASE /\ listener' = [listener EXCEPT ![a] = p]
             /\ Goto(p, "serve")
             /\ recording' = proc[p].run
    <3>1. /\ proc' \in [Processes -> Process]
          /\ proc'[p].at = "serve" /\ proc'[p].run = proc[p].run /\ proc'[p].active = proc[p].active
          /\ \A q \in Processes \ {p} : proc'[q] = proc[q]
      BY <1>0, <2>2, GotoMoves DEF Points
    <3>2. TypeOK' /\ StaysClosed
      BY <1>0, <1>4, <2>0, <2>2, <3>1 DEF Bind, stored, TypeOK, StaysClosed
    <3>3. CopyFollows(p)
      BY <3>1 DEF CopyFollows, CaptureInv, CopiesSound
    <3> QED BY <1>4, <2>0, <3>1, <3>2, <3>3, QuietKeeps DEF Bind, stored
  <2> QED BY <1>4, <2>1, <2>2 DEF Bind
<1> QED BY <1>2, <1>3, <1>4 DEF DaemonStep

\* The invariant and what is closed, for every step of the specification.
LEMMA NextKeeps ==
  ASSUME CaptureInv, [Next]_vars
  PROVE  CaptureInv' /\ StaysClosed
<1>1. CASE UNCHANGED vars
  BY <1>1 DEF vars, CaptureInv, TypeOK, CopiesSound, ToolsAlone, Has, EntryOf, StaysClosed
<1>2. CASE Tick
  <2>1. clock' \in 0 .. MaxClock
    BY <1>2 DEF Tick, CaptureInv, TypeOK
  <2> QED BY <1>2, <2>1 DEF Tick, CaptureInv, TypeOK, CopiesSound, ToolsAlone, Has, EntryOf, StaysClosed
<1>3. ASSUME NEW p \in Processes, Step(p) PROVE CaptureInv' /\ StaysClosed
  BY <1>3, StepKeeps
<1>4. ASSUME NEW p \in Daemons, DaemonStep(p) PROVE CaptureInv' /\ StaysClosed
  BY <1>4, DaemonStepKeeps
<1> QED BY <1>1, <1>2, <1>3, <1>4 DEF Next

LEMMA CaptureInitially == ASSUME Init PROVE CaptureInv
<1>1. Down \in Process /\ Down.at = "down" /\ Down.run = NoRun /\ ~ Down.active
  BY DEF Down, Process, Points
<1>2. [status |-> "none", entry |-> "tool", started |-> 0] \in CaptureRun
  BY DEF CaptureRun, Statuses
<1>3. 0 \in 0 .. MaxEvents /\ 0 \in 0 .. MaxClock
  OBVIOUS
<1>4. TypeOK
  BY <1>1, <1>2, <1>3 DEF Init, TypeOK
<1>5. \A p \in Processes : proc[p] = Down
  BY DEF Init
<1>6. CopiesSound
  BY <1>1, <1>5 DEF CopiesSound
<1>7. ToolsAlone
  BY <1>1, <1>5 DEF ToolsAlone, Processes
<1> QED BY <1>4, <1>6, <1>7 DEF CaptureInv

\* A process knows its run: the row its copy is of exists and has its entrypoint, a copy
\* that says Completed is true, and the run of a tool is no other process's, for any
\* number of daemons, tools and addresses (new_in_root, capture_start_recording,
\* capture_stop_recording).
THEOREM CopiesStaySound == Spec => []CaptureInv
<1>1. Init => CaptureInv
  BY CaptureInitially
<1>2. CaptureInv /\ [Next]_vars => CaptureInv'
  BY NextKeeps
<1> QED BY <1>1, <1>2, PTL DEF Spec

\* A completed run stays completed, and the timeline of a run that a tool has stopped
\* gets no more events, whatever daemons and other tools do.
THEOREM ToolTimelines == Spec => ToolTimelineClosed
<1>1. CaptureInv /\ [Next]_vars => [\A r \in Runs : runs[r].status = "Completed" =>
                                       /\ runs'[r] = runs[r]
                                       /\ runs[r].entry = "tool" => events'[r] = events[r]]_vars
  BY NextKeeps DEF StaysClosed
<1> QED BY <1>1, CopiesStaySound, PTL DEF Spec, ToolTimelineClosed

-----------------------------------------------------------------------------
(* Continuity of the daemon.  As long as there was one daemon at a time,   *)
(* at most one run of a daemon is active, and a daemon that has a run has  *)
(* that one, or stopped it.                                                *)

ActiveDaemonRuns == {r \in Runs : runs[r].status = "Active" /\ runs[r].entry = "daemon"}

\* What the point a process is at says of its copy.
CopyAtPoint(p) ==
  /\ proc[p].at \in {"down", "insert_identity", "find_run", "create_run"} =>
       proc[p].run = NoRun /\ ~ proc[p].active
  /\ proc[p].at \in {"bootstrap", "bind", "start_event"} => proc[p].active

RecordingOfDaemon ==
  recording \in Runs => runs[recording].status # "none" /\ runs[recording].entry = "daemon"

OneDaemon == \A d, e \in DaemonsUp : d = e
OneActiveRun == \A r, s \in ActiveDaemonRuns : r = s

\* A daemon that is to create a run has found none to continue; one that has a run has
\* the only active one, or stopped it.
KnowsActiveRun(d) ==
  /\ proc[d].at = "create_run" => ActiveDaemonRuns = {}
  /\ proc[d].run \in Runs => ActiveDaemonRuns = IF proc[d].active THEN {proc[d].run} ELSE {}

ContinuityInv ==
  /\ CaptureInv /\ RecordingOfDaemon
  /\ \A p \in Processes : CopyAtPoint(p)
  /\ ~ contended => OneDaemon /\ OneActiveRun /\ \A d \in DaemonsUp : KnowsActiveRun(d)

\* What a step of p has to do for ContinuityInv to hold after it.
Continues(p) ==
  /\ \A q \in Processes \ {p} : proc'[q] = proc[q]
  /\ RecordingOfDaemon' /\ CopyAtPoint(p)'
  /\ p \in Tools => ActiveDaemonRuns' = ActiveDaemonRuns
  /\ p \in Daemons => p \in DaemonsUp \/ p \in DaemonsUp'
  /\ p \in Daemons /\ OneActiveRun /\ (p \in DaemonsUp => KnowsActiveRun(p)) =>
       OneActiveRun' /\ (p \in DaemonsUp' => KnowsActiveRun(p)')

ContendedNext == contended' = (contended \/ \E d, e \in DaemonsUp' : d # e)

\* A step of a process that continues keeps the invariant: with one daemon at a time
\* no other daemon's copy can go stale.
LEMMA ContinuingKeeps ==
  ASSUME ContinuityInv, CaptureInv', NEW p \in Processes, Continues(p), ContendedNext
  PROVE  ContinuityInv'
<1>1. \A q \in Processes : CopyAtPoint(q)'
  <2> SUFFICES ASSUME NEW q \in Processes, q # p PROVE CopyAtPoint(q)'
    BY DEF Continues
  <2>1. proc'[q] = proc[q]
    BY DEF Continues
  <2> QED BY <2>1 DEF ContinuityInv, CopyAtPoint
<1>2. ASSUME ~ contended' PROVE OneDaemon' /\ OneActiveRun' /\ \A d \in DaemonsUp' : KnowsActiveRun(d)'
  <2>1. ~ contended /\ OneDaemon'
    BY <1>2 DEF ContendedNext, OneDaemon
  <2>2. OneDaemon /\ OneActiveRun /\ \A d \in DaemonsUp : KnowsActiveRun(d)
    BY <2>1 DEF ContinuityInv
  <2>3. CASE p \in Daemons
    <3>1. OneActiveRun' /\ (p \in DaemonsUp' => KnowsActiveRun(p)')
      BY <2>2, <2>3 DEF Continues
    <3>2. ASSUME NEW d \in DaemonsUp' PROVE d = p
      <4>1. CASE p \in DaemonsUp'
        BY <2>1, <4>1 DEF OneDaemon
      <4>2. CASE p \notin DaemonsUp' /\ d # p
        <5>1. d \in DaemonsUp /\ p \in DaemonsUp
          BY <2>3, <4>2 DEF Continues, DaemonsUp, Processes
        <5> QED BY <2>2, <5>1 DEF OneDaemon
      <4> QED BY <4>1, <4>2
    <3> QED BY <2>1, <3>1, <3>2
  <2>4. CASE p \in Tools
    <3>1. p \notin Daemons /\ ActiveDaemonRuns' = ActiveDaemonRuns
      BY <2>4 DEF Continues
    <3>2. \A d \in Daemons : proc'[d] = proc[d]
      BY <3>1 DEF Continues, Processes
    <3>3. OneActiveRun'
      BY <2>2, <3>1 DEF OneActiveRun
    <3>4. ASSUME NEW d \in DaemonsUp' PROVE KnowsActiveRun(d)'
      <4>1. d \in DaemonsUp /\ proc'[d] = proc[d]
        BY <3>2 DEF DaemonsUp
      <4>2. KnowsActiveRun(d)
        BY <2>2, <4>1
      <4> QED BY <3>1, <4>1, <4>2 DEF KnowsActiveRun
    <3> QED BY <2>1, <3>3, <3>4
  <2> QED BY <2>3, <2>4, Entries
<1>3. RecordingOfDaemon'
  BY DEF Continues
<1> QED BY <1>1, <1>2, <1>3 DEF ContinuityInv

\* The points at which a process has no run yet.
Early == {"down", "insert_identity", "find_run", "create_run"}

\* p goes on with the copy it has.
LEMMA MovingContinues ==
  ASSUME ContinuityInv, NEW p \in Processes, runs' = runs, recording' \in {recording, proc[p].run},
         recording' # recording => p \in Daemons,
         \A q \in Processes \ {p} : proc'[q] = proc[q],
         proc'[p].run = proc[p].run, proc'[p].active = proc[p].active,
         proc'[p].at \in Early => proc[p].at \in Early,
         proc'[p].at \in {"bootstrap", "bind", "start_event"} => proc[p].active,
         proc[p].at # "down" \/ proc'[p].at # "down",
         p \in Daemons /\ proc'[p].at = "create_run" => ActiveDaemonRuns = {}
  PROVE  Continues(p)
<1>1. ActiveDaemonRuns' = ActiveDaemonRuns
  BY DEF ActiveDaemonRuns
<1>2. RecordingOfDaemon'
  <2>1. CASE recording' = recording
    BY <2>1 DEF ContinuityInv, RecordingOfDaemon
  <2>2. CASE recording' # recording
    BY <2>2, Entries DEF ContinuityInv, RecordingOfDaemon, CaptureInv, CopiesSound
  <2> QED BY <2>1, <2>2
<1>3. CopyAtPoint(p)'
  BY DEF ContinuityInv, CopyAtPoint, Early
<1>4. p \in Daemons => p \in DaemonsUp \/ p \in DaemonsUp'
  BY DEF DaemonsUp
<1>5. ASSUME p \in Daemons, OneActiveRun, p \in DaemonsUp => KnowsActiveRun(p)
      PROVE  OneActiveRun' /\ (p \in DaemonsUp' => KnowsActiveRun(p)')
  <2>1. OneActiveRun'
    BY <1>1, <1>5 DEF OneActiveRun
  <2>2. CASE proc[p].at = "down"
    <3>1. proc[p].run = NoRun
      BY <2>2 DEF ContinuityInv, CopyAtPoint
    <3> QED BY <1>1, <1>5, <2>1, <3>1 DEF KnowsActiveRun
  <2>3. CASE proc[p].at # "down"
    <3>1. p \in DaemonsUp
      BY <1>5, <2>3 DEF DaemonsUp
    <3> QED BY <1>1, <1>5, <2>1, <3>1 DEF KnowsActiveRun
  <2> QED BY <2>2, <2>3
<1> QED BY <1>1, <1>2, <1>3, <1>4, <1>5 DEF Continues

\* p is killed, or cannot start.
LEMMA DownContinues ==
  ASSUME ContinuityInv, NEW p \in Processes, runs' = runs, recording' = recording,
         \A q \in Processes \ {p} : proc'[q] = proc[q], proc'[p] = Down, proc[p].at # "down"
  PROVE  Continues(p)
<1>0. Down.at = "down" /\ Down.run = NoRun /\ ~ Down.active
  BY DEF Down
<1>1. ActiveDaemonRuns' = ActiveDaemonRuns
  BY DEF ActiveDaemonRuns
<1>2. RecordingOfDaemon' /\ CopyAtPoint(p)'
  BY <1>0 DEF ContinuityInv, RecordingOfDaemon, CopyAtPoint
<1>3. p \notin DaemonsUp' /\ (p \in Daemons => p \in DaemonsUp)
  BY <1>0 DEF DaemonsUp
<1> QED BY <1>1, <1>2, <1>3 DEF Continues, OneActiveRun

\* p finds that its run is completed already: with one daemon at a time only its own
\* stop can have completed it.
LEMMA StoppedContinues ==
  ASSUME ContinuityInv, NEW p \in Processes, runs' = runs, recording' = recording,
         \A q \in Processes \ {p} : proc'[q] = proc[q],
         proc'[p].at = "serve", proc'[p].run = proc[p].run, proc'[p].active = FALSE,
         proc[p].run \in Runs, proc[p].active, proc[p].at # "down",
         runs[proc[p].run].status = "Completed"
  PROVE  Continues(p)
<1>1. ActiveDaemonRuns' = ActiveDaemonRuns /\ proc[p].run \notin ActiveDaemonRuns
  BY DEF ActiveDaemonRuns
<1>2. RecordingOfDaemon' /\ CopyAtPoint(p)'
  BY DEF ContinuityInv, RecordingOfDaemon, CopyAtPoint
<1>3. p \in Daemons => p \in DaemonsUp
  BY DEF DaemonsUp
<1>4. p \in Daemons => ~ KnowsActiveRun(p)
  BY <1>1 DEF KnowsActiveRun
<1> QED BY <1>1, <1>2, <1>3, <1>4 DEF Continues

\* A daemon creates a run only when no run of a daemon is active.
LEMMA CreateContinues ==
  ASSUME ContinuityInv, NEW p \in Processes, NEW r \in Runs,
         NEW label \in {"bootstrap", "start_event"}, CreateRun(p, r, label),
         recording' = recording \/ (p \in Daemons /\ recording' = r),
         proc[p].at = "create_run" \/ (proc[p].at = "serve" /\ ~ proc[p].active)
  PROVE  Continues(p)
<1>0. TypeOK
  BY DEF ContinuityInv, CaptureInv
<1>1. /\ proc'[p] = [at |-> label, run |-> r, active |-> TRUE]
      /\ \A q \in Processes \ {p} : proc'[q] = proc[q]
  BY <1>0 DEF CreateRun, Become, TypeOK
<1>2. /\ runs[r].status = "none"
      /\ runs'[r].status = "Active" /\ runs'[r].entry = EntryOf(p)
      /\ \A s \in Runs \ {r} : runs'[s] = runs[s]
  BY <1>0 DEF CreateRun, TypeOK
<1>3. ActiveDaemonRuns' = IF p \in Daemons THEN ActiveDaemonRuns \cup {r} ELSE ActiveDaemonRuns
  BY <1>2 DEF ActiveDaemonRuns, EntryOf
<1>4. RecordingOfDaemon'
  <2>1. CASE recording' = recording
    BY <1>2, <2>1 DEF ContinuityInv, RecordingOfDaemon
  <2>2. CASE p \in Daemons /\ recording' = r
    BY <1>2, <2>2 DEF RecordingOfDaemon, EntryOf
  <2> QED BY <2>1, <2>2
<1>5. CopyAtPoint(p)'
  BY <1>1 DEF CopyAtPoint
<1>6. p \in Daemons => p \in DaemonsUp
  BY DEF DaemonsUp
<1>7. ASSUME p \in Daemons, KnowsActiveRun(p)
      PROVE  OneActiveRun' /\ KnowsActiveRun(p)'
  <2>1. proc[p].at = "serve" => proc[p].run \in Runs
    BY DEF ContinuityInv, CaptureInv, CopiesSound, Points
  <2>2. ActiveDaemonRuns = {}
    BY <1>7, <2>1 DEF KnowsActiveRun
  <2>3. ActiveDaemonRuns' = {r}
    BY <1>3, <1>7, <2>2
  <2> QED BY <1>1, <2>3 DEF OneActiveRun, KnowsActiveRun
<1>8. p \in Tools => ActiveDaemonRuns' = ActiveDaemonRuns
  BY <1>3
<1> QED BY <1>1, <1>4, <1>5, <1>6, <1>7, <1>8 DEF Continues

\* Stopping completes the only active run of a daemon.
LEMMA UpdateContinues ==
  ASSUME ContinuityInv, NEW p \in Processes, UpdateRun(p)
  PROVE  Continues(p)
<1> DEFINE r == proc[p].run
<1>0. TypeOK
  BY DEF ContinuityInv, CaptureInv
<1>1. r \in Runs /\ proc[p].active /\ runs[r].entry = EntryOf(p) /\ runs[r].status # "none"
  BY DEF UpdateRun, ContinuityInv, CaptureInv, CopiesSound, Points
<1>2. /\ proc'[p].at = "serve" /\ proc'[p].run = r /\ proc'[p].active = FALSE
      /\ \A q \in Processes \ {p} : proc'[q] = proc[q]
  BY <1>0, StoppedSets DEF UpdateRun, CompleteRun
<1>3. runs[r] \in CaptureRun
  BY <1>0, <1>1 DEF TypeOK
<1>4. /\ runs'[r] = [runs[r] EXCEPT !.status = "Completed"]
      /\ \A s \in Runs \ {r} : runs'[s] = runs[s]
  BY <1>0, <1>1 DEF UpdateRun, CompleteRun, TypeOK
<1>5. runs'[r].status = "Completed" /\ runs'[r].entry = runs[r].entry
  BY <1>3, <1>4 DEF CaptureRun
<1>6. proc[p].at # "down" /\ recording' = recording
  BY DEF UpdateRun
<1>7. proc[p].run = r
  OBVIOUS
<1> HIDE DEF r
<1>8. ActiveDaemonRuns' = ActiveDaemonRuns \ {r}
  BY <1>1, <1>4, <1>5 DEF ActiveDaemonRuns
<1>9. RecordingOfDaemon'
  BY <1>1, <1>4, <1>5, <1>6 DEF ContinuityInv, RecordingOfDaemon
<1>10. CopyAtPoint(p)'
  BY <1>2 DEF CopyAtPoint
<1>11. p \in Tools => ActiveDaemonRuns' = ActiveDaemonRuns
  BY <1>1, <1>8, Entries DEF ActiveDaemonRuns
<1>12. p \in Daemons => p \in DaemonsUp
  BY <1>6 DEF DaemonsUp
<1>13. ASSUME p \in Daemons, KnowsActiveRun(p)
       PROVE  OneActiveRun' /\ KnowsActiveRun(p)'
  <2>1. ActiveDaemonRuns = {r}
    BY <1>1, <1>7, <1>13 DEF KnowsActiveRun
  <2>2. ActiveDaemonRuns' = {}
    BY <1>8, <2>1
  <2> QED BY <1>2, <2>2 DEF OneActiveRun, KnowsActiveRun
<1> QED BY <1>2, <1>9, <1>10, <1>11, <1>12, <1>13 DEF Continues

\* A daemon finds the only active run there is, or none.
LEMMA FindContinues ==
  ASSUME ContinuityInv, NEW p \in Daemons, FindRun(p)
  PROVE  Continues(p)
<1>0. TypeOK /\ p \in Processes /\ runs' = runs /\ recording' = recording /\ proc[p].at = "find_run"
  BY DEF ContinuityInv, CaptureInv, FindRun, stored, Processes
<1>1. ActiveDaemonRuns' = ActiveDaemonRuns
  BY <1>0 DEF ActiveDaemonRuns
<1>2. p \in DaemonsUp
  BY <1>0 DEF DaemonsUp
<1>3. proc[p].run = NoRun /\ ~ proc[p].active
  BY <1>0 DEF ContinuityInv, CopyAtPoint
<1>4. CASE LatestActiveRun = {}
  <2>1. /\ proc'[p].at = "create_run" /\ proc'[p].run = proc[p].run /\ proc'[p].active = proc[p].active
        /\ \A q \in Processes \ {p} : proc'[q] = proc[q]
    BY <1>0, <1>4, GotoMoves DEF FindRun, Points
  <2>2. ASSUME OneActiveRun PROVE ActiveDaemonRuns = {}
    <3> SUFFICES ASSUME NEW r \in ActiveDaemonRuns PROVE r \in LatestActiveRun
      BY <1>4
    <3>1. r \in Runs /\ runs[r].status = "Active" /\ runs[r].entry = "daemon" /\ runs[r].started \in 0 .. MaxClock
      BY <1>0 DEF ActiveDaemonRuns, TypeOK, CaptureRun
    <3>2. \A q \in Runs : runs[q].status = "Active" /\ runs[q].entry = "daemon" => q = r
      BY <2>2 DEF OneActiveRun, ActiveDaemonRuns
    <3>3. \A q \in Runs : runs[q].status = "Active" /\ runs[q].entry = "daemon" =>
            runs[q].started <= runs[r].started
      BY <3>1, <3>2
    <3> QED BY <3>1, <3>3 DEF LatestActiveRun
  <2>3. RecordingOfDaemon' /\ CopyAtPoint(p)'
    BY <1>0, <1>3, <2>1 DEF ContinuityInv, RecordingOfDaemon, CopyAtPoint
  <2>4. OneActiveRun => OneActiveRun' /\ KnowsActiveRun(p)'
    BY <1>1, <1>3, <2>1, <2>2 DEF KnowsActiveRun, OneActiveRun
  <2> QED BY <1>1, <1>2, <2>1, <2>3, <2>4 DEF Continues
<1>5. CASE LatestActiveRun # {}
  <2>1. PICK r \in LatestActiveRun : Become(p, [at |-> "bootstrap", run |-> r, active |-> TRUE])
    BY <1>5 DEF FindRun
  <2>2. /\ proc'[p] = [at |-> "bootstrap", run |-> r, active |-> TRUE]
        /\ \A q \in Processes \ {p} : proc'[q] = proc[q]
    BY <1>0, <2>1 DEF Become, TypeOK
  <2>3. r \in ActiveDaemonRuns /\ r \in Runs
    BY DEF LatestActiveRun, ActiveDaemonRuns
  <2>4. OneActiveRun => ActiveDaemonRuns = {r}
    BY <2>3 DEF OneActiveRun
  <2>5. RecordingOfDaemon' /\ CopyAtPoint(p)'
    BY <1>0, <2>2 DEF ContinuityInv, RecordingOfDaemon, CopyAtPoint
  <2>6. OneActiveRun => OneActiveRun' /\ KnowsActiveRun(p)'
    BY <1>1, <2>2, <2>4 DEF KnowsActiveRun, OneActiveRun
  <2> QED BY <1>1, <1>2, <2>2, <2>5, <2>6 DEF Continues
<1> QED BY <1>4, <1>5

\* Every step of a process continues.
LEMMA StepContinues ==
  ASSUME ContinuityInv, NEW p \in Processes, Step(p)
  PROVE  Continues(p)
<1>0. CaptureInv /\ TypeOK /\ CopyAtPoint(p) /\ (proc[p].at \in Points \ Early => proc[p].run \in Runs)
  BY DEF ContinuityInv, CaptureInv, CopiesSound, Early
<1>g. ASSUME NEW label \in Points, Goto(p, label), proc[p].at # "down" \/ label # "down",
             runs' = runs, recording' = recording,
             label \in Early => proc[p].at \in Early,
             label \in {"bootstrap", "bind", "start_event"} => proc[p].active,
             p \in Daemons => label # "create_run"
      PROVE  Continues(p)
  <2>1. /\ proc'[p].at = label /\ proc'[p].run = proc[p].run /\ proc'[p].active = proc[p].active
        /\ \A q \in Processes \ {p} : proc'[q] = proc[q]
    BY <1>0, <1>g, GotoMoves
  <2> QED BY <1>g, <2>1, MovingContinues
<1>s. ASSUME proc' = proc, runs' = runs, recording' = recording, proc[p].at = "serve" PROVE Continues(p)
  BY <1>s, MovingContinues DEF Early
<1>1. CASE Boot(p)
  BY <1>1, <1>g DEF Boot, Points, Early
<1>2. CASE CreateFirstRun(p)
  BY <1>2, CreateContinues DEF CreateFirstRun
<1>3. CASE BootstrapEvent(p)
  BY <1>0, <1>3, <1>g DEF BootstrapEvent, CopyAtPoint, Points, Early
<1>4. CASE Operate(p)
  BY <1>4, <1>s DEF Operate
<1>5. CASE CaptureStartRecording(p)
  <2>1. CASE proc[p].active
    BY <1>5, <1>s, <2>1 DEF CaptureStartRecording
  <2>2. CASE ~ proc[p].active
    <3>1. PICK r \in Runs : /\ CreateRun(p, r, "start_event")
                            /\ recording' = IF p \in Daemons THEN r ELSE recording
      BY <1>5, <2>2 DEF CaptureStartRecording
    <3> QED BY <1>5, <2>2, <3>1, CreateContinues DEF CaptureStartRecording
  <2> QED BY <2>1, <2>2
<1>6. CASE StartEvent(p)
  BY <1>6, <1>g DEF StartEvent, Points, Early
<1>7. CASE CaptureStopRecording(p)
  BY <1>7, <1>g DEF CaptureStopRecording, Points, Early
<1>8. CASE GetRun(p)
  <2>1. proc[p].run \in Runs /\ proc[p].active
    BY <1>8 DEF GetRun, ContinuityInv, CaptureInv, CopiesSound, Points
  <2>2. CASE runs[proc[p].run].status = "Completed"
    <3>1. Stopped(p) /\ runs' = runs /\ recording' = recording /\ proc[p].at = "get_run"
      BY <1>8, <2>2 DEF GetRun, stored
    <3>2. /\ proc'[p].at = "serve" /\ proc'[p].run = proc[p].run /\ proc'[p].active = FALSE
          /\ \A q \in Processes \ {p} : proc'[q] = proc[q]
      BY <1>0, <3>1, StoppedSets
    <3> QED BY <2>1, <2>2, <3>1, <3>2, StoppedContinues
  <2>3. CASE runs[proc[p].run].status # "Completed"
    BY <1>8, <1>g, <2>3 DEF GetRun, stored, Points, Early
  <2> QED BY <2>2, <2>3
<1>9. CASE UpdateRun(p)
  BY <1>9, UpdateContinues
<1>10. CASE Exit(p)
  <2>1. proc'[p] = Down /\ \A q \in Processes \ {p} : proc'[q] = proc[q]
    BY <1>0, <1>10 DEF Exit, Become, TypeOK
  <2> QED BY <1>10, <2>1, DownContinues DEF Exit, stored
<1> QED BY <1>1, <1>2, <1>3, <1>4, <1>5, <1>6, <1>7, <1>8, <1>9, <1>10 DEF Step

\* So does every step that only daemons take.
LEMMA DaemonStepContinues ==
  ASSUME ContinuityInv, NEW p \in Daemons, DaemonStep(p)
  PROVE  Continues(p)
<1>0. TypeOK /\ p \in Processes
  BY DEF ContinuityInv, CaptureInv, Processes
<1>d. ASSUME Become(p, Down), runs' = runs, recording' = recording, proc[p].at # "down" PROVE Continues(p)
  <2>1. proc'[p] = Down /\ \A q \in Processes \ {p} : proc'[q] = proc[q]
    BY <1>0, <1>d DEF Become, TypeOK
  <2> QED BY <1>0, <1>d, <2>1, DownContinues
<1>1. CASE FindRun(p)
  BY <1>1, FindContinues
<1>2. CASE InsertIdentity(p)
  <2>1. runs' = runs /\ recording' = recording /\ proc[p].at = "insert_identity"
    BY <1>2 DEF InsertIdentity
  <2>2. CASE identity
    BY <1>2, <1>d, <2>1, <2>2 DEF InsertIdentity
  <2>3. CASE ~ identity
    <3>1. /\ proc'[p].at = "find_run" /\ proc'[p].run = proc[p].run /\ proc'[p].active = proc[p].active
          /\ \A q \in Processes \ {p} : proc'[q] = proc[q]
      BY <1>0, <1>2, <2>3, GotoMoves DEF InsertIdentity, Points
    <3> QED BY <1>0, <2>1, <3>1, MovingContinues DEF Early
  <2> QED BY <2>2, <2>3
<1>3. ASSUME NEW a \in Addresses, Bind(p, a) PROVE Continues(p)
  <2>1. runs' = runs /\ proc[p].at = "bind"
    BY <1>3 DEF Bind, stored
  <2>2. CASE listener[a] # NoOne
    BY <1>3, <1>d, <2>1, <2>2 DEF Bind
  <2>3. CASE listener[a] = NoOne
    <3>1. Goto(p, "serve") /\ recording' = proc[p].run
      BY <1>3, <2>3 DEF Bind
    <3>2. /\ proc'[p].at = "serve" /\ proc'[p].run = proc[p].run /\ proc'[p].active = proc[p].active
          /\ \A q \in Processes \ {p} : proc'[q] = proc[q]
      BY <1>0, <3>1, GotoMoves DEF Points
    <3> QED BY <1>0, <2>1, <3>1, <3>2, MovingContinues DEF Early
  <2> QED BY <2>2, <2>3
<1> QED BY <1>1, <1>2, <1>3 DEF DaemonStep

LEMMA ContinuityInitially == ASSUME Init PROVE ContinuityInv
<1>1. CaptureInv
  BY CaptureInitially
<1>2. Down.at = "down" /\ Down.run = NoRun /\ ~ Down.active
  BY DEF Down
<1>3. \A p \in Processes : proc[p] = Down
  BY DEF Init
<1>4. RecordingOfDaemon /\ \A p \in Processes : CopyAtPoint(p)
  BY <1>2, <1>3 DEF Init, RecordingOfDaemon, CopyAtPoint
<1>5. DaemonsUp = {} /\ ActiveDaemonRuns = {}
  BY <1>2, <1>3 DEF DaemonsUp, ActiveDaemonRuns, Processes, Init
<1> QED BY <1>1, <1>4, <1>5 DEF ContinuityInv, OneDaemon, OneActiveRun

LEMMA ContinuityInductive == ASSUME ContinuityInv, [Next]_vars PROVE ContinuityInv'
<1>0. CaptureInv'
  BY NextKeeps DEF ContinuityInv
<1>1. CASE Next /\ ~ Tick
  <2>1. PICK p \in Processes : Step(p) \/ (p \in Daemons /\ DaemonStep(p))
    BY <1>1 DEF Next, Processes
  <2>2. Continues(p)
    BY <2>1, StepContinues, DaemonStepContinues
  <2>3. ContendedNext
    BY <1>1 DEF Next, ContendedNext
  <2> QED BY <1>0, <2>2, <2>3, ContinuingKeeps
<1>2. CASE UNCHANGED vars \/ (Next /\ Tick)
  <2>1. runs' = runs /\ proc' = proc /\ recording' = recording
    BY <1>2 DEF vars, Tick
  <2>2. ActiveDaemonRuns' = ActiveDaemonRuns /\ DaemonsUp' = DaemonsUp /\ RecordingOfDaemon'
    BY <2>1 DEF ActiveDaemonRuns, DaemonsUp, ContinuityInv, RecordingOfDaemon
  <2>3. \A p \in Processes : CopyAtPoint(p)'
    BY <2>1 DEF ContinuityInv, CopyAtPoint
  <2>4. ~ contended' => ~ contended
    BY <1>2 DEF vars, Next
  <2>5. ~ contended' => OneDaemon' /\ OneActiveRun' /\ \A d \in DaemonsUp' : KnowsActiveRun(d)'
    BY <2>1, <2>2, <2>4 DEF ContinuityInv, OneDaemon, OneActiveRun, KnowsActiveRun
  <2> QED BY <1>0, <2>2, <2>3, <2>5 DEF ContinuityInv
<1> QED BY <1>1, <1>2

LEMMA ContinuityInvariance == Spec => []ContinuityInv
<1>1. Init => ContinuityInv
  BY ContinuityInitially
<1>2. ContinuityInv /\ [Next]_vars => ContinuityInv'
  BY ContinuityInductive
<1> QED BY <1>1, <1>2, PTL DEF Spec

\* An event goes to the run of an active copy, and that run is active.
LEMMA RecordsInActiveRun ==
  ASSUME ContinuityInv, ~ contended, NEW p \in Processes, proc[p].active, proc[p].at # "down"
  PROVE  proc[p].run \in Runs /\ runs[proc[p].run].status = "Active"
<1>1. proc[p].run \in Runs
  BY DEF ContinuityInv, CaptureInv, CopiesSound
<1>2. CASE p \in Tools
  BY <1>1, <1>2 DEF ContinuityInv, CaptureInv, ToolsAlone
<1>3. CASE p \in Daemons
  <2>1. KnowsActiveRun(p)
    BY <1>3 DEF ContinuityInv, DaemonsUp
  <2> QED BY <1>1, <2>1 DEF KnowsActiveRun, ActiveDaemonRuns
<1> QED BY <1>2, <1>3, Entries

\* A step that appends events records them for a process that is up.
LEMMA EventsOfStep ==
  ASSUME [Next]_vars, events' # events
  PROVE  \E p \in Processes : RecordEvent(p) /\ proc[p].at # "down"
<1>1. PICK p \in Processes : Step(p) \/ (p \in Daemons /\ DaemonStep(p))
  BY DEF Next, vars, Tick, Processes
<1>2. Step(p)
  BY <1>1 DEF DaemonStep, InsertIdentity, FindRun, Bind, stored
<1>3. BootstrapEvent(p) \/ Operate(p) \/ CaptureStartRecording(p) \/ StartEvent(p) \/ CaptureStopRecording(p)
  BY <1>2 DEF Step, Boot, CreateFirstRun, GetRun, UpdateRun, Exit, stored
<1> QED BY <1>3 DEF BootstrapEvent, Operate, CaptureStartRecording, StartEvent, CaptureStopRecording

\* No event is appended to a completed run, whoever stopped it and however often daemons
\* die and start again, as long as there is one daemon at a time (record_event,
\* capture_stop_recording, new_in_root).
THEOREM TimelinesStayClosed == Spec => TimelineClosed
<1>1. ContinuityInv /\ [Next]_vars =>
        [~ contended' => \A r \in Runs : runs[r].status = "Completed" => events'[r] = events[r]]_vars
  <2> SUFFICES ASSUME ContinuityInv, [Next]_vars, ~ contended', NEW r \in Runs,
                      runs[r].status = "Completed", events'[r] # events[r]
               PROVE  FALSE
    OBVIOUS
  <2>1. PICK p \in Processes : RecordEvent(p) /\ proc[p].at # "down"
    BY EventsOfStep
  <2>2. proc[p].active /\ proc[p].run = r
    BY <2>1, RecordEventEffect DEF ContinuityInv
  <2>3. ~ contended
    BY DEF Next, vars
  <2> QED BY <2>1, <2>2, <2>3, RecordsInActiveRun
<1> QED BY <1>1, ContinuityInvariance, PTL DEF Spec, TimelineClosed

\* A daemon that starts to serve has the run the last one was recording when it died,
\* unless that run was stopped, for any number of restarts of any number of daemons, one
\* at a time (latest_active_run, new_in_root, serve_runtime).
THEOREM RestartResumes == Spec => ResumesRecording
<1>1. ContinuityInv /\ [Next]_vars =>
        [~ contended' => \A d \in Daemons : proc[d].at = "bind" /\ proc'[d].at = "serve" /\ recording # NoRun =>
           (runs[recording].status = "Active" => Has(d, recording))]_vars
  <2> SUFFICES ASSUME ContinuityInv, [Next]_vars, ~ contended', NEW d \in Daemons,
                      proc[d].at = "bind", recording # NoRun, runs[recording].status = "Active"
               PROVE  proc[d].run = recording
    BY DEF Has
  <2>1. ~ contended
    BY DEF Next, vars
  <2>2. KnowsActiveRun(d) /\ proc[d].active /\ proc[d].run \in Runs
    BY <2>1 DEF ContinuityInv, DaemonsUp, CopyAtPoint, CaptureInv, CopiesSound, Processes, Points
  <2>3. recording \in ActiveDaemonRuns
    BY DEF ContinuityInv, CaptureInv, TypeOK, RecordingOfDaemon, ActiveDaemonRuns
  <2> QED BY <2>2, <2>3 DEF KnowsActiveRun
<1> QED BY <1>1, ContinuityInvariance, PTL DEF Spec, ResumesRecording

=============================================================================
