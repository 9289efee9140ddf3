-------------------------- MODULE ScenarioRecorder --------------------------
(***************************************************************************)
(* The scenario recorder: scenario runs, their steps and the evidence      *)
(* (assertions and latency samples) that processes record in the store.    *)
(* Every recorder command is a process of its own: it checks what it has   *)
(* to in one or more statements and then writes in another, so commands of *)
(* different processes interleave between a check and the write.           *)
(*                                                                         *)
(* finished_at is set together with the final status, and only then: a row *)
(* is unfinished while its status is "running".  Assertions and latency    *)
(* samples go through the same checks and are records here.  Ids are fresh.*)
(***************************************************************************)
EXTENDS Naturals

CONSTANTS
  Processes,   \* recorder commands that may run at a time
  Runs,        \* ids of scenario runs
  Steps,       \* ids of scenario steps
  Records,     \* ids of assertions and latency samples
  NoStep,      \* the step of a record that belongs to the run as a whole
  Idle         \* a process with no command

ASSUME NoStepAssumption == NoStep \notin Steps \cup Records

VARIABLES
  runs,          \* run -> "none", "running", or its final status
  fingerprints,  \* runs whose environment fingerprint is stored
  steps,         \* rows of scenario_steps
  records,       \* rows of scenario_assertions and latency_samples
  op,            \* process -> its command
  overlapped     \* runs that two commands were about at a time (history)

stored == <<runs, fingerprints, steps, records>>
vars == <<runs, fingerprints, steps, records, op, overlapped>>

Final == {"passed", "failed"}
ScenarioStep == [id : Steps, run : Runs, ordinal : Nat \ {0}, status : {"running"} \cup Final]
Record == [id : Records, run : Runs, step : Steps \cup {NoStep}]

\* A command: the statement it makes next, the ids it is about, the status it sets,
\* and the step row it has read.
Labels == {"insert_run", "insert_fingerprint", "run_active", "step_of_run", "step_active",
           "insert_step", "insert_record", "get_step", "update_step", "get_run",
           "steps_finished", "update_run"}
Command(at, run, step, record, status) ==
  [at |-> at, run |-> run, step |-> step, record |-> record, status |-> status, row |-> {}]
Commands ==
  [at : Labels, run : Runs, step : Steps \cup {NoStep}, record : Records \cup {NoStep},
   status : {"running"} \cup Final, row : SUBSET ScenarioStep]

ASSUME ScenarioIdleAssumption == Idle \notin Commands

Init ==
  /\ runs = [r \in Runs |-> "none"]
  /\ fingerprints = {}
  /\ steps = {}
  /\ records = {}
  /\ op = [p \in Processes |-> Idle]
  /\ overlapped = {}

-----------------------------------------------------------------------------
(* Commands.                                                               *)

Begin(p, c) ==
  /\ op[p] = Idle
  /\ op' = [op EXCEPT ![p] = c]
  /\ overlapped' = overlapped \cup {r \in {c.run} : \E q \in Processes : op[q] # Idle /\ op[q].run = r}
  /\ UNCHANGED stored

At(p, label) == op[p] # Idle /\ op[p].at = label
Continue(p, label) == op' = [op EXCEPT ![p] = [@ EXCEPT !.at = label]]
Answer(p) == op' = [op EXCEPT ![p] = Idle]

\* A statement that only checks: the command goes on or is refused.
Check(p, label, holds, next) ==
  /\ At(p, label)
  /\ IF holds THEN Continue(p, next) ELSE Answer(p)
  /\ UNCHANGED stored

ScenarioRecordRun(p, r) ==
  /\ runs[r] = "none"
  /\ \A q \in Processes : op[q] # Idle => op[q].run # r
  /\ Begin(p, Command("insert_run", r, NoStep, NoStep, "running"))

ScenarioRecordStep(p, r, s) ==
  /\ runs[r] # "none"
  /\ \A x \in steps : x.id # s
  /\ \A q \in Processes : op[q] # Idle => op[q].step # s
  /\ Begin(p, Command("run_active", r, s, NoStep, "running"))

ScenarioRecordEvidence(p, r, s, k) ==
  /\ runs[r] # "none"
  /\ s # NoStep => \E x \in steps : x.id = s
  /\ \A x \in records : x.id # k
  /\ \A q \in Processes : op[q] # Idle => op[q].record # k
  /\ Begin(p, Command("run_active", r, s, k, "running"))

ScenarioFinishStep(p, x, status) ==
  /\ x \in steps
  /\ Begin(p, Command("get_step", x.run, x.id, NoStep, status))

ScenarioFinishRun(p, r, status) ==
  /\ runs[r] # "none"
  /\ Begin(p, Command("get_run", r, NoStep, NoStep, status))

-----------------------------------------------------------------------------
(* Statements.                                                             *)

InsertRun(p) ==
  /\ At(p, "insert_run")
  /\ runs' = [runs EXCEPT ![op[p].run] = "running"]
  /\ Continue(p, "insert_fingerprint")
  /\ UNCHANGED <<fingerprints, steps, records>>

InsertFingerprint(p) ==
  /\ At(p, "insert_fingerprint")
  /\ fingerprints' = fingerprints \cup {op[p].run}
  /\ Answer(p)
  /\ UNCHANGED <<runs, steps, records>>

\* What ensure_run_active is followed by: a step is inserted at once, evidence for a
\* step after two more checks.
\* Mutant: whether the step belongs to the run is not checked.
NoOwnerCheck(c) ==
  IF c.record = NoStep THEN "insert_step"
  ELSE IF c.step = NoStep THEN "insert_record" ELSE "step_active"
AfterRunActive(c) ==
  IF c.record = NoStep THEN "insert_step"
  ELSE IF c.step = NoStep THEN "insert_record" ELSE "step_of_run"

RunActive(p) == Check(p, "run_active", runs[op[p].run] = "running", AfterRunActive(op[p]))

StepOfRun(p) ==
  Check(p, "step_of_run", \E x \in steps : x.id = op[p].step /\ x.run = op[p].run, "step_active")
StepActive(p) ==
  Check(p, "step_active", \E x \in steps : x.id = op[p].step /\ x.status = "running", "insert_record")

\* finish_run_record reads the run, then lists its steps.
\* Mutant: any run that exists can be finished.
GetAnyRun(p) == Check(p, "get_run", runs[op[p].run] # "none", "steps_finished")
GetRun(p) == Check(p, "get_run", runs[op[p].run] = "running", "steps_finished")

StepsOf(r) == {x \in steps : x.run = r}

\* Mutant: a run is finished whatever its steps do.
NoStepsCheck(p) == Check(p, "steps_finished", TRUE, "update_run")
StepsFinished(p) ==
  Check(p, "steps_finished", \A x \in StepsOf(op[p].run) : x.status # "running", "update_run")

\* SELECT COALESCE(MAX(ordinal), 0) + 1.
\* Mutant: of all runs.
NextOverall(r) ==
  IF steps = {} THEN 1 ELSE (CHOOSE x \in steps : \A y \in steps : y.ordinal <= x.ordinal).ordinal + 1
NextOrdinal(r) ==
  IF StepsOf(r) = {} THEN 1
  ELSE (CHOOSE x \in StepsOf(r) : \A y \in StepsOf(r) : y.ordinal <= x.ordinal).ordinal + 1

\* One IMMEDIATE transaction.
InsertStep(p) ==
  /\ At(p, "insert_step")
  /\ LET row == [id |-> op[p].step, run |-> op[p].run, ordinal |-> NextOrdinal(op[p].run),
                 status |-> "running"]
     IN  steps' = steps \cup {row}
  /\ Answer(p)
  /\ UNCHANGED <<runs, fingerprints, records>>

InsertRecord(p) ==
  /\ At(p, "insert_record")
  /\ records' = records \cup {[id |-> op[p].record, run |-> op[p].run, step |-> op[p].step]}
  /\ Answer(p)
  /\ UNCHANGED <<runs, fingerprints, steps>>

GetStep(p) ==
  /\ At(p, "get_step")
  /\ \E x \in steps :
       /\ x.id = op[p].step
       /\ IF x.status = "running"
          THEN op' = [op EXCEPT ![p] = [@ EXCEPT !.at = "update_step", !.row = {x}]]
          ELSE Answer(p)
  /\ UNCHANGED stored

\* The whole row as it was read, with its new status.
UpdateStep(p) ==
  /\ At(p, "update_step")
  /\ LET changed == {[x EXCEPT !.status = op[p].status] : x \in op[p].row}
     IN  steps' = {x \in steps : x.id # op[p].step} \cup changed
  /\ Answer(p)
  /\ UNCHANGED <<runs, fingerprints, records>>

UpdateRun(p) ==
  /\ At(p, "update_run")
  /\ runs' = [runs EXCEPT ![op[p].run] = op[p].status]
  /\ Answer(p)
  /\ UNCHANGED <<fingerprints, steps, records>>

\* The process dies or a statement fails: what is stored stays.
Abandon(p) == op[p] # Idle /\ Answer(p) /\ UNCHANGED stored

-----------------------------------------------------------------------------
Request(p) ==
  \/ \E r \in Runs : ScenarioRecordRun(p, r)
  \/ \E r \in Runs, s \in Steps : ScenarioRecordStep(p, r, s)
  \/ \E r \in Runs, s \in Steps \cup {NoStep}, k \in Records : ScenarioRecordEvidence(p, r, s, k)
  \/ \E x \in steps, status \in Final : ScenarioFinishStep(p, x, status)
  \/ \E r \in Runs, status \in Final : ScenarioFinishRun(p, r, status)

Statement(p) ==
  \/ InsertRun(p) \/ InsertFingerprint(p) \/ RunActive(p) \/ StepOfRun(p) \/ StepActive(p)
  \/ InsertStep(p) \/ InsertRecord(p) \/ GetStep(p) \/ UpdateStep(p)
  \/ GetRun(p) \/ StepsFinished(p) \/ UpdateRun(p)

Next ==
  \E p \in Processes :
    \/ Request(p)
    \/ (Statement(p) \/ Abandon(p)) /\ UNCHANGED overlapped

Spec == Init /\ [][Next]_vars

-----------------------------------------------------------------------------
(* Properties.                                                             *)

\* Of the tables and the commands; overlapped is history.
TypeOK ==
  /\ runs \in [Runs -> {"none", "running"} \cup Final]
  /\ fingerprints \subseteq Runs
  /\ steps \subseteq ScenarioStep
  /\ records \subseteq Record
  /\ op \in [Processes -> Commands \cup {Idle}]

\* However many recorders insert steps into a run at a time, its steps are numbered
\* 1, 2, 3, ... without a gap or a repetition.
OrdinalsDense ==
  /\ \A x, y \in steps : x.id = y.id \/ (x.run = y.run /\ x.ordinal = y.ordinal) => x = y
  /\ \A x \in steps : \A k \in 1 .. x.ordinal :
       \E y \in steps : y.run = x.run /\ y.ordinal = k

\* Evidence recorded for a step belongs to the run of that step.
EvidenceOwned ==
  \A e \in records : e.step # NoStep => \E x \in steps : x.id = e.step /\ x.run = e.run

\* A run with steps has a last one.
LastStep ==
  \A r \in Runs : StepsOf(r) # {} => \E x \in StepsOf(r) : \A y \in StepsOf(r) : y.ordinal <= x.ordinal

\* p is to insert a step.
Inserting(p) ==
  /\ op[p] # Idle
  /\ op[p].at = "insert_step" \/ (op[p].at = "run_active" /\ op[p].record = NoStep)

\* What a command under way relies on: the id of the step it inserts is its own; the
\* step it records evidence for is the run's; the row it writes back has not moved.
OwnStep(p) ==
  Inserting(p) =>
    /\ op[p].step \in Steps
    /\ \A x \in steps : x.id # op[p].step
    /\ \A q \in Processes : Inserting(q) /\ op[q].step = op[p].step => q = p

StepFound(p) ==
  op[p] # Idle /\ op[p].at \in {"step_active", "insert_record"} =>
    /\ op[p].record \in Records
    /\ op[p].step # NoStep => \E x \in steps : x.id = op[p].step /\ x.run = op[p].run

RowStands(p) ==
  op[p] # Idle /\ op[p].at = "update_step" =>
    \E x \in op[p].row :
      /\ op[p].row = {x} /\ x.id = op[p].step
      /\ \E y \in steps : y.id = x.id /\ y.run = x.run /\ y.ordinal = x.ordinal

CommandsKnow ==
  \A p \in Processes :
    /\ OwnStep(p) /\ StepFound(p) /\ RowStands(p)
    /\ op[p] # Idle /\ op[p].at = "step_of_run" => op[p].record \in Records

\* Inductive: types, ordinals, ownership, and what the commands under way know.
ScenarioInv == TypeOK /\ OrdinalsDense /\ EvidenceOwned /\ LastStep /\ CommandsKnow

\* A finished run is closed: no command, complete or cut short, changes its status, its
\* steps or its evidence, and finish_run_record has left no unfinished step in it
\* ("still has active steps", scenario_recorder.rs:401).  The checks and the writes are
\* separate statements, so this is so as long as the commands about the run have come
\* one after the other.
ClosedRun ==
  [][\A r \in Runs \ overlapped' : runs[r] \in Final =>
       /\ runs'[r] = runs[r]
       /\ StepsOf(r)' = StepsOf(r)
       /\ {e \in records' : e.run = r} = {e \in records : e.run = r}]_vars

StepsClosed ==
  \A r \in Runs \ overlapped : runs[r] \in Final => \A x \in StepsOf(r) : x.status # "running"

=============================================================================
