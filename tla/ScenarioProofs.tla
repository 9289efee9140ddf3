--------------------------- MODULE ScenarioProofs ---------------------------
(***************************************************************************)
(* The steps of a scenario run are numbered without a gap or a repetition  *)
(* and evidence stays with its run, for any number of recorders, runs,     *)
(* steps and records.  A run that was finished by commands that came one   *)
(* after the other has no unfinished step and stays as it is: only         *)
(* commands of other runs are then under way.                              *)
(***************************************************************************)
EXTENDS ScenarioRecorder, TLAPS

USE NoStepAssumption, ScenarioIdleAssumption

\* The rows of scenario_steps keep id, run and ordinal, and a new row has the id that
\* the command of p brought.
StepsKept(p) ==
  /\ \A x \in steps : \E y \in steps' : y.id = x.id /\ y.run = x.run /\ y.ordinal = x.ordinal
  /\ \A y \in steps' : \/ \E x \in steps : x.id = y.id
                       \/ Inserting(p) /\ op[p].step = y.id

\* A step of process p that keeps the rows and leaves p idle, or with a command that
\* knows what it has to, keeps what every other command knows.
LEMMA OthersKnow ==
  ASSUME CommandsKnow, TypeOK, NEW p \in Processes, StepsKept(p),
         \A q \in Processes \ {p} : op'[q] = op[q],
         OwnStep(p)', StepFound(p)', RowStands(p)',
         (op[p] # Idle /\ op[p].at = "step_of_run" => op[p].record \in Records)'
  PROVE  CommandsKnow'
<1> SUFFICES ASSUME NEW q \in Processes, q # p
             PROVE  /\ OwnStep(q)' /\ StepFound(q)' /\ RowStands(q)'
                    /\ (op[q] # Idle /\ op[q].at = "step_of_run" => op[q].record \in Records)'
  BY DEF CommandsKnow
<1>0. op'[q] = op[q] /\ Inserting(q)' = Inserting(q)
  BY DEF Inserting
<1>1. OwnStep(q)'
  <2> SUFFICES ASSUME Inserting(q)
               PROVE  /\ op[q].step \in Steps
                      /\ \A x \in steps' : x.id # op[q].step
                      /\ \A r \in Processes : Inserting(r)' /\ op'[r].step = op[q].step => r = q
    BY <1>0 DEF OwnStep
  <2>1. /\ op[q].step \in Steps
        /\ \A x \in steps : x.id # op[q].step
        /\ \A r \in Processes : Inserting(r) /\ op[r].step = op[q].step => r = q
    BY DEF CommandsKnow, OwnStep
  <2>2. \A x \in steps' : x.id # op[q].step
    BY <2>1 DEF StepsKept
  <2>3. ASSUME NEW r \in Processes, Inserting(r)', op'[r].step = op[q].step
        PROVE  r = q
    <3>1. CASE r = p
      BY <2>3, <3>1, <1>0 DEF OwnStep
    <3>2. CASE r # p
      <4>1. op'[r] = op[r] /\ Inserting(r)
        BY <2>3, <3>2 DEF Inserting
      <4> QED BY <2>1, <2>3, <4>1
    <3> QED BY <3>1, <3>2
  <2> QED BY <2>1, <2>2, <2>3
<1>2. StepFound(q)'
  BY <1>0 DEF StepFound, CommandsKnow, StepsKept
<1>3. RowStands(q)'
  <2> SUFFICES ASSUME op[q] # Idle, op[q].at = "update_step"
               PROVE  \E x \in op[q].row :
                        /\ op[q].row = {x} /\ x.id = op[q].step
                        /\ \E y \in steps' : y.id = x.id /\ y.run = x.run /\ y.ordinal = x.ordinal
    BY <1>0 DEF RowStands
  <2>1. PICK x \in op[q].row :
          /\ op[q].row = {x} /\ x.id = op[q].step
          /\ \E y \in steps : y.id = x.id /\ y.run = x.run /\ y.ordinal = x.ordinal
    BY DEF CommandsKnow, RowStands
  <2> QED BY <2>1 DEF StepsKept
<1>4. (op[q] # Idle /\ op[q].at = "step_of_run" => op[q].record \in Records)'
  BY <1>0 DEF CommandsKnow
<1> QED BY <1>1, <1>2, <1>3, <1>4

\* A step that leaves the rows of steps and records alone keeps the invariant when the
\* command of p knows what it has to.
LEMMA RowsUntouched ==
  ASSUME ScenarioInv, TypeOK', NEW p \in Processes,
         UNCHANGED <<steps, records>>,
         \A q \in Processes \ {p} : op'[q] = op[q],
         OwnStep(p)', StepFound(p)', RowStands(p)',
         (op[p] # Idle /\ op[p].at = "step_of_run" => op[p].record \in Records)'
  PROVE  ScenarioInv'
<1>1. StepsKept(p)
  BY DEF StepsKept
<1>2. CommandsKnow'
  BY <1>1, OthersKnow DEF ScenarioInv
<1>3. (OrdinalsDense /\ EvidenceOwned /\ LastStep)'
  BY DEF ScenarioInv, OrdinalsDense, EvidenceOwned, LastStep, StepsOf
<1> QED BY <1>2, <1>3 DEF ScenarioInv

\* A process whose command is over knows nothing.
LEMMA IdleKnows ==
  ASSUME TypeOK, NEW p \in Processes, Answer(p)
  PROVE  /\ OwnStep(p)' /\ StepFound(p)' /\ RowStands(p)'
         /\ (op[p] # Idle /\ op[p].at = "step_of_run" => op[p].record \in Records)'
         /\ \A q \in Processes \ {p} : op'[q] = op[q]
         /\ op' \in [Processes -> Commands \cup {Idle}]
<1>1. op'[p] = Idle
  BY DEF Answer, TypeOK
<1> QED BY <1>1 DEF Answer, TypeOK, OwnStep, StepFound, RowStands, Inserting

\* A command that goes on at another statement is otherwise the same.
LEMMA Continues ==
  ASSUME TypeOK, NEW p \in Processes, NEW label \in Labels, op[p] # Idle, Continue(p, label)
  PROVE  /\ op'[p] # Idle
         /\ op'[p].at = label /\ op'[p].run = op[p].run /\ op'[p].step = op[p].step
         /\ op'[p].record = op[p].record /\ op'[p].row = op[p].row
         /\ op'[p].status = op[p].status
         /\ \A q \in Processes \ {p} : op'[q] = op[q]
         /\ op' \in [Processes -> Commands \cup {Idle}]
<1>1. op[p] \in Commands
  BY DEF TypeOK
<1>2. op'[p] = [op[p] EXCEPT !.at = label]
  BY DEF Continue, TypeOK
<1>3. op'[p] \in Commands
  BY <1>1, <1>2 DEF Commands
<1>4. /\ op'[p].at = label /\ op'[p].run = op[p].run /\ op'[p].step = op[p].step
      /\ op'[p].record = op[p].record /\ op'[p].row = op[p].row
      /\ op'[p].status = op[p].status
  BY <1>1, <1>2 DEF Commands
<1>5. op' = [op EXCEPT ![p] = op'[p]]
  BY <1>2 DEF Continue, TypeOK
<1> QED BY <1>3, <1>4, <1>5 DEF TypeOK

\* A new command.
LEMMA Begins ==
  ASSUME ScenarioInv, NEW p \in Processes, NEW at \in {"insert_run", "run_active", "get_step", "get_run"},
         NEW r \in Runs, NEW s \in Steps \cup {NoStep}, NEW k \in Records \cup {NoStep},
         NEW status \in {"running"} \cup Final,
         Begin(p, Command(at, r, s, k, status)),
         at = "run_active" /\ k = NoStep =>
           /\ s \in Steps
           /\ \A x \in steps : x.id # s
           /\ \A q \in Processes : op[q] # Idle => op[q].step # s
  PROVE  ScenarioInv'
<1> DEFINE c == Command(at, r, s, k, status)
<1>1. c \in Commands
  BY DEF Command, Commands, Labels, ScenarioStep
<1>2. op' \in [Processes -> Commands \cup {Idle}] /\ op'[p] = c /\ \A q \in Processes \ {p} : op'[q] = op[q]
  BY <1>1 DEF Begin, ScenarioInv, TypeOK
<1>3. c # Idle /\ c.at = at /\ c.step = s /\ c.record = k
  BY <1>1 DEF Command
<1>4. TypeOK'
  BY <1>2 DEF Begin, stored, ScenarioInv, TypeOK
<1>5. Inserting(p)' => at = "run_active" /\ k = NoStep
  BY <1>2, <1>3 DEF Inserting
<1>6. OwnStep(p)'
  <2> SUFFICES ASSUME Inserting(p)' PROVE OwnStep(p)'
    BY DEF OwnStep
  <2>1. \A q \in Processes : Inserting(q)' /\ op'[q].step = s => q = p
    BY <1>2, <1>5 DEF Inserting
  <2>2. \A x \in steps' : x.id # s
    BY <1>5 DEF Begin, stored
  <2> QED BY <1>2, <1>3, <1>5, <2>1, <2>2 DEF OwnStep
<1>7. StepFound(p)' /\ RowStands(p)'
      /\ (op[p] # Idle /\ op[p].at = "step_of_run" => op[p].record \in Records)'
  BY <1>2, <1>3 DEF StepFound, RowStands
<1> QED BY <1>2, <1>4, <1>6, <1>7, RowsUntouched DEF Begin, stored

\* A statement of p after which its command is over, and which leaves the rows of steps
\* and records alone.
LEMMA Answers ==
  ASSUME ScenarioInv, NEW p \in Processes, Answer(p), UNCHANGED <<steps, records>>,
         fingerprints' \subseteq Runs, runs' \in [Runs -> {"none", "running"} \cup Final]
  PROVE  ScenarioInv'
<1>1. TypeOK
  BY DEF ScenarioInv
<1>2. TypeOK'
  BY <1>1, IdleKnows DEF TypeOK
<1> QED BY <1>1, <1>2, IdleKnows, RowsUntouched

\* A statement of p after which its command goes on at label.
LEMMA GoesOn ==
  ASSUME ScenarioInv, NEW p \in Processes, op[p] # Idle,
         NEW label \in Labels, Continue(p, label), UNCHANGED <<fingerprints, steps, records>>,
         runs' \in [Runs -> {"none", "running"} \cup Final],
         label # "update_step", label # "run_active",
         label = "insert_step" => Inserting(p),
         label \in {"step_of_run", "step_active", "insert_record"} => op[p].record \in Records,
         label \in {"step_active", "insert_record"} /\ op[p].step # NoStep =>
           \E x \in steps : x.id = op[p].step /\ x.run = op[p].run
  PROVE  ScenarioInv'
<1>1. TypeOK
  BY DEF ScenarioInv
<1>2. /\ op'[p] # Idle
      /\ op'[p].at = label /\ op'[p].run = op[p].run /\ op'[p].step = op[p].step
      /\ op'[p].record = op[p].record
      /\ \A q \in Processes \ {p} : op'[q] = op[q]
      /\ op' \in [Processes -> Commands \cup {Idle}]
  BY <1>1, Continues
<1>3. TypeOK'
  BY <1>1, <1>2 DEF TypeOK
<1>4. Inserting(p)' => Inserting(p)
  BY <1>2 DEF Inserting
<1>5. \A q \in Processes \ {p} : Inserting(q)' = Inserting(q)
  BY <1>2 DEF Inserting
<1>6. OwnStep(p)'
  <2> SUFFICES ASSUME Inserting(p)' PROVE OwnStep(p)'
    BY DEF OwnStep
  <2>1. /\ op[p].step \in Steps
        /\ \A x \in steps : x.id # op[p].step
        /\ \A q \in Processes : Inserting(q) /\ op[q].step = op[p].step => q = p
    BY <1>4 DEF ScenarioInv, CommandsKnow, OwnStep
  <2>2. \A q \in Processes : Inserting(q)' /\ op'[q].step = op[p].step => q = p
    BY <1>2, <1>5, <2>1
  <2> QED BY <1>2, <2>1, <2>2 DEF OwnStep
<1>7. StepFound(p)' /\ RowStands(p)'
      /\ (op[p] # Idle /\ op[p].at = "step_of_run" => op[p].record \in Records)'
  BY <1>2 DEF StepFound, RowStands
<1> QED BY <1>2, <1>3, <1>6, <1>7, RowsUntouched

\* The number a new step gets follows the last one of its run.
LEMMA NextOrdinalFollows ==
  ASSUME TypeOK, LastStep, NEW r \in Runs
  PROVE  /\ NextOrdinal(r) \in Nat \ {0}
         /\ \A x \in StepsOf(r) : x.ordinal < NextOrdinal(r)
         /\ NextOrdinal(r) = 1 \/ \E x \in StepsOf(r) : x.ordinal + 1 = NextOrdinal(r)
<1> \A x \in StepsOf(r) : x \in ScenarioStep /\ x.ordinal \in Nat \ {0}
  BY DEF StepsOf, TypeOK, ScenarioStep
<1>1. CASE StepsOf(r) = {}
  BY <1>1 DEF NextOrdinal
<1>2. CASE StepsOf(r) # {}
  <2> DEFINE Last(x) == \A y \in StepsOf(r) : y.ordinal <= x.ordinal
             m == CHOOSE x \in StepsOf(r) : Last(x)
  <2>1. \E x \in StepsOf(r) : Last(x)
    BY <1>2 DEF LastStep
  <2>2. m \in StepsOf(r) /\ Last(m)
    BY <2>1
  <2>3. NextOrdinal(r) = m.ordinal + 1
    BY <1>2 DEF NextOrdinal
  <2> QED BY <2>2, <2>3
<1> QED BY <1>1, <1>2

\* Inserting a step keeps the numbering.
LEMMA InsertStepKeeps ==
  ASSUME ScenarioInv, NEW p \in Processes, InsertStep(p)
  PROVE  ScenarioInv'
<1> DEFINE r == op[p].run
           s == op[p].step
           n == NextOrdinal(r)
           row == [id |-> s, run |-> r, ordinal |-> n, status |-> "running"]
<1>0. TypeOK /\ OrdinalsDense /\ EvidenceOwned /\ LastStep /\ CommandsKnow
  BY DEF ScenarioInv
<1>1. op[p] \in Commands /\ r \in Runs
  BY <1>0 DEF InsertStep, At, TypeOK, Commands
<1>2. s \in Steps /\ \A x \in steps : x.id # s
  BY <1>0 DEF InsertStep, At, CommandsKnow, OwnStep, Inserting
<1>3. /\ n \in Nat \ {0}
      /\ \A x \in StepsOf(r) : x.ordinal < n
      /\ n = 1 \/ \E x \in StepsOf(r) : x.ordinal + 1 = n
  BY <1>0, <1>1, NextOrdinalFollows
<1> HIDE DEF n
<1>4. row \in ScenarioStep
  BY <1>1, <1>2, <1>3 DEF ScenarioStep
<1>5. row.id = s /\ row.run = r /\ row.ordinal = n
  OBVIOUS
<1>6. steps' = steps \cup {row} /\ records' = records /\ runs' = runs /\ fingerprints' = fingerprints
  BY DEF InsertStep, n
<1>7. Answer(p)
  BY DEF InsertStep
<1> HIDE DEF row, r, s
<1>8. TypeOK'
  BY <1>0, <1>4, <1>6, <1>7, IdleKnows DEF TypeOK
<1>9. \A x \in steps : x \in ScenarioStep /\ x.ordinal \in Nat \ {0}
  BY <1>0 DEF TypeOK, ScenarioStep
<1>10. \A x \in steps : x.run = r => x.ordinal < n
  BY <1>3 DEF StepsOf
<1>11. OrdinalsDense'
  <2>1. \A x, y \in steps' : x.id = y.id \/ (x.run = y.run /\ x.ordinal = y.ordinal) => x = y
    <3>1. \A x \in steps : x.id # row.id /\ ~ (x.run = row.run /\ x.ordinal = row.ordinal)
      BY <1>2, <1>3, <1>5, <1>9, <1>10
    <3> QED BY <1>0, <1>6, <3>1 DEF OrdinalsDense
  <2>2. ASSUME NEW x \in steps', NEW k \in 1 .. x.ordinal
        PROVE  \E y \in steps' : y.run = x.run /\ y.ordinal = k
    <3>1. CASE x \in steps
      BY <1>0, <1>6, <2>2, <3>1 DEF OrdinalsDense
    <3>2. CASE x = row
      <4>1. CASE k = n
        BY <1>5, <1>6, <3>2, <4>1
      <4>2. CASE k # n
        <5>1. k \in Nat \ {0} /\ k < n
          BY <1>3, <1>5, <2>2, <3>2, <4>2
        <5>2. n # 1
          BY <5>1
        <5>3. PICK z \in StepsOf(r) : z.ordinal + 1 = n
          BY <1>3, <5>2
        <5>4. z \in steps /\ z.run = r /\ z.ordinal \in Nat
          BY <1>9 DEF StepsOf
        <5>5. k \in 1 .. z.ordinal
          BY <1>3, <5>1, <5>3, <5>4
        <5>6. \E y \in steps : y.run = z.run /\ y.ordinal = k
          BY <1>0, <5>4, <5>5 DEF OrdinalsDense
        <5> QED BY <1>5, <1>6, <3>2, <5>4, <5>6
      <4> QED BY <4>1, <4>2
    <3> QED BY <1>6, <3>1, <3>2
  <2> QED BY <2>1, <2>2 DEF OrdinalsDense
<1>12. EvidenceOwned'
  BY <1>0, <1>6 DEF EvidenceOwned
<1>13. LastStep'
  <2> SUFFICES ASSUME NEW q \in Runs, StepsOf(q)' # {}
               PROVE  \E x \in StepsOf(q)' : \A y \in StepsOf(q)' : y.ordinal <= x.ordinal
    BY DEF LastStep
  <2>1. CASE q = r
    <3>1. row \in StepsOf(q)'
      BY <1>5, <1>6, <2>1 DEF StepsOf
    <3>2. \A y \in StepsOf(q)' : y.ordinal <= row.ordinal
      BY <1>3, <1>5, <1>6, <1>9, <1>10, <2>1 DEF StepsOf
    <3> QED BY <3>1, <3>2
  <2>2. CASE q # r
    <3>1. StepsOf(q)' = StepsOf(q)
      BY <1>5, <1>6, <2>2 DEF StepsOf
    <3> QED BY <1>0, <3>1 DEF LastStep
  <2> QED BY <2>1, <2>2
<1>14. StepsKept(p)
  <2>1. Inserting(p)
    BY DEF InsertStep, At, Inserting
  <2>2. op[p].step = row.id
    BY <1>5 DEF s
  <2> QED BY <1>6, <2>1, <2>2 DEF StepsKept
<1>15. CommandsKnow'
  BY <1>0, <1>7, <1>14, IdleKnows, OthersKnow
<1> QED BY <1>8, <1>11, <1>12, <1>13, <1>15 DEF ScenarioInv

\* Writing back a step changes its status alone.
LEMMA UpdateStepKeeps ==
  ASSUME ScenarioInv, NEW p \in Processes, UpdateStep(p)
  PROVE  ScenarioInv'
<1>0. TypeOK /\ OrdinalsDense /\ EvidenceOwned /\ LastStep /\ CommandsKnow
  BY DEF ScenarioInv
<1>1. op[p] \in Commands /\ op[p].status \in {"running"} \cup Final
  BY <1>0 DEF UpdateStep, At, TypeOK, Commands
<1>2. PICK x \in op[p].row :
        /\ op[p].row = {x} /\ x.id = op[p].step
        /\ \E y \in steps : y.id = x.id /\ y.run = x.run /\ y.ordinal = x.ordinal
  BY <1>0 DEF UpdateStep, At, CommandsKnow, RowStands
<1>3. PICK y \in steps : y.id = x.id /\ y.run = x.run /\ y.ordinal = x.ordinal
  BY <1>2
<1> DEFINE z == [x EXCEPT !.status = op[p].status]
<1>x. x \in ScenarioStep
  BY <1>1, <1>2 DEF Commands
<1>4. z \in ScenarioStep /\ z.id = y.id /\ z.run = y.run /\ z.ordinal = y.ordinal
  BY <1>1, <1>2, <1>3, <1>x DEF ScenarioStep
<1>5. steps' = {w \in steps : w.id # y.id} \cup {z}
  BY <1>2, <1>3 DEF UpdateStep
<1>6. Answer(p) /\ records' = records /\ runs' = runs /\ fingerprints' = fingerprints
  BY DEF UpdateStep
<1> HIDE DEF z
<1>7. steps' = (steps \ {y}) \cup {z}
  BY <1>0, <1>5 DEF OrdinalsDense
<1>8. TypeOK'
  BY <1>0, <1>4, <1>6, <1>7, IdleKnows DEF TypeOK
\* The rows before and after correspond, one to one.
<1>9. \A v \in steps' : \E w \in steps : /\ w.id = v.id /\ w.run = v.run /\ w.ordinal = v.ordinal
                                        /\ v = IF w = y THEN z ELSE w
  BY <1>4, <1>7
<1>10. \A w \in steps : \E v \in steps' : v.id = w.id /\ v.run = w.run /\ v.ordinal = w.ordinal
  BY <1>4, <1>7
<1>11. OrdinalsDense'
  <2>1. ASSUME NEW v1 \in steps', NEW v2 \in steps',
               v1.id = v2.id \/ (v1.run = v2.run /\ v1.ordinal = v2.ordinal)
        PROVE  v1 = v2
    <3>1. PICK w1 \in steps : /\ w1.id = v1.id /\ w1.run = v1.run /\ w1.ordinal = v1.ordinal
                              /\ v1 = IF w1 = y THEN z ELSE w1
      BY <1>9
    <3>2. PICK w2 \in steps : /\ w2.id = v2.id /\ w2.run = v2.run /\ w2.ordinal = v2.ordinal
                              /\ v2 = IF w2 = y THEN z ELSE w2
      BY <1>9
    <3>3. w1 = w2
      BY <1>0, <2>1, <3>1, <3>2 DEF OrdinalsDense
    <3> QED BY <3>1, <3>2, <3>3
  <2>2. ASSUME NEW v \in steps', NEW k \in 1 .. v.ordinal
        PROVE  \E u \in steps' : u.run = v.run /\ u.ordinal = k
    <3>1. PICK w \in steps : w.run = v.run /\ w.ordinal = v.ordinal
      BY <1>9
    <3>2. PICK t \in steps : t.run = w.run /\ t.ordinal = k
      BY <1>0, <2>2, <3>1 DEF OrdinalsDense
    <3> QED BY <1>10, <3>1, <3>2
  <2> QED BY <2>1, <2>2 DEF OrdinalsDense
<1>12. EvidenceOwned'
  <2> SUFFICES ASSUME NEW e \in records, e.step # NoStep
               PROVE  \E v \in steps' : v.id = e.step /\ v.run = e.run
    BY <1>6 DEF EvidenceOwned
  <2>1. PICK w \in steps : w.id = e.step /\ w.run = e.run
    BY <1>0 DEF EvidenceOwned
  <2> QED BY <1>10, <2>1
<1>13. LastStep'
  <2> SUFFICES ASSUME NEW q \in Runs, NEW u \in StepsOf(q)'
               PROVE  \E v \in StepsOf(q)' : \A w \in StepsOf(q)' : w.ordinal <= v.ordinal
    BY DEF LastStep
  <2>1. StepsOf(q) # {}
    BY <1>9 DEF StepsOf
  <2>2. PICK m \in StepsOf(q) : \A w \in StepsOf(q) : w.ordinal <= m.ordinal
    BY <1>0, <2>1 DEF LastStep
  <2>3. PICK v \in steps' : v.run = q /\ v.ordinal = m.ordinal
    BY <1>10, <2>2 DEF StepsOf
  <2>4. ASSUME NEW w \in StepsOf(q)' PROVE w.ordinal <= v.ordinal
    <3>1. PICK t \in StepsOf(q) : t.ordinal = w.ordinal
      BY <1>9 DEF StepsOf
    <3> QED BY <2>2, <2>3, <3>1
  <2> QED BY <2>3, <2>4 DEF StepsOf
<1>14. StepsKept(p)
  BY <1>9, <1>10 DEF StepsKept
<1>15. CommandsKnow'
  BY <1>0, <1>6, <1>14, IdleKnows, OthersKnow
<1> QED BY <1>8, <1>11, <1>12, <1>13, <1>15 DEF ScenarioInv

\* Recording evidence keeps its ownership.
LEMMA InsertRecordKeeps ==
  ASSUME ScenarioInv, NEW p \in Processes, InsertRecord(p)
  PROVE  ScenarioInv'
<1> DEFINE e == [id |-> op[p].record, run |-> op[p].run, step |-> op[p].step]
<1>0. TypeOK /\ OrdinalsDense /\ EvidenceOwned /\ LastStep /\ CommandsKnow
  BY DEF ScenarioInv
<1>1. op[p] \in Commands /\ op[p].run \in Runs /\ op[p].step \in Steps \cup {NoStep}
  BY <1>0 DEF InsertRecord, At, TypeOK, Commands
<1>2. /\ op[p].record \in Records
      /\ op[p].step # NoStep => \E x \in steps : x.id = op[p].step /\ x.run = op[p].run
  BY <1>0 DEF InsertRecord, At, CommandsKnow, StepFound
<1>3. e \in Record
  BY <1>1, <1>2 DEF Record
<1>4. /\ records' = records \cup {e} /\ Answer(p)
      /\ steps' = steps /\ runs' = runs /\ fingerprints' = fingerprints
  BY DEF InsertRecord
<1>5. TypeOK'
  BY <1>0, <1>3, <1>4, IdleKnows DEF TypeOK
<1>6. EvidenceOwned'
  BY <1>0, <1>2, <1>4 DEF EvidenceOwned
<1>7. (OrdinalsDense /\ LastStep)'
  BY <1>0, <1>4 DEF OrdinalsDense, LastStep, StepsOf
<1>8. CommandsKnow'
  <2>1. StepsKept(p)
    BY <1>4 DEF StepsKept
  <2> QED BY <1>0, <1>4, <2>1, IdleKnows, OthersKnow
<1> QED BY <1>5, <1>6, <1>7, <1>8 DEF ScenarioInv

\* A step read to be finished is one of the table.
LEMMA GetStepKeeps ==
  ASSUME ScenarioInv, NEW p \in Processes, GetStep(p)
  PROVE  ScenarioInv'
<1>0. TypeOK /\ op[p] \in Commands /\ op[p] # Idle
  BY DEF ScenarioInv, GetStep, At, TypeOK
<1>1. PICK x \in steps :
        /\ x.id = op[p].step
        /\ IF x.status = "running"
           THEN op' = [op EXCEPT ![p] = [@ EXCEPT !.at = "update_step", !.row = {x}]]
           ELSE Answer(p)
  BY DEF GetStep
<1>2. steps' = steps /\ records' = records /\ runs' = runs /\ fingerprints' = fingerprints
  BY DEF GetStep, stored
<1>3. CASE Answer(p)
  BY <1>0, <1>2, <1>3, Answers DEF TypeOK
<1>4. CASE op' = [op EXCEPT ![p] = [@ EXCEPT !.at = "update_step", !.row = {x}]]
  <2> DEFINE c == [op[p] EXCEPT !.at = "update_step", !.row = {x}]
  <2>1. x \in ScenarioStep
    BY <1>0 DEF TypeOK
  <2>2. c \in Commands /\ c.at = "update_step" /\ c.row = {x} /\ c.step = op[p].step
    BY <1>0, <2>1 DEF Commands, Labels
  <2> HIDE DEF c
  <2>3. op' = [op EXCEPT ![p] = c]
    BY <1>0, <1>4 DEF TypeOK, c
  <2>4. op'[p] = c /\ \A q \in Processes \ {p} : op'[q] = op[q]
    BY <1>0, <2>3 DEF TypeOK
  <2>5. TypeOK'
    BY <1>0, <1>2, <2>2, <2>3 DEF TypeOK
  <2>6. OwnStep(p)' /\ StepFound(p)'
        /\ (op[p] # Idle /\ op[p].at = "step_of_run" => op[p].record \in Records)'
    BY <2>2, <2>4 DEF OwnStep, StepFound, Inserting
  <2>7. RowStands(p)'
    BY <1>1, <1>2, <2>1, <2>2, <2>4 DEF RowStands
  <2> QED BY <1>2, <2>4, <2>5, <2>6, <2>7, RowsUntouched
<1> QED BY <1>1, <1>3, <1>4

\* A check refuses the command or lets it go on.
LEMMA ChecksKeep ==
  ASSUME ScenarioInv, NEW p \in Processes,
         RunActive(p) \/ StepOfRun(p) \/ StepActive(p) \/ GetRun(p) \/ StepsFinished(p)
  PROVE  ScenarioInv'
<1>0. TypeOK /\ op[p] \in Commands /\ op[p] # Idle /\ op[p].record \in Records \cup {NoStep}
  BY DEF ScenarioInv, RunActive, StepOfRun, StepActive, GetRun, StepsFinished, Check, At, TypeOK, Commands
<1>1. steps' = steps /\ records' = records /\ runs' = runs /\ fingerprints' = fingerprints
  BY DEF RunActive, StepOfRun, StepActive, GetRun, StepsFinished, Check, stored
<1>2. CASE Answer(p)
  BY <1>0, <1>1, <1>2, Answers DEF TypeOK
<1>3. CASE RunActive(p) /\ ~ Answer(p)
  <2>1. op[p].at = "run_active" /\ Continue(p, AfterRunActive(op[p]))
    BY <1>3 DEF RunActive, Check, At
  <2>2. AfterRunActive(op[p]) \in {"insert_step", "insert_record", "step_of_run"}
    BY DEF AfterRunActive
  <2>3. AfterRunActive(op[p]) = "insert_step" => Inserting(p)
    BY <1>0, <2>1 DEF AfterRunActive, Inserting
  <2>4. AfterRunActive(op[p]) \in {"step_of_run", "insert_record"} => op[p].record \in Records
    BY <1>0 DEF AfterRunActive
  <2>5. AfterRunActive(op[p]) = "insert_record" => op[p].step = NoStep
    BY DEF AfterRunActive
  <2> QED BY <1>0, <1>1, <2>1, <2>2, <2>3, <2>4, <2>5, GoesOn DEF Labels, TypeOK
<1>4. CASE StepOfRun(p) /\ ~ Answer(p)
  <2>1. /\ op[p].at = "step_of_run" /\ Continue(p, "step_active")
        /\ \E x \in steps : x.id = op[p].step /\ x.run = op[p].run
    BY <1>4 DEF StepOfRun, Check, At
  <2>2. op[p].record \in Records
    BY <1>0, <2>1 DEF ScenarioInv, CommandsKnow
  <2> QED BY <1>0, <1>1, <2>1, <2>2, GoesOn DEF Labels, TypeOK
<1>5. CASE StepActive(p) /\ ~ Answer(p)
  <2>1. op[p].at = "step_active" /\ Continue(p, "insert_record")
    BY <1>5 DEF StepActive, Check, At
  <2>2. /\ op[p].record \in Records
        /\ op[p].step # NoStep => \E x \in steps : x.id = op[p].step /\ x.run = op[p].run
    BY <1>0, <2>1 DEF ScenarioInv, CommandsKnow, StepFound
  <2> QED BY <1>0, <1>1, <2>1, <2>2, GoesOn DEF Labels, TypeOK
<1>6. CASE GetRun(p) /\ ~ Answer(p)
  <2>1. Continue(p, "steps_finished")
    BY <1>6 DEF GetRun, Check
  <2> QED BY <1>0, <1>1, <2>1, GoesOn DEF Labels, TypeOK
<1>7. CASE StepsFinished(p) /\ ~ Answer(p)
  <2>1. Continue(p, "update_run")
    BY <1>7 DEF StepsFinished, Check
  <2> QED BY <1>0, <1>1, <2>1, GoesOn DEF Labels, TypeOK
<1> QED BY <1>2, <1>3, <1>4, <1>5, <1>6, <1>7

\* Every step of every recorder preserves the invariant.
LEMMA ScenarioInductive == ScenarioInv /\ [Next]_vars => ScenarioInv'
<1> SUFFICES ASSUME ScenarioInv, [Next]_vars PROVE ScenarioInv'
  OBVIOUS
<1>0. TypeOK
  BY DEF ScenarioInv
<1>1. CASE UNCHANGED vars
  BY <1>1 DEF vars, ScenarioInv, TypeOK, OrdinalsDense, EvidenceOwned, LastStep, StepsOf,
              CommandsKnow, OwnStep, StepFound, RowStands, Inserting
<1>2. ASSUME NEW p \in Processes, Request(p) PROVE ScenarioInv'
  <2>1. ASSUME NEW r \in Runs, ScenarioRecordRun(p, r) PROVE ScenarioInv'
    BY <2>1, Begins DEF ScenarioRecordRun
  <2>2. ASSUME NEW r \in Runs, NEW s \in Steps, ScenarioRecordStep(p, r, s) PROVE ScenarioInv'
    BY <2>2, Begins DEF ScenarioRecordStep
  <2>3. ASSUME NEW r \in Runs, NEW s \in Steps \cup {NoStep}, NEW k \in Records,
               ScenarioRecordEvidence(p, r, s, k)
        PROVE  ScenarioInv'
    BY <2>3, Begins DEF ScenarioRecordEvidence
  <2>4. ASSUME NEW x \in steps, NEW status \in Final, ScenarioFinishStep(p, x, status)
        PROVE  ScenarioInv'
    <3>1. x.run \in Runs /\ x.id \in Steps
      BY <1>0 DEF TypeOK, ScenarioStep
    <3> QED BY <2>4, <3>1, Begins DEF ScenarioFinishStep
  <2>5. ASSUME NEW r \in Runs, NEW status \in Final, ScenarioFinishRun(p, r, status)
        PROVE  ScenarioInv'
    BY <2>5, Begins DEF ScenarioFinishRun
  <2> QED BY <1>2, <2>1, <2>2, <2>3, <2>4, <2>5 DEF Request
<1>3. ASSUME NEW p \in Processes, Statement(p) PROVE ScenarioInv'
  <2>1. CASE InsertRun(p)
    <3>1. op[p] # Idle /\ Continue(p, "insert_fingerprint") /\ UNCHANGED <<fingerprints, steps, records>>
      BY <2>1 DEF InsertRun, At
    <3>2. runs' \in [Runs -> {"none", "running"} \cup Final]
      BY <1>0, <2>1 DEF InsertRun, TypeOK
    <3> QED BY <3>1, <3>2, GoesOn DEF Labels
  <2>2. CASE InsertFingerprint(p)
    <3>1. op[p] \in Commands /\ op[p].run \in Runs
      BY <1>0, <2>2 DEF InsertFingerprint, At, TypeOK, Commands
    <3> QED BY <1>0, <2>2, <3>1, Answers DEF InsertFingerprint, TypeOK
  <2>3. CASE RunActive(p) \/ StepOfRun(p) \/ StepActive(p) \/ GetRun(p) \/ StepsFinished(p)
    BY <2>3, ChecksKeep
  <2>4. CASE InsertStep(p)
    BY <2>4, InsertStepKeeps
  <2>5. CASE InsertRecord(p)
    BY <2>5, InsertRecordKeeps
  <2>6. CASE GetStep(p)
    BY <2>6, GetStepKeeps
  <2>7. CASE UpdateStep(p)
    BY <2>7, UpdateStepKeeps
  <2>8. CASE UpdateRun(p)
    <3>1. op[p] \in Commands /\ op[p].status \in {"running"} \cup Final
      BY <1>0, <2>8 DEF UpdateRun, At, TypeOK, Commands
    <3>2. runs' \in [Runs -> {"none", "running"} \cup Final]
      BY <1>0, <2>8, <3>1 DEF UpdateRun, TypeOK
    <3> QED BY <1>0, <2>8, <3>2, Answers DEF UpdateRun, TypeOK
  <2> QED BY <1>3, <2>1, <2>2, <2>3, <2>4, <2>5, <2>6, <2>7, <2>8 DEF Statement
<1>4. ASSUME NEW p \in Processes, Abandon(p) PROVE ScenarioInv'
  BY <1>0, <1>4, Answers DEF Abandon, stored, TypeOK
<1> QED BY <1>1, <1>2, <1>3, <1>4 DEF Next

\* Empty tables and idle recorders satisfy it.
LEMMA ScenarioInitially == Init => ScenarioInv
<1> SUFFICES ASSUME Init PROVE ScenarioInv
  OBVIOUS
<1>1. TypeOK
  BY DEF Init, TypeOK
<1>2. \A p \in Processes : op[p] = Idle
  BY DEF Init
<1>3. CommandsKnow
  BY <1>2 DEF CommandsKnow, OwnStep, StepFound, RowStands, Inserting
<1>4. OrdinalsDense /\ EvidenceOwned /\ LastStep
  BY DEF Init, OrdinalsDense, EvidenceOwned, LastStep, StepsOf
<1> QED BY <1>1, <1>3, <1>4 DEF ScenarioInv

\* For any number of recorders, runs, steps and records: the steps of a run are numbered
\* 1, 2, 3, ... and evidence recorded for a step belongs to the run of that step, because
\* create_scenario_step numbers and inserts in one transaction and rows never move.
THEOREM StepsNumbered == Spec => []ScenarioInv
BY ScenarioInitially, ScenarioInductive, PTL DEF Spec

-----------------------------------------------------------------------------
(* Finished runs are closed, as long as the commands about a run come one  *)
(* after the other.  What a check found is then still so at the write.     *)

About(p, r) == op[p] # Idle /\ op[p].run = r

\* The commands about a run that no two were about at a time.
OneAtATime ==
  \A r \in Runs \ overlapped : \A p, q \in Processes : About(p, r) /\ About(q, r) => p = q

\* The step that a command is to finish is one of its run.
StepOfItsRun(p) ==
  op[p] # Idle =>
    /\ op[p].at = "get_step" => \E x \in steps : x.id = op[p].step /\ x.run = op[p].run
    /\ op[p].at = "update_step" => \A x \in op[p].row : x.run = op[p].run

\* What the checks of p have found of its run still holds.
CheckHolds(p) ==
  op[p] # Idle /\ op[p].run \notin overlapped =>
    /\ op[p].at = "insert_run" => runs[op[p].run] = "none"
    /\ op[p].at \in {"step_of_run", "step_active", "insert_step", "insert_record",
                     "steps_finished", "update_run"} => runs[op[p].run] = "running"
    /\ op[p].at = "update_run" => \A x \in StepsOf(op[p].run) : x.status # "running"
    /\ op[p].at = "update_step" =>
         op[p].row \subseteq steps /\ \A x \in op[p].row : x.status = "running"

ClosedInv ==
  /\ ScenarioInv /\ OneAtATime /\ StepsClosed
  /\ \A p \in Processes : StepOfItsRun(p) /\ CheckHolds(p)

RecordsOf(r) == {e \in records : e.run = r}

\* The step of p touches its own run and its own command only.
OwnRunOnly(p) ==
  /\ \A r \in Runs : r # op[p].run =>
       runs'[r] = runs[r] /\ StepsOf(r)' = StepsOf(r) /\ RecordsOf(r)' = RecordsOf(r)
  /\ \A q \in Processes \ {p} : op'[q] = op[q]
  /\ op'[p] = Idle \/ (op'[p] # Idle /\ op'[p].run = op[p].run)

\* A step that touches one run only keeps what the commands about other runs rely on.
LEMMA OwnRunKeeps ==
  ASSUME ClosedInv, ScenarioInv', NEW p \in Processes, op[p] # Idle,
         overlapped' = overlapped, OwnRunOnly(p), StepsKept(p),
         StepOfItsRun(p)', CheckHolds(p)',
         op[p].run \notin overlapped /\ runs'[op[p].run] \in Final =>
           \A x \in steps' : x.run = op[p].run => x.status # "running"
  PROVE  ClosedInv'
<1>0. TypeOK /\ op[p] \in Commands /\ op[p].run \in Runs
  BY DEF ClosedInv, ScenarioInv, TypeOK, Commands
<1>1. \A q \in Processes, r \in Runs : About(q, r)' => About(q, r)
  BY <1>0 DEF OwnRunOnly, About
<1>2. OneAtATime'
  BY <1>1 DEF OneAtATime, ClosedInv
<1>3. StepsClosed'
  <2> SUFFICES ASSUME NEW r \in Runs \ overlapped, runs'[r] \in Final, NEW x \in StepsOf(r)'
               PROVE  x.status # "running"
    BY DEF StepsClosed
  <2>1. CASE r = op[p].run
    BY <2>1 DEF StepsOf
  <2>2. CASE r # op[p].run
    BY <2>2 DEF StepsClosed, ClosedInv, OwnRunOnly
  <2> QED BY <2>1, <2>2
<1>4. ASSUME NEW q \in Processes, q # p PROVE StepOfItsRun(q)' /\ CheckHolds(q)'
  <2>1. op'[q] = op[q] /\ StepOfItsRun(q) /\ CheckHolds(q)
    BY <1>4 DEF OwnRunOnly, ClosedInv
  <2>2. StepOfItsRun(q)'
    BY <2>1 DEF StepOfItsRun, StepsKept
  <2>3. ASSUME op[q] # Idle, op[q].run \notin overlapped PROVE CheckHolds(q)'
    <3>1. op[q].run \in Runs
      BY <1>0, <2>3 DEF TypeOK, Commands
    <3>2. op[q].run # op[p].run
      BY <1>0, <1>4, <2>3, <3>1 DEF ClosedInv, OneAtATime, About
    <3>3. runs'[op[q].run] = runs[op[q].run] /\ StepsOf(op[q].run)' = StepsOf(op[q].run)
      BY <3>1, <3>2 DEF OwnRunOnly
    <3>4. op[q].at = "update_step" => op[q].row \subseteq StepsOf(op[q].run)
      BY <2>1, <2>3 DEF StepOfItsRun, CheckHolds, StepsOf
    <3>5. StepsOf(op[q].run)' \subseteq steps'
      BY DEF StepsOf
    <3> QED BY <2>1, <2>3, <3>3, <3>4, <3>5 DEF CheckHolds
  <2> QED BY <2>1, <2>2, <2>3 DEF CheckHolds
<1> QED BY <1>2, <1>3, <1>4 DEF ClosedInv

\* A step of p that stores nothing.
LEMMA StoresNothing ==
  ASSUME ClosedInv, ScenarioInv', NEW p \in Processes, op[p] # Idle,
         UNCHANGED <<stored, overlapped>>,
         \A q \in Processes \ {p} : op'[q] = op[q],
         op'[p] = Idle \/ (op'[p] # Idle /\ op'[p].run = op[p].run /\ StepOfItsRun(p)' /\ CheckHolds(p)')
  PROVE  ClosedInv' /\ OwnRunOnly(p)
<1>0. op[p].run \in Runs
  BY DEF ClosedInv, ScenarioInv, TypeOK, Commands
<1>1. OwnRunOnly(p) /\ StepsKept(p)
  BY DEF OwnRunOnly, StepsKept, stored, StepsOf, RecordsOf
<1>2. StepOfItsRun(p)' /\ CheckHolds(p)'
  BY DEF StepOfItsRun, CheckHolds
<1>3. op[p].run \notin overlapped /\ runs'[op[p].run] \in Final =>
        \A x \in steps' : x.run = op[p].run => x.status # "running"
  BY <1>0 DEF ClosedInv, StepsClosed, stored, StepsOf
<1> QED BY <1>1, <1>2, <1>3, OwnRunKeeps

\* A command that is over.
LEMMA OverKnowsNothing ==
  ASSUME TypeOK, NEW p \in Processes, Answer(p)
  PROVE  /\ op'[p] = Idle /\ \A q \in Processes \ {p} : op'[q] = op[q]
         /\ StepOfItsRun(p)' /\ CheckHolds(p)'
<1>1. op'[p] = Idle /\ \A q \in Processes \ {p} : op'[q] = op[q]
  BY DEF Answer, TypeOK
<1> QED BY <1>1 DEF StepOfItsRun, CheckHolds

\* A new command starts with what its request has looked at.
LEMMA BeginsClosed ==
  ASSUME ClosedInv, ScenarioInv', NEW p \in Processes, NEW c \in Commands, Begin(p, c),
         c.at \in {"insert_run", "run_active", "get_step", "get_run"},
         c.at = "insert_run" => runs[c.run] = "none",
         c.at = "get_step" => \E x \in steps : x.id = c.step /\ x.run = c.run
  PROVE  ClosedInv'
<1>0. TypeOK /\ c # Idle
  BY DEF ClosedInv, ScenarioInv
<1>1. /\ op[p] = Idle /\ op'[p] = c /\ \A q \in Processes \ {p} : op'[q] = op[q]
      /\ overlapped \subseteq overlapped'
      /\ runs' = runs /\ steps' = steps
  BY <1>0 DEF Begin, TypeOK, stored
<1>2. (\E q \in Processes : op[q] # Idle /\ op[q].run = c.run) => c.run \in overlapped'
  BY DEF Begin
<1>3. OneAtATime'
  <2> SUFFICES ASSUME NEW r \in Runs \ overlapped', NEW q1 \in Processes, NEW q2 \in Processes,
                      About(q1, r)', About(q2, r)'
               PROVE  q1 = q2
    BY DEF OneAtATime
  <2>1. CASE q1 # p /\ q2 # p
    <3>1. About(q1, r) /\ About(q2, r)
      BY <1>1, <2>1 DEF About
    <3> QED BY <1>1, <3>1 DEF ClosedInv, OneAtATime
  <2>2. CASE (q1 = p /\ q2 # p) \/ (q1 # p /\ q2 = p)
    BY <1>1, <1>2, <2>2 DEF About
  <2> QED BY <2>1, <2>2
<1>4. StepsClosed'
  BY <1>1 DEF ClosedInv, StepsClosed, StepsOf
<1>5. StepOfItsRun(p)' /\ CheckHolds(p)'
  BY <1>1 DEF StepOfItsRun, CheckHolds
<1>6. \A q \in Processes \ {p} : StepOfItsRun(q)' /\ CheckHolds(q)'
  BY <1>1 DEF ClosedInv, StepOfItsRun, CheckHolds, StepsOf
<1> QED BY <1>3, <1>4, <1>5, <1>6 DEF ClosedInv

\* A finished run of its own, the step of p leaves alone.
FinalStays(p) ==
  op[p].run \notin overlapped /\ runs[op[p].run] \in Final =>
    UNCHANGED <<runs, steps, records>>

\* A check that lets the command go on has found what the next statement relies on.
LEMMA ChecksClosed ==
  ASSUME ClosedInv, ScenarioInv', NEW p \in Processes, overlapped' = overlapped,
         RunActive(p) \/ StepOfRun(p) \/ StepActive(p) \/ GetRun(p) \/ StepsFinished(p)
  PROVE  ClosedInv' /\ OwnRunOnly(p) /\ FinalStays(p)
<1>0. TypeOK /\ op[p] \in Commands /\ op[p] # Idle
  BY DEF ClosedInv, ScenarioInv, RunActive, StepOfRun, StepActive, GetRun, StepsFinished, Check, At, TypeOK
<1>1. UNCHANGED stored
  BY DEF RunActive, StepOfRun, StepActive, GetRun, StepsFinished, Check
<1>2. FinalStays(p)
  BY <1>1 DEF FinalStays, stored
<1>3. CASE Answer(p)
  BY <1>0, <1>1, <1>2, <1>3, OverKnowsNothing, StoresNothing
<1>4. ASSUME NEW label \in Labels, Continue(p, label),
             label \notin {"get_step", "update_step", "insert_run"},
             op[p].run \notin overlapped => runs[op[p].run] = "running",
             op[p].run \notin overlapped /\ label = "update_run" =>
               \A x \in StepsOf(op[p].run) : x.status # "running"
      PROVE  ClosedInv' /\ OwnRunOnly(p)
  <2>1. /\ op'[p] # Idle /\ op'[p].at = label /\ op'[p].run = op[p].run
        /\ \A q \in Processes \ {p} : op'[q] = op[q]
    BY <1>0, <1>4, Continues
  <2>2. StepOfItsRun(p)'
    BY <1>4, <2>1 DEF StepOfItsRun
  <2>3. CheckHolds(p)'
    BY <1>1, <1>4, <2>1 DEF CheckHolds, stored, StepsOf
  <2> QED BY <1>0, <1>1, <2>1, <2>2, <2>3, StoresNothing
<1>5. CASE RunActive(p) /\ ~ Answer(p)
  <2>1. Continue(p, AfterRunActive(op[p])) /\ runs[op[p].run] = "running"
    BY <1>5 DEF RunActive, Check
  <2>2. AfterRunActive(op[p]) \in {"insert_step", "insert_record", "step_of_run"}
    BY DEF AfterRunActive
  <2>3. CASE AfterRunActive(op[p]) = "insert_step"
    BY <1>2, <1>4, <2>1, <2>3 DEF Labels
  <2>4. CASE AfterRunActive(op[p]) = "insert_record"
    BY <1>2, <1>4, <2>1, <2>4 DEF Labels
  <2>5. CASE AfterRunActive(op[p]) = "step_of_run"
    BY <1>2, <1>4, <2>1, <2>5 DEF Labels
  <2> QED BY <2>2, <2>3, <2>4, <2>5
<1>6. CASE StepOfRun(p) /\ ~ Answer(p)
  <2>1. op[p].at = "step_of_run" /\ Continue(p, "step_active")
    BY <1>6 DEF StepOfRun, Check, At
  <2> QED BY <1>0, <1>2, <1>4, <2>1 DEF Labels, ClosedInv, CheckHolds
<1>7. CASE StepActive(p) /\ ~ Answer(p)
  <2>1. op[p].at = "step_active" /\ Continue(p, "insert_record")
    BY <1>7 DEF StepActive, Check, At
  <2> QED BY <1>0, <1>2, <1>4, <2>1 DEF Labels, ClosedInv, CheckHolds
<1>8. CASE GetRun(p) /\ ~ Answer(p)
  <2>1. Continue(p, "steps_finished") /\ runs[op[p].run] = "running"
    BY <1>8 DEF GetRun, Check
  <2> QED BY <1>2, <1>4, <2>1 DEF Labels
<1>9. CASE StepsFinished(p) /\ ~ Answer(p)
  <2>1. /\ op[p].at = "steps_finished" /\ Continue(p, "update_run")
        /\ \A x \in StepsOf(op[p].run) : x.status # "running"
    BY <1>9 DEF StepsFinished, Check, At
  <2> QED BY <1>0, <1>2, <1>4, <2>1 DEF Labels, ClosedInv, CheckHolds
<1> QED BY <1>2, <1>3, <1>5, <1>6, <1>7, <1>8, <1>9

\* A statement that writes and ends its command, or stores the run and goes on.
LEMMA RunsClosed ==
  ASSUME ClosedInv, ScenarioInv', NEW p \in Processes, overlapped' = overlapped,
         InsertRun(p) \/ InsertFingerprint(p) \/ UpdateRun(p)
  PROVE  ClosedInv' /\ OwnRunOnly(p) /\ FinalStays(p)
<1>0. TypeOK /\ op[p] \in Commands /\ op[p] # Idle /\ op[p].run \in Runs /\ CheckHolds(p)
  BY DEF ClosedInv, ScenarioInv, InsertRun, InsertFingerprint, UpdateRun, At, TypeOK, Commands
<1>1. steps' = steps /\ records' = records
  BY DEF InsertRun, InsertFingerprint, UpdateRun
<1>2. StepsKept(p)
  BY <1>1 DEF StepsKept
<1>3. runs' = runs \/ \E v : runs' = [runs EXCEPT ![op[p].run] = v]
  BY DEF InsertRun, InsertFingerprint, UpdateRun
<1>4. \A r \in Runs : r # op[p].run =>
        runs'[r] = runs[r] /\ StepsOf(r)' = StepsOf(r) /\ RecordsOf(r)' = RecordsOf(r)
  BY <1>0, <1>1, <1>3 DEF TypeOK, StepsOf, RecordsOf
<1>5. CASE InsertRun(p)
  <2>1. /\ op'[p] # Idle /\ op'[p].at = "insert_fingerprint" /\ op'[p].run = op[p].run
        /\ \A q \in Processes \ {p} : op'[q] = op[q]
    BY <1>0, <1>5, Continues DEF InsertRun, Labels
  <2>2. OwnRunOnly(p) /\ StepOfItsRun(p)' /\ CheckHolds(p)'
    BY <1>4, <2>1 DEF OwnRunOnly, StepOfItsRun, CheckHolds
  <2>3. runs'[op[p].run] = "running" /\ FinalStays(p)
    BY <1>0, <1>5 DEF InsertRun, At, TypeOK, CheckHolds, FinalStays, Final
  <2> QED BY <1>0, <1>2, <2>2, <2>3, OwnRunKeeps DEF Final
<1>6. CASE InsertFingerprint(p)
  <2>1. Answer(p) /\ runs' = runs
    BY <1>6 DEF InsertFingerprint
  <2>2. OwnRunOnly(p) /\ StepOfItsRun(p)' /\ CheckHolds(p)'
    BY <1>0, <1>4, <2>1, OverKnowsNothing DEF OwnRunOnly
  <2>3. op[p].run \notin overlapped /\ runs'[op[p].run] \in Final =>
          \A x \in steps' : x.run = op[p].run => x.status # "running"
    BY <1>0, <1>1, <2>1 DEF ClosedInv, StepsClosed, StepsOf
  <2> QED BY <1>0, <1>1, <1>2, <2>1, <2>2, <2>3, OwnRunKeeps DEF FinalStays
<1>7. CASE UpdateRun(p)
  <2>1. Answer(p) /\ op[p].at = "update_run"
    BY <1>7 DEF UpdateRun, At
  <2>2. OwnRunOnly(p) /\ StepOfItsRun(p)' /\ CheckHolds(p)'
    BY <1>0, <1>4, <2>1, OverKnowsNothing DEF OwnRunOnly
  <2>3. op[p].run \notin overlapped =>
          \A x \in steps' : x.run = op[p].run => x.status # "running"
    BY <1>0, <1>1, <2>1 DEF CheckHolds, StepsOf
  <2>4. FinalStays(p)
    BY <1>0, <2>1 DEF CheckHolds, FinalStays, Final
  <2> QED BY <1>0, <1>2, <2>2, <2>3, <2>4, OwnRunKeeps
<1> QED BY <1>5, <1>6, <1>7

\* A step and a record are added to a run that is still running.
LEMMA InsertsClosed ==
  ASSUME ClosedInv, ScenarioInv', NEW p \in Processes, overlapped' = overlapped,
         InsertStep(p) \/ InsertRecord(p)
  PROVE  ClosedInv' /\ OwnRunOnly(p) /\ FinalStays(p)
<1>0. TypeOK /\ op[p] \in Commands /\ op[p] # Idle /\ op[p].run \in Runs /\ CheckHolds(p)
  BY DEF ClosedInv, ScenarioInv, InsertStep, InsertRecord, At, TypeOK, Commands
<1>1. Answer(p) /\ runs' = runs /\ op[p].at \in {"insert_step", "insert_record"}
  BY DEF InsertStep, InsertRecord, At
<1>2. op[p].run \notin overlapped => runs[op[p].run] = "running"
  BY <1>0, <1>1 DEF CheckHolds
<1>3. FinalStays(p)
  BY <1>2 DEF FinalStays, Final
<1>4. /\ \A r \in Runs : r # op[p].run => StepsOf(r)' = StepsOf(r) /\ RecordsOf(r)' = RecordsOf(r)
      /\ StepsKept(p)
  <2>1. CASE InsertStep(p)
    <3> DEFINE row == [id |-> op[p].step, run |-> op[p].run, ordinal |-> NextOrdinal(op[p].run),
                       status |-> "running"]
    <3>1. steps' = steps \cup {row} /\ records' = records /\ row.run = op[p].run /\ row.id = op[p].step
      BY <2>1 DEF InsertStep
    <3>2. Inserting(p)
      BY <2>1 DEF InsertStep, At, Inserting
    <3> HIDE DEF row
    <3> QED BY <3>1, <3>2 DEF StepsOf, RecordsOf, StepsKept
  <2>2. CASE InsertRecord(p)
    <3> DEFINE e == [id |-> op[p].record, run |-> op[p].run, step |-> op[p].step]
    <3>1. steps' = steps /\ records' = records \cup {e} /\ e.run = op[p].run
      BY <2>2 DEF InsertRecord
    <3> HIDE DEF e
    <3> QED BY <3>1 DEF StepsOf, RecordsOf, StepsKept
  <2> QED BY <2>1, <2>2
<1>5. OwnRunOnly(p) /\ StepOfItsRun(p)' /\ CheckHolds(p)'
  BY <1>0, <1>1, <1>4, OverKnowsNothing DEF OwnRunOnly
<1> QED BY <1>0, <1>1, <1>2, <1>3, <1>4, <1>5, OwnRunKeeps DEF Final

\* A step that is to be finished is still running when it is written back.
LEMMA FinishesClosed ==
  ASSUME ClosedInv, ScenarioInv', NEW p \in Processes, overlapped' = overlapped,
         GetStep(p) \/ UpdateStep(p)
  PROVE  ClosedInv' /\ OwnRunOnly(p) /\ FinalStays(p)
<1>0. /\ TypeOK /\ OrdinalsDense /\ op[p] \in Commands /\ op[p] # Idle /\ op[p].run \in Runs
      /\ CheckHolds(p) /\ StepOfItsRun(p) /\ RowStands(p)
  BY DEF ClosedInv, ScenarioInv, CommandsKnow, GetStep, UpdateStep, At, TypeOK, Commands
<1>1. CASE GetStep(p)
  <2>1. UNCHANGED stored /\ op[p].at = "get_step"
    BY <1>1 DEF GetStep, At
  <2>2. FinalStays(p)
    BY <2>1 DEF FinalStays, stored
  <2>3. PICK x \in steps :
          /\ x.id = op[p].step
          /\ IF x.status = "running"
             THEN op' = [op EXCEPT ![p] = [@ EXCEPT !.at = "update_step", !.row = {x}]]
             ELSE Answer(p)
    BY <1>1 DEF GetStep
  <2>4. CASE Answer(p)
    BY <1>0, <2>1, <2>2, <2>4, OverKnowsNothing, StoresNothing
  <2>5. CASE x.status = "running" /\ ~ Answer(p)
    <3> DEFINE c == [op[p] EXCEPT !.at = "update_step", !.row = {x}]
    <3> x \in ScenarioStep
      BY <1>0 DEF TypeOK
    <3>1. c \in Commands /\ c.at = "update_step" /\ c.row = {x} /\ c.run = op[p].run
      BY <1>0 DEF Commands, Labels
    <3> HIDE DEF c
    <3>2. op' = [op EXCEPT ![p] = c]
      BY <1>0, <2>3, <2>5 DEF TypeOK, c
    <3>5. op'[p] = c /\ \A q \in Processes \ {p} : op'[q] = op[q]
      BY <1>0, <3>2 DEF TypeOK
    <3>3. x.run = op[p].run
      BY <1>0, <2>1, <2>3 DEF StepOfItsRun, OrdinalsDense
    <3>4. StepOfItsRun(p)' /\ CheckHolds(p)'
      BY <2>1, <2>5, <3>1, <3>5, <3>3 DEF StepOfItsRun, CheckHolds, stored
    <3> QED BY <1>0, <2>1, <2>2, <3>1, <3>5, <3>4, StoresNothing
  <2> QED BY <2>3, <2>4, <2>5
<1>2. CASE UpdateStep(p)
  <2>1. Answer(p) /\ op[p].at = "update_step" /\ runs' = runs /\ records' = records
    BY <1>2 DEF UpdateStep, At
  <2>2. PICK x \in op[p].row :
          /\ op[p].row = {x} /\ x.id = op[p].step
          /\ \E y \in steps : y.id = x.id /\ y.run = x.run /\ y.ordinal = x.ordinal
    BY <1>0, <2>1 DEF RowStands
  <2>3. PICK y \in steps : y.id = x.id /\ y.run = x.run /\ y.ordinal = x.ordinal
    BY <2>2
  <2> DEFINE z == [x EXCEPT !.status = op[p].status]
  <2>4. x \in ScenarioStep
    BY <1>0, <2>2 DEF Commands
  <2>5. z.id = y.id /\ z.run = y.run /\ z.ordinal = y.ordinal
    BY <2>3, <2>4 DEF ScenarioStep
  <2>6. steps' = {w \in steps : w.id # y.id} \cup {z}
    BY <1>2, <2>2, <2>3 DEF UpdateStep
  <2> HIDE DEF z
  <2>7. steps' = (steps \ {y}) \cup {z}
    BY <1>0, <2>6 DEF OrdinalsDense
  <2>8. y.run = op[p].run
    BY <1>0, <2>1, <2>2, <2>3 DEF StepOfItsRun
  <2>9. /\ \A r \in Runs : r # op[p].run => StepsOf(r)' = StepsOf(r) /\ RecordsOf(r)' = RecordsOf(r)
        /\ StepsKept(p)
    BY <2>1, <2>5, <2>7, <2>8 DEF StepsOf, RecordsOf, StepsKept
  <2>10. op[p].run \notin overlapped => runs[op[p].run] \notin Final
    <3>1. op[p].run \notin overlapped => x \in steps /\ x.status = "running" /\ x.run = op[p].run
      BY <1>0, <2>1, <2>2 DEF CheckHolds, StepOfItsRun
    <3> QED BY <1>0, <3>1 DEF ClosedInv, StepsClosed, StepsOf
  <2>11. OwnRunOnly(p) /\ StepOfItsRun(p)' /\ CheckHolds(p)'
    BY <1>0, <2>1, <2>9, OverKnowsNothing DEF OwnRunOnly
  <2> QED BY <1>0, <2>1, <2>9, <2>10, <2>11, OwnRunKeeps DEF FinalStays
<1> QED BY <1>1, <1>2

\* Every step preserves the invariant; a statement touches its own run, and that only
\* while it is not finished.
LEMMA ClosedInductive ==
  ASSUME ClosedInv, [Next]_vars
  PROVE  /\ ClosedInv'
         /\ \/ UNCHANGED stored /\ overlapped \subseteq overlapped'
            \/ \E p \in Processes : OwnRunOnly(p) /\ FinalStays(p) /\ overlapped' = overlapped
<1>0. TypeOK /\ ScenarioInv /\ ScenarioInv'
  BY ScenarioInductive DEF ClosedInv, ScenarioInv
<1>1. CASE UNCHANGED vars
  BY <1>0, <1>1 DEF vars, stored, ClosedInv, OneAtATime, About, StepsClosed, StepsOf, StepOfItsRun, CheckHolds
<1>2. ASSUME NEW p \in Processes, Request(p) PROVE ClosedInv' /\ UNCHANGED stored /\ overlapped \subseteq overlapped'
  <2>1. ASSUME NEW at \in {"insert_run", "run_active", "get_step", "get_run"},
               NEW r \in Runs, NEW s \in Steps \cup {NoStep}, NEW k \in Records \cup {NoStep},
               NEW status \in {"running"} \cup Final,
               Begin(p, Command(at, r, s, k, status)),
               at = "insert_run" => runs[r] = "none",
               at = "get_step" => \E x \in steps : x.id = s /\ x.run = r
        PROVE  ClosedInv' /\ UNCHANGED stored /\ overlapped \subseteq overlapped'
    <3> DEFINE c == Command(at, r, s, k, status)
    <3>1. c \in Commands /\ c.at = at /\ c.run = r /\ c.step = s
      BY DEF Command, Commands, Labels, ScenarioStep
    <3> HIDE DEF c
    <3>2. Begin(p, c)
      BY <2>1 DEF c
    <3>3. ClosedInv'
      BY <1>0, <2>1, <3>1, <3>2, BeginsClosed
    <3> QED BY <3>2, <3>3 DEF Begin
  <2>2. ASSUME NEW r \in Runs, ScenarioRecordRun(p, r) PROVE ClosedInv' /\ UNCHANGED stored /\ overlapped \subseteq overlapped'
    BY <2>1, <2>2 DEF ScenarioRecordRun
  <2>3. ASSUME NEW r \in Runs, NEW s \in Steps, ScenarioRecordStep(p, r, s)
        PROVE  ClosedInv' /\ UNCHANGED stored /\ overlapped \subseteq overlapped'
    BY <2>1, <2>3 DEF ScenarioRecordStep
  <2>4. ASSUME NEW r \in Runs, NEW s \in Steps \cup {NoStep}, NEW k \in Records,
               ScenarioRecordEvidence(p, r, s, k)
        PROVE  ClosedInv' /\ UNCHANGED stored /\ overlapped \subseteq overlapped'
    BY <2>1, <2>4 DEF ScenarioRecordEvidence
  <2>5. ASSUME NEW x \in steps, NEW status \in Final, ScenarioFinishStep(p, x, status)
        PROVE  ClosedInv' /\ UNCHANGED stored /\ overlapped \subseteq overlapped'
    <3>1. x.run \in Runs /\ x.id \in Steps
      BY <1>0 DEF TypeOK, ScenarioStep
    <3> QED BY <2>1, <2>5, <3>1 DEF ScenarioFinishStep
  <2>6. ASSUME NEW r \in Runs, NEW status \in Final, ScenarioFinishRun(p, r, status)
        PROVE  ClosedInv' /\ UNCHANGED stored /\ overlapped \subseteq overlapped'
    BY <2>1, <2>6 DEF ScenarioFinishRun
  <2> QED BY <1>2, <2>2, <2>3, <2>4, <2>5, <2>6 DEF Request
<1>3. ASSUME NEW p \in Processes, Statement(p), overlapped' = overlapped
      PROVE  ClosedInv' /\ OwnRunOnly(p) /\ FinalStays(p)
  BY <1>0, <1>3, ChecksClosed, RunsClosed, InsertsClosed, FinishesClosed DEF Statement
<1>4. ASSUME NEW p \in Processes, Abandon(p), overlapped' = overlapped
      PROVE  ClosedInv' /\ OwnRunOnly(p) /\ FinalStays(p)
  <2>1. ClosedInv' /\ OwnRunOnly(p)
    BY <1>0, <1>4, OverKnowsNothing, StoresNothing DEF Abandon
  <2> QED BY <1>4, <2>1 DEF Abandon, FinalStays, stored
<1> QED BY <1>1, <1>2, <1>3, <1>4 DEF Next

LEMMA ClosedInvariance == Spec => []ClosedInv
<1>1. Init => ClosedInv
  <2> SUFFICES ASSUME Init PROVE ClosedInv
    OBVIOUS
  <2>1. \A p \in Processes : op[p] = Idle
    BY DEF Init
  <2>2. OneAtATime /\ StepsClosed /\ \A p \in Processes : StepOfItsRun(p) /\ CheckHolds(p)
    BY <2>1 DEF Init, OneAtATime, About, StepsClosed, StepsOf, StepOfItsRun, CheckHolds
  <2> QED BY <2>2, ScenarioInitially DEF ClosedInv
<1>2. ClosedInv /\ [Next]_vars => ClosedInv'
  BY ClosedInductive
<1> QED BY <1>1, <1>2, PTL DEF Spec

\* For any number of recorders: when a run is finished and its commands have come one
\* after the other, none of its steps is left running ("still has active steps").
THEOREM FinishedHasNoActiveSteps == Spec => []StepsClosed
<1>1. ClosedInv => StepsClosed
  BY DEF ClosedInv
<1> QED BY <1>1, ClosedInvariance, PTL

\* For any number of recorders: once finished, a run whose commands have come one after
\* the other keeps its status, its steps and its evidence for ever.
THEOREM FinishedStaysClosed == Spec => ClosedRun
<1>1. ClosedInv /\ [Next]_vars =>
        [\A r \in Runs \ overlapped' : runs[r] \in Final =>
           /\ runs'[r] = runs[r]
           /\ StepsOf(r)' = StepsOf(r)
           /\ {e \in records' : e.run = r} = {e \in records : e.run = r}]_vars
  <2> SUFFICES ASSUME ClosedInv, [Next]_vars, NEW r \in Runs \ overlapped', runs[r] \in Final
               PROVE  runs'[r] = runs[r] /\ StepsOf(r)' = StepsOf(r) /\ RecordsOf(r)' = RecordsOf(r)
    BY DEF RecordsOf
  <2>1. CASE UNCHANGED stored
    BY <2>1 DEF stored, StepsOf, RecordsOf
  <2>2. ASSUME NEW p \in Processes, OwnRunOnly(p), FinalStays(p), overlapped' = overlapped
        PROVE  runs'[r] = runs[r] /\ StepsOf(r)' = StepsOf(r) /\ RecordsOf(r)' = RecordsOf(r)
    BY <2>2 DEF OwnRunOnly, FinalStays, StepsOf, RecordsOf
  <2> QED BY <2>1, <2>2, ClosedInductive
<1> QED BY <1>1, ClosedInvariance, PTL DEF Spec, ClosedRun

=============================================================================
