--------------------------- MODULE EvidenceProofs ---------------------------
(***************************************************************************)
(* Files, rows and events of artifacts agree with each other and with how  *)
(* operations ended, for any number of processes, artifacts and incidents. *)
(* The argument: a file belongs to the operation that began it until a row *)
(* is stored for it, and which files of an operation have a row is told by *)
(* the steps it has left.  Then the native surfaces: what an operation has *)
(* left to call is a suffix of the channels it started with, so that the   *)
(* number of its fallbacks is its place in the catalogue; and what it has  *)
(* reported so far is what its steps found.  At last the grids of crops:   *)
(* rounding makes no part empty and leaves no pixel between two of them.   *)
(***************************************************************************)
EXTENDS BrowserEvidence, TLAPS

USE ArtifactAssumption

-----------------------------------------------------------------------------
(* The plans of the operations: what is left of them at each stage.        *)

Stages == 1 .. 19
Left(k) ==
  CASE k = 1 -> <<"acquire", "other", "store", "event">>
    [] k = 2 -> <<"acquire", "screenshot", "store", "event">>
    [] k = 3 -> <<"acquire", "pdf", "store", "event">>
    [] k = 4 -> <<"other", "store", "event">>
    [] k = 5 -> <<"screenshot", "store", "event">>
    [] k = 6 -> <<"pdf", "store", "event">>
    [] k = 7 -> <<"store", "event">>
    [] k = 8 -> <<"event">>
    [] k = 9 -> <<"row", "source", "screenshot", "store", "event">>
    [] k = 10 -> <<"source", "screenshot", "store", "event">>
    [] k = 11 -> <<"row", "source", "screenshot", "screenshot", "store", "store", "event">>
    [] k = 12 -> <<"source", "screenshot", "screenshot", "store", "store", "event">>
    [] k = 13 -> <<"screenshot", "screenshot", "store", "store", "event">>
    [] k = 14 -> <<"screenshot", "store", "store", "event">>
    [] k = 15 -> <<"store", "store", "event">>
    [] k = 16 -> <<"bridge", "other", "store", "native", "screenshot", "store", "event">>
    [] k = 17 -> <<"other", "store", "native", "screenshot", "store", "event">>
    [] k = 18 -> <<"store", "native", "screenshot", "store", "event">>
    [] OTHER -> <<"native", "screenshot", "store", "event">>

\* The stage after k, the step that k begins with, and how many files are written and
\* not stored there.
Following(k) ==
  CASE k \in {1, 2, 3} -> k + 3
    [] k \in {4, 5, 6, 15} -> 7
    [] k \in {10, 19} -> 5
    [] OTHER -> k + 1
StepAt(k) ==
  CASE k \in {1, 2, 3} -> "acquire"
    [] k \in {4, 17} -> "other"
    [] k \in {5, 13, 14} -> "screenshot"
    [] k = 6 -> "pdf"
    [] k \in {7, 15, 18} -> "store"
    [] k = 8 -> "event"
    [] k \in {9, 11} -> "row"
    [] k \in {10, 12} -> "source"
    [] k = 16 -> "bridge"
    [] OTHER -> "native"
Unstored(k) == CASE k \in {7, 14, 18} -> 1 [] k = 15 -> 2 [] OTHER -> 0

\* A stage begins with its step.
LEMMA StageBegins ==
  ASSUME NEW k \in Stages
  PROVE  Left(k) # <<>> /\ Head(Left(k)) = StepAt(k)
  <1>1. CASE k = 1
    BY <1>1 DEF Left, StepAt
  <1>2. CASE k = 2
    BY <1>2 DEF Left, StepAt
  <1>3. CASE k = 3
    BY <1>3 DEF Left, StepAt
  <1>4. CASE k = 4
    BY <1>4 DEF Left, StepAt
  <1>5. CASE k = 5
    BY <1>5 DEF Left, StepAt
  <1>6. CASE k = 6
    BY <1>6 DEF Left, StepAt
  <1>7. CASE k = 7
    BY <1>7 DEF Left, StepAt
  <1>8. CASE k = 8
    BY <1>8 DEF Left, StepAt
  <1>9. CASE k = 9
    BY <1>9 DEF Left, StepAt
  <1>10. CASE k = 10
    BY <1>10 DEF Left, StepAt
  <1>11. CASE k = 11
    BY <1>11 DEF Left, StepAt
  <1>12. CASE k = 12
    BY <1>12 DEF Left, StepAt
  <1>13. CASE k = 13
    BY <1>13 DEF Left, StepAt
  <1>14. CASE k = 14
    BY <1>14 DEF Left, StepAt
  <1>15. CASE k = 15
    BY <1>15 DEF Left, StepAt
  <1>16. CASE k = 16
    BY <1>16 DEF Left, StepAt
  <1>17. CASE k = 17
    BY <1>17 DEF Left, StepAt
  <1>18. CASE k = 18
    BY <1>18 DEF Left, StepAt
  <1>19. CASE k = 19
    BY <1>19 DEF Left, StepAt
  <1> QED  BY <1>1, <1>2, <1>3, <1>4, <1>5, <1>6, <1>7, <1>8, <1>9, <1>10, <1>11,
              <1>12, <1>13, <1>14, <1>15, <1>16, <1>17, <1>18, <1>19 DEF Stages

\* What is left after a step is what is left at the following stage.
LEMMA StageFollows ==
  ASSUME NEW k \in Stages, k # 8
  PROVE  Following(k) \in Stages /\ Tail(Left(k)) = Left(Following(k))
  <1>1. CASE k = 1
    BY <1>1 DEF Left, Following, Stages
  <1>2. CASE k = 2
    BY <1>2 DEF Left, Following, Stages
  <1>3. CASE k = 3
    BY <1>3 DEF Left, Following, Stages
  <1>4. CASE k = 4
    BY <1>4 DEF Left, Following, Stages
  <1>5. CASE k = 5
    BY <1>5 DEF Left, Following, Stages
  <1>6. CASE k = 6
    BY <1>6 DEF Left, Following, Stages
  <1>7. CASE k = 7
    BY <1>7 DEF Left, Following, Stages
  <1>9. CASE k = 9
    BY <1>9 DEF Left, Following, Stages
  <1>10. CASE k = 10
    BY <1>10 DEF Left, Following, Stages
  <1>11. CASE k = 11
    BY <1>11 DEF Left, Following, Stages
  <1>12. CASE k = 12
    BY <1>12 DEF Left, Following, Stages
  <1>13. CASE k = 13
    BY <1>13 DEF Left, Following, Stages
  <1>14. CASE k = 14
    BY <1>14 DEF Left, Following, Stages
  <1>15. CASE k = 15
    BY <1>15 DEF Left, Following, Stages
  <1>16. CASE k = 16
    BY <1>16 DEF Left, Following, Stages
  <1>17. CASE k = 17
    BY <1>17 DEF Left, Following, Stages
  <1>18. CASE k = 18
    BY <1>18 DEF Left, Following, Stages
  <1>19. CASE k = 19
    BY <1>19 DEF Left, Following, Stages
  <1>8. \/ k = 1 \/ k = 2 \/ k = 3 \/ k = 4 \/ k = 5 \/ k = 6 \/ k = 7 \/ k = 9 \/ k = 10 \/ k = 11
        \/ k = 12 \/ k = 13 \/ k = 14 \/ k = 15 \/ k = 16 \/ k = 17 \/ k = 18 \/ k = 19
    BY DEF Stages
  <1> QED  BY <1>1, <1>2, <1>3, <1>4, <1>5, <1>6, <1>7, <1>8, <1>9, <1>10, <1>11,
              <1>12, <1>13, <1>14, <1>15, <1>16, <1>17, <1>18, <1>19

-----------------------------------------------------------------------------
(* The invariant.                                                          *)

Plans == {<<>>} \cup {Left(k) : k \in Stages}
Handles == [id : Nat, kind : Kinds]
OpRecord == [plan : Plans, writing : Nat, written : Seq(Handles), ids : SUBSET Nat, source : Nat]
EndRecord == [result : {"none", "succeeded", "failed", "died"}, ids : SUBSET Nat, left : BOOLEAN]

StoreTypes ==
  /\ op \in [Processes -> OpRecord]
  /\ last \in [Processes -> EndRecord]
  /\ run \in [Processes -> Runs \cup {NoRun}]
  /\ events \in SUBSET [run : Runs \cup {NoRun}, names : SUBSET Nat]
  /\ used \in Nat /\ incidents \in Nat
  /\ file = [i \in DOMAIN file |-> file[i]]
  /\ \A p \in Processes : last[p].ids \subseteq 1 .. used
  /\ \A e \in events : e.names \subseteq 1 .. used

Finished(id) == id \in DOMAIN file /\ file[id] # "partial"
Croppable(id) == \E r \in rows : r.id = id /\ r.kind \in {"screenshot", "pdf"}

\* The operation of p is at stage k: so many files are written and not stored, there is
\* something to name by the event, the source of a crop has a row after the step that
\* looks for it, and a picture of the bridge is there only until it is read.
At(p, k) ==
  /\ op[p].plan = Left(k)
  /\ Len(op[p].written) = Unstored(k)
  /\ op[p].writing # 0 => StepAt(k) \in Kinds
  /\ k = 8 => op[p].ids # {}
  /\ k \notin {9, 11} /\ op[p].source # 0 => Croppable(op[p].source)
  /\ p \in temps => k \in {17, 18, 19}
Staged(p) == op[p] = Idle \/ \E k \in Stages : At(p, k)

\* The files of an operation are written to their end, and each one waits for its row or
\* has one of the run that the process records.
Owned(p) ==
  /\ \A i \in DOMAIN op[p].written : op[p].written[i].id \in op[p].ids /\ Finished(op[p].written[i].id)
  /\ \A id \in op[p].ids : \/ \E i \in DOMAIN op[p].written : op[p].written[i].id = id
                           \/ \E r \in rows : r.id = id /\ r.run = run[p]

\* A file that is being written is known to nobody else; the files of an operation are
\* known to no other one, none that has ended and no event.
Separate ==
  /\ \A p \in Processes : op[p].writing # 0 =>
       /\ op[p].writing \in DOMAIN file
       /\ \A r \in rows : r.id # op[p].writing
       /\ \A e \in events : op[p].writing \notin e.names
       /\ \A q \in Processes : /\ op[p].writing \notin op[q].ids /\ op[p].writing \notin last[q].ids
                               /\ q # p => op[q].writing # op[p].writing
  /\ \A p, q \in Processes : /\ op[p].ids \cap last[q].ids = {}
                             /\ p # q => op[p].ids \cap op[q].ids = {}
  /\ \A p \in Processes : \A e \in events : e.names \cap op[p].ids = {}

StoreInd ==
  /\ StoreInv /\ StoreTypes /\ Separate
  /\ \A p \in Processes : Staged(p) /\ Owned(p)

-----------------------------------------------------------------------------
(* Facts about one operation.                                              *)

LEMMA OpFields ==
  ASSUME StoreTypes, NEW p \in Processes
  PROVE  /\ op[p] \in OpRecord /\ op[p].plan \in Plans /\ op[p].writing \in Nat
         /\ op[p].written \in Seq(Handles) /\ op[p].ids \subseteq Nat /\ op[p].source \in Nat
         /\ last[p] \in EndRecord /\ last[p].ids \subseteq Nat
         /\ run[p] \in Runs \cup {NoRun}
  BY DEF StoreTypes, OpRecord, EndRecord

\* The step of an operation is the one its stage begins with.
LEMMA StageOf ==
  ASSUME NEW p \in Processes, Staged(p), op[p] # Idle
  PROVE  \E k \in Stages : At(p, k) /\ Step(p) = StepAt(k)
  <1>1. PICK k \in Stages : At(p, k)
    BY DEF Staged
  <1>2. Step(p) = StepAt(k)
    BY <1>1, StageBegins DEF At, Step
  <1> QED  BY <1>1, <1>2

LEMMA IdleType ==
  /\ Idle \in OpRecord
  /\ Idle.plan = <<>> /\ Idle.writing = 0 /\ Idle.written = <<>> /\ Idle.ids = {} /\ Idle.source = 0
  <1>1. <<>> \in Plans /\ <<>> \in Seq(Handles) /\ {} \in SUBSET Nat
    BY DEF Plans
  <1> QED  BY <1>1 DEF OpRecord, Idle

LEMMA IdleHasNothing ==
  ASSUME NEW p \in Processes, op[p] = Idle
  PROVE  /\ Step(p) = "none" /\ op[p].plan = <<>> /\ op[p].writing = 0 /\ op[p].written = <<>>
         /\ op[p].ids = {} /\ op[p].source = 0
  BY DEF Idle, Step

\* A process that works stays where it was when others store, finish and lose files.
LEMMA WorkerKept ==
  ASSUME NEW q \in Processes, Staged(q), Owned(q),
         op'[q] = op[q], run'[q] = run[q], q \in temps' => q \in temps, rows \subseteq rows',
         \A id \in op[q].ids : Finished(id) => Finished(id)'
  PROVE  Staged(q)' /\ Owned(q)'
  <1>1. Staged(q)'
    <2>1. CASE op[q] = Idle
      BY <2>1 DEF Staged
    <2>2. CASE op[q] # Idle
      <3>1. PICK k \in Stages : At(q, k)
        BY <2>2 DEF Staged
      <3>2. Croppable(op[q].source) => Croppable(op[q].source)'
        BY DEF Croppable
      <3>3. At(q, k)'
        BY <3>1, <3>2 DEF At
      <3> QED  BY <3>3 DEF Staged
    <2> QED  BY <2>1, <2>2
  <1>2. Owned(q)'
    BY DEF Owned
  <1> QED  BY <1>1, <1>2

\* Rows that stay backed when no file of a row is lost to a writer.
LEMMA RowsKept ==
  ASSUME RowsBacked, rows' = rows, \A r \in rows : Finished(r.id) => Finished(r.id)'
  PROVE  RowsBacked'
  BY DEF RowsBacked, Finished

-----------------------------------------------------------------------------
(* An operation goes on without touching the store.                        *)

LEMMA MoveKeeps ==
  ASSUME StoreInd, NEW p \in Processes, NEW k \in Stages, NEW j \in Stages, At(p, k),
         StepAt(k) \notin Kinds, Unstored(j) = Unstored(k), j # 8,
         j \notin {9, 11} /\ op[p].source # 0 => Croppable(op[p].source),
         op' = [op EXCEPT ![p].plan = Left(j)],
         temps' \subseteq Processes, \A q \in Processes \ {p} : q \in temps' => q \in temps,
         p \in temps' => j \in {17, 18, 19},
         UNCHANGED <<store, last, run, used, incidents>>
  PROVE  StoreInd'
  <1> USE DEF store
  <1> DEFINE c == [op[p] EXCEPT !.plan = Left(j)]
  <1>1. StoreTypes /\ Separate /\ StoreInv
    BY DEF StoreInd
  <1>2. /\ c \in OpRecord /\ c.plan = Left(j) /\ c.writing = op[p].writing /\ c.written = op[p].written
        /\ c.ids = op[p].ids /\ c.source = op[p].source
    <2>1. Left(j) \in Plans
      BY DEF Plans
    <2> QED  BY <1>1, <2>1, OpFields DEF OpRecord
  <1> HIDE DEF c
  <1>3. /\ op' \in [Processes -> OpRecord] /\ op'[p] = c
        /\ \A q \in Processes \ {p} : op'[q] = op[q]
    BY <1>1, <1>2 DEF StoreTypes, c
  <1>4. /\ \A q \in Processes : /\ op'[q].writing = op[q].writing /\ op'[q].written = op[q].written
                                /\ op'[q].ids = op[q].ids /\ op'[q].source = op[q].source
    BY <1>2, <1>3
  <1>5. StoreTypes'
    BY <1>1, <1>3 DEF StoreTypes
  <1>6. Separate'
    BY <1>1, <1>4 DEF Separate
  <1>7. StoreInv'
    BY <1>1, <1>4 DEF StoreInv, TypeOK, RowsBacked, EventsBacked, NothingLeft
  <1>8. ASSUME NEW q \in Processes  PROVE Staged(q)' /\ Owned(q)'
    <2>1. Owned(q)'
      BY <1>4 DEF StoreInd, Owned, Finished
    <2>2. CASE q = p
      <3>1. op[p].writing = 0 /\ Len(op[p].written) = Unstored(k)
        BY DEF At
      <3>2. Croppable(op[p].source) => Croppable(op[p].source)'
        BY DEF Croppable
      <3>3. At(p, j)'
        BY <1>2, <1>3, <3>1, <3>2 DEF At, Croppable
      <3> QED  BY <2>1, <2>2, <3>3 DEF Staged
    <2>3. CASE q # p
      <3>1. Staged(q)'
        BY <1>3, <2>3, WorkerKept DEF StoreInd, Finished
      <3> QED  BY <2>1, <3>1
    <2> QED  BY <2>2, <2>3
  <1> QED  BY <1>5, <1>6, <1>7, <1>8 DEF StoreInd

\* An operation begins.
LEMMA BeginKeeps ==
  ASSUME StoreInd, NEW p \in Processes, NEW k \in {1, 2, 3, 9, 11, 16}, NEW source \in 0 .. used,
         source # 0 => k \in {9, 11}, Begin(p, Left(k), source)
  PROVE  StoreInd'
  <1> USE DEF store
  <1> DEFINE c == [Idle EXCEPT !.plan = Left(k), !.source = source]
  <1>0. /\ op[p] = Idle /\ op' = [op EXCEPT ![p] = c] /\ last' = [last EXCEPT ![p] = Unended]
        /\ temps' = temps \ {p} /\ UNCHANGED <<store, run, used, incidents>>
    BY DEF Begin
  <1>1. StoreTypes /\ Separate /\ StoreInv /\ source \in Nat
    BY DEF StoreInd, StoreTypes
  <1>2. /\ c \in OpRecord
        /\ c.plan = Left(k) /\ c.writing = 0 /\ c.written = <<>> /\ c.ids = {} /\ c.source = source
    <2>1. Left(k) \in Plans
      BY DEF Plans, Stages
    <2> QED  BY <1>1, <2>1, IdleType DEF OpRecord
  <1> HIDE DEF c
  <1>3. Unended \in EndRecord /\ Unended.ids = {} /\ Unended.result = "none"
    BY DEF Unended, EndRecord
  <1>4. /\ op' \in [Processes -> OpRecord] /\ op'[p] = c
        /\ \A q \in Processes \ {p} : op'[q] = op[q]
    BY <1>0, <1>1, <1>2 DEF StoreTypes
  <1>5. /\ last' \in [Processes -> EndRecord] /\ last'[p] = Unended
        /\ \A q \in Processes \ {p} : last'[q] = last[q]
    BY <1>0, <1>1, <1>3 DEF StoreTypes
  <1>6. StoreTypes'
    BY <1>0, <1>1, <1>3, <1>4, <1>5 DEF StoreTypes
  <1>7. Separate'
    BY <1>0, <1>1, <1>2, <1>3, <1>4, <1>5 DEF Separate
  <1>8. StoreInv'
    <2>1. TypeOK'
      BY <1>0, <1>1, <1>2, <1>4 DEF StoreInv, TypeOK, StoreTypes
    <2>2. RowsBacked' /\ EventsBacked'
      BY <1>0, <1>1 DEF StoreInv, RowsBacked, EventsBacked
    <2>3. NothingLeft'
      BY <1>0, <1>1, <1>3, <1>5 DEF StoreInv, NothingLeft
    <2> QED  BY <2>1, <2>2, <2>3 DEF StoreInv
  <1>9. ASSUME NEW q \in Processes  PROVE Staged(q)' /\ Owned(q)'
    <2>1. CASE q = p
      <3>1. k \in Stages /\ Unstored(k) = 0 /\ k # 8 /\ (k \notin {9, 11} => source = 0) /\ p \notin temps'
        BY <1>0 DEF Stages, Unstored
      <3>2. At(p, k)'
        BY <1>2, <1>4, <3>1 DEF At
      <3>3. Owned(p)'
        BY <1>2, <1>4 DEF Owned
      <3> QED  BY <2>1, <3>1, <3>2, <3>3 DEF Staged
    <2>2. CASE q # p
      BY <1>0, <1>4, <2>2, WorkerKept DEF StoreInd, Finished
    <2> QED  BY <2>1, <2>2
  <1> QED  BY <1>6, <1>7, <1>8, <1>9 DEF StoreInd

\* An operation ends: with its event, which names files that all have rows, or without.
EndsWith(p, result) ==
  \/ events' = events /\ result \in {"failed", "died"}
  \/ /\ result = "succeeded" /\ At(p, 8)
     /\ events' = IF run[p] = NoRun THEN events ELSE events \cup {[run |-> run[p], names |-> op[p].ids]}

LEMMA EndKeeps ==
  ASSUME StoreInd, NEW p \in Processes, NEW result, op[p] # Idle, Ended(p, result), EndsWith(p, result),
         temps' \in {temps, temps \ {p}}, UNCHANGED <<rows, run, used>>,
         incidents' \in Nat, incidents' <= MaxIncidents,
         \/ file' = file
         \/ op[p].writing # 0 /\ file' = [i \in DOMAIN file \ {op[p].writing} |-> file[i]]
  PROVE  StoreInd'
  <1> DEFINE e == [result |-> result, ids |-> op[p].ids, left |-> p \in temps]
             c == IF op[p].ids = {} THEN last[p] ELSE e
  <1>1. StoreTypes /\ Separate /\ StoreInv
    BY DEF StoreInd
  <1>2. /\ op' \in [Processes -> OpRecord] /\ op'[p] = Idle
        /\ \A q \in Processes \ {p} : op'[q] = op[q]
    BY <1>1, IdleType DEF StoreTypes, Ended
  <1>3. e.result = result /\ e.ids = op[p].ids /\ e.left = (p \in temps)
    OBVIOUS
  <1>4. e \in EndRecord
    <2>1. result \in {"none", "succeeded", "failed", "died"} /\ (p \in temps) \in BOOLEAN /\ op[p].ids \in SUBSET Nat
      BY <1>1, OpFields DEF EndsWith
    <2> QED  BY <2>1 DEF EndRecord
  <1> HIDE DEF e
  <1>5. last' = [last EXCEPT ![p] = c]
    <2>1. CASE op[p].ids = {}
      BY <1>1, <2>1 DEF Ended, StoreTypes
    <2>2. CASE op[p].ids # {}
      BY <2>2 DEF Ended, e
    <2> QED  BY <2>1, <2>2
  <1>6. c \in EndRecord /\ c.ids \in {op[p].ids, last[p].ids} /\ c.ids \subseteq 1 .. used
    BY <1>1, <1>3, <1>4, OpFields DEF StoreInv, TypeOK, StoreTypes
  <1> HIDE DEF c
  <1>7. /\ last' \in [Processes -> EndRecord] /\ last'[p] = c
        /\ \A q \in Processes \ {p} : last'[q] = last[q]
    BY <1>1, <1>5, <1>6 DEF StoreTypes
  <1>8. \A id : id # op[p].writing /\ Finished(id) => Finished(id)'
    BY DEF Finished
  <1>9. \A x \in events' : x \in events \/ (x.names = op[p].ids /\ x.run = run[p] /\ x \in [run : Runs \cup {NoRun}, names : SUBSET Nat])
    <2>1. run[p] \in Runs \cup {NoRun} /\ op[p].ids \in SUBSET Nat
      BY <1>1, OpFields
    <2> QED  BY <2>1 DEF EndsWith
  <1>10. events \subseteq events'
    BY DEF EndsWith
  <1>11. op[p].ids \subseteq 1 .. used /\ op[p].ids \subseteq Nat
    BY <1>1, OpFields DEF StoreInv, TypeOK
  <1>12. StoreTypes'
    <2>1. file' = [i \in DOMAIN file' |-> file'[i]]
      BY <1>1 DEF StoreTypes
    <2>2. \A q \in Processes : last'[q].ids \subseteq 1 .. used
      BY <1>1, <1>6, <1>7 DEF StoreTypes
    <2>3. \A x \in events' : x.names \subseteq 1 .. used /\ x \in [run : Runs \cup {NoRun}, names : SUBSET Nat]
      BY <1>1, <1>9, <1>11 DEF StoreTypes
    <2> QED  BY <1>1, <1>2, <1>7, <2>1, <2>2, <2>3 DEF StoreTypes
  <1>13. Idle.ids = {} /\ Idle.writing = 0 /\ Idle.source = 0 /\ Idle.written = <<>>
    BY IdleType
  <1>14. Separate'
    <2>1. ASSUME NEW q \in Processes, op'[q].writing # 0
          PROVE  /\ op'[q].writing \in DOMAIN file'
                 /\ \A r \in rows' : r.id # op'[q].writing
                 /\ \A x \in events' : op'[q].writing \notin x.names
                 /\ \A s \in Processes : /\ op'[q].writing \notin op'[s].ids /\ op'[q].writing \notin last'[s].ids
                                         /\ s # q => op'[s].writing # op'[q].writing
      <3>1. q # p /\ op'[q] = op[q]
        BY <1>2, <1>13, <2>1
      <3>2. op[q].writing \in DOMAIN file /\ op[p].writing # op[q].writing
        BY <1>1, <2>1, <3>1 DEF Separate
      <3>3. op[q].writing \in DOMAIN file'
        BY <3>2
      <3>4. \A x \in events' : op[q].writing \notin x.names
        BY <1>1, <1>9, <2>1, <3>1 DEF Separate
      <3>5. \A s \in Processes : op[q].writing \notin op'[s].ids /\ op[q].writing \notin last'[s].ids
        BY <1>1, <1>2, <1>6, <1>7, <1>13, <2>1, <3>1 DEF Separate
      <3>6. \A s \in Processes : s # q => op'[s].writing # op[q].writing
        BY <1>1, <1>2, <1>13, <2>1, <3>1 DEF Separate
      <3> QED  BY <1>1, <2>1, <3>1, <3>3, <3>4, <3>5, <3>6 DEF Separate
    <2>2. ASSUME NEW q \in Processes, NEW s \in Processes
          PROVE  /\ op'[q].ids \cap last'[s].ids = {}
                 /\ q # s => op'[q].ids \cap op'[s].ids = {}
      BY <1>1, <1>2, <1>6, <1>7, <1>13 DEF Separate
    <2>3. ASSUME NEW q \in Processes, NEW x \in events'  PROVE x.names \cap op'[q].ids = {}
      BY <1>1, <1>2, <1>9, <1>13 DEF Separate
    <2> QED  BY <2>1, <2>2, <2>3 DEF Separate
  <1>15. ASSUME result = "succeeded"
         PROVE  op[p].ids # {} /\ p \notin temps /\ \A id \in op[p].ids : \E r \in rows : r.id = id /\ r.run = run[p]
    <2>1. At(p, 8)
      BY <1>15 DEF EndsWith
    <2>2. Len(op[p].written) = 0 /\ op[p].ids # {} /\ p \notin temps
      BY <2>1 DEF At, Unstored
    <2>3. DOMAIN op[p].written = {}
      BY <1>1, <2>2, OpFields
    <2> QED  BY <2>2, <2>3 DEF StoreInd, Owned
  <1>16. StoreInv'
    <2>1. TypeOK'
      <3>1. DOMAIN file' \subseteq 1 .. used /\ \A i \in DOMAIN file' : file'[i] \in {"partial", "whole", "gone"}
        BY <1>1 DEF StoreInv, TypeOK
      <3>2. 0 \in 0 .. used
        BY <1>1 DEF StoreTypes
      <3> QED  BY <1>1, <1>2, <1>13, <3>1, <3>2 DEF StoreInv, TypeOK
    <2>2. RowsBacked'
      <3>1. \A r \in rows : op[p].writing # 0 => r.id # op[p].writing
        BY <1>1 DEF Separate
      <3>2. \A r \in rows : Finished(r.id) => Finished(r.id)'
        BY <1>8, <3>1 DEF Finished
      <3> QED  BY <1>1, <3>2, RowsKept DEF StoreInv
    <2>3. EventsBacked'
      <3>1. ASSUME NEW x \in events', x \notin events
            PROVE  x.names # {} /\ \A id \in x.names : \E r \in rows : r.id = id /\ r.run = x.run
        <4>1. result = "succeeded"
          BY <3>1 DEF EndsWith
        <4> QED  BY <1>9, <1>15, <3>1, <4>1
      <3> QED  BY <1>1, <3>1 DEF StoreInv, EventsBacked
    <2>4. NothingLeft'
      <3>1. ASSUME NEW q \in Processes \ {p}
            PROVE  IF last'[q].result = "succeeded"
                   THEN ~ last'[q].left /\ \A id \in last'[q].ids : \E r \in rows' : r.id = id
                   ELSE \A x \in events' : x.names \cap last'[q].ids = {}
        <4>1. last'[q] = last[q]
          BY <1>7
        <4>2. \A x \in events' : x \in events \/ x.names \cap last[q].ids = {}
          BY <1>1, <1>9 DEF Separate
        <4> QED  BY <1>1, <4>1, <4>2 DEF StoreInv, NothingLeft
      <3>2. CASE op[p].ids = {}
        <4>1. c = last[p] /\ events' = events
          BY <1>15, <3>2 DEF c, EndsWith
        <4>2. IF last'[p].result = "succeeded"
              THEN ~ last'[p].left /\ \A id \in last'[p].ids : \E r \in rows' : r.id = id
              ELSE \A x \in events' : x.names \cap last'[p].ids = {}
          BY <1>1, <1>7, <4>1 DEF StoreInv, NothingLeft
        <4> QED  BY <3>1, <4>2 DEF NothingLeft
      <3>3. CASE op[p].ids # {}
        <4>1. c.result = result /\ c.ids = op[p].ids /\ c.left = (p \in temps)
          BY <1>3, <3>3 DEF c
        <4>2. CASE result = "succeeded"
          <5>1. ~ c.left
            BY <1>15, <4>1, <4>2
          <5> QED  BY <1>7, <1>15, <3>1, <4>1, <4>2, <5>1 DEF NothingLeft
        <4>3. CASE result # "succeeded"
          <5>1. \A x \in events' : x.names \cap c.ids = {}
            BY <1>1, <4>1, <4>3 DEF EndsWith, Separate
          <5> QED  BY <1>7, <3>1, <4>1, <4>3, <5>1 DEF NothingLeft
        <4> QED  BY <4>2, <4>3
      <3> QED  BY <3>2, <3>3
    <2> QED  BY <2>1, <2>2, <2>3, <2>4 DEF StoreInv
  <1>17. ASSUME NEW q \in Processes  PROVE Staged(q)' /\ Owned(q)'
    <2>1. CASE q = p
      BY <1>2, <1>13, <2>1 DEF Staged, Owned
    <2>2. CASE q # p
      <3>1. op[p].writing # 0 => op[p].writing \notin op[q].ids
        BY <1>1 DEF Separate
      <3>2. \A id \in op[q].ids : Finished(id) => Finished(id)'
        BY <1>8, <3>1 DEF Finished
      <3> QED  BY <1>2, <2>2, <3>2, WorkerKept DEF StoreInd
    <2> QED  BY <2>1, <2>2
  <1> QED  BY <1>12, <1>14, <1>16, <1>17 DEF StoreInd

-----------------------------------------------------------------------------
(* Files and rows.                                                         *)

\* A new file has an id that nobody has.
LEMMA WriteBeginsKeeps ==
  ASSUME StoreInd, NEW p \in Processes, WriteBegins(p)
  PROVE  StoreInd'
  <1> DEFINE c == [op[p] EXCEPT !.writing = used + 1]
             n == used + 1
  <1>1. StoreTypes /\ Separate /\ StoreInv
    BY DEF StoreInd
  <1>2. /\ used \in Nat /\ used < MaxArtifacts /\ used' = n /\ op' = [op EXCEPT ![p] = c] /\ Step(p) \in Kinds
        /\ file' = [i \in DOMAIN file \cup {n} |-> IF i = n THEN "partial" ELSE file[i]]
        /\ UNCHANGED <<rows, events, temps, run, last, incidents>>
    BY <1>1 DEF WriteBegins, StoreTypes
  <1>3. n \in Nat /\ n # 0 /\ n \notin 0 .. used /\ n \in 0 .. n /\ (0 .. used) \subseteq (0 .. n) /\ (1 .. used) \subseteq (1 .. n)
        /\ n \in 1 .. n /\ n <= MaxArtifacts
    BY <1>2
  <1>4. /\ c \in OpRecord /\ c.plan = op[p].plan /\ c.writing = n /\ c.written = op[p].written
        /\ c.ids = op[p].ids /\ c.source = op[p].source
    BY <1>1, <1>3, OpFields DEF OpRecord
  <1> HIDE DEF c
  <1>5. /\ op' \in [Processes -> OpRecord] /\ op'[p] = c
        /\ \A q \in Processes \ {p} : op'[q] = op[q]
    BY <1>1, <1>2, <1>4 DEF StoreTypes
  <1>6. /\ \A q \in Processes : op[q].ids \subseteq 1 .. used /\ last[q].ids \subseteq 1 .. used /\ op[q].writing \in 0 .. used
        /\ \A e \in events : e.names \subseteq 1 .. used
        /\ DOMAIN file \subseteq 1 .. used
    BY <1>1 DEF StoreInv, TypeOK, StoreTypes
  <1>7. \A r \in rows : r.id \in DOMAIN file
    BY <1>1 DEF StoreInv, RowsBacked
  <1>8. n \notin DOMAIN file /\ (\A r \in rows : r.id # n) /\ (\A e \in events : n \notin e.names)
        /\ \A q \in Processes : n \notin op[q].ids /\ n \notin last[q].ids /\ op[q].writing # n
    BY <1>3, <1>6, <1>7
  <1> HIDE DEF n
  <1>9. \A q \in Processes : op'[q].ids = op[q].ids /\ op'[q].written = op[q].written /\ op'[q].source = op[q].source
    BY <1>4, <1>5
  <1>10. StoreTypes'
    <2>1. file' = [i \in DOMAIN file' |-> file'[i]]
      BY <1>2
    <2>2. \A q \in Processes : last[q].ids \subseteq 1 .. n
      BY <1>3, <1>6
    <2>3. \A e \in events : e.names \subseteq 1 .. n
      BY <1>3, <1>6
    <2> QED  BY <1>1, <1>2, <1>3, <1>5, <2>1, <2>2, <2>3 DEF StoreTypes
  <1>11. Separate'
    <2>1. ASSUME NEW q \in Processes, op'[q].writing # 0
          PROVE  /\ op'[q].writing \in DOMAIN file'
                 /\ \A r \in rows' : r.id # op'[q].writing
                 /\ \A x \in events' : op'[q].writing \notin x.names
                 /\ \A s \in Processes : /\ op'[q].writing \notin op'[s].ids /\ op'[q].writing \notin last'[s].ids
                                         /\ s # q => op'[s].writing # op'[q].writing
      <3>1. CASE q = p
        BY <1>2, <1>4, <1>5, <1>8, <1>9, <3>1
      <3>2. CASE q # p
        BY <1>1, <1>2, <1>4, <1>5, <1>8, <1>9, <2>1, <3>2 DEF Separate
      <3> QED  BY <3>1, <3>2
    <2> QED  BY <1>1, <1>2, <1>9, <2>1 DEF Separate
  <1>12. \A id \in DOMAIN file : id \in DOMAIN file' /\ file'[id] = file[id]
    BY <1>2, <1>8
  <1>13. StoreInv'
    <2>1. TypeOK'
      <3>1. \A q \in Processes : op'[q].writing \in 0 .. n /\ op'[q].source \in 0 .. n /\ op'[q].ids \subseteq 1 .. n
        <4>1. \A q \in Processes : op[q].writing \in 0 .. used /\ op[q].source \in 0 .. used /\ op[q].ids \subseteq 1 .. used
          BY <1>1 DEF StoreInv, TypeOK
        <4> QED  BY <1>3, <1>4, <1>5, <1>9, <4>1
      <3>2. DOMAIN file' \subseteq 1 .. n /\ \A i \in DOMAIN file' : file'[i] \in {"partial", "whole", "gone"}
        BY <1>1, <1>2, <1>3 DEF StoreInv, TypeOK
      <3>3. rows \subseteq [id : Ids, run : Runs \cup {NoRun}, kind : Kinds, source : 0 .. n]
        <4>1. rows \subseteq [id : Ids, run : Runs \cup {NoRun}, kind : Kinds, source : 0 .. used]
          BY <1>1 DEF StoreInv, TypeOK
        <4> QED  BY <1>3, <4>1
      <3> QED  BY <1>1, <1>2, <1>3, <3>1, <3>2, <3>3 DEF StoreInv, TypeOK
    <2>2. RowsBacked'
      BY <1>1, <1>2, <1>12, RowsKept DEF StoreInv, Finished
    <2>3. EventsBacked' /\ NothingLeft'
      BY <1>1, <1>2 DEF StoreInv, EventsBacked, NothingLeft
    <2> QED  BY <2>1, <2>2, <2>3 DEF StoreInv
  <1>14. ASSUME NEW q \in Processes  PROVE Staged(q)' /\ Owned(q)'
    <2>1. \A id : Finished(id) => Finished(id)'
      BY <1>12 DEF Finished
    <2>2. CASE q = p
      <3>1. op[p] # Idle
        BY <1>2, IdleHasNothing DEF Kinds
      <3>2. PICK k \in Stages : At(p, k) /\ Step(p) = StepAt(k)
        BY <3>1, StageOf DEF StoreInd
      <3>3. Croppable(op[p].source) => Croppable(op[p].source)'
        BY <1>2, <1>9 DEF Croppable
      <3>4. At(p, k)'
        BY <1>2, <1>4, <1>5, <3>2, <3>3 DEF At
      <3>5. Owned(p)'
        BY <1>2, <1>9, <2>1 DEF StoreInd, Owned
      <3> QED  BY <2>2, <3>4, <3>5 DEF Staged
    <2>3. CASE q # p
      BY <1>2, <1>5, <2>1, <2>3, WorkerKept DEF StoreInd
    <2> QED  BY <2>2, <2>3
  <1> QED  BY <1>10, <1>11, <1>13, <1>14 DEF StoreInd

\* The file that was being written is one of the operation's own.
LEMMA WriteEndsKeeps ==
  ASSUME StoreInd, NEW p \in Processes, WriteEnds(p)
  PROVE  StoreInd'
  <1> DEFINE n == op[p].writing
             h == [id |-> n, kind |-> Step(p)]
  <1>1. StoreTypes /\ Separate /\ StoreInv /\ n # 0 /\ n \in Nat
    BY OpFields DEF StoreInd, WriteEnds
  <1>2. op[p] # Idle
    BY <1>1, IdleHasNothing
  <1>3. PICK k \in Stages : At(p, k) /\ Step(p) = StepAt(k)
    BY <1>2, StageOf DEF StoreInd
  <1>4. StepAt(k) \in Kinds /\ k # 8 /\ Following(k) \in Stages /\ Tail(op[p].plan) = Left(Following(k))
        /\ Unstored(Following(k)) = Unstored(k) + 1 /\ Following(k) \notin {8, 9, 11}
        /\ k \notin {9, 11} /\ (k \in {17, 18, 19} => Following(k) \in {17, 18, 19})
    <2>1. StepAt(k) \in Kinds
      BY <1>1, <1>3 DEF At
    <2>2. k \in {4, 5, 6, 13, 14, 17}
      BY <2>1 DEF StepAt, Kinds, Stages
    <2>3. k # 8
      BY <2>2
    <2>4. Unstored(Following(k)) = Unstored(k) + 1 /\ Following(k) \notin {8, 9, 11} /\ k \notin {9, 11}
          /\ (k \in {17, 18, 19} => Following(k) \in {17, 18, 19})
      BY <2>2 DEF Unstored, Following
    <2> QED  BY <1>3, <2>1, <2>3, <2>4, StageFollows DEF At
  <1> DEFINE c == [op[p] EXCEPT !.writing = 0, !.plan = Left(Following(k)), !.written = Append(op[p].written, h),
                                !.ids = op[p].ids \cup {n}]
  <1>5. op' = [op EXCEPT ![p] = c]
    <2>1. op' = [op EXCEPT ![p] = [op[p] EXCEPT !.writing = 0, !.plan = Tail(op[p].plan), !.written = Append(op[p].written, h),
                                                !.ids = op[p].ids \cup {n}]]
      BY <1>1 DEF WriteEnds, StoreTypes, OpRecord
    <2> QED  BY <1>4, <2>1
  <1>6. h \in Handles /\ h.id = n
    BY <1>1, <1>3, <1>4 DEF Handles
  <1> HIDE DEF h
  <1>7. /\ c \in OpRecord /\ c.plan = Left(Following(k)) /\ c.writing = 0 /\ c.written = Append(op[p].written, h)
        /\ c.ids = op[p].ids \cup {n} /\ c.source = op[p].source
    <2>1. Left(Following(k)) \in Plans
      BY <1>4 DEF Plans
    <2>2. Append(op[p].written, h) \in Seq(Handles)
      BY <1>1, <1>6, OpFields
    <2>3. op[p].ids \cup {n} \in SUBSET Nat
      BY <1>1, OpFields
    <2> DEFINE a == Append(op[p].written, h)
               b == op[p].ids \cup {n}
    <2>4. c = [op[p] EXCEPT !.writing = 0, !.plan = Left(Following(k)), !.written = a, !.ids = b]
      OBVIOUS
    <2> HIDE DEF a, b, c
    <2>5. a \in Seq(Handles) /\ b \in SUBSET Nat
      BY <2>2, <2>3 DEF a, b
    <2>6. /\ c \in OpRecord /\ c.plan = Left(Following(k)) /\ c.writing = 0 /\ c.written = a /\ c.ids = b
          /\ c.source = op[p].source
      BY <1>1, <2>1, <2>4, <2>5, OpFields DEF OpRecord
    <2> QED  BY <2>6 DEF a, b
  <1> HIDE DEF c
  <1>8. /\ op' \in [Processes -> OpRecord] /\ op'[p] = c
        /\ \A q \in Processes \ {p} : op'[q] = op[q]
    BY <1>1, <1>5, <1>7 DEF StoreTypes
  <1>9. /\ file' = [file EXCEPT ![n] = "whole"]
        /\ UNCHANGED <<rows, events, temps, run, last, used, incidents>>
    BY DEF WriteEnds
  <1>10. n \in DOMAIN file /\ (\A r \in rows : r.id # n) /\ (\A e \in events : n \notin e.names) /\ n \in 1 .. used
         /\ \A q \in Processes : n \notin op[q].ids /\ n \notin last[q].ids /\ (q # p => op[q].writing # n)
    BY <1>1 DEF Separate, StoreInv, TypeOK
  <1> HIDE DEF n
  <1>11. DOMAIN file' = DOMAIN file /\ file'[n] = "whole" /\ \A i \in DOMAIN file : i # n => file'[i] = file[i]
    BY <1>1, <1>9, <1>10 DEF StoreTypes
  <1>12. /\ n \in DOMAIN file' /\ file'[n] # "partial"
         /\ \A id : Finished(id) => Finished(id)'
    BY <1>10, <1>11 DEF Finished
  <1>13. StoreTypes'
    <2>1. file' = [i \in DOMAIN file' |-> file'[i]]
      BY <1>9
    <2> QED  BY <1>1, <1>8, <1>9, <2>1 DEF StoreTypes
  <1>14. Separate'
    <2>1. ASSUME NEW q \in Processes, op'[q].writing # 0
          PROVE  /\ op'[q].writing \in DOMAIN file'
                 /\ \A r \in rows' : r.id # op'[q].writing
                 /\ \A x \in events' : op'[q].writing \notin x.names
                 /\ \A s \in Processes : /\ op'[q].writing \notin op'[s].ids /\ op'[q].writing \notin last'[s].ids
                                         /\ s # q => op'[s].writing # op'[q].writing
      <3>1. q # p /\ op'[q] = op[q] /\ op[q].writing # n
        BY <1>7, <1>8, <1>10, <2>1
      <3>2. \A s \in Processes : op[q].writing \notin op'[s].ids /\ (s # q => op'[s].writing # op[q].writing)
        BY <1>1, <1>7, <1>8, <2>1, <3>1 DEF Separate
      <3> QED  BY <1>1, <1>9, <1>11, <2>1, <3>1, <3>2 DEF Separate
    <2>2. ASSUME NEW q \in Processes, NEW s \in Processes
          PROVE  /\ op'[q].ids \cap last'[s].ids = {}
                 /\ q # s => op'[q].ids \cap op'[s].ids = {}
      BY <1>1, <1>7, <1>8, <1>9, <1>10 DEF Separate
    <2>3. ASSUME NEW q \in Processes, NEW x \in events'  PROVE x.names \cap op'[q].ids = {}
      BY <1>1, <1>7, <1>8, <1>9, <1>10 DEF Separate
    <2> QED  BY <2>1, <2>2, <2>3 DEF Separate
  <1>15. StoreInv'
    <2>1. TypeOK'
      <3>1. \A q \in Processes : op'[q].writing \in 0 .. used /\ op'[q].source \in 0 .. used /\ op'[q].ids \subseteq 1 .. used
        BY <1>1, <1>7, <1>8, <1>10 DEF StoreInv, TypeOK, StoreTypes
      <3>2. DOMAIN file' \subseteq 1 .. used /\ \A i \in DOMAIN file' : file'[i] \in {"partial", "whole", "gone"}
        BY <1>1, <1>11 DEF StoreInv, TypeOK
      <3> QED  BY <1>1, <1>9, <3>1, <3>2 DEF StoreInv, TypeOK
    <2>2. RowsBacked'
      BY <1>1, <1>9, <1>12, RowsKept DEF StoreInv
    <2>3. EventsBacked' /\ NothingLeft'
      BY <1>1, <1>9 DEF StoreInv, EventsBacked, NothingLeft
    <2> QED  BY <2>1, <2>2, <2>3 DEF StoreInv
  <1>16. ASSUME NEW q \in Processes  PROVE Staged(q)' /\ Owned(q)'
    <2>1. CASE q = p
      <3>1. /\ Len(c.written) = Len(op[p].written) + 1
            /\ DOMAIN c.written = DOMAIN op[p].written \cup {Len(op[p].written) + 1}
            /\ \A i \in DOMAIN op[p].written : c.written[i] = op[p].written[i]
            /\ c.written[Len(op[p].written) + 1] = h
        BY <1>1, <1>6, <1>7, OpFields
      <3>2. At(p, Following(k))'
        <4> DEFINE j == Following(k)
        <4>1. op'[p].plan = Left(j) /\ Len(op'[p].written) = Unstored(j) /\ op'[p].writing = 0
          BY <1>3, <1>4, <1>7, <1>8, <3>1 DEF At
        <4>2. op[p].source # 0 => Croppable(op[p].source)
          BY <1>3, <1>4 DEF At
        <4>3. op'[p].source # 0 => \E r \in rows' : r.id = op'[p].source /\ r.kind \in {"screenshot", "pdf"}
          BY <4>2, <1>7, <1>8, <1>9 DEF Croppable
        <4>4. (p \in temps' => j \in {17, 18, 19}) /\ j # 8
          BY <1>3, <1>4, <1>9 DEF At
        <4> HIDE DEF j
        <4>5. At(p, j)'
          BY <4>1, <4>3, <4>4 DEF At, Croppable
        <4> QED  BY <4>5 DEF j
      <3>3. Owned(p)'
        <4>1. ASSUME NEW i \in DOMAIN c.written
              PROVE  /\ c.written[i].id \in c.ids
                     /\ c.written[i].id \in DOMAIN file' /\ file'[c.written[i].id] # "partial"
          <5>1. CASE i \in DOMAIN op[p].written
            BY <1>7, <1>12, <3>1, <5>1 DEF StoreInd, Owned, Finished
          <5>2. CASE i = Len(op[p].written) + 1
            BY <1>6, <1>7, <1>12, <3>1, <5>2
          <5> QED  BY <3>1, <5>1, <5>2
        <4>2. ASSUME NEW id \in c.ids
              PROVE  \/ \E i \in DOMAIN c.written : c.written[i].id = id
                     \/ \E r \in rows' : r.id = id /\ r.run = run'[p]
          <5>1. CASE id = n
            BY <1>6, <3>1, <5>1
          <5>2. CASE id \in op[p].ids
            BY <1>9, <3>1, <5>2 DEF StoreInd, Owned
          <5> QED  BY <1>7, <5>1, <5>2
        <4> QED  BY <1>8, <4>1, <4>2 DEF Owned, Finished
      <3> QED  BY <1>4, <2>1, <3>2, <3>3 DEF Staged
    <2>2. CASE q # p
      BY <1>8, <1>9, <1>12, <2>2, WorkerKept DEF StoreInd
    <2> QED  BY <2>1, <2>2
  <1> QED  BY <1>13, <1>14, <1>15, <1>16 DEF StoreInd

\* The first file that waits gets its row, of the run that the process records.
LEMMA StoreKeeps ==
  ASSUME StoreInd, NEW p \in Processes, Store(p)
  PROVE  StoreInd'
  <1> DEFINE w == op[p].written
             h == Head(w)
             row == [id |-> h.id, kind |-> h.kind, run |-> run[p], source |-> op[p].source]
  <1>1. StoreTypes /\ Separate /\ StoreInv /\ Step(p) = "store"
    BY DEF StoreInd, Store, Storing
  <1>2. op[p] # Idle
    BY <1>1, IdleHasNothing
  <1>3. PICK k \in Stages : At(p, k) /\ Step(p) = StepAt(k)
    BY <1>2, StageOf DEF StoreInd
  <1>4. k \in {7, 15, 18}
    BY <1>1, <1>3 DEF StepAt, Stages
  <1>5. /\ Following(k) \in Stages /\ Unstored(k) = Unstored(Following(k)) + 1 /\ Unstored(Following(k)) \in Nat
        /\ Following(k) \notin {9, 11} /\ k \notin {8, 9, 11}
        /\ (k \in {17, 18, 19} => Following(k) \in {17, 18, 19})
    BY <1>4 DEF Unstored, Following, Stages
  <1>6. Tail(op[p].plan) = Left(Following(k))
    BY <1>3, <1>5, StageFollows DEF At
  <1>7. w \in Seq(Handles) /\ w # <<>> /\ Len(w) = Unstored(k) /\ op[p].writing = 0
    <2>1. w \in Seq(Handles) /\ Len(w) = Unstored(k) /\ op[p].writing = 0
      BY <1>1, <1>3, <1>4, OpFields DEF At, Kinds
    <2> QED  BY <1>5, <2>1
  <1>8. /\ h \in Handles /\ h = w[1] /\ 1 \in DOMAIN w /\ Tail(w) \in Seq(Handles) /\ Len(Tail(w)) = Unstored(Following(k))
        /\ \A i \in DOMAIN w : i # 1 => i - 1 \in DOMAIN Tail(w) /\ Tail(w)[i - 1] = w[i]
        /\ \A i \in DOMAIN Tail(w) : i + 1 \in DOMAIN w /\ Tail(w)[i] = w[i + 1]
    <2>1. Len(w) = Unstored(Following(k)) + 1 /\ Unstored(Following(k)) \in Nat
      BY <1>5, <1>7
    <2> HIDE DEF w
    <2>2. w \in Seq(Handles) /\ w # <<>>
      BY <1>7
    <2>3. /\ Tail(w) \in Seq(Handles) /\ Len(Tail(w)) = Len(w) - 1 /\ Len(w) \in Nat \ {0}
          /\ DOMAIN w = 1 .. Len(w) /\ DOMAIN Tail(w) = 1 .. Len(Tail(w))
          /\ \A i \in 1 .. Len(Tail(w)) : Tail(w)[i] = w[i + 1]
      BY <2>2
    <2>4. h = w[1] /\ 1 \in DOMAIN w /\ h \in Handles
      BY <2>2, <2>3
    <2> DEFINE l == Len(w)
               t == Tail(w)
    <2>5. /\ l \in Nat \ {0} /\ Len(t) = l - 1 /\ DOMAIN w = 1 .. l /\ DOMAIN t = 1 .. l - 1
          /\ \A i \in 1 .. l - 1 : t[i] = w[i + 1]
      BY <2>3
    <2> HIDE DEF l, t
    <2>6. \A i \in DOMAIN w : i # 1 => i - 1 \in DOMAIN t /\ t[i - 1] = w[i]
      <3> SUFFICES ASSUME NEW i \in 1 .. l, i # 1  PROVE i - 1 \in 1 .. l - 1 /\ t[i - 1] = w[i]
        BY <2>5
      <3>1. i - 1 \in 1 .. l - 1 /\ (i - 1) + 1 = i
        BY <2>5
      <3> QED  BY <2>5, <3>1
    <2>7. \A i \in DOMAIN t : i + 1 \in DOMAIN w /\ t[i] = w[i + 1]
      BY <2>5
    <2> QED  BY <2>1, <2>3, <2>4, <2>6, <2>7 DEF t
  <1> DEFINE c == [op[p] EXCEPT !.plan = Left(Following(k)), !.written = Tail(w)]
  <1>9. /\ op' = [op EXCEPT ![p] = c] /\ rows' = rows \cup {row}
        /\ UNCHANGED <<file, events, temps, run, last, used, incidents>>
    <2>1. Handle(p) = h
      BY <1>7 DEF Handle
    <2>2. op' = [op EXCEPT ![p] = [op[p] EXCEPT !.plan = Tail(op[p].plan), !.written = Tail(w)]]
      BY <1>1, <1>7 DEF Store, StoreTypes, OpRecord
    <2> QED  BY <1>6, <2>1, <2>2 DEF Store
  <1>10. /\ c \in OpRecord /\ c.plan = Left(Following(k)) /\ c.writing = 0 /\ c.written = Tail(w)
         /\ c.ids = op[p].ids /\ c.source = op[p].source
    <2>1. Left(Following(k)) \in Plans
      BY <1>5 DEF Plans
    <2> DEFINE a == Tail(w)
    <2>2. a \in Seq(Handles)
      BY <1>8
    <2>3. c = [op[p] EXCEPT !.plan = Left(Following(k)), !.written = a]
      OBVIOUS
    <2> HIDE DEF a, c
    <2>4. /\ c \in OpRecord /\ c.plan = Left(Following(k)) /\ c.writing = op[p].writing /\ c.written = a
          /\ c.ids = op[p].ids /\ c.source = op[p].source
      BY <1>1, <2>1, <2>2, <2>3, OpFields DEF OpRecord
    <2> QED  BY <1>7, <2>4 DEF a
  <1> HIDE DEF c
  <1>11. /\ op' \in [Processes -> OpRecord] /\ op'[p] = c
         /\ \A q \in Processes \ {p} : op'[q] = op[q]
    BY <1>1, <1>9, <1>10 DEF StoreTypes
  <1>12. \A q \in Processes : op'[q].writing = op[q].writing /\ op'[q].ids = op[q].ids /\ op'[q].source = op[q].source
    BY <1>7, <1>10, <1>11
  <1>13. h.id \in op[p].ids /\ Finished(h.id) /\ h.kind \in Kinds
    BY <1>8 DEF StoreInd, Owned, Handles
  <1>14. row.id = h.id /\ row.kind = h.kind /\ row.run = run[p] /\ row.source = op[p].source
    OBVIOUS
  <1>15. row \in [id : Ids, run : Runs \cup {NoRun}, kind : Kinds, source : 0 .. used]
    <2>1. h.id \in 1 .. used /\ used \in Nat /\ used <= MaxArtifacts /\ op[p].source \in 0 .. used
      BY <1>1, <1>13 DEF StoreInv, TypeOK, StoreTypes
    <2>2. h.id \in Ids
      BY <2>1 DEF Ids
    <2> QED  BY <1>1, <1>13, <2>1, <2>2, OpFields
  <1>16. op[p].source # 0 => Croppable(op[p].source)
    BY <1>3, <1>5 DEF At
  <1> HIDE DEF row, h
  <1>17. StoreTypes'
    BY <1>1, <1>9, <1>11 DEF StoreTypes
  <1>18. Separate'
    <2>1. \A q \in Processes : op[q].writing # 0 => op[q].writing # h.id
      BY <1>1, <1>13 DEF Separate
    <2> QED  BY <1>1, <1>9, <1>12, <1>14, <2>1 DEF Separate
  <1>19. StoreInv'
    <2>1. TypeOK'
      BY <1>1, <1>9, <1>12, <1>15 DEF StoreInv, TypeOK
    <2>2. RowsBacked'
      BY <1>1, <1>9, <1>13, <1>14, <1>16 DEF StoreInv, RowsBacked, Finished, Croppable
    <2>3. EventsBacked' /\ NothingLeft'
      BY <1>1, <1>9 DEF StoreInv, EventsBacked, NothingLeft
    <2> QED  BY <2>1, <2>2, <2>3 DEF StoreInv
  <1>20. ASSUME NEW q \in Processes  PROVE Staged(q)' /\ Owned(q)'
    <2>1. CASE q = p
      <3>1. Croppable(op[p].source) => \E r \in rows' : r.id = c.source /\ r.kind \in {"screenshot", "pdf"}
        BY <1>9, <1>10 DEF Croppable
      <3>2. At(p, Following(k))'
        <4> DEFINE j == Following(k)
        <4>1. op'[p].plan = Left(j) /\ Len(op'[p].written) = Unstored(j) /\ op'[p].writing = 0
          BY <1>7, <1>8, <1>10, <1>11
        <4>2. op'[p].source # 0 => \E r \in rows' : r.id = op'[p].source /\ r.kind \in {"screenshot", "pdf"}
          BY <1>10, <1>11, <1>16, <3>1
        <4>3. p \in temps' => j \in {17, 18, 19}
          BY <1>3, <1>5, <1>9 DEF At
        <4>4. op'[p].ids # {}
          BY <1>10, <1>11, <1>13
        <4> HIDE DEF j
        <4>5. At(p, j)'
          BY <4>1, <4>2, <4>3, <4>4 DEF At, Croppable
        <4> QED  BY <4>5 DEF j
      <3>3. Owned(p)'
        <4>1. ASSUME NEW i \in DOMAIN Tail(w)
              PROVE  Tail(w)[i].id \in op[p].ids /\ Finished(Tail(w)[i].id)
          BY <1>8 DEF StoreInd, Owned
        <4>2. ASSUME NEW id \in op[p].ids
              PROVE  \/ \E i \in DOMAIN Tail(w) : Tail(w)[i].id = id
                     \/ \E r \in rows' : r.id = id /\ r.run = run[p]
          <5>1. CASE \E r \in rows : r.id = id /\ r.run = run[p]
            BY <1>9, <5>1
          <5>2. CASE \E i \in DOMAIN w : w[i].id = id
            <6>1. PICK i \in DOMAIN w : w[i].id = id
              BY <5>2
            <6>2. CASE i = 1
              BY <1>8, <1>9, <1>14, <6>1, <6>2
            <6>3. CASE i # 1
              BY <1>8, <6>1, <6>3
            <6> QED  BY <6>2, <6>3
          <5> QED  BY <5>1, <5>2 DEF StoreInd, Owned
        <4> DEFINE t == Tail(w)
        <4>3. op'[p].written = t /\ op'[p].ids = op[p].ids /\ run'[p] = run[p]
          BY <1>9, <1>10, <1>11
        <4>4. \A i \in DOMAIN t : t[i].id \in op[p].ids /\ t[i].id \in DOMAIN file' /\ file'[t[i].id] # "partial"
          BY <1>9, <4>1 DEF Finished
        <4>5. \A id \in op[p].ids : \/ \E i \in DOMAIN t : t[i].id = id
                                  \/ \E r \in rows' : r.id = id /\ r.run = run[p]
          BY <4>2
        <4> HIDE DEF t
        <4> QED  BY <4>3, <4>4, <4>5 DEF Owned, Finished
      <3> QED  BY <1>5, <2>1, <3>2, <3>3 DEF Staged
    <2>2. CASE q # p
      BY <1>9, <1>11, <2>2, WorkerKept DEF StoreInd, Finished
    <2> QED  BY <2>1, <2>2
  <1> QED  BY <1>17, <1>18, <1>19, <1>20 DEF StoreInd

\* An idle process records another run: it owns no file that would be of the old one.
LEMMA SwitchRunKeeps ==
  ASSUME StoreInd, NEW p \in Processes, SwitchRun(p)
  PROVE  StoreInd'
  <1> USE DEF store
  <1>1. StoreTypes /\ Separate /\ StoreInv /\ op[p] = Idle
    BY DEF StoreInd, SwitchRun
  <1>2. PICK r \in Runs \cup {NoRun} : run' = [run EXCEPT ![p] = r]
    BY DEF SwitchRun
  <1>3. UNCHANGED <<op, file, rows, events, temps, last, used>> /\ incidents' \in Nat /\ incidents' <= MaxIncidents
    BY <1>1 DEF SwitchRun, Incident, StoreTypes
  <1>4. run' \in [Processes -> Runs \cup {NoRun}] /\ \A q \in Processes \ {p} : run'[q] = run[q]
    BY <1>1, <1>2 DEF StoreTypes
  <1>5. StoreTypes' /\ Separate'
    BY <1>1, <1>3, <1>4 DEF StoreTypes, Separate
  <1>6. StoreInv'
    BY <1>1, <1>3 DEF StoreInv, TypeOK, RowsBacked, EventsBacked, NothingLeft
  <1>7. ASSUME NEW q \in Processes  PROVE Staged(q)' /\ Owned(q)'
    <2>1. CASE q = p
      BY <1>1, <1>3, <2>1, IdleHasNothing DEF Staged, Owned
    <2>2. CASE q # p
      BY <1>3, <1>4, <2>2, WorkerKept DEF StoreInd, Finished
    <2> QED  BY <2>1, <2>2
  <1> QED  BY <1>5, <1>6, <1>7 DEF StoreInd

\* A file that is lost was written to its end.
LEMMA LoseFileKeeps ==
  ASSUME StoreInd, NEW id \in DOMAIN file, LoseFile(id)
  PROVE  StoreInd'
  <1>1. StoreTypes /\ Separate /\ StoreInv
    BY DEF StoreInd
  <1>2. /\ file' = [file EXCEPT ![id] = "gone"] /\ UNCHANGED <<op, rows, events, temps, run, last, used>>
        /\ incidents' \in Nat /\ incidents' <= MaxIncidents
    BY <1>1 DEF LoseFile, Incident, StoreTypes
  <1>3. DOMAIN file' = DOMAIN file /\ file'[id] = "gone" /\ \A i \in DOMAIN file : i # id => file'[i] = file[i]
    BY <1>1, <1>2 DEF StoreTypes
  <1>4. \A i : Finished(i) => Finished(i)'
    BY <1>3 DEF Finished
  <1>5. StoreTypes'
    <2>1. file' = [i \in DOMAIN file' |-> file'[i]]
      BY <1>2
    <2> QED  BY <1>1, <1>2, <2>1 DEF StoreTypes
  <1>6. Separate'
    BY <1>1, <1>2, <1>3 DEF Separate
  <1>7. StoreInv'
    <2>1. TypeOK'
      BY <1>1, <1>2, <1>3 DEF StoreInv, TypeOK
    <2>2. RowsBacked'
      BY <1>1, <1>2, <1>4, RowsKept DEF StoreInv
    <2>3. EventsBacked' /\ NothingLeft'
      BY <1>1, <1>2 DEF StoreInv, EventsBacked, NothingLeft
    <2> QED  BY <2>1, <2>2, <2>3 DEF StoreInv
  <1>8. ASSUME NEW q \in Processes  PROVE Staged(q)' /\ Owned(q)'
    BY <1>2, <1>4, WorkerKept DEF StoreInd
  <1> QED  BY <1>5, <1>6, <1>7, <1>8 DEF StoreInd

-----------------------------------------------------------------------------
(* Every step keeps the invariant.                                         *)

\* The next step of an operation that writes and stores nothing there.
LEMMA AdvanceKeeps ==
  ASSUME StoreInd, NEW p \in Processes, NEW k \in Stages, At(p, k),
         k \in {1, 2, 3, 9, 10, 11, 12, 16, 19},
         k \in {9, 11} /\ op[p].source # 0 => Croppable(op[p].source),
         Advance(p),
         temps' = temps \/ (k = 16 /\ temps' = temps \cup {p}) \/ (k = 19 /\ temps' = temps \ {p}),
         k = 19 => p \notin temps',
         UNCHANGED <<store, last, run, used, incidents>>
  PROVE  StoreInd'
  <1>1. /\ StepAt(k) \notin Kinds /\ Following(k) \in Stages /\ Unstored(Following(k)) = Unstored(k) /\ Following(k) # 8
        /\ Following(k) \notin {9, 11} /\ (k = 16 => Following(k) = 17) /\ (k # 16 => k \notin {17, 18})
    BY DEF StepAt, Kinds, Following, Unstored, Stages
  <1>2. Tail(op[p].plan) = Left(Following(k))
    <2>1. op[p].plan = Left(k)
      BY DEF At
    <2>2. k # 8
      OBVIOUS
    <2>3. Tail(Left(k)) = Left(Following(k))
      BY <2>2, StageFollows
    <2> QED  BY <2>1, <2>3
  <1>3. op' = [op EXCEPT ![p].plan = Left(Following(k))]
    BY <1>2 DEF Advance
  <1>4. temps' \subseteq Processes /\ \A q \in Processes \ {p} : q \in temps' => q \in temps
    BY DEF StoreInd, StoreInv, TypeOK
  <1>5. p \in temps' => Following(k) \in {17, 18, 19}
    BY <1>1 DEF At
  <1>6. op[p].source # 0 => Croppable(op[p].source)
    BY DEF At
  <1> QED  BY <1>1, <1>3, <1>4, <1>5, <1>6, MoveKeeps

\* An operation that fails or dies leaves what it has stored.
LEMMA FailKeeps ==
  ASSUME StoreInd, NEW p \in Processes, op[p] # Idle, Fail(p) \/ Ended(p, "died"),
         temps' \in {temps, temps \ {p}}, UNCHANGED <<rows, events, run, used>>,
         Incident \/ incidents' = incidents,
         \/ file' = file
         \/ op[p].writing # 0 /\ file' = [i \in DOMAIN file \ {op[p].writing} |-> file[i]]
  PROVE  StoreInd'
  <1>1. incidents' \in Nat /\ incidents' <= MaxIncidents
    BY DEF Incident, StoreInd, StoreInv, StoreTypes, TypeOK
  <1>2. EndsWith(p, "failed") /\ EndsWith(p, "died")
    BY DEF EndsWith
  <1> QED  BY <1>1, <1>2, EndKeeps DEF Fail

LEMMA StepsKeep ==
  ASSUME StoreInd, NEW p \in Processes, Steps(p)
  PROVE  StoreInd'
  <1> USE DEF store
  <1>1. ASSUME Step(p) # "none"
        PROVE  op[p] # Idle /\ \E k \in Stages : At(p, k) /\ Step(p) = StepAt(k)
    BY <1>1, IdleHasNothing, StageOf DEF StoreInd
  <1>2. ASSUME op[p].writing # 0  PROVE op[p] # Idle
    BY <1>2, IdleHasNothing
  <1>3. CASE Acquire(p)
    <2>1. PICK k \in Stages : At(p, k) /\ Step(p) = StepAt(k)
      BY <1>1, <1>3 DEF Acquire
    <2>2. k \in {1, 2, 3}
      BY <1>3, <2>1 DEF Acquire, StepAt, Stages
    <2> QED  BY <1>1, <1>3, <2>1, <2>2, AdvanceKeeps, FailKeeps DEF Acquire
  <1>4. CASE \E page \in BOOLEAN : GetArtifact(p, page)
    <2>1. PICK k \in Stages : At(p, k) /\ Step(p) = StepAt(k)
      BY <1>1, <1>4 DEF GetArtifact
    <2>2. k \in {9, 11}
      BY <1>4, <2>1 DEF GetArtifact, StepAt, Stages
    <2>3. CASE Fail(p)
      BY <1>1, <1>4, <2>3, FailKeeps DEF GetArtifact
    <2>4. CASE ~ Fail(p)
      <3>1. Croppable(op[p].source)
        BY <1>4, <2>4 DEF GetArtifact, RowOf, Croppable
      <3> QED  BY <1>4, <2>1, <2>2, <2>4, <3>1, AdvanceKeeps DEF GetArtifact
    <2> QED  BY <2>3, <2>4
  <1>5. CASE ReadSource(p)
    <2>1. PICK k \in Stages : At(p, k) /\ Step(p) = StepAt(k)
      BY <1>1, <1>5 DEF ReadSource
    <2>2. k \in {10, 12}
      BY <1>5, <2>1 DEF ReadSource, StepAt, Stages
    <2> QED  BY <1>1, <1>5, <2>1, <2>2, AdvanceKeeps, FailKeeps DEF ReadSource
  <1>6. CASE RenderFails(p)
    BY <1>1, <1>6, FailKeeps DEF RenderFails
  <1>7. CASE Bridge(p)
    <2>1. PICK k \in Stages : At(p, k) /\ Step(p) = StepAt(k)
      BY <1>1, <1>7 DEF Bridge
    <2>2. k = 16
      BY <1>7, <2>1 DEF Bridge, StepAt, Stages
    <2>3. CASE op' = [op EXCEPT ![p].plan = <<"other", "store", "event">>] /\ UNCHANGED <<last, temps>>
      <3> DEFINE j == 4
      <3>1. /\ j \in Stages /\ j # 8 /\ j \notin {9, 11} /\ StepAt(k) \notin Kinds /\ Unstored(j) = Unstored(k)
            /\ Left(j) = <<"other", "store", "event">>
        BY <2>2 DEF Left, Stages, StepAt, Kinds, Unstored
      <3> HIDE DEF j
      <3>2. op' = [op EXCEPT ![p].plan = Left(j)]
        BY <2>3, <3>1
      <3>3. op[p].source # 0 => Croppable(op[p].source)
        BY <2>1, <2>2 DEF At
      <3>4. temps' \subseteq Processes /\ (\A q \in Processes \ {p} : q \in temps' => q \in temps) /\ p \notin temps'
        BY <2>1, <2>2, <2>3 DEF At, StoreInd, StoreInv, TypeOK
      <3>5. UNCHANGED <<store, last, run, used, incidents>>
        BY <1>7, <2>3 DEF Bridge
      <3> QED  BY <2>1, <3>1, <3>2, <3>3, <3>4, <3>5, MoveKeeps
    <2>4. CASE Advance(p) /\ temps' = temps \cup {p} /\ UNCHANGED last
      BY <1>7, <2>1, <2>2, <2>4, AdvanceKeeps DEF Bridge
    <2>5. CASE Fail(p) /\ UNCHANGED temps
      BY <1>1, <1>7, <2>5, FailKeeps DEF Bridge
    <2> QED  BY <1>7, <2>3, <2>4, <2>5 DEF Bridge
  <1>8. CASE ReadNative(p)
    <2>1. PICK k \in Stages : At(p, k) /\ Step(p) = StepAt(k)
      BY <1>1, <1>8 DEF ReadNative
    <2>2. k = 19
      BY <1>8, <2>1 DEF ReadNative, StepAt, Stages
    <2>3. temps' = temps \ {p} /\ p \notin temps'
      BY <1>8 DEF ReadNative, WithoutPicture
    <2> QED  BY <1>1, <1>8, <2>1, <2>2, <2>3, AdvanceKeeps, FailKeeps DEF ReadNative
  <1>9. CASE \E large \in BOOLEAN : WriteFails(p, large)
    BY <1>2, <1>9, FailKeeps DEF WriteFails
  <1>10. CASE WriteBegins(p) \/ WriteEnds(p) \/ Store(p)
    BY <1>10, WriteBeginsKeeps, WriteEndsKeeps, StoreKeeps
  <1>11. CASE RecordEvent(p)
    <2>1. PICK k \in Stages : At(p, k) /\ Step(p) = StepAt(k)
      BY <1>1, <1>11 DEF RecordEvent
    <2>2. k = 8
      BY <1>11, <2>1 DEF RecordEvent, StepAt, Stages
    <2>3. EndsWith(p, "succeeded")
      BY <1>11, <2>1, <2>2 DEF RecordEvent, EndsWith, Named
    <2>4. incidents' \in Nat /\ incidents' <= MaxIncidents
      BY <1>11 DEF RecordEvent, StoreInd, StoreInv, StoreTypes, TypeOK
    <2> QED  BY <1>1, <1>11, <2>3, <2>4, EndKeeps DEF RecordEvent
  <1>12. CASE StoreFails(p)
    BY <1>1, <1>12, FailKeeps DEF StoreFails
  <1> QED  BY <1>3, <1>4, <1>5, <1>6, <1>7, <1>8, <1>9, <1>10, <1>11, <1>12 DEF Steps

LEMMA OperationsKeep ==
  ASSUME StoreInd, NEW p \in Processes, Operations(p)
  PROVE  StoreInd'
  <1>1. 0 \in 0 .. used /\ \A id \in 1 .. used : id \in 0 .. used
    BY DEF StoreInd, StoreTypes
  <1>2. CASE text_tab(p) \/ trace_capture(p) \/ recording_capture(p)
    <2>1. Begin(p, Left(1), 0)
      BY <1>2 DEF text_tab, trace_capture, recording_capture, Left
    <2> QED  BY <1>1, <2>1, BeginKeeps
  <1>3. CASE screenshot_tab(p)
    <2>1. Begin(p, Left(2), 0)
      BY <1>3 DEF screenshot_tab, Left
    <2> QED  BY <1>1, <2>1, BeginKeeps
  <1>4. CASE pdf_tab(p)
    <2>1. Begin(p, Left(3), 0)
      BY <1>4 DEF pdf_tab, Left
    <2> QED  BY <1>1, <2>1, BeginKeeps
  <1>5. CASE browser_surface_snapshot(p)
    <2>1. Begin(p, Left(16), 0)
      BY <1>5 DEF browser_surface_snapshot, Left
    <2> QED  BY <1>1, <2>1, BeginKeeps
  <1>6. CASE \E id \in 1 .. used : artifact_crop(p, id)
    <2>1. PICK id \in 1 .. used : Begin(p, Left(9), id)
      BY <1>6 DEF artifact_crop, Left
    <2> QED  BY <1>1, <2>1, BeginKeeps
  <1>7. CASE \E id \in 1 .. used : artifact_crop_grid(p, id)
    <2>1. PICK id \in 1 .. used : Begin(p, Left(11), id)
      BY <1>7 DEF artifact_crop_grid, GridPlan, Left
    <2> QED  BY <1>1, <2>1, BeginKeeps
  <1> QED  BY <1>2, <1>3, <1>4, <1>5, <1>6, <1>7 DEF Operations

LEMMA StoreInitial ==
  ASSUME Init  PROVE StoreInd
  <1>1. /\ op = [p \in Processes |-> Idle] /\ file = [i \in {} |-> "none"] /\ rows = {} /\ events = {} /\ temps = {}
        /\ run \in [Processes -> Runs \cup {NoRun}] /\ last = [p \in Processes |-> Unended]
        /\ used = 0 /\ incidents = 0
    BY DEF Init
  <1>2. Unended \in EndRecord /\ Unended.ids = {} /\ Unended.result = "none"
    BY DEF Unended, EndRecord
  <1>3. StoreTypes
    BY <1>1, <1>2, IdleType DEF StoreTypes
  <1>4. Separate
    BY <1>1, <1>2, IdleType DEF Separate
  <1>5. StoreInv
    <2>1. TypeOK
      BY <1>1, IdleType, ArtifactAssumption DEF TypeOK
    <2> QED  BY <1>1, <1>2, <2>1 DEF StoreInv, RowsBacked, EventsBacked, NothingLeft
  <1>6. ASSUME NEW p \in Processes  PROVE Staged(p) /\ Owned(p)
    BY <1>1, IdleType DEF Staged, Owned
  <1> QED  BY <1>3, <1>4, <1>5, <1>6 DEF StoreInd

\* The state an operation touches is the same when nothing is done.
LEMMA StoreStutters ==
  ASSUME StoreInd, UNCHANGED vars
  PROVE  StoreInd'
  <1>1. UNCHANGED <<op, file, rows, events, temps, run, last, used, incidents>>
    BY DEF vars
  <1>2. StoreTypes' /\ Separate'
    BY <1>1 DEF StoreInd, StoreTypes, Separate
  <1>3. StoreInv'
    BY <1>1 DEF StoreInd, StoreInv, TypeOK, RowsBacked, EventsBacked, NothingLeft
  <1>4. ASSUME NEW q \in Processes  PROVE Staged(q)' /\ Owned(q)'
    BY <1>1, WorkerKept DEF StoreInd, Finished
  <1> QED  BY <1>2, <1>3, <1>4 DEF StoreInd

LEMMA StoreNext ==
  ASSUME StoreInd, Next
  PROVE  StoreInd'
  <1>1. ASSUME NEW p \in Processes, Crash(p)  PROVE StoreInd'
    BY <1>1, FailKeeps DEF Crash, store
  <1> QED  BY <1>1, OperationsKeep, StepsKeep, SwitchRunKeeps, LoseFileKeeps DEF Next

\* Rows are of finished files, crops of stored pictures, events of stored artifacts of
\* their run; a success leaves nothing behind and no failure is named by an event, in
\* whatever order the operations of any number of processes write, fail and die
\* (screenshot_tab, artifact_crop_grid, browser_surface_snapshot and the others).
THEOREM EvidenceStaysBacked == EvidenceSpec => []StoreInv
  <1>1. EvidenceInit => StoreInd
    BY StoreInitial DEF EvidenceInit
  <1>2. StoreInd /\ [EvidenceNext]_<<part, vars, surfaces>> => StoreInd'
    BY StoreNext, StoreStutters DEF EvidenceNext
  <1>3. StoreInd => StoreInv
    BY DEF StoreInd
  <1> QED  BY <1>1, <1>2, <1>3, PTL DEF EvidenceSpec

-----------------------------------------------------------------------------
(* The browser's own surfaces: the invariant.                              *)

States == {"granted", "missing", "unsupported", "unknown"}
StepMaps == UNION {[D -> States] : D \in SUBSET Services}
SetupOps == [kind : {"setup"}, mode : {"audit", "apply"}, pc : {"grant", "before", "step"}, todo : Seq(Services),
             asked : Seq(Services), before : [Services -> States], steps : StepMaps, prompted : SUBSET Services]
ListOps == [kind : {"list"}, pc : {"collect", "status"}, path : Paths, role : Roles, moved : BOOLEAN]
ActOps == [kind : {"act"}, pc : {"grant", "collect", "try", "element", "check"}, req : Requests,
           channels : Seq(Channels), fallback : Nat, effects : SUBSET {"activated"}, moved : BOOLEAN]

SurfaceTypes ==
  /\ granted \subseteq Services /\ seen \subseteq Services
  /\ role \in [Paths -> Roles] /\ focused \in Paths \cup {"elsewhere"}
  /\ allowed \in BOOLEAN /\ running \in BOOLEAN /\ managed \in BOOLEAN
  /\ native \in {AtRest} \cup SetupOps \cup ListOps \cup ActOps
  /\ changes \in Nat /\ changes <= MaxChanges

\* The channels that an action has left are the last of those it prefers, and the count of
\* its fallbacks is the number of the others.  Only the takeover at the very end of the
\* list is passed over without being counted.
Preferred(o) == preferred_channels(o.req.channel, o.req.action)
Tried(o) ==
  /\ Len(o.channels) <= Len(Preferred(o)) /\ o.fallback <= Len(Preferred(o)) - Len(o.channels)
  /\ \A i \in 1 .. Len(o.channels) : o.channels[i] = Preferred(o)[Len(Preferred(o)) - Len(o.channels) + i]
  /\ o.channels # <<>> => o.fallback = Len(Preferred(o)) - Len(o.channels)

\* The application was activated for the channel that does so, and not before the first.
Activated(o) ==
  /\ o.pc = "try" /\ o.channels # <<>> /\ o.fallback = 0 => "activated" \notin o.effects
  /\ o.pc \in {"element", "check"} =>
       /\ o.channels # <<>> /\ Head(o.channels) \in {"ax_direct", "apple_events_activation"}
       /\ Head(o.channels) = "apple_events_activation" => "activated" \in o.effects
       /\ Head(o.channels) = "ax_direct" /\ o.fallback = 0 => "activated" \notin o.effects
  /\ o.pc = "element" => Head(o.channels) = "apple_events_activation"
  /\ o.pc = "check" => o.req.action = "focus"

ActGood(o) ==
  /\ o.pc # "grant" /\ browser_surface_action_requires_capability_grant(o.req) => allowed
  /\ o.pc \in {"grant", "collect"} => o.channels = <<>> /\ o.fallback = 0 /\ o.effects = {}
  /\ o.pc \in {"try", "element", "check"} => Tried(o) /\ Activated(o)

\* Every service asked for has had its step or waits for it, and what was found to be
\* granted was.
SetupGood(o) ==
  /\ o.pc # "grant" /\ o.mode = "apply" => allowed
  /\ o.prompted # {} => o.mode = "apply" /\ o.pc = "step"
  /\ o.prompted \subseteq {o.asked[i] : i \in DOMAIN o.asked}
  /\ \A i \in DOMAIN o.todo : \E j \in DOMAIN o.asked : o.todo[i] = o.asked[j]
  /\ \A j \in DOMAIN o.asked : \/ o.asked[j] \in DOMAIN o.steps
                               \/ \E i \in DOMAIN o.todo : o.todo[i] = o.asked[j]
  /\ \A x \in Services : o.before[x] = "granted" => x \in seen
  /\ \A x \in DOMAIN o.steps : o.steps[x] = "granted" => x \in seen

\* The surface that is listed is there, unless it moved since it was found.
ListGood(o) == o.pc = "status" /\ ~ o.moved => (running \/ managed) /\ o.path \in Found

Working ==
  /\ native \in ActOps => ActGood(native)
  /\ native \in SetupOps => SetupGood(native)
  /\ native \in ListOps => ListGood(native)
  /\ native # AtRest => granted \subseteq seen

\* What a fresh catalogue lists as available can still be reached.
CatalogTrue == catalog.fresh /\ catalog.available # {} => Cannot = "no" /\ catalog.path \in Found

Answered == TakeoverGranted /\ CatalogKept /\ FocusHonest /\ SetupHonest

SurfaceInd == SurfaceTypes /\ Working /\ CatalogTrue /\ Answered /\ AvailableHolds

\* What the bridge prefers for an action without a channel of its own is what the catalogue
\* lists; a takeover stands last.
LEMMA PreferredFacts ==
  ASSUME NEW requested \in Channels \cup {"none"}, NEW action \in SurfaceActionKind
  PROVE  LET pref == preferred_channels(requested, action)
             paths == surface_action_paths(action)
         IN  /\ pref \in Seq(Channels) /\ Len(pref) \in 1 .. 4
             /\ \A i \in 1 .. Len(pref) : pref[i] = "global_takeover" => i = Len(pref)
             /\ requested = "none" =>
                  /\ \A i \in 1 .. Len(pref) :
                       pref[i] \in {"app_scoped_key_post", "global_takeover"} => action \in {"confirm", "key_sequence"}
                  /\ surface_action_runtime_supported(action) =>
                       /\ Len(paths) = Len(pref)
                       /\ \A i \in 1 .. Len(pref) : paths[i] = Path(pref[i], interference_level(pref[i]))
  <1> USE DEF preferred_channels, surface_action_paths, surface_action_runtime_supported, Path, interference_level,
              Channels, SurfaceActionKind
  <1>1. CASE requested # "none"
    BY <1>1
  <1>2. CASE requested = "none" /\ action \in {"press", "focus", "set_value"}
    <2>1. /\ preferred_channels(requested, action) = <<"ax_direct", "apple_events_activation">>
          /\ surface_action_paths(action)
               = <<Path("ax_direct", "background_safe"), Path("apple_events_activation", "app_takeover")>>
      BY <1>2
    <2>2. "ax_direct" \in Channels /\ "apple_events_activation" \in Channels
      OBVIOUS
    <2> HIDE DEF preferred_channels, surface_action_paths, SurfaceActionKind, Channels
    <2>3. /\ preferred_channels(requested, action) \in Seq(Channels) /\ Len(preferred_channels(requested, action)) = 2
          /\ preferred_channels(requested, action)[1] = "ax_direct"
          /\ preferred_channels(requested, action)[2] = "apple_events_activation"
          /\ Len(surface_action_paths(action)) = 2
          /\ surface_action_paths(action)[1] = Path("ax_direct", "background_safe")
          /\ surface_action_paths(action)[2] = Path("apple_events_activation", "app_takeover")
      BY <2>1, <2>2
    <2> QED  BY <1>2, <2>3
  <1>3. CASE requested = "none" /\ action = "confirm"
    BY <1>3
  <1>4. CASE requested = "none" /\ action = "key_sequence"
    BY <1>4
  <1>5. CASE requested = "none" /\ action \in {"scroll", "raise"}
    <2>1. preferred_channels(requested, action) = <<"ax_direct">> /\ ~ surface_action_runtime_supported(action)
      BY <1>5
    <2>2. "ax_direct" \in Channels
      OBVIOUS
    <2> HIDE DEF preferred_channels, surface_action_paths, surface_action_runtime_supported, SurfaceActionKind, Channels
    <2>3. /\ preferred_channels(requested, action) \in Seq(Channels) /\ Len(preferred_channels(requested, action)) = 1
          /\ preferred_channels(requested, action)[1] = "ax_direct"
      BY <2>1, <2>2
    <2> QED  BY <1>5, <2>1, <2>3
  <1> QED  BY <1>1, <1>2, <1>3, <1>4, <1>5

\* The fields of an operation of each kind.
LEMMA ActFields ==
  ASSUME NEW o \in ActOps
  PROVE  /\ o.kind = "act" /\ o.pc \in {"grant", "collect", "try", "element", "check"} /\ o.req \in Requests
         /\ o.channels \in Seq(Channels) /\ o.fallback \in Nat /\ o.effects \subseteq {"activated"} /\ o.moved \in BOOLEAN
         /\ o.req.channel \in Channels \cup {"none"} /\ o.req.action \in SurfaceActionKind
  BY NativeAssumption DEF ActOps, BrowserSurfaceActionRequest
LEMMA SetupFields ==
  ASSUME NEW o \in SetupOps
  PROVE  /\ o.kind = "setup" /\ o.mode \in {"audit", "apply"} /\ o.pc \in {"grant", "before", "step"}
         /\ o.todo \in Seq(Services) /\ o.asked \in Seq(Services) /\ o.before \in [Services -> States]
         /\ o.steps \in StepMaps /\ o.prompted \subseteq Services
  BY DEF SetupOps
LEMMA ListFields ==
  ASSUME NEW o \in ListOps
  PROVE  /\ o.kind = "list" /\ o.pc \in {"collect", "status"} /\ o.path \in Paths /\ o.role \in Roles
         /\ o.moved \in BOOLEAN
  BY DEF ListOps

\* An operation is of one kind, told by its name.
LEMMA KindOf ==
  ASSUME SurfaceTypes
  PROVE  /\ native.kind = "act" <=> native \in ActOps
         /\ native.kind = "setup" <=> native \in SetupOps
         /\ native.kind = "list" <=> native \in ListOps
         /\ native = AtRest => native \notin ActOps /\ native \notin SetupOps /\ native \notin ListOps
         /\ AtRest.kind = "idle"
  <1>1. AtRest.kind = "idle"
    BY DEF AtRest
  <1> QED  BY <1>1, ActFields, SetupFields, ListFields DEF SurfaceTypes

\* The invariant says all that the runs check.
LEMMA SurfaceIndImplies ==
  ASSUME SurfaceInd
  PROVE  ActionsKept /\ AvailableHolds /\ ReportsHonest
  <1>1. SurfaceTypes /\ Working /\ Answered /\ AvailableHolds
    BY DEF SurfaceInd
  <1>2. ASSUME native.kind = "act"  PROVE native.req \in Requests /\ Len(native.channels) + native.fallback <= 4
    <2>1. native \in ActOps /\ ActGood(native)
      BY <1>1, <1>2, KindOf DEF Working
    <2>2. CASE native.pc \in {"grant", "collect"}
      BY <2>1, <2>2, ActFields DEF ActGood
    <2>3. CASE native.pc \in {"try", "element", "check"}
      <3> DEFINE n == Len(Preferred(native))
                 m == Len(native.channels)
                 f == native.fallback
      <3>1. n \in 1 .. 4
        BY <2>1, ActFields, PreferredFacts DEF Preferred
      <3>2. m \in Nat /\ f \in Nat
        BY <2>1, ActFields
      <3>3. f <= n - m
        BY <2>1, <2>3 DEF ActGood, Tried
      <3> HIDE DEF n, m, f
      <3>4. m + f <= 4
        BY <3>1, <3>2, <3>3
      <3> QED  BY <2>1, <3>4, ActFields DEF m, f
    <2> QED  BY <2>1, <2>2, <2>3, ActFields
  <1>3. native.kind = "setup" => native.prompted \subseteq Services
    BY <1>1, KindOf, SetupFields
  <1>4. SurfaceTypeOK
    BY <1>1, <1>2, <1>3 DEF SurfaceTypeOK, SurfaceTypes
  <1> QED  BY <1>1, <1>4 DEF ActionsKept, ReportsHonest, Answered

-----------------------------------------------------------------------------
(* Steps that answer nothing, and steps that answer.                       *)

\* An answer stays true while nothing that was seen is forgotten.
LEMMA AnswerKept ==
  ASSUME Answered, AvailableHolds, reply' = reply, allowed' = allowed, seen \subseteq seen', catalog' \in {catalog, NoCatalog}
  PROVE  Answered' /\ AvailableHolds'
  <1>1. TakeoverGranted' /\ CatalogKept' /\ FocusHonest'
    BY DEF Answered, TakeoverGranted, CatalogKept, FocusHonest
  <1>2. SetupHonest'
    BY DEF Answered, SetupHonest
  <1>3. AvailableHolds'
    BY DEF AvailableHolds, NoCatalog
  <1> QED  BY <1>1, <1>2, <1>3 DEF Answered

\* A catalogue stays true while nothing is changed that it depends on.
LEMMA CatalogKeeps ==
  ASSUME CatalogTrue, \/ catalog' = NoCatalog
                      \/ catalog' = catalog /\ UNCHANGED <<granted, running, managed, role>>
  PROVE  CatalogTrue'
  <1>1. CASE catalog' = NoCatalog
    BY <1>1 DEF CatalogTrue, NoCatalog
  <1>2. CASE catalog' = catalog /\ UNCHANGED <<granted, running, managed, role>>
    BY <1>2 DEF CatalogTrue, Cannot, Found
  <1> QED  BY <1>1, <1>2

WorkingOf(o) ==
  /\ o \in ActOps => ActGood(o)
  /\ o \in SetupOps => SetupGood(o)
  /\ o \in ListOps => ListGood(o)

\* An operation goes on.
LEMMA GoesOn ==
  ASSUME SurfaceInd, native # AtRest, native' \in SetupOps \cup ListOps \cup ActOps, WorkingOf(native)',
         UNCHANGED <<granted, allowed, running, managed, role, reply, catalog, seen>>,
         focused' \in Paths \cup {"elsewhere"}, changes' \in Nat, changes' <= MaxChanges
  PROVE  SurfaceInd'
  <1>1. SurfaceTypes /\ Working /\ CatalogTrue /\ Answered /\ AvailableHolds
    BY DEF SurfaceInd
  <1>2. SurfaceTypes'
    BY <1>1 DEF SurfaceTypes
  <1>3. Working'
    BY <1>1 DEF Working, WorkingOf
  <1>4. CatalogTrue' /\ Answered' /\ AvailableHolds'
    BY <1>1, CatalogKeeps, AnswerKept
  <1> QED  BY <1>2, <1>3, <1>4 DEF SurfaceInd

\* An operation answers.
LEMMA Stops ==
  ASSUME SurfaceInd, native' = AtRest, UNCHANGED <<host, seen>>, changes' \in Nat, changes' <= MaxChanges,
         CatalogTrue', Answered', AvailableHolds'
  PROVE  SurfaceInd'
  <1>1. SurfaceTypes
    BY DEF SurfaceInd
  <1>2. SurfaceTypes'
    BY <1>1 DEF SurfaceTypes, host
  <1>3. native' \notin ActOps /\ native' \notin SetupOps /\ native' \notin ListOps
    <2>1. native'.kind = "idle"
      BY DEF AtRest
    <2> QED  BY <2>1, ActFields, SetupFields, ListFields
  <1>4. Working'
    BY <1>3 DEF Working
  <1> QED  BY <1>2, <1>4 DEF SurfaceInd

\* The answers that are no claim about what was done or set up.
LEMMA PlainAnswer ==
  ASSUME reply'.kind \in {"none", "listed"} \/ (reply'.kind = "failed" /\ reply'.op.kind \in {"act", "list"})
  PROVE  Answered'
  BY DEF Answered, TakeoverGranted, CatalogKept, FocusHonest, SetupHonest

\* An action or a listing is refused.
LEMMA RefusedKeeps ==
  ASSUME SurfaceInd, native \in ActOps \cup ListOps, NEW why, Refused(why), UNCHANGED <<host, catalog, seen, changes>>,
         native \in ActOps /\ catalog.fresh /\ native.req.path = catalog.path /\ native.req.action \in catalog.available
           => why \notin {"permission", "surface", "not_running"}
  PROVE  SurfaceInd'
  <1>1. SurfaceTypes /\ CatalogTrue
    BY DEF SurfaceInd
  <1>2. /\ native' = AtRest /\ reply' = [kind |-> "failed", op |-> native, why |-> why]
        /\ native.kind \in {"act", "list"} /\ (native.kind = "act" => native \in ActOps)
    BY <1>1, ActFields, ListFields, KindOf DEF Refused, Answer
  <1>3. reply'.kind = "failed" /\ reply'.op = native /\ reply'.why = why
    BY <1>2
  <1>4. Answered'
    BY <1>2, <1>3, PlainAnswer
  <1>5. AvailableHolds'
    BY <1>2, <1>3 DEF AvailableHolds
  <1>6. CatalogTrue'
    BY <1>1, CatalogKeeps DEF host
  <1> QED  BY <1>1, <1>2, <1>4, <1>5, <1>6, Stops DEF SurfaceTypes

-----------------------------------------------------------------------------
(* browser_surface_action.                                                 *)

\* On a channel, an action is at the one that it prefers next.
LEMMA OnChannel ==
  ASSUME NEW o \in ActOps, ActGood(o), o.pc \in {"try", "element", "check"}, o.channels # <<>>
  PROVE  /\ Tried(o) /\ Activated(o) /\ Len(o.channels) \in Nat \ {0} /\ Head(o.channels) = o.channels[1]
         /\ Head(o.channels) \in Channels
         /\ o.fallback + 1 \in 1 .. Len(Preferred(o)) /\ Head(o.channels) = Preferred(o)[o.fallback + 1]
         /\ Len(Preferred(o)) \in 1 .. 4 /\ o.fallback = Len(Preferred(o)) - Len(o.channels)
  <1>1. o.channels \in Seq(Channels) /\ o.fallback \in Nat
    BY ActFields
  <1>2. Len(o.channels) \in Nat \ {0} /\ Head(o.channels) = o.channels[1] /\ Head(o.channels) \in Channels
    BY <1>1
  <1>3. Tried(o) /\ Activated(o)
    BY DEF ActGood
  <1> DEFINE n == Len(Preferred(o))
             m == Len(o.channels)
             f == o.fallback
  <1>4. n \in 1 .. 4
    BY ActFields, PreferredFacts DEF Preferred
  <1>5. f = n - m /\ m <= n /\ \A i \in 1 .. m : o.channels[i] = Preferred(o)[n - m + i]
    BY <1>3 DEF Tried
  <1>6. m \in Nat \ {0} /\ f \in Nat
    BY <1>1, <1>2
  <1> HIDE DEF n, m, f
  <1>7. f + 1 \in 1 .. n /\ 1 \in 1 .. m /\ n - m + 1 = f + 1
    BY <1>4, <1>5, <1>6
  <1>8. o.channels[1] = Preferred(o)[f + 1]
    BY <1>5, <1>7
  <1> QED  BY <1>2, <1>3, <1>4, <1>5, <1>7, <1>8 DEF n, m, f

\* A channel that did not do it: the action is at the next one.
LEMMA NextChannelKeeps ==
  ASSUME SurfaceInd, native \in ActOps, native.pc \in {"try", "element", "check"}, native.channels # <<>>,
         NEW counted \in {0, 1}, NEW effects \in SUBSET {"activated"}, NextChannel(counted, effects),
         counted = 0 => Channel = "global_takeover",
         UNCHANGED <<host, catalog, seen, changes>>
  PROVE  SurfaceInd'
  <1> DEFINE n == Len(Preferred(native))
             m == Len(native.channels)
             t == Tail(native.channels)
             e == native.effects \cup effects
             g == native.fallback + counted
             c == [native EXCEPT !.pc = "try", !.channels = t, !.fallback = g, !.effects = e]
  <1>1. SurfaceTypes /\ Working /\ native # AtRest
    BY KindOf DEF SurfaceInd
  <1>2. ActGood(native)
    BY <1>1 DEF Working
  <1>3. native' = c /\ reply' = reply
    BY DEF NextChannel
  <1>4. t \in Seq(Channels) /\ e \in SUBSET {"activated"} /\ g \in Nat /\ Len(t) = m - 1 /\ m \in Nat \ {0}
        /\ \A i \in 1 .. Len(t) : t[i] = native.channels[i + 1]
    <2> DEFINE w == native.channels
    <2>1. w \in Seq(Channels) /\ w # <<>> /\ native.fallback \in Nat /\ native.effects \subseteq {"activated"}
      BY ActFields
    <2> HIDE DEF w
    <2>2. /\ Tail(w) \in Seq(Channels) /\ Len(Tail(w)) = Len(w) - 1 /\ Len(w) \in Nat \ {0}
          /\ \A i \in 1 .. Len(Tail(w)) : Tail(w)[i] = w[i + 1]
      BY <2>1
    <2>3. g \in Nat
      BY <2>1
    <2>4. e \in SUBSET {"activated"}
      BY <2>1
    <2> QED  BY <2>2, <2>3, <2>4 DEF w
  <1> HIDE DEF t, e, g
  <1>5. /\ c \in ActOps /\ c.pc = "try" /\ c.channels = t /\ c.fallback = g /\ c.effects = e /\ c.req = native.req
    BY <1>4, ActFields DEF ActOps
  <1> HIDE DEF c
  <1>6. Preferred(c) = Preferred(native)
    BY <1>5 DEF Preferred
  <1> DEFINE f == native.fallback
             k == Len(t)
  <1>7. n \in 1 .. 4 /\ f = n - m /\ f \in Nat /\ Channel = Preferred(native)[f + 1]
        /\ f + 1 \in 1 .. n /\ (\A i \in 1 .. m : native.channels[i] = Preferred(native)[n - m + i])
        /\ \A i \in 1 .. n : Preferred(native)[i] = "global_takeover" => i = n
    <2>1. \A i \in 1 .. n : Preferred(native)[i] = "global_takeover" => i = n
      BY ActFields, PreferredFacts DEF Preferred
    <2> QED  BY <1>2, <2>1, OnChannel, ActFields DEF Channel, Tried
  <1>8. k \in Nat /\ k = m - 1 /\ m \in Nat \ {0} /\ g = f + counted
    BY <1>4 DEF g
  <1> HIDE DEF n, m, f, k
  <1>9. counted = 0 => m = 1
    BY <1>7, <1>8
  <1>10. counted = 0 => t = <<>>
    <2>1. counted = 0 => k = 0
      BY <1>8, <1>9
    <2> QED  BY <1>4, <2>1 DEF k
  <1>11. Tried(c)
    <2>1. k <= n /\ g <= n - k
      <3>1. n \in Nat /\ f = n - m /\ f \in Nat
        BY <1>7
      <3>2. k = m - 1 /\ m \in Nat \ {0} /\ g = f + counted
        BY <1>8
      <3>3. counted \in Nat /\ counted <= 1
        OBVIOUS
      <3> QED  BY <3>1, <3>2, <3>3
    <2>2. t # <<>> => g = n - k
      BY <1>7, <1>8, <1>10
    <2>3. \A i \in 1 .. k : t[i] = Preferred(native)[n - k + i]
      <3>1. ASSUME NEW i \in 1 .. k  PROVE i + 1 \in 1 .. m /\ n - m + (i + 1) = n - k + i
        <4>1. n \in Nat /\ k = m - 1 /\ m \in Nat \ {0} /\ k \in Nat
          BY <1>7, <1>8
        <4> QED  BY <4>1
      <3>2. \A i \in 1 .. k : t[i] = native.channels[i + 1]
        BY <1>4 DEF k
      <3> QED  BY <1>7, <3>1, <3>2
    <2> QED  BY <1>5, <1>6, <2>1, <2>2, <2>3 DEF Tried, n, k
  <1>12. Activated(c)
    <2>1. t # <<>> => g # 0
      BY <1>7, <1>8, <1>10
    <2> QED  BY <1>5, <2>1 DEF Activated
  <1>13. native.pc # "grant" /\ allowed' = allowed
    BY DEF host
  <1>14. ActGood(native)'
    BY <1>2, <1>3, <1>5, <1>11, <1>12, <1>13 DEF ActGood
  <1>15. native' \in ActOps /\ native' \notin SetupOps /\ native' \notin ListOps
    BY <1>3, <1>5, ActFields, SetupFields, ListFields
  <1> QED  BY <1>1, <1>3, <1>14, <1>15, GoesOn DEF WorkingOf, SurfaceTypes, host

\* A channel that did it: the answer says what the catalogue lists there.
LEMMA DoneKeeps ==
  ASSUME SurfaceInd, native \in ActOps, native.pc \in {"try", "element", "check"}, native.channels # <<>>,
         NEW target_focused \in BOOLEAN, NEW effects, Done(target_focused, effects),
         UNCHANGED <<host, catalog, seen, changes>>,
         native.req.channel = "none" => surface_action_runtime_supported(native.req.action),
         "global_key" \in effects => allowed /\ native.req.takeover # "no",
         took_focus(Channel) => "activated" \in native.effects \cup effects,
         native.fallback = 0 /\ interference_level(Channel) = "background_safe" =>
           "activated" \notin native.effects \cup effects,
         native.req.action = "focus" /\ target_focused => HasFocus
  PROVE  SurfaceInd'
  <1>1. CASE native.req.action = "focus" /\ ~ target_focused
    BY <1>1, RefusedKeeps DEF Done
  <1>2. CASE ~ (native.req.action = "focus" /\ ~ target_focused)
    <2> DEFINE e == native.effects \cup effects
               r == [kind |-> "acted", req |-> native.req, channel |-> Channel, level |-> interference_level(Channel),
                     took_focus |-> took_focus(Channel), fallback |-> native.fallback,
                     effects |-> e, truth |-> HasFocus]
    <2>1. SurfaceTypes /\ Working /\ CatalogTrue /\ ActGood(native)
      BY KindOf DEF SurfaceInd, Working
    <2>2. native' = AtRest /\ reply' = r
      BY <1>2 DEF Done, Answer
    <2>3. /\ r.kind = "acted" /\ r.req = native.req /\ r.channel = Channel /\ r.level = interference_level(Channel)
          /\ r.took_focus = took_focus(Channel) /\ r.fallback = native.fallback /\ r.effects = e /\ r.truth = HasFocus
      BY Zenon
    <2> HIDE DEF r
    <2>4. TakeoverGranted'
      <3>1. "global_key" \in e => allowed /\ native.req.takeover # "no"
        BY ActFields
      <3> QED  BY <2>2, <2>3, <3>1 DEF TakeoverGranted, host
    <2>5. CatalogKept'
      <3> DEFINE paths == surface_action_paths(native.req.action)
                 pref == Preferred(native)
      <3>1. native.fallback + 1 \in 1 .. Len(pref) /\ Channel = pref[native.fallback + 1] /\ native.fallback \in Nat
        BY <2>1, OnChannel, ActFields DEF Channel
      <3>2. ASSUME native.req.channel = "none"
            PROVE  /\ surface_action_runtime_supported(native.req.action)
                   /\ native.fallback < Len(paths)
                   /\ paths[native.fallback + 1] = Path(Channel, interference_level(Channel))
        <4>1. /\ Len(paths) = Len(pref) /\ Len(pref) \in 1 .. 4
              /\ \A i \in 1 .. Len(pref) : paths[i] = Path(pref[i], interference_level(pref[i]))
          BY <3>2, ActFields, PreferredFacts DEF Preferred
        <4> HIDE DEF paths, pref
        <4> QED  BY <3>1, <3>2, <4>1
      <3> HIDE DEF pref
      <3>3. took_focus(Channel) => "activated" \in e
        OBVIOUS
      <3>4. native.fallback = 0 /\ interference_level(Channel) = "background_safe" => "activated" \notin e
        OBVIOUS
      <3> HIDE DEF paths, e
      <3>5. r.req.channel = "none" =>
               /\ surface_action_runtime_supported(r.req.action) /\ r.fallback < Len(surface_action_paths(r.req.action))
               /\ surface_action_paths(r.req.action)[r.fallback + 1] = Path(r.channel, r.level)
        BY <2>3, <3>2 DEF paths
      <3>6. r.took_focus => "activated" \in r.effects
        BY <2>3, <3>3, Zenon
      <3>7. r.fallback = 0 /\ r.level = "background_safe" => "activated" \notin r.effects
        BY <2>3, <3>4
      <3> QED  BY <2>2, <3>5, <3>6, <3>7 DEF CatalogKept
    <2>6. FocusHonest'
      <3>1. native.req.action = "focus" => HasFocus
        BY <1>2
      <3>2. r.req.action = "focus" => r.truth
        BY <2>3, <3>1, Zenon
      <3> QED  BY <2>2, <3>2 DEF FocusHonest
    <2>7. SetupHonest' /\ AvailableHolds'
      BY <2>2, <2>3 DEF SetupHonest, AvailableHolds
    <2>8. CatalogTrue'
      BY <2>1, CatalogKeeps DEF host
    <2> QED  BY <2>1, <2>2, <2>4, <2>5, <2>6, <2>7, <2>8, Stops DEF Answered, SurfaceTypes
  <1> QED  BY <1>1, <1>2

\* The steps of an action: each ends as one of the above.
LEMMA ActStarts ==
  ASSUME SurfaceInd, ActGrant \/ ActCollect
  PROVE  SurfaceInd'
  <1>1. SurfaceTypes /\ Working /\ CatalogTrue /\ native.kind = "act"
    BY DEF SurfaceInd, ActGrant, ActCollect, Acting
  <1>2. native \in ActOps /\ ActGood(native) /\ native # AtRest
    BY <1>1, KindOf DEF Working
  <1>3. ASSUME NEW c \in ActOps, native' = c, c.req = native.req, ActGood(c), reply' = reply,
               UNCHANGED <<host, catalog, seen, changes>>
        PROVE  SurfaceInd'
    <2>1. ActGood(native)'
      BY <1>3 DEF ActGood, host
    <2>2. native' \notin SetupOps /\ native' \notin ListOps
      BY <1>3, ActFields, SetupFields, ListFields
    <2> QED  BY <1>1, <1>2, <1>3, <2>1, <2>2, GoesOn DEF WorkingOf, SurfaceTypes, host
  <1>4. CASE ActGrant
    <2>1. CASE Refused("access") \/ Refused("capability")
      BY <1>2, <1>4, <2>1, RefusedKeeps DEF ActGrant
    <2>2. CASE ~ (Refused("access") \/ Refused("capability"))
      <3> DEFINE c == [native EXCEPT !.pc = "collect"]
      <3>1. native.pc = "grant" /\ native' = c /\ reply' = reply /\ UNCHANGED <<host, catalog, seen, changes>>
            /\ (browser_surface_action_requires_capability_grant(native.req) => allowed)
        BY <1>4, <2>2 DEF ActGrant, Acting
      <3>2. c \in ActOps /\ c.pc = "collect" /\ c.req = native.req /\ c.channels = native.channels
            /\ c.fallback = native.fallback /\ c.effects = native.effects
        BY <1>2, ActFields DEF ActOps
      <3> HIDE DEF c
      <3>3. ActGood(c)
        BY <1>2, <3>1, <3>2 DEF ActGood
      <3> QED  BY <1>3, <3>1, <3>2, <3>3
    <2> QED  BY <2>1, <2>2
  <1>5. CASE ActCollect
    <2>1. UNCHANGED <<host, catalog, seen, changes>> /\ native.pc = "collect"
      BY <1>5 DEF ActCollect, Acting
    <2>2. catalog.fresh /\ native.req.path = catalog.path /\ native.req.action \in catalog.available
            => Cannot = "no" /\ native.req.path \in Found
      BY <1>1 DEF CatalogTrue
    <2>3. CASE Cannot # "no"
      BY <1>2, <1>5, <2>1, <2>2, <2>3, RefusedKeeps DEF ActCollect
    <2>4. CASE Cannot = "no" /\ native.req.path \notin Found
      BY <1>2, <1>5, <2>1, <2>2, <2>4, RefusedKeeps DEF ActCollect
    <2>5. CASE Cannot = "no" /\ native.req.path \in Found
      <3> DEFINE w == Preferred(native)
                 c == [native EXCEPT !.pc = "try", !.channels = w]
      <3>1. native' = c /\ reply' = reply
        BY <1>5, <2>5 DEF ActCollect, Preferred
      <3>2. w \in Seq(Channels) /\ Len(w) \in 1 .. 4
        BY <1>2, ActFields, PreferredFacts DEF Preferred
      <3> HIDE DEF w
      <3>3. c \in ActOps /\ c.pc = "try" /\ c.req = native.req /\ c.channels = w /\ c.fallback = native.fallback
            /\ c.effects = native.effects
        BY <1>2, <3>2, ActFields DEF ActOps
      <3> HIDE DEF c
      <3>4. Preferred(c) = w /\ c.fallback = 0 /\ c.effects = {}
        BY <1>2, <2>1, <3>3 DEF Preferred, ActGood, w
      <3>5. \A i \in 1 .. Len(w) : Len(w) - Len(w) + i = i
        BY <3>2
      <3>6. Tried(c)
        BY <3>2, <3>3, <3>4, <3>5 DEF Tried
      <3>7. ActGood(c)
        BY <1>2, <2>1, <3>3, <3>4, <3>6 DEF ActGood, Activated
      <3> QED  BY <1>3, <2>1, <3>1, <3>3, <3>7
    <2> QED  BY <2>3, <2>4, <2>5
  <1> QED  BY <1>4, <1>5

LEMMA ActTries ==
  ASSUME SurfaceInd,
         NoChannel \/ ForbiddenChannel \/ CdpChannel \/ Activate \/ Element \/ FocusElement \/ CheckFocus \/ AppKey \/ GlobalKey
  PROVE  SurfaceInd'
  <1>1. SurfaceTypes /\ Working /\ native.kind = "act" /\ native.pc \in {"try", "element", "check"}
    BY DEF SurfaceInd, NoChannel, ForbiddenChannel, CdpChannel, Activate, Element, FocusElement, CheckFocus, AppKey,
           GlobalKey, Trying, OnElement, Acting
  <1>2. native \in ActOps /\ ActGood(native) /\ native # AtRest /\ Activated(native)
    BY <1>1, KindOf DEF Working, ActGood
  <1>3. CASE NoChannel
    BY <1>2, <1>3, RefusedKeeps DEF NoChannel
  <1>4. CASE ~ NoChannel
    <2>1. native.channels # <<>>
      BY <1>2, <1>4 DEF ForbiddenChannel, CdpChannel, Activate, Element, FocusElement, CheckFocus, AppKey, GlobalKey,
                        Trying, OnElement, Acting, Activated
    <2>2. /\ Channel \in Channels /\ native.fallback + 1 \in 1 .. Len(Preferred(native))
          /\ Channel = Preferred(native)[native.fallback + 1]
      BY <1>1, <1>2, <2>1, OnChannel DEF Channel
    <2>3. native.req.channel = "none" /\ Channel \in {"app_scoped_key_post", "global_takeover"} =>
            native.req.action \in {"confirm", "key_sequence"}
      BY <1>2, <2>2, ActFields, PreferredFacts DEF Preferred
    <2>4. {} \in SUBSET {"activated"} /\ {"activated"} \in SUBSET {"activated"} /\ HasFocus \in BOOLEAN
      BY DEF HasFocus
    <2>5. CASE ForbiddenChannel
      BY <1>1, <1>2, <2>1, <2>4, <2>5, NextChannelKeeps DEF ForbiddenChannel, Trying
    <2>6. CASE CdpChannel
      BY <1>1, <1>2, <2>1, <2>4, <2>6, NextChannelKeeps DEF CdpChannel
    <2>7. ASSUME NEW c \in ActOps, native' = c, c.req = native.req, c.channels = native.channels,
                 c.fallback = native.fallback, c.pc \in {"element", "check"}, Activated(c), reply' = reply,
                 UNCHANGED <<granted, allowed, running, managed, role, catalog, seen, changes>>,
                 focused' \in Paths \cup {"elsewhere"}
          PROVE  SurfaceInd'
      <3>1. Tried(c)
        BY <1>1, <1>2, <2>7 DEF ActGood, Tried, Preferred
      <3>2. ActGood(native)'
        BY <1>1, <1>2, <2>7, <3>1 DEF ActGood
      <3>3. native' \notin SetupOps /\ native' \notin ListOps
        BY <2>7, ActFields, SetupFields, ListFields
      <3> QED  BY <1>1, <1>2, <2>7, <3>2, <3>3, GoesOn DEF WorkingOf, SurfaceTypes
    <2>8. CASE Activate
      <3> DEFINE e == native.effects \cup {"activated"}
                 c == [native EXCEPT !.pc = "element", !.effects = e]
      <3>1. native' = c /\ UNCHANGED <<host, reply, catalog, seen, changes>> /\ Channel = "apple_events_activation"
        BY <2>8 DEF Activate, Trying
      <3>2. e \in SUBSET {"activated"} /\ "activated" \in e
        BY <1>2, ActFields
      <3> HIDE DEF e
      <3>3. c \in ActOps /\ c.pc = "element" /\ c.req = native.req /\ c.channels = native.channels
            /\ c.fallback = native.fallback /\ c.effects = e
        BY <1>2, <3>2, ActFields DEF ActOps
      <3> HIDE DEF c
      <3>4. Activated(c)
        BY <2>1, <3>1, <3>2, <3>3 DEF Activated, Channel
      <3> QED  BY <1>1, <2>7, <3>1, <3>3, <3>4 DEF host, SurfaceTypes
    <2>9. CASE Element
      <3>1. Channel \in {"ax_direct", "apple_events_activation"} /\ native.req.action # "focus"
            /\ UNCHANGED <<host, catalog, seen, changes>>
        BY <1>2, <2>9 DEF Element, OnElement, Trying, Acting, Activated, Channel
      <3>2. took_focus(Channel) => "activated" \in native.effects
        BY <1>2, <2>9, <3>1 DEF took_focus, Element, OnElement, Trying, Acting, Activated, Channel
      <3>3. native.fallback = 0 /\ interference_level(Channel) = "background_safe" => "activated" \notin native.effects
        BY <1>2, <2>1, <2>9, <3>1 DEF interference_level, Element, OnElement, Trying, Acting, Activated, Channel
      <3>4. CASE Refused("value")
        BY <1>2, <3>1, <3>4, RefusedKeeps
      <3>5. CASE NextChannel(1, {})
        BY <1>1, <1>2, <2>1, <2>4, <3>1, <3>5, NextChannelKeeps
      <3>6. CASE ~ Refused("value") /\ ~ NextChannel(1, {})
        <4>1. Done(HasFocus, {"element"}) /\ native.req.action \in {"press", "confirm", "set_value"}
          BY <2>9, <3>6 DEF Element
        <4>2. surface_action_runtime_supported(native.req.action)
          BY <4>1 DEF surface_action_runtime_supported
        <4>3. "global_key" \notin {"element"} /\ "activated" \notin {"element"}
          OBVIOUS
        <4> QED  BY <1>1, <1>2, <2>1, <2>4, <3>1, <3>2, <3>3, <4>1, <4>2, <4>3, DoneKeeps
      <3> QED  BY <3>4, <3>5, <3>6
    <2>10. CASE FocusElement
      <3>1. Channel \in {"ax_direct", "apple_events_activation"} /\ native.req.action = "focus"
        BY <1>2, <2>10 DEF FocusElement, OnElement, Trying, Acting, Activated, Channel
      <3>2. CASE NextChannel(1, {}) /\ UNCHANGED focused
        BY <1>1, <1>2, <2>1, <2>4, <2>10, <3>2, NextChannelKeeps DEF FocusElement, host
      <3>3. CASE ~ (NextChannel(1, {}) /\ UNCHANGED focused)
        <4> DEFINE c == [native EXCEPT !.pc = "check"]
        <4>1. native' = c /\ focused' \in {focused, native.req.path} /\ reply' = reply
              /\ UNCHANGED <<granted, allowed, running, managed, role, catalog, seen, changes>>
          BY <2>10, <3>3 DEF FocusElement
        <4>2. c \in ActOps /\ c.pc = "check" /\ c.req = native.req /\ c.channels = native.channels
              /\ c.fallback = native.fallback /\ c.effects = native.effects
          BY <1>2, ActFields DEF ActOps
        <4> HIDE DEF c
        <4>3. Activated(c)
          BY <1>2, <2>1, <2>10, <3>1, <4>2 DEF Activated, FocusElement, OnElement, Trying, Acting, Channel
        <4>4. native.req.path \in Paths
          BY <1>2, ActFields, NativeAssumption DEF BrowserSurfaceActionRequest
        <4> QED  BY <1>1, <2>7, <4>1, <4>2, <4>3, <4>4 DEF SurfaceTypes
      <3> QED  BY <3>2, <3>3
    <2>11. CASE CheckFocus
      <3>1. native.pc = "check" /\ native.req.action = "focus" /\ UNCHANGED <<host, catalog, seen, changes>>
        BY <1>2, <2>11 DEF CheckFocus, Acting, Activated
      <3>2. CASE ~ HasFocus
        BY <1>1, <1>2, <2>1, <2>4, <2>11, <3>1, <3>2, NextChannelKeeps DEF CheckFocus, surface_has_focus
      <3>3. CASE HasFocus
        <4>1. Done(TRUE, {"element"}) /\ surface_action_runtime_supported(native.req.action)
          BY <2>11, <3>1, <3>3 DEF CheckFocus, surface_has_focus, surface_action_runtime_supported
        <4>2. took_focus(Channel) => "activated" \in native.effects
          BY <1>2, <3>1 DEF took_focus, Activated, Channel
        <4>3. native.fallback = 0 /\ interference_level(Channel) = "background_safe" => "activated" \notin native.effects
          BY <1>2, <3>1 DEF interference_level, Activated, Channel
        <4>4. "global_key" \notin {"element"} /\ "activated" \notin {"element"}
          OBVIOUS
        <4> QED  BY <1>1, <1>2, <2>1, <3>1, <3>3, <4>1, <4>2, <4>3, <4>4, DoneKeeps
      <3> QED  BY <3>2, <3>3
    <2>12. CASE AppKey
      <3>1. native.pc = "try" /\ Channel = "app_scoped_key_post" /\ UNCHANGED <<host, catalog, seen, changes>>
        BY <2>12 DEF AppKey, Trying, Acting
      <3>2. CASE ~ native.req.key
        BY <1>1, <1>2, <2>1, <2>4, <2>12, <3>1, <3>2, NextChannelKeeps DEF AppKey
      <3>3. CASE native.req.key
        <4>1. Done(HasFocus, {"app_key"})
          BY <2>12, <3>3 DEF AppKey
        <4>2. native.req.channel = "none" => surface_action_runtime_supported(native.req.action)
          BY <2>3, <3>1 DEF surface_action_runtime_supported
        <4>3. ~ took_focus(Channel) /\ (native.fallback = 0 => "activated" \notin native.effects)
          BY <1>2, <2>1, <3>1 DEF took_focus, Activated
        <4>4. "global_key" \notin {"app_key"} /\ "activated" \notin {"app_key"}
          OBVIOUS
        <4> QED  BY <1>1, <1>2, <2>1, <2>4, <3>1, <4>1, <4>2, <4>3, <4>4, DoneKeeps
      <3> QED  BY <3>2, <3>3
    <2>13. CASE GlobalKey
      <3>1. native.pc = "try" /\ Channel = "global_takeover" /\ UNCHANGED <<host, catalog, seen, changes>>
            /\ native.req.takeover # "no" /\ allowed
        BY <1>2, <2>13 DEF GlobalKey, Trying, Acting, AllowTakeover, ActGood, browser_surface_action_requires_capability_grant
      <3>2. CASE NextChannel(1, {}) \/ NextChannel(1, {"activated"})
        BY <1>1, <1>2, <2>1, <2>4, <3>1, <3>2, NextChannelKeeps
      <3>3. CASE ~ (NextChannel(1, {}) \/ NextChannel(1, {"activated"}))
        <4>1. Done(HasFocus, {"activated", "global_key"}) /\ native.req.action \in {"confirm", "key_sequence"}
          BY <2>13, <3>3 DEF GlobalKey
        <4>2. surface_action_runtime_supported(native.req.action) /\ interference_level(Channel) # "background_safe"
          BY <3>1, <4>1 DEF surface_action_runtime_supported, interference_level
        <4> QED  BY <1>1, <1>2, <2>1, <2>4, <3>1, <4>1, <4>2, DoneKeeps
      <3> QED  BY <3>2, <3>3
    <2> QED  BY <1>4, <2>5, <2>6, <2>8, <2>9, <2>10, <2>11, <2>12, <2>13
  <1> QED  BY <1>3, <1>4

-----------------------------------------------------------------------------
(* host_access_setup.                                                      *)

With(f, x, state) == [y \in DOMAIN f \cup {x} |-> IF y = x THEN state ELSE f[y]]
LEMMA StepMapFacts ==
  \A f \in StepMaps : \A x \in Services : \A state \in States : With(f, x, state) \in StepMaps
  <1> TAKE f \in StepMaps
  <1> TAKE x \in Services
  <1> TAKE state \in States
  <1>1. PICK D \in SUBSET Services : f \in [D -> States]
    BY DEF StepMaps
  <1>2. D \cup {x} \in SUBSET Services /\ With(f, x, state) \in [D \cup {x} -> States]
    BY <1>1 DEF With
  <1> QED  BY <1>2 DEF StepMaps

LEMMA StatusType ==
  /\ read_status \in [Services -> States] /\ Unavailable \in [Services -> States]
  /\ \A x \in Services : (read_status[x] = "granted" => x \in granted) /\ Unavailable[x] # "granted"
  BY DEF read_status, Unavailable, States

\* The step of the service whose turn it is.
LEMMA StepKeepsSetup ==
  ASSUME native \in SetupOps, SetupGood(native), native.pc = "step", native.todo # <<>>,
         NEW state \in States, NEW prompts \in SUBSET {Head(native.todo)}, StepDone(Head(native.todo), state, prompts),
         prompts # {} => native.mode = "apply",
         state = "granted" => Head(native.todo) \in seen', seen \subseteq seen', allowed' = allowed
  PROVE  native' \in SetupOps /\ SetupGood(native)'
  <1> DEFINE x == Head(native.todo)
             t == Tail(native.todo)
             d == native.prompted \cup prompts
             g == With(native.steps, x, state)
             c == [native EXCEPT !.todo = t, !.prompted = d, !.steps = g]
  <1>1. native' = c
    BY DEF StepDone, With
  <1>2. native.todo \in Seq(Services) /\ native.steps \in StepMaps /\ native.prompted \subseteq Services
    BY SetupFields
  <1>3. /\ x \in Services /\ t \in Seq(Services) /\ x = native.todo[1] /\ 1 \in DOMAIN native.todo
        /\ \A i \in DOMAIN native.todo : i # 1 => i - 1 \in DOMAIN t /\ t[i - 1] = native.todo[i]
        /\ \A i \in DOMAIN t : i + 1 \in DOMAIN native.todo /\ t[i] = native.todo[i + 1]
    BY <1>2
  <1>4. /\ g \in StepMaps /\ DOMAIN g = DOMAIN native.steps \cup {x} /\ g[x] = state
        /\ \A y \in DOMAIN native.steps : y # x => g[y] = native.steps[y]
    <2>1. native.steps \in StepMaps /\ x \in Services
      BY <1>2, <1>3
    <2> HIDE DEF x
    <2>2. g \in StepMaps
      BY <2>1, StepMapFacts
    <2>3. /\ DOMAIN g = DOMAIN native.steps \cup {x} /\ g[x] = state
          /\ \A y \in DOMAIN native.steps : y # x => g[y] = native.steps[y]
      BY DEF With
    <2> QED  BY <2>2, <2>3
  <1>5. d \in SUBSET Services /\ d \subseteq native.prompted \cup {x} /\ (d # native.prompted => prompts # {})
    BY <1>2, <1>3
  <1> HIDE DEF t, d, g
  <1>6. /\ c \in SetupOps /\ c.mode = native.mode /\ c.pc = native.pc /\ c.todo = t /\ c.asked = native.asked
        /\ c.before = native.before /\ c.steps = g /\ c.prompted = d
    BY <1>3, <1>4, <1>5, SetupFields DEF SetupOps
  <1> HIDE DEF c, x
  <1>7. \E j \in DOMAIN native.asked : x = native.asked[j]
    BY <1>3 DEF SetupGood
  <1>8. d # {} => native.mode = "apply"
    BY <1>5 DEF SetupGood
  <1>9. d \subseteq {native.asked[i] : i \in DOMAIN native.asked}
    BY <1>5, <1>7 DEF SetupGood
  <1>10. \A i \in DOMAIN t : \E j \in DOMAIN native.asked : t[i] = native.asked[j]
    BY <1>3 DEF SetupGood
  <1>11. ASSUME NEW j \in DOMAIN native.asked
         PROVE  native.asked[j] \in DOMAIN g \/ \E i \in DOMAIN t : t[i] = native.asked[j]
    <2>1. CASE native.asked[j] \in DOMAIN native.steps
      BY <1>4, <2>1
    <2>2. CASE \E i \in DOMAIN native.todo : native.todo[i] = native.asked[j]
      <3>1. PICK i \in DOMAIN native.todo : native.todo[i] = native.asked[j]
        BY <2>2
      <3>2. CASE i = 1
        BY <1>3, <1>4, <3>1, <3>2
      <3>3. CASE i # 1
        BY <1>3, <3>1, <3>3
      <3> QED  BY <3>2, <3>3
    <2> QED  BY <2>1, <2>2 DEF SetupGood
  <1>12. \A y \in DOMAIN g : g[y] = "granted" => y \in seen'
    BY <1>4 DEF SetupGood, x
  <1>13. \A y \in Services : native.before[y] = "granted" => y \in seen'
    BY DEF SetupGood
  <1> QED  BY <1>1, <1>6, <1>8, <1>9, <1>10, <1>11, <1>12, <1>13 DEF SetupGood

\* A setup goes on while the host stays as it is.
LEMMA SetupGoesOn ==
  ASSUME SurfaceInd, native # AtRest, native' \in SetupOps, SetupGood(native)', changes' \in Nat, changes' <= MaxChanges,
         UNCHANGED <<host, reply, catalog, seen>>
  PROVE  SurfaceInd'
  <1>1. native' \notin ActOps /\ native' \notin ListOps
    BY ActFields, SetupFields, ListFields
  <1>2. focused' \in Paths \cup {"elsewhere"}
    BY DEF SurfaceInd, SurfaceTypes, host
  <1> QED  BY <1>1, <1>2, GoesOn DEF WorkingOf, host

\* A setup that fails.
LEMMA SetupFails ==
  ASSUME SurfaceInd, NEW o, o.kind = "setup", NEW why, Answer([kind |-> "failed", op |-> o, why |-> why]),
         o.prompted # {} => allowed /\ o.mode = "apply",
         o.prompted \subseteq {o.asked[i] : i \in DOMAIN o.asked},
         UNCHANGED <<host, catalog, seen>>, changes' \in Nat, changes' <= MaxChanges
  PROVE  SurfaceInd'
  <1> DEFINE r == [kind |-> "failed", op |-> o, why |-> why]
  <1>1. native' = AtRest /\ reply' = r
    BY DEF Answer
  <1>2. r.kind = "failed" /\ r.op = o
    OBVIOUS
  <1> HIDE DEF r
  <1>3. SetupHonest'
    BY <1>1, <1>2 DEF SetupHonest, host
  <1>4. TakeoverGranted' /\ CatalogKept' /\ FocusHonest' /\ AvailableHolds'
    BY <1>1, <1>2 DEF TakeoverGranted, CatalogKept, FocusHonest, AvailableHolds
  <1>5. CatalogTrue'
    BY CatalogKeeps DEF SurfaceInd, host
  <1> QED  BY <1>1, <1>3, <1>4, <1>5, Stops DEF Answered

LEMMA SetupKeeps ==
  ASSUME SurfaceInd, SetupGrant \/ SetupBefore \/ SetupKnown \/ request_service \/ RequestFails \/ SetupAfter
  PROVE  SurfaceInd'
  <1>1. SurfaceTypes /\ Working /\ CatalogTrue /\ Answered /\ AvailableHolds /\ native.kind = "setup"
    BY DEF SurfaceInd, SetupGrant, SetupBefore, SetupKnown, request_service, RequestFails, SetupAfter, InSetup
  <1>2. native \in SetupOps /\ SetupGood(native) /\ native # AtRest /\ granted \subseteq seen
    BY <1>1, KindOf DEF Working
  <1>3. changes \in Nat /\ changes <= MaxChanges /\ (BridgeFails => changes' \in Nat /\ changes' <= MaxChanges)
    BY <1>1, NativeAssumption DEF SurfaceTypes, BridgeFails
  <1>4. CASE SetupGrant
    <2>1. CASE native.mode = "apply" /\ ~ allowed
      <3>1. native.prompted = {}
        BY <1>2, <2>1, <1>4 DEF SetupGood, SetupGrant, InSetup
      <3> QED  BY <1>1, <1>2, <1>3, <1>4, <2>1, <3>1, SetupFails DEF SetupGrant, Refused
    <2>2. CASE ~ (native.mode = "apply" /\ ~ allowed)
      <3> DEFINE c == [native EXCEPT !.pc = "before"]
      <3>1. native' = c /\ UNCHANGED <<host, reply, catalog, seen, changes>> /\ native.pc = "grant"
        BY <1>4, <2>2 DEF SetupGrant, InSetup
      <3>2. /\ c \in SetupOps /\ c.mode = native.mode /\ c.pc = "before" /\ c.todo = native.todo /\ c.asked = native.asked
            /\ c.before = native.before /\ c.steps = native.steps /\ c.prompted = native.prompted
        BY <1>2, SetupFields DEF SetupOps
      <3> HIDE DEF c
      <3>3. SetupGood(native)'
        BY <1>2, <2>2, <3>1, <3>2 DEF SetupGood, host
      <3> QED  BY <1>2, <1>3, <3>1, <3>2, <3>3, SetupGoesOn
    <2> QED  BY <2>1, <2>2
  <1>5. CASE SetupBefore
    <2>1. native.pc = "before" /\ UNCHANGED <<host, reply, catalog, seen>> /\ changes' \in Nat /\ changes' <= MaxChanges
      BY <1>3, <1>5 DEF SetupBefore, InSetup
    <2>2. PICK b \in {read_status, native.before} : native' = [native EXCEPT !.pc = "step", !.before = b]
      <3>1. [native EXCEPT !.pc = "step"] = [native EXCEPT !.pc = "step", !.before = native.before]
        BY <1>2 DEF SetupOps
      <3> QED  BY <1>5, <3>1 DEF SetupBefore
    <2>3. b \in [Services -> States] /\ \A x \in Services : b[x] = "granted" => x \in seen
      BY <1>2, StatusType, SetupFields DEF SetupGood
    <2> DEFINE c == [native EXCEPT !.pc = "step", !.before = b]
    <2>4. /\ c \in SetupOps /\ c.mode = native.mode /\ c.pc = "step" /\ c.todo = native.todo /\ c.asked = native.asked
          /\ c.before = b /\ c.steps = native.steps /\ c.prompted = native.prompted
      BY <1>2, <2>3, SetupFields DEF SetupOps
    <2>5. native' = c
      BY <2>2
    <2> HIDE DEF c
    <2>6. SetupGood(native)'
      BY <1>2, <2>1, <2>3, <2>4, <2>5 DEF SetupGood, host
    <2> QED  BY <1>2, <2>1, <2>4, <2>5, <2>6, SetupGoesOn
  <1>6. CASE SetupKnown
    <2> DEFINE x == Head(native.todo)
    <2>1. native.pc = "step" /\ native.todo # <<>> /\ StepDone(x, native.before[x], {})
          /\ UNCHANGED <<host, reply, catalog, seen, changes>>
      BY <1>6 DEF SetupKnown, InSetup
    <2>2. x \in Services
      BY <1>2, <2>1, SetupFields
    <2>3. native.before[x] \in States /\ (native.before[x] = "granted" => x \in seen)
      BY <1>2, <2>2, SetupFields DEF SetupGood
    <2>4. native' \in SetupOps /\ SetupGood(native)'
      BY <1>2, <2>1, <2>3, StepKeepsSetup DEF host
    <2> QED  BY <1>2, <1>3, <2>1, <2>4, SetupGoesOn
  <1>7. CASE request_service
    <2> DEFINE x == Head(native.todo)
    <2>1. PICK state \in {"granted", "missing", "unsupported", "unknown"} :
            (state = "granted" => x \in granted') /\ StepDone(x, state, {x})
      BY <1>7 DEF request_service
    <2>2. /\ native.pc = "step" /\ native.todo # <<>> /\ native.mode = "apply" /\ granted' \in {granted, granted \cup {x}}
          /\ seen' = seen \cup granted' /\ catalog' = IF granted' = granted THEN catalog ELSE NoCatalog
          /\ UNCHANGED <<allowed, running, managed, role, focused, reply, changes>>
      BY <1>7 DEF request_service, InSetup
    <2>3. x \in Services
      BY <1>2, <2>2, SetupFields
    <2>4. granted' \subseteq Services /\ granted' \subseteq seen' /\ seen \subseteq seen' /\ seen' \subseteq Services
      BY <1>1, <2>2, <2>3 DEF SurfaceTypes
    <2>5. native' \in SetupOps /\ SetupGood(native)'
      BY <1>2, <2>1, <2>2, <2>4, StepKeepsSetup DEF States
    <2>6. native' \notin ActOps /\ native' \notin ListOps
      BY <2>5, ActFields, SetupFields, ListFields
    <2>7. SurfaceTypes'
      BY <1>1, <2>2, <2>4, <2>5 DEF SurfaceTypes
    <2>8. Working'
      BY <2>4, <2>5, <2>6 DEF Working
    <2>9. CatalogTrue' /\ Answered' /\ AvailableHolds'
      BY <1>1, <2>2, <2>4, CatalogKeeps, AnswerKept
    <2> QED  BY <2>7, <2>8, <2>9 DEF SurfaceInd
  <1>8. CASE RequestFails
    <2> DEFINE x == Head(native.todo)
               d == native.prompted \cup {x}
               c == [native EXCEPT !.prompted = d]
    <2>1. /\ native.pc = "step" /\ native.todo # <<>> /\ native.mode = "apply" /\ BridgeFails
          /\ Answer([kind |-> "failed", op |-> c, why |-> "bridge"]) /\ UNCHANGED <<host, catalog, seen>>
      BY <1>8 DEF RequestFails, InSetup
    <2>2. x = native.todo[1] /\ 1 \in DOMAIN native.todo
      BY <1>2, <2>1, SetupFields
    <2>3. d \subseteq {native.asked[i] : i \in DOMAIN native.asked} /\ allowed
      BY <1>2, <2>1, <2>2 DEF SetupGood
    <2> HIDE DEF d
    <2>4. c.kind = "setup" /\ c.mode = "apply" /\ c.asked = native.asked /\ c.prompted = d
      BY <1>2, <2>1, SetupFields DEF SetupOps
    <2> HIDE DEF c
    <2> QED  BY <1>3, <2>1, <2>3, <2>4, SetupFails
  <1>9. CASE SetupAfter
    <2>1. PICK status \in {read_status, Unavailable} :
            /\ IF status = Unavailable THEN BridgeFails ELSE UNCHANGED changes
            /\ LET after == apply_setup_steps(status, native.steps)
               IN  Answer([kind |-> "set_up", op |-> native, after |-> after, recommended |-> recommended_services(after),
                           changed |-> {s \in Services : native.before[s] # after[s]}])
      BY <1>9 DEF SetupAfter
    <2> DEFINE after == apply_setup_steps(status, native.steps)
               r == [kind |-> "set_up", op |-> native, after |-> after, recommended |-> recommended_services(after),
                     changed |-> {s \in Services : native.before[s] # after[s]}]
    <2>2. native' = AtRest /\ reply' = r /\ changes' \in Nat /\ changes' <= MaxChanges
      BY <1>3, <2>1 DEF Answer
    <2>3. native.todo = <<>> /\ native.pc = "step" /\ UNCHANGED <<host, catalog, seen>>
      BY <1>9 DEF SetupAfter, InSetup
    <2>4. r.kind = "set_up" /\ r.op = native /\ r.after = after /\ r.recommended = recommended_services(after)
      OBVIOUS
    <2>5. \A x \in Services : after[x] = IF x \in DOMAIN native.steps THEN native.steps[x] ELSE status[x]
      BY DEF apply_setup_steps
    <2>6. \A i \in DOMAIN native.asked : native.asked[i] \in Services /\ native.asked[i] \in DOMAIN native.steps
      BY <1>2, <2>3, SetupFields DEF SetupGood
    <2>7. \A x \in Services : status[x] = "granted" => x \in seen
      BY <1>2, StatusType
    <2>8. \A x \in Services : after[x] = "granted" => x \in seen /\ x \notin recommended_services(after)
      BY <1>2, <2>5, <2>7 DEF SetupGood, recommended_services
    <2> HIDE DEF after, r
    <2>9. SetupHonest'
      <3>1. r.op.prompted # {} => allowed /\ r.op.mode = "apply"
        BY <1>2, <2>3, <2>4 DEF SetupGood
      <3>2. r.op.prompted \subseteq {r.op.asked[i] : i \in DOMAIN r.op.asked}
        BY <1>2, <2>4 DEF SetupGood
      <3>3. \A i \in DOMAIN r.op.asked : /\ r.after[r.op.asked[i]] = r.op.steps[r.op.asked[i]]
                                         /\ r.after[r.op.asked[i]] = "granted" => r.op.asked[i] \notin r.recommended
        BY <2>4, <2>5, <2>6, <2>8
      <3>4. \A x \in Services : r.after[x] = "granted" => x \in seen
        BY <2>4, <2>8
      <3> QED  BY <2>2, <2>3, <2>4, <3>1, <3>2, <3>3, <3>4 DEF SetupHonest, host
    <2>10. TakeoverGranted' /\ CatalogKept' /\ FocusHonest' /\ AvailableHolds'
      BY <2>2, <2>4 DEF TakeoverGranted, CatalogKept, FocusHonest, AvailableHolds
    <2>11. CatalogTrue'
      BY <1>1, <2>3, CatalogKeeps DEF host
    <2> QED  BY <2>2, <2>3, <2>9, <2>10, <2>11, Stops DEF Answered
  <1> QED  BY <1>4, <1>5, <1>6, <1>7, <1>8, <1>9

-----------------------------------------------------------------------------
(* browser_surface_list_actions, the user, and every step.                 *)

\* Only what the accessibility permission opens is ever listed as available.
LEMMA AvailableNeeds ==
  ASSUME NEW status \in {read_status, Unavailable}, NEW action, Available(action, status)
  PROVE  "accessibility" \in granted
  <1>1. \A x \in Services : status[x] = "granted" => x \in granted /\ x \notin Events
    BY DEF read_status, Unavailable
  <1>2. PICK i \in DOMAIN surface_action_paths(action) : ChannelReady(status, surface_action_paths(action)[i].channel)
    BY DEF Available
  <1>3. surface_action_paths(action)[i].channel # "cdp"
    <2> USE DEF surface_action_paths, Path
    <2>1. CASE action \in {"press", "focus", "set_value"}
      BY <1>2, <2>1
    <2>2. CASE action = "confirm"
      BY <1>2, <2>2
    <2>3. CASE action = "key_sequence"
      BY <1>2, <2>3
    <2>4. CASE action = "raise"
      BY <1>2, <2>4
    <2>5. CASE action \notin {"press", "focus", "set_value", "confirm", "key_sequence", "raise"}
      BY <1>2, <2>5
    <2> QED  BY <2>1, <2>2, <2>3, <2>4, <2>5
  <1>4. surface_action_paths(action)[i].channel \in Channels
    <2> USE DEF surface_action_paths, Path, Channels
    <2>1. CASE action \in {"press", "focus", "set_value"}
      BY <1>2, <2>1
    <2>2. CASE action = "confirm"
      BY <1>2, <2>2
    <2>3. CASE action = "key_sequence"
      BY <1>2, <2>3
    <2>4. CASE action = "raise"
      BY <1>2, <2>4
    <2>5. CASE action \notin {"press", "focus", "set_value", "confirm", "key_sequence", "raise"}
      BY <1>2, <2>5
    <2> QED  BY <2>1, <2>2, <2>3, <2>4, <2>5
  <1>5. "accessibility" \in Services /\ Events \subseteq Services
    BY DEF Services
  <1>6. ~ automation_granted(status)
    BY <1>1, <1>5 DEF automation_granted
  <1> QED  BY <1>1, <1>2, <1>3, <1>4, <1>5, <1>6 DEF ChannelReady, Channels

LEMMA ListKeeps ==
  ASSUME SurfaceInd, ListCollect \/ ListStatus
  PROVE  SurfaceInd'
  <1>1. SurfaceTypes /\ Working /\ CatalogTrue /\ Answered /\ AvailableHolds /\ native.kind = "list"
    BY DEF SurfaceInd, ListCollect, ListStatus
  <1>2. native \in ListOps /\ ListGood(native) /\ native # AtRest /\ native \notin ActOps
    BY <1>1, KindOf, ActFields DEF Working
  <1>3. CASE ListCollect
    <2>1. UNCHANGED <<host, catalog, seen, changes>>
      BY <1>3 DEF ListCollect
    <2>2. CASE \E why \in {"access", "surface", Cannot} : Refused(why)
      BY <1>2, <2>1, <2>2, RefusedKeeps
    <2>3. CASE ~ \E why \in {"access", "surface", Cannot} : Refused(why)
      <3> DEFINE r == IF running THEN role[native.path] ELSE "hidden"
                 c == [native EXCEPT !.pc = "status", !.role = r]
      <3>1. Cannot = "no" /\ native.path \in Found /\ native' = c /\ reply' = reply
        BY <1>3, <2>3 DEF ListCollect
      <3>2. r \in Roles
        BY <1>1, <1>2, ListFields DEF SurfaceTypes, Roles
      <3> HIDE DEF r
      <3>3. c \in ListOps /\ c.path = native.path
        BY <1>2, <3>2, ListFields DEF ListOps
      <3> HIDE DEF c
      <3>4. (running \/ managed) /\ native.path \in Found
        BY <1>1, <3>1 DEF Cannot, SurfaceTypes
      <3>5. ListGood(native)'
        BY <2>1, <3>1, <3>3, <3>4 DEF ListGood, Found, host
      <3>6. native' \notin ActOps /\ native' \notin SetupOps
        BY <3>1, <3>3, ActFields, SetupFields, ListFields
      <3> QED  BY <1>1, <1>2, <2>1, <3>1, <3>3, <3>5, <3>6, GoesOn DEF WorkingOf, SurfaceTypes, host
    <2> QED  BY <2>2, <2>3
  <1>4. CASE ListStatus
    <2>1. PICK status \in {read_status, Unavailable} :
            /\ IF status = Unavailable THEN BridgeFails ELSE UNCHANGED changes
            /\ catalog' = surface_action_contracts(status)
      BY <1>4 DEF ListStatus
    <2>2. native.pc = "status" /\ native' = AtRest /\ reply' = [kind |-> "listed"] /\ UNCHANGED <<host, seen>>
      BY <1>4 DEF ListStatus, Answer
    <2>3. changes' \in Nat /\ changes' <= MaxChanges
      BY <1>1, <2>1, NativeAssumption DEF SurfaceTypes, BridgeFails
    <2>4. /\ catalog'.fresh = ~ native.moved /\ catalog'.path = native.path
          /\ \A a \in catalog'.available : Available(a, status)
      BY <2>1 DEF surface_action_contracts
    <2>5. CatalogTrue'
      <3>1. ASSUME catalog'.fresh, catalog'.available # {}
            PROVE  Cannot = "no" /\ catalog'.path \in Found
        <4>1. ~ native.moved
          BY <2>4, <3>1
        <4>2. (running \/ managed) /\ native.path \in Found
          BY <1>2, <2>2, <4>1 DEF ListGood
        <4>3. "accessibility" \in granted
          BY <2>4, <3>1, AvailableNeeds
        <4> QED  BY <2>4, <4>2, <4>3 DEF Cannot
      <3>2. UNCHANGED <<granted, running, managed, role>>
        BY <2>2 DEF host
      <3> QED  BY <3>1, <3>2 DEF CatalogTrue, Cannot, Found
    <2>6. Answered' /\ AvailableHolds'
      BY <2>2, PlainAnswer DEF AvailableHolds
    <2> QED  BY <2>2, <2>3, <2>5, <2>6, Stops
  <1> QED  BY <1>3, <1>4

\* An operation whose control is replaced, or whose browser starts or quits.
LEMMA MovedFacts ==
  ASSUME SurfaceTypes
  PROVE  /\ native \in SetupOps \cup {AtRest} => Moved(native) = native
         /\ native \in ListOps => /\ Moved(native) \in ListOps /\ Moved(native).moved
         /\ native \in ActOps => /\ Moved(native) \in ActOps /\ Moved(native).pc = native.pc
                                 /\ Moved(native).req = native.req /\ Moved(native).channels = native.channels
                                 /\ Moved(native).fallback = native.fallback /\ Moved(native).effects = native.effects
  <1>1. ASSUME native \in SetupOps  PROVE Moved(native) = native
    BY <1>1 DEF Moved, SetupOps
  <1>2. AtRest = Moved(AtRest)
    BY DEF Moved, AtRest
  <1>3. ASSUME native \in ListOps  PROVE Moved(native) \in ListOps /\ Moved(native).moved
    <2>1. Moved(native) = [native EXCEPT !.moved = TRUE]
      BY <1>3 DEF Moved, ListOps
    <2> QED  BY <1>3, <2>1 DEF ListOps
  <1>4. ASSUME native \in ActOps
        PROVE  /\ Moved(native) \in ActOps /\ Moved(native).pc = native.pc
               /\ Moved(native).req = native.req /\ Moved(native).channels = native.channels
               /\ Moved(native).fallback = native.fallback /\ Moved(native).effects = native.effects
    <2>1. Moved(native) = [native EXCEPT !.moved = TRUE]
      BY <1>4 DEF Moved, ActOps
    <2> QED  BY <1>4, <2>1 DEF ActOps
  <1> QED  BY <1>1, <1>2, <1>3, <1>4

LEMMA UserKeeps ==
  ASSUME SurfaceInd, User
  PROVE  SurfaceInd'
  <1>1. SurfaceTypes /\ Working /\ CatalogTrue /\ Answered /\ AvailableHolds
    BY DEF SurfaceInd
  <1>2. changes' \in Nat /\ changes' <= MaxChanges /\ UNCHANGED <<allowed, managed, reply>>
    BY <1>1, NativeAssumption DEF User, Toggle, Replace, MoveFocus, StartOrQuit, Change, SurfaceTypes
  <1>3. ASSUME NEW x \in Services, Toggle(x)  PROVE SurfaceInd'
    <2>1. /\ granted' \subseteq Services /\ seen' \subseteq Services /\ seen \subseteq seen' /\ catalog' = NoCatalog
          /\ (native # AtRest => granted' \subseteq seen') /\ UNCHANGED <<running, role, focused, native>>
      BY <1>1, <1>3 DEF Toggle, SurfaceTypes
    <2>2. SurfaceTypes'
      BY <1>1, <1>2, <2>1 DEF SurfaceTypes
    <2>3. Working'
      <3>1. native \in ActOps => ActGood(native)'
        BY <1>1, <1>2, <2>1 DEF Working, ActGood, Tried, Activated, Preferred
      <3>2. native \in SetupOps => SetupGood(native)'
        BY <1>1, <1>2, <2>1 DEF Working, SetupGood
      <3>3. native \in ListOps => ListGood(native)'
        BY <1>1, <1>2, <2>1 DEF Working, ListGood, Found
      <3> QED  BY <2>1, <3>1, <3>2, <3>3 DEF Working
    <2>4. CatalogTrue' /\ Answered' /\ AvailableHolds'
      BY <1>1, <1>2, <2>1, CatalogKeeps, AnswerKept
    <2> QED  BY <2>2, <2>3, <2>4 DEF SurfaceInd
  <1>4. ASSUME native' \in {native, Moved(native)},
               native \in ListOps => native' = Moved(native) \/ (running' = running /\ (role'[native.path] # "none" <=> role[native.path] # "none")),
               UNCHANGED <<granted, seen>>, catalog' = NoCatalog,
               role' \in [Paths -> Roles], running' \in BOOLEAN, focused' \in Paths \cup {"elsewhere"}
        PROVE  SurfaceInd'
    <2>1. native' \in {AtRest} \cup SetupOps \cup ListOps \cup ActOps /\ (native' # AtRest => native # AtRest)
      BY <1>1, <1>4, MovedFacts DEF SurfaceTypes
    <2>2. SurfaceTypes'
      BY <1>1, <1>2, <1>4, <2>1 DEF SurfaceTypes
    <2>3. Working'
      <3>1. CASE native = AtRest
        BY <1>1, <1>4, <3>1, MovedFacts, KindOf DEF Working
      <3>2. CASE native \in SetupOps
        <4>1. native' = native /\ native \notin ActOps /\ native \notin ListOps
          BY <1>1, <1>4, <3>2, MovedFacts, ActFields, SetupFields, ListFields
        <4>2. SetupGood(native)'
          BY <1>1, <1>2, <1>4, <3>2, <4>1 DEF Working, SetupGood
        <4> QED  BY <1>1, <1>4, <4>1, <4>2 DEF Working
      <3>3. CASE native \in ActOps
        <4>1. /\ native' \in ActOps /\ native'.pc = native.pc /\ native'.req = native.req
              /\ native'.channels = native.channels /\ native'.fallback = native.fallback
              /\ native'.effects = native.effects
          BY <1>1, <1>4, <3>3, MovedFacts
        <4>2. native' \notin SetupOps /\ native' \notin ListOps
          BY <4>1, ActFields, SetupFields, ListFields
        <4>3. Preferred(native)' = Preferred(native)
          BY <4>1 DEF Preferred
        <4>4. ActGood(native)'
          BY <1>1, <1>2, <3>3, <4>1, <4>3 DEF Working, ActGood, Tried, Activated
        <4> QED  BY <1>1, <1>4, <2>1, <4>1, <4>2, <4>4 DEF Working
      <3>4. CASE native \in ListOps
        <4>1. native' \in ListOps /\ native' \notin SetupOps /\ native' \notin ActOps
          BY <1>1, <1>4, <3>4, MovedFacts, ActFields, SetupFields, ListFields
        <4>2. CASE native' = Moved(native)
          <5>1. native'.moved
            BY <1>1, <3>4, <4>2, MovedFacts
          <5> QED  BY <1>1, <1>4, <2>1, <4>1, <5>1 DEF Working, ListGood
        <4>3. CASE native' = native /\ native' # Moved(native)
          <5>1. ListGood(native)'
            BY <1>1, <1>2, <1>4, <3>4, <4>3 DEF Working, ListGood, Found
          <5> QED  BY <1>1, <1>4, <2>1, <4>1, <5>1 DEF Working
        <4> QED  BY <1>4, <4>2, <4>3
      <3> QED  BY <1>1, <3>1, <3>2, <3>3, <3>4 DEF SurfaceTypes
    <2>4. CatalogTrue' /\ Answered' /\ AvailableHolds'
      BY <1>1, <1>2, <1>4, CatalogKeeps, AnswerKept
    <2> QED  BY <2>2, <2>3, <2>4 DEF SurfaceInd
  <1>5. ASSUME NEW r \in Roles, Replace(r)  PROVE SurfaceInd'
    <2>1. /\ native' = (IF OnControl(native) THEN Moved(native) ELSE native) /\ catalog' = NoCatalog
          /\ role' = [role EXCEPT !["control"] = r] /\ UNCHANGED <<granted, running, seen>>
          /\ focused' \in {focused, "elsewhere"}
      BY <1>5 DEF Replace
    <2>2. role' \in [Paths -> Roles] /\ role'["root"] = role["root"]
      BY <1>1, <2>1 DEF SurfaceTypes, Paths
    <2>3. native \in ListOps => native' = Moved(native) \/ native.path = "root"
      BY <2>1, ListFields DEF OnControl, Paths
    <2> QED  BY <1>1, <1>4, <2>1, <2>2, <2>3 DEF SurfaceTypes
  <1>6. ASSUME StartOrQuit  PROVE SurfaceInd'
    <2>1. /\ running' \in BOOLEAN /\ focused' = "elsewhere" /\ native' = Moved(native) /\ catalog' = NoCatalog
          /\ UNCHANGED <<granted, role, seen>>
      BY <1>6 DEF StartOrQuit
    <2> QED  BY <1>1, <1>4, <2>1 DEF SurfaceTypes
  <1>7. ASSUME NEW f \in {"control", "root", "elsewhere"}, MoveFocus(f)  PROVE SurfaceInd'
    <2>1. focused' = f /\ UNCHANGED <<granted, running, role, native, catalog, seen>>
      BY <1>7 DEF MoveFocus
    <2>2. SurfaceTypes'
      BY <1>1, <1>2, <2>1 DEF SurfaceTypes, Paths
    <2>3. Working'
      <3>1. native \in ActOps => ActGood(native)'
        BY <1>1, <1>2, <2>1 DEF Working, ActGood, Tried, Activated, Preferred
      <3>2. native \in SetupOps => SetupGood(native)'
        BY <1>1, <1>2, <2>1 DEF Working, SetupGood
      <3>3. native \in ListOps => ListGood(native)'
        BY <1>1, <1>2, <2>1 DEF Working, ListGood, Found
      <3> QED  BY <1>1, <2>1, <3>1, <3>2, <3>3 DEF Working
    <2>4. CatalogTrue' /\ Answered' /\ AvailableHolds'
      BY <1>1, <1>2, <2>1, CatalogKeeps, AnswerKept
    <2> QED  BY <2>2, <2>3, <2>4 DEF SurfaceInd
  <1> QED  BY <1>3, <1>5, <1>6, <1>7 DEF User

\* An operation begins with what is granted then.
LEMMA OperationBegins ==
  ASSUME SurfaceInd, NativeOperations
  PROVE  SurfaceInd'
  <1>1. SurfaceTypes /\ CatalogTrue /\ reply = NoReply
    BY DEF SurfaceInd, NativeOperations
  <1>2. BeginNative
    BY DEF NativeOperations, host_access_setup, browser_surface_list_actions, browser_surface_action
  <1>3. seen' = granted /\ UNCHANGED <<host, reply, catalog, changes>>
    BY <1>2 DEF BeginNative
  <1>4. ASSUME native' \in SetupOps \cup ListOps \cup ActOps, WorkingOf(native)'  PROVE SurfaceInd'
    <2>1. SurfaceTypes'
      BY <1>1, <1>3, <1>4 DEF SurfaceTypes, host
    <2>2. Working'
      BY <1>3, <1>4 DEF Working, WorkingOf, host
    <2>3. CatalogTrue'
      BY <1>1, <1>3, CatalogKeeps DEF host
    <2>4. reply'.kind = "none"
      BY <1>1, <1>3 DEF NoReply
    <2>5. Answered' /\ AvailableHolds'
      BY <2>4, PlainAnswer DEF AvailableHolds
    <2> QED  BY <2>1, <2>2, <2>3, <2>5 DEF SurfaceInd
  <1>5. ASSUME NEW mode \in {"audit", "apply"}, NEW asked \in AskedLists, host_access_setup(mode, asked)
        PROVE  SurfaceInd'
    <2> DEFINE e == [s \in {} |-> "unknown"]
               c == [kind |-> "setup", mode |-> mode, pc |-> "grant", todo |-> asked, asked |-> asked,
                     before |-> Unavailable, steps |-> e, prompted |-> {}]
    <2>1. native' = c
      BY <1>5 DEF host_access_setup
    <2>2. asked \in Seq(Services) /\ Unavailable \in [Services -> States] /\ \A x \in Services : Unavailable[x] # "granted"
      BY NativeAssumption, StatusType
    <2>3. e \in StepMaps /\ DOMAIN e = {}
      <3>1. e \in [{} -> States] /\ {} \in SUBSET Services
        OBVIOUS
      <3> QED  BY <3>1 DEF StepMaps
    <2> HIDE DEF e
    <2>4. /\ c \in SetupOps /\ c.pc = "grant" /\ c.todo = asked /\ c.asked = asked /\ c.before = Unavailable
          /\ c.steps = e /\ c.prompted = {}
      BY <2>2, <2>3 DEF SetupOps
    <2> HIDE DEF c
    <2>5. SetupGood(native)'
      BY <2>1, <2>2, <2>3, <2>4 DEF SetupGood
    <2>6. native' \notin ActOps /\ native' \notin ListOps
      BY <2>1, <2>4, ActFields, SetupFields, ListFields
    <2> QED  BY <1>4, <2>1, <2>4, <2>5, <2>6 DEF WorkingOf
  <1>6. ASSUME NEW path \in Paths, browser_surface_list_actions(path)  PROVE SurfaceInd'
    <2> DEFINE c == [kind |-> "list", pc |-> "collect", path |-> path, role |-> "none", moved |-> FALSE]
    <2>1. native' = c /\ c \in ListOps /\ c.pc = "collect"
      BY <1>6 DEF browser_surface_list_actions, ListOps, Roles
    <2> HIDE DEF c
    <2>2. ListGood(native)' /\ native' \notin ActOps /\ native' \notin SetupOps
      BY <2>1, ActFields, SetupFields, ListFields DEF ListGood
    <2> QED  BY <1>4, <2>1, <2>2 DEF WorkingOf
  <1>7. ASSUME NEW r \in Requests, browser_surface_action(r)  PROVE SurfaceInd'
    <2> DEFINE c == [kind |-> "act", pc |-> "grant", req |-> r, channels |-> <<>>, fallback |-> 0,
                     effects |-> {}, moved |-> FALSE]
    <2>1. native' = c
      BY <1>7 DEF browser_surface_action
    <2>2. <<>> \in Seq(Channels) /\ {} \in SUBSET {"activated"}
      OBVIOUS
    <2>3. c \in ActOps /\ c.pc = "grant" /\ c.channels = <<>> /\ c.fallback = 0 /\ c.effects = {}
      BY <2>2 DEF ActOps
    <2> HIDE DEF c
    <2>4. ActGood(native)' /\ native' \notin ListOps /\ native' \notin SetupOps
      BY <2>1, <2>3, ActFields, SetupFields, ListFields DEF ActGood
    <2> QED  BY <1>4, <2>1, <2>3, <2>4 DEF WorkingOf
  <1> QED  BY <1>5, <1>6, <1>7 DEF NativeOperations

LEMMA AnswerReadKeeps ==
  ASSUME SurfaceInd, AnswerRead
  PROVE  SurfaceInd'
  <1>1. SurfaceTypes /\ Working /\ CatalogTrue /\ native = AtRest
    BY DEF SurfaceInd, AnswerRead
  <1>2. reply' = NoReply /\ seen' = {} /\ UNCHANGED <<host, native, catalog, changes>>
    BY DEF AnswerRead
  <1>3. SurfaceTypes'
    BY <1>1, <1>2 DEF SurfaceTypes, host
  <1>4. Working'
    BY <1>1, <1>2, KindOf DEF Working
  <1>5. CatalogTrue'
    BY <1>1, <1>2, CatalogKeeps DEF host
  <1>6. reply'.kind = "none"
    BY <1>2 DEF NoReply
  <1>7. Answered' /\ AvailableHolds'
    BY <1>6, PlainAnswer DEF AvailableHolds
  <1> QED  BY <1>3, <1>4, <1>5, <1>7 DEF SurfaceInd

LEMMA SurfaceInitial ==
  ASSUME SurfaceInit  PROVE SurfaceInd
  <1>1. /\ granted \subseteq Services /\ allowed \in BOOLEAN /\ managed \in BOOLEAN /\ running \in BOOLEAN
        /\ role \in [Paths -> Roles] /\ focused \in Paths \cup {"elsewhere"} /\ native = AtRest
        /\ reply.kind = "none" /\ ~ catalog.fresh /\ seen = {} /\ changes = 0
    <2>1. PICK r \in InitialRoles : role = [p \in Paths |-> IF p = "root" THEN "app" ELSE r]
      BY DEF SurfaceInit
    <2>2. role \in [Paths -> Roles]
      BY <2>1, NativeAssumption DEF Roles
    <2> QED  BY <2>2, NativeAssumption DEF SurfaceInit, NoReply, NoCatalog
  <1>2. SurfaceTypes
    BY <1>1, NativeAssumption DEF SurfaceTypes
  <1>3. Working
    BY <1>1, <1>2, KindOf DEF Working
  <1>4. CatalogTrue /\ AvailableHolds
    BY <1>1 DEF CatalogTrue, AvailableHolds
  <1>5. Answered
    BY <1>1 DEF Answered, TakeoverGranted, CatalogKept, FocusHonest, SetupHonest
  <1> QED  BY <1>2, <1>3, <1>4, <1>5 DEF SurfaceInd

LEMMA SurfaceStutters ==
  ASSUME SurfaceInd, UNCHANGED surfaces
  PROVE  SurfaceInd'
  <1>1. SurfaceTypes /\ Working /\ CatalogTrue /\ Answered /\ AvailableHolds
    BY DEF SurfaceInd
  <1>2. UNCHANGED <<granted, allowed, running, managed, role, focused, native, reply, catalog, seen, changes>>
    BY DEF surfaces
  <1>3. SurfaceTypes'
    BY <1>1, <1>2 DEF SurfaceTypes
  <1>4. Working'
    <2>1. native \in ActOps => ActGood(native)'
      BY <1>1, <1>2 DEF Working, ActGood, Tried, Activated, Preferred
    <2>2. native \in SetupOps => SetupGood(native)'
      BY <1>1, <1>2 DEF Working, SetupGood
    <2>3. native \in ListOps => ListGood(native)'
      BY <1>1, <1>2 DEF Working, ListGood, Found
    <2> QED  BY <1>1, <1>2, <2>1, <2>2, <2>3 DEF Working
  <1>5. CatalogTrue' /\ Answered' /\ AvailableHolds'
    BY <1>1, <1>2, CatalogKeeps, AnswerKept
  <1> QED  BY <1>3, <1>4, <1>5 DEF SurfaceInd

LEMMA SurfaceInvariant == EvidenceSpec => []SurfaceInd
  <1>1. EvidenceInit => SurfaceInd
    BY SurfaceInitial DEF EvidenceInit
  <1>2. SurfaceInd /\ [EvidenceNext]_<<part, vars, surfaces>> => SurfaceInd'
    <2>1. SurfaceInd /\ SurfaceNext => SurfaceInd'
      BY OperationBegins, AnswerReadKeeps, UserKeeps, SetupKeeps, ListKeeps, ActStarts, ActTries
         DEF SurfaceNext, NativeSteps
    <2> QED  BY <2>1, SurfaceStutters DEF EvidenceNext
  <1> QED  BY <1>1, <1>2, PTL DEF EvidenceSpec

\* An action is done by the path that the catalogue lists, with the interference listed
\* there, and keys go to whoever has the keyboard only when the policy allows it
\* (preferred_channels and browser_surface_action against surface_action_paths).
THEOREM ActionsStayListed == EvidenceSpec => []ActionsKept
  BY SurfaceInvariant, SurfaceIndImplies, PTL

\* What is listed as available, with nothing changed since, does not fail for a permission
\* or a surface that is not found (surface_action_contracts).
THEOREM AvailableIsReachable == EvidenceSpec => []AvailableHolds
  BY SurfaceInvariant, SurfaceIndImplies, PTL

\* A setup reports what its steps found, asks nobody in an audit or against the policy, and
\* a focus that is reported was there (host_access_setup, surface_has_focus).
THEOREM ReportsStayHonest == EvidenceSpec => []ReportsHonest
  BY SurfaceInvariant, SurfaceIndImplies, PTL

-----------------------------------------------------------------------------
(* Grids of crops: rounding down and up against each other.                *)

\* Well-founded orders.
Order == INSTANCE WellFoundedInduction

\* A set of naturals has a least element.
LEMMA LeastOf ==
  ASSUME NEW T \in SUBSET Nat, T # {}
  PROVE  \E x \in T : \A y \in T : x <= y
  <1>1. Order!IsWellFoundedOn(Order!OpToRel(<, Nat), Nat)
    BY Order!NatLessThanWellFounded
  <1>2. PICK x \in T : \A y \in T : ~ (<<y, x>> \in Order!OpToRel(<, Nat))
    BY <1>1, Order!WFMin
  <1>3. \A y \in T : ~ (y < x)
    BY <1>2 DEF Order!OpToRel
  <1> QED  BY <1>3

\* Products of one factor are ordered as the others are.
LEMMA ProductOrder ==
  ASSUME NEW d \in Nat \ {0}, NEW x \in Nat, NEW y \in Nat, d * x < d * y + d
  PROVE  x <= y
  <1> SUFFICES ASSUME x >= y + 1  PROVE FALSE
    OBVIOUS
  <1> DEFINE k == x - (y + 1)
  <1>1. k \in Nat /\ x = (y + 1) + k
    OBVIOUS
  <1> HIDE DEF k
  <1>2. d * x = (d * y + d) + d * k /\ d * k >= 0
    BY <1>1
  <1>3. d * y \in Nat /\ d * k \in Nat
    BY <1>1
  <1> QED  BY <1>2, <1>3

\* What rounding down leaves is less than the divisor.
LEMMA DivBounds ==
  ASSUME NEW a \in Nat, NEW d \in Nat \ {0}
  PROVE  (a \div d) \in Nat /\ d * (a \div d) <= a /\ a < d * (a \div d) + d
  OBVIOUS

\* The same of rounding up.
LEMMA CeilBounds ==
  ASSUME NEW a \in Nat, NEW d \in Nat \ {0}
  PROVE  CeilDiv(a, d) \in Nat /\ a <= d * CeilDiv(a, d) /\ d * CeilDiv(a, d) < a + d
  <1> DEFINE b == (a + d) - 1
             q == b \div d
  <1>1. b \in Nat /\ b = (a + d) - 1
    OBVIOUS
  <1>2. q \in Nat /\ d * q <= b /\ b < d * q + d
    BY <1>1, DivBounds
  <1>3. CeilDiv(a, d) = q
    BY DEF CeilDiv
  <1> HIDE DEF b, q
  <1>4. d * q \in Nat
    BY <1>2
  <1> QED  BY <1>1, <1>2, <1>3, <1>4

\* Rounding down, as an operator.
Down(a, d) == a \div d

\* Rounding up keeps the order, and what is smaller rounded down stays below what is greater
\* rounded up.
LEMMA RoundingOrder ==
  ASSUME NEW a \in Nat, NEW b \in Nat, a <= b, NEW d \in Nat \ {0}
  PROVE  /\ Down(a, d) \in Nat /\ CeilDiv(b, d) \in Nat
         /\ CeilDiv(a, d) <= CeilDiv(b, d) /\ Down(a, d) <= CeilDiv(b, d)
         /\ a = b \/ Down(a, d) < CeilDiv(b, d)
  <1> DEFINE fa == a \div d
             ca == CeilDiv(a, d)
             cb == CeilDiv(b, d)
  <1>1. fa \in Nat /\ d * fa <= a
    BY DivBounds
  <1>3. ca \in Nat /\ d * ca < a + d
    BY CeilBounds
  <1>4. cb \in Nat /\ b <= d * cb
    BY CeilBounds
  <1> HIDE DEF fa, ca, cb
  <1>5. d * fa \in Nat /\ d * ca \in Nat /\ d * cb \in Nat
    BY <1>1, <1>3, <1>4
  <1>7. ca <= cb
    <2>1. d * ca < d * cb + d
      BY <1>3, <1>4, <1>5
    <2> QED  BY <1>3, <1>4, <2>1, ProductOrder
  <1>8. fa <= cb
    <2>1. d * fa < d * cb + d
      BY <1>1, <1>4, <1>5
    <2> QED  BY <1>1, <1>4, <2>1, ProductOrder
  <1>9. ASSUME a # b  PROVE fa < cb
    <2>1. d * (fa + 1) < d * cb + d /\ fa + 1 \in Nat
      BY <1>1, <1>4, <1>5, <1>9
    <2>2. fa + 1 <= cb
      BY <1>1, <1>4, <2>1, ProductOrder
    <2> QED  BY <1>1, <1>4, <2>2
  <1> QED  BY <1>1, <1>4, <1>7, <1>8, <1>9 DEF fa, ca, cb, Down

\* Where a part begins and ends before it is widened.
Start(n, parts) == Down(n * 1000, parts)
End(n, parts) == CeilDiv((n + 1) * 1000, parts)

\* The regions in thousandths: none is empty, the first begins at zero, the last ends at
\* 999, and each begins before its predecessor ends.
LEMMA RegionBounds ==
  ASSUME NEW parts \in Nat \ {0}, parts <= 64, NEW overlap \in Nat, overlap <= 250, NEW n \in 0 .. parts - 1
  PROVE  /\ Low(n, parts, overlap) \in Nat /\ High(n, parts, overlap) \in Nat
         /\ Low(n, parts, overlap) < High(n, parts, overlap) /\ High(n, parts, overlap) <= 999
         /\ Low(n, parts, overlap) <= Start(n, parts)
         /\ (n = 0) => (Low(n, parts, overlap) = 0)
         /\ (High(n, parts, overlap) = 999) \/ (High(n, parts, overlap) >= End(n, parts))
         /\ (n = parts - 1) => (High(n, parts, overlap) = 999)
  <1> DEFINE a == n * 1000
             b == (n + 1) * 1000
             start == a \div parts
             end == CeilDiv(b, parts)
  <1>1. a \in Nat /\ b \in Nat /\ a < b /\ b = a + 1000 /\ parts \in Nat \ {0}
    OBVIOUS
  <1>2. start \in Nat /\ parts * start <= a
    <2> HIDE DEF a
    <2> QED  BY <1>1, DivBounds
  <1>3. end \in Nat /\ b <= parts * end
    BY <1>1, CeilBounds
  <1>4. start < end
    <2> HIDE DEF a, b
    <2>1. a <= b /\ a # b
      BY <1>1
    <2>2. Down(a, parts) < CeilDiv(b, parts)
      BY <1>1, <2>1, RoundingOrder
    <2> QED  BY <2>2 DEF Down
  <1>5. a <= 1000 * parts - 1000 /\ (n = 0 => a = 0) /\ (n = parts - 1 => b = 1000 * parts)
    OBVIOUS
  <1> HIDE DEF start, end, a, b
  <1>6. start <= 998
    <2>1. parts * start < parts * 998 + parts
      <3>1. parts * start \in Nat
        BY <1>1, <1>2
      <3> QED  BY <1>1, <1>2, <1>5, <3>1
    <2> QED  BY <1>1, <1>2, <2>1, ProductOrder
  <1>7. n = 0 => start = 0
    BY <1>1, <1>5 DEF start
  <1>8. n = parts - 1 => end >= 1000
    <2> SUFFICES ASSUME n = parts - 1  PROVE end >= 1000
      OBVIOUS
    <2>1. parts * 1000 < parts * end + parts
      BY <1>1, <1>3, <1>5
    <2> QED  BY <1>1, <1>3, <2>1, ProductOrder
  <1>9. Low(n, parts, overlap) = IF start < overlap THEN 0 ELSE start - overlap
    BY <1>2, <1>6 DEF Low, Clamp, start, a
  <1>10. High(n, parts, overlap) = IF end + overlap > 999 THEN 999 ELSE end + overlap
    <2>1. High(n, parts, overlap) = Clamp(end + overlap, 1, 999)
      BY DEF High, end, b
    <2>2. end + overlap >= 1
      BY <1>2, <1>3, <1>4
    <2> QED  BY <1>3, <2>1, <2>2 DEF Clamp
  <1> DEFINE low == Low(n, parts, overlap)
             high == High(n, parts, overlap)
  <1>11. low = (IF start < overlap THEN 0 ELSE start - overlap) /\ high = (IF end + overlap > 999 THEN 999 ELSE end + overlap)
    BY <1>9, <1>10
  <1> HIDE DEF low, high
  <1>12. low \in Nat /\ high \in Nat /\ low < high /\ high <= 999 /\ low <= start /\ (high = 999 \/ high >= end)
    BY <1>2, <1>3, <1>4, <1>6, <1>11
  <1>13. (n = 0 => low = 0) /\ (n = parts - 1 => high = 999)
    BY <1>2, <1>3, <1>7, <1>8, <1>11
  <1>14. start = Start(n, parts) /\ end = End(n, parts)
    BY DEF start, end, a, b, Start, End, Down
  <1> QED  BY <1>12, <1>13, <1>14 DEF low, high

\* Neighbours touch.
LEMMA Neighbours ==
  ASSUME NEW parts \in Nat \ {0}, parts <= 64, NEW overlap \in Nat, overlap <= 250, NEW n \in 1 .. parts - 1
  PROVE  Low(n, parts, overlap) <= High(n - 1, parts, overlap)
  <1> DEFINE before == n - 1
             low == Low(n, parts, overlap)
             high == High(before, parts, overlap)
             start == Start(n, parts)
             end == End(before, parts)
  <1>1. n \in 0 .. parts - 1 /\ before \in 0 .. parts - 1 /\ before + 1 = n
    OBVIOUS
  <1>2. start \in Nat /\ end \in Nat /\ start <= end
    <2> DEFINE a == n * 1000
    <2>1. a \in Nat /\ a <= a /\ parts \in Nat \ {0}
      OBVIOUS
    <2>2. start = Down(a, parts) /\ end = CeilDiv(a, parts)
      BY <1>1 DEF Start, End
    <2> HIDE DEF a, start, end
    <2> QED  BY <2>1, <2>2, RoundingOrder
  <1> HIDE DEF before
  <1>3. low \in Nat /\ low <= start /\ low <= 998
    BY <1>1, RegionBounds
  <1>4. high \in Nat /\ (high = 999 \/ high >= end)
    BY <1>1, RegionBounds
  <1> HIDE DEF low, high, start, end
  <1>5. low <= high
    BY <1>2, <1>3, <1>4
  <1> QED  BY <1>5 DEF low, high, before

\* A region's pixels.
LEMMA PixelBounds ==
  ASSUME NEW low \in Nat, NEW high \in Nat, high <= 999, NEW width \in Nat \ {0}
  PROVE  /\ scale_floor(low, width) \in Nat /\ scale_ceil(high, width) \in Nat
         /\ scale_ceil(high, width) <= scale_ceil(999, width)
         /\ low = 0 => scale_floor(low, width) = 0
         /\ low < high => scale_floor(low, width) < scale_ceil(high, width)
         /\ low <= high => scale_floor(low, width) <= scale_ceil(high, width)
  <1> DEFINE a == low * width
             b == high * width
             c == 999 * width
  <1>1. a \in Nat /\ b \in Nat /\ c \in Nat /\ b <= c
    <2>1. c = b + (999 - high) * width /\ (999 - high) * width >= 0
      OBVIOUS
    <2>2. a \in Nat /\ b \in Nat /\ c \in Nat /\ (999 - high) * width \in Nat
      OBVIOUS
    <2> QED  BY <2>1, <2>2
  <1>2. (low < high => a < b) /\ (low <= high => a <= b) /\ (low = 0 => a = 0)
    <2>1. low = 0 => a = 0
      OBVIOUS
    <2>2. ASSUME low <= high  PROVE a <= b /\ (low < high => a < b)
      <3> DEFINE e == (high - low) * width
      <3>1. e \in Nat /\ b = a + e /\ (low < high => e > 0)
        BY <2>2
      <3> HIDE DEF e, a, b
      <3> QED  BY <1>1, <3>1
    <2> QED  BY <2>1, <2>2
  <1> HIDE DEF a, b, c
  <1> DEFINE x == Down(a, 1000)
             y == CeilDiv(b, 1000)
             z == CeilDiv(c, 1000)
  <1>3. 1000 \in Nat \ {0}
    OBVIOUS
  <1>4. y \in Nat /\ y <= z
    BY <1>1, <1>3, RoundingOrder
  <1>5. x \in Nat
    BY <1>1, <1>3, DivBounds DEF Down
  <1>6. (a <= b) => (x <= y)
    BY <1>1, <1>3, RoundingOrder
  <1>7. (a < b) => (x < y)
    <2> SUFFICES ASSUME a < b  PROVE x < y
      OBVIOUS
    <2>1. a <= b /\ a # b
      BY <1>1
    <2> QED  BY <1>1, <1>3, <2>1, RoundingOrder
  <1>8. (low = 0) => (x = 0)
    BY <1>2 DEF Down
  <1>9. scale_floor(low, width) = x /\ scale_ceil(high, width) = y /\ scale_ceil(999, width) = z
    BY DEF scale_floor, scale_ceil, a, b, c, Down
  <1> HIDE DEF x, y, z
  <1> QED  BY <1>2, <1>4, <1>5, <1>6, <1>7, <1>8, <1>9

\* In a picture of less than a thousand pixels the last region ends with the last pixel.
LEMMA LastPixel ==
  ASSUME NEW width \in Nat \ {0}, width < 1000
  PROVE  scale_ceil(999, width) = width
  BY DEF scale_ceil, CeilDiv

\* Whatever grid is accepted: its regions cover the picture.
LEMMA AllCovered ==
  ASSUME NEW parts \in Nat \ {0}, parts <= 64, NEW overlap \in Nat, overlap <= 250, NEW width \in Nat \ {0}
  PROVE  Covers(parts, overlap, width)
  <1> DEFINE low(k) == Low(k, parts, overlap)
             high(k) == High(k, parts, overlap)
             from(k) == scale_floor(low(k), width)
             to(k) == scale_ceil(high(k), width)
             rim == scale_ceil(999, width)
             K == 0 .. parts - 1
  <1>1. \A k \in K : low(k) \in Nat /\ high(k) \in Nat /\ high(k) <= 999 /\ low(k) < high(k)
    BY RegionBounds
  <1>2. low(0) = 0 /\ high(parts - 1) = 999
    BY RegionBounds
  <1>3. \A k \in 1 .. parts - 1 : low(k) <= high(k - 1)
    BY Neighbours
  <1>4. \A k \in K : from(k) \in Nat /\ to(k) \in Nat /\ to(k) <= rim /\ from(k) < to(k)
    <2> SUFFICES ASSUME NEW k \in K  PROVE from(k) \in Nat /\ to(k) \in Nat /\ to(k) <= rim /\ from(k) < to(k)
      OBVIOUS
    <2>1. low(k) \in Nat /\ high(k) \in Nat /\ high(k) <= 999 /\ low(k) < high(k)
      BY <1>1
    <2> HIDE DEF low, high
    <2> QED  BY <2>1, PixelBounds
  <1>5. from(0) = 0 /\ to(parts - 1) = rim /\ rim \in Nat
    <2>1. low(0) \in Nat /\ low(0) = 0 /\ 999 \in Nat /\ 999 <= 999
      BY <1>1, <1>2
    <2>2. to(parts - 1) = rim
      BY <1>2
    <2> HIDE DEF low, high, to
    <2> QED  BY <2>1, <2>2, PixelBounds
  <1>6. \A k \in 1 .. parts - 1 : from(k) <= to(k - 1)
    <2> SUFFICES ASSUME NEW k \in 1 .. parts - 1  PROVE from(k) <= to(k - 1)
      OBVIOUS
    <2>1. low(k) \in Nat /\ high(k - 1) \in Nat /\ high(k - 1) <= 999 /\ low(k) <= high(k - 1)
      BY <1>1, <1>3
    <2> QED  BY <2>1, PixelBounds
  <1>7. \A k \in K : validate(low(k), high(k))
    BY <1>1 DEF validate
  <1>8. \A k \in K : Pixels(low(k), high(k), width) = from(k) .. to(k) - 1
    BY DEF Pixels
  <1> HIDE DEF from, to, rim
  <1>9. \A k \in K : from(k) .. to(k) - 1 # {}
    BY <1>4
  <1>10. UNION {from(k) .. to(k) - 1 : k \in K} = 0 .. rim - 1
    <2>1. ASSUME NEW k \in K, NEW x \in from(k) .. to(k) - 1  PROVE x \in 0 .. rim - 1
      BY <1>4, <1>5
    <2>2. ASSUME NEW x \in 0 .. rim - 1  PROVE \E k \in K : x \in from(k) .. to(k) - 1
      <3> DEFINE T == {k \in K : x < to(k)}
      <3>1. parts - 1 \in T /\ T \in SUBSET Nat
        BY <1>5
      <3>2. PICK k \in T : \A j \in T : k <= j
        BY <3>1, LeastOf
      <3>3. k \in K /\ x < to(k)
        BY <3>2
      <3>4. from(k) <= x
        <4>1. CASE k = 0
          BY <1>5, <4>1
        <4>2. CASE k # 0
          <5>1. k \in 1 .. parts - 1 /\ k - 1 \in K /\ ~ (k <= k - 1)
            BY <3>3, <4>2
          <5>2. ~ (x < to(k - 1))
            BY <3>2, <5>1
          <5> QED  BY <1>4, <1>5, <1>6, <3>3, <5>1, <5>2
        <4> QED  BY <4>1, <4>2
      <3>5. x \in from(k) .. to(k) - 1
        BY <1>4, <3>3, <3>4
      <3> QED  BY <3>3, <3>5
    <2> QED  BY <2>1, <2>2
  <1>11. width < 1000 => rim = width
    BY LastPixel DEF rim
  <1>12. \A k \in K : Pixels(low(k), high(k), width) # {}
    BY <1>8, <1>9
  <1>13. UNION {Pixels(low(k), high(k), width) : k \in K} = 0 .. rim - 1
    <2> HIDE DEF low, high, K
    <2>1. {Pixels(low(k), high(k), width) : k \in K} = {from(k) .. to(k) - 1 : k \in K}
      BY <1>8
    <2> QED  BY <1>10, <2>1
  <1> QED  BY <1>7, <1>11, <1>12, <1>13 DEF Covers, rim
\* The grid that a behaviour looks at is one that batch_grid_regions accepts.
GridAccepted ==
  grid \in [parts : Parts, overlap : Overlaps, width : Widths] /\ Accepted(grid.parts, 1, grid.overlap)

\* No step changes it.
LEMMA GridStays ==
  ASSUME [EvidenceNext]_<<part, vars, surfaces>>
  PROVE  grid' = grid
  <1>1. CASE UNCHANGED vars
    BY <1>1 DEF vars
  <1>2. ASSUME NEW p \in Processes, Operations(p)  PROVE grid' = grid
    BY <1>2 DEF Operations, text_tab, screenshot_tab, pdf_tab, trace_capture, recording_capture,
         browser_surface_snapshot, artifact_crop, artifact_crop_grid, Begin
  <1>3. ASSUME NEW p \in Processes, Steps(p)  PROVE grid' = grid
    BY <1>3 DEF Steps, Acquire, ReadSource, RenderFails, Bridge, ReadNative, GetArtifact, WriteFails,
         WriteBegins, WriteEnds, Store, RecordEvent, StoreFails
  <1>4. ASSUME NEW p \in Processes, SwitchRun(p) \/ Crash(p)  PROVE grid' = grid
    BY <1>4 DEF SwitchRun, Crash
  <1>5. ASSUME NEW id \in DOMAIN file, LoseFile(id)  PROVE grid' = grid
    BY <1>5 DEF LoseFile
  <1>6. CASE Next
    BY <1>2, <1>3, <1>4, <1>5, <1>6 DEF Next
  <1> QED  BY <1>1, <1>6 DEF EvidenceNext, vars

\* Every grid that batch_grid_regions accepts, of any size and overlap, covers a picture of
\* any width: no crop is empty, neighbours leave no pixel out, and the crops together show
\* all that a region ending at 999 thousandths can name (scale_floor and scale_ceil).
THEOREM GridsCover == EvidenceSpec => []GridCovers
  <1>1. EvidenceInit => GridAccepted
    BY DEF EvidenceInit, Init, GridAccepted
  <1>2. GridAccepted /\ [EvidenceNext]_<<part, vars, surfaces>> => GridAccepted'
    BY GridStays DEF GridAccepted
  <1>3. GridAccepted => GridCovers
    <2> SUFFICES ASSUME GridAccepted  PROVE GridCovers
      OBVIOUS
    <2>1. grid.parts \in Nat /\ grid.overlap \in Nat /\ grid.width \in Nat \ {0}
      BY ArtifactAssumption DEF GridAccepted, ArtifactAssumption
    <2>2. grid.parts >= 1 /\ grid.parts <= 64 /\ grid.overlap <= 250
      BY <2>1 DEF GridAccepted, Accepted
    <2>3. grid.parts \in Nat \ {0}
      BY <2>1, <2>2
    <2> QED  BY <2>1, <2>2, <2>3, AllCovered DEF GridCovers
  <1> QED  BY <1>1, <1>2, <1>3, PTL DEF EvidenceSpec

=============================================================================
