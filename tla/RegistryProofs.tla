---------------------------- MODULE RegistryProofs ----------------------------
(***************************************************************************)
(* Proofs about InstanceRegistry: its type invariant and the coherence of  *)
(* rows are inductive together, for any number of processes, browsers and  *)
(* requests.  The argument: every row that is written was built by         *)
(* ManagedRow or AttachedRow, or is a coherent row read earlier with its   *)
(* status or websocket URL replaced, which coherence does not speak of.    *)
(* A pid may be given out again once its process has exited: that a signal *)
(* reaches a stranger only then follows from the order of the starts.      *)
(***************************************************************************)
EXTENDS InstanceRegistry, SequenceTheorems, TLAPS

-----------------------------------------------------------------------------
(* Rows.                                                                   *)

\* The rows that attach_instance builds are coherent.
LEMMA AttachedRowCoherent ==
  ASSUME NEW name \in Names, NEW u \in Urls, NEW ws \in 0 .. MaxStarts
  PROVE  /\ Coherent([AttachedRow(name, u) EXCEPT !.ws = ws])
         /\ [AttachedRow(name, u) EXCEPT !.ws = ws].id = AttachedId(name)
         /\ Coherent(AttachedRow(name, u))
         /\ AttachedRow(name, u).id = AttachedId(name)
  BY BoundsAssumption DEF Coherent, AttachedRow, BrowserInstance, Ids

\* The row that start_instance builds, before the launch, is coherent.
LEMMA ManagedRowCoherent ==
  ASSUME NEW name \in Names, NEW e \in Endpoints
  PROVE  /\ Coherent(ManagedRow(name, e))
         /\ ManagedRow(name, e).id = ManagedId(name, e)
  <1>1. PICK u \in Urls : e = EndpointOf(u) BY DEF Endpoints
  <1>2. LocalUrl(e) \in Urls /\ EndpointOf(LocalUrl(e)) = e BY <1>1, UrlsAssumption
  <1>3. ManagedId(name, e) \in Ids BY DEF Ids
  <1>. QED BY <1>2, <1>3, BoundsAssumption DEF Coherent, ManagedRow, BrowserInstance

\* Replacing status and websocket URL keeps a row coherent.
LEMMA RetouchedCoherent ==
  ASSUME NEW r, Coherent(r), NEW st \in {"running", "attached", "closed"},
         NEW ws \in 0 .. MaxStarts
  PROVE  /\ Coherent([r EXCEPT !.status = st])
         /\ Coherent([r EXCEPT !.ws = ws])
         /\ [r EXCEPT !.status = st].id = r.id
         /\ [r EXCEPT !.ws = ws].id = r.id
  BY DEF Coherent, BrowserInstance

\* What refresh_instances makes of a coherent row is coherent.
LEMMA RefreshedCoherent ==
  ASSUME TypeOK, NEW r, Coherent(r)
  PROVE  Coherent(Refreshed(r)) /\ Refreshed(r).id = r.id
  <1>1. r.url \in Urls /\ EndpointOf(r.url) \in Endpoints
    BY DEF Coherent, BrowserInstance, Endpoints
  <1>2. listening[EndpointOf(r.url)] \in 0 .. MaxStarts BY <1>1 DEF TypeOK
  <1>3. CASE listening[EndpointOf(r.url)] = 0
    <2>1. Refreshed(r) = [r EXCEPT !.status = "closed"] BY <1>3 DEF Refreshed
    <2>2. "closed" \in {"running", "attached", "closed"} OBVIOUS
    <2>3. /\ Coherent([r EXCEPT !.status = "closed"])
          /\ [r EXCEPT !.status = "closed"].id = r.id
      BY <1>2, <2>2, RetouchedCoherent, Zenon
    <2>. QED BY <2>1, <2>3, Zenon
  <1>4. CASE listening[EndpointOf(r.url)] # 0
    <2> DEFINE st == IF r.mode = "attached" THEN "attached" ELSE "running"
               ws == listening[EndpointOf(r.url)]
               n == [r EXCEPT !.status = st, !.ws = ws]
    <2>1. st \in {"running", "attached", "closed"} OBVIOUS
    <2>2. Refreshed(r) = n BY <1>4 DEF Refreshed
    <2>3. ws \in 0 .. MaxStarts BY <1>2
    <2> HIDE DEF st, ws
    <2>4. /\ n \in BrowserInstance /\ n.id = r.id /\ n.mode = r.mode
          /\ n.name = r.name /\ n.url = r.url /\ n.pid = r.pid
      BY <2>1, <2>3 DEF Coherent, BrowserInstance
    <2> HIDE DEF n
    <2>5. Coherent(n) BY <2>4 DEF Coherent
    <2>. QED BY <2>2, <2>4, <2>5, Zenon
  <1>. QED BY <1>3, <1>4

-----------------------------------------------------------------------------
(* Operations.                                                             *)

\* A new value of op[p] that holds coherent rows of its own instance.
Sound(o) ==
  /\ o \in Operations \cup {Idle}
  /\ o # Idle => /\ \A r \in o.snapshot \cup o.probed \cup o.row : Coherent(r)
                 /\ \A r \in o.row : r.id = o.id

LEMMA SoundNow ==
  ASSUME RegistryInv, NEW p \in Processes
  PROVE  Sound(op[p])
  BY DEF RegistryInv, TypeOK, RowsCoherent, RowsInHand, Sound

\* Going on to the next step keeps what an operation holds.
LEMMA ContinueSound ==
  ASSUME NEW o \in Operations, Sound(o)
  PROVE  Sound(IF Tail(o.steps) = <<>> THEN Idle ELSE [o EXCEPT !.steps = Tail(o.steps)])
  <1>1. o.steps \in Seq(Labels) /\ o.steps # <<>> BY DEF Operations
  <1>2. Tail(o.steps) \in Seq(Labels) BY <1>1
  <1>3. CASE Tail(o.steps) = <<>> BY <1>3 DEF Sound
  <1>4. CASE Tail(o.steps) # <<>>
    <2> DEFINE n == [o EXCEPT !.steps = Tail(o.steps)]
    <2>1. n \in Operations BY <1>2, <1>4 DEF Operations
    <2>2. /\ n.snapshot = o.snapshot /\ n.probed = o.probed
          /\ n.row = o.row /\ n.id = o.id
      BY DEF Operations
    <2>3. o # Idle BY IdleAssumption
    <2>. QED BY <1>4, <2>1, <2>2, <2>3 DEF Sound
  <1>. QED BY <1>3, <1>4

\* A step that replaces one operation, and rows by coherent rows one per id.
LEMMA StepKeeps ==
  ASSUME RegistryInv, NEW p \in Processes, NEW o, Sound(o),
         op' = [op EXCEPT ![p] = o], UNCHANGED world,
         writer' \in [Ids -> Holders \cup ({Nobody} \cup Strangers)], requests' \in Nat,
         \A r \in instances' : Coherent(r),
         \A r, s \in instances' : r.id = s.id => r = s
  PROVE  RegistryInv'
  <1>1. TypeOK'
    BY DEF RegistryInv, TypeOK, world, Sound
  <1>2. \A r : Coherent(r) => Coherent(r)'
    BY DEF Coherent, LaunchedAs, world
  <1>3. \A q \in Processes : Sound(op'[q])
    BY SoundNow DEF RegistryInv, TypeOK
  <1>4. RowsCoherent'
    BY <1>2, <1>3 DEF RowsCoherent, RowsInHand, Sound
  <1>5. PidsReusedLate' BY DEF RegistryInv, PidsReusedLate, world
  <1>. QED BY <1>1, <1>4, <1>5 DEF RegistryInv

\* Writing a coherent row keeps the table coherent.
LEMMA UpsertKeeps ==
  ASSUME RegistryInv, NEW r, Coherent(r), instances' = upsert_instance(instances, r)
  PROVE  /\ \A s \in instances' : Coherent(s)
         /\ \A s, t \in instances' : s.id = t.id => s = t
  BY DEF RegistryInv, RowsCoherent, upsert_instance

\* Taking the next step with the operation o in hand, the table unchanged.
LEMMA AdvanceKeeps ==
  ASSUME RegistryInv, NEW p \in Processes, NEW o \in Operations, Sound(o),
         Continue(p, o), UNCHANGED <<world, instances>>,
         writer' \in [Ids -> Holders \cup ({Nobody} \cup Strangers)], requests' \in Nat
  PROVE  RegistryInv'
  <1>1. Sound(IF Tail(o.steps) = <<>> THEN Idle ELSE [o EXCEPT !.steps = Tail(o.steps)])
    BY ContinueSound
  <1>2. op' = [op EXCEPT ![p] = IF Tail(o.steps) = <<>> THEN Idle
                                ELSE [o EXCEPT !.steps = Tail(o.steps)]]
    BY DEF Continue
  <1>3. /\ \A r \in instances' : Coherent(r)
        /\ \A r, s \in instances' : r.id = s.id => r = s
    BY DEF RegistryInv, RowsCoherent
  <1> DEFINE n == IF Tail(o.steps) = <<>> THEN Idle ELSE [o EXCEPT !.steps = Tail(o.steps)]
  <1> HIDE DEF n
  <1>4. Sound(n) /\ op' = [op EXCEPT ![p] = n] BY <1>1, <1>2 DEF n
  <1>. QED BY <1>3, <1>4, StepKeeps

\* Answering a request.
LEMMA AnswerKeeps ==
  ASSUME RegistryInv, NEW p \in Processes, Answer(p), UNCHANGED <<world, instances>>,
         writer' \in [Ids -> Holders \cup ({Nobody} \cup Strangers)], requests' \in Nat
  PROVE  RegistryInv'
  <1>1. Sound(Idle) BY DEF Sound
  <1>2. /\ \A r \in instances' : Coherent(r)
        /\ \A r, s \in instances' : r.id = s.id => r = s
    BY DEF RegistryInv, RowsCoherent
  <1>. QED BY <1>1, <1>2, StepKeeps DEF Answer

\* Replacing the operation in place, the table and the leases unchanged.
LEMMA ReplaceKeeps ==
  ASSUME RegistryInv, NEW p \in Processes, NEW o, Sound(o),
         op' = [op EXCEPT ![p] = o], UNCHANGED <<world, instances, writer>>, requests' \in Nat
  PROVE  RegistryInv'
  <1>1. /\ \A r \in instances' : Coherent(r)
        /\ \A r, s \in instances' : r.id = s.id => r = s
        /\ writer' \in [Ids -> Holders \cup ({Nobody} \cup Strangers)]
    BY DEF RegistryInv, RowsCoherent, TypeOK
  <1>. QED BY <1>1, StepKeeps

\* A running operation, and what the invariant says of it.
LEMMA Running ==
  ASSUME RegistryInv, NEW p \in Processes, op[p] # Idle
  PROVE  /\ op[p] \in Operations /\ Sound(op[p])
         /\ \A r \in op[p].row : Coherent(r) /\ r.id = op[p].id
         /\ \A r \in op[p].snapshot \cup op[p].probed : Coherent(r)
         /\ writer \in [Ids -> Holders \cup ({Nobody} \cup Strangers)] /\ requests \in Nat
  BY SoundNow DEF Sound, RegistryInv, TypeOK

-----------------------------------------------------------------------------
(* Requests.                                                               *)

LEMMA LabelledSteps ==
  /\ Refresh \in Seq(Labels) \ {<<>>}
  /\ LeaseAcquire \in Seq(Labels) \ {<<>>}
  /\ SyncTabs \in Seq(Labels) \ {<<>>}
  /\ AttachSteps \in Seq(Labels) \ {<<>>}
  /\ StartSteps \in Seq(Labels) \ {<<>>}
  /\ StopSteps \in Seq(Labels) \ {<<>>}
  <1> DEFINE Plans == Seq(Labels) \ {<<>>}
  <1>1. \A s, t \in Plans : s \o t \in Plans
    BY ConcatProperties, ConcatEqualIffEmpty, SMT
  <1>2. /\ <<"list", "refresh">> \in Plans
        /\ <<"acquire">> \in Plans
        /\ <<"get", "targets">> \in Plans
        /\ <<"version", "seed", "access", "targets", "upsert">> \in Plans
        /\ <<"launch", "upsert">> \in Plans
        /\ <<"get", "access", "terminate", "still_up", "upsert">> \in Plans
        /\ <<"release">> \in Plans
    BY DEF Labels
  <1> HIDE DEF Plans
  <1>3. Refresh \in Plans /\ LeaseAcquire \in Plans /\ SyncTabs \in Plans
    BY <1>1, <1>2 DEF Refresh, LeaseAcquire, SyncTabs
  <1>4. AttachSteps \in Plans /\ StartSteps \in Plans /\ StopSteps \in Plans
    BY <1>1, <1>2, <1>3 DEF AttachSteps, StartSteps, StopSteps
  <1>. QED BY <1>3, <1>4 DEF Plans

\* An operation that has only a plan and a coherent row of its instance is sound.
LEMMA OperationSound ==
  ASSUME NEW steps \in Seq(Labels) \ {<<>>}, NEW id \in Ids \cup {<<>>},
         NEW h \in Holders \cup {Nobody}, NEW row \in SUBSET BrowserInstance,
         NEW ws \in 0 .. MaxStarts, \A r \in row : Coherent(r) /\ r.id = id
  PROVE  Sound(Operation(steps, id, h, row, ws))
  BY DEF Sound, Operation, Operations

\* A request that has just come holds nothing but the row it will build.
LEMMA RequestKeeps ==
  ASSUME RegistryInv, NEW p \in Processes, Request(p)
  PROVE  RegistryInv'
  <1>0. 0 \in 0 .. MaxStarts BY BoundsAssumption
  <1>1. CASE ListInstances(p)
    <2>1. Sound(Operation(Refresh, <<>>, Nobody, {}, 0))
      BY <1>0, OperationSound, LabelledSteps, Zenon
    <2>. QED BY <1>1, <2>1, ReplaceKeeps DEF ListInstances, Begin, RegistryInv, TypeOK
  <1>2. ASSUME NEW n \in Names, NEW e \in Endpoints, NEW h \in Holders,
               StartInstance(p, n, e, h)
        PROVE  RegistryInv'
    <2>1. ManagedId(n, e) \in Ids BY DEF Ids
    <2>2. ManagedRow(n, e) \in BrowserInstance BY ManagedRowCoherent DEF Coherent
    <2>c. \A r \in {ManagedRow(n, e)} : Coherent(r) /\ r.id = ManagedId(n, e)
      BY ManagedRowCoherent
    <2>3. Sound(Operation(StartSteps, ManagedId(n, e), h, {ManagedRow(n, e)}, 0))
      BY <1>0, <2>1, <2>2, <2>c, OperationSound, LabelledSteps, Zenon
    <2>4. /\ op' = [op EXCEPT ![p] =
                      Operation(StartSteps, ManagedId(n, e), h, {ManagedRow(n, e)}, 0)]
          /\ UNCHANGED <<world, instances, writer>> /\ requests' \in Nat
      BY <1>2 DEF StartInstance, Ask, Begin, RegistryInv, TypeOK
    <2>. QED BY <2>3, <2>4, ReplaceKeeps
  <1>3. ASSUME NEW n \in Names, NEW u \in Urls, NEW h \in Holders,
               NEW k \in {0} \cup KnownWs(u), AttachInstance(p, n, u, k, h)
        PROVE  RegistryInv'
    <2> DEFINE url == IF k = 0 THEN u ELSE LocalUrl(EndpointOf(u))
    <2>1. url \in Urls BY UrlsAssumption
    <2>2. k \in 0 .. MaxStarts
      BY BoundsAssumption DEF KnownWs, RegistryInv, RowsCoherent, Coherent, BrowserInstance
    <2>3. AttachedId(n) \in Ids BY DEF Ids
    <2>4. op' = [op EXCEPT ![p] =
                   Operation(AttachSteps, AttachedId(n), h, {AttachedRow(n, url)}, k)]
      BY <1>3 DEF AttachInstance, Ask, Begin
    <2> HIDE DEF url
    <2>5. Coherent(AttachedRow(n, url)) /\ AttachedRow(n, url).id = AttachedId(n)
      BY <2>1, <2>2, AttachedRowCoherent
    <2>6. AttachedRow(n, url) \in BrowserInstance BY <2>5 DEF Coherent
    <2>c. \A r \in {AttachedRow(n, url)} : Coherent(r) /\ r.id = AttachedId(n)
      BY <2>5
    <2>7. Sound(Operation(AttachSteps, AttachedId(n), h, {AttachedRow(n, url)}, k))
      BY <2>2, <2>3, <2>c, <2>6, OperationSound, LabelledSteps, Zenon
    <2>8. UNCHANGED <<world, instances, writer>> /\ requests' \in Nat
      BY <1>3 DEF AttachInstance, Ask, RegistryInv, TypeOK
    <2>. QED BY <2>4, <2>7, <2>8, ReplaceKeeps
  <1>4. ASSUME NEW r \in instances, NEW h \in Holders, StopInstance(p, r.id, h)
        PROVE  RegistryInv'
    <2>1. r.id \in Ids BY DEF RegistryInv, RowsCoherent, Coherent, BrowserInstance
    <2>2. Sound(Operation(StopSteps, r.id, h, {}, 0))
      BY <1>0, <2>1, OperationSound, LabelledSteps, Zenon
    <2>3. /\ op' = [op EXCEPT ![p] = Operation(StopSteps, r.id, h, {}, 0)]
          /\ UNCHANGED <<world, instances, writer>> /\ requests' \in Nat
      BY <1>4 DEF StopInstance, Ask, Begin, RegistryInv, TypeOK
    <2>. QED BY <2>2, <2>3, ReplaceKeeps
  <1>. QED BY <1>1, <1>2, <1>3, <1>4 DEF Request

-----------------------------------------------------------------------------
(* Steps.                                                                  *)

\* refresh_instances: the snapshot, the probe and the write-back.
LEMMA RefreshKeeps ==
  ASSUME RegistryInv, NEW p \in Processes,
         \/ ListStep(p) \/ RefreshedStep(p) \/ GetStep(p)
         \/ op[p] # Idle /\ \E r \in op[p].snapshot : ProbeStep(p, r)
         \/ op[p] # Idle /\ \E r \in op[p].probed : WriteBackStep(p, r)
  PROVE  RegistryInv'
  <1>1. \A r \in instances : Coherent(r) /\ r \in BrowserInstance
    BY DEF RegistryInv, RowsCoherent, Coherent
  <1>2. CASE ListStep(p)
    <2> DEFINE o == [op[p] EXCEPT !.snapshot = instances]
    <2>1. op[p] # Idle BY <1>2 DEF ListStep, At
    <2>2. o \in Operations BY <1>1, <2>1, Running DEF Operations
    <2>3. /\ o.snapshot = instances /\ o.probed = op[p].probed
          /\ o.row = op[p].row /\ o.id = op[p].id
      BY <2>1, Running DEF Operations
    <2>4. Continue(p, o) /\ UNCHANGED <<world, instances, writer, requests>>
      BY <1>2 DEF ListStep
    <2> HIDE DEF o
    <2>5. Sound(o) BY <1>1, <2>1, <2>2, <2>3, Running DEF Sound
    <2>. QED BY <2>1, <2>2, <2>4, <2>5, AdvanceKeeps, Running
  <1>3. CASE RefreshedStep(p)
    BY <1>3, Running, AdvanceKeeps DEF RefreshedStep, At
  <1>4. CASE GetStep(p)
    <2> DEFINE found == {r \in instances : r.id = op[p].id}
               o == [op[p] EXCEPT !.row = found]
    <2>1. op[p] # Idle /\ UNCHANGED <<world, instances, writer, requests>>
      BY <1>4 DEF GetStep, At
    <2>2. o \in Operations BY <1>1, <2>1, Running DEF Operations
    <2>3. /\ o.snapshot = op[p].snapshot /\ o.probed = op[p].probed
          /\ o.row = found /\ o.id = op[p].id
      BY <2>1, Running DEF Operations
    <2>4. Answer(p) \/ Continue(p, o) BY <1>4 DEF GetStep
    <2> HIDE DEF o
    <2>5. Sound(o) BY <1>1, <2>1, <2>2, <2>3, Running DEF Sound
    <2>. QED BY <2>1, <2>2, <2>4, <2>5, AdvanceKeeps, AnswerKeeps, Running
  <1>5. ASSUME op[p] # Idle, NEW r \in op[p].snapshot, ProbeStep(p, r)
        PROVE  RegistryInv'
    <2> DEFINE n == Refreshed(r)
               o == [op[p] EXCEPT !.snapshot = op[p].snapshot \ {r}, !.probed = {n}]
    <2>1. Coherent(n) BY <1>5, Running, RefreshedCoherent DEF RegistryInv
    <2>2. n \in BrowserInstance BY <2>1 DEF Coherent
    <2>3. op' = [op EXCEPT ![p] = o] /\ UNCHANGED <<world, instances, writer, requests>>
      BY <1>5 DEF ProbeStep
    <2> HIDE DEF n
    <2>4. o \in Operations BY <1>5, <2>2, Running DEF Operations
    <2>5. /\ o.snapshot = op[p].snapshot \ {r} /\ o.probed = {n}
          /\ o.row = op[p].row /\ o.id = op[p].id
      BY <1>5, Running DEF Operations
    <2> HIDE DEF o
    <2>6. Sound(o) BY <1>5, <2>1, <2>4, <2>5, Running DEF Sound
    <2>. QED BY <1>5, <2>3, <2>6, ReplaceKeeps, Running
  <1>6. ASSUME op[p] # Idle, NEW r \in op[p].probed, WriteBackStep(p, r)
        PROVE  RegistryInv'
    <2> DEFINE o == [op[p] EXCEPT !.probed = {}]
    <2>1. Coherent(r) BY <1>6, Running
    <2>2. /\ op' = [op EXCEPT ![p] = o] /\ UNCHANGED <<world, writer, requests>>
          /\ instances' = upsert_instance(instances, r)
      BY <1>6 DEF WriteBackStep
    <2>3. o \in Operations BY <1>6, Running DEF Operations
    <2>4. /\ o.snapshot = op[p].snapshot /\ o.probed = {}
          /\ o.row = op[p].row /\ o.id = op[p].id
      BY <1>6, Running DEF Operations
    <2> HIDE DEF o
    <2>5. Sound(o) BY <1>6, <2>3, <2>4, Running DEF Sound
    <2>6. writer' \in [Ids -> Holders \cup ({Nobody} \cup Strangers)] /\ requests' \in Nat
      BY <1>6, <2>2, Running
    <2>. QED BY <2>1, <2>2, <2>5, <2>6, UpsertKeeps, StepKeeps
  <1>. QED BY <1>2, <1>3, <1>4, <1>5, <1>6

\* The lease steps leave rows alone; the access step may prepend an acquisition.
LEMMA LeaseStepKeeps ==
  ASSUME RegistryInv, NEW p \in Processes,
         AccessStep(p) \/ AcquireStep(p) \/ ReleaseStep(p)
  PROVE  RegistryInv'
  <1>1. op[p] # Idle BY DEF AccessStep, AcquireStep, ReleaseStep, At
  <1>2. CASE AccessStep(p)
    <2> DEFINE steps == LeaseAcquire \o Tail(op[p].steps)
               o == [op[p] EXCEPT !.steps = steps]
    <2>1. UNCHANGED <<world, instances, writer, requests>> BY <1>2 DEF AccessStep
    <2>2. \/ Continue(p, op[p]) \/ Answer(p) \/ op' = [op EXCEPT ![p] = o]
      BY <1>2 DEF AccessStep
    <2>3. steps \in Seq(Labels) \ {<<>>}
      <3>1. op[p].steps \in Seq(Labels) /\ op[p].steps # <<>>
        BY <1>1, Running DEF Operations
      <3>2. Tail(op[p].steps) \in Seq(Labels) BY <3>1
      <3>3. LeaseAcquire \in Seq(Labels) /\ LeaseAcquire # <<>> BY LabelledSteps
      <3>. QED BY <3>2, <3>3, ConcatProperties, ConcatEqualIffEmpty
    <2> HIDE DEF steps
    <2>4. o \in Operations BY <1>1, <2>3, Running DEF Operations
    <2>5. /\ o.snapshot = op[p].snapshot /\ o.probed = op[p].probed
          /\ o.row = op[p].row /\ o.id = op[p].id
      BY <1>1, Running DEF Operations
    <2> HIDE DEF o
    <2>6. Sound(o) BY <1>1, <2>4, <2>5, Running DEF Sound
    <2>. QED BY <1>1, <2>1, <2>2, <2>6, AdvanceKeeps, AnswerKeeps, ReplaceKeeps, Running
  <1>3. CASE AcquireStep(p)
    <2>1. op[p].holder \in Holders \cup {Nobody} BY <1>1, Running DEF Operations
    <2>2. writer' \in [Ids -> Holders \cup ({Nobody} \cup Strangers)]
      BY <1>1, <1>3, <2>1, Running DEF AcquireStep
    <2>3. UNCHANGED <<world, instances, requests>> /\ (Continue(p, op[p]) \/ Answer(p))
      BY <1>3 DEF AcquireStep
    <2>. QED BY <1>1, <2>2, <2>3, AdvanceKeeps, AnswerKeeps, Running
  <1>4. CASE ReleaseStep(p)
    <2>1. writer' \in [Ids -> Holders \cup ({Nobody} \cup Strangers)]
      BY <1>1, <1>4, Running DEF ReleaseStep
    <2>2. UNCHANGED <<world, instances, requests>> /\ Continue(p, op[p])
      BY <1>4 DEF ReleaseStep
    <2>. QED BY <1>1, <2>1, <2>2, AdvanceKeeps, Running
  <1>. QED BY <1>2, <1>3, <1>4

\* The steps that build, write or judge a row.
LEMMA RowStepKeeps ==
  ASSUME RegistryInv, NEW p \in Processes, op[p] # Idle, NEW r \in op[p].row,
         \/ VersionStep(p, r) \/ SeedStep(p, r) \/ TargetsStep(p, r)
         \/ TerminateStep(p, r) \/ StillUpStep(p, r) \/ UpsertStep(p, r)
  PROVE  RegistryInv'
  <1>1. Coherent(r) /\ r.id = op[p].id BY Running
  <1>2. r \in BrowserInstance /\ r.id \in Ids /\ EndpointOf(r.url) \in Endpoints
    BY <1>1 DEF Coherent, BrowserInstance, Endpoints
  <1>3. listening[EndpointOf(r.url)] \in 0 .. MaxStarts BY <1>2 DEF RegistryInv, TypeOK
  <1>4. CASE VersionStep(p, r)
    <2> DEFINE n == [r EXCEPT !.ws = listening[EndpointOf(r.url)]]
               o == [op[p] EXCEPT !.row = {n}]
    <2>1. UNCHANGED <<world, instances, writer, requests>> /\ (Answer(p) \/ Continue(p, o))
      BY <1>4 DEF VersionStep
    <2>2. Coherent(n) /\ n.id = r.id BY <1>1, <1>3, RetouchedCoherent
    <2>3. n \in BrowserInstance BY <2>2 DEF Coherent
    <2> HIDE DEF n
    <2>4. o \in Operations BY <2>3, Running DEF Operations
    <2>5. /\ o.snapshot = op[p].snapshot /\ o.probed = op[p].probed
          /\ o.row = {n} /\ o.id = op[p].id
      BY Running DEF Operations
    <2> HIDE DEF o
    <2>6. Sound(o) BY <1>1, <2>2, <2>4, <2>5, Running DEF Sound
    <2>. QED BY <2>1, <2>4, <2>6, AdvanceKeeps, AnswerKeeps, Running
  <1>5. CASE SeedStep(p, r)
    <2>1. UNCHANGED <<world, instances, writer, requests>> BY <1>5 DEF SeedStep
    <2> DEFINE o == [op[p] EXCEPT !.evidence = 0]
    <2>a. /\ o \in Operations
          /\ o.snapshot = op[p].snapshot /\ o.probed = op[p].probed
          /\ o.row = op[p].row /\ o.id = op[p].id
      <3>1. 0 \in 0 .. MaxStarts BY BoundsAssumption
      <3>. QED BY <3>1, Running DEF Operations
    <2> HIDE DEF o
    <2>2. ASSUME NEW s \in Seeds(instances, r.url, op[p].evidence),
                 Continue(p, [o EXCEPT !.id = s.id, !.attach = "seeded",
                                       !.row = {[AttachedRow(s.name, r.url) EXCEPT !.ws = r.ws]}])
          PROVE  RegistryInv'
      <3>1. s \in instances /\ s.mode = "attached" BY DEF Seeds
      <3>2. /\ s.id = AttachedId(s.name) /\ s.name \in Names /\ s.id \in Ids
        BY <3>1 DEF RegistryInv, RowsCoherent, Coherent, BrowserInstance
      <3> DEFINE n == [AttachedRow(s.name, r.url) EXCEPT !.ws = r.ws]
                 m == [o EXCEPT !.id = s.id, !.attach = "seeded", !.row = {n}]
      <3>3. r.url \in Urls /\ r.ws \in 0 .. MaxStarts BY <1>2 DEF BrowserInstance
      <3>4. Coherent(n) /\ n.id = s.id BY <3>2, <3>3, AttachedRowCoherent
      <3>5. n \in BrowserInstance BY <3>4 DEF Coherent
      <3> HIDE DEF n
      <3>6. m \in Operations BY <2>a, <3>2, <3>5 DEF Operations
      <3>7. /\ m.snapshot = op[p].snapshot /\ m.probed = op[p].probed
            /\ m.row = {n} /\ m.id = s.id
        BY <2>a DEF Operations
      <3>8. Continue(p, m) BY <2>2 DEF n
      <3> HIDE DEF m
      <3>9. Sound(m) BY <3>4, <3>6, <3>7, Running DEF Sound
      <3>. QED BY <2>1, <3>6, <3>8, <3>9, AdvanceKeeps, Running
    <2>3. ASSUME Continue(p, [o EXCEPT !.attach = "new"])
          PROVE  RegistryInv'
      <3> DEFINE m == [o EXCEPT !.attach = "new"]
      <3>1. m \in Operations BY <2>a DEF Operations
      <3>2. /\ m.snapshot = op[p].snapshot /\ m.probed = op[p].probed
            /\ m.row = op[p].row /\ m.id = op[p].id
        BY <2>a DEF Operations
      <3>3. Continue(p, m) BY <2>3
      <3> HIDE DEF m
      <3>4. Sound(m) BY <3>1, <3>2, Running DEF Sound
      <3>. QED BY <2>1, <3>1, <3>3, <3>4, AdvanceKeeps, Running
    <2>. QED BY <1>5, <2>2, <2>3 DEF SeedStep, o
  <1>6. CASE TargetsStep(p, r) \/ TerminateStep(p, r)
    <2>1. UNCHANGED <<world, instances, writer, requests>> /\ (Answer(p) \/ Continue(p, op[p]))
      BY <1>6 DEF TargetsStep, TerminateStep
    <2>. QED BY <2>1, AdvanceKeeps, AnswerKeeps, Running
  <1>7. CASE StillUpStep(p, r)
    <2> DEFINE n == [r EXCEPT !.status = "closed"]
               o == [op[p] EXCEPT !.row = {n}]
    <2>1. UNCHANGED <<world, instances, writer, requests>> /\ (Answer(p) \/ Continue(p, o))
      BY <1>7 DEF StillUpStep
    <2>2. Coherent(n) /\ n.id = r.id BY <1>1, <1>3, RetouchedCoherent
    <2>3. n \in BrowserInstance BY <2>2 DEF Coherent
    <2> HIDE DEF n
    <2>4. o \in Operations BY <2>3, Running DEF Operations
    <2>5. /\ o.snapshot = op[p].snapshot /\ o.probed = op[p].probed
          /\ o.row = {n} /\ o.id = op[p].id
      BY Running DEF Operations
    <2> HIDE DEF o
    <2>6. Sound(o) BY <1>1, <2>2, <2>4, <2>5, Running DEF Sound
    <2>. QED BY <2>1, <2>4, <2>6, AdvanceKeeps, AnswerKeeps, Running
  <1>8. CASE UpsertStep(p, r)
    <2> DEFINE n == IF Tail(op[p].steps) = <<>> THEN Idle
                    ELSE [op[p] EXCEPT !.steps = Tail(op[p].steps)]
    <2>1. Sound(n) BY Running, ContinueSound
    <2>2. /\ op' = [op EXCEPT ![p] = n] /\ UNCHANGED <<world, writer, requests>>
          /\ instances' = upsert_instance(instances, r)
      BY <1>8 DEF UpsertStep, Continue
    <2> HIDE DEF n
    <2>3. writer' \in [Ids -> Holders \cup ({Nobody} \cup Strangers)] /\ requests' \in Nat
      BY <2>2, Running
    <2>. QED BY <1>1, <2>1, <2>2, <2>3, UpsertKeeps, StepKeeps
  <1>. QED BY <1>4, <1>5, <1>6, <1>7, <1>8

\* The numbers of the processes started.
LEMMA StartedNumbers ==
  ASSUME TypeOK
  PROVE  /\ Len(launchedFor) \in Nat /\ DOMAIN launchedFor = 1 .. Len(launchedFor)
         /\ DOMAIN pidOf = 1 .. Len(launchedFor)
         /\ \A k \in DOMAIN launchedFor : k \in Nat /\ k < NextBrowser
  BY DEF TypeOK, NextBrowser

\* Only pids are given.
LEMMA PidGiven ==
  ASSUME NextBrowser \in Started, NEW pid \in FreePids
  PROVE  pid \in Pids
  BY PidsAssumption DEF FreePids, Started

\* One more process, under a pid that no running one has, keeps the history of pids
\* in order and every coherent row coherent.
LEMMA StartKeeps ==
  ASSUME RegistryInv, NEW by \in Ids \cup {External}, NEW pid \in FreePids, ProcessStarts(by, pid)
  PROVE  /\ launchedFor' \in Seq(Ids \cup {External}) /\ Len(launchedFor') <= MaxStarts
         /\ pidOf' \in Seq(Pids) /\ Len(pidOf') = Len(launchedFor')
         /\ alive' \subseteq DOMAIN launchedFor'
         /\ NextBrowser \in LaunchedAs(by, pid)'
         /\ PidsReusedLate'
         /\ \A r : Coherent(r) => Coherent(r)'
  <1>0. pid \in Pids BY PidGiven DEF ProcessStarts
  <1>1. /\ launchedFor \in Seq(Ids \cup {External}) /\ pidOf \in Seq(Pids) /\ pid \in Pids
        /\ Len(pidOf) = Len(launchedFor) /\ alive \subseteq DOMAIN launchedFor
    BY <1>0 DEF RegistryInv, TypeOK
  <1>2. /\ NextBrowser \in Started /\ alive' = alive \cup {NextBrowser}
        /\ launchedFor' = Append(launchedFor, by) /\ pidOf' = Append(pidOf, pid)
    BY DEF ProcessStarts
  <1>3. /\ launchedFor' \in Seq(Ids \cup {External}) /\ Len(launchedFor') = NextBrowser
        /\ DOMAIN launchedFor' = 1 .. NextBrowser
        /\ \A k \in DOMAIN launchedFor : k \in 1 .. NextBrowser /\ launchedFor'[k] = launchedFor[k]
        /\ launchedFor'[NextBrowser] = by
    BY <1>1, <1>2 DEF NextBrowser
  <1>4. /\ pidOf' \in Seq(Pids) /\ Len(pidOf') = NextBrowser
        /\ \A k \in DOMAIN launchedFor : pidOf'[k] = pidOf[k]
        /\ pidOf'[NextBrowser] = pid
    BY <1>1, <1>2 DEF NextBrowser
  <1>5. NextBrowser \in Nat /\ NextBrowser <= MaxStarts /\ NextBrowser \in 1 .. NextBrowser
    BY <1>2, BoundsAssumption DEF Started
  <1>6. alive' \subseteq DOMAIN launchedFor' BY <1>1, <1>2, <1>3, <1>5
  <1>7. NextBrowser \in LaunchedAs(by, pid)' BY <1>3, <1>4, <1>5 DEF LaunchedAs
  <1>8. PidsReusedLate'
    <2> SUFFICES ASSUME NEW i \in 1 .. NextBrowser, NEW j \in 1 .. NextBrowser,
                        i < j, pidOf'[i] = pidOf'[j]
                 PROVE  i \notin alive'
      BY <1>3 DEF PidsReusedLate
    <2>1. i \in DOMAIN launchedFor /\ i # NextBrowser
      BY <1>1, <1>5 DEF NextBrowser
    <2>2. CASE j \in DOMAIN launchedFor
      BY <1>2, <1>4, <2>1, <2>2 DEF RegistryInv, PidsReusedLate
    <2>3. CASE j = NextBrowser
      BY <1>2, <1>4, <2>1, <2>3 DEF FreePids
    <2>4. j \in DOMAIN launchedFor \/ j = NextBrowser
      BY <1>1, <1>5 DEF NextBrowser
    <2>. QED BY <2>2, <2>3, <2>4
  <1>9. ASSUME NEW r, Coherent(r)
        PROVE  Coherent(r)'
    <2>1. ASSUME NEW n \in LaunchedAs(r.id, r.pid) PROVE n \in LaunchedAs(r.id, r.pid)'
      BY <1>3, <1>4 DEF LaunchedAs
    <2>. QED BY <1>9, <2>1 DEF Coherent
  <1>. QED BY <1>3, <1>4, <1>5, <1>6, <1>7, <1>8, <1>9

\* launch_managed_browser: the row carries the pid of the child launched for it.
LEMMA LaunchKeeps ==
  ASSUME RegistryInv, NEW p \in Processes, op[p] # Idle, NEW r \in op[p].row,
         LaunchStep(p, r)
  PROVE  RegistryInv'
  <1> DEFINE e == EndpointOf(r.url)
             answering == IF listening[e] = 0 THEN NextBrowser ELSE listening[e]
             base == ManagedRow(r.name, e)
  <1>0. PICK pid \in FreePids :
          /\ ProcessStarts(Launched(base, pid, answering).id, pid)
          /\ \/ /\ listening' = [listening EXCEPT ![e] = answering]
                /\ Continue(p, [op[p] EXCEPT !.id = Launched(base, pid, answering).id,
                                             !.row = {Launched(base, pid, answering)}])
             \/ UNCHANGED listening /\ Answer(p)
          /\ UNCHANGED <<instances, writer, requests>>
    BY DEF LaunchStep
  <1> DEFINE row == Launched(base, pid, answering)
             o == [op[p] EXCEPT !.id = row.id, !.row = {row}]
  <1>1. r.name \in Names /\ e \in Endpoints
    BY Running DEF Coherent, BrowserInstance, Endpoints
  <1>2. Coherent(base) /\ base.id = ManagedId(r.name, e) /\ base.mode = "managed"
    BY <1>1, ManagedRowCoherent DEF ManagedRow
  <1>3. NextBrowser \in Started /\ answering \in 0 .. MaxStarts
    BY <1>0, <1>1, BoundsAssumption DEF ProcessStarts, RegistryInv, TypeOK, Started
  <1>4. /\ ProcessStarts(row.id, pid)
        /\ \/ listening' = [listening EXCEPT ![e] = answering] /\ Continue(p, o)
           \/ UNCHANGED listening /\ Answer(p)
        /\ UNCHANGED <<instances, writer, requests>>
    BY <1>0
  <1> HIDE DEF answering, base
  <1>a. pid \in Pids BY <1>3, PidGiven
  <1>5. /\ row \in BrowserInstance /\ row.id = base.id /\ row.mode = "managed"
        /\ row.name = base.name /\ row.url = base.url /\ row.pid = pid
    BY <1>2, <1>3, <1>a, Zenon DEF Launched, Coherent, BrowserInstance
  <1> HIDE DEF row
  <1>6. row.id \in Ids BY <1>5 DEF BrowserInstance
  <1>b. PICK w : w = row OBVIOUS
  <1>7. /\ launchedFor' \in Seq(Ids \cup {External}) /\ Len(launchedFor') <= MaxStarts
        /\ pidOf' \in Seq(Pids) /\ Len(pidOf') = Len(launchedFor')
        /\ alive' \subseteq DOMAIN launchedFor'
        /\ NextBrowser \in LaunchedAs(w.id, pid)'
        /\ PidsReusedLate'
        /\ \A s : Coherent(s) => Coherent(s)'
    <2>1. w.id \in Ids \cup {External} /\ ProcessStarts(w.id, pid) BY <1>4, <1>6, <1>b
    <2>. QED BY <2>1, StartKeeps
  <1>8. row.id = ManagedId(row.name, EndpointOf(row.url)) BY <1>2, <1>5 DEF Coherent
  <1>10. Coherent(w)' BY <1>5, <1>7, <1>8, <1>b DEF Coherent
  <1>11. o \in Operations BY <1>5, <1>6, Running DEF Operations
  <1>12. /\ o.snapshot = op[p].snapshot /\ o.probed = op[p].probed
         /\ o.row = {row} /\ o.id = row.id
    BY Running DEF Operations
  <1> HIDE DEF o
  <1> DEFINE n == IF Tail(o.steps) = <<>> THEN Idle ELSE [o EXCEPT !.steps = Tail(o.steps)]
  <1>13. /\ n \in Operations \cup {Idle}
         /\ n # Idle => /\ n.snapshot = o.snapshot /\ n.probed = o.probed
                        /\ n.row = o.row /\ n.id = o.id
    <2>1. o.steps \in Seq(Labels) /\ o.steps # <<>> BY <1>11 DEF Operations
    <2>2. Tail(o.steps) \in Seq(Labels) BY <2>1
    <2>3. CASE Tail(o.steps) = <<>> BY <2>3
    <2>4. CASE Tail(o.steps) # <<>>
      <3> DEFINE m == [o EXCEPT !.steps = Tail(o.steps)]
      <3>1. m \in Operations BY <1>11, <2>2, <2>4 DEF Operations
      <3>2. /\ m.snapshot = o.snapshot /\ m.probed = o.probed
            /\ m.row = o.row /\ m.id = o.id
        BY <1>11 DEF Operations
      <3>3. n = m BY <2>4
      <3> HIDE DEF m, n
      <3>. QED BY <3>1, <3>2, <3>3
    <2>. QED BY <2>3, <2>4
  <1>14. op' = [op EXCEPT ![p] = n] \/ op' = [op EXCEPT ![p] = Idle]
    BY <1>4 DEF Continue, Answer
  <1> HIDE DEF n
  <1>15. TypeOK'
    <2>1. op' \in [Processes -> Operations \cup {Idle}]
      BY <1>13, <1>14 DEF RegistryInv, TypeOK
    <2>2. listening' \in [Endpoints -> 0 .. MaxStarts]
      BY <1>1, <1>3, <1>4 DEF RegistryInv, TypeOK
    <2>. QED BY <1>4, <1>7, <2>1, <2>2 DEF RegistryInv, TypeOK
  <1>16. ASSUME NEW q \in Processes, op'[q] # Idle
         PROVE  /\ \A s \in op'[q].snapshot \cup op'[q].probed \cup op'[q].row : Coherent(s)'
                /\ \A s \in op'[q].row : s.id = op'[q].id
    <2>1. CASE op'[q] = op[q]
      <3>1. op[q] # Idle BY <1>16, <2>1
      <3>. QED BY <1>7, <2>1, <3>1, Running
    <2>2. CASE q = p /\ op'[q] = n
      BY <1>7, <1>10, <1>12, <1>13, <1>16, <1>b, <2>2, Running
    <2>3. op'[q] = op[q] \/ (q = p /\ op'[q] = n)
      BY <1>14, <1>16 DEF RegistryInv, TypeOK
    <2>. QED BY <2>1, <2>2, <2>3
  <1>17. RowsCoherent'
    BY <1>4, <1>7, <1>16 DEF RegistryInv, RowsCoherent, RowsInHand
  <1>. QED BY <1>7, <1>15, <1>17 DEF RegistryInv

\* The environment touches no row.
LEMMA EnvironmentKeeps ==
  ASSUME RegistryInv,
         \/ \E e \in Endpoints : ExternalBrowser(e)
         \/ OtherProcess
         \/ \E n \in alive : Exit(n)
         \/ \E r \in instances, h \in ({Nobody} \cup Strangers) : LeaseMoves(r, h)
  PROVE  RegistryInv'
  <1>0. ASSUME NEW pid \in FreePids, ProcessStarts(External, pid),
               listening' \in [Endpoints -> 0 .. MaxStarts],
               UNCHANGED <<instances, writer, op, requests>>
        PROVE  RegistryInv'
    <2>1. /\ launchedFor' \in Seq(Ids \cup {External}) /\ Len(launchedFor') <= MaxStarts
          /\ pidOf' \in Seq(Pids) /\ Len(pidOf') = Len(launchedFor')
          /\ alive' \subseteq DOMAIN launchedFor'
          /\ PidsReusedLate'
          /\ \A r : Coherent(r) => Coherent(r)'
      BY <1>0, StartKeeps
    <2>2. TypeOK' BY <1>0, <2>1 DEF RegistryInv, TypeOK
    <2>3. RowsCoherent' BY <1>0, <2>1 DEF RegistryInv, RowsCoherent, RowsInHand
    <2>. QED BY <2>1, <2>2, <2>3 DEF RegistryInv
  <1>1. ASSUME NEW e \in Endpoints, ExternalBrowser(e) PROVE RegistryInv'
    <2>1. PICK pid \in FreePids : ProcessStarts(External, pid) BY <1>1 DEF ExternalBrowser
    <2>2. NextBrowser \in 0 .. MaxStarts
      BY <2>1, BoundsAssumption DEF ProcessStarts, Started
    <2>3. /\ listening' \in [Endpoints -> 0 .. MaxStarts]
          /\ UNCHANGED <<instances, writer, op, requests>>
      BY <1>1, <2>2 DEF ExternalBrowser, RegistryInv, TypeOK
    <2>. QED BY <1>0, <2>1, <2>3
  <1>4. CASE OtherProcess
    <2>1. /\ \E pid \in FreePids : ProcessStarts(External, pid)
          /\ listening' \in [Endpoints -> 0 .. MaxStarts]
          /\ UNCHANGED <<instances, writer, op, requests>>
      BY <1>4 DEF OtherProcess, RegistryInv, TypeOK
    <2>. QED BY <1>0, <2>1
  <1>2. ASSUME NEW n \in alive, Exit(n) PROVE RegistryInv'
    <2>1. TypeOK' BY <1>2, BoundsAssumption DEF Exit, RegistryInv, TypeOK
    <2>2. \A r : Coherent(r) => Coherent(r)' BY <1>2 DEF Exit, Coherent, LaunchedAs
    <2>3. RowsCoherent' BY <1>2, <2>2 DEF Exit, RegistryInv, RowsCoherent, RowsInHand
    <2>4. PidsReusedLate' BY <1>2 DEF Exit, RegistryInv, PidsReusedLate
    <2>. QED BY <2>1, <2>3, <2>4 DEF RegistryInv
  <1>3. ASSUME NEW r \in instances, NEW h \in ({Nobody} \cup Strangers), LeaseMoves(r, h)
        PROVE  RegistryInv'
    <2>1. TypeOK' BY <1>3 DEF LeaseMoves, world, RegistryInv, TypeOK
    <2>2. \A s : Coherent(s) => Coherent(s)'
      BY <1>3 DEF LeaseMoves, world, Coherent, LaunchedAs
    <2>3. RowsCoherent' BY <1>3, <2>2 DEF LeaseMoves, RegistryInv, RowsCoherent, RowsInHand
    <2>4. PidsReusedLate' BY <1>3 DEF LeaseMoves, world, RegistryInv, PidsReusedLate
    <2>. QED BY <2>1, <2>3, <2>4 DEF RegistryInv
  <1>. QED BY <1>1, <1>2, <1>3, <1>4

-----------------------------------------------------------------------------
(* Theorems.                                                               *)

\* The store starts empty.
LEMMA InitHolds == Init => RegistryInv
  <1> SUFFICES ASSUME Init PROVE RegistryInv OBVIOUS
  <1>1. TypeOK BY BoundsAssumption, EmptySeq DEF Init, TypeOK
  <1>2. RowsCoherent BY DEF Init, RowsCoherent, RowsInHand
  <1>3. PidsReusedLate BY EmptySeq DEF Init, PidsReusedLate
  <1>. QED BY <1>1, <1>2, <1>3 DEF RegistryInv

\* Every step of every process and of the environment keeps the invariant.
LEMMA NextKeeps == RegistryInv /\ [Next]_vars => RegistryInv'
  <1> SUFFICES ASSUME RegistryInv, [Next]_vars PROVE RegistryInv' OBVIOUS
  <1>1. ASSUME NEW p \in Processes, Abandon(p) PROVE RegistryInv'
    BY <1>1, AnswerKeeps DEF Abandon, RegistryInv, TypeOK
  <1>2. ASSUME NEW p \in Processes, Step(p) PROVE RegistryInv'
    BY <1>2, RefreshKeeps, LeaseStepKeeps, RowStepKeeps, LaunchKeeps DEF Step
  <1>3. CASE UNCHANGED vars
    <2>1. TypeOK' BY <1>3 DEF vars, RegistryInv, TypeOK
    <2>2. RowsCoherent'
      BY <1>3 DEF vars, RegistryInv, RowsCoherent, RowsInHand, Coherent, LaunchedAs
    <2>3. PidsReusedLate' BY <1>3 DEF vars, RegistryInv, PidsReusedLate
    <2>. QED BY <2>1, <2>2, <2>3 DEF RegistryInv
  <1>. QED BY <1>1, <1>2, <1>3, RequestKeeps, EnvironmentKeeps DEF Next

\* Rows never come apart from their ids, whatever processes write over each other:
\* for any number of processes, URLs, names, holders, browsers and requests.
THEOREM RowsStayCoherent == Spec => []RegistryInv
  BY InitHolds, NextKeeps, PTL DEF Spec

\* stop_instance signals the pid of a browser launched for the instance it stops, and a
\* process of somebody else only when it got that pid after the browser had exited:
\* for any pids, handed out again in any order.
THEOREM SignalsReachOwn == Spec => SignalsOwnPid
  <1> DEFINE Own == \A p \in Processes : Signals(p) =>
       \E r \in op[p].row : \E n \in LaunchedAs(op[p].id, r.pid) :
         \A k \in alive : pidOf[k] = r.pid => k = n \/ (k > n /\ n \notin alive)
  <1>1. RegistryInv /\ [Next]_vars => [Own]_vars
    <2> SUFFICES ASSUME RegistryInv, Next, NEW p \in Processes, At(p, "terminate"),
                        op'[p] # Idle, Head(op'[p].steps) = "still_up"
                 PROVE  \E r \in op[p].row : \E n \in LaunchedAs(op[p].id, r.pid) :
                          \A k \in alive : pidOf[k] = r.pid => k = n \/ (k > n /\ n \notin alive)
      BY DEF Signals
    <2>1. op[p] # Idle /\ Head(op[p].steps) = "terminate" BY DEF At
    <2>2. op'[p] # op[p] BY <2>1
    <2>3. PICK q \in Processes : Request(q) \/ Step(q) \/ Abandon(q)
      BY <2>2 DEF Next, ExternalBrowser, OtherProcess, Exit, LeaseMoves
    <2>4. q = p
      <3>1. op \in [Processes -> Operations \cup {Idle}] BY DEF RegistryInv, TypeOK
      <3>2. ASSUME q # p, Request(q) PROVE op'[p] = op[p]
        BY <3>1, <3>2 DEF Request, ListInstances, StartInstance, AttachInstance, StopInstance,
           Ask, Begin
      <3>3. ASSUME q # p, Abandon(q) PROVE op'[p] = op[p]
        BY <3>1, <3>3 DEF Abandon, Answer
      <3>4. ASSUME q # p, Step(q) PROVE op'[p] = op[p]
        <4>1. CASE ListStep(q) \/ RefreshedStep(q) \/ GetStep(q)
          BY <3>1, <3>4, <4>1 DEF ListStep, RefreshedStep, GetStep, Continue, Answer
        <4>2. CASE AccessStep(q) \/ AcquireStep(q) \/ ReleaseStep(q)
          BY <3>1, <3>4, <4>2 DEF AccessStep, AcquireStep, ReleaseStep, Continue, Answer
        <4>3. CASE \/ \E r \in op[q].snapshot : ProbeStep(q, r)
                   \/ \E r \in op[q].probed : WriteBackStep(q, r)
          BY <3>1, <3>4, <4>3 DEF ProbeStep, WriteBackStep
        <4>4. CASE \E r \in op[q].row : VersionStep(q, r) \/ SeedStep(q, r)
          BY <3>1, <3>4, <4>4 DEF VersionStep, SeedStep, Continue, Answer
        <4>6. CASE \E r \in op[q].row : LaunchStep(q, r)
          <5>1. ASSUME NEW o, Continue(q, o) PROVE op'[p] = op[p]
            BY <3>1, <3>4, <5>1 DEF Continue
          <5>. QED BY <3>1, <3>4, <4>6, <5>1 DEF LaunchStep, Answer
        <4>5. CASE \E r \in op[q].row : \/ TargetsStep(q, r) \/ TerminateStep(q, r)
                                        \/ StillUpStep(q, r) \/ UpsertStep(q, r)
          BY <3>1, <3>4, <4>5 DEF TargetsStep, TerminateStep, StillUpStep, UpsertStep,
             Continue, Answer
        <4>. QED BY <3>4, <4>1, <4>2, <4>3, <4>4, <4>5, <4>6 DEF Step
      <3>5. q # p => op'[p] = op[p] BY <2>3, <3>2, <3>3, <3>4
      <3>. QED BY <2>2, <3>5
    <2>5. ~Request(p)
      BY <2>1 DEF Request, ListInstances, StartInstance, AttachInstance, StopInstance, Ask, Begin
    <2>6. ~Abandon(p) BY DEF Abandon, Answer, RegistryInv, TypeOK
    <2>7. PICK r \in op[p].row : TerminateStep(p, r)
      BY <2>1, <2>3, <2>4, <2>5, <2>6
         DEF Step, At, ListStep, RefreshedStep, ProbeStep, WriteBackStep, GetStep, AccessStep,
             AcquireStep, ReleaseStep, VersionStep, SeedStep, LaunchStep, TargetsStep,
             StillUpStep, UpsertStep
    <2>8. r.mode = "managed" /\ r.pid # 0
      BY <2>7 DEF TerminateStep, Answer, RegistryInv, TypeOK
    <2>9. Coherent(r) /\ r.id = op[p].id BY <2>1, Running
    <2>10. PICK n \in LaunchedAs(op[p].id, r.pid) : TRUE BY <2>8, <2>9 DEF Coherent
    <2>11. ASSUME NEW k \in alive, pidOf[k] = r.pid, k # n
           PROVE  k > n /\ n \notin alive
      <3>1. /\ k \in DOMAIN launchedFor /\ n \in DOMAIN launchedFor /\ pidOf[n] = r.pid
            /\ k \in Nat /\ n \in Nat
        BY StartedNumbers DEF RegistryInv, TypeOK, LaunchedAs
      <3>2. k < n => k \notin alive BY <2>11, <3>1 DEF RegistryInv, PidsReusedLate
      <3>3. n < k BY <2>11, <3>1, <3>2
      <3>. QED BY <2>11, <3>1, <3>3 DEF RegistryInv, PidsReusedLate
    <2>. QED BY <2>11
  <1>. QED BY <1>1, RowsStayCoherent, PTL DEF Spec, SignalsOwnPid

=============================================================================
