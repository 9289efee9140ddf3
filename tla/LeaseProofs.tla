----------------------------- MODULE LeaseProofs -----------------------------
(***************************************************************************)
(* Theorems about LeaseCoordination, for every set of processes, instances *)
(* and holders, every assignment of lease ids and every number of          *)
(* fractions of a second: one writer at most, and LeaseCoordination        *)
(* implements ExclusiveWriter.                                             *)
(***************************************************************************)
EXTENDS LeaseCoordination, TLAPS

-----------------------------------------------------------------------------
(* The rows that the statements leave.                                     *)

\* A lease that build_instance_lease builds from a clock reading is a row.
LEMMA BuiltLeaseType ==
  ASSUME NEW i \in Instances, NEW h \in Holders, NEW m \in Modes,
         NEW ttl \in Nat, NEW t \in Time
  PROVE  /\ build_instance_lease(i, h, m, ttl, t) \in LeaseRecord
         /\ build_instance_lease(i, h, m, ttl, t).resource = i
         /\ build_instance_lease(i, h, m, ttl, t).holder = h
         /\ build_instance_lease(i, h, m, ttl, t).mode = m
<1>1. ClampTtl(ttl) \in Nat
  BY TtlAssumption DEF ClampTtl
<1>2. [sec |-> t.sec + ClampTtl(ttl), frac |-> t.frac] \in Time
  BY <1>1 DEF Time
<1>. QED  BY <1>2 DEF build_instance_lease, LeaseRecord

\* A clock reading made between two moments is a time.
LEMMA ReadingType ==
  ASSUME TypeOK, NEW now \in Time, NEW t \in ReadSince(now)
  PROVE  t \in Time /\ t.sec <= clock.sec
BY DEF TypeOK, ReadSince, Time, NotAfter, Before

-----------------------------------------------------------------------------
(* Types.                                                                  *)

\* Moving a request on keeps req's type, and the rest of the request.
LEMMA GoToType ==
  ASSUME TypeOK, NEW p \in Processes, req[p] # Idle, NEW pc, NEW now \in Time,
         pc \in {"acquire", "settle", "operate"}, GoTo(p, pc, now)
  PROVE  /\ req' \in [Processes -> RequestState \cup {Idle}]
         /\ \A q \in Processes \ {p} : req'[q] = req[q]
         /\ req'[p] \in RequestState /\ req'[p].pc = pc /\ req'[p].now = now
         /\ req'[p].resource = req[p].resource /\ req'[p].modes = req[p].modes
         /\ req'[p].holder = req[p].holder /\ req'[p].to = req[p].to
<1>1. req[p] \in RequestState
  BY DEF TypeOK
<1>2. [req[p] EXCEPT !.pc = pc, !.now = now] \in RequestState
  BY <1>1 DEF RequestState
<1>3. /\ req' \in [Processes -> RequestState \cup {Idle}]
      /\ \A q \in Processes \ {p} : req'[q] = req[q]
      /\ req'[p] = [req[p] EXCEPT !.pc = pc, !.now = now]
  BY <1>2 DEF TypeOK, GoTo
<1>. QED  BY <1>1, <1>2, <1>3 DEF RequestState

LEMMA AnswerType ==
  ASSUME TypeOK, NEW p \in Processes, Answer(p)
  PROVE  /\ req' \in [Processes -> RequestState \cup {Idle}]
         /\ \A q \in Processes \ {p} : req'[q] = req[q]
         /\ req'[p] = Idle
BY DEF TypeOK, Answer

LEMMA StartType ==
  ASSUME TypeOK, NEW p \in Processes, NEW r \in RequestState, Start(p, r)
  PROVE  /\ req' \in [Processes -> RequestState \cup {Idle}]
         /\ \A q \in Processes \ {p} : req'[q] = req[q]
         /\ req[p] = Idle /\ req'[p] = r
BY DEF TypeOK, Start

\* A pending request: its parts have their types.
LEMMA PendingType ==
  ASSUME TypeOK, NEW p \in Processes, req[p] # Idle
  PROVE  /\ req[p] \in RequestState
         /\ req[p].resource \in Instances /\ req[p].holder \in Holders
         /\ req[p].to \in Holders /\ req[p].ttl \in Nat /\ req[p].now \in Time
         /\ req[p].modes \subseteq Modes /\ TheMode(p) \in Modes
BY TtlsAssumption DEF TypeOK, RequestState, TheMode, Modes

\* Pruning, deleting and upserting leave rows.
LEMMA StatementTypes ==
  ASSUME NEW rows \in SUBSET LeaseRecord, NEW now, NEW i, NEW h, NEW modes,
         NEW lease \in LeaseRecord
  PROVE  /\ prune_expired_leases(rows, now) \subseteq LeaseRecord
         /\ delete_leases(rows, i, h, modes) \subseteq LeaseRecord
         /\ upsert_lease(rows, lease) \subseteq LeaseRecord
BY DEF prune_expired_leases, delete_leases, upsert_lease

\* A time is a time after the clock has moved, and seconds do not decrease.
LEMMA TickType ==
  ASSUME TypeOK, Tick
  PROVE  clock' \in Time /\ clock.sec <= clock'.sec
<1>1. clock \in Time /\ clock.sec \in Nat /\ clock.frac \in 0 .. Fractions - 1
  BY DEF TypeOK, Time
<1>2. CASE clock.frac + 1 < Fractions
  <2>1. clock' = [clock EXCEPT !.frac = clock.frac + 1]
    BY <1>2 DEF Tick
  <2>2. clock.frac + 1 \in 0 .. Fractions - 1
    BY <1>1, <1>2, FractionsAssumption
  <2>. QED  BY <1>1, <2>1, <2>2 DEF Time
<1>3. CASE ~(clock.frac + 1 < Fractions)
  BY <1>1, <1>3, FractionsAssumption DEF Tick, Time
<1>. QED  BY <1>2, <1>3

-----------------------------------------------------------------------------
(* At most one writer.                                                     *)

\* Removing rows cannot add a writer.
LEMMA FewerRowsOneWriter ==
  ASSUME OneWriter, leases' \subseteq leases
  PROVE  OneWriter'
BY DEF OneWriter

LEMMA TextLEReflexive ==
  ASSUME NEW t \in Time
  PROVE  TextLE(t, t)
BY FractionsAssumption DEF Time, TextLE, FractionRankIsNat

\* If acquire_lease finds no conflicting writer, the rows it keeps hold no writer
\* row of another holder: the one writer row there can be is the one it looks at.
LEMMA NoConflictNoOtherWriter ==
  ASSUME TypeOK, OneWriter, NEW now, NEW lease \in LeaseRecord, lease.mode = "writer",
         ~WriterConflict(prune_expired_leases(leases, now), lease, now),
         NEW w \in prune_expired_leases(leases, now),
         w.mode = "writer", w.resource = lease.resource
  PROVE  w.holder = lease.holder
<1> DEFINE kept == prune_expired_leases(leases, now)
           active == {r \in list_leases(kept, lease.resource, now) : r.mode = "writer"}
<1>1. kept \subseteq leases /\ w \in LeaseRecord
  BY DEF prune_expired_leases, TypeOK
<1>2. w \in active /\ \A v \in active : v = w
  BY <1>1 DEF list_leases, prune_expired_leases, OneWriter
<1>3. TextLE(w.granted_at, w.granted_at)
  BY <1>1, TextLEReflexive DEF LeaseRecord
<1>4. w \in get_writer_lease(kept, lease.resource, now)
  BY <1>2, <1>3 DEF get_writer_lease
<1>. QED  BY <1>4 DEF WriterConflict

\* acquire_lease keeps one writer.
LEMMA AcquireOneWriter ==
  ASSUME TypeOK, OneWriter, NEW now, NEW lease \in LeaseRecord,
         ~WriterConflict(prune_expired_leases(leases, now), lease, now),
         leases' = acquire_lease(leases, lease, now)
  PROVE  OneWriter'
<1> DEFINE kept == prune_expired_leases(leases, now)
<1>1. kept \subseteq leases
  BY DEF prune_expired_leases
<1>2. leases' = {r \in kept : ~SameKey(r, lease)} \cup {lease}
  BY DEF acquire_lease, upsert_lease
<1>3. ASSUME NEW a \in leases', a.mode = "writer", lease.mode = "writer",
             a.resource = lease.resource
      PROVE  a = lease
  BY <1>2, <1>3, NoConflictNoOtherWriter DEF SameKey
<1>. QED  BY <1>1, <1>2, <1>3 DEF OneWriter

\* transfer_writer_lease keeps one writer: the row it deletes was the only one.
LEMMA TransferOneWriter ==
  ASSUME TypeOK, OneWriter, NEW now, NEW i, NEW from, NEW lease \in LeaseRecord,
         lease.resource = i, lease.mode = "writer",
         TransferredRows(leases, i, from, now) # {},
         leases' = transfer_writer_lease(leases, i, from, lease, now)
  PROVE  OneWriter'
<1>1. PICK x \in leases : x.resource = i /\ x.holder = from /\ x.mode = "writer"
  BY DEF TransferredRows, prune_expired_leases
<1> DEFINE rest == AfterTransferDelete(leases, i, from, now)
<1>2. rest \subseteq leases
  BY DEF AfterTransferDelete, delete_leases, prune_expired_leases
<1>3. \A a \in rest : ~(a.resource = i /\ a.mode = "writer")
  BY <1>1, <1>2 DEF AfterTransferDelete, delete_leases, OneWriter
<1>4. leases' \subseteq rest \cup {lease}
  BY DEF transfer_writer_lease, upsert_lease
<1>. QED  BY <1>2, <1>3, <1>4 DEF OneWriter

-----------------------------------------------------------------------------
(* The invariant is inductive: one lemma per action.                       *)

\* What a step of one process has to establish.
LEMMA StepKeepsInv ==
  ASSUME LeaseInv, NEW p \in Processes, clock' = clock,
         req' \in [Processes -> RequestState \cup {Idle}],
         \A q \in Processes \ {p} : req'[q] = req[q],
         req'[p] = Idle \/ req'[p].now.sec <= clock.sec,
         leases' \subseteq LeaseRecord, OneWriter'
  PROVE  LeaseInv'
BY DEF LeaseInv, TypeOK, ReadingsPast

LEMMA PruneKeepsRows ==
  ASSUME LeaseInv, NEW now, leases' = prune_expired_leases(leases, now)
  PROVE  leases' \subseteq LeaseRecord /\ OneWriter'
<1>1. leases' \subseteq leases
  BY DEF prune_expired_leases
<1>. QED  BY <1>1, FewerRowsOneWriter DEF LeaseInv, TypeOK

LEMMA SameRowsKept ==
  ASSUME LeaseInv, leases' = leases
  PROVE  leases' \subseteq LeaseRecord /\ OneWriter'
BY FewerRowsOneWriter DEF LeaseInv, TypeOK

LEMMA EpochType == Epoch \in Time /\ Epoch.sec = 0
BY FractionsAssumption DEF Epoch, Time

LEMMA ClockType ==
  ASSUME TypeOK
  PROVE  clock \in Time /\ clock.sec \in Nat /\ Epoch.sec <= clock.sec
BY EpochType DEF TypeOK, Time

LEMMA LeaseAcquireInv ==
  ASSUME LeaseInv, NEW p \in Processes, NEW i \in Instances, NEW h \in Holders,
         NEW m \in Modes, NEW ttl \in Ttls, LeaseAcquire(p, i, h, m, ttl)
  PROVE  LeaseInv'
<1> DEFINE r == [pc |-> "acquire", resource |-> i, holder |-> h, to |-> h,
                 modes |-> {m}, ttl |-> ttl, now |-> clock, access |-> FALSE]
<1>1. r \in RequestState /\ r.now.sec <= clock.sec
  BY ClockType DEF RequestState, LeaseInv
<1>2. Start(p, r) /\ clock' = clock /\ leases' = leases
  BY DEF LeaseAcquire
<1>3. r # Idle
  BY <1>1, IdleAssumption
<1> HIDE DEF r
<1>. QED  BY <1>1, <1>2, StartType, StepKeepsInv, SameRowsKept DEF LeaseInv

LEMMA LeaseReleaseInv ==
  ASSUME LeaseInv, NEW p \in Processes, NEW i \in Instances, NEW h \in Holders,
         NEW modes \in SUBSET Modes, LeaseRelease(p, i, h, modes)
  PROVE  LeaseInv'
<1> DEFINE r == [pc |-> "delete", resource |-> i, holder |-> h, to |-> h,
                 modes |-> modes, ttl |-> DefaultTtl, now |-> Epoch, access |-> FALSE]
<1>1. r \in RequestState /\ r.now.sec <= clock.sec
  BY ClockType, EpochType DEF RequestState, LeaseInv
<1>2. Start(p, r) /\ clock' = clock /\ leases' = prune_expired_leases(leases, clock)
  BY DEF LeaseRelease
<1> HIDE DEF r
<1>. QED  BY <1>1, <1>2, StartType, StepKeepsInv, PruneKeepsRows DEF LeaseInv

LEMMA LeaseTransferInv ==
  ASSUME LeaseInv, NEW p \in Processes, NEW i \in Instances, NEW h \in Holders,
         NEW to \in Holders, NEW ttl \in Ttls, LeaseTransfer(p, i, h, to, ttl)
  PROVE  LeaseInv'
<1> DEFINE r == [pc |-> "transfer", resource |-> i, holder |-> h, to |-> to,
                 modes |-> {"writer"}, ttl |-> ttl, now |-> clock, access |-> FALSE]
<1>1. r \in RequestState /\ r.now.sec <= clock.sec
  BY ClockType DEF RequestState, LeaseInv, Modes
<1>2. Start(p, r) /\ clock' = clock /\ leases' = prune_expired_leases(leases, clock)
  BY DEF LeaseTransfer
<1> HIDE DEF r
<1>. QED  BY <1>1, <1>2, StartType, StepKeepsInv, PruneKeepsRows DEF LeaseInv

LEMMA RequireInstanceAccessInv ==
  ASSUME LeaseInv, NEW p \in Processes, NEW i \in Instances, NEW h \in Holders,
         NEW required \in Modes, RequireInstanceAccess(p, i, h, required)
  PROVE  LeaseInv'
<1> DEFINE r == [pc |-> "list", resource |-> i, holder |-> h, to |-> h,
                 modes |-> {required}, ttl |-> DefaultTtl, now |-> clock, access |-> TRUE]
<1>1. r \in RequestState /\ r.now.sec <= clock.sec
  BY ClockType DEF RequestState, LeaseInv
<1>2. Start(p, r) /\ clock' = clock /\ leases' = prune_expired_leases(leases, clock)
  BY DEF RequireInstanceAccess
<1> HIDE DEF r
<1>. QED  BY <1>1, <1>2, StartType, StepKeepsInv, PruneKeepsRows DEF LeaseInv

\* A step that moves a request on or answers it, with rows already shown good.
LEMMA MoveOnInv ==
  ASSUME LeaseInv, NEW p \in Processes, req[p] # Idle, clock' = clock,
         leases' \subseteq LeaseRecord, OneWriter',
         \/ Answer(p)
         \/ GoTo(p, "settle", Epoch)
         \/ GoTo(p, "operate", Epoch)
         \/ GoTo(p, "acquire", clock)
  PROVE  LeaseInv'
<1>1. Epoch \in Time /\ clock \in Time /\ Epoch.sec <= clock.sec /\ clock.sec <= clock.sec
  BY ClockType, EpochType DEF LeaseInv
<1>2. CASE Answer(p)
  BY <1>2, AnswerType, StepKeepsInv DEF LeaseInv
<1>3. ASSUME NEW pc \in {"settle", "operate"}, GoTo(p, pc, Epoch)
      PROVE  LeaseInv'
  BY <1>1, <1>3, GoToType, StepKeepsInv DEF LeaseInv
<1>4. CASE GoTo(p, "acquire", clock)
  BY <1>1, <1>4, GoToType, StepKeepsInv DEF LeaseInv
<1>. QED  BY <1>2, <1>3, <1>4

LEMMA AcquireTransactionInv ==
  ASSUME LeaseInv, NEW p \in Processes, req[p] # Idle,
         NEW t \in ReadSince(req[p].now), AcquireTransaction(p, t)
  PROVE  LeaseInv'
<1> DEFINE r == req[p]
           lease == build_instance_lease(r.resource, r.holder, TheMode(p), r.ttl, t)
<1>1. lease \in LeaseRecord
  BY PendingType, ReadingType, BuiltLeaseType DEF LeaseInv
<1>2. CASE UNCHANGED leases /\ Answer(p)
  BY <1>2, SameRowsKept, MoveOnInv DEF AcquireTransaction
<1>3. CASE /\ ~WriterConflict(prune_expired_leases(leases, r.now), lease, r.now)
           /\ leases' = acquire_lease(leases, lease, r.now)
           /\ GoTo(p, "settle", Epoch)
  <2> HIDE DEF lease
  <2>1. leases' \subseteq LeaseRecord
    BY <1>1, <1>3, StatementTypes DEF acquire_lease, LeaseInv, TypeOK
  <2>2. OneWriter'
    BY <1>1, <1>3, AcquireOneWriter DEF LeaseInv
  <2>. QED  BY <1>3, <2>1, <2>2, MoveOnInv DEF AcquireTransaction
<1>. QED  BY <1>2, <1>3 DEF AcquireTransaction

LEMMA TransferTransactionInv ==
  ASSUME LeaseInv, NEW p \in Processes, req[p] # Idle,
         NEW t \in ReadSince(req[p].now), TransferTransaction(p, t)
  PROVE  LeaseInv'
<1> DEFINE r == req[p]
           lease == build_instance_lease(r.resource, r.to, "writer", r.ttl, t)
<1>1. lease \in LeaseRecord /\ lease.resource = r.resource /\ lease.mode = "writer"
  BY PendingType, ReadingType, BuiltLeaseType DEF LeaseInv, Modes
<1>2. CASE UNCHANGED leases /\ Answer(p)
  BY <1>2, SameRowsKept, MoveOnInv DEF TransferTransaction
<1>3. CASE /\ TransferredRows(leases, r.resource, r.holder, r.now) # {}
           /\ leases' = transfer_writer_lease(leases, r.resource, r.holder, lease, r.now)
           /\ GoTo(p, "settle", Epoch)
  <2> HIDE DEF lease
  <2>1. leases' \subseteq LeaseRecord
    BY <1>1, <1>3, StatementTypes
       DEF transfer_writer_lease, AfterTransferDelete, LeaseInv, TypeOK
  <2>2. OneWriter'
    BY <1>1, <1>3, TransferOneWriter DEF LeaseInv
  <2>. QED  BY <1>3, <2>1, <2>2, MoveOnInv DEF TransferTransaction
<1>. QED  BY <1>2, <1>3 DEF TransferTransaction

LEMMA OtherStepsInv ==
  ASSUME LeaseInv, NEW p \in Processes,
         \/ Settle(p)
         \/ DeleteLeases(p)
         \/ DecideAccess(p)
         \/ CompleteOperation(p)
         \/ Abandon(p)
         \/ LeaseStatus(p)
  PROVE  LeaseInv'
<1>1. CASE Settle(p)
  BY <1>1, PruneKeepsRows, MoveOnInv DEF Settle, At
<1>2. CASE DeleteLeases(p)
  <2>1. leases' \subseteq leases
    BY <1>2 DEF DeleteLeases, delete_leases
  <2>2. leases' \subseteq LeaseRecord /\ OneWriter'
    BY <2>1, FewerRowsOneWriter DEF LeaseInv, TypeOK
  <2>. QED  BY <1>2, <2>2, MoveOnInv DEF DeleteLeases, At
<1>3. CASE DecideAccess(p)
  BY <1>3, SameRowsKept, MoveOnInv DEF DecideAccess, At
<1>4. CASE CompleteOperation(p) \/ Abandon(p)
  BY <1>4, SameRowsKept, MoveOnInv DEF CompleteOperation, Abandon, At
<1>5. CASE LeaseStatus(p)
  BY <1>5, PruneKeepsRows DEF LeaseStatus, LeaseInv, TypeOK, ReadingsPast
<1>. QED  BY <1>1, <1>2, <1>3, <1>4, <1>5

LEMMA TickInv ==
  ASSUME LeaseInv, Tick
  PROVE  LeaseInv'
<1>1. clock' \in Time /\ clock.sec <= clock'.sec /\ clock.sec \in Nat /\ clock'.sec \in Nat
  BY TickType DEF LeaseInv, TypeOK, Time
<1>2. leases' = leases /\ req' = req
  BY DEF Tick
<1>3. ReadingsPast'
  <2> SUFFICES ASSUME NEW p \in Processes, req[p] # Idle
               PROVE  req[p].now.sec <= clock'.sec
    BY <1>2 DEF ReadingsPast
  <2>1. req[p].now.sec \in Nat /\ req[p].now.sec <= clock.sec
    BY PendingType DEF LeaseInv, ReadingsPast, Time
  <2>. QED  BY <1>1, <2>1
<1>. QED  BY <1>1, <1>2, <1>3, SameRowsKept DEF LeaseInv, TypeOK

LEMMA NextInv ==
  ASSUME LeaseInv, [Next]_vars
  PROVE  LeaseInv'
<1>1. ASSUME NEW p \in Processes, Request(p)
      PROVE  LeaseInv'
  BY <1>1, LeaseAcquireInv, LeaseReleaseInv, LeaseTransferInv, RequireInstanceAccessInv
     DEF Request
<1>2. ASSUME NEW p \in Processes, Step(p)
      PROVE  LeaseInv'
  BY <1>2, AcquireTransactionInv, TransferTransactionInv, OtherStepsInv DEF Step
<1>3. CASE UNCHANGED vars
  BY <1>3 DEF vars, LeaseInv, TypeOK, ReadingsPast, OneWriter
<1>. QED  BY <1>1, <1>2, <1>3, OtherStepsInv, TickInv DEF Next

LEMMA InitInv == Init => LeaseInv
BY EpochType DEF Init, LeaseInv, TypeOK, ReadingsPast, OneWriter

\* The state stays well typed, requests only carry timestamps of the past, and no
\* instance ever has two writer rows, whatever the processes do.
THEOREM LeaseInvariance == Spec => []LeaseInv
BY InitInv, NextInv, PTL DEF Spec

\* Writer leases are exclusive: acquire_lease and transfer_writer_lease never leave
\* two writer rows for an instance, for any number of processes and holders.
THEOREM WriterExclusion == Spec => []OneWriter
<1>1. LeaseInv => OneWriter
  BY DEF LeaseInv
<1>. QED  BY <1>1, LeaseInvariance, PTL

-----------------------------------------------------------------------------
(***************************************************************************)
(* The refinement: every statement and every transaction on the leases     *)
(* table is a step of ExclusiveWriter, or changes nothing that the promise *)
(* speaks of.                                                              *)
(***************************************************************************)

Asked == [p \in Processes |-> WishOf(req[p])]

\* Grants are what the writer rows say.
LEMMA GrantMembership ==
  ASSUME NEW rows, NEW g
  PROVE  g \in GrantsOf(rows) <=> \E r \in rows : r.mode = "writer" /\ g = GrantOf(r)
BY DEF GrantsOf

\* A row that the prune removes has reached the second in which it expires: the
\* text order differs from the order of time within one second only.
LEMMA PrunedRowsHaveLapsed ==
  ASSUME NEW rows \in SUBSET LeaseRecord, NEW now \in Time, now.sec <= clock.sec,
         clock \in Time, NEW r \in rows, r \notin prune_expired_leases(rows, now)
  PROVE  r.expires_at.sec <= clock.sec
<1>1. TextLE(r.expires_at, now)
  BY DEF prune_expired_leases
<1>2. r.expires_at.sec \in Nat /\ now.sec \in Nat /\ clock.sec \in Nat
  BY DEF LeaseRecord, Time
<1>3. r.expires_at.sec <= now.sec
  BY <1>1, <1>2 DEF TextLE
<1>. QED  BY <1>2, <1>3

\* What a prune takes from the grants.
LapsedBy(now) == GrantsOf(leases) \ GrantsOf(prune_expired_leases(leases, now))

\* A prune with a timestamp of the past takes lapsed grants only.
LEMMA PruneLapses ==
  ASSUME LeaseInv, NEW now \in Time, now.sec <= clock.sec
  PROVE  /\ LapsedBy(now) \in SUBSET Promise!Lapsed
         /\ GrantsOf(prune_expired_leases(leases, now)) = GrantsOf(leases) \ LapsedBy(now)
<1> DEFINE kept == prune_expired_leases(leases, now)
<1>1. kept \subseteq leases
  BY DEF prune_expired_leases
<1>2. GrantsOf(kept) \subseteq GrantsOf(leases)
  BY <1>1, GrantMembership
<1>3. ASSUME NEW g \in LapsedBy(now)
      PROVE  g \in GrantsOf(leases) /\ g.expires_at.sec <= clock.sec
  <2>1. PICK r \in leases : r.mode = "writer" /\ g = GrantOf(r)
    BY <1>3, GrantMembership DEF LapsedBy
  <2>2. r \notin kept
    BY <1>3, <2>1, GrantMembership DEF LapsedBy
  <2>3. r.expires_at.sec <= clock.sec
    BY <2>2, PrunedRowsHaveLapsed DEF LeaseInv, TypeOK
  <2>. QED  BY <1>3, <2>1, <2>3 DEF GrantOf, LapsedBy
<1>. QED  BY <1>2, <1>3 DEF LapsedBy, Promise!Lapsed

\* What a request wishes for is a wish.
LEMMA WishType ==
  ASSUME NEW r \in RequestState \cup {Idle}
  PROVE  WishOf(r) \in SUBSET Promise!Wish
<1>1. CASE r = Idle
  BY <1>1 DEF WishOf
<1>2. CASE r \in RequestState
  <2>1. /\ WishKind(r.pc) \in {"acquire", "release", "transfer"}
        /\ r.resource \in Instances /\ r.holder \in Holders /\ r.to \in Holders
    BY <1>2 DEF RequestState, WishKind
  <2>. QED  BY <2>1 DEF WishOf, Promise!Wish
<1>. QED  BY <1>1, <1>2

-----------------------------------------------------------------------------
(* Steps of the promise.                                                   *)

\* One process's request changed, and at most lapsed grants are gone.
LEMMA AskStep ==
  ASSUME LeaseInv, LeaseInv', NEW p \in Processes, clock' = clock,
         \A q \in Processes \ {p} : req'[q] = req[q],
         NEW S \in SUBSET Promise!Lapsed,
         GrantsOf(leases') = GrantsOf(leases) \ S
  PROVE  Promise!Next
<1>1. Asked' \in [Processes -> SUBSET Promise!Wish]
  <2> SUFFICES ASSUME NEW q \in Processes
               PROVE  WishOf(req'[q]) \in SUBSET Promise!Wish
    BY DEF Asked
  <2>1. req'[q] \in RequestState \cup {Idle}
    BY DEF LeaseInv, TypeOK
  <2>. QED  BY <2>1, WishType
<1>2. \A q \in Processes \ {p} : Asked'[q] = Asked[q]
  BY DEF Asked
<1>3. Promise!Ask(p, S)
  BY <1>1, <1>2 DEF Promise!Ask, Asked
<1>4. Promise!Act(p)
  BY <1>3 DEF Promise!Act
<1>. QED  BY <1>4 DEF Promise!Next

\* The request of one process is done, and nobody else's changed.
LEMMA FulfilStep ==
  ASSUME LeaseInv, LeaseInv', NEW p \in Processes,
         \A q \in Processes \ {p} : req'[q] = req[q],
         WishOf(req'[p]) = {}
  PROVE  Promise!Fulfil(p)
<1>1. Asked' = [Asked EXCEPT ![p] = {}]
  BY DEF Asked
<1>. QED  BY <1>1 DEF Promise!Fulfil, Asked

\* A prune on its own.
LEMMA PruneStep ==
  ASSUME LeaseInv, LeaseInv', NEW p \in Processes, clock' = clock,
         \A q \in Processes \ {p} : req'[q] = req[q],
         NEW now \in Time, now.sec <= clock.sec,
         leases' = prune_expired_leases(leases, now)
  PROVE  Promise!Next
BY PruneLapses, AskStep

\* No row changed.
LEMMA SameRowsStep ==
  ASSUME LeaseInv, LeaseInv', NEW p \in Processes, clock' = clock,
         \A q \in Processes \ {p} : req'[q] = req[q], leases' = leases
  PROVE  Promise!Next
<1>1. {} \in SUBSET Promise!Lapsed /\ GrantsOf(leases') = GrantsOf(leases) \ {}
  OBVIOUS
<1>. QED  BY <1>1, AskStep

\* A lease of MaxTtl at most, granted in the past, is a grant of the promise.
LEMMA BuiltGrant ==
  ASSUME TypeOK, NEW i \in Instances, NEW h \in Holders, NEW ttl \in Nat, NEW t \in Time,
         t.sec <= clock.sec
  PROVE  GrantOf(build_instance_lease(i, h, "writer", ttl, t)) \in Promise!Grant
<1>1. ClampTtl(ttl) \in Nat /\ ClampTtl(ttl) <= MaxTtl
  BY TtlAssumption DEF ClampTtl
<1>2. t.sec \in Nat /\ clock.sec \in Nat /\ t.frac \in 0 .. Fractions - 1
  BY DEF TypeOK, Time
<1>3. t.sec + ClampTtl(ttl) \in 0 .. clock.sec + MaxTtl
  BY <1>1, <1>2, TtlAssumption
<1>. QED  BY <1>2, <1>3 DEF GrantOf, build_instance_lease, Promise!Grant

\* Upserting a writer row replaces the instance's grant, if only that holder had it.
LEMMA UpsertWriter ==
  ASSUME NEW rows \in SUBSET LeaseRecord, NEW lease \in LeaseRecord, lease.mode = "writer",
         \A r \in rows : r.mode = "writer" /\ r.resource = lease.resource
                           => r.holder = lease.holder
  PROVE  GrantsOf(upsert_lease(rows, lease)) =
           {x \in GrantsOf(rows) : x.resource # lease.resource} \cup {GrantOf(lease)}
<1> DEFINE new == upsert_lease(rows, lease)
           old == {x \in GrantsOf(rows) : x.resource # lease.resource}
<1>1. ASSUME NEW g \in GrantsOf(new) PROVE g \in old \cup {GrantOf(lease)}
  <2>1. PICK r \in new : r.mode = "writer" /\ g = GrantOf(r)
    BY <1>1, GrantMembership
  <2>2. CASE r = lease
    BY <2>1, <2>2
  <2>3. CASE r \in rows /\ ~SameKey(r, lease)
    <3>1. r.resource # lease.resource
      BY <2>1, <2>3 DEF SameKey
    <3>2. g \in GrantsOf(rows) /\ g.resource = r.resource
      BY <2>1, <2>3, GrantMembership DEF GrantOf
    <3>. QED  BY <3>1, <3>2
  <2>. QED  BY <2>2, <2>3 DEF upsert_lease
<1>2. ASSUME NEW g \in old PROVE g \in GrantsOf(new)
  <2>1. PICK r \in rows : r.mode = "writer" /\ g = GrantOf(r)
    BY <1>2, GrantMembership
  <2>2. r \in new
    BY <1>2, <2>1 DEF upsert_lease, SameKey, GrantOf
  <2>. QED  BY <2>1, <2>2, GrantMembership
<1>3. GrantOf(lease) \in GrantsOf(new)
  BY GrantMembership DEF upsert_lease
<1>. QED  BY <1>1, <1>2, <1>3

\* Upserting an observer row leaves the grants alone.
LEMMA UpsertObserver ==
  ASSUME NEW rows, NEW lease, lease.mode # "writer"
  PROVE  GrantsOf(upsert_lease(rows, lease)) = GrantsOf(rows)
<1>1. ASSUME NEW g
      PROVE  g \in GrantsOf(upsert_lease(rows, lease)) <=> g \in GrantsOf(rows)
  BY GrantMembership DEF upsert_lease, SameKey
<1>. QED  BY <1>1

-----------------------------------------------------------------------------
(* The actions.                                                            *)

\* Every request starts with a clock reading and at most a prune.
LEMMA RequestSimulates ==
  ASSUME LeaseInv, LeaseInv', NEW p \in Processes, Request(p) \/ LeaseStatus(p)
  PROVE  Promise!Next
<1>1. clock \in Time /\ clock.sec <= clock.sec
  BY ClockType DEF LeaseInv
<1>2. clock' = clock /\ \A q \in Processes \ {p} : req'[q] = req[q]
  BY DEF Request, LeaseStatus, LeaseAcquire, LeaseRelease, LeaseTransfer,
         RequireInstanceAccess, Start, LeaseInv, TypeOK
<1>3. leases' = leases \/ leases' = prune_expired_leases(leases, clock)
  BY DEF Request, LeaseStatus, LeaseAcquire, LeaseRelease, LeaseTransfer,
         RequireInstanceAccess
<1>. QED  BY <1>1, <1>2, <1>3, PruneStep, SameRowsStep

\* Steps that do not touch rows, or only prune.
LEMMA QuietSimulates ==
  ASSUME LeaseInv, LeaseInv', NEW p \in Processes,
         Settle(p) \/ DecideAccess(p) \/ CompleteOperation(p) \/ Abandon(p)
  PROVE  Promise!Next
<1>1. clock \in Time /\ clock.sec <= clock.sec
  BY ClockType DEF LeaseInv
<1>2. clock' = clock /\ \A q \in Processes \ {p} : req'[q] = req[q]
  BY DEF Settle, DecideAccess, CompleteOperation, Abandon, Answer, GoTo, LeaseInv, TypeOK
<1>3. leases' = leases \/ leases' = prune_expired_leases(leases, clock)
  BY DEF Settle, DecideAccess, CompleteOperation, Abandon
<1>. QED  BY <1>1, <1>2, <1>3, PruneStep, SameRowsStep

\* A request that has settled wishes for nothing.
LEMMA SettledWishesNothing ==
  ASSUME LeaseInv, NEW p \in Processes, req[p] # Idle, GoTo(p, "settle", Epoch)
  PROVE  /\ WishOf(req'[p]) = {}
         /\ \A q \in Processes \ {p} : req'[q] = req[q]
BY GoToType, EpochType DEF LeaseInv, WishOf

LEMMA AcquireSimulates ==
  ASSUME LeaseInv, LeaseInv', NEW p \in Processes, req[p] # Idle,
         NEW t \in ReadSince(req[p].now), AcquireTransaction(p, t)
  PROVE  Promise!Next
<1> DEFINE r == req[p]
           lease == build_instance_lease(r.resource, r.holder, TheMode(p), r.ttl, t)
           kept == prune_expired_leases(leases, r.now)
           S == LapsedBy(r.now)
<1>1. /\ r \in RequestState /\ r.now \in Time /\ r.now.sec <= clock.sec
      /\ t \in Time /\ t.sec <= clock.sec
  BY PendingType, ReadingType DEF LeaseInv, ReadingsPast
<1>2. lease \in LeaseRecord /\ lease.resource = r.resource /\ lease.holder = r.holder
        /\ lease.mode = TheMode(p)
  BY <1>1, PendingType, BuiltLeaseType DEF LeaseInv
<1>3. S \in SUBSET Promise!Lapsed /\ GrantsOf(kept) = GrantsOf(leases) \ S
  BY <1>1, PruneLapses
<1>4. clock' = clock /\ r.pc = "acquire"
  BY DEF AcquireTransaction, At
<1>5. CASE UNCHANGED leases /\ Answer(p)
  BY <1>4, <1>5, AnswerType, SameRowsStep DEF LeaseInv
<1>6. CASE /\ ~WriterConflict(kept, lease, r.now)
           /\ leases' = acquire_lease(leases, lease, r.now)
           /\ GoTo(p, "settle", Epoch)
  <2>1. leases' = upsert_lease(kept, lease)
    BY <1>6 DEF acquire_lease
  <2>2. WishOf(req'[p]) = {} /\ \A q \in Processes \ {p} : req'[q] = req[q]
    BY <1>6, SettledWishesNothing
  <2>3. CASE TheMode(p) # "writer"
    <3>1. GrantsOf(leases') = GrantsOf(leases) \ S
      BY <1>2, <1>3, <2>1, <2>3, UpsertObserver
    <3>. QED  BY <1>3, <1>4, <2>2, <3>1, AskStep
  <2>4. CASE TheMode(p) = "writer"
    <3> DEFINE g == GrantOf(lease)
               w == [kind |-> "acquire", resource |-> r.resource,
                     from |-> r.holder, to |-> r.holder]
    <3>1. g \in Promise!Grant
      BY <1>1, <2>4, PendingType, BuiltGrant DEF LeaseInv
    <3>2. \A x \in kept : x.mode = "writer" /\ x.resource = lease.resource
                            => x.holder = lease.holder
      BY <1>2, <1>6, <2>4, NoConflictNoOtherWriter DEF LeaseInv
    <3>3. GrantsOf(leases') = Promise!Regrant(S, g)
      <4>1. kept \in SUBSET LeaseRecord
        BY DEF prune_expired_leases, LeaseInv, TypeOK
      <4>2. g.resource = lease.resource
        BY DEF GrantOf
      <4> HIDE DEF lease, kept, S
      <4>3. GrantsOf(upsert_lease(kept, lease)) =
             {x \in GrantsOf(kept) : x.resource # lease.resource} \cup {GrantOf(lease)}
        BY <1>2, <2>4, <3>2, <4>1, UpsertWriter
      <4>. QED  BY <1>3, <2>1, <4>2, <4>3 DEF Promise!Regrant
    <3>4. \A x \in GrantsOf(leases) \ S : x.resource = g.resource => x.holder = g.holder
      BY <1>3, <3>2, GrantMembership DEF GrantOf
    <3>5. w \in Asked[p]
      BY <1>1, <1>4, <2>4 DEF Asked, WishOf, WishKind, TheMode
    <3>6. Promise!Fulfil(p)
      BY <2>2, FulfilStep
    <3>7. w.kind = "acquire" /\ w.resource = g.resource /\ w.to = g.holder
      BY <1>2 DEF GrantOf
    <3> HIDE DEF g, w, S
    <3>8. Promise!Give(p, S, w, g)
      BY <3>3, <3>4, <3>6, <3>7 DEF Promise!Give
    <3>9. Promise!Act(p)
      BY <1>3, <1>4, <3>1, <3>5, <3>8 DEF Promise!Act, Asked
    <3>. QED  BY <3>9 DEF Promise!Next
  <2>. QED  BY <2>3, <2>4
<1>. QED  BY <1>5, <1>6 DEF AcquireTransaction

LEMMA TransferSimulates ==
  ASSUME LeaseInv, LeaseInv', NEW p \in Processes, req[p] # Idle,
         NEW t \in ReadSince(req[p].now), TransferTransaction(p, t)
  PROVE  Promise!Next
<1> DEFINE r == req[p]
           lease == build_instance_lease(r.resource, r.to, "writer", r.ttl, t)
           kept == prune_expired_leases(leases, r.now)
           rest == AfterTransferDelete(leases, r.resource, r.holder, r.now)
           S == LapsedBy(r.now)
<1>1. /\ r \in RequestState /\ r.now \in Time /\ r.now.sec <= clock.sec
      /\ t \in Time /\ t.sec <= clock.sec
  BY PendingType, ReadingType DEF LeaseInv, ReadingsPast
<1>2. lease \in LeaseRecord /\ lease.resource = r.resource /\ lease.holder = r.to
        /\ lease.mode = "writer"
  BY <1>1, PendingType, BuiltLeaseType DEF LeaseInv, Modes
<1>3. S \in SUBSET Promise!Lapsed /\ GrantsOf(kept) = GrantsOf(leases) \ S
  BY <1>1, PruneLapses
<1>4. clock' = clock /\ r.pc = "transfer"
  BY DEF TransferTransaction, At
<1>5. CASE UNCHANGED leases /\ Answer(p)
  BY <1>4, <1>5, AnswerType, SameRowsStep DEF LeaseInv
<1>6. CASE /\ TransferredRows(leases, r.resource, r.holder, r.now) # {}
           /\ leases' = transfer_writer_lease(leases, r.resource, r.holder, lease, r.now)
           /\ GoTo(p, "settle", Epoch)
  <2> DEFINE g == GrantOf(lease)
             w == [kind |-> "transfer", resource |-> r.resource,
                   from |-> r.holder, to |-> r.to]
  <2>1. PICK x \in kept : x.resource = r.resource /\ x.holder = r.holder /\ x.mode = "writer"
    BY <1>6 DEF TransferredRows
  <2>2. WishOf(req'[p]) = {} /\ \A q \in Processes \ {p} : req'[q] = req[q]
    BY <1>6, SettledWishesNothing
  <2>3. g \in Promise!Grant
    BY <1>1, PendingType, BuiltGrant DEF LeaseInv
  <2>4. rest \in SUBSET LeaseRecord /\ kept \subseteq leases /\ rest \subseteq kept
    BY DEF AfterTransferDelete, delete_leases, prune_expired_leases, LeaseInv, TypeOK
  <2>5. \A y \in rest : ~(y.mode = "writer" /\ y.resource = r.resource)
    BY <2>1, <2>4 DEF AfterTransferDelete, delete_leases, LeaseInv, OneWriter
  <2>6. \A y \in kept : y.mode = "writer" /\ y.resource # r.resource => y \in rest
    BY DEF AfterTransferDelete, delete_leases
  <2>7. {y \in GrantsOf(rest) : y.resource # r.resource} =
          {y \in GrantsOf(kept) : y.resource # r.resource}
    BY <2>4, <2>6, GrantMembership DEF GrantOf
  <2>8. GrantsOf(leases') = Promise!Regrant(S, g)
    <3>1. leases' = upsert_lease(rest, lease)
      BY <1>6 DEF transfer_writer_lease
    <3>2. g.resource = r.resource
      BY <1>2 DEF GrantOf
    <3> HIDE DEF lease, kept, rest, S
    <3>3. GrantsOf(upsert_lease(rest, lease)) =
           {y \in GrantsOf(rest) : y.resource # lease.resource} \cup {GrantOf(lease)}
      BY <1>2, <2>4, <2>5, UpsertWriter
    <3>. QED  BY <1>2, <1>3, <2>7, <3>1, <3>2, <3>3 DEF Promise!Regrant
  <2>9. \E y \in GrantsOf(leases) \ S : y.resource = w.resource /\ y.holder = w.from
    <3>1. GrantOf(x) \in GrantsOf(kept)
      BY <2>1, GrantMembership
    <3>2. GrantOf(x).resource = w.resource /\ GrantOf(x).holder = w.from
      BY <2>1 DEF GrantOf
    <3>. QED  BY <1>3, <3>1, <3>2
  <2>10. w \in Asked[p]
    BY <1>1, <1>4 DEF Asked, WishOf, WishKind
  <2>11. Promise!Fulfil(p)
    BY <2>2, FulfilStep
  <2>12. w.kind = "transfer" /\ w.resource = g.resource /\ w.to = g.holder
    BY <1>2 DEF GrantOf
  <2> HIDE DEF g, w, S
  <2>13. Promise!HandOver(p, S, w, g)
    BY <2>8, <2>9, <2>11, <2>12 DEF Promise!HandOver
  <2>14. Promise!Act(p)
    BY <1>3, <1>4, <2>3, <2>10, <2>13 DEF Promise!Act, Asked
  <2>. QED  BY <2>14 DEF Promise!Next
<1>. QED  BY <1>5, <1>6 DEF TransferTransaction

LEMMA DeleteSimulates ==
  ASSUME LeaseInv, LeaseInv', NEW p \in Processes, DeleteLeases(p)
  PROVE  Promise!Next
<1> DEFINE r == req[p]
           w == [kind |-> "release", resource |-> r.resource,
                 from |-> r.holder, to |-> r.holder]
<1>1. r # Idle /\ r.pc = "delete" /\ r \in RequestState /\ clock' = clock
  BY PendingType DEF DeleteLeases, At, LeaseInv
<1>2. WishOf(req'[p]) = {} /\ \A q \in Processes \ {p} : req'[q] = req[q]
  BY <1>1, SettledWishesNothing DEF DeleteLeases
<1>3. leases' = {l \in leases : ~(l.resource = r.resource /\ l.holder = r.holder
                                  /\ l.mode \in r.modes)}
  BY DEF DeleteLeases, delete_leases
<1>4. CASE "writer" \in r.modes
  <2>1. w \in Asked[p]
    BY <1>1, <1>4 DEF Asked, WishOf, WishKind
  <2>2. GrantsOf(leases') =
          {x \in GrantsOf(leases) : ~(x.resource = r.resource /\ x.holder = r.holder)}
    <3>1. ASSUME NEW g \in GrantsOf(leases')
          PROVE  g \in GrantsOf(leases) /\ ~(g.resource = r.resource /\ g.holder = r.holder)
      BY <1>3, <1>4, <3>1, GrantMembership DEF GrantOf
    <3>2. ASSUME NEW g \in GrantsOf(leases), ~(g.resource = r.resource /\ g.holder = r.holder)
          PROVE  g \in GrantsOf(leases')
      BY <1>3, <3>2, GrantMembership DEF GrantOf
    <3>. QED  BY <3>1, <3>2
  <2>3. Promise!GiveUp(p, w)
    BY <1>2, <2>2, FulfilStep DEF Promise!GiveUp
  <2>4. Promise!Act(p)
    BY <1>1, <2>1, <2>3 DEF Promise!Act, Asked
  <2>. QED  BY <2>4 DEF Promise!Next
<1>5. CASE "writer" \notin r.modes
  <2>1. ASSUME NEW g
        PROVE  g \in GrantsOf(leases') <=> g \in GrantsOf(leases)
    BY <1>3, <1>5, GrantMembership
  <2>2. {} \in SUBSET Promise!Lapsed /\ GrantsOf(leases') = GrantsOf(leases) \ {}
    BY <2>1
  <2>. QED  BY <1>1, <1>2, <2>2, AskStep
<1>. QED  BY <1>4, <1>5

LEMMA TickSimulates ==
  ASSUME Tick
  PROVE  Promise!Next
<1>1. \/ clock' = [clock EXCEPT !.frac = @ + 1]
      \/ clock' = [sec |-> clock.sec + 1, frac |-> 0]
  BY DEF Tick
<1>2. leases' = leases /\ req' = req
  BY DEF Tick
<1>3. Promise!Tick
  BY <1>1, <1>2 DEF Promise!Tick
<1>. QED  BY <1>3 DEF Promise!Next

LEMMA NextSimulates ==
  ASSUME LeaseInv, LeaseInv', [Next]_vars
  PROVE  [Promise!Next]_<<clock, GrantsOf(leases), Asked>>
<1>1. ASSUME NEW p \in Processes, Step(p)
      PROVE  Promise!Next
  BY <1>1, AcquireSimulates, TransferSimulates, DeleteSimulates, QuietSimulates DEF Step
<1>2. ASSUME NEW p \in Processes, Request(p) \/ LeaseStatus(p) \/ Abandon(p)
      PROVE  Promise!Next
  BY <1>2, RequestSimulates, QuietSimulates
<1>3. CASE UNCHANGED vars
  BY <1>3 DEF vars, Asked
<1>. QED  BY <1>1, <1>2, <1>3, TickSimulates DEF Next

LEMMA InitSimulates == Init => Promise!Init
<1> SUFFICES ASSUME Init PROVE Promise!Init
  OBVIOUS
<1>1. GrantsOf(leases) = {}
  BY DEF Init, GrantsOf
<1>2. [p \in Processes |-> WishOf(req[p])] = [p \in Processes |-> {}]
  BY DEF Init, WishOf
<1>. QED  BY <1>1, <1>2 DEF Init, Epoch, Promise!Init

\* The statements and transactions on the leases table implement the promise of
\* exclusive writing: a running writer lease ends only by a release or a transfer
\* that names its holder, or in or after the second in which it expires.
THEOREM PromiseKept == Spec => ImplementsPromise
<1>1. LeaseInv /\ LeaseInv' /\ [Next]_vars => [Promise!Next]_<<clock, GrantsOf(leases), Asked>>
  BY NextSimulates
<1>. QED  BY <1>1, InitSimulates, LeaseInvariance, PTL
          DEF Spec, ImplementsPromise, Promise!Spec, Asked

=============================================================================
