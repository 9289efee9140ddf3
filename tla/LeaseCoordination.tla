-------------------------- MODULE LeaseCoordination --------------------------
(***************************************************************************)
(* How the processes that share one runtime root (the daemon, the MCP      *)
(* server, CLI commands) coordinate through the lease table: lease_acquire,*)
(* lease_release, lease_transfer, lease_status, and require_instance_access*)
(* in front of every browser operation.  A process serves one request at a *)
(* time, for the holder the request names; steps of different processes    *)
(* interleave between SQL statements.  The clock moves on its own.         *)
(***************************************************************************)
EXTENDS LeaseTable

CONSTANTS
  Processes,      \* processes sharing the runtime root
  Ttls,           \* times to live that callers ask for
  DefaultTtl,     \* DEFAULT_LEASE_TTL_SECONDS
  MaxSec,         \* bound: the clock stops at the end of this second
  Idle            \* the state of a process that serves no request

ASSUME TtlsAssumption == Ttls \subseteq Nat /\ DefaultTtl \in Nat
ASSUME MaxSecAssumption == MaxSec \in Nat

VARIABLES
  clock,      \* current time
  leases,     \* rows of the leases table
  req         \* per process: the request it serves and where it stands in it

vars == <<clock, leases, req>>

Epoch == [sec |-> 0, frac |-> 0]

(***************************************************************************)
(* pc of a request:                                                        *)
(*   list     active_leases has pruned and lists next (access check)       *)
(*   acquire  lease_acquire has read `now`, its transaction comes next     *)
(*   settle   committed; active_leases for the answer comes next           *)
(*   delete   lease_release has pruned, its DELETE comes next              *)
(*   transfer lease_transfer has pruned, its transaction comes next        *)
(*   operate  access granted; the browser operation runs                   *)
(* now is the timestamp read for the pending step (Epoch where none is),   *)
(* access tells a request of require_instance_access from an explicit      *)
(* lease request, to is the receiver of a transfer.                        *)
(***************************************************************************)
RequestState ==
  [pc : {"list", "acquire", "settle", "delete", "transfer", "operate"},
   resource : Instances, holder : Holders, to : Holders,
   modes : SUBSET Modes, ttl : Ttls \cup {DefaultTtl}, now : Time,
   access : BOOLEAN]

ASSUME IdleAssumption == Idle \notin RequestState

TypeOK ==
  /\ clock \in Time
  /\ leases \subseteq LeaseRecord
  /\ req \in [Processes -> RequestState \cup {Idle}]

Init ==
  /\ clock = Epoch
  /\ leases = {}
  /\ req = [p \in Processes |-> Idle]

-----------------------------------------------------------------------------
(* Bookkeeping of a request.                                               *)

At(p, pc) == req[p] # Idle /\ req[p].pc = pc

Start(p, request) ==
  /\ req[p] = Idle
  /\ req' = [req EXCEPT ![p] = request]

\* The request goes on with the timestamp it needs from here on.
GoTo(p, pc, now) == req' = [req EXCEPT ![p] = [req[p] EXCEPT !.pc = pc, !.now = now]]

\* The request is answered, with its result or with an error.
Answer(p) == req' = [req EXCEPT ![p] = Idle]

\* Moments at which granted_at may have been read: after `now`, before the step.
ReadSince(now) == {t \in [sec : now.sec .. clock.sec, frac : 0 .. Fractions - 1] :
                     NotAfter(now, t) /\ NotAfter(t, clock)}

\* The one mode of an acquisition or an access check.
TheMode(p) == IF "writer" \in req[p].modes THEN "writer" ELSE "observer"

-----------------------------------------------------------------------------
(* lease_acquire.                                                          *)

LeaseAcquire(p, i, h, m, ttl) ==
  /\ Start(p, [pc |-> "acquire", resource |-> i, holder |-> h, to |-> h,
               modes |-> {m}, ttl |-> ttl, now |-> clock, access |-> FALSE])
  /\ UNCHANGED <<clock, leases>>

AcquireTransaction(p, granted) ==
  /\ At(p, "acquire")
  /\ LET r == req[p]
         lease == build_instance_lease(r.resource, r.holder, TheMode(p), r.ttl, granted)
         kept == prune_expired_leases(leases, r.now)
     IN  \/ /\ WriterConflict(kept, lease, r.now)
            /\ Answer(p)
            /\ UNCHANGED leases
         \/ /\ ~WriterConflict(kept, lease, r.now)
            /\ IdClash(kept, lease)
            /\ Answer(p)
            /\ UNCHANGED leases
         \/ /\ ~WriterConflict(kept, lease, r.now)
            /\ ~IdClash(kept, lease)
            /\ leases' = acquire_lease(leases, lease, r.now)
            /\ GoTo(p, "settle", Epoch)
  /\ UNCHANGED clock

\* active_leases() for the payload; then the caller of require_instance_access
\* goes on to its operation, a lease request is answered.
Settle(p) ==
  /\ At(p, "settle")
  /\ leases' = prune_expired_leases(leases, clock)
  /\ IF req[p].access THEN GoTo(p, "operate", Epoch) ELSE Answer(p)
  /\ UNCHANGED clock

-----------------------------------------------------------------------------
(* lease_release, lease_transfer, lease_status.                            *)

LeaseRelease(p, i, h, modes) ==
  /\ Start(p, [pc |-> "delete", resource |-> i, holder |-> h, to |-> h,
               modes |-> modes, ttl |-> DefaultTtl, now |-> Epoch, access |-> FALSE])
  /\ leases' = prune_expired_leases(leases, clock)
  /\ UNCHANGED clock

DeleteLeases(p) ==
  /\ At(p, "delete")
  /\ leases' = delete_leases(leases, req[p].resource, req[p].holder, req[p].modes)
  /\ GoTo(p, "settle", Epoch)
  /\ UNCHANGED clock

LeaseTransfer(p, i, from, to, ttl) ==
  /\ Start(p, [pc |-> "transfer", resource |-> i, holder |-> from, to |-> to,
               modes |-> {"writer"}, ttl |-> ttl, now |-> clock, access |-> FALSE])
  /\ leases' = prune_expired_leases(leases, clock)
  /\ UNCHANGED clock

TransferTransaction(p, granted) ==
  /\ At(p, "transfer")
  /\ LET r == req[p]
         lease == build_instance_lease(r.resource, r.to, "writer", r.ttl, granted)
         rest == AfterTransferDelete(leases, r.resource, r.holder, r.now)
     IN  \/ /\ TransferredRows(leases, r.resource, r.holder, r.now) = {}
            /\ Answer(p)
            /\ UNCHANGED leases
         \/ /\ TransferredRows(leases, r.resource, r.holder, r.now) # {}
            /\ IdClash(rest, lease)
            /\ Answer(p)
            /\ UNCHANGED leases
         \/ /\ TransferredRows(leases, r.resource, r.holder, r.now) # {}
            /\ ~IdClash(rest, lease)
            /\ leases' = transfer_writer_lease(leases, r.resource, r.holder, lease, r.now)
            /\ GoTo(p, "settle", Epoch)
  /\ UNCHANGED clock

\* active_leases() alone.
LeaseStatus(p) ==
  /\ req[p] = Idle
  /\ leases' = prune_expired_leases(leases, clock)
  /\ UNCHANGED <<clock, req>>

-----------------------------------------------------------------------------
(* require_instance_access: list the active leases, then let the operation *)
(* run, acquire the lease it needs, or refuse.                             *)

RequireInstanceAccess(p, i, h, required) ==
  /\ Start(p, [pc |-> "list", resource |-> i, holder |-> h, to |-> h,
               modes |-> {required}, ttl |-> DefaultTtl, now |-> clock, access |-> TRUE])
  /\ leases' = prune_expired_leases(leases, clock)
  /\ UNCHANGED clock

\* The holder's own lease covers the operation.
Covers(lease, h, required) ==
  lease.holder = h /\ (lease.mode = "writer" \/ required = "observer")

DecideAccess(p) ==
  /\ At(p, "list")
  /\ LET r == req[p]
         seen == list_leases(leases, r.resource, r.now)
         covered == \E l \in seen : Covers(l, r.holder, TheMode(p))
         acquires == seen = {} \/ TheMode(p) = "observer"
     IN  \/ covered /\ GoTo(p, "operate", Epoch)
         \/ ~covered /\ acquires /\ GoTo(p, "acquire", clock)
         \/ ~covered /\ ~acquires /\ Answer(p)
  /\ UNCHANGED <<clock, leases>>

\* The browser operation ends.
CompleteOperation(p) ==
  /\ At(p, "operate")
  /\ Answer(p)
  /\ UNCHANGED <<clock, leases>>

-----------------------------------------------------------------------------
(* The environment.                                                        *)

\* The process dies or a statement fails (busy database, I/O error): what is
\* committed stays, the request ends.
Abandon(p) ==
  /\ req[p] # Idle
  /\ Answer(p)
  /\ UNCHANGED <<clock, leases>>

Tick ==
  /\ IF clock.frac + 1 < Fractions
     THEN clock' = [clock EXCEPT !.frac = @ + 1]
     ELSE /\ clock.sec < MaxSec
          /\ clock' = [sec |-> clock.sec + 1, frac |-> 0]
  /\ UNCHANGED <<leases, req>>

Request(p) ==
  \E i \in Instances, h \in Holders :
    \/ \E m \in Modes, ttl \in Ttls : LeaseAcquire(p, i, h, m, ttl)
    \/ \E modes \in (SUBSET Modes) \ {{}} : LeaseRelease(p, i, h, modes)
    \/ \E to \in Holders, ttl \in Ttls : LeaseTransfer(p, i, h, to, ttl)
    \/ \E required \in Modes : RequireInstanceAccess(p, i, h, required)

Step(p) ==
  \/ req[p] # Idle /\ \E granted \in ReadSince(req[p].now) :
       AcquireTransaction(p, granted) \/ TransferTransaction(p, granted)
  \/ Settle(p)
  \/ DeleteLeases(p)
  \/ DecideAccess(p)
  \/ CompleteOperation(p)

Next ==
  \/ \E p \in Processes : Request(p) \/ Step(p) \/ LeaseStatus(p) \/ Abandon(p)
  \/ Tick

Spec == Init /\ [][Next]_vars

-----------------------------------------------------------------------------
(* Properties.                                                             *)

\* At every moment, and however the processes' statements interleave, at most
\* one holder has a writer row for an instance (acquire_lease and
\* transfer_writer_lease): expired rows nobody pruned included.
OneWriter ==
  \A a, b \in leases :
    a.mode = "writer" /\ b.mode = "writer" /\ a.resource = b.resource => a = b

\* The timestamps that requests carry were read in the past.
ReadingsPast ==
  \A p \in Processes : req[p] # Idle => req[p].now.sec <= clock.sec

\* Inductive: what the proofs rest on.
LeaseInv == TypeOK /\ ReadingsPast /\ OneWriter

-----------------------------------------------------------------------------
(* The promise: ExclusiveWriter, with the writer rows as the grants and the *)
(* pending transactions as the wishes.                                     *)

GrantOf(r) == [resource |-> r.resource, holder |-> r.holder, expires_at |-> r.expires_at]
GrantsOf(rows) == {GrantOf(r) : r \in {l \in rows : l.mode = "writer"}}

WishKind(pc) == IF pc = "delete" THEN "release"
                ELSE IF pc = "transfer" THEN "transfer" ELSE "acquire"

\* What a request may do to writer rows.
WishOf(r) ==
  IF /\ r # Idle
     /\ r.pc = "transfer" \/ (r.pc \notin {"settle", "operate"} /\ "writer" \in r.modes)
  THEN {[kind |-> WishKind(r.pc), resource |-> r.resource, from |-> r.holder,
         to |-> IF r.pc = "transfer" THEN r.to ELSE r.holder]}
  ELSE {}

Promise == INSTANCE ExclusiveWriter
  WITH grants <- GrantsOf(leases), asked <- [p \in Processes |-> WishOf(req[p])]

\* The statements and transactions on the leases table, interleaved in any order
\* with stale timestamps and crashes, implement the abstract promise: no
\* acquisition ever takes a running writer lease away from another holder.
ImplementsPromise == Promise!Spec

=============================================================================
