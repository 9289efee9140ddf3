------------------------------ MODULE LeaseTable ------------------------------
(***************************************************************************)
(* The `leases` table of the runtime's SQLite store and the statements and *)
(* transactions that crates/pengu-mesh-state runs on it, as operators on   *)
(* the set of rows.  Every connection is opened for one operation, so the  *)
(* unit of atomicity is one statement, or one transaction where the code   *)
(* opens one.                                                              *)
(***************************************************************************)
EXTENDS Timestamps

CONSTANTS
  Instances,          \* ids of browser instances (the leased resources)
  Holders,            \* holder ids
  Ids,                \* primary keys of lease rows
  StableId(_, _, _),  \* instance, holder, mode -> primary key; not injective
  MinTtl, MaxTtl      \* bounds of a lease's time to live, in seconds

Modes == {"writer", "observer"}

ASSUME TtlAssumption == MinTtl \in Nat \ {0} /\ MaxTtl \in Nat /\ MinTtl <= MaxTtl
ASSUME IdAssumption ==
  \A i \in Instances, h \in Holders, m \in Modes : StableId(i, h, m) \in Ids

-----------------------------------------------------------------------------
(* Rows.                                                                   *)

LeaseRecord == [resource : Instances, holder : Holders, mode : Modes,
                granted_at : Time, expires_at : Time]

IdOf(r) == StableId(r.resource, r.holder, r.mode)

\* UNIQUE (resource_kind, resource_id, holder_id, mode)
SameKey(a, b) == a.resource = b.resource /\ a.holder = b.holder /\ a.mode = b.mode

ClampTtl(ttl) == IF ttl < MinTtl THEN MinTtl ELSE IF ttl > MaxTtl THEN MaxTtl ELSE ttl

build_instance_lease(i, h, m, ttl, granted) ==
  [resource |-> i, holder |-> h, mode |-> m, granted_at |-> granted,
   expires_at |-> [sec |-> granted.sec + ClampTtl(ttl), frac |-> granted.frac]]

-----------------------------------------------------------------------------
(* Statements.                                                             *)

\* Mutant: leases end when they are granted, not when they expire.
PruneByGrant(rows, now) == {r \in rows : ~TextLE(r.granted_at, now)}

prune_expired_leases(rows, now) == {r \in rows : ~TextLE(r.expires_at, now)}

list_leases(rows, i, now) ==
  {r \in rows : r.resource = i /\ ~TextLE(r.expires_at, now)}

delete_leases(rows, i, h, modes) ==
  {r \in rows : ~(r.resource = i /\ r.holder = h /\ r.mode \in modes)}

\* ORDER BY granted_at ASC LIMIT 1: a writer none is textually older than.
get_writer_lease(rows, i, now) ==
  LET active == {r \in list_leases(rows, i, now) : r.mode = "writer"}
  IN  {w \in active : \A v \in active : TextLE(w.granted_at, v.granted_at)}

\* INSERT ... ON CONFLICT (key) DO UPDATE.  The clause names the unique index
\* only, so a clash of primary keys with a row of another key is an error.
IdClash(rows, lease) == \E r \in rows : ~SameKey(r, lease) /\ IdOf(r) = IdOf(lease)
upsert_lease(rows, lease) == {r \in rows : ~SameKey(r, lease)} \cup {lease}

-----------------------------------------------------------------------------
(* Transactions: what they check after their own prune, and what they leave.*)
(* A failed check rolls the prune back too.                                *)

\* Mutant: acquire_lease does not look for another writer.
NeverConflict(rows, lease, now) == FALSE

WriterConflict(rows, lease, now) ==
  /\ lease.mode = "writer"
  /\ \E w \in get_writer_lease(rows, lease.resource, now) : w.holder # lease.holder

acquire_lease(rows, lease, now) ==
  upsert_lease(prune_expired_leases(rows, now), lease)

TransferredRows(rows, i, from, now) ==
  {r \in prune_expired_leases(rows, now) :
     r.resource = i /\ r.holder = from /\ r.mode = "writer"}

\* Mutant: transfer_writer_lease forgets to delete the previous holder's row.
TransferWithoutDelete(rows, i, from, now) == prune_expired_leases(rows, now)

AfterTransferDelete(rows, i, from, now) ==
  delete_leases(prune_expired_leases(rows, now), i, from, {"writer"})

transfer_writer_lease(rows, i, from, replacement, now) ==
  upsert_lease(AfterTransferDelete(rows, i, from, now), replacement)

=============================================================================
