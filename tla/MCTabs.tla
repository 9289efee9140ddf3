-------------------------------- MODULE MCTabs --------------------------------
(* An instance of TabSessions for TLC. *)
EXTENDS TabSessions, TLC

CONSTANTS t1, t2, i1, i2

\* Every instance has a page of its own; the first may have two.
MCHostOf == [t \in Targets |-> IF t = t2 THEN i2 ELSE i1]
MCSymmetry == Permutations(Processes) \cup Permutations(Addresses)
=============================================================================
