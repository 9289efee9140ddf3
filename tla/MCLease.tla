------------------------------- MODULE MCLease -------------------------------
(* Instances of LeaseCoordination for TLC. *)
EXTENDS LeaseCoordination, TLC

CONSTANTS h1, h2, h3

\* Holder ids that differ in letter case or punctuation only get one lease id.
MCStableId(i, h, m) == <<i, IF h = h2 THEN h1 ELSE h, m>>
\* A whole second, whose text comes after the one with a fraction.
MCFractionRank(f) == IF f = 0 THEN 2 ELSE 1
MCIds == Instances \X Holders \X Modes
MCSymmetry == Permutations(Processes)
=============================================================================
