------------------------------ MODULE MCRegistry ------------------------------
(* Instances of InstanceRegistry for TLC. *)
EXTENDS InstanceRegistry, TLC

CONSTANTS u1, u2, v1, pid1

\* v1 is another spelling of u1: two URLs, one endpoint.
MCEndpointOf(u) == IF u = u2 THEN 2 ELSE 1
MCLocalUrl(e) == IF e = 2 THEN u2 ELSE u1
\* Pids differ by name only: the first process gets the first one.
MCPidsFor(n) == IF n = 1 THEN {pid1} ELSE Pids
MCSymmetry == Permutations(Processes)
=============================================================================
