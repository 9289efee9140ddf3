------------------------------ MODULE MCReplay ------------------------------
(* Instance of ReplayBundle for TLC. *)
EXTENDS ReplayBundle, TLC

Symmetry == Permutations(Artifacts)

=============================================================================
