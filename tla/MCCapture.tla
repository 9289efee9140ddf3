----------------------------- MODULE MCCapture -----------------------------
(* Instance of CaptureRuns for TLC. *)
EXTENDS CaptureRuns, TLC

\* Runs are interchangeable, and so are the processes of a kind and the addresses.
Symmetry == Permutations(Runs) \cup Permutations(Daemons) \cup Permutations(Tools)
            \cup Permutations(Addresses)

=============================================================================
