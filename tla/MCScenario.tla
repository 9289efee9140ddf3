----------------------------- MODULE MCScenario -----------------------------
(* Instance of ScenarioRecorder for TLC. *)
EXTENDS ScenarioRecorder, TLC

\* Runs, steps and records are interchangeable, and so are processes.
Symmetry == Permutations(Processes) \cup Permutations(Runs)
            \cup Permutations(Steps) \cup Permutations(Records)

=============================================================================
