------------------------------- MODULE MCGate -------------------------------
(* Two families and two runs in a window of one or two: a run recorded      *)
(* between the gate's two listings may push another out.                    *)
EXTENDS ScenarioGate

Symmetry == Permutations(Families)

Threshold(max, p50, p95, p99, sampled) ==
  [max |-> max, p50 |-> p50, p95 |-> p95, p99 |-> p99, sampled |-> sampled]
\* The default policy, one with every check, and one that asks for nothing it can avoid.
MCPolicies ==
  {[limit |-> 1, allowed |-> {}, min_runs |-> 1, max_assertion_failures |-> 0, max_age |-> -1,
    min_samples |-> 1, thresholds |-> {}],
   [limit |-> 2, allowed |-> {"passed", "running"}, min_runs |-> 2, max_assertion_failures |-> 1,
    max_age |-> 0, min_samples |-> 1, thresholds |-> {Threshold(2, 1, -1, -1, TRUE)}],
   [limit |-> 0, allowed |-> {"passed", "failed"}, min_runs |-> 0, max_assertion_failures |-> 2,
    max_age |-> -1, min_samples |-> 0, thresholds |-> {Threshold(1, 1, 1, 1, TRUE), Threshold(0, 0, 0, 0, FALSE)}]}
=============================================================================
