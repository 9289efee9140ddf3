SPECIFICATION Spec
CONSTANTS
  Families = {a, b}
  Samples = {1, 3}
  Policies <- MCPolicies
  MaxRuns = 2
  MaxEvidence = 2
  MaxWrites = 2
  MaxClock = 1
  All = All
INVARIANTS GateInv NotTalkedOver
SYMMETRY Symmetry
