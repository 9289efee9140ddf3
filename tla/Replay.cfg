SPECIFICATION Spec
CONSTANTS
  Artifacts = {a1}
  MaxExports = 3
  MaxConcurrent = 3
  MaxFaults = 1
  MaxCrashes = 1
SYMMETRY Symmetry
CHECK_DEADLOCK FALSE
INVARIANTS ReplayInv AloneKeepsBundle EventsBacked

