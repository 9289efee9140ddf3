SPECIFICATION Spec
CONSTANTS
  Processes = {p1, p2}
  Runs = {r1, r2}
  Steps = {s1, s2}
  Records = {e1}
  NoStep = NoStep
  Idle = Idle
SYMMETRY Symmetry
INVARIANTS ScenarioInv StepsClosed
PROPERTY ClosedRun
