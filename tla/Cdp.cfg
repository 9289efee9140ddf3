SPECIFICATION SessionSpec
CONSTANTS
  Ops = {"evaluate", "navigate", "screenshot", "full_page", "pdf", "recording", "trace"}
  Chunks = 3
  expected_frames = 3
  MaxFaults = 2
  MaxNoise = 1
  MaxLoads = 2
  MaxPolls = 2
INVARIANTS SessionInv PageRestored ResultsTrue
PROPERTY Ends
CHECK_DEADLOCK FALSE
