SPECIFICATION Spec
CONSTANTS
  Daemons = {d1, d2}
  Tools = {t1}
  Addresses = {a1, a2}
  Runs = {r1, r2, r3}
  NoRun = NoRun
  NoOne = NoOne
  MaxClock = 1
  MaxEvents = 4
SYMMETRY Symmetry
INVARIANT CaptureInv
PROPERTIES ToolTimelineClosed TimelineClosed ResumesRecording
