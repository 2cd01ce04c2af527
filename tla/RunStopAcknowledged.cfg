SPECIFICATION Spec
CONSTANTS
  r1 = r1
  r2 = r2
  NoRun = NoRun
  Runs = {r1}
  MaxWork = 1
  MaxFailures = 0
  MaxCrashes = 0
INVARIANTS
  StoppedRunsDoNotComplete
CHECK_DEADLOCK FALSE
