SPECIFICATION FairSpec
CONSTANTS
  r1 = r1
  r2 = r2
  NoRun = NoRun
  Runs = {r1}
  MaxWork = 1
  MaxFailures = 2
  MaxCrashes = 1
INVARIANTS
  AnnouncedIsPersisted
PROPERTIES
  StopEndsRun
CHECK_DEADLOCK FALSE
