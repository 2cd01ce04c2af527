SPECIFICATION Spec
CONSTANTS
  r1 = r1
  r2 = r2
  NoRun = NoRun
  Runs = {r1, r2}
  MaxWork = 1
  MaxFailures = 1
  MaxCrashes = 1
SYMMETRY RunSymmetry
INVARIANTS
  TypeOK
  SuccessorsFollowDeadRuns
PROPERTIES
  LifecycleSpec
  ResumeInheritsWork
CHECK_DEADLOCK FALSE
