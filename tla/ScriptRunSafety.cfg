CONSTANTS
  root = root
  nested = nested
  r1 = r1
  r2 = r2
  n1 = n1
  Root = root
  Nested = {nested}
  Items <- TwoAndOne
  Forms <- AllAndAwait
  Stages = 2
  MaxAgents = 2
  Budget = 1
  Limit = 0
  MaxCalls = 1
  MaxPauses = 1
  MaxClock = 1
SPECIFICATION Spec
SYMMETRY ItemSymmetry
INVARIANTS TypeOK HaltEndsTheRun PartsEndFirst DeadlineCountsWork
CHECK_DEADLOCK FALSE
