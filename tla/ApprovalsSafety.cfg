SPECIFICATION Spec
CONSTANTS
  c1 = c1
  c2 = c2
  l1 = l1
  net = net
  disk = disk
  Nobody = Nobody
  Children = {c1, c2}
  Launches = {l1}
  Commands <- SomeCommands
  Setups <- SomeSetups
  MaxCommands = 2
SYMMETRY ChildSymmetry
INVARIANTS
  TypeOK
  FlaggedRunsWereAllowed
  TapsReachWaiters
PROPERTY AskedOnce
CHECK_DEADLOCK FALSE
