SPECIFICATION Spec
CONSTANTS
  c1 = c1
  c2 = c2
  c3 = c3
  root = root
  nested = nested
  fp1 = fp1
  fp2 = fp2
  NoOne = NoOne
  Calls = {c1, c2, c3}
  Frames = {root}
  FrameOf <- OneFrame
  Fingerprints = {fp1}
  FpOf <- OnePrompt
  Slots = 1
  MaxAgents = 2
  Budget = 1
  MaxTokens = 1
  MaxCached = 1
  MaxSkips = 2
SYMMETRY CallSymmetry
INVARIANTS
  TypeOK
  SkipHonoured
  CacheCountsDoneCalls
PROPERTIES
  PoolSpec
CHECK_DEADLOCK FALSE
