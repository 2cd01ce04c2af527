SPECIFICATION FairSpec
CONSTANTS
  c1 = c1
  c2 = c2
  c3 = c3
  root = root
  nested = nested
  fp1 = fp1
  fp2 = fp2
  NoOne = NoOne
  Calls = {c1, c2}
  Frames = {root}
  FrameOf <- OneFrame
  Fingerprints = {fp1, fp2}
  FpOf <- TwoPrompts
  Slots = 1
  MaxAgents = 2
  Budget = 1
  MaxTokens = 1
  MaxCached = 1
  MaxSkips = 1
PROPERTIES
  StopPreventsLaunch
  EveryCallEnds
CHECK_DEADLOCK FALSE
