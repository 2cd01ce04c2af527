SPECIFICATION Spec
CONSTANTS
  s1 = s1
  p1 = p1
  p2 = p2
  agents = agents
  plan = plan
  Nothing = Nothing
  Runs = {1, 2}
  SessionOf <- OneSession
  EnvKey = Nothing
  Savers = {p1, p2}
  Sizes = {1}
  Titles = {agents, plan}
  Shapes <- FewShapes
  Limit = 2
  MaxSaves = 2
  MaxFaults = 1
SYMMETRY SaverSymmetry
INVARIANTS
  TypeOK
  CachesAreCurrent
  
PROPERTY OpenRunSurvives
CHECK_DEADLOCK FALSE
