SPECIFICATION Spec
CONSTANTS
  a = a
  b = b
  t1 = t1
  t2 = t2
  Children = {a, b}
  Structured = {a, b}
  Isolated = {a}
  ToolCalls = {t1, t2}
  MaxAttempts = 2
  MaxSubmits <- OneSubmits
SYMMETRY Alike
INVARIANTS
  TypeOK
  ToolLivesWithScopes
  AcceptedResultsCount
  ShownWorkSurvives
  BrokerForgets
CHECK_DEADLOCK FALSE
