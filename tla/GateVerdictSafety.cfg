SPECIFICATION Spec
CONSTANTS
  g1 = g1
  g2 = g2
  g3 = g3
  p1 = p1
  plain = plain
  schema = schema
  strict = strict
  good = good
  NoCheck = NoCheck
  Gates = {g1, g2, g3}
  Prompts = {p1}
  PromptOf <- OnePrompt
  Options = {plain, schema}
  AgentOptions <- OneSchema
  JudgeOptions <- AllPlain
  GateOptions <- AllPlain
  Checks = {strict}
  CheckOf <- OneChecked
  Scripts = {{g1, g2}, {g1, g3}, {g2, g3}}
  Results = {good}
  Accepted <- AcceptsGood
  MaxRuns = 2
SYMMETRY GateSymmetry
INVARIANTS
  TypeOK
  FailClosed
  FirstResumeReusesVerdicts
CHECK_DEADLOCK FALSE
