SPECIFICATION QueueSpec
CONSTANTS
  r1 = r1
  Runs = {r1}
  Requests = {1, 2}
  Nothing = Nothing
  MaxFaults = 1
  MaxCrashes = 1
INVARIANTS
  QueueTypeOK
  AnswersAreTrue
  CarriedOutOnce
PROPERTY RequestsAreConsumed
CHECK_DEADLOCK FALSE
