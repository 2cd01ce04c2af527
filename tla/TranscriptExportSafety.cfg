SPECIFICATION Spec
CONSTANTS
  t1 = t1
  t2 = t2
  reporter = reporter
  Targets = {t1, t2}
  Reporters = {reporter}
  Loop = Loop
  Runner = Runner
  Nothing = Nothing
  MaxRows <- TwoMessages
  MaxSessions <- OneCompaction
  MaxEdits = 1
  MaxReports <- OneReport
  MaxFailures = 1
INVARIANTS
  TypeOK
  TranscriptIsWhatWasRead
  StopIsNeverStuck
PROPERTIES
  LastFlushRepairs
CHECK_DEADLOCK FALSE
