CONSTANTS
  Caller = {a}
  Key = {k}
  Verdicts = {0, 1}
  HighValue = TRUE
  MaxConcurrent = 1
  MaxCrashes = 3
  MaxFailures = 1
SPECIFICATION PolledSpec
INVARIANTS StageFollowsJournal
PROPERTIES OpenedGetsVerdict
CHECK_DEADLOCK FALSE
