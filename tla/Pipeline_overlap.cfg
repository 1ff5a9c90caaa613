CONSTANTS
  Caller = {a, b}
  Key = {k, l}
  Verdicts = {0, 1}
  HighValue = TRUE
  MaxConcurrent = 1
  MaxCrashes = 1
  MaxFailures = 0
SPECIFICATION Spec
INVARIANTS MintBacked PathIsWalked ActiveIsRunning
CHECK_DEADLOCK FALSE
