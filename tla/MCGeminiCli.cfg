SPECIFICATION Spec
CONSTANTS
  Cap = 900
  AttemptMax = 818
  CrashWindow = 10
  CrashDelay = 5
  RefreshGate = 60
  RefreshDelay = 3
  QuotaGate = 60
  PreflightMax = 10
  PreflightTimes = {10}
  AttemptTimes = {9, 49, 59, 818}
  MaxTokens = 3
INVARIANTS
  FitsCap
  SwapsOnOwnEvidence
  LeavesNothing
  RefreshKept
CHECK_DEADLOCK FALSE
