\* A port fails, then comes up, and is probed.
SPECIFICATION Spec
CONSTANTS
  sec = sec
  eth = eth
  log = log
  Council <- MCFastPath
  FastPath <- MCFastPath
  Threshold = 1
  Councils <- OneVoter
  Actions <- Retry
  Phases = 3
  MaxActions = 3
  MaxAttempts = 1
  MaxBytes = 9
  OutputSizes = {1}
  MaxCost = 9
  ClaimPrompt = FALSE
  MayAbort = FALSE
  StoreErrors = FALSE
INVARIANTS HeldBackUntilStarted
CHECK_DEADLOCK FALSE
