\* Builds, starts and probes that depend on each other, in two plans.
SPECIFICATION Spec
CONSTANTS
  sec = sec
  eth = eth
  log = log
  Council <- MCFastPath
  FastPath <- MCFastPath
  Threshold = 1
  Councils <- OneVoter
  Actions <- Preview
  Phases = 2
  MaxActions = 2
  MaxAttempts = 2
  MaxBytes = 9
  OutputSizes = {1}
  MaxCost = 9
  ClaimPrompt = FALSE
  MayAbort = FALSE
  StoreErrors = FALSE
INVARIANTS NothingRunsOnAFailure SkipsHaveCause
CHECK_DEADLOCK FALSE
