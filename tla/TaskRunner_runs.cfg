\* Two plans of up to two actions, abortable at any time, under a prompt that asks for a
\* claim; the last phase is reached at once.
SPECIFICATION FairSpec
CONSTANTS
  sec = sec
  eth = eth
  log = log
  Council <- MCCouncil
  FastPath <- MCFastPath
  Threshold = 2
  Councils <- MCCouncils
  Actions <- Mixed
  Phases = 1
  MaxActions = 2
  MaxAttempts = 2
  MaxBytes = 1
  OutputSizes = {0, 1}
  MaxCost = 1
  ClaimPrompt = TRUE
  MayAbort = TRUE
  StoreErrors = TRUE
INVARIANTS TypeOK CostWithinLimit OutputBounded VerifiedClaim NothingApprovedIsReplanned
PROPERTIES KeyOncePerAttempt LedgerInOrder RunEnds Governed NoStartAfterAbort
CHECK_DEADLOCK FALSE
