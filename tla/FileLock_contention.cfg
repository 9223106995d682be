\* Three calls in two processes, one of which may die, with other mishaps two at a time.
SPECIFICATION FairSpec
CONSTANTS
  c1 = c1  c2 = c2  c3 = c3  p1 = p1  p2 = p2
  Clients = {c1, c2, c3}
  Procs = {p1, p2}
  ProcOf <- TwoProcs
  NoLock = NoLock
  Mortal = {p1}
  MishapSets <- Troubles
INVARIANTS TypeOK MutualExclusion NoLostAppend
PROPERTIES RefinesAtomicAppend SurvivorsFinish SurvivorsResolve
CHECK_DEADLOCK FALSE
