\* The owner dies while two calls of another process wait for it.
SPECIFICATION FairSpec
CONSTANTS
  c1 = c1  c2 = c2  c3 = c3  p1 = p1  p2 = p2
  Clients = {c1, c2, c3}
  Procs = {p1, p2}
  ProcOf <- DeadOwner
  NoLock = NoLock
  Mortal = {p1}
  MishapSets <- OnlyDeath
INVARIANTS NoLostAppendEver
CHECK_DEADLOCK FALSE
