\* Three starts, whose accesses to the file may fail, and each of which may be killed.
SPECIFICATION FairSpec
CONSTANTS
  p1 = p1
  p2 = p2
  p3 = p3
  NoProc = NoProc
  Procs = {p1, p2, p3}
  Errors = TRUE
  MayCrash = TRUE
INVARIANTS TypeOK OnePoller
PROPERTIES StartEnds TakesOver
CHECK_DEADLOCK FALSE
